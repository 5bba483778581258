----------------------------- MODULE OtaRollout ------------------------------
(***************************************************************************)
(* Firmware updates of one device (server/ota.py, the OTA part of          *)
(* server/app.py, server/http_firmware.py; the device as in                *)
(* esp_client_simulator.py): an operator changes the files in              *)
(* FIRMWARE_UPDATES at any time, also between the server's attestation of  *)
(* a file and the device's download of it.                                 *)
(*                                                                         *)
(* A version is the sequence of its fields; a file name is the sequence of *)
(* the numeric groups found in it; a file's content stands for its size,   *)
(* CRC and hash.  Nothing is awaited while the directory is read, so an    *)
(* ota_check is answered in one step.                                      *)
(***************************************************************************)
EXTENDS Naturals, Sequences, FiniteSetsExt

CONSTANTS
  FileNames,  \* the names an operator may use, in glob order: sequences of groups
  Contents,   \* what a file may contain
  NoFile,     \* content of a file that is not there
  Factory,    \* what the device runs at first
  Current,    \* and the versions it may report for it
  NonNumber,  \* a field of a reported version that is not a number, as in 2.5-rc
  MaxChanges  \* bounds the operator's changes

ASSUME NamesAssumption ==
  /\ FileNames \in Seq(Seq(Seq(Nat) \ {<<>>}))
  /\ NonNumber \notin Nat
  /\ Current \subseteq Seq(Nat \cup {NonNumber})
ASSUME ContentsAssumption == NoFile \notin Contents /\ Factory \notin Contents
ASSUME ChangesAssumption == MaxChanges \in Nat

VARIABLES
  store,      \* content of each file in FIRMWARE_UPDATES
  hold,       \* ota_hold of the device in devices.json
  link,       \* "down", "check" (ota_check under way), "up" (answered)
  offer,      \* the ota_available the device has received or is about to
  dev,        \* the device's handler: "idle" or "downloading"
  c2s,        \* ota_status messages in flight
  otaStatus,  \* state of device_state["ota_status"], "none" if absent
  fw, image,  \* what the device runs: the version it reports and the content
  attested,   \* (history) the pairs of version and content the server has signed
  changes

vars == <<store, hold, link, offer, dev, c2s, otaStatus, fw, image, attested, changes>>

Files == DOMAIN FileNames
NoOffer == <<>>

(***************************************************************************)
(* server/ota.py                                                           *)
(***************************************************************************)
\* The last dotted group, so that the 32 of esp32-fountain-10.0 is not taken; else the last.
ParseVersion(name) ==
  LET dotted == {k \in DOMAIN name : Len(name[k]) > 1}
  IN  name[Max(IF dotted # {} THEN dotted ELSE DOMAIN name)]

\* Mutant: a field that is not a number spoils the version, which then counts as 0.
VersionTupleOrZero(v) == IF \E k \in DOMAIN v : v[k] = NonNumber THEN <<0>> ELSE v

\* int() of each field, 0 for one that is not a number.
VersionTuple(v) == [k \in DOMAIN v |-> IF v[k] = NonNumber THEN 0 ELSE v[k]]

Field(t, k) == IF k <= Len(t) THEN t[k] ELSE 0

\* Field-wise, the shorter tuple padded with zeros.
PaddedGt(ta, tb) ==
  \E k \in DOMAIN ta \cup DOMAIN tb :
    /\ Field(ta, k) > Field(tb, k)
    /\ \A j \in 1..(k - 1) : Field(ta, j) = Field(tb, j)

\* Python's order of tuples, in which a prefix is smaller.
TupleGt(ta, tb) ==
  \E k \in DOMAIN ta :
    /\ \A j \in 1..(k - 1) : j \in DOMAIN tb /\ ta[j] = tb[j]
    /\ k \in DOMAIN tb => ta[k] > tb[k]

\* Mutant: tuples are compared as they are, so that 2.1.0 exceeds 2.1.
VersionGtUnpadded(a, b) == TupleGt(VersionTuple(a), VersionTuple(b))

VersionGt(a, b) == PaddedGt(VersionTuple(a), VersionTuple(b))

\* A file without a number in its name is no image.
Versioned == {f \in Files : FileNames[f] # <<>>}
Images == {f \in Versioned : store[f] # NoFile}
Version == [f \in Versioned |-> ParseVersion(FileNames[f])]

\* Mutant: the last one by name.
LatestByName == CHOOSE f \in Images : \A g \in Images : g <= f

\* list_images() sorts by version, stably, and latest() takes the first.
Latest ==
  CHOOSE f \in Images : \A g \in Images :
    /\ ~TupleGt(VersionTuple(Version[g]), VersionTuple(Version[f]))
    /\ VersionTuple(Version[g]) = VersionTuple(Version[f]) => f <= g

\* Mutant: the newest image is offered to a device that runs another version.
HasNewerOther(v) == Images # {} /\ Version[Latest] # v

\* newer_than() finds an image.
HasNewer(v) == Images # {} /\ VersionGt(Version[Latest], v)

Versions == {Version[f] : f \in Versioned}

TypeOK ==
  /\ store \in [Files -> Contents \cup {NoFile}]
  /\ hold \in BOOLEAN
  /\ link \in {"down", "check", "up"}
  /\ offer = NoOffer \/ offer \in [file : Versioned, version : Versions, content : Contents]
  /\ dev \in {"idle", "downloading"}
  /\ dev = "downloading" => offer # NoOffer
  /\ c2s \in Seq({"downloading", "applied", "failed"}) /\ Len(c2s) <= 2
  /\ otaStatus \in {"none", "downloading", "applied", "failed"}
  /\ fw \in Current \cup Versions
  /\ image \in Contents \cup {Factory}
  /\ changes \in 0..MaxChanges

Init ==
  /\ store = [f \in Files |-> NoFile] /\ changes = 0
  /\ hold \in BOOLEAN
  /\ link = "down" /\ offer = NoOffer /\ dev = "idle" /\ c2s = <<>>
  /\ otaStatus = "none"
  /\ fw \in Current /\ image = Factory
  /\ attested = {}

\* An operator puts, replaces or removes a file.
ChangeFile(f, c) ==
  /\ changes < MaxChanges /\ changes' = changes + 1
  /\ store[f] # c
  /\ store' = [store EXCEPT ![f] = c]
  /\ UNCHANGED <<hold, link, offer, dev, c2s, otaStatus, fw, image, attested>>

(***************************************************************************)
(* The connection, and the answer to its session proof                     *)
(***************************************************************************)
Connect ==
  /\ link = "down"
  /\ link' = "check"
  /\ UNCHANGED <<store, hold, offer, dev, c2s, otaStatus, fw, image, attested, changes>>

OtaHeld ==
  /\ link = "check" /\ hold
  /\ link' = "up"
  /\ UNCHANGED <<store, hold, offer, dev, c2s, otaStatus, fw, image, attested, changes>>

\* Mutant: the status of an earlier download is kept.
OtaNoneKeepsStatus ==
  /\ link = "check" /\ ~hold /\ ~HasNewer(fw)
  /\ link' = "up"
  /\ UNCHANGED <<store, hold, offer, dev, c2s, otaStatus, fw, image, attested, changes>>

OtaNone ==
  /\ link = "check" /\ ~hold /\ ~HasNewer(fw)
  /\ link' = "up"
  /\ otaStatus' = "none"
  /\ UNCHANGED <<store, hold, offer, dev, c2s, fw, image, attested, changes>>

OtaOffer ==
  /\ link = "check" /\ ~hold /\ HasNewer(fw)
  /\ link' = "up"
  /\ offer' = [file |-> Latest, version |-> Version[Latest], content |-> store[Latest]]
  /\ attested' = attested \cup {<<Version[Latest], store[Latest]>>}
  /\ UNCHANGED <<store, hold, dev, c2s, otaStatus, fw, image, changes>>

OnOtaCheck == OtaHeld \/ OtaNone \/ OtaOffer

\* _on_ota_status: the newest status is kept.
OnOtaStatus ==
  /\ c2s # <<>>
  /\ otaStatus' = Head(c2s) /\ c2s' = Tail(c2s)
  /\ UNCHANGED <<store, hold, link, offer, dev, fw, image, attested, changes>>

(***************************************************************************)
(* The device                                                              *)
(***************************************************************************)
StartDownload ==
  /\ offer # NoOffer /\ dev = "idle"
  /\ dev' = "downloading"
  /\ c2s' = Append(c2s, "downloading")
  /\ UNCHANGED <<store, hold, link, offer, otaStatus, fw, image, attested, changes>>

\* Mutant: the device does not compare what it has got with the attestation.
VerifiedAnyway == store[offer.file] # NoFile

\* size, crc32 and sha256 of what the HTTP server hands out now are the attested ones.
Verified == store[offer.file] = offer.content

Applied ==
  /\ dev = "downloading" /\ Verified
  /\ fw' = offer.version /\ image' = store[offer.file]
  /\ c2s' = Append(c2s, "applied")
  /\ dev' = "idle" /\ offer' = NoOffer
  /\ UNCHANGED <<store, hold, link, otaStatus, attested, changes>>

\* Another content, or (as the firmware reports it, http_firmware.py:71) no answer.
Failed ==
  /\ dev = "downloading"
  /\ c2s' = Append(c2s, "failed")
  /\ dev' = "idle" /\ offer' = NoOffer
  /\ UNCHANGED <<store, hold, link, otaStatus, fw, image, attested, changes>>

\* Mutant: the device's download goes on without its connection.
LinkLostDownloadsOn ==
  /\ link # "down"
  /\ link' = "down" /\ offer' = NoOffer /\ c2s' = <<>>
  /\ UNCHANGED <<store, hold, dev, otaStatus, fw, image, attested, changes>>

\* The connection ends, by a reboot of the device or otherwise: what was in flight is
\* lost, and the handler of the offer ends with it.  The server keeps ota_status.
LinkLost ==
  /\ link # "down"
  /\ link' = "down" /\ offer' = NoOffer /\ dev' = "idle" /\ c2s' = <<>>
  /\ UNCHANGED <<store, hold, otaStatus, fw, image, attested, changes>>

\* device_state is in memory only.
ServerRestart ==
  /\ link' = "down" /\ offer' = NoOffer /\ dev' = "idle" /\ c2s' = <<>>
  /\ otaStatus' = "none"
  /\ UNCHANGED <<store, hold, fw, image, attested, changes>>

Next ==
  \/ \E f \in Files, c \in Contents \cup {NoFile} : ChangeFile(f, c)
  \/ Connect
  \/ OnOtaCheck \/ OnOtaStatus
  \/ StartDownload \/ Applied \/ Failed
  \/ LinkLost \/ ServerRestart

Safety == Init /\ [][Next]_vars

\* Devices reconnect, answer and finish a download one way or the other; the server's
\* loop runs.  Nothing is assumed of the operator, and no connection has to break.
Fairness ==
  /\ WF_vars(Connect) /\ WF_vars(OnOtaCheck) /\ WF_vars(OnOtaStatus)
  /\ WF_vars(StartDownload) /\ WF_vars(Applied \/ Failed)

Spec == Safety /\ Fairness

(***************************************************************************)
(* Properties                                                              *)
(***************************************************************************)
\* The order of versions, written independently of the code: fields below Base are the
\* digits of a number; one that is missing, or not a number, is 0.
Base == 64
Digit(v, k) == IF k \in DOMAIN v /\ v[k] # NonNumber THEN v[k] ELSE 0
Weight(v) == ((Digit(v, 1) * Base + Digit(v, 2)) * Base + Digit(v, 3)) * Base + Digit(v, 4)

\* Whatever files are added, replaced or removed, and however often the connection
\* breaks, a device never goes back to an older version nor installs the one it has.
OnlyUpgrades == [][fw' # fw => Weight(fw') > Weight(fw)]_vars

\* The image offered is the newest there is: the order list_images() sorts by agrees
\* with the one updates are judged by.
OfferIsNewest ==
  [][link = "check" /\ offer' # NoOffer =>
       \A f \in Images : Weight(Version[f]) <= Weight(offer'.version)]_vars

\* What a device runs under a version is a content the server has signed for that
\* version, also when the file was replaced between the attestation and the download.
RunsAttested == image # Factory => <<fw, image>> \in attested

\* A download pauses the pollers of the device (app.py:239); it does not do so for
\* ever: a connected device whose status is "downloading" gets another status.
Paused == link = "up" /\ otaStatus = "downloading"
PollersResume == Paused ~> ~Paused
==============================================================================
