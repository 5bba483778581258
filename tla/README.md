# TLA+ models of the Fountain server

The program is an asyncio server for ESP32 fountain controllers: devices keep one authenticated WebSocket
each to the server (`fountain_proto/`), an application layer records telemetry, polls logs and pressure
history and offers firmware (`server/`), and an admin web page shows and controls it all. Everything runs on one
event loop, so tasks interleave **only at awaits**; the models take that as their grain: an action is what one task
does between two awaits.

## Inventory

| component | state | operations | talks to | hard behaviour |
|---|---|---|---|---|
| Connection life cycle (`fountain_proto/server.py`) | `sessions[device]`, one handler task per WebSocket, `online` flag via hooks | upgrade, handler, receive loop, watchdog, cleanup, `_close_quietly` tasks | DeviceSession, app hooks, websockets library | overlapping connections of one device, late ends of replaced sessions, half-open TCP, silent peers |
| Device session (`fountain_proto/session.py`) | nonce, kid/key, `_s2c_seq`, `_msg_seq`, `_pending`, `negotiated`, `last_rx_ms` | handshake, `request`, `send`, `_dispatch`, `run` | device, app callbacks | concurrent requests, timers racing answers, suspended sends, closing socket, use before the handshake |
| Watchdog (`server.py`, `app.py`) | `last_rx_ms`, shadow values with receive times | `_heartbeat_watchdog`, `_idle_timeout_ms`, `_dp_merge` | session, shadow | windows chosen from stale evidence, unannounced mode switches, slow cadence |
| Authentication (`fountain_proto/auth.py`) | `AntiReplay._last` | sign, verify, check | session | strictly increasing sequence under concurrency |
| Device registry, envelope, catalogue | read-only tables | lookup, build | session | none (data) |
| Log poller (`app.py`) | poller-local cursor and boot id, JSONL files, UI ring | `_poll_logs`, `_log_store` | session, files | reconnects within one boot, lost acknowledgements, timeouts |
| History poller (`app.py`) | `hist`, `hist_i`, `hist_seq`, `hist_boot` in the device state | `_poll_history`, `_hist_add` | session, web API | reboots between batches, two pollers on one cursor, ring eviction |
| Live chart (`index.html`) | `HIST`, `histLastI`, `HIST_SEQS`, `CUR` | `pollHistory`, `pickDevice` | `/api/history` | overlapping fetches, device switch, reboot, server restart |
| Value shadow (`app.py`) | `dp`, `dp_ts`, `config`, `ota_status` | `_on_connect`, `_on_dp_report`, `_fetch_config`, `dp_read`, `_on_ota_status` | session, web API | merges after an await, late answers taken for reports, frames of a replaced session, stale download state |
| OTA offer and firmware store (`app.py`, `ota.py`) | directory of images | `_on_ota_check`, `parse_version`, `version_gt`, `newer_than` | session, firmware HTTP | version order, files replaced between attestation and download |
| Firmware HTTP (`http_firmware.py`) and `serve()` (`app.py`) | listener thread, handler threads, kernel backlog, phase of start and stop | start, stop, serve | device, admin page, WebSocket server | clients that stall in the TLS handshake, failing starts, a stop that blocks the event loop |
| Admin web (`web.py`) | session tokens with expiry, their file | login, logout, API | app | expiry, restart, failed and torn saves |
| Simulator, maintenance client, start-up, static data | – | – | – | environment or plain I/O |

What makes each one correct: the registry promises newest-wins and a truthful online flag; the session
promises that a call gets its own answer or a timeout, and that what it signs is never refused; the watchdog promises
to drop dead devices and to keep healthy ones; the pollers promise every record or sample once, gaps announced (what they do not keep of it is under Findings); the
chart promises to show what the server has; the shadow promises values no older than the connection; the
download server promises that no client holds up another; the admin page promises that no restart prolongs a login and that a logout counts.

## Modules

| module | models | checked by |
|---|---|---|
| `SessionRegistry` | what `self.sessions` promises (abstract): register, end | refined by `FountainServer` |
| `FountainServer` | `_handler` and the handshake of all connections of all devices | `MCFountainServer` |
| `FountainServerProofs` | TLAPS proofs: invariants and the refinement | – |
| `DeviceSession` | concurrent requests, handshake and device on one session | `MCDeviceSession` |
| `DeviceSessionProofs` | TLAPS proofs: own answers, signing order, futures | – |
| `IdleWatchdog` | watchdog and idle window against the firmware's cadences, in time | `MCIdleWatchdog` |
| `IdleWatchdogProofs` | TLAPS proofs for every window and cadence | – |
| `HistoryLog` | what the pressure history promises (abstract) | refined by `HistoryPoller` |
| `HistoryPoller` | `_poll_history` of successive sessions on one cursor, device ring, reboots | `MCHistoryPoller` |
| `HistoryPollerProofs` | TLAPS proofs: the refinement of `HistoryLog`, no duplicates without a late answer | – |
| `LiveChart` | `_hist_add`'s list, `/api/history`, the page's `pollHistory` and `pickDevice` | `MCLiveChart` |
| `LogPoller` | `_poll_logs`, `_log_store`, the previous-boot slot | `MCLogPoller` |
| `LogPollerProofs` | TLAPS proofs: records stored once, slots released in time | – |
| `OtaRollout` | `FirmwareStore`, `_on_ota_check`, `_on_ota_status` against an operator and a downloading device | `MCOtaRollout` |
| `DeviceShadow` | `dp` and `config` of a device: reports, snapshot, `dp_read`, late answers, a change of sessions | `MCDeviceShadow` |
| `DeviceShadowProofs` | TLAPS proofs: how old a shown value can be | – |
| `AdminSessions` | login sessions of `AdminWeb` and their file over restarts and crashes | `MCAdminSessions` |
| `FirmwareHttp` | `FirmwareHTTPServer` with stalling clients, and `FountainAppServer.serve()` | `MCFirmwareHttp` |
| `AdminWebProofs` | TLAPS proofs about `AdminSessions` (terms, refusals, surviving logins) and `LiveChart` (nothing drawn twice, nothing missed) | – |
| `FirmwareProofs` | TLAPS proofs about `OtaRollout` (attestation, no downgrade, the newest image offered, the order of versions) and `FirmwareHttp` (all is down when `serve()` is over) | – |

Mutant operators stand beside the definitions they mutate; each is a plausible slip, used to show that the
property it is paired with does depend on the code.

The two modules that share a proof module with another, `LiveChart` and `FirmwareHttp`, have names of their own for what
the others call `Init`, `Next`, `Spec` and `TypeOK` (`ChartInit`, `HttpInit`, ...). They share nothing else with them.

### FountainServer

`phase[c]` is where the task of connection `c` stands in `_handler`: `hello` and `proof` are the two `recv()` of
`DeviceSession.handshake`, `leaving` a `ws.close()` followed by `return False`, `ack`/`refusing`/`answer` the sends
that were suspended because the peer does not drain its socket, `run` the receive loop beside the watchdog, `stopping`
the interval between the first of the two ending and the handler's `finally`, `gone` the end. `sessions` is
`self.sessions`; `closeTask[c]` is the `_close_quietly` task the upgrade of `c` scheduled for the session it popped;
`online` is the application's flag, written by the connect and the disconnect hook. `ws` is the library's connection
state. The anti-replay and the MAC are abstracted to "accepted" or "refused" (nondeterministic); time is left out: a
deadline may pass whenever its await is pending.

Refinement: a connection shows as `fresh` (not begun), `current` (it holds the slot), `replaced`, or `ended`. Under
`Fairness` the server implements `SessionRegistry!Spec`, including that replaced connections end.

### DeviceSession

`call[r]` is the `request()` of caller `r`, `pending` the dictionary of futures, `result` what was set on them,
`s2c`/`c2s` the frames in flight in order (TCP neither loses nor reorders), `device`, `devLast`, `refused` the device
as `esp_client_simulator.py` has it. `await ws.send` writes the frame before it suspends, so signing and writing are one
step. A request's tag identifies it whatever its `msg_id`: `ReplyIsOwn` compares tags, so it does not hold by the
shape of the model.

### IdleWatchdog

Time is a grid of 5 s ticks (the watchdog's interval). `rxAge` and `age` are ages of `last_rx_ms` and of the
shadow's mode points, saturated above the largest window; `timer` the watchdog's sleep; `due`, `missed`, `switched`
belong to the firmware: a `dp_report` every 10 s in normal mode, every 60 s on the slow grid, late by at most `Jitter`,
at most `MaxMissed` in a row not sent, and the mode may change unannounced. `alive` ends with a power loss.

### HistoryPoller

`histBoot`, `histSeq`, `hist` are the entries of the device state that all pollers of a device share; `gaps` holds what the
gap events have named. A batch carries the answering boot, the bounds of the ring and the samples above the cursor the
*request* carried; `ProcessBatch` is everything the poller does between the answer and its next sleep. An answer that is in flight when its
connection is replaced may still arrive, for the handler of the old connection receives until its socket is closed (`server.py:127-137`); one in flight when the
registered session ends is lost with it. Refinement: `hist` is `HistoryLog!log`, `gaps` is `HistoryLog!holes`, `session` counts the connections. The two history
variables say what a late answer does to the log: `late` has the replaced sessions that had one read, `start` is where the cursor last fell
back. `HistoryLog` lets the log start anew only at such an answer, once for each replaced connection, and announces the holes as far as a late answer has not moved the
cursor. Where the record of a boot begins it leaves free: the code asks the first request of a boot with the cursor of the one before (Findings). The cap of the list and its
order by time are in `LiveChart`.

### LiveChart

A sample has the insertion id and sequence number of the code; `boot` and `run` tell apart samples that the code numbers
alike, so `BelowLastIsShown` can ask whether *this* measurement is drawn. Time is the position in the sorted list: a live
sample goes to the end, one read back anywhere after the last one read back. `AddSample` is the body of the loop in
`pollHistory` and `AddSamples` the loop, a recursive function over the positions of the answer like `Filter`, the list comprehension
of `api_history`. A sample is `Known` when its number is in `HIST_SEQS`; after a reboot of the device the page drops such
samples, and the properties except them and no others.

### LogPoller

`cursor` and `bootId` are the poller's locals, `file` the JSONL files with the session that appended each record, `slot` the device's flash slot, `released` what the
device has dropped because it was acknowledged. The simulator never reboots or overflows; ring and slot follow the fields the
code reads (`overflow`, `first_seq_available`, `available`). The disk may fail in the middle of an append: that ends the poller, except
in the best-effort part, where the slot is then not acknowledged. An answer holds the first `PrevMax` records of the slot (`Prev`), 128 in the code; a slot may hold more,
and `AnswerAck` releases it as a whole. `released` keeps each slot as it was when it was dropped.

### OtaRollout

`store` is the FIRMWARE_UPDATES directory, which an operator changes at any time; a file's content stands for what is computed from it
(size, CRC, hash), so an attestation of a file caught in the middle of a copy is one more content. `offer` is the `ota_available` from the moment it is sent
until the device's handler is done with it; `fw` and `image` are the version the device reports and the content it has installed. `list_images` sorts by the
bare tuples (`TupleGt`) and `newer_than` judges by padded ones (`VersionGt`): both are modelled as they are, and judged by `Weight`, which reads
a version as a number. A field that is no number is `NonNumber`; `VersionTuple` makes it 0, as `int()` with its `ValueError` does. File names only give digits, but a device reports what it
likes (`Current`). The device is the simulator, except that a download that gets no answer is reported as `failed`, as the firmware does
(`http_firmware.py:71`); the simulator's receive task dies of it. Every offer is acted upon: a device that ignored one would keep its
`downloading` status, and its pollers paused. The pause itself is left out of `LogPoller` and `HistoryPoller`.

### DeviceShadow

The value of a datapoint is the number of its changes, so newer is greater. `frames[s]` is what the connection of session `s` holds for the
receive loop, in order; `read[r]` a `dp_read` call, the first ones being each session's `_fetch_config`. The answer to a call
only sets a future (`due`), and the caller merges it in a later turn; reports that the receive loop reads in between are
merged first, and the older answer then overwrites them. An answer nobody waits for any more is dispatched by its type, `dp_report`, and merged as one.
Frames of a replaced session may still be read while its socket is closing. `outrun` marks the datapoints
that were last written out of order in one of these two ways; `StaleOnlyIfOutrun` says that no other value is older than
the connection or than one already shown, and `ShadowCatchesUp` that for measured values the next report heals it.

### AdminSessions

A request is handled without an await between its look at the token and the save, so login, logout and expiry are one step each.
`_save_sessions` writes the file in place and swallows `OSError`: a save leaves the new content, the old one, or a torn one
that reads as no session; a crash may strike in it as well. `dead`, `out`, `kept`, `held` and `lost` record what the properties speak of: what the
running server has refused, what a logout was asked for, what a failed save left in the file, what was answered, and what was held
when the server went down with an incomplete save. `LoginsSurvive` says what comes of the answered logins; it is proved (below).

### FirmwareHttp

`phase` follows `serve()`: download server, admin page, WebSocket server, and back in reverse. `listener` is the thread in `serve_forever`,
`backlog` the kernel's queue of connections it has not taken, `handler` the thread of each connection, `client` how much the client has sent. `stop()` waits on
the event loop for the listener thread. A client may stop for good anywhere, and `timeout = 30` ends the wait for it; one that sends
a byte every 29 seconds is left out (a client's progress is finite).

## Runs

| run | question | bounds |
|---|---|---|
| `server` | do overlapping connections keep slot, online flag and closing right; is the registry implemented; do handshakes end; do dead connections lose their slot? | 2 devices, 3 connections of one of them: a late end of one replaced session while another is being replaced needs three. The other device must stay untouched; what two devices do side by side is independent but for the dictionary, and the proofs cover any number |
| `server_online` (violation) | is a device only online while it has a session? | 2 connections |
| `session` | do answers reach their own call, are signed messages in order, are futures kept right, do calls end? | 2 callers, 3 requests: a late answer, its successor and a concurrent call |
| `watchdog` | are healthy devices kept, and silences bounded? | default windows, in ticks of 5 s; one missed report, one tick of jitter |
| `history` | is the history an ascending log with announced holes but for late answers; are samples taken while device and poller live? | ring 2, 4 samples a boot, 2 boots, 2 sessions: evictions, a reboot, and the late answer of an old poller beside a new one |
| `chart_once` | is a sample read back ever drawn twice, over a device change, a reboot and a server restart? | 2 devices, 2 boots, 2 server runs, 2 samples, 1 fetch |
| `chart_live` | does every sample reach the chart, and those read back once, across a reboot of the device too, but for the known numbers? | 3 samples, list cut at 2, 2 boots, 2 overlapping fetches: a sample is cut before it is fetched, and the first number comes twice |
| `log` | is each record stored once a session; is a slot released before what was answered of it is on file; do records arrive? | ring 2, batch 1, slot of up to 2 with answers of 1, 3 records, 2 boots, 2 sessions: a backlog of two batches that overflows, a slot larger than an answer, disk errors anywhere |
| `ota` | does a device only run what was attested, only go forward, get the newest offered, and do pollers resume? | 4 file names (one with a number before its version, two equal versions of different length, one that is no image), devices that report `1.0.0` or a version with a field that is no number, 2 contents, 3 changes of the directory: enough to put a newest image and a second one and to remove or replace either |
| `shadow` | how old can a shown value be, and does it heal? | one measured and one configuration value, 2 changes each, 2 sessions, one read of the page beside each snapshot, one frame in flight on a connection: an answer overtaken by a report, one merged after its session was replaced, one that comes too late |
| `admin` | does a restart prolong a session, does a refused token stay refused? | 3 tokens (symmetric), terms of 2 in 4 units of time: a login, its logout with a failed save, and a later save over it |
| `http` | can a client hold up others, the end of its thread, or the stop; is all down after serve()? | 3 clients, backlog of 2: a full backlog behind a stalled client |

## Findings

The violation is a finding (`PROJECT.json`, "findings"):

* **`OnlineHasSession`** – `_handler` runs the connect hook without asking whether the session is still the registered
  one. A replaced session whose proof is still processed after its successor has failed marks the device online
  although there is no session, and its own end does not undo it.

### Statements the code does not keep

Docs and comments of the repository say the following; the modules state it beside their properties, in the same words, and TLC
finds each violated in the instance of the component's run (no run is spent on them):

* **`FastWindowDetects`** (`IdleWatchdog`) – `server.py:42`: "Detection in ~20 s". Evidence of normal operation counts for 15 s (`app.py:133`), and it comes
  in the same messages that end the silence, so a silence of more than 20 s always meets the slow window: a dead device is noticed
  after 150 s. `OnlySlowKicks` proves it for all `Fresh <= Fast`. The test of the fast window (`test_integration.py:191`) sets it to 1.2 s, where it does decide.
* **`HealthyNeverKicked`** with `MaxMissed = 2` – `app.py:39` wants the slow window to cover two missed slots of 60 s and jitter. Two misses in a row are 180 s of
  silence, and the window is 150 s. It covers one, which is what the run `watchdog` checks.
* **`StoredOnce`** (`HistoryPoller`) – `README.md:79`: "Samples are deduplicated by seq". `_poll_history` takes `next_seq <= hist_seq` for a reboot (`app.py:328`). The answer of a replaced
  session, read after the new poller has moved the shared cursor on, satisfies it: the cursor falls back, and samples are stored twice. Nothing else
  stores one twice (`OnceUnlessLate`), and it happens at most once for each replaced session (`RefinesLog`).
* **`BootIsReadWhole`** (`HistoryPoller`) – `app.py:306-308`: a change of boot resets the cursor, and `README.md:82`: gaps are filled. After a reboot the first `history_batch` was asked for
  with the old boot's cursor and is processed all the same: the new boot's samples up to that cursor are in the ring and never asked for.
* **`ReleasedIsWhole`** (`LogPoller`) – `README.md:73`: the log of the previous boot is recovered. It is read once, with at most 128 records, and released as a
  whole (`app.py:255-259`). What the slot holds beyond them is lost.
* **`RestartEndsSessions`** (`AdminSessions`) – `web.py:16-17`: sessions are "in-memory; expired on restart". `web.py:52` keeps them in a file, and a
  login is good for its whole term (`LoginsLast`).

Observations the models show as well, on which no run is spent:

* `ota.py:16` says that the version is the first dotted group of a file name; `parse_version` takes the last.
* A request made between the registration of a session and its hello (`server.py:85` hands the session out from
  the registration on) is written ahead of the `hello_ack`; the device takes it for the `hello_ack` and gives up
  (`DeviceSession`: `device = "failed"`).
* `pollHistory` adds an answer to whatever device is picked by then: a chart may hold samples of two devices.
* After a server restart `hist_i` starts again at 1, and an open page goes on asking above its old maximum.
* A device that reports `2.5-rc` counts as `2.0` and is offered `2.1` (`ota.py:50-53`).
* `HIST_SEQS` is keyed by the number alone (`index.html:397`): the page drops samples of a new boot whose number it knows.
* The log cursor is lost with the session (`app.py:230`): a reconnect within one boot appends again what the ring still holds.
* The answer to a `dp_read` may overwrite a newer report read in the same turn of the loop, and a snapshot or a frame of a replaced session may bring
  values into the shadow that its successor has just cleared (`app.py:161`, `:192`, `:453`). A measured value heals with the
  next report, a configuration value with its next change. A snapshot that fails is not asked for again.
* `web.start()` stands outside the `try` of `serve()` (`app.py:469`): if it fails, the download server keeps running (`phase = "web_failed"`).
* A logout whose save fails is undone by the next restart (`kept`); a crash in the middle of any save ends all logins.
* One time-out of `log_read` ends the poller of a session that stays connected (`LogPoller`: `at = "over"`).

## Fairness

* `FountainServer`: deadlines of `wait_for` fire; a closing socket ends up closed (the library's close timeout bounds
  the closing handshake); tasks that can run do. Nothing is assumed of the peer or of a suspended send whose socket
  is open. The watchdog is not assumed to end a session either.
* `DeviceSession`: the timer of `wait_for` fires, runnable callers run, a closing socket closes. The device need not answer.
* `IdleWatchdog`: time passes, and the watchdog task runs when its sleep is over.
* `HistoryPoller`: the poller's task runs, and its wait ends, by an answer or by the time-out. Nothing is assumed of the device.
* `LogPoller`: the poller's task runs and a connected device answers. In both a time-out may come first; the liveness properties then
  hold because the poller has ended, which they say.
* `OtaRollout`: devices reconnect, act upon an offer and finish a download one way or the other; the server's loop runs. No connection has to
  break and no operator has to act.
* `FirmwareHttp`: the listener, the handler threads and the clean-up of `serve()` run. Clients need not do anything.
* `DeviceShadow`: the receive loops and the callers run, and a connected device goes on reporting.
* `LiveChart`: the page's interval fires (weak); a fetch may fail, but not for ever (strong fairness of answer and receipt).

## Proofs

Every safety property of the passing runs is proved for all values of the constants, some under a hypothesis that the theorem states; what is only model-checked is liveness (see
the end of this section). The assumptions on constants are the named `ASSUME`s of the modules, which TLC evaluates in each run: bounds are
natural numbers (`HistoryPoller`: rings, samples and boots at least one; `LiveChart`, `FirmwareHttp`: all at least one),
and the file names of `OtaRollout` are
sequences of numbers, and `NonNumber` is none (`NamesAssumption`). A hypothesis beyond these stands in the theorem itself and is named below. Each invariant was
checked by TLC before it was proved.

**`FountainServerProofs`** proves, for any devices, connections and assignment, `Safety => []` of `TypeOK`,
`RegisteredIsServed`, `CurrentIsOnline`, `ReplacedIsClosing`, and `Safety => Registry!Safety`. `StepEffect` first
reduces the steps of the handler to a few kinds of effect on slot, flag and socket, so that the induction has a
case per kind and not per action. The inductive invariant adds to the four properties that a scheduled close names a
connection of the same device that has lost its slot, and that a connection that has not begun holds no slot: without it a
popped session could be the one that is current. The refinement is proved for the initial states and for each effect,
which is a `Register`, an `End` or a stutter.

**`DeviceSessionProofs`** proves all five safety properties of a session for any callers and requests. `NeverRefused` needs
`Ordered`: signed numbers increase along the wire, lie above what the device has seen and up to the counter. `Turns` says that the device speaks in
turn, so that what the receive loop reads after the handshake is a reply and the offer is signed once. `ReplyIsOwn` needs
`Owned`: whatever is on either wire with the `msg_id` of a call in flight bears that call's tag; it is preserved because a new call takes an id above all those
`Issued`. `Counted` keeps the counter of signatures within its type. `DoneStaysDone` is the action property that follows.

**`IdleWatchdogProofs`** proves type correctness; that only the slow window ever ends a session when `Fresh <= Fast`
(evidence cannot be younger than the silence); that, when `Fast <= Slow`, a served session has never been
silent for longer than `Slow + Check`; and `HealthyNeverKicked`, if `Fresh <= Fast` and `LongestSilence <= Slow`, where
`LongestSilence = (1 + MaxMissed) * Grid + Report - 1 + Jitter`. The invariant is that silence and the time to the next report add up to no more than what the
device may still owe after the reports it has missed (`Owed`); the `Report - 1` is a change to the slow grid just before a normal report. The
instance checked has `LongestSilence = 26 <= 30 = Slow`, and TLC finds a healthy device disconnected with `Slow = 25`: the bound is tight.

**`HistoryPollerProofs`** proves that the pollers of all sessions together implement `HistoryLog` (`Safety => Log!Spec`), for any ring, boots, samples and sessions, with the late answers
of replaced sessions, and that without one no sample is stored twice (`OnceUnlessLate`). What carries it: the answers on the wires are in the order of the connections
(`InOrder`), and the current connection's has been passed neither by the cursor nor by a late answer (`CursorIsBehind`), so only a replaced session's batch can make the cursor fall
back; a replaced session has at most one answer left and does not ask again (`Asks`); a request carries a number that the cursor has had (`Message`), and as long as there was no late answer the
number it stands at (`AsksFromCursor`); the cursor is the last entry of the log, or nothing of its boot has been taken since it fell back (`CursorIsLast`), so an append ascends
(`Ascending`). Each step is `HistoryLog`'s `Connect`, one of its ways to read, or a stutter.

**`LogPollerProofs`** proves that a session's poller stores a record once and that a released slot is on file. `StoredOnce` ties the number of copies to the
poller's cursor (one copy or an announced loss up to it, none above); it is inductive with `FromCursor` (a batch on the wire begins at the cursor, or at the
first record of the ring with `overflow` set) and `OneBoot` (a session sees one boot, since a reboot takes the connection with it). `ReleasedIsStored` needs
`SlotKept`, that the slot stays as it is between its reading and its acknowledgement; the size of the slot is free.

**`FirmwareProofs`**, of `OtaRollout`, proves `RunsAttested`, and that a device only ever exchanges its version for one that `version_gt` holds to be greater, for any file
names, contents and number of changes. The invariant says that an offer on its way was signed and is newer than what the device runs; it
is inductive because an offer does not outlive its connection, so no `ota_check` is answered while an older offer can still be applied. Irreflexivity and
transitivity of `version_gt` for versions of any lengths, with fields that are no numbers, make "greater" an order, so that no sequence of updates comes back to a version. `NewestOffered` says that no image of the
directory exceeds an offered one by `version_gt`, although `list_images` sorts by the bare tuples, which order `1.2` below `1.2.0`: a maximum of
the one order is maximal in the other. `Upgrades` and `OffersNewest` state the same of `Weight`, as the run does, under the hypothesis
`SmallVersions`: at most four fields, which is what the expression in `ota.py` lets through, each below `Base`, of the images and of what the device reports first, without which `Weight` is not the number the fields spell.

Of `FirmwareHttp` it proves `HttpTypeOK`, and in it `OverIsDown`: when `serve()` is over nothing of it is left, except after a failed start of the
page. The invariant `UpByPhase` says what is up in each phase, and that only `stop()` asks the listener thread to end. With it the thread that
`http_stop` has seen end cannot come back, and no connection gets into the backlog of a closed socket.

**`DeviceShadowProofs`** proves `ShadowIsSound`. The invariant orders everything of the current session that is on its way into the shadow: frames on
the connection carry values at least as new as what was merged, and the later they come the newer; the same holds of the answers that wait for their
callers, but for the points a report has written meanwhile (`passed`), which is where a value can go back in time. `AnswersAtHome` (an answer is found on the connection its
call was made on) keeps what is left of replaced sessions out of this order.

**`AdminWebProofs`** proves both properties of the run `admin` for any tokens, term and clock, and `LoginsSurvive`, which says how long a login lasts. A token that is dead in memory could come back with
the file, so the invariant for `RefusedStaysRefused` also says that the file holds no live entry of it, unless a failed save left it there; and that a running server
counts as dead whatever it would refuse, for the clock may refuse a token while nobody asks. `LoginsSurvive` needs that the file has every lasting
login whenever the last save is complete or the server is down.

Of `LiveChart` it proves `BackfillDrawnOnce` for any devices, reboots, restarts, changes of the picked device and overlapping fetches: `DrawnOnce` says
that `HIST_SEQS` has the number of every sample read back that is drawn, and that no two drawn samples have the same number, which is
what one turn of the loop preserves whatever the sample (`AddSampleEffect`). `Numbered` (a device's `seq` and the ids in its list do not exceed `hist_i`) keeps the numbers in
their types. `ChartIsSound` is proved under `PicksQuietly`: the server is not restarted, and another device is picked only while no fetch is
under way. Neither can be left out: TLC finds `BelowLastIsShown` violated with a second run of the server, and with a second device that may be picked at any time (the
observations above); so the late answer to a fetch is the only way in which a change of the device spoils the chart. An instance with one device and one run, as in
`chart_live`, satisfies the hypotheses (`ChartSoundAlone`). The invariant is about the fetches under way: none asks above `histLastI` (`AsksForNew`), and an answer holds
every sample up to its newest one that the page has not (`AnswersAll`). So when answers overtake one another, whichever moves `histLastI` brings all
that lies below it, and a sample put into the past later has an id above both.

What a loop over a list computes is proved by induction on the positions, done once with sets: `SetInduction` (a least interval `0..k` that reaches out of a set has a
smaller one inside it, from the library's well-foundedness of the subset ordering), `Iterates` (n steps that map a set into itself can be taken), and from these `FilterEffect` and
`AddSamplesEffect`, what the answer to a fetch holds and what the page makes of it.

Only model-checked:

* the liveness properties, the fairness part of `RefinesRegistry` among them (its safety part is proved): fairness and ENABLED are beyond the prover;
* nothing else: each invariant and action property of a passing run is stated by a theorem.

## Plan

1. `FountainServer`, `DeviceSession`, `IdleWatchdog` with their proofs (done).
2. `HistoryPoller` with `HistoryLog` and its proofs; `LiveChart` (done).
3. `LogPoller` with its proofs (done).
4. `OtaRollout` with its proofs (done).
5. `DeviceShadow` with its proofs (done).
6. `AdminSessions`, `FirmwareHttp`, with their proofs (done).
7. The proofs about `LiveChart` (done).
8. Left: the hazards without a property (`PROJECT.json`, "hazards", with the reason of each).

## Not modelled

MAC computation, canonical JSON, generated message tables (`_messages.py`, `envelope.py`, `catalog.py`), logging, page layout: pure data. Reading
`devices.json`, the configuration of `run_server.py`, start scripts and container files: I/O without state. The maintenance client is a one-shot command line
program that shares nothing with the server. The `/api` handlers besides login, logout and history make one call of the application each and keep nothing. The lists of the
last events, alerts and log records are only shown.

Lemmas about an operator that takes another operator cannot be stated (the prover does not instantiate them), so induction is over sets and
functions, as above.
