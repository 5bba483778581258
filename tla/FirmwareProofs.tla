--------------------------- MODULE FirmwareProofs ----------------------------
(***************************************************************************)
(* Proofs about the firmware updates.                                      *)
(*                                                                         *)
(* OtaRollout, for any file names, contents and number of changes: the     *)
(* types; what a device runs has been attested; it is only ever replaced   *)
(* by a greater version; what is offered is the newest image there is; and *)
(* "greater" is a strict order.                                            *)
(*                                                                         *)
(* FirmwareHttp, for any clients and any length of the backlog: the types, *)
(* and that a server which is over has nothing running.                    *)
(***************************************************************************)
EXTENDS OtaRollout, FirmwareHttp, FiniteSetTheorems, WellFoundedInduction, TLAPS


(***************************************************************************)
(* The inductive invariant: an offer on its way or being downloaded is one *)
(* that was signed, and one that is newer than what the device runs.  The  *)
(* second part needs that an offer does not survive its connection, for    *)
(* the next ota_check is answered for the version the device runs by then. *)
(***************************************************************************)
OfferAttested == offer # NoOffer => <<offer.version, offer.content>> \in attested
OfferNewer == offer # NoOffer => VersionGt(offer.version, fw)
CheckHasNoOffer == link # "up" => offer = NoOffer
IInv == RunsAttested /\ OfferAttested /\ OfferNewer /\ CheckHasNoOffer /\ (dev = "downloading" => offer # NoOffer)

\* The initial states satisfy the invariant: nothing is offered, the device runs
\* what it left the factory with.
LEMMA InitInv == Init => IInv
BY DEF Init, IInv, RunsAttested, OfferAttested, OfferNewer, CheckHasNoOffer

\* Every step of the operator, the server and the device preserves it.
LEMMA StepInv == IInv /\ [Next]_vars => IInv'
<1> SUFFICES ASSUME IInv, [Next]_vars PROVE IInv'
  OBVIOUS
<1> USE DEF IInv, RunsAttested, OfferAttested, OfferNewer, CheckHasNoOffer
<1>1. ASSUME NEW f \in Files, NEW c \in Contents \cup {NoFile}, ChangeFile(f, c) PROVE IInv'
  BY <1>1 DEF ChangeFile
<1>2. CASE Connect
  BY <1>2 DEF Connect
<1>3. CASE OtaHeld
  BY <1>3 DEF OtaHeld
<1>4. CASE OtaNone
  BY <1>4 DEF OtaNone
<1>5. CASE OtaOffer
  <2>1. offer = NoOffer /\ UNCHANGED <<fw, image, dev>>
    BY <1>5 DEF OtaOffer
  <2>2. offer'.version = Version[Latest] /\ offer'.content = store[Latest]
    BY <1>5 DEF OtaOffer
  <2>3. <<offer'.version, offer'.content>> \in attested' /\ attested \subseteq attested'
    BY <1>5, <2>2 DEF OtaOffer
  <2>4. VersionGt(offer'.version, fw)
    BY <1>5, <2>2 DEF OtaOffer, HasNewer
  <2>5. VersionGt(offer'.version, fw')
    BY <2>1, <2>4
  <2> QED
    BY <1>5, <2>1, <2>3, <2>5 DEF OtaOffer
<1>6. CASE OnOtaStatus
  BY <1>6 DEF OnOtaStatus
<1>7. CASE StartDownload
  BY <1>7 DEF StartDownload
<1>8. CASE Applied
  BY <1>8 DEF Applied, Verified
<1>9. CASE Failed
  BY <1>9 DEF Failed
<1>10. CASE LinkLost
  BY <1>10 DEF LinkLost
<1>11. CASE ServerRestart
  BY <1>11 DEF ServerRestart
<1>12. CASE UNCHANGED vars
  BY <1>12 DEF vars
<1> QED
  BY <1>1, <1>2, <1>3, <1>4, <1>5, <1>6, <1>7, <1>8, <1>9, <1>10, <1>11, <1>12
     DEF Next, OnOtaCheck

\* The content a device runs is one the server signed for the version the device
\* reports: replacing a file between attestation and download cannot break this.
THEOREM AttestedOnly == Safety => []RunsAttested
<1>1. IInv => RunsAttested
  BY DEF IInv
<1> QED
  BY InitInv, StepInv, <1>1, PTL DEF Safety

\* A device only ever exchanges its version for one that version_gt holds to be
\* greater, whatever happens to the files and the connection meanwhile.
THEOREM NoDowngrade == Safety => [][fw' # fw => VersionGt(fw', fw)]_vars
<1>1. ASSUME IInv, [Next]_vars PROVE [fw' # fw => VersionGt(fw', fw)]_vars
  <2>1. CASE Applied
    BY <1>1, <2>1 DEF Applied, IInv, OfferNewer
  <2>2. CASE ~Applied
    <3>1. fw' = fw
      BY <1>1, <2>2 DEF Next, vars, ChangeFile, Connect, OnOtaCheck, OtaHeld, OtaNone, OtaOffer,
         OnOtaStatus, StartDownload, Failed, LinkLost, ServerRestart
    <3> QED
      BY <3>1
  <2> QED
    BY <2>1, <2>2
<1> QED
  BY InitInv, StepInv, <1>1, PTL DEF Safety

(***************************************************************************)
(* The order of versions.                                                  *)
(***************************************************************************)
\* What a device may report as its version.
Reported == Seq(Nat \cup {NonNumber})

LEMMA TupleType ==
  ASSUME NEW v \in Reported
  PROVE  /\ VersionTuple(v) \in Seq(Nat)
         /\ Len(VersionTuple(v)) = Len(v)
         /\ DOMAIN VersionTuple(v) = DOMAIN v
<1>1. Len(v) \in Nat /\ DOMAIN v = 1..Len(v) /\ \A k \in DOMAIN v : v[k] \in Nat \cup {NonNumber}
  BY DEF Reported
<1>2. VersionTuple(v) \in [1..Len(v) -> Nat]
  BY <1>1 DEF VersionTuple
<1>3. VersionTuple(v) \in Seq(Nat)
  BY <1>1, <1>2
<1> QED
  BY <1>1, <1>2, <1>3

LEMMA FieldIsNat ==
  ASSUME NEW v \in Seq(Nat), NEW k \in Nat \ {0}
  PROVE Field(v, k) \in Nat
BY DEF Field

LEMMA PaddedIrreflexive ==
  ASSUME NEW a \in Seq(Nat)
  PROVE ~PaddedGt(a, a)
<1> SUFFICES ASSUME NEW k \in DOMAIN a PROVE ~(Field(a, k) > Field(a, k))
  BY DEF PaddedGt
<1>1. Field(a, k) \in Nat
  BY FieldIsNat
<1> QED
  BY <1>1

LEMMA PaddedTransitive ==
  ASSUME NEW a \in Seq(Nat), NEW b \in Seq(Nat), NEW c \in Seq(Nat),
         PaddedGt(a, b), PaddedGt(b, c)
  PROVE PaddedGt(a, c)
<1>1. PICK k \in DOMAIN a \cup DOMAIN b :
        Field(a, k) > Field(b, k) /\ \A j \in 1..(k - 1) : Field(a, j) = Field(b, j)
  BY DEF PaddedGt
<1>2. PICK m \in DOMAIN b \cup DOMAIN c :
        Field(b, m) > Field(c, m) /\ \A j \in 1..(m - 1) : Field(b, j) = Field(c, j)
  BY DEF PaddedGt
<1>3. k \in Nat \ {0} /\ m \in Nat \ {0}
  BY SMTT(30)
<1>4. \A j \in Nat \ {0} : Field(a, j) \in Nat /\ Field(b, j) \in Nat /\ Field(c, j) \in Nat
  BY FieldIsNat
\* A field in which one version exceeds another is a field the greater one has.
<1>5. k \in DOMAIN a /\ m \in DOMAIN b
  BY <1>1, <1>2, <1>3, <1>4 DEF Field
<1>6. CASE k <= m
  <2>1. Field(a, k) > Field(c, k)
    <3>1. CASE k = m
      BY <1>1, <1>2, <1>3, <1>4, <3>1
    <3>2. CASE k < m
      BY <1>1, <1>2, <1>3, <1>4, <3>2
    <3> QED
      BY <1>3, <1>6, <3>1, <3>2
  <2>2. \A j \in 1..(k - 1) : Field(a, j) = Field(c, j)
    BY <1>1, <1>2, <1>3, <1>6
  <2> QED
    BY <1>5, <2>1, <2>2 DEF PaddedGt
<1>7. CASE m < k
  <2>1. Field(a, m) > Field(c, m)
    BY <1>1, <1>2, <1>3, <1>4, <1>7
  <2>2. \A j \in 1..(m - 1) : Field(a, j) = Field(c, j)
    BY <1>1, <1>2, <1>3, <1>7
  <2>3. m \in DOMAIN a
    BY <1>3, <1>5, <1>7
  <2> QED
    BY <2>1, <2>2, <2>3 DEF PaddedGt
<1> QED
  BY <1>3, <1>6, <1>7

\* version_gt is irreflexive, whatever fields are no numbers: the version a device runs is
\* never offered to it again.
THEOREM VersionGtIrreflexive ==
  ASSUME NEW a \in Reported
  PROVE  ~VersionGt(a, a)
BY TupleType, PaddedIrreflexive DEF VersionGt

\* version_gt is transitive, although versions of different length are padded and fields
\* that are no numbers count as 0: a chain of updates, each greater than the one before,
\* never comes back to a version.
THEOREM VersionGtTransitive ==
  ASSUME NEW a \in Reported, NEW b \in Reported, NEW c \in Reported,
         VersionGt(a, b), VersionGt(b, c)
  PROVE  VersionGt(a, c)
<1>1. VersionTuple(a) \in Seq(Nat) /\ VersionTuple(b) \in Seq(Nat) /\ VersionTuple(c) \in Seq(Nat)
  BY TupleType
<1>2. PaddedGt(VersionTuple(a), VersionTuple(b)) /\ PaddedGt(VersionTuple(b), VersionTuple(c))
  BY DEF VersionGt
<1> QED
  BY <1>1, <1>2, PaddedTransitive, Zenon DEF VersionGt

(***************************************************************************)
(* What the directory offers.  A greatest element exists in a finite set,  *)
(* whatever it is ordered by: of the sets of elements above an element,    *)
(* one is minimal, and that one is empty.                                  *)
(***************************************************************************)
LEMMA Maximal ==
  ASSUME NEW S, IsFiniteSet(S), S # {}, NEW R,
         \A x \in S : <<x, x>> \notin R,
         \A x, y, z \in S : <<x, y>> \in R /\ <<y, z>> \in R => <<x, z>> \in R
  PROVE  \E x \in S : \A y \in S : <<y, x>> \notin R
<1> DEFINE Above(x) == {y \in S : <<y, x>> \in R}
           T == {Above(x) : x \in S}
<1>1. IsWellFoundedOn(StrictSubsetOrdering(S), SUBSET S)
  BY FS_FiniteSubsetsOfFinite, FS_StrictSubsetOrderingWellFounded, ZenonT(30)
<1>2. T \subseteq SUBSET S /\ T # {}
  <2>1. \A x \in S : Above(x) \subseteq S
    OBVIOUS
  <2> HIDE DEF Above
  <2> QED
    BY <2>1
<1>3. PICK A \in T : \A B \in T : <<B, A>> \notin StrictSubsetOrdering(S)
  <2> HIDE DEF T
  <2> QED
    BY <1>1, <1>2, WFMin, Zenon
<1>4. PICK x \in S : A = Above(x)
  BY <1>3
<1>5. ASSUME NEW y \in S, <<y, x>> \in R
      PROVE  FALSE
  <2>1. Above(y) \in T
    <3> HIDE DEF Above
    <3> QED
      OBVIOUS
  <2>2. Above(y) \subseteq A
    BY <1>4, <1>5
  <2>3. y \in A /\ y \notin Above(y)
    BY <1>4, <1>5
  <2>4. <<Above(y), A>> \in StrictSubsetOrdering(S)
    <3>1. Above(y) # A
      BY <2>3
    <3>2. <<Above(y), A>> \in (SUBSET S) \X (SUBSET S)
      BY <1>2, <2>1
    <3> HIDE DEF Above
    <3> QED
      BY <2>2, <3>1, <3>2 DEF StrictSubsetOrdering
  <2> QED
    BY <1>3, <2>1, <2>4
<1> QED
  BY <1>5

\* The greatest of a sequence's positions that satisfy a condition.
LEMMA MaxOfPositions ==
  ASSUME NEW n \in Nat, NEW S \in SUBSET (1..n), S # {}
  PROVE  Max(S) \in S /\ \A y \in S : Max(S) >= y
<1> DEFINE R == {p \in S \X S : p[1] > p[2]}
<1>1. IsFiniteSet(S)
  <2>1. 1 \in Int /\ n \in Int
    OBVIOUS
  <2>2. IsFiniteSet(1..n)
    BY <2>1, FS_Interval, Zenon
  <2> QED
    BY <2>2, FS_Subset, Zenon
<1>2. \A x, y \in S : <<x, y>> \in R <=> x > y
  OBVIOUS
<1>3. \E x \in S : \A y \in S : <<y, x>> \notin R
  <2>1. \A x \in S : <<x, x>> \notin R
    BY <1>2
  <2>2. \A x, y, z \in S : <<x, y>> \in R /\ <<y, z>> \in R => <<x, z>> \in R
    BY <1>2
  <2> HIDE DEF R
  <2> QED
    BY <1>1, <2>1, <2>2, Maximal, Zenon
<1>4. \E x \in S : \A y \in S : x >= y
  <2>1. \A x, y \in S : ~(y > x) => x >= y
    OBVIOUS
  <2> HIDE DEF R
  <2> QED
    BY <1>2, <1>3, <2>1
<1> QED
  BY <1>4 DEF Max

\* A file name with a number in it has a version, and its fields are numbers.
LEMMA VersionType ==
  ASSUME NEW f \in Versioned
  PROVE  Version[f] \in Seq(Nat) /\ Version[f] \in Reported
<1> DEFINE name == FileNames[f]
           dotted == {k \in DOMAIN name : Len(name[k]) > 1}
           some == IF dotted # {} THEN dotted ELSE DOMAIN name
<1>1. name \in Seq(Seq(Nat) \ {<<>>}) /\ name # <<>>
  BY NamesAssumption DEF Versioned, Files
<1>2. Len(name) \in Nat /\ Len(name) # 0 /\ DOMAIN name = 1..Len(name)
  BY <1>1
<1>3. some \in SUBSET (1..Len(name)) /\ some # {}
  <2>1. dotted \subseteq DOMAIN name
    OBVIOUS
  <2>2. DOMAIN name # {}
    BY <1>2
  <2> HIDE DEF dotted, name
  <2> QED
    BY <1>2, <2>1, <2>2
<1>4. Max(some) \in DOMAIN name
  <2> HIDE DEF some
  <2> QED
    BY <1>2, <1>3, MaxOfPositions
<1>5. name[Max(some)] \in Seq(Nat)
  <2> HIDE DEF some, name
  <2> QED
    BY <1>1, <1>4
<1>6. Version[f] = name[Max(some)]
  BY DEF Version, ParseVersion
<1>7. Version[f] \in Seq(Nat)
  BY <1>5, <1>6, Zenon
<1>8. Version[f] \in Reported
  <2> HIDE DEF name, dotted, some
  <2> QED
    BY <1>7 DEF Reported
<1> QED
  BY <1>7, <1>8

\* The order the directory is sorted by is a strict one ...
LEMMA TupleGtIrreflexive ==
  ASSUME NEW a \in Seq(Nat)
  PROVE  ~TupleGt(a, a)
<1>1. \A k \in DOMAIN a : a[k] \in Nat
  OBVIOUS
<1> QED
  BY <1>1 DEF TupleGt

\* ... and transitive, although a prefix counts as smaller and is not padded.
LEMMA TupleGtTransitive ==
  ASSUME NEW a \in Seq(Nat), NEW b \in Seq(Nat), NEW c \in Seq(Nat),
         TupleGt(a, b), TupleGt(b, c)
  PROVE  TupleGt(a, c)
<1>1. PICK k \in DOMAIN a : /\ \A j \in 1..(k - 1) : j \in DOMAIN b /\ a[j] = b[j]
                            /\ k \in DOMAIN b => a[k] > b[k]
  BY DEF TupleGt
<1>2. PICK m \in DOMAIN b : /\ \A j \in 1..(m - 1) : j \in DOMAIN c /\ b[j] = c[j]
                            /\ m \in DOMAIN c => b[m] > c[m]
  BY DEF TupleGt
<1>3. k \in Nat \ {0} /\ m \in Nat \ {0}
  OBVIOUS
<1>4. /\ \A j \in DOMAIN a : a[j] \in Nat
      /\ \A j \in DOMAIN b : b[j] \in Nat
      /\ \A j \in DOMAIN c : c[j] \in Nat
  BY SMTT(30)
<1>5. CASE k <= m
  <2>1. \A j \in 1..(k - 1) : j \in DOMAIN c /\ a[j] = c[j]
    <3>1. \A j \in 1..(k - 1) : j \in 1..(m - 1)
      BY <1>3, <1>5
    <3> QED
      BY <1>1, <1>2, <3>1, Zenon
  <2>2. ASSUME k \in DOMAIN c
        PROVE  a[k] > c[k]
    <3>1. k \in DOMAIN b
      BY <1>3, <1>5
    <3>2. b[k] >= c[k]
      <4>1. CASE k = m
        BY <1>2, <1>4, <2>2, <4>1
      <4>2. CASE k < m
        <5>1. k \in 1..(m - 1)
          BY <1>3, <4>2
        <5>2. b[k] = c[k] /\ c[k] \in Nat
          BY <1>2, <1>4, <2>2, <5>1, Zenon
        <5> QED
          BY <5>2
      <4> QED
        BY <1>3, <1>5, <4>1, <4>2
    <3> QED
      BY <1>1, <1>4, <2>2, <3>1, <3>2
  <2> QED
    BY <2>1, <2>2 DEF TupleGt
<1>6. CASE m < k
  <2>1. \A j \in 1..(m - 1) : j \in DOMAIN c /\ a[j] = c[j]
    BY <1>1, <1>2, <1>3, <1>6
  <2>2. m \in 1..(k - 1)
    BY <1>3, <1>6
  <2>3. a[m] = b[m] /\ m \in DOMAIN a
    BY <1>1, <1>3, <2>2, SMTT(30)
  <2> QED
    BY <1>2, <2>1, <2>3 DEF TupleGt
<1> QED
  BY <1>3, <1>5, <1>6

\* A version that version_gt, which pads, holds to be greater is also greater in the
\* order of the directory: the file that comes first there is not outdone by another.
LEMMA GtIsTupleGt ==
  ASSUME NEW a \in Seq(Nat), NEW b \in Seq(Nat), PaddedGt(a, b)
  PROVE  TupleGt(a, b)
<1>1. PICK k \in DOMAIN a \cup DOMAIN b :
        Field(a, k) > Field(b, k) /\ \A j \in 1..(k - 1) : Field(a, j) = Field(b, j)
  BY DEF PaddedGt
<1>2. k \in Nat \ {0} /\ Field(a, k) \in Nat /\ Field(b, k) \in Nat
  BY FieldIsNat, SMTT(30)
<1>3. k \in DOMAIN a
  BY <1>1, <1>2 DEF Field
<1>4. \A j \in DOMAIN a \cap DOMAIN b : Field(a, j) = a[j] /\ Field(b, j) = b[j]
  BY DEF Field
<1>5. CASE k \in DOMAIN b
  <2>1. \A j \in 1..(k - 1) : j \in DOMAIN a \cap DOMAIN b
    BY <1>2, <1>3, <1>5
  <2>2. \A j \in 1..(k - 1) : j \in DOMAIN b /\ a[j] = b[j]
    <3> SUFFICES ASSUME NEW j \in 1..(k - 1)
                 PROVE  j \in DOMAIN b /\ a[j] = b[j]
      OBVIOUS
    <3>1. Field(a, j) = Field(b, j) /\ j \in DOMAIN a \cap DOMAIN b
      BY <1>1, <2>1, Zenon
    <3> QED
      BY <1>4, <3>1, Zenon
  <2>3. a[k] > b[k]
    BY <1>1, <1>3, <1>4, <1>5
  <2> QED
    BY <1>3, <2>2, <2>3, Zenon DEF TupleGt
<1>6. CASE k \notin DOMAIN b
  <2> DEFINE m == Len(b) + 1
  <2>1. m \in 1..k /\ m \notin DOMAIN b /\ m \in DOMAIN a
    BY <1>2, <1>3, <1>6
  <2>2. \A j \in 1..(m - 1) : j \in DOMAIN b /\ j \in DOMAIN a /\ j \in 1..(k - 1)
    BY <1>2, <1>3, <2>1, SMTT(30)
  <2>3. \A j \in 1..(m - 1) : a[j] = b[j]
    BY <1>1, <1>4, <2>2
  <2> QED
    BY <2>1, <2>2, <2>3 DEF TupleGt
<1> QED
  BY <1>5, <1>6

\* What latest() returns is an image of the directory, if it has one, and no other has
\* a version that exceeds its own.
LEMMA LatestIsNewest ==
  ASSUME Images # {}
  PROVE  /\ Latest \in Images
         /\ \A g \in Images : ~VersionGt(Version[g], Version[Latest])
<1> DEFINE Key(f) == VersionTuple(Version[f])
           Before(g, f) == \/ TupleGt(Key(g), Key(f))
                           \/ Key(g) = Key(f) /\ g < f
           R == {p \in Images \X Images : Before(p[1], p[2])}
<1>1. IsFiniteSet(Images)
  <2>1. Len(FileNames) \in Nat /\ Files = 1..Len(FileNames)
    BY NamesAssumption DEF Files
  <2>2. 1 \in Int /\ Len(FileNames) \in Int
    BY <2>1
  <2>3. IsFiniteSet(Files)
    BY <2>1, <2>2, FS_Interval, Zenon
  <2>4. Images \in SUBSET Files
    BY DEF Images, Versioned
  <2> QED
    BY <2>3, <2>4, FS_Subset, Zenon
<1>2. \A f \in Images : f \in Nat /\ Key(f) \in Seq(Nat)
  <2>1. \A f \in Images : f \in Nat /\ Version[f] \in Reported
    BY VersionType, NamesAssumption DEF Images, Versioned, Files
  <2> QED
    BY <2>1, TupleType
<1>3. \A f \in Images : ~Before(f, f)
  BY <1>2, TupleGtIrreflexive
<1>4. ASSUME NEW x \in Images, NEW y \in Images, NEW z \in Images, Before(x, y), Before(y, z)
      PROVE  Before(x, z)
  <2>1. CASE TupleGt(Key(x), Key(y)) /\ TupleGt(Key(y), Key(z))
    BY <1>2, <2>1, TupleGtTransitive
  <2>2. CASE Key(x) = Key(y) /\ x < y /\ Key(y) = Key(z) /\ y < z
    BY <1>2, <2>2
  <2>3. CASE Key(x) = Key(y) /\ TupleGt(Key(y), Key(z))
    BY <2>3
  <2>4. CASE TupleGt(Key(x), Key(y)) /\ Key(y) = Key(z)
    BY <2>4
  <2> QED
    BY <1>4, <2>1, <2>2, <2>3, <2>4
<1>5. \A x, y \in Images : <<x, y>> \in R <=> Before(x, y)
  <2> HIDE DEF Before
  <2> QED
    OBVIOUS
<1>6. \E f \in Images : \A g \in Images : <<g, f>> \notin R
  <2>1. \A x \in Images : <<x, x>> \notin R
    BY <1>3, <1>5
  <2>2. \A x, y, z \in Images : <<x, y>> \in R /\ <<y, z>> \in R => <<x, z>> \in R
    <3> HIDE DEF R, Before
    <3> QED
      BY <1>4, <1>5
  <2> HIDE DEF R
  <2> QED
    BY <1>1, <2>1, <2>2, Maximal, Zenon
<1>7. PICK f \in Images : \A g \in Images : ~Before(g, f)
  <2> HIDE DEF R, Before
  <2> QED
    BY <1>5, <1>6
<1> HIDE DEF R
<1>8. \E h \in Images : \A g \in Images : /\ ~TupleGt(Key(g), Key(h))
                                          /\ Key(g) = Key(h) => h <= g
  BY <1>2, <1>7
<1>9. Latest \in Images /\ \A g \in Images : ~TupleGt(Key(g), Key(Latest))
  BY <1>8 DEF Latest
<1>10. \A g \in Images : ~PaddedGt(Key(g), Key(Latest))
  <2> HIDE DEF Key
  <2> QED
    BY <1>2, <1>9, GtIsTupleGt
<1> QED
  BY <1>9, <1>10 DEF VersionGt

(***************************************************************************)
(* Type correctness.  That two status messages are in flight at most needs *)
(* that a connection gets one offer, and that one download follows from it.*)
(***************************************************************************)
FewStatuses ==
  /\ link # "up" => c2s = <<>>
  /\ offer # NoOffer /\ dev = "idle" => c2s = <<>>
  /\ dev = "downloading" => Len(c2s) <= 1

TInv == TypeOK /\ IInv /\ FewStatuses

\* Nothing stored, nothing offered.
LEMMA InitTypes == Init => TInv
<1> SUFFICES ASSUME Init
             PROVE  TypeOK /\ FewStatuses
  BY InitInv DEF TInv
<1>1. store \in [Files -> Contents \cup {NoFile}] /\ changes \in 0..MaxChanges
  BY ChangesAssumption DEF Init
<1>2. c2s \in Seq({"downloading", "applied", "failed"}) /\ Len(c2s) = 0 /\ c2s = <<>>
  BY DEF Init
<1> QED
  BY <1>1, <1>2 DEF Init, TypeOK, FewStatuses

\* One step per action.
LEMMA StepTypes == TInv /\ [Next]_vars => TInv'
<1> SUFFICES ASSUME TInv, [Next]_vars
             PROVE  TypeOK' /\ FewStatuses'
  BY StepInv DEF TInv
<1> DEFINE Status == {"downloading", "applied", "failed"}
           Offer == [file : Versioned, version : Versions, content : Contents]
<1>1. /\ store \in [Files -> Contents \cup {NoFile}]
      /\ c2s \in Seq(Status) /\ Len(c2s) <= 2 /\ changes \in 0..MaxChanges
      /\ offer = NoOffer \/ offer \in Offer
      /\ dev = "downloading" => offer # NoOffer
      /\ link # "up" => offer = NoOffer
      /\ TypeOK /\ FewStatuses
  BY DEF TInv, IInv, CheckHasNoOffer, TypeOK
<1>2. Len(<<>>) = 0 /\ <<>> \in Seq(Status)
  OBVIOUS
<1>3. \A m \in Status : Append(c2s, m) \in Seq(Status) /\ Len(Append(c2s, m)) = Len(c2s) + 1
  BY <1>1
<1>4. ASSUME NEW f \in Files, NEW c \in Contents \cup {NoFile}, ChangeFile(f, c)
      PROVE  TypeOK' /\ FewStatuses'
  <2>1. store' \in [Files -> Contents \cup {NoFile}]
    BY <1>1, <1>4 DEF ChangeFile
  <2>2. changes' \in 0..MaxChanges
    BY <1>1, <1>4, ChangesAssumption DEF ChangeFile
  <2> QED
    BY <1>1, <1>4, <2>1, <2>2 DEF ChangeFile, TypeOK, FewStatuses
<1>5. CASE Connect
  BY <1>1, <1>5 DEF Connect, TypeOK, FewStatuses
<1>6. CASE OtaHeld
  BY <1>1, <1>6 DEF OtaHeld, TypeOK, FewStatuses
<1>7. CASE OtaNone
  BY <1>1, <1>7 DEF OtaNone, TypeOK, FewStatuses
<1>8. CASE OtaOffer
  <2>1. Latest \in Images /\ Latest \in Versioned
    BY <1>8, LatestIsNewest DEF OtaOffer, HasNewer, Images
  <2>2. Version[Latest] \in Versions /\ store[Latest] \in Contents
    BY <1>1, <2>1 DEF Versions, Images, Versioned
  <2>3. offer' \in Offer
    BY <1>8, <2>1, <2>2 DEF OtaOffer
  <2> HIDE DEF Offer
  <2>4. offer' = NoOffer \/ offer' \in [file : Versioned, version : Versions, content : Contents]
    BY <2>3 DEF Offer
  <2>5. c2s = <<>> /\ c2s' = c2s /\ dev' = dev /\ dev # "downloading"
    BY <1>1, <1>8 DEF OtaOffer, FewStatuses
  <2>6. FewStatuses'
    BY <2>5 DEF FewStatuses
  <2>7. TypeOK'
    BY <1>1, <1>8, <2>4, <2>5 DEF OtaOffer, TypeOK
  <2> QED
    BY <2>6, <2>7
<1>9. CASE OnOtaStatus
  <2>1. c2s' \in Seq(Status) /\ Len(c2s') = Len(c2s) - 1 /\ otaStatus' \in Status
    BY <1>1, <1>9 DEF OnOtaStatus
  <2>2. UNCHANGED <<link, offer, dev>> /\ c2s # <<>>
    BY <1>9 DEF OnOtaStatus
  <2>3. FewStatuses'
    BY <1>1, <2>1, <2>2 DEF FewStatuses
  <2>4. TypeOK'
    BY <1>1, <1>9, <2>1 DEF OnOtaStatus, TypeOK
  <2> QED
    BY <2>3, <2>4
<1>10. CASE StartDownload
  <2>1. c2s' \in Seq(Status) /\ Len(c2s') = 1
    BY <1>1, <1>2, <1>3, <1>10 DEF StartDownload, FewStatuses
  <2> QED
    BY <1>1, <1>10, <2>1 DEF StartDownload, TypeOK, FewStatuses
<1>11. CASE Applied
  <2>1. c2s' \in Seq(Status) /\ Len(c2s') <= 2 /\ link = "up"
    BY <1>1, <1>3, <1>11 DEF Applied, FewStatuses, TypeOK
  <2>2. offer \in Offer
    BY <1>1, <1>11 DEF Applied
  <2>3. offer.version \in Versions /\ offer.content \in Contents
    BY <2>2
  <2> HIDE DEF Offer
  <2>4. fw' \in Current \cup Versions /\ image' \in Contents \cup {Factory}
    BY <1>11, <2>3 DEF Applied, Verified
  <2>5. UNCHANGED <<store, hold, link, otaStatus, changes>> /\ offer' = NoOffer /\ dev' = "idle"
    BY <1>11 DEF Applied
  <2>6. TypeOK'
    BY <1>1, <2>1, <2>4, <2>5 DEF TypeOK
  <2> QED
    BY <2>1, <2>5, <2>6 DEF FewStatuses
<1>12. CASE Failed
  <2>1. c2s' \in Seq(Status) /\ Len(c2s') <= 2 /\ link = "up"
    BY <1>1, <1>3, <1>12 DEF Failed, FewStatuses, TypeOK
  <2> QED
    BY <1>1, <1>12, <2>1 DEF Failed, TypeOK, FewStatuses
<1>13. CASE LinkLost
  BY <1>1, <1>2, <1>13 DEF LinkLost, TypeOK, FewStatuses
<1>14. CASE ServerRestart
  BY <1>1, <1>2, <1>14 DEF ServerRestart, TypeOK, FewStatuses
<1>15. CASE UNCHANGED vars
  BY <1>1, <1>15 DEF vars, TypeOK, FewStatuses, Images
<1> QED
  BY <1>4, <1>5, <1>6, <1>7, <1>8, <1>9, <1>10, <1>11, <1>12, <1>13, <1>14, <1>15
     DEF Next, OnOtaCheck

\* Every variable stays in its type, in particular a device that downloads has the offer
\* it downloads for, and an offer names a file, a version and a content there can be.
THEOREM TypeCorrect == Safety => []TypeOK
<1>1. TInv => TypeOK
  BY DEF TInv
<1> QED
  BY InitTypes, StepTypes, <1>1, PTL DEF Safety

\* The step that makes an offer takes the image latest() returns.
LEMMA OfferStep ==
  ASSUME TInv, [Next]_vars, link = "check", offer' # NoOffer
  PROVE  \A f \in Images : ~VersionGt(Version[f], offer'.version)
<1>1. offer = NoOffer /\ offer' # offer
  BY DEF TInv, IInv, CheckHasNoOffer
<1>2. OtaOffer
  BY <1>1 DEF Next, vars, ChangeFile, Connect, OnOtaCheck, OtaHeld, OtaNone, OnOtaStatus,
     StartDownload, Applied, Failed, LinkLost, ServerRestart
<1>3. offer'.version = Version[Latest] /\ Images # {}
  BY <1>2 DEF OtaOffer, HasNewer
<1> QED
  BY <1>3, LatestIsNewest

\* The offer that answers an ota_check is for an image no other image of the directory
\* exceeds by version_gt, although the directory is sorted by another order.
THEOREM NewestOffered ==
  Safety => [][link = "check" /\ offer' # NoOffer =>
                 \A f \in Images : ~VersionGt(Version[f], offer'.version)]_vars
<1>1. TInv /\ [Next]_vars => [link = "check" /\ offer' # NoOffer =>
                 \A f \in Images : ~VersionGt(Version[f], offer'.version)]_vars
  BY OfferStep
<1> QED
  BY <1>1, InitTypes, StepTypes, PTL DEF Safety

(***************************************************************************)
(* The properties the run checks say `greater' with the weight of a        *)
(* version.  parse_version takes at most four fields; as long as they are  *)
(* below Base, version_gt is the order of the weights.                     *)
(***************************************************************************)
Small(v) == Len(v) <= 4 /\ \A k \in DOMAIN v : v[k] = NonNumber \/ v[k] < Base
SmallVersions == \A v \in Versions \cup Current : Small(v)

\* The weight of a tuple.
SmallTuple(t) == Len(t) <= 4 /\ \A k \in DOMAIN t : t[k] < Base
TupleWeight(t) == ((Field(t, 1) * Base + Field(t, 2)) * Base + Field(t, 3)) * Base + Field(t, 4)

LEMMA TupleWeightOrder ==
  ASSUME NEW a \in Seq(Nat), NEW b \in Seq(Nat), SmallTuple(a), SmallTuple(b)
  PROVE  /\ TupleWeight(a) \in Nat /\ TupleWeight(b) \in Nat
         /\ PaddedGt(a, b) <=> TupleWeight(a) > TupleWeight(b)
<1>1. \A k \in {1, 2, 3, 4} : Field(a, k) \in 0..63 /\ Field(b, k) \in 0..63
  <2>1. ASSUME NEW v \in Seq(Nat), SmallTuple(v), NEW k \in {1, 2, 3, 4}
        PROVE  Field(v, k) \in 0..63
    <3>1. Field(v, k) \in Nat
      BY FieldIsNat
    <3>2. k <= Len(v) => v[k] < 64
      BY <2>1 DEF SmallTuple, Base
    <3>3. CASE k <= Len(v)
      <4>1. v[k] < 64
        BY <3>2, <3>3, Zenon
      <4>2. Field(v, k) = v[k]
        BY <3>3, Zenon DEF Field
      <4>3. \A n \in Nat : n < 64 => n \in 0..63
        OBVIOUS
      <4> QED
        BY <3>1, <4>1, <4>2, <4>3, Zenon
    <3>4. CASE ~(k <= Len(v))
      BY <3>4 DEF Field
    <3> QED
      BY <3>3, <3>4
  <2> QED
    BY <2>1
<1>2. /\ 1 \in {1, 2, 3, 4} /\ 2 \in {1, 2, 3, 4} /\ 3 \in {1, 2, 3, 4} /\ 4 \in {1, 2, 3, 4}
      /\ 1..0 = {} /\ 1..1 = {1} /\ 1..2 = {1, 2} /\ 1..3 = {1, 2, 3}
  OBVIOUS
<1>3. \A k \in DOMAIN a \cup DOMAIN b : k \in {1, 2, 3, 4}
  BY SMTT(30) DEF SmallTuple
<1>4. \A k \in {1, 2, 3, 4} : Field(a, k) > Field(b, k) => k \in DOMAIN a
  BY <1>1 DEF Field
<1> DEFINE Above(k) == Field(a, k) > Field(b, k)
           Same(k) == Field(a, k) = Field(b, k)
<1>5. PaddedGt(a, b) <=> \E k \in {1, 2, 3, 4} : Above(k) /\ \A j \in 1..(k - 1) : Same(j)
  BY <1>3, <1>4 DEF PaddedGt
<1> DEFINE First == \/ Above(1)
                    \/ Same(1) /\ Above(2)
                    \/ Same(1) /\ Same(2) /\ Above(3)
                    \/ Same(1) /\ Same(2) /\ Same(3) /\ Above(4)
<1>6. PaddedGt(a, b) <=> First
  <2>1. 1 - 1 = 0 /\ 2 - 1 = 1 /\ 3 - 1 = 2 /\ 4 - 1 = 3
    OBVIOUS
  <2> HIDE DEF Above, Same
  <2> QED
    BY <1>2, <1>5, <2>1
<1>7. /\ TupleWeight(a) = ((Field(a, 1) * 64 + Field(a, 2)) * 64 + Field(a, 3)) * 64 + Field(a, 4)
      /\ TupleWeight(b) = ((Field(b, 1) * 64 + Field(b, 2)) * 64 + Field(b, 3)) * 64 + Field(b, 4)
  BY DEF TupleWeight, Base
<1>8. /\ Field(a, 1) \in 0..63 /\ Field(a, 2) \in 0..63 /\ Field(a, 3) \in 0..63 /\ Field(a, 4) \in 0..63
      /\ Field(b, 1) \in 0..63 /\ Field(b, 2) \in 0..63 /\ Field(b, 3) \in 0..63 /\ Field(b, 4) \in 0..63
  BY <1>1, <1>2, Zenon
<1> HIDE DEF Above, Same
<1>9. /\ ((Field(a, 1) * 64 + Field(a, 2)) * 64 + Field(a, 3)) * 64 + Field(a, 4) \in Nat
      /\ ((Field(b, 1) * 64 + Field(b, 2)) * 64 + Field(b, 3)) * 64 + Field(b, 4) \in Nat
  <2>1. \A p, q, r, t \in 0..63 : ((p * 64 + q) * 64 + r) * 64 + t \in Nat
    OBVIOUS
  <2> QED
    BY <1>8, <2>1, ZenonT(30)
<1> DEFINE a1 == Field(a, 1)  a2 == Field(a, 2)  a3 == Field(a, 3)  a4 == Field(a, 4)
           b1 == Field(b, 1)  b2 == Field(b, 2)  b3 == Field(b, 3)  b4 == Field(b, 4)
<1>10. First <=> ((a1 * 64 + a2) * 64 + a3) * 64 + a4 > ((b1 * 64 + b2) * 64 + b3) * 64 + b4
  <2>1. /\ a1 \in 0..63 /\ a2 \in 0..63 /\ a3 \in 0..63 /\ a4 \in 0..63
        /\ b1 \in 0..63 /\ b2 \in 0..63 /\ b3 \in 0..63 /\ b4 \in 0..63
    BY <1>8
  <2>2. First <=> \/ a1 > b1
                  \/ a1 = b1 /\ a2 > b2
                  \/ a1 = b1 /\ a2 = b2 /\ a3 > b3
                  \/ a1 = b1 /\ a2 = b2 /\ a3 = b3 /\ a4 > b4
    BY Zenon DEF Above, Same
  <2> HIDE DEF First, a1, a2, a3, a4, b1, b2, b3, b4
  <2>3. (\/ a1 > b1
         \/ a1 = b1 /\ a2 > b2
         \/ a1 = b1 /\ a2 = b2 /\ a3 > b3
         \/ a1 = b1 /\ a2 = b2 /\ a3 = b3 /\ a4 > b4)
        <=> ((a1 * 64 + a2) * 64 + a3) * 64 + a4 > ((b1 * 64 + b2) * 64 + b3) * 64 + b4
    BY <2>1
  <2> QED
    BY <2>2, <2>3, Zenon
<1> QED
  <2> HIDE DEF First
  <2>1. (TupleWeight(a) > TupleWeight(b)) <=> First
    BY <1>7, <1>10, Zenon
  <2> QED
    BY <1>6, <1>7, <1>9, <2>1, Zenon

LEMMA WeightOrder ==
  ASSUME NEW a \in Reported, NEW b \in Reported, Small(a), Small(b)
  PROVE  /\ Weight(a) \in Nat /\ Weight(b) \in Nat
         /\ VersionGt(a, b) <=> Weight(a) > Weight(b)
<1>1. ASSUME NEW v \in Reported, Small(v)
      PROVE  /\ VersionTuple(v) \in Seq(Nat) /\ SmallTuple(VersionTuple(v))
             /\ Weight(v) = TupleWeight(VersionTuple(v))
  <2>1. /\ VersionTuple(v) \in Seq(Nat) /\ Len(VersionTuple(v)) = Len(v)
        /\ DOMAIN VersionTuple(v) = DOMAIN v /\ Len(v) \in Nat /\ DOMAIN v = 1..Len(v)
    BY TupleType DEF Reported
  <2>2. \A k \in DOMAIN v : VersionTuple(v)[k] = IF v[k] = NonNumber THEN 0 ELSE v[k]
    BY DEF VersionTuple
  <2>3. SmallTuple(VersionTuple(v))
    BY <1>1, <2>1, <2>2 DEF Small, SmallTuple, Base
  <2>4. \A k \in Nat \ {0} : Digit(v, k) = Field(VersionTuple(v), k)
    <3> SUFFICES ASSUME NEW k \in Nat \ {0}
                 PROVE  Digit(v, k) = Field(VersionTuple(v), k)
      OBVIOUS
    <3>1. k \in DOMAIN v <=> k <= Len(v)
      BY <2>1
    <3> QED
      BY <2>1, <2>2, <3>1, Zenon DEF Digit, Field
  <2>5. Weight(v) = TupleWeight(VersionTuple(v))
    <3>1. 1 \in Nat \ {0} /\ 2 \in Nat \ {0} /\ 3 \in Nat \ {0} /\ 4 \in Nat \ {0}
      OBVIOUS
    <3> QED
      BY <2>4, <3>1, Zenon DEF Weight, TupleWeight
  <2> QED
    BY <2>1, <2>3, <2>5
<1> QED
  BY <1>1, TupleWeightOrder DEF VersionGt

LEMMA VersionsTyped == \A v \in Versions \cup Current : v \in Reported
<1>1. \A v \in Versions : v \in Reported
  BY VersionType DEF Versions
<1> QED
  BY <1>1, NamesAssumption DEF Reported

\* Whatever is put into the directory, taken from it or replaced in it, and however often
\* the connection breaks or the server restarts, a device only ever gets a greater version.
THEOREM Upgrades ==
  ASSUME SmallVersions
  PROVE  Safety => OnlyUpgrades
<1>1. ASSUME TInv, [Next]_vars
      PROVE  [fw' # fw => Weight(fw') > Weight(fw)]_vars
  <2>1. ASSUME fw' # fw
        PROVE  Weight(fw') > Weight(fw)
    <3>1. Applied
      BY <1>1, <2>1 DEF Next, vars, ChangeFile, Connect, OnOtaCheck, OtaHeld, OtaNone, OtaOffer,
         OnOtaStatus, StartDownload, Failed, LinkLost, ServerRestart
    <3>2. offer # NoOffer /\ fw' = offer.version /\ VersionGt(offer.version, fw)
      BY <1>1, <3>1 DEF Applied, TInv, IInv, OfferNewer
    <3>3. offer.version \in Versions /\ fw \in Current \cup Versions
      BY <1>1, <3>2 DEF TInv, TypeOK
    <3>4. ASSUME NEW u \in Versions \cup Current, NEW v \in Versions \cup Current, VersionGt(u, v)
          PROVE  Weight(u) > Weight(v)
      <4>1. u \in Reported /\ v \in Reported /\ Small(u) /\ Small(v)
        BY VersionsTyped DEF SmallVersions
      <4> QED
        BY <3>4, <4>1, WeightOrder
    <3> QED
      BY <3>2, <3>3, <3>4
  <2> QED
    BY <2>1
<1> QED
  BY <1>1, InitTypes, StepTypes, PTL DEF Safety, OnlyUpgrades

\* An image that is offered is of the greatest version in the directory.
THEOREM OffersNewest ==
  ASSUME SmallVersions
  PROVE  Safety => OfferIsNewest
<1>1. ASSUME TInv, [Next]_vars, link = "check", offer' # NoOffer, NEW f \in Images
      PROVE  Weight(Version[f]) <= Weight(offer'.version)
  <2>1. offer'.version \in Versions /\ Version[f] \in Versions
    <3>1. TInv'
      BY <1>1, StepTypes
    <3>2. offer'.version \in Versions
      BY <1>1, <3>1 DEF TInv, TypeOK
    <3> QED
      BY <3>2 DEF Images, Versions
  <2>2. ASSUME NEW u \in Versions, NEW v \in Versions, ~VersionGt(u, v)
        PROVE  Weight(u) <= Weight(v)
    <3>1. u \in Reported /\ v \in Reported /\ Small(u) /\ Small(v)
      BY VersionsTyped DEF SmallVersions
    <3> QED
      BY <2>2, <3>1, WeightOrder
  <2> QED
    BY <1>1, <2>1, <2>2, OfferStep
<1>2. TInv /\ [Next]_vars => [link = "check" /\ offer' # NoOffer =>
                \A f \in Images : Weight(Version[f]) <= Weight(offer'.version)]_vars
  BY <1>1
<1> QED
  BY <1>2, InitTypes, StepTypes, PTL DEF Safety, OfferIsNewest
-----------------------------------------------------------------------------
(***************************************************************************)
(* The download server.  What is up follows from where serve() stands, and *)
(* only stop() asks the listener thread to end; without that a server      *)
(* could be said to be over with its thread still to come.                 *)
(***************************************************************************)
UpByPhase ==
  /\ httpd <=> phase \notin {"off", "over"}
  /\ web <=> phase \in {"web", "ready", "web_stop"}
  /\ ws <=> phase = "ready"
  /\ shutdown => phase = "http_stop" /\ listener # "none"
  /\ listener = "none" => phase \in {"off", "http_stop", "over"}

HttpInv == HttpTypeOK /\ UpByPhase

\* Nothing is up.
LEMMA HttpInitInv == HttpInit => HttpInv
<1> SUFFICES ASSUME HttpInit PROVE HttpInv
  OBVIOUS
<1>1. backlog \in Seq(Client) /\ Len(backlog) <= Queue
  BY QueueAssumption DEF HttpInit
<1> QED
  BY <1>1 DEF HttpInit, HttpInv, HttpTypeOK, OverIsDown, UpByPhase, Phases

\* serve() and the listener: a step of these leaves the connections to their threads.
LEMMA ServeStep ==
  ASSUME HttpInv, HttpStart \/ WebStart \/ WsStart \/ Cancelled \/ WebStop \/ ServeForever \/ ListenerExits
  PROVE  HttpInv'
<1>1. UNCHANGED <<backlog, handler, client>>
  BY DEF HttpStart, WebStart, WsStart, Cancelled, WebStop, ServeForever, ListenerExits
<1>2. /\ backlog' \in Seq(Client) /\ Len(backlog') <= Queue
      /\ handler' \in [Client -> {"none", "over"} \cup Active]
      /\ client' \in [Client -> {"away", "silent", "greeted", "asked", "left"}]
  BY <1>1 DEF HttpInv, HttpTypeOK
<1> USE DEF HttpInv, HttpTypeOK, OverIsDown, UpByPhase, Phases
<1>3. CASE HttpStart
  <2>1. CASE phase' = "http" /\ httpd' = TRUE /\ listener' = "starting"
    BY <1>1, <1>2, <1>3, <2>1 DEF HttpStart
  <2>2. CASE phase' = "over" /\ UNCHANGED <<httpd, listener>>
    BY <1>1, <1>2, <1>3, <2>2 DEF HttpStart
  <2> QED
    BY <1>3, <2>1, <2>2 DEF HttpStart
<1>4. CASE WebStart
  <2>1. CASE phase' = "web" /\ web' = TRUE
    BY <1>1, <1>2, <1>4, <2>1 DEF WebStart, thread
  <2>2. CASE phase' = "web_failed" /\ UNCHANGED web
    BY <1>1, <1>2, <1>4, <2>2 DEF WebStart, thread
  <2> QED
    BY <1>4, <2>1, <2>2 DEF WebStart
<1>5. CASE WsStart
  <2>1. CASE phase' = "ready" /\ ws' = TRUE
    BY <1>1, <1>2, <1>5, <2>1 DEF WsStart, thread
  <2>2. CASE phase' = "web_stop" /\ UNCHANGED ws
    BY <1>1, <1>2, <1>5, <2>2 DEF WsStart, thread
  <2> QED
    BY <1>5, <2>1, <2>2 DEF WsStart
<1>6. CASE Cancelled
  BY <1>1, <1>2, <1>6 DEF Cancelled, thread
<1>7. CASE WebStop
  BY <1>1, <1>2, <1>7 DEF WebStop
<1>8. CASE ServeForever
  BY <1>1, <1>2, <1>8 DEF ServeForever, server
<1>9. CASE ListenerExits
  BY <1>1, <1>2, <1>9 DEF ListenerExits, server
<1> QED
  BY <1>3, <1>4, <1>5, <1>6, <1>7, <1>8, <1>9

\* server_close() after the listener thread has ended: nothing is left.
LEMMA HttpStopStep == ASSUME HttpInv, HttpStop PROVE HttpInv'
<1>1. /\ phase' = "over" /\ httpd' = FALSE /\ backlog' = <<>> /\ listener = "none" /\ phase = "http_stop"
      /\ UNCHANGED <<web, ws, listener, shutdown, handler>>
  BY DEF HttpStop, thread
<1>2. client' \in [Client -> {"away", "silent", "greeted", "asked", "left"}]
  BY DEF HttpStop, HttpInv, HttpTypeOK
<1>3. backlog' \in Seq(Client) /\ Len(backlog') <= Queue
  BY <1>1, QueueAssumption
<1> QED
  BY <1>1, <1>2, <1>3 DEF HttpInv, HttpTypeOK, OverIsDown, UpByPhase, Phases

\* Steps of the connections and their threads: serve() stays where it is, and the
\* backlog is empty if the server is down.
LEMMA ConnectionStep ==
  ASSUME HttpInv, UNCHANGED <<phase, httpd, web, ws, listener, shutdown>>,
         backlog' \in Seq(Client), Len(backlog') <= Queue, httpd \/ backlog' = backlog,
         handler' \in [Client -> {"none", "over"} \cup Active],
         client' \in [Client -> {"away", "silent", "greeted", "asked", "left"}]
  PROVE  HttpInv'
BY DEF HttpInv, HttpTypeOK, OverIsDown, UpByPhase

\* The oldest connection leaves the backlog for a thread of its own.
LEMMA AcceptStep == ASSUME HttpInv, Accept PROVE HttpInv'
<1>1. /\ backlog # <<>> /\ backlog' = Tail(backlog) /\ client' = client
      /\ handler' = [handler EXCEPT ![Head(backlog)] = "handshake"]
      /\ UNCHANGED <<phase, httpd, web, ws, listener, shutdown>>
  BY DEF Accept, server, thread
<1>2. backlog \in Seq(Client) /\ Len(backlog) <= Queue /\ Queue \in Nat
  BY QueueAssumption DEF HttpInv, HttpTypeOK
<1>3. Tail(backlog) \in Seq(Client) /\ Len(Tail(backlog)) <= Queue
  BY <1>1, <1>2
<1>4. httpd
  BY <1>1 DEF HttpInv, HttpTypeOK, OverIsDown, UpByPhase
<1>5. handler' \in [Client -> {"none", "over"} \cup Active]
  BY <1>1 DEF HttpInv, HttpTypeOK, Active
<1> QED
  BY <1>1, <1>3, <1>4, <1>5, ConnectionStep DEF HttpInv, HttpTypeOK

\* A handler thread touches nothing but itself.
LEMMA HandlerStep == ASSUME HttpInv, NEW c \in Client, Handler(c) PROVE HttpInv'
<1>1. UNCHANGED <<phase, httpd, web, ws, listener, shutdown, backlog, client>>
  BY DEF Handler, Handle, HandlerTimeout, HandlerFails, server, thread
<1>2. handler' \in [Client -> {"none", "over"} \cup Active]
  BY DEF Handler, Handle, HandlerTimeout, HandlerFails, HttpInv, HttpTypeOK, Active
<1> QED
  BY <1>1, <1>2, ConnectionStep DEF HttpInv, HttpTypeOK

\* Clients connect only while the socket listens and the backlog has room.
LEMMA ClientStep ==
  ASSUME HttpInv, NEW c \in Client, ClientConnects(c) \/ ClientProceeds(c) \/ ClientLeaves(c)
  PROVE  HttpInv'
<1>1. client \in [Client -> {"away", "silent", "greeted", "asked", "left"}]
      /\ handler \in [Client -> {"none", "over"} \cup Active]
      /\ backlog \in Seq(Client) /\ Len(backlog) <= Queue /\ Queue \in Nat
  BY QueueAssumption DEF HttpInv, HttpTypeOK
<1>2. UNCHANGED <<phase, httpd, web, ws, listener, shutdown, handler>>
  BY DEF ClientConnects, ClientProceeds, ClientLeaves, server, thread
<1>3. client' \in [Client -> {"away", "silent", "greeted", "asked", "left"}]
  BY <1>1 DEF ClientConnects, ClientProceeds, ClientLeaves
<1>4. CASE ClientConnects(c)
  <2>1. httpd /\ Len(backlog) < Queue /\ backlog' = Append(backlog, c)
    BY <1>4 DEF ClientConnects
  <2>2. backlog' \in Seq(Client) /\ Len(backlog') <= Queue
    BY <1>1, <2>1
  <2> QED
    BY <1>1, <1>2, <1>3, <2>1, <2>2, ConnectionStep
<1>5. CASE ClientProceeds(c) \/ ClientLeaves(c)
  <2>1. backlog' = backlog
    BY <1>5 DEF ClientProceeds, ClientLeaves
  <2> QED
    BY <1>1, <1>2, <1>3, <2>1, ConnectionStep
<1> QED
  BY <1>4, <1>5

\* One step per action.
LEMMA HttpStepInv == HttpInv /\ [HttpNext]_httpVars => HttpInv'
<1> SUFFICES ASSUME HttpInv, [HttpNext]_httpVars PROVE HttpInv'
  OBVIOUS
<1>1. CASE UNCHANGED httpVars
  BY <1>1, ConnectionStep DEF httpVars, HttpInv, HttpTypeOK
<1>2. CASE HttpStart \/ WebStart \/ WsStart \/ Cancelled \/ WebStop
  BY <1>2, ServeStep
<1>3. CASE HttpStop
  BY <1>3, HttpStopStep
<1>4. CASE Listener
  BY <1>4, ServeStep, AcceptStep DEF Listener
<1>5. ASSUME NEW c \in Client, Handler(c) \/ ClientConnects(c) \/ ClientProceeds(c) \/ ClientLeaves(c)
      PROVE  HttpInv'
  BY <1>5, HandlerStep, ClientStep
<1> QED
  BY <1>1, <1>2, <1>3, <1>4, <1>5 DEF HttpNext

\* Types of the download server, and the clean-up of serve(): when it is over, the
\* socket, the page and the WebSocket server are down, the listener thread is gone
\* and no connection is left waiting, for any clients and any length of the backlog.
THEOREM DownloadServerDown == HttpSafety => []HttpTypeOK
<1>1. HttpInv => HttpTypeOK
  BY DEF HttpInv
<1> QED
  BY <1>1, HttpInitInv, HttpStepInv, PTL DEF HttpSafety
==============================================================================
