-------------------------- MODULE AcceptanceProofs --------------------------
(***************************************************************************)
(* Proofs about the acceptance ledger, for any packages, versions, checks, *)
(* artifacts and processes.  StableIsProven is not inductive: what a       *)
(* command holds between its read and its replace becomes the record in a  *)
(* later step.  The invariant therefore asks of every held copy what it    *)
(* asks of every record.                                                   *)
(***************************************************************************)
EXTENDS Acceptance, TLAPS

-----------------------------------------------------------------------------

(* A record of p that only claims what is in truth.                          *)
Claims(p, data, truth) ==
    /\ data.stable = is_stable(data)
    /\ \A c \in Checks : data.checks[c] \in {NoArtifact, data.artifact}
    /\ \A c \in Checks :
          data.checks[c] # NoArtifact => <<p, c, data.checks[c]>> \in truth

Sound(p, data) == Claims(p, data, passed)

LedgerInv ==
    /\ AcceptanceTypeOK
    /\ \A p \in Packages : Sound(p, file[p])
    /\ \A q \in Processes : Writing(q) => Sound(command[q].package, command[q].data)

-----------------------------------------------------------------------------

(* The copies a command makes have the type of a record: Fresh, read_state,  *)
(* bind-artifact and record.                                                 *)
LEMMA FreshType ==
    ASSUME NEW v \in Versions \cup {NoVersion}
    PROVE  Fresh(v) \in Records
  BY DEF Fresh, Records, NoChecks

LEMMA ReadType ==
    ASSUME file \in [Packages -> Records], NEW p \in Packages, NEW v \in Versions
    PROVE  /\ read_state(p, v) \in Records
           /\ read_state(p, v).version = v
  <1>1. CASE file[p].version = v
    BY <1>1 DEF read_state
  <1>2. CASE file[p].version # v
    BY <1>2, FreshType DEF read_state, Fresh
  <1> QED BY <1>1, <1>2

LEMMA StableIsBoolean ==
    ASSUME NEW data
    PROVE  is_stable(data) \in BOOLEAN
  BY DEF is_stable

(* The copy of bind-artifact, field by field.                                *)
LEMMA BoundFields ==
    ASSUME NEW data \in Records, NEW a \in Artifacts
    PROVE  /\ Bound(data, a) \in Records
           /\ Bound(data, a).version = data.version
           /\ Bound(data, a).artifact = a
           /\ Bound(data, a).checks = IF data.artifact = a THEN data.checks ELSE NoChecks
           /\ Bound(data, a).stable = is_stable(Bound(data, a))
  <1> DEFINE d == [data EXCEPT !.artifact = a,
                               !.checks = IF data.artifact = a THEN @ ELSE NoChecks]
  <1>1. d \in Records
    BY DEF Records, NoChecks
  <1>2. Bound(data, a) = [d EXCEPT !.stable = is_stable(d)]
    BY DEF Bound, Restated
  <1>3. is_stable(Bound(data, a)) = is_stable(d)
    BY <1>1, <1>2 DEF is_stable, Records
  <1>4. d.version = data.version /\ d.artifact = a
    BY DEF Records
  <1>5. d.checks = IF data.artifact = a THEN data.checks ELSE NoChecks
    BY DEF Records
  <1> HIDE DEF d
  <1> QED BY <1>1, <1>2, <1>3, <1>4, <1>5, StableIsBoolean DEF Records

(* The copy of record, field by field.                                       *)
LEMMA RecordedFields ==
    ASSUME NEW data \in Records, NEW c \in Checks, NEW a \in Artifacts
    PROVE  /\ Recorded(data, c, a) \in Records
           /\ Recorded(data, c, a).version = data.version
           /\ Recorded(data, c, a).artifact = data.artifact
           /\ Recorded(data, c, a).checks = [data.checks EXCEPT ![c] = a]
           /\ Recorded(data, c, a).stable = is_stable(Recorded(data, c, a))
  <1> DEFINE d == [data EXCEPT !.checks[c] = a]
  <1>1. d \in Records
    BY DEF Records
  <1>2. Recorded(data, c, a) = [d EXCEPT !.stable = is_stable(d)]
    BY DEF Recorded, Restated
  <1>3. is_stable(Recorded(data, c, a)) = is_stable(d)
    BY <1>1, <1>2 DEF is_stable, Records
  <1>4. d.version = data.version /\ d.artifact = data.artifact
    BY DEF Records
  <1>5. d.checks = [data.checks EXCEPT ![c] = a]
    BY DEF Records
  <1> HIDE DEF d
  <1> QED BY <1>1, <1>2, <1>3, <1>4, <1>5, StableIsBoolean DEF Records

-----------------------------------------------------------------------------

(* Evidence is never withdrawn, so what was sound stays sound.               *)
LEMMA ClaimsMonotone ==
    ASSUME NEW p, NEW data, NEW S, NEW T, S \subseteq T, Claims(p, data, S)
    PROVE  Claims(p, data, T)
  BY DEF Claims

(* What a command reads is sound, as is what it makes of it.                 *)
LEMMA ReadSound ==
    ASSUME LedgerInv, NEW p \in Packages, NEW v \in Versions
    PROVE  Sound(p, read_state(p, v))
  <1>1. CASE file[p].version = v
    BY <1>1 DEF LedgerInv, read_state
  <1>2. CASE file[p].version # v
    BY <1>2 DEF read_state, Sound, Claims, Fresh, NoChecks, is_stable
  <1> QED BY <1>1, <1>2

LEMMA BoundSound ==
    ASSUME NEW p \in Packages, NEW data \in Records, Sound(p, data), NEW a \in Artifacts
    PROVE  Sound(p, Bound(data, a))
  BY BoundFields DEF Sound, Claims, NoChecks

LEMMA RecordedSound ==
    ASSUME NEW p \in Packages, NEW data \in Records, Sound(p, data),
           NEW c \in Checks, NEW a \in Artifacts,
           data.artifact = a, <<p, c, a>> \in passed
    PROVE  Sound(p, Recorded(data, c, a))
  <1> DEFINE r == Recorded(data, c, a)
  <1>1. data.checks \in [Checks -> Artifacts \cup {NoArtifact}]
    BY DEF Records
  <1>2. /\ r.artifact = a
        /\ r.checks = [data.checks EXCEPT ![c] = a]
        /\ r.stable = is_stable(r)
    BY RecordedFields
  <1> HIDE DEF r
  <1>3. ASSUME NEW d \in Checks
        PROVE  /\ r.checks[d] \in {NoArtifact, r.artifact}
               /\ r.checks[d] # NoArtifact => <<p, d, r.checks[d]>> \in passed
    BY <1>1, <1>2 DEF Sound, Claims
  <1>4. Sound(p, r)
    BY <1>2, <1>3 DEF Sound, Claims
  <1> QED BY <1>4 DEF r

-----------------------------------------------------------------------------

(* The initial records claim nothing.                                        *)
LEMMA LedgerInit == AcceptanceInit => LedgerInv
  <1> SUFFICES ASSUME AcceptanceInit PROVE LedgerInv
    OBVIOUS
  <1> USE DEF AcceptanceInit
  <1>1. AcceptanceTypeOK
    BY FreshType DEF AcceptanceTypeOK, Commands
  <1>2. \A p \in Packages : Sound(p, file[p])
    BY DEF Sound, Claims, Fresh, NoChecks, is_stable
  <1>3. \A q \in Processes : ~Writing(q)
    BY DEF Writing, Idle
  <1> QED BY <1>1, <1>2, <1>3 DEF LedgerInv

(* A command that takes hold of a sound copy keeps the invariant.            *)
LEMMA HoldKeeps ==
    ASSUME LedgerInv, NEW q \in Processes, NEW p \in Packages,
           NEW data \in Records, Sound(p, data), Hold(q, p, data)
    PROVE  LedgerInv'
  <1> DEFINE held == [pc |-> "write", package |-> p, data |-> data]
  <1> USE DEF Hold
  <1>1. command' = [command EXCEPT ![q] = held]
    OBVIOUS
  <1>2. held \in Commands
    BY DEF Commands
  <1>3. held.package = p /\ held.data = data
    OBVIOUS
  <1> HIDE DEF held
  <1>4. AcceptanceTypeOK'
    BY <1>1, <1>2 DEF LedgerInv, AcceptanceTypeOK
  <1>5. \A p0 \in Packages : Sound(p0, file[p0])'
    BY DEF LedgerInv, Sound
  <1>6. ASSUME NEW r \in Processes, Writing(r)'
        PROVE  Sound(command[r].package, command[r].data)'
    <2>1. CASE r = q
      BY <1>1, <1>3, <2>1 DEF LedgerInv, AcceptanceTypeOK, Sound
    <2>2. CASE r # q
      BY <1>1, <1>6, <2>2 DEF LedgerInv, AcceptanceTypeOK, Writing, Sound
    <2> QED BY <2>1, <2>2
  <1> QED BY <1>4, <1>5, <1>6 DEF LedgerInv

(* Evidence comes in and the ledger stays as it is, as when a test passes.   *)
Shown ==
    /\ passed \subseteq passed' /\ passed' \subseteq Results
    /\ UNCHANGED <<file, command, overtaken>>

LEMMA TestShows ==
    ASSUME LedgerInv, NEW p \in Packages, NEW c \in Checks, NEW a \in Artifacts,
           TestPasses(p, c, a)
    PROVE  Shown
  BY DEF TestPasses, Shown, LedgerInv, AcceptanceTypeOK, Results

LEMMA ShownKeeps == ASSUME LedgerInv, Shown PROVE LedgerInv'
  <1> USE DEF Shown
  <1>1. AcceptanceTypeOK'
    BY DEF LedgerInv, AcceptanceTypeOK
  <1>2. \A p \in Packages : Sound(p, file[p])'
    BY ClaimsMonotone DEF LedgerInv, Sound
  <1>3. \A q \in Processes :
           Writing(q)' => Sound(command[q].package, command[q].data)'
    BY ClaimsMonotone DEF LedgerInv, Writing, Sound
  <1> QED BY <1>1, <1>2, <1>3 DEF LedgerInv

(* Every step of the ledger keeps the invariant.                             *)
LEMMA LedgerStep == LedgerInv /\ [AcceptanceNext]_acceptanceVars => LedgerInv'
  <1> SUFFICES ASSUME LedgerInv, [AcceptanceNext]_acceptanceVars PROVE LedgerInv'
    OBVIOUS
  <1>1. ASSUME NEW p \in Packages, NEW c \in Checks, NEW a \in Artifacts,
               TestPasses(p, c, a)
        PROVE  LedgerInv'
    BY <1>1, TestShows, ShownKeeps
  <1>2. ASSUME NEW q \in Processes, NEW p \in Packages, NEW v \in Versions,
               NEW a \in Artifacts, ReadForBind(q, p, v, a)
        PROVE  LedgerInv'
    <2>1. read_state(p, v) \in Records
      BY ReadType DEF LedgerInv, AcceptanceTypeOK
    <2>2. Bound(read_state(p, v), a) \in Records
      BY <2>1, BoundFields
    <2>3. Sound(p, Bound(read_state(p, v), a))
      BY <2>1, ReadSound, BoundSound
    <2>4. Hold(q, p, Bound(read_state(p, v), a))
      BY <1>2 DEF ReadForBind
    <2> QED BY <2>2, <2>3, <2>4, HoldKeeps
  <1>3. ASSUME NEW q \in Processes, NEW p \in Packages, NEW v \in Versions,
               NEW c \in Checks, NEW a \in Artifacts, ReadForRecord(q, p, v, c, a)
        PROVE  LedgerInv'
    <2>1. read_state(p, v) \in Records
      BY ReadType DEF LedgerInv, AcceptanceTypeOK
    <2>2. Recorded(read_state(p, v), c, a) \in Records
      BY <2>1, RecordedFields
    <2>3. Sound(p, Recorded(read_state(p, v), c, a))
      BY <1>3, <2>1, ReadSound, RecordedSound DEF ReadForRecord
    <2>4. Hold(q, p, Recorded(read_state(p, v), c, a))
      BY <1>3 DEF ReadForRecord
    <2> QED BY <2>2, <2>3, <2>4, HoldKeeps
  <1>4. ASSUME NEW q \in Processes, Replace(q)
        PROVE  LedgerInv'
    <2> USE <1>4 DEF Replace
    <2> DEFINE p == command[q].package
    <2>1. p \in Packages /\ command[q].data \in Records
      BY DEF LedgerInv, AcceptanceTypeOK, Commands, Idle, Writing
    <2>2. Sound(p, command[q].data)
      BY DEF LedgerInv
    <2>3. AcceptanceTypeOK'
      BY <2>1 DEF LedgerInv, AcceptanceTypeOK, Commands
    <2>4. ASSUME NEW p0 \in Packages PROVE Sound(p0, file[p0])'
      BY <2>1, <2>2 DEF LedgerInv, AcceptanceTypeOK, Sound
    <2>5. ASSUME NEW r \in Processes, Writing(r)'
          PROVE  Sound(command[r].package, command[r].data)'
      BY <2>5 DEF LedgerInv, AcceptanceTypeOK, Writing, Idle, Sound
    <2> QED BY <2>3, <2>4, <2>5 DEF LedgerInv
  <1>5. ASSUME NEW q \in Processes, Die(q)
        PROVE  LedgerInv'
    <2> USE <1>5 DEF Die
    <2>1. AcceptanceTypeOK'
      BY DEF LedgerInv, AcceptanceTypeOK, Commands
    <2>2. \A p \in Packages : Sound(p, file[p])'
      BY DEF LedgerInv, Sound
    <2>3. ASSUME NEW r \in Processes, Writing(r)'
          PROVE  Sound(command[r].package, command[r].data)'
      BY <2>3 DEF LedgerInv, AcceptanceTypeOK, Writing, Idle, Sound
    <2> QED BY <2>1, <2>2, <2>3 DEF LedgerInv
  <1>6. CASE UNCHANGED acceptanceVars
    BY <1>6 DEF acceptanceVars, LedgerInv, AcceptanceTypeOK, Writing, Sound
  <1> QED BY <1>1, <1>2, <1>3, <1>4, <1>5, <1>6 DEF AcceptanceNext

-----------------------------------------------------------------------------

(* The inductive invariant holds throughout.                                 *)
THEOREM LedgerInvariance == AcceptanceSpec => []LedgerInv
  BY LedgerInit, LedgerStep, PTL DEF AcceptanceSpec

(* Type correctness of acceptance.py's records, held copies and history.     *)
THEOREM AcceptanceTyped == AcceptanceSpec => []AcceptanceTypeOK
  <1>1. LedgerInv => AcceptanceTypeOK
    BY DEF LedgerInv
  <1> QED BY <1>1, LedgerInvariance, PTL

(* Sound records give the properties of the ledger.                          *)
LEMMA SoundIsProven == LedgerInv => StableIsProven /\ EvidenceOfOneArtifact
  <1> SUFFICES ASSUME LedgerInv PROVE StableIsProven /\ EvidenceOfOneArtifact
    OBVIOUS
  <1>1. ASSUME NEW p \in Packages, NEW c \in Checks,
               file[p].stable \/ is_stable(file[p])
        PROVE  <<p, c, file[p].artifact>> \in passed
    <2>1. is_stable(file[p])
      BY <1>1 DEF LedgerInv, Sound, Claims
    <2> QED BY <2>1 DEF LedgerInv, Sound, Claims, is_stable
  <1>2. EvidenceOfOneArtifact
    BY DEF LedgerInv, Sound, Claims, EvidenceOfOneArtifact
  <1> QED BY <1>1, <1>2 DEF StableIsProven

(* A stable record names an artifact that passed every check, for any number *)
(* of racing, dying and repeated bind-artifact and record commands.          *)
THEOREM StableProven == AcceptanceSpec => []StableIsProven
  BY SoundIsProven, LedgerInvariance, PTL

(* No record mixes evidence of two artifacts.                                *)
THEOREM OneArtifact == AcceptanceSpec => []EvidenceOfOneArtifact
  BY SoundIsProven, LedgerInvariance, PTL

-----------------------------------------------------------------------------

(* EvidenceIsKept needs to know more of a copy that nobody overtook: if it   *)
(* is still about the version and the artifact of the record, it has all the *)
(* evidence that the record has.                                             *)
Keeps(p, data) ==
    (data.version = file[p].version /\ data.artifact = file[p].artifact) =>
       \A c \in Checks : file[p].checks[c] # NoArtifact => data.checks[c] = file[p].checks[c]

KeptInv ==
    \A q \in Processes :
       Writing(q) /\ q \notin overtaken => Keeps(command[q].package, command[q].data)

(* What bind-artifact and record make of a record keeps its evidence.        *)
LEMMA BoundKept ==
    ASSUME LedgerInv, NEW p \in Packages, NEW v \in Versions, NEW a \in Artifacts
    PROVE  Keeps(p, Bound(read_state(p, v), a))
  <1> DEFINE b == Bound(read_state(p, v), a)
  <1>1. read_state(p, v) \in Records /\ read_state(p, v).version = v
    BY ReadType DEF LedgerInv, AcceptanceTypeOK
  <1>2. /\ b.version = v
        /\ b.artifact = a
        /\ b.checks = IF read_state(p, v).artifact = a THEN read_state(p, v).checks ELSE NoChecks
    BY <1>1, BoundFields
  <1> HIDE DEF b
  <1>3. Keeps(p, b)
    BY <1>2 DEF Keeps, read_state
  <1> QED BY <1>3 DEF b

LEMMA RecordedKept ==
    ASSUME LedgerInv, NEW p \in Packages, NEW v \in Versions, NEW c \in Checks,
           NEW a \in Artifacts, read_state(p, v).artifact = a
    PROVE  Keeps(p, Recorded(read_state(p, v), c, a))
  <1> DEFINE r == Recorded(read_state(p, v), c, a)
  <1>1. read_state(p, v) \in Records /\ read_state(p, v).version = v
    BY ReadType DEF LedgerInv, AcceptanceTypeOK
  <1>2. /\ r.version = v
        /\ r.checks = [read_state(p, v).checks EXCEPT ![c] = a]
    BY <1>1, RecordedFields
  <1> HIDE DEF r
  <1>3. SUFFICES ASSUME r.version = file[p].version, NEW d \in Checks,
                        file[p].checks[d] # NoArtifact
                 PROVE  r.checks[d] = file[p].checks[d]
    BY DEF Keeps, r
  <1>4. read_state(p, v) = file[p]
    BY <1>2, <1>3 DEF read_state
  <1>5. file[p].checks[d] = file[p].artifact /\ file[p].artifact = a
    BY <1>3, <1>4 DEF LedgerInv, Sound, Claims
  <1>6. file[p].checks \in [Checks -> Artifacts \cup {NoArtifact}]
    BY <1>1, <1>4 DEF Records
  <1> QED BY <1>2, <1>4, <1>5, <1>6

(* A command that takes hold of such a copy keeps the invariant ...          *)
LEMMA HoldKept ==
    ASSUME LedgerInv, KeptInv, NEW q \in Processes, NEW p \in Packages,
           NEW data, Keeps(p, data), Hold(q, p, data)
    PROVE  KeptInv'
  <1> DEFINE held == [pc |-> "write", package |-> p, data |-> data]
  <1>1. /\ command' = [command EXCEPT ![q] = held]
        /\ UNCHANGED <<file, overtaken>>
    BY DEF Hold
  <1>2. held.package = p /\ held.data = data
    OBVIOUS
  <1> HIDE DEF held
  <1> SUFFICES ASSUME NEW r \in Processes, Writing(r)', r \notin overtaken
               PROVE  Keeps(command[r].package, command[r].data)'
    BY <1>1 DEF KeptInv
  <1>3. CASE r = q
    BY <1>1, <1>2, <1>3 DEF LedgerInv, AcceptanceTypeOK, Keeps
  <1>4. CASE r # q
    BY <1>1, <1>4 DEF LedgerInv, AcceptanceTypeOK, KeptInv, Writing, Keeps
  <1> QED BY <1>3, <1>4

(* ... a replacement makes the other copies of the package overtaken ...     *)
LEMMA ReplaceKept ==
    ASSUME LedgerInv, KeptInv, NEW q \in Processes, Replace(q)
    PROVE  KeptInv'
  <1> SUFFICES ASSUME NEW r \in Processes, Writing(r)', r \notin overtaken'
               PROVE  Keeps(command[r].package, command[r].data)'
    BY DEF KeptInv
  <1>1. r # q /\ command'[r] = command[r]
    BY DEF Replace, Writing, Idle, LedgerInv, AcceptanceTypeOK
  <1>2. Writing(r)
    BY <1>1 DEF Writing
  <1>3. r \notin overtaken /\ command[r].package # command[q].package
    BY <1>1, <1>2 DEF Replace
  <1>4. file'[command[r].package] = file[command[r].package]
    <2>1. command[r].package \in Packages
      BY <1>2 DEF Writing, LedgerInv, AcceptanceTypeOK, Commands, Idle
    <2> QED BY <1>3, <2>1 DEF Replace, LedgerInv, AcceptanceTypeOK
  <1> QED BY <1>1, <1>2, <1>3, <1>4 DEF KeptInv, Keeps

(* ... and when a command dies its copy is gone.                             *)
LEMMA DieKept ==
    ASSUME LedgerInv, KeptInv, NEW q \in Processes, Die(q)
    PROVE  KeptInv'
  BY DEF Die, LedgerInv, AcceptanceTypeOK, KeptInv, Keeps, Writing, Idle

LEMMA ShownKept == ASSUME KeptInv, Shown PROVE KeptInv'
  BY DEF Shown, KeptInv, Keeps, Writing

(* Initially nobody holds a copy.                                            *)
LEMMA KeptInit == AcceptanceInit => KeptInv
  BY DEF AcceptanceInit, KeptInv, Writing, Idle

LEMMA KeptStep == LedgerInv /\ KeptInv /\ [AcceptanceNext]_acceptanceVars => KeptInv'
  <1> SUFFICES ASSUME LedgerInv, KeptInv, [AcceptanceNext]_acceptanceVars PROVE KeptInv'
    OBVIOUS
  <1>1. ASSUME NEW p \in Packages, NEW c \in Checks, NEW a \in Artifacts,
               TestPasses(p, c, a)
        PROVE  KeptInv'
    BY <1>1, TestShows, ShownKept
  <1>2. ASSUME NEW q \in Processes, NEW p \in Packages, NEW v \in Versions,
               NEW a \in Artifacts, ReadForBind(q, p, v, a)
        PROVE  KeptInv'
    BY <1>2, BoundKept, HoldKept DEF ReadForBind
  <1>3. ASSUME NEW q \in Processes, NEW p \in Packages, NEW v \in Versions,
               NEW c \in Checks, NEW a \in Artifacts, ReadForRecord(q, p, v, c, a)
        PROVE  KeptInv'
    BY <1>3, RecordedKept, HoldKept DEF ReadForRecord
  <1>4. ASSUME NEW q \in Processes, Replace(q) \/ Die(q)
        PROVE  KeptInv'
    BY <1>4, ReplaceKept, DieKept
  <1>5. CASE UNCHANGED acceptanceVars
    BY <1>5 DEF acceptanceVars, KeptInv, Keeps, Writing
  <1> QED BY <1>1, <1>2, <1>3, <1>4, <1>5 DEF AcceptanceNext

(* What EvidenceIsKept says of one replacement.                              *)
LEMMA ReplacedKept ==
    ASSUME LedgerInv, KeptInv, NEW q \in Processes, NEW p \in Packages, NEW c \in Checks,
           Replace(q), q \notin overtaken,
           file'[p].version = file[p].version, file'[p].artifact = file[p].artifact,
           file[p].checks[c] # NoArtifact
    PROVE  file'[p].checks[c] = file[p].checks[c]
  <1>1. CASE p = command[q].package
    BY <1>1 DEF Replace, KeptInv, Keeps, LedgerInv, AcceptanceTypeOK
  <1>2. CASE p # command[q].package
    BY <1>2 DEF Replace, LedgerInv, AcceptanceTypeOK
  <1> QED BY <1>1, <1>2

(* No bind-artifact or record that nobody overtook ever drops evidence of    *)
(* the version and artifact that the record stays bound to.                  *)
THEOREM EvidenceKept == AcceptanceSpec => EvidenceIsKept
  <1>1. AcceptanceInit => LedgerInv /\ KeptInv
    BY LedgerInit, KeptInit
  <1>2. LedgerInv /\ KeptInv /\ [AcceptanceNext]_acceptanceVars => (LedgerInv /\ KeptInv)'
    BY LedgerStep, KeptStep
  <1>3. LedgerInv /\ KeptInv =>
           [\A q \in Processes, p \in Packages, c \in Checks :
              (/\ Replace(q)
               /\ q \notin overtaken
               /\ file'[p].version = file[p].version
               /\ file'[p].artifact = file[p].artifact)
              => (file[p].checks[c] # NoArtifact => file'[p].checks[c] = file[p].checks[c])
           ]_acceptanceVars
    BY ReplacedKept
  <1> QED BY <1>1, <1>2, <1>3, PTL DEF AcceptanceSpec, EvidenceIsKept
=============================================================================
