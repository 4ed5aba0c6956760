----------------------------- MODULE Acceptance -----------------------------
(***************************************************************************)
(* The acceptance ledger of scripts/acceptance.py: one JSON record per     *)
(* package that binds test evidence to the digest of one built artifact.   *)
(* Every command of the script is one process that reads the record,       *)
(* changes its copy and puts the copy back with os.replace; nothing locks  *)
(* the record, so the read and the replacement are two steps and commands  *)
(* interleave.  A digest is modelled as the artifact it is the digest of.  *)
(***************************************************************************)

CONSTANTS
    Packages,     \* the packages that have a record
    Versions,     \* values of Port.deb_version
    Checks,       \* CHECKS
    Artifacts,    \* complete .deb files, each standing for its SHA-256
    Processes,    \* running acceptance.py commands
    NoVersion,    \* the version of a record that was never written
    NoArtifact    \* no artifact bound, or check not passed

ASSUME NoVersionAssumption == NoVersion \notin Versions
ASSUME NoArtifactAssumption == NoArtifact \notin Artifacts
ASSUME ChecksAssumption == Checks # {}

VARIABLES
    file,         \* acceptance/<package>.json, as last replaced
    command,      \* what each process holds between its read and its replace
    passed,       \* the truth: <<p, c, a>> when check c of p succeeded on a
    overtaken     \* history: processes whose read predates another's replace

acceptanceVars == <<file, command, passed, overtaken>>

-----------------------------------------------------------------------------

(* checks[c] is the artifact the entry of c names, NoArtifact if c has none. *)
Records == [version  : Versions \cup {NoVersion},
            artifact : Artifacts \cup {NoArtifact},
            checks   : [Checks -> Artifacts \cup {NoArtifact}],
            stable   : BOOLEAN]

Idle == [pc |-> "idle"]

Commands == {Idle} \cup [pc : {"write"}, package : Packages, data : Records]

Results == Packages \X Checks \X Artifacts

NoChecks == [c \in Checks |-> NoArtifact]

Fresh(v) ==
    [version |-> v, artifact |-> NoArtifact, checks |-> NoChecks, stable |-> FALSE]

(* A record of another version counts for nothing.  A missing file is the    *)
(* fresh record of NoVersion, which no caller asks for.                      *)
read_state(p, v) == IF file[p].version = v THEN file[p] ELSE Fresh(v)

(* Faulty variant: one passed check is enough.                               *)
is_stable_AnyCheck(data) ==
    /\ data.artifact # NoArtifact
    /\ \E c \in Checks : data.checks[c] = data.artifact

is_stable(data) ==
    /\ data.artifact # NoArtifact
    /\ \A c \in Checks : data.checks[c] = data.artifact

Restated(data) == [data EXCEPT !.stable = is_stable(data)]

(* Faulty variants of bind-artifact: it never clears, or always clears.      *)
Bound_NeverClears(data, a) == Restated([data EXCEPT !.artifact = a])
Bound_AlwaysClears(data, a) ==
    Restated([data EXCEPT !.artifact = a, !.checks = NoChecks])

(* What bind-artifact makes of the record it read.                           *)
Bound(data, a) ==
    Restated([data EXCEPT !.artifact = a,
                          !.checks = IF data.artifact = a THEN @ ELSE NoChecks])

(* What record makes of the record it read.                                  *)
Recorded(data, c, a) == Restated([data EXCEPT !.checks[c] = a])

Writing(q) == command[q].pc = "write"

-----------------------------------------------------------------------------

AcceptanceInit ==
    /\ file = [p \in Packages |-> Fresh(NoVersion)]
    /\ command = [q \in Processes |-> Idle]
    /\ passed = {}
    /\ overtaken = {}

(* A test of a package succeeds on an artifact.  The calling script runs     *)
(* under `set -e`, so it records a check only after this.                    *)
TestPasses(p, c, a) ==
    /\ passed' = passed \cup {<<p, c, a>>}
    /\ UNCHANGED <<file, command, overtaken>>

Hold(q, p, data) ==
    /\ command' = [command EXCEPT ![q] = [pc |-> "write", package |-> p, data |-> data]]
    /\ UNCHANGED <<file, passed, overtaken>>

(* bind-artifact up to its write_state.                                      *)
ReadForBind(q, p, v, a) ==
    /\ command[q] = Idle
    /\ Hold(q, p, Bound(read_state(p, v), a))

(* record up to its write_state; it exits, changing nothing, when there is   *)
(* no evidence or the record is bound to another artifact.                   *)
ReadForRecord(q, p, v, c, a) ==
    /\ command[q] = Idle
    /\ <<p, c, a>> \in passed
    /\ read_state(p, v).artifact = a
    /\ Hold(q, p, Recorded(read_state(p, v), c, a))

(* write_state: os.replace puts the whole new record in place.               *)
Replace(q) ==
    /\ Writing(q)
    /\ LET p == command[q].package IN
       /\ file' = [file EXCEPT ![p] = command[q].data]
       /\ overtaken' = (overtaken \cup {r \in Processes : Writing(r) /\ command[r].package = p})
                          \ {q}
    /\ command' = [command EXCEPT ![q] = Idle]
    /\ UNCHANGED passed

(* Faulty variant: the record is written in place, so that dying tears it.   *)
Die_WritingInPlace(q) ==
    /\ Writing(q)
    /\ command' = [command EXCEPT ![q] = Idle]
    /\ file' = [file EXCEPT ![command[q].package] = NoArtifact]
    /\ overtaken' = overtaken \ {q}
    /\ UNCHANGED passed

(* The command dies before os.replace: only its temporary file was written.  *)
Die(q) ==
    /\ Writing(q)
    /\ command' = [command EXCEPT ![q] = Idle]
    /\ overtaken' = overtaken \ {q}
    /\ UNCHANGED <<file, passed>>

AcceptanceNext ==
    \/ \E p \in Packages, c \in Checks, a \in Artifacts : TestPasses(p, c, a)
    \/ \E q \in Processes, p \in Packages, v \in Versions, a \in Artifacts :
          \/ ReadForBind(q, p, v, a)
          \/ \E c \in Checks : ReadForRecord(q, p, v, c, a)
    \/ \E q \in Processes : Replace(q) \/ Die(q)

AcceptanceSpec == AcceptanceInit /\ [][AcceptanceNext]_acceptanceVars

-----------------------------------------------------------------------------

(* Every variable stays within its type; a record is always complete, as     *)
(* os.replace never exposes half of one.                                     *)
AcceptanceTypeOK ==
    /\ file \in [Packages -> Records]
    /\ command \in [Processes -> Commands]
    /\ passed \subseteq Results
    /\ overtaken \subseteq Processes

(* A record that claims an artifact is stable, by its flag or by is_stable,  *)
(* claims it only of an artifact that really passed every check, whatever    *)
(* commands of other versions and artifacts were interleaved with each other *)
(* (is_stable, and the digest comparisons of bind-artifact and record).      *)
StableIsProven ==
    \A p \in Packages :
       (file[p].stable \/ is_stable(file[p])) =>
          \A c \in Checks : <<p, c, file[p].artifact>> \in passed

(* All evidence in one record is about the artifact the record is bound to:  *)
(* rebinding leaves none of the old artifact's evidence behind, also when    *)
(* two commands race.  `status` counts passed checks without looking at      *)
(* their digests and relies on this.                                         *)
EvidenceOfOneArtifact ==
    \A p \in Packages, c \in Checks :
       file[p].checks[c] \in {NoArtifact, file[p].artifact}

(* A command that nobody overtook between its read and its replace never     *)
(* drops evidence of the artifact and version the record is bound to: a      *)
(* repeated bind-artifact or record only adds.                               *)
EvidenceIsKept ==
    [][\A q \in Processes, p \in Packages, c \in Checks :
          (/\ Replace(q)
           /\ q \notin overtaken
           /\ file'[p].version = file[p].version
           /\ file'[p].artifact = file[p].artifact)
          => (file[p].checks[c] # NoArtifact => file'[p].checks[c] = file[p].checks[c])
      ]_acceptanceVars
=============================================================================
