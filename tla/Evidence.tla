------------------------------ MODULE Evidence ------------------------------
(***************************************************************************)
(* How evidence about a package comes about and is judged:                 *)
(* build-acceptance.sh builds it twice, runtime-acceptance.sh installs it, *)
(* somebody tests it in a browser, each records what passed in the ledger  *)
(* of Acceptance, and source_audit.py judges the port by its manifest, the *)
(* marker of its build and its record.                                     *)
(*                                                                         *)
(* One package, and one of the two scripts at a time; the browser evidence *)
(* is recorded beside it.  A command of acceptance.py that a script calls  *)
(* is a process of Acceptance.                                             *)
(***************************************************************************)
EXTENDS Acceptance, Sequences

CONSTANTS
    Builds,       \* Builds[v]: the artifacts builds of version v come out as
    Modes,        \* where runtime-acceptance.sh takes the package from
    Concurrent    \* {"package"} if ports.py runs beside the scripts

Script == "script"
Person == "person"

ASSUME EvidenceAssumption ==
    /\ Builds \in [Versions -> SUBSET Artifacts]
    /\ Modes \subseteq {"candidate", "ready", "current"} /\ Concurrent \subseteq {"package"}
    /\ Packages # {} /\ Processes = {Script, Person}
    /\ Checks = {"reproducible_build", "pristine_source", "apt_install", "chrome"}

VARIABLES
    manifest,     \* the version in port.toml, and build.pristine_source
    stage,        \* build/<package>/stage, as the artifact it is packed to
    marker,       \* build/<package>/build-complete.json
    dist,         \* the .deb of each version in dist/
    pool,         \* the .deb of each version in the candidate repository
    script        \* the script that runs: its next step, and what it holds;
                  \* made, what its first packaging made, is history

treeVars == <<manifest, stage, marker, dist, pool>>
evidenceVars == <<acceptanceVars, treeVars, script>>

-----------------------------------------------------------------------------

package == CHOOSE p \in Packages : TRUE
NoMarker == [version |-> NoVersion, pristine |-> FALSE]
NoScript == [at |-> "idle", version |-> NoVersion, made |-> NoArtifact,
             first |-> NoArtifact, sha |-> NoArtifact, tested |-> NoArtifact, records |-> <<>>]

At(step) == script.at = step
Exit == script' = NoScript

EvidenceInit ==
    /\ AcceptanceInit
    /\ manifest \in [version : Versions, locked : BOOLEAN]
    /\ stage = NoArtifact /\ marker = NoMarker
    /\ dist = [v \in Versions |-> NoArtifact] /\ pool = dist
    /\ script = NoScript

-----------------------------------------------------------------------------

(* build_port: the marker names the version, and says whether the source     *)
(* tree was verified against its snapshot, which the build does if the       *)
(* manifest or the environment asks for it.  more: what else it shows.       *)
MadePristine(pristine) == pristine \/ manifest.locked

BuildPort(pristine, a, more) ==
    /\ a \in Builds[manifest.version]
    /\ stage' = a
    /\ marker' = [version |-> manifest.version, pristine |-> MadePristine(pristine)]
    /\ passed' = passed \cup more
          \cup (IF MadePristine(pristine) THEN {<<package, "pristine_source", a>>} ELSE {})
    /\ UNCHANGED <<file, command, overtaken, manifest, pool>>

PackagePort(pristine, a, more) ==
    /\ BuildPort(pristine, a, more)
    /\ dist' = [dist EXCEPT ![manifest.version] = a]

Between == At("idle") \/ "package" \in Concurrent

(* Somebody runs ports.py build, or package, which builds the port anew ...  *)
Build ==
    /\ Between
    /\ \E pristine \in BOOLEAN, a \in Artifacts :
          \/ PackagePort(pristine, a, {})
          \/ BuildPort(pristine, a, {}) /\ UNCHANGED dist
    /\ UNCHANGED script

(* ... or finds the stage of an earlier build good enough.                   *)
PackageStage ==
    /\ Between
    /\ marker.version = manifest.version
    /\ dist' = [dist EXCEPT ![manifest.version] = stage]
    /\ UNCHANGED <<acceptanceVars, manifest, stage, marker, pool, script>>

(* dpkg-deb, once the port is built, writes the .deb in place.  Who reads it *)
(* before it is complete, or after it broke off, reads some other artifact.  *)
WriteDeb ==
    /\ Between
    /\ marker.version = manifest.version
    /\ \E a \in Artifacts : dist' = [dist EXCEPT ![manifest.version] = a]
    /\ UNCHANGED <<acceptanceVars, manifest, stage, marker, pool, script>>

EditManifest ==
    /\ At("idle")
    /\ manifest' \in [version : Versions, locked : BOOLEAN]
    /\ UNCHANGED <<acceptanceVars, stage, marker, dist, pool, script>>

-----------------------------------------------------------------------------

(* build-acceptance.sh, from the package's version on.                       *)
StartBuildAcceptance ==
    /\ At("idle")
    /\ script' = [NoScript EXCEPT !.at = "first", !.version = manifest.version,
                     !.records = <<"reproducible_build", "pristine_source">>]
    /\ UNCHANGED <<acceptanceVars, treeVars>>

PackageFirst ==
    /\ At("first")
    /\ \E a \in Artifacts :
          PackagePort(TRUE, a, {}) /\ script' = [script EXCEPT !.at = "keep", !.made = a]

(* Each digest is taken of the .deb by its name, after ports.py has ended.   *)
DigestFirst ==
    /\ At("keep")
    /\ script' = [script EXCEPT !.at = "second", !.first = dist[script.version]]
    /\ UNCHANGED <<acceptanceVars, treeVars>>

Repeated(a) ==
    IF a = script.made THEN {<<package, "reproducible_build", a>>} ELSE {}

PackageSecond ==
    /\ At("second")
    /\ \E a \in Artifacts : PackagePort(TRUE, a, Repeated(a))
    /\ script' = [script EXCEPT !.at = "compare"]

(* Faulty variant: the digests are taken and not compared.                   *)
DigestSecond_Uncompared ==
    /\ At("compare")
    /\ script' = [script EXCEPT !.at = "bind", !.sha = dist[script.version]]
    /\ UNCHANGED <<acceptanceVars, treeVars>>

(* The second package has to be the first one over again.                    *)
DigestSecond ==
    /\ At("compare")
    /\ IF dist[script.version] = script.first
       THEN script' = [script EXCEPT !.at = "bind", !.sha = script.first] ELSE Exit
    /\ UNCHANGED <<acceptanceVars, treeVars>>

(* The candidate repository that is built from dist has the current version. *)
CandidatePool ==
    [v \in Versions |-> IF v = manifest.version THEN dist[v] ELSE NoArtifact]

(* runtime-acceptance.sh: it has the candidate repository built, takes it as *)
(* it is, or does without it.  If APT finds no .deb there, the script fails  *)
(* when it installs: it binds the artifact and records nothing.  Without a   *)
(* .deb in dist nothing happens: repository.py raises before it touches the  *)
(* pool, or the script ends.                                                 *)
StartRuntimeAcceptance(mode) ==
    /\ At("idle")
    /\ dist[manifest.version] # NoArtifact
    /\ pool' = IF mode = "candidate" THEN CandidatePool ELSE pool
    /\ LET tested == IF mode = "current" THEN dist[manifest.version] ELSE pool'[manifest.version]
       IN script' = [NoScript EXCEPT !.at = "digest", !.version = manifest.version,
                        !.tested = tested,
                        !.records = IF tested = NoArtifact THEN <<>> ELSE <<"apt_install">>]
    /\ UNCHANGED <<acceptanceVars, manifest, stage, marker, dist>>

(* The digest is taken of the .deb in dist, after the copy for the sandbox.  *)
DigestDeb ==
    /\ At("digest")
    /\ script' = [script EXCEPT !.at = "bind", !.sha = dist[script.version]]
    /\ UNCHANGED <<acceptanceVars, treeVars>>

(* acceptance.py bind-artifact.                                              *)
BindArtifact ==
    /\ At("bind")
    /\ ReadForBind(Script, package, script.version, script.sha)
    /\ script' = [script EXCEPT !.at = "record"]
    /\ UNCHANGED treeVars

(* The copy in the sandbox is installed, upgraded to and used.               *)
TestInSandbox ==
    /\ At("record") /\ script.tested # NoArtifact
    /\ command[Script] = Idle
    /\ TestPasses(package, "apt_install", script.tested)
    /\ script' = [script EXCEPT !.tested = NoArtifact]
    /\ UNCHANGED treeVars

(* acceptance.py record, which refuses an artifact the record is not bound   *)
(* to; for pristine_source the script first looks into the marker.           *)
Record ==
    /\ At("record") /\ script.tested = NoArtifact /\ script.records # <<>>
    /\ command[Script] = Idle
    /\ LET c == Head(script.records)
           data == read_state(package, script.version)
       IN IF data.artifact = script.sha /\ (c = "pristine_source" => marker.pristine)
          THEN /\ Hold(Script, package, Recorded(data, c, script.sha))
               /\ script' = [script EXCEPT !.records = Tail(@)]
          ELSE Exit /\ UNCHANGED acceptanceVars
    /\ UNCHANGED treeVars

Finish ==
    /\ At("record") /\ script.records = <<>> /\ command[Script] = Idle
    /\ Exit
    /\ UNCHANGED <<acceptanceVars, treeVars>>

(* A step of the script fails: set -e.                                       *)
Fail ==
    /\ ~At("idle") /\ command[Script] = Idle
    /\ Exit
    /\ UNCHANGED <<acceptanceVars, treeVars>>

-----------------------------------------------------------------------------

(* Somebody tests the .deb that is in dist in a browser, whose report names  *)
(* the digest of what was tested, and records that.                          *)
TestInBrowser ==
    /\ \E v \in Versions : dist[v] # NoArtifact /\ TestPasses(package, "chrome", dist[v])
    /\ UNCHANGED <<treeVars, script>>

RecordBrowser ==
    /\ \E v \in Versions, a \in Artifacts : ReadForRecord(Person, package, v, "chrome", a)
    /\ UNCHANGED <<treeVars, script>>

ReplaceRecord(q) ==
    /\ Replace(q)
    /\ UNCHANGED <<treeVars, script>>

(* The script does not survive a command of its own that dies.               *)
DieRecording(q) ==
    /\ Die(q)
    /\ IF q = Script THEN Exit ELSE UNCHANGED script
    /\ UNCHANGED treeVars

EvidenceNext ==
    \/ Build \/ PackageStage \/ WriteDeb \/ EditManifest
    \/ StartBuildAcceptance \/ PackageFirst \/ DigestFirst \/ PackageSecond \/ DigestSecond
    \/ \E mode \in Modes : StartRuntimeAcceptance(mode)
    \/ DigestDeb \/ BindArtifact \/ TestInSandbox \/ Record \/ Finish \/ Fail
    \/ TestInBrowser \/ RecordBrowser
    \/ \E q \in Processes : ReplaceRecord(q) \/ DieRecording(q)

EvidenceSpec == EvidenceInit /\ [][EvidenceNext]_evidenceVars

-----------------------------------------------------------------------------

(* Faulty variant: the evidence may be of another artifact.                  *)
acceptance_matches_AnyArtifact ==
    /\ dist[manifest.version] # NoArtifact
    /\ file[package].version = manifest.version
    /\ file[package].checks["pristine_source"] # NoArtifact

acceptance_matches ==
    LET artifact == dist[manifest.version] IN
    /\ artifact # NoArtifact
    /\ file[package].version = manifest.version
    /\ file[package].artifact = artifact
    /\ file[package].checks["pristine_source"] = artifact

(* source_audit.py counts the port as verified.                              *)
Verified ==
    /\ manifest.locked
    /\ marker = [version |-> manifest.version, pristine |-> TRUE]
    /\ acceptance_matches

(* Whatever a record says of an artifact was really shown of that artifact:  *)
(* the scripts keep apart what they built, copied, tested and digested,      *)
(* whatever is built, packaged or edited between them and recorded beside.   *)
RecordedIsTested ==
    \A c \in Checks :
       LET a == file[package].checks[c] IN a # NoArtifact => <<package, c, a>> \in passed

(* What the audit counts as verified was made by a build that verified its   *)
(* source tree, also when the port was built, packaged or edited after its   *)
(* acceptance.  The marker alone may be that of another build.               *)
VerifiedIsPristine ==
    Verified => <<package, "pristine_source", dist[manifest.version]>> \in passed
=============================================================================
