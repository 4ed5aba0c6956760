------------------------------- MODULE Builder -------------------------------
(***************************************************************************)
(* scripts/ports.py: build_port, package_port and process_batch.  A run of *)
(* the driver works through a list of ports.  For each it builds the port, *)
(* below it depth first the ports it is linked with, reusing a stage whose *)
(* marker carries the current fingerprint; then it packs the stage,        *)
(* together with those of the commands it executes.                        *)
(*                                                                         *)
(* Everything the fingerprint of a port digests is one revision of its     *)
(* manifest.  The edges between ports do not change, and are acyclic: main *)
(* runs no action on a catalog that validate_catalog refuses.  One driver  *)
(* runs at a time.                                                         *)
(***************************************************************************)
EXTENDS Naturals, Sequences

CONSTANTS
    Ports,
    Revisions,    \* contents a port's manifest can have
    FirstRevision,
    Dependencies, \* Dependencies[p]: build.dependencies, in order
    Bundled,      \* Bundled[p]: what runtime_bundle_dependencies returns
    Requests,     \* the command lines: [action, force, batch]
    Breakable,    \* the steps a run can break off at
    Concurrent,   \* {"edit"} if manifests are edited while a run goes on
    None,         \* no stage, no marker, no artifact
    Emptied,      \* a stage that validate_stage refuses
    Torn          \* a marker that is no JSON, a .deb that was not written out

Steps == {"enter", "dependencies", "compile", "install", "marker", "write", "pack"}

ASSUME CatalogAssumption ==
    /\ FirstRevision \in Revisions
    /\ Dependencies \in [Ports -> Seq(Ports)]
    /\ Bundled \in [Ports -> Seq(Ports)]
    /\ Requests \subseteq [action : {"build", "package"}, force : BOOLEAN, batch : Seq(Ports)]
ASSUME AcyclicAssumption ==
    \A ports \in (SUBSET Ports) \ {{}} :
       \E p \in ports : \A i \in 1..Len(Dependencies[p]) : Dependencies[p][i] \notin ports
(* load_batches refuses a batch that is empty or names a port twice.         *)
ASSUME BatchAssumption ==
    \A request \in Requests :
       /\ request.batch # <<>>
       /\ \A i, j \in 1..Len(request.batch) : i # j => request.batch[i] # request.batch[j]
ASSUME EnvironmentAssumption == Breakable \subseteq Steps /\ Concurrent \subseteq {"edit"}
ASSUME AbsentAssumption == None \notin Revisions /\ Torn \notin Revisions \cup {None}

VARIABLES
    manifest,     \* ports/*/port.toml: the revision on disk
    stage,        \* build/*/stage
    marker,       \* build/*/build-complete.json: its fingerprint
    artifact,     \* dist/*.deb
    run,          \* the driver between calls of build_port
    stack         \* the calls of build_port it is in, innermost last

builderVars == <<manifest, stage, marker, artifact, run, stack>>

-----------------------------------------------------------------------------

(* What identifies a stage: the manifest it was made from, whether the       *)
(* checks and transforms that end a build were completed, and the stages of  *)
(* its dependencies, as they were when it was linked with them.              *)
Copies == [manifest : Revisions, checked : BOOLEAN]
Built == [manifest : Revisions, checked : BOOLEAN, linked : Seq(Copies)]
Copy(built) == [manifest |-> built.manifest, checked |-> built.checked]
Artifacts == [declared : Revisions, parts : Seq(Built)]
ASSUME ArtifactsAssumption == None \notin Artifacts /\ Torn \notin Artifacts

Installed(p) == stage[p] \notin {None, Emptied}
Packed(p) == artifact[p] \notin {None, Torn}

Idle == [todo |-> <<>>]
Running == run # Idle
Current == Head(run.todo)

(* A call of build_port: data is the revision of the Port object it holds,   *)
(* fingerprint that of the files it has read.                                *)
Frame(p, data, cached) ==
    [port |-> p, data |-> data, cached |-> cached, at |-> "enter",
     fingerprint |-> None, prefix |-> <<>>]

Innermost == stack[Len(stack)]
At(step) == stack # <<>> /\ Innermost.at = step
Move(frame) == stack' = [stack EXCEPT ![Len(stack)] = frame]

-----------------------------------------------------------------------------

BuilderInit ==
    /\ manifest = [p \in Ports |-> FirstRevision]
    /\ stage = [p \in Ports |-> None]
    /\ marker = [p \in Ports |-> None]
    /\ artifact = [p \in Ports |-> None]
    /\ run = Idle
    /\ stack = <<>>

Edit(p) ==
    /\ "edit" \in Concurrent \/ ~Running
    /\ \E revision \in Revisions \ {manifest[p]} :
          manifest' = [manifest EXCEPT ![p] = revision]
    /\ UNCHANGED <<stage, marker, artifact, run, stack>>

(* main loads all manifests before it looks at the list.  parts are the      *)
(* stages that have been collected for the package in hand, passed the ports *)
(* the report says passed of.                                                *)
StartRun(request) ==
    /\ ~Running
    /\ run' = [todo |-> request.batch, action |-> request.action, force |-> request.force,
               loaded |-> manifest, ports |-> manifest, parts |-> <<>>, passed |-> {}]
    /\ UNCHANGED <<manifest, stage, marker, artifact, stack>>

(* The port itself was loaded by main; the ports below it are loaded anew.   *)
BuildPort ==
    /\ Running /\ stack = <<>>
    /\ run.parts = <<>>
    /\ run' = [run EXCEPT !.ports = manifest]
    /\ stack' = <<Frame(Current, run.loaded[Current],
                        run.action = "package" /\ ~run.force)>>
    /\ UNCHANGED <<manifest, stage, marker, artifact>>

(* build_runtime_bundle                                                      *)
BuildBundled ==
    /\ Running /\ stack = <<>>
    /\ run.parts # <<>> /\ run.action = "package"
    /\ Len(run.parts) <= Len(Bundled[Current])
    /\ LET p == Bundled[Current][Len(run.parts)]
       IN stack' = <<Frame(p, run.ports[p], TRUE)>>
    /\ UNCHANGED <<manifest, stage, marker, artifact, run>>

NextPort(passed) ==
    run' = IF Len(run.todo) = 1 THEN Idle
           ELSE [run EXCEPT !.todo = Tail(@), !.parts = <<>>, !.passed = passed]

Report ==
    /\ Running /\ stack = <<>>
    /\ run.parts # <<>> /\ run.action = "build"
    /\ NextPort(run.passed \cup {Current})
    /\ UNCHANGED <<manifest, stage, marker, artifact, stack>>

PackingComplete == Len(run.parts) = 1 + Len(Bundled[Current])

(* The control file and source.json are written from the loaded manifest.    *)
Pack ==
    /\ Running /\ stack = <<>>
    /\ run.action = "package"
    /\ PackingComplete
    /\ artifact' = [artifact EXCEPT ![Current] =
                      [declared |-> run.loaded[Current], parts |-> run.parts]]
    /\ NextPort(run.passed \cup {Current})
    /\ UNCHANGED <<manifest, stage, marker, stack>>

(* Faulty variant: a caller does not count the dependency it has copied.     *)
Return_Forgets ==
    LET built == stage[Innermost.port]
        outer == Len(stack) - 1
    IN IF outer = 0
       THEN /\ stack' = <<>>
            /\ run' = [run EXCEPT !.parts = Append(@, built)]
       ELSE stack' = SubSeq(stack, 1, outer) /\ UNCHANGED run

(* build_port returns the stage: the caller copies it to its prefix, or a    *)
(* package is made of it.                                                    *)
Return ==
    LET built == stage[Innermost.port]
        outer == Len(stack) - 1
    IN IF outer = 0
       THEN /\ stack' = <<>>
            /\ run' = [run EXCEPT !.parts = Append(@, built)]
       ELSE /\ stack' = [SubSeq(stack, 1, outer) EXCEPT ![outer].prefix = Append(@, Copy(built))]
            /\ UNCHANGED run

(* Faulty variant: the marker is not compared with the fingerprint.          *)
Reusable_AnyMarker(p) == marker[p] \in Revisions /\ Installed(p)

(* The cached stage can be taken: the marker carries the fingerprint of the  *)
(* files as they are now, and validate_stage accepts the stage.              *)
Reusable(p) == marker[p] = manifest[p] /\ Installed(p)

Reuse ==
    /\ At("enter")
    /\ Innermost.cached /\ Reusable(Innermost.port)
    /\ Return
    /\ UNCHANGED <<manifest, stage, marker, artifact>>

(* The marker of a stage that validate_stage refuses is removed.             *)
Refuse(p) ==
    IF Innermost.cached /\ stage[p] = Emptied /\ marker[p] = manifest[p]
    THEN [marker EXCEPT ![p] = None] ELSE marker

Rebuild ==
    /\ At("enter")
    /\ LET p == Innermost.port IN
       /\ Innermost.cached => ~Reusable(p) /\ (marker[p] # Torn \/ stage[p] = None)
       /\ marker' = Refuse(p)
       /\ Move([Innermost EXCEPT !.at = "dependencies", !.fingerprint = manifest[p]])
    /\ UNCHANGED <<manifest, stage, artifact, run>>

(* Faulty variant: the dependencies of a forced build are not looked at.     *)
BuildDependency_Skips ==
    /\ At("dependencies")
    /\ LET dependencies == Dependencies[Innermost.port]
           next == Len(Innermost.prefix) + 1
       IN /\ next <= Len(dependencies)
          /\ IF Installed(dependencies[next])
             THEN Move([Innermost EXCEPT !.prefix = Append(@, Copy(stage[dependencies[next]]))])
             ELSE stack' = Append(stack, Frame(dependencies[next],
                                               run.ports[dependencies[next]], TRUE))
    /\ UNCHANGED <<manifest, stage, marker, artifact, run>>

BuildDependency ==
    /\ At("dependencies")
    /\ LET dependencies == Dependencies[Innermost.port]
           next == Len(Innermost.prefix) + 1
       IN /\ next <= Len(dependencies)
          /\ stack' = Append(stack, Frame(dependencies[next],
                                          run.ports[dependencies[next]], TRUE))
    /\ UNCHANGED <<manifest, stage, marker, artifact, run>>

(* Faulty variant: the work tree is kept, and make finds nothing to do.      *)
Compile_Incremental ==
    /\ At("dependencies")
    /\ Len(Innermost.prefix) = Len(Dependencies[Innermost.port])
    /\ IF Installed(Innermost.port)
       THEN Move([Innermost EXCEPT !.at = "marker"]) /\ UNCHANGED stage
       ELSE /\ stage' = [stage EXCEPT ![Innermost.port] = Emptied]
            /\ Move([Innermost EXCEPT !.at = "compile"])
    /\ UNCHANGED <<manifest, marker, artifact, run>>

(* Faulty variant: the container does not wait for the last dependency.      *)
Compile_Early ==
    /\ At("dependencies")
    /\ Len(Innermost.prefix) + 1 >= Len(Dependencies[Innermost.port])
    /\ stage' = [stage EXCEPT ![Innermost.port] = Emptied]
    /\ Move([Innermost EXCEPT !.at = "compile"])
    /\ UNCHANGED <<manifest, marker, artifact, run>>

(* The container starts: the script was made from the Port object, and it    *)
(* empties the stage first.                                                  *)
Compile ==
    /\ At("dependencies")
    /\ Len(Innermost.prefix) = Len(Dependencies[Innermost.port])
    /\ stage' = [stage EXCEPT ![Innermost.port] = Emptied]
    /\ Move([Innermost EXCEPT !.at = "compile"])
    /\ UNCHANGED <<manifest, marker, artifact, run>>

(* From here on the stage looks complete to validate_stage.                  *)
Install ==
    /\ At("compile")
    /\ stage' = [stage EXCEPT ![Innermost.port] =
                   [manifest |-> Innermost.data, checked |-> FALSE, linked |-> Innermost.prefix]]
    /\ Move([Innermost EXCEPT !.at = "install"])
    /\ UNCHANGED <<manifest, marker, artifact, run>>

(* Faulty variant: a source tree that fails its verification fails nothing.  *)
Check_Ignored ==
    /\ At("install")
    /\ Move([Innermost EXCEPT !.at = "marker"])
    /\ UNCHANGED <<manifest, stage, marker, artifact, run>>

(* The source tree is verified against its snapshot, the executables are     *)
(* transformed, the container ends and validate_stage accepts the stage.     *)
Check ==
    /\ At("install")
    /\ stage' = [stage EXCEPT ![Innermost.port].checked = TRUE]
    /\ Move([Innermost EXCEPT !.at = "marker"])
    /\ UNCHANGED <<manifest, marker, artifact, run>>

(* marker.write_text: the old marker is gone as soon as the file is open.     *)
OpenMarker ==
    /\ At("marker")
    /\ marker' = [marker EXCEPT ![Innermost.port] = Torn]
    /\ Move([Innermost EXCEPT !.at = "write"])
    /\ UNCHANGED <<manifest, stage, artifact, run>>

WriteMarker ==
    /\ At("write")
    /\ marker' = [marker EXCEPT ![Innermost.port] = Innermost.fingerprint]
    /\ Return
    /\ UNCHANGED <<manifest, stage, artifact>>

(* Faulty variant: the report says passed of a port that failed.             *)
Fail_Reports ==
    /\ stack # <<>>
    /\ Innermost.at \in Breakable \cap {"enter", "dependencies", "compile", "install"}
    /\ stack' = <<>>
    /\ NextPort(run.passed \cup {Current})
    /\ UNCHANGED <<manifest, stage, marker, artifact>>

(* A download fails, a container fails or does not start, or a command is    *)
(* missing from the stage: process_batch goes on with the next port.         *)
Fail ==
    /\ stack # <<>>
    /\ Innermost.at \in Breakable \cap {"enter", "dependencies", "compile", "install"}
    /\ stack' = <<>>
    /\ NextPort(run.passed)
    /\ UNCHANGED <<manifest, stage, marker, artifact>>

(* A package cannot be made: a command or a licence is missing, dpkg-deb     *)
(* fails, or the driver is killed.  dpkg-deb writes its output in place.     *)
FailToPack ==
    /\ "pack" \in Breakable
    /\ Running /\ stack = <<>>
    /\ run.parts # <<>> /\ run.action = "package"
    /\ \/ UNCHANGED artifact
       \/ PackingComplete /\ artifact' = [artifact EXCEPT ![Current] = Torn]
    /\ NextPort(run.passed) \/ run' = Idle
    /\ UNCHANGED <<manifest, stage, marker, stack>>

(* A marker that is no JSON raises what nobody catches.                      *)
Crash ==
    /\ At("enter")
    /\ Innermost.cached
    /\ marker[Innermost.port] = Torn /\ stage[Innermost.port] # None
    /\ stack' = <<>> /\ run' = Idle
    /\ UNCHANGED <<manifest, stage, marker, artifact>>

(* The driver is killed.  Before the marker is open, that leaves the one of  *)
(* the build before beside the new stage; then, one that is no JSON.         *)
Kill ==
    /\ stack # <<>>
    /\ Innermost.at \in Breakable
    /\ stack' = <<>> /\ run' = Idle
    /\ UNCHANGED <<manifest, stage, marker, artifact>>

-----------------------------------------------------------------------------

Work ==
    \/ BuildPort \/ BuildBundled \/ Report \/ Pack
    \/ Reuse \/ Rebuild \/ BuildDependency
    \/ Compile \/ Install \/ Check \/ OpenMarker \/ WriteMarker
    \/ Crash

BuilderNext ==
    \/ \E p \in Ports : Edit(p)
    \/ \E request \in Requests : StartRun(request)
    \/ Work
    \/ Fail
    \/ FailToPack
    \/ Kill

BuilderSpec == BuilderInit /\ [][BuilderNext]_builderVars

(* The driver does not stop of itself.                                       *)
FairBuilderSpec == BuilderSpec /\ WF_builderVars(Work)

-----------------------------------------------------------------------------

Stages == Built \cup {None, Emptied}

BuilderTypeOK ==
    /\ manifest \in [Ports -> Revisions]
    /\ \A p \in Ports :
          /\ Installed(p) =>
                /\ stage[p].manifest \in Revisions /\ stage[p].checked \in BOOLEAN
                /\ Len(stage[p].linked) = Len(Dependencies[p])
          /\ marker[p] \in Revisions \cup {None, Torn}
          /\ Packed(p) => Len(artifact[p].parts) = 1 + Len(Bundled[p])
    /\ ~Running => stack = <<>>
    /\ \A i, j \in 1..Len(stack) : i # j => stack[i].port # stack[j].port

(* The container is at work on the stage.                                    *)
Underway(p) ==
    \E i \in 1..Len(stack) : stack[i].port = p /\ stack[i].at \in {"compile", "install", "marker", "write"}

(* A marker that can be read tells the truth about a stage that is there:    *)
(* what it was made from, and that the checks that end a build were made on  *)
(* it, wherever runs broke off before but for one place: after installation, *)
(* when the marker of the build before is not opened yet.                    *)
MarkerIsTrue ==
    \A p \in Ports :
       marker[p] \in Revisions /\ Installed(p) /\ ~Underway(p) =>
          stage[p].checked /\ stage[p].manifest = marker[p]

(* Every package is made of what it says: the stage in it was built from the *)
(* manifest its control file and source.json were written from.  Likewise.   *)
PackedIsDeclared ==
    \A p \in Ports : Packed(p) => artifact[p].parts[1].manifest = artifact[p].declared

(* No package has in it, or is linked with, a stage whose build broke off    *)
(* before the source tree was verified again and the executables transformed.*)
PackedIsChecked ==
    \A p \in Ports : Packed(p) =>
       \A i \in 1..Len(artifact[p].parts) :
          LET part == artifact[p].parts[i] IN
          part.checked /\ \A j \in 1..Len(part.linked) : part.linked[j].checked

(* A marker is only written, be it with the fingerprint it had before, for a *)
(* stage that was linked with the current build of each of its direct        *)
(* dependencies.  Likewise: a dependency may be found under its marker.      *)
LinkedIsCurrent ==
    [][\A p \in Ports :
         marker'[p] # marker[p] /\ marker'[p] \in Revisions =>
            \A i \in 1..Len(Dependencies[p]) :
               stage'[p].linked[i] = [manifest |-> manifest[Dependencies[p][i]], checked |-> TRUE]
      ]_builderVars

(* What a report of package-batch says passed of lies packed in dist, from   *)
(* the manifest the run loaded, whatever other ports of the batch failed.    *)
ReportIsTrue ==
    Running /\ run.action = "package" =>
       \A p \in run.passed : Packed(p) /\ artifact[p].declared = run.loaded[p]

(* Every run comes to its end, however deep its ports depend on each other   *)
(* and wherever it breaks off.                                               *)
RunsEnd == Running ~> ~Running
=============================================================================
