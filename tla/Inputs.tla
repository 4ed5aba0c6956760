------------------------------- MODULE Inputs -------------------------------
(***************************************************************************)
(* scripts/ports.py and scripts/prepare-toolchain.py: what a build takes   *)
(* from outside the tree, and what it keeps of it for the next one.        *)
(* fetch_port and download_pinned_file keep archives,                      *)
(* ensure_wasix_rust_toolchain and prepare-toolchain.py install toolchains *)
(* from them, refresh_rust_target_cache keeps the compiled crates of a     *)
(* port.  Each trusts a mark it finds: a digest, three files, one file, a  *)
(* fingerprint.  Runs break off, and manifests and compatibility sources   *)
(* are edited between them.                                                *)
(*                                                                         *)
(* One port, linked with the Rust toolchain and the SDK, and one run at a  *)
(* time.  A digest is the content it is the digest of.                     *)
(***************************************************************************)
EXTENDS Naturals

CONSTANTS
    Contents,     \* archives a manifest can pin
    Abis,         \* what the Rust compatibility inputs can digest to
    Targets,      \* values of build.target
    Attempts,     \* downloads fetch_port tries
    Breakable,    \* the steps a run can break off at
    Stubborn,     \* TRUE if files of the target cache may resist removal
    None,         \* no file
    Corrupt,      \* a file whose digest nobody pins
    Torn          \* a marker that is no JSON

(* What an installation consists of, as far as it is looked at: rustc and    *)
(* the rest of the archive, then the two files of the standard library that  *)
(* are looked for and the rest of it.                                        *)
FromArchive == {"rustc", "libraries"}
FromSource == {"process.rs", "backtrace", "library"}
Looked == {"rustc", "process.rs", "backtrace"}
SdkFiles == {"clang", "headers"}
Tools == {"rust", "sdk"}

Steps == {"fetch", "verify", "tools", "download", "extract", "clone", "checkout",
          "submodule", "copy", "refresh", "mark", "compile",
          "prepare", "unpack", "settle"}

ASSUME InputsAssumption ==
    /\ Contents # {} /\ Abis # {} /\ Targets # {} /\ Attempts \in Nat \ {0}
    /\ Breakable \subseteq Steps /\ Stubborn \in BOOLEAN
    /\ None \notin Contents \cup Abis /\ Corrupt \notin Contents \cup {None}
    /\ {None, Torn} \cap [abi : Abis, target : Targets] = {}

VARIABLES
    manifest,     \* source.sha256 and build.target, and the compatibility
                  \* inputs, as a fingerprint
    source,       \* .cache/sources/<port>-<version>: its content
    archive,      \* the archives download_pinned_file has stored
    installed,    \* the files below WASIX_RUST_ROOT, and of the SDK
    clone,        \* WASIX_RUST_SOURCE
    abiMarker,    \* rust-target-abi.json
    objects,      \* cargo-target/<target>: what its objects were compiled against
    run           \* the process: its step, and what it holds

inputsVars ==
    <<manifest, source, archive, installed, clone, abiMarker, objects, run>>
cache == <<abiMarker, objects>>
toolchain == <<archive, installed, clone>>

-----------------------------------------------------------------------------

Manifests == [pin : Contents, abi : Abis, target : Targets]
Marker == [abi |-> manifest.abi, target |-> manifest.target]

Idle == [at |-> "idle", attempt |-> 0, temporary |-> None]
At(step) == run.at = step
Goto(step) == run' = [run EXCEPT !.at = step]
Stop == run' = Idle
Proceed(step) == IF step = "idle" THEN Stop ELSE Goto(step)

InputsInit ==
    /\ manifest \in Manifests
    /\ source = None
    /\ archive = [t \in Tools |-> None]
    /\ installed = [t \in Tools |-> {}]
    /\ clone = [git |-> "none", backtrace |-> FALSE]
    /\ abiMarker = None /\ objects = [t \in Targets |-> {}]
    /\ run = Idle

(* Between runs a manifest comes to pin another archive under the same name  *)
(* or names another target, or the compatibility sources change.             *)
Edit ==
    /\ At("idle")
    /\ manifest' \in Manifests
    /\ UNCHANGED <<source, toolchain, cache, run>>

-----------------------------------------------------------------------------

(* Faulty variant: an archive that is there is the right one.                *)
StartBuild_AnyArchive ==
    /\ At("idle")
    /\ Goto(IF source # None THEN "tools" ELSE "fetch")
    /\ UNCHANGED <<manifest, source, toolchain, cache>>

(* build_port begins with fetch_port: an archive with the digest that is     *)
(* pinned is taken, any other is removed.                                    *)
StartBuild ==
    /\ At("idle")
    /\ IF source = manifest.pin
       THEN Goto("tools") /\ UNCHANGED source
       ELSE Goto("fetch") /\ source' = None
    /\ UNCHANGED <<manifest, toolchain, cache>>

(* A transfer that comes to its end has brought what was asked for or        *)
(* something else; one that was cut short without an error among that.       *)
Transfer ==
    /\ At("fetch")
    /\ \E content \in {manifest.pin, Corrupt} :
          run' = [run EXCEPT !.at = "verify", !.temporary = content]
    /\ UNCHANGED <<manifest, source, toolchain, cache>>

(* Faulty variant: every error is worth another attempt.                     *)
TransferFails_Uncounted ==
    /\ At("fetch")
    /\ run' = [run EXCEPT !.attempt = 1 - @]
    /\ UNCHANGED <<manifest, source, toolchain, cache>>

(* A transfer that raises leaves its temporary file, and is tried again up   *)
(* to the last attempt.                                                      *)
TransferFails ==
    /\ At("fetch")
    /\ IF run.attempt + 1 = Attempts THEN Stop ELSE run' = [run EXCEPT !.attempt = @ + 1]
    /\ UNCHANGED <<manifest, source, toolchain, cache>>

(* Faulty variant: what came is stored before it is looked at.               *)
Verify_Stored ==
    /\ At("verify")
    /\ source' = run.temporary
    /\ IF run.temporary = manifest.pin THEN Goto("tools") ELSE Stop
    /\ UNCHANGED <<manifest, toolchain, cache>>

(* Another digest than the pinned one ends the run, without another attempt. *)
Verify ==
    /\ At("verify")
    /\ IF run.temporary = manifest.pin
       THEN Goto("tools") /\ source' = run.temporary
       ELSE Stop /\ UNCHANGED source
    /\ UNCHANGED <<manifest, toolchain, cache>>

-----------------------------------------------------------------------------

(* download_pinned_file: one attempt, and nothing is stored but what has the *)
(* digest the script names.                                                  *)
Download(t, next) ==
    /\ \/ archive' = [archive EXCEPT ![t] = "pinned"] /\ Proceed(next)
       \/ archive[t] # "pinned" /\ Stop /\ UNCHANGED archive
    /\ UNCHANGED <<manifest, source, installed, clone, cache>>

(* Files appear one by one, in no particular order.                          *)
Put(t, files) ==
    /\ \E file \in files \ installed[t] :
          installed' = [installed EXCEPT ![t] = @ \cup {file}]
    /\ UNCHANGED run

Keep(t, files, next) ==
    /\ files \subseteq installed[t]
    /\ UNCHANGED installed
    /\ Proceed(next)

(* The build refuses an SDK without its compiler.  The Rust toolchain is     *)
(* taken for whole if three files of it are there.                           *)
CheckTools ==
    /\ At("tools")
    /\ IF "clang" \notin installed["sdk"] THEN Stop
       ELSE Goto(IF Looked \subseteq installed["rust"] THEN "refresh" ELSE "download")
    /\ UNCHANGED <<manifest, source, toolchain, cache>>

DownloadRust == At("download") /\ Download("rust", "extract")

(* Faulty variant: a root that has something in it was extracted.            *)
Extract_Once ==
    /\ At("extract")
    /\ \/ Put("rust", FromArchive)
       \/ installed["rust"] # {} /\ UNCHANGED installed /\ Goto("clone")
    /\ UNCHANGED <<manifest, source, archive, clone, cache>>

(* The archive is extracted over whatever is there.                          *)
Extract ==
    /\ At("extract")
    /\ Put("rust", FromArchive) \/ Keep("rust", FromArchive, "clone")
    /\ UNCHANGED <<manifest, source, archive, clone, cache>>

(* The sources are cloned unless there is a .git, also one that a clone that *)
(* broke off has left: then git rev-parse fails for want of a HEAD.          *)
Clone ==
    /\ At("clone")
    /\ CASE clone.git = "none" -> clone' = [clone EXCEPT !.git = "empty"] /\ Goto("checkout")
         [] clone.git = "empty" -> Stop /\ UNCHANGED clone
         [] clone.git = "commit" -> Goto("submodule") /\ UNCHANGED clone
    /\ UNCHANGED <<manifest, source, archive, installed, cache>>

Checkout ==
    /\ At("checkout")
    /\ clone' = [clone EXCEPT !.git = "commit"]
    /\ Goto("submodule")
    /\ UNCHANGED <<manifest, source, archive, installed, cache>>

UpdateSubmodule ==
    /\ At("submodule")
    /\ clone' = [clone EXCEPT !.backtrace = TRUE]
    /\ Goto("copy")
    /\ UNCHANGED <<manifest, source, archive, installed, cache>>

(* copytree, and the last look at the three files.                           *)
CopyLibrary ==
    /\ At("copy")
    /\ LET files == FromSource \ IF clone.backtrace THEN {} ELSE {"backtrace"} IN
       \/ Put("rust", files)
       \/ Keep("rust", files, IF Looked \subseteq installed["rust"] THEN "refresh" ELSE "idle")
    /\ UNCHANGED <<manifest, source, archive, clone, cache>>

(* prepare-toolchain.py, for one of its archives.                            *)
StartPrepare ==
    /\ At("idle")
    /\ Goto("prepare")
    /\ UNCHANGED <<manifest, source, toolchain, cache>>

DownloadSdk ==
    /\ At("prepare")
    /\ Download("sdk", IF "clang" \in installed["sdk"] THEN "idle" ELSE "unpack")

(* The archive is unpacked beside the destination.                           *)
Unpack ==
    /\ At("unpack")
    /\ Goto("settle")
    /\ UNCHANGED <<manifest, source, toolchain, cache>>

CopySdk ==
    /\ At("settle")
    /\ Put("sdk", SdkFiles) \/ Keep("sdk", SdkFiles, "idle")
    /\ UNCHANGED <<manifest, source, archive, clone, cache>>

-----------------------------------------------------------------------------

(* What is left of objects when they are removed: with ignore_errors, what   *)
(* cannot be removed stays.                                                  *)
Removed(files) == IF Stubborn THEN SUBSET files ELSE {{}}

(* Faulty variant: only the fingerprint is compared, not the target.         *)
Refresh_AnyTarget ==
    /\ At("refresh")
    /\ IF abiMarker \notin {None, Torn} /\ abiMarker.abi = manifest.abi
       THEN UNCHANGED objects
       ELSE \E rest \in Removed(objects[manifest.target]) :
               objects' = [objects EXCEPT ![manifest.target] = rest]
    /\ Goto("mark")
    /\ UNCHANGED <<manifest, source, toolchain, abiMarker>>

(* refresh_rust_target_cache: a marker of another fingerprint or target, or  *)
(* one that cannot be read, costs the objects of the target.                 *)
Refresh ==
    /\ At("refresh")
    /\ IF abiMarker = Marker
       THEN UNCHANGED objects
       ELSE \E rest \in Removed(objects[manifest.target]) :
               objects' = [objects EXCEPT ![manifest.target] = rest]
    /\ Goto("mark")
    /\ UNCHANGED <<manifest, source, toolchain, abiMarker>>

Mark ==
    /\ At("mark")
    /\ abiMarker' = Marker
    /\ Goto("compile")
    /\ UNCHANGED <<manifest, source, toolchain, objects>>

Compiled == [objects EXCEPT ![manifest.target] = @ \cup {manifest.abi}]

(* Cargo compiles what it has no object of, and takes the objects it has.    *)
Compile ==
    /\ At("compile")
    /\ objects' = Compiled
    /\ Stop
    /\ UNCHANGED <<manifest, source, toolchain, abiMarker>>

(* A step fails, or the process is killed: in the middle of removing or      *)
(* compiling objects, or of writing the marker, too.                         *)
BreakOff ==
    /\ run.at \in Breakable
    /\ Stop
    /\ CASE At("refresh") /\ abiMarker # Marker ->
               /\ \E rest \in SUBSET objects[manifest.target] :
                     objects' = [objects EXCEPT ![manifest.target] = rest]
               /\ UNCHANGED abiMarker
         [] At("mark") -> abiMarker' = Torn /\ UNCHANGED objects
         [] At("compile") -> objects' \in {objects, Compiled} /\ UNCHANGED abiMarker
         [] OTHER -> UNCHANGED cache
    /\ UNCHANGED <<manifest, source, toolchain>>

-----------------------------------------------------------------------------

Work ==
    \/ Transfer \/ TransferFails \/ Verify \/ CheckTools
    \/ DownloadRust \/ Extract \/ Clone \/ Checkout \/ UpdateSubmodule \/ CopyLibrary
    \/ Refresh \/ Mark \/ Compile
    \/ DownloadSdk \/ Unpack \/ CopySdk

InputsNext == Edit \/ StartBuild \/ StartPrepare \/ Work \/ BreakOff

InputsSpec == InputsInit /\ [][InputsNext]_inputsVars

(* A run goes on until it ends: transfers end or fail, containers end.       *)
FairInputsSpec == InputsSpec /\ WF_inputsVars(Work)

-----------------------------------------------------------------------------

(* Nothing that was not found to have a pinned digest is ever kept under the *)
(* name of an archive, however transfers end; a marker is a fingerprint or   *)
(* cannot be read.                                                           *)
InputsTypeOK ==
    /\ manifest \in Manifests
    /\ source \in Contents \cup {None}
    /\ \A t \in Tools : archive[t] \in {None, "pinned"}
    /\ installed["rust"] \subseteq FromArchive \cup FromSource
    /\ installed["sdk"] \subseteq SdkFiles
    /\ abiMarker \in [abi : Abis, target : Targets] \cup {None, Torn}
    /\ objects \in [Targets -> SUBSET Abis]
    /\ run.at \in Steps \cup {"idle"} /\ run.attempt < Attempts

(* From the time fetch_port has returned until the container ends, the       *)
(* archive it is given is the one the manifest pins, also when an archive of *)
(* the same name was there, or transfers failed.                             *)
SourceIsPinned ==
    run.at \notin {"idle", "fetch", "verify", "prepare", "unpack", "settle"} =>
       source = manifest.pin

(* A toolchain a build goes on with is whole, although only a few files of   *)
(* it are looked at, and earlier runs broke off while it was installed.      *)
ToolchainIsWhole ==
    run.at \in {"refresh", "mark", "compile"} =>
       /\ installed["rust"] = FromArchive \cup FromSource
       /\ installed["sdk"] = SdkFiles

(* Objects that Cargo finds were compiled against the compatibility sources  *)
(* of the build, whatever targets and sources were built before and broke    *)
(* off: Cargo does not see those sources change.                             *)
ObjectsAreCurrent ==
    At("compile") => objects[manifest.target] \subseteq {manifest.abi}

(* Every run comes to its end, however often transfers fail.                 *)
InputsEnd == run.at # "idle" ~> run.at = "idle"
=============================================================================
