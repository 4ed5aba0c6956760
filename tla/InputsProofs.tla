---------------------------- MODULE InputsProofs ----------------------------
(***************************************************************************)
(* Proofs about what a build takes from outside the tree, for any archives,*)
(* targets, compatibility sources and number of attempts.  Every mark a    *)
(* run trusts was left by an earlier run that may have broken off, so the  *)
(* invariants say what a mark is worth at every step of every run.         *)
(***************************************************************************)
EXTENDS Inputs, TLAPS

-----------------------------------------------------------------------------

(* The process and the tables by their fields.                               *)
Shape ==
    /\ run \in [at : Steps \cup {"idle"}, attempt : Nat,
                temporary : Contents \cup {None, Corrupt}]
    /\ clone \in [git : {"none", "empty", "commit"}, backtrace : BOOLEAN]
    /\ DOMAIN archive = Tools
    /\ DOMAIN installed = Tools

(* A marker that can be read is true of the target it names, whichever       *)
(* target was built since: its objects were compiled against the inputs of   *)
(* the marker.  From refresh on there is none against others.                *)
CacheInv ==
    /\ abiMarker \in [abi : Abis, target : Targets] =>
          objects[abiMarker.target] \subseteq {abiMarker.abi}
    /\ At("mark") => objects[manifest.target] \subseteq {manifest.abi}
    /\ At("compile") => abiMarker = Marker

(* The files of an installation appear in any order, but the copied ones     *)
(* come last and all at once as far as another run can see, because a run    *)
(* does not break off while it copies them.                                  *)
InstalledInv ==
    /\ ~At("copy") /\ installed["rust"] \cap FromSource # {} =>
          installed["rust"] = FromArchive \cup FromSource
    /\ run.at \in {"clone", "checkout", "submodule", "copy"} =>
          FromArchive \subseteq installed["rust"]
    /\ At("copy") => clone.backtrace
    /\ run.at \in {"refresh", "mark", "compile"} =>
          installed["rust"] = FromArchive \cup FromSource
    /\ ~At("settle") /\ "clang" \in installed["sdk"] => installed["sdk"] = SdkFiles
    /\ run.at \in {"download", "extract", "clone", "checkout", "submodule", "copy",
                   "refresh", "mark", "compile"} =>
          "clang" \in installed["sdk"]

InputsInv == InputsTypeOK /\ Shape /\ SourceIsPinned

-----------------------------------------------------------------------------

LEMMA InputsInitially == InputsInit => InputsInv /\ CacheInv /\ InstalledInv
  <1> SUFFICES ASSUME InputsInit PROVE InputsInv /\ CacheInv /\ InstalledInv
    OBVIOUS
  <1> USE DEF InputsInit, Idle
  <1>1. InputsInv
    BY InputsAssumption DEF InputsInv, InputsTypeOK, Shape, SourceIsPinned, Tools
  <1>2. CacheInv /\ InstalledInv
    BY InputsAssumption DEF CacheInv, InstalledInv, At, Tools
  <1> QED BY <1>1, <1>2

(* The fields of a process that goes to another step or stops.               *)
LEMMA GotoFields ==
    ASSUME Shape, NEW step, Goto(step)
    PROVE  /\ run'.at = step /\ run'.attempt = run.attempt /\ run'.temporary = run.temporary
           /\ run' = [at |-> step, attempt |-> run.attempt, temporary |-> run.temporary]
  BY DEF Shape, Goto

LEMMA StopFields ==
    ASSUME Stop
    PROVE  run'.at = "idle" /\ run'.attempt = 0 /\ run'.temporary = None
  BY DEF Stop, Idle

(* Steps that only bring the process to another step or to its end.          *)
LEMMA Moves ==
    ASSUME InputsInv, UNCHANGED <<manifest, source, toolchain, cache>>,
           Stop \/ \E step \in Steps : Goto(step)
    PROVE  InputsTypeOK' /\ Shape'
  <1>1. run' \in [at : Steps \cup {"idle"}, attempt : Nat,
                  temporary : Contents \cup {None, Corrupt}]
        /\ run'.at \in Steps \cup {"idle"} /\ run'.attempt < Attempts
    BY InputsAssumption, GotoFields DEF InputsInv, InputsTypeOK, Shape, Stop, Idle
  <1> QED BY <1>1 DEF InputsInv, InputsTypeOK, Shape, toolchain, cache

(* One file more, or all of them there.                                      *)
LEMMA PutFiles ==
    ASSUME Shape, NEW t \in Tools, NEW files, NEW next, Put(t, files) \/ Keep(t, files, next)
    PROVE  /\ DOMAIN installed' = Tools
           /\ installed[t] \subseteq installed'[t]
           /\ installed'[t] \subseteq installed[t] \cup files
           /\ \A u \in Tools : u # t => installed'[u] = installed[u]
           /\ Put(t, files) => run' = run
           /\ Keep(t, files, next) => Proceed(next) /\ files \subseteq installed'[t]
  BY DEF Shape, Put, Keep

LEMMA ProceedMoves ==
    ASSUME Shape, NEW next \in Steps \cup {"idle"}, Proceed(next)
    PROVE  /\ run'.at = next
           /\ run' \in [at : Steps \cup {"idle"}, attempt : Nat,
                        temporary : Contents \cup {None, Corrupt}]
           /\ run'.attempt \in {0, run.attempt}
  <1>1. CASE next = "idle"
    BY <1>1 DEF Proceed, Stop, Idle
  <1>2. CASE next # "idle"
    BY <1>2, GotoFields DEF Proceed, Shape
  <1> QED BY <1>1, <1>2

LEMMA DownloadMoves ==
    ASSUME InputsInv, NEW t \in Tools, NEW next \in Steps \cup {"idle"}, Download(t, next)
    PROVE  /\ InputsTypeOK' /\ Shape'
           /\ run'.at \in {next, "idle"}
  <1>1. /\ run' \in [at : Steps \cup {"idle"}, attempt : Nat,
                     temporary : Contents \cup {None, Corrupt}]
        /\ run'.attempt \in {0, run.attempt}
        /\ run'.at \in {next, "idle"}
    BY ProceedMoves DEF Download, InputsInv, Stop, Idle
  <1>2. DOMAIN archive' = Tools /\ \A u \in Tools : archive'[u] \in {None, "pinned"}
    BY DEF Download, InputsInv, InputsTypeOK, Shape
  <1> QED BY <1>1, <1>2, InputsAssumption DEF InputsInv, InputsTypeOK, Shape, Download, cache

LEMMA InstallMoves ==
    ASSUME InputsInv, NEW t \in Tools, NEW next \in Steps \cup {"idle"},
           NEW files, files \subseteq IF t = "rust" THEN FromArchive \cup FromSource ELSE SdkFiles,
           Put(t, files) \/ Keep(t, files, next),
           UNCHANGED <<manifest, source, archive, clone, cache>>
    PROVE  /\ InputsTypeOK' /\ Shape'
           /\ run'.at \in {next, run.at}
  <1>1. /\ run' \in [at : Steps \cup {"idle"}, attempt : Nat,
                     temporary : Contents \cup {None, Corrupt}]
        /\ run'.attempt \in {0, run.attempt}
        /\ run'.at \in {next, run.at}
    BY PutFiles, ProceedMoves DEF InputsInv, Shape
  <1>2. /\ installed'["rust"] \subseteq FromArchive \cup FromSource
        /\ installed'["sdk"] \subseteq SdkFiles
        /\ DOMAIN installed' = Tools
    BY PutFiles DEF InputsInv, InputsTypeOK, Tools
  <1> QED BY <1>1, <1>2, InputsAssumption DEF InputsInv, InputsTypeOK, Shape, cache

(* Every step keeps the types, and the archive that a build was given.       *)
LEMMA InputsKeeps ==
    ASSUME InputsInv, [InputsNext]_inputsVars
    PROVE  InputsInv'
  <1> USE InputsAssumption, GotoFields, StopFields, Moves
      DEF InputsInv, InputsTypeOK, Shape, SourceIsPinned, At, toolchain, cache
  <1>1. CASE Edit
    BY <1>1 DEF Edit
  <1>2. CASE StartBuild
    BY <1>2 DEF StartBuild, Steps
  <1>3. CASE StartPrepare
    BY <1>3 DEF StartPrepare, Steps
  <1>4. CASE Transfer
    <2>1. PICK content \in {manifest.pin, Corrupt} :
             run' = [run EXCEPT !.at = "verify", !.temporary = content]
      BY <1>4 DEF Transfer
    <2>2. run' = [at |-> "verify", attempt |-> run.attempt, temporary |-> content]
      BY <2>1
    <2>3. content \in Contents \cup {Corrupt}
      BY <2>1 DEF Manifests
    <2> QED BY <1>4, <2>2, <2>3 DEF Transfer, Steps
  <1>5. CASE TransferFails
    <2>1. CASE run.attempt + 1 = Attempts
      BY <1>5, <2>1 DEF TransferFails
    <2>2. CASE run.attempt + 1 # Attempts
      <3>1. run' = [run EXCEPT !.attempt = @ + 1]
        BY <1>5, <2>2 DEF TransferFails
      <3>2. run.attempt + 1 \in Nat /\ run.attempt + 1 < Attempts
        BY <2>2
      <3>3. run' = [at |-> "fetch", attempt |-> run.attempt + 1, temporary |-> run.temporary]
        BY <1>5, <3>1 DEF TransferFails
      <3> QED BY <1>5, <3>2, <3>3 DEF TransferFails, Steps
    <2> QED BY <2>1, <2>2
  <1>6. CASE Verify
    <2>1. CASE run.temporary = manifest.pin
      BY <1>6, <2>1 DEF Verify, Manifests, Steps
    <2>2. CASE run.temporary # manifest.pin
      BY <1>6, <2>2 DEF Verify
    <2> QED BY <2>1, <2>2
  <1>7. CASE CheckTools
    BY <1>7 DEF CheckTools, Steps
  <1>8. CASE DownloadRust \/ DownloadSdk
    <2> USE DEF Tools, Steps
    <2>1. CASE DownloadRust
      BY <1>8, <2>1, DownloadMoves DEF DownloadRust, Download
    <2>2. CASE DownloadSdk
      BY <1>8, <2>2, DownloadMoves DEF DownloadSdk, Download
    <2> QED BY <1>8, <2>1, <2>2
  <1>9. CASE Extract \/ CopyLibrary \/ CopySdk
    <2> USE DEF Tools, Steps
    <2>1. CASE Extract
      BY <2>1, InstallMoves DEF Extract
    <2>2. CASE CopyLibrary
      BY <2>2, InstallMoves DEF CopyLibrary
    <2>3. CASE CopySdk
      BY <2>3, InstallMoves DEF CopySdk
    <2> QED BY <1>9, <2>1, <2>2, <2>3
  <1>10. CASE Clone
    <2>1. CASE clone.git = "none"
      <3>1. clone' = [git |-> "empty", backtrace |-> clone.backtrace] /\ Goto("checkout")
        BY <1>10, <2>1 DEF Clone
      <3>2. clone' \in [git : {"none", "empty", "commit"}, backtrace : BOOLEAN]
        BY <3>1
      <3> QED BY <1>10, <3>1, <3>2 DEF Clone, Steps
    <2>2. CASE clone.git # "none"
      <3>1. UNCHANGED clone /\ (Stop \/ Goto("submodule"))
        BY <1>10, <2>2 DEF Clone
      <3> QED BY <1>10, <3>1 DEF Clone, Steps
    <2> QED BY <2>1, <2>2
  <1>11. CASE Checkout
    BY <1>11 DEF Checkout, Steps
  <1>12. CASE UpdateSubmodule
    <2>1. clone' = [git |-> clone.git, backtrace |-> TRUE]
      BY <1>12 DEF UpdateSubmodule
    <2>2. clone' \in [git : {"none", "empty", "commit"}, backtrace : BOOLEAN]
      BY <2>1
    <2>3. run' = [at |-> "copy", attempt |-> run.attempt, temporary |-> run.temporary]
      BY <1>12 DEF UpdateSubmodule
    <2> QED BY <1>12, <2>2, <2>3 DEF UpdateSubmodule, Steps
  <1>13. CASE Refresh
    BY <1>13 DEF Refresh, Removed, Steps, Manifests
  <1>14. CASE Mark
    BY <1>14 DEF Mark, Marker, Manifests, Steps
  <1>15. CASE Compile
    <2>1. objects' \in [Targets -> SUBSET Abis]
      BY <1>15 DEF Compile, Compiled, Manifests
    <2>2. UNCHANGED <<manifest, source, toolchain, abiMarker>> /\ Stop
      BY <1>15 DEF Compile
    <2> QED BY <2>1, <2>2 DEF Stop, Idle
  <1>16. CASE Unpack
    BY <1>16 DEF Unpack, Steps
  <1>17. CASE BreakOff
    <2>1. UNCHANGED <<manifest, source, toolchain>> /\ Stop
      BY <1>17 DEF BreakOff
    <2>2. objects' \in [Targets -> SUBSET Abis]
      BY <1>17 DEF BreakOff, Compiled, Manifests
    <2>3. abiMarker' \in [abi : Abis, target : Targets] \cup {None, Torn}
      BY <1>17 DEF BreakOff
    <2> QED BY <2>1, <2>2, <2>3 DEF Stop, Idle
  <1>18. CASE UNCHANGED inputsVars
    BY <1>18 DEF inputsVars
  <1> QED BY <1>1, <1>2, <1>3, <1>4, <1>5, <1>6, <1>7, <1>8, <1>9, <1>10, <1>11, <1>12, <1>13,
             <1>14, <1>15, <1>16, <1>17, <1>18 DEF InputsNext, Work

-----------------------------------------------------------------------------

(* Nothing but what was found to have a pinned digest is kept under the name *)
(* of an archive, and what is kept of a build is of its type at every step.  *)
THEOREM InputsTyped == InputsSpec => []InputsTypeOK
  <1>1. InputsInit => InputsInv
    BY InputsInitially
  <1>2. InputsInv /\ [InputsNext]_inputsVars => InputsInv'
    BY InputsKeeps
  <1>3. InputsInv => InputsTypeOK
    BY DEF InputsInv
  <1> QED BY <1>1, <1>2, <1>3, PTL DEF InputsSpec

(* From the time fetch_port has returned until the container ends, the       *)
(* archive it is given is the one the manifest pins, whatever was stored     *)
(* under its name, however transfers ended and wherever runs broke off.      *)
THEOREM SourcePinned == InputsSpec => []SourceIsPinned
  <1>1. InputsInit => InputsInv
    BY InputsInitially
  <1>2. InputsInv /\ [InputsNext]_inputsVars => InputsInv'
    BY InputsKeeps
  <1>3. InputsInv => SourceIsPinned
    BY DEF InputsInv
  <1> QED BY <1>1, <1>2, <1>3, PTL DEF InputsSpec

-----------------------------------------------------------------------------

(* Steps that leave the cache and the manifest alone.                        *)
LEMMA CacheStands ==
    ASSUME CacheInv, UNCHANGED <<manifest, abiMarker, objects>>,
           run'.at # run.at => run'.at \notin {"mark", "compile"}
    PROVE  CacheInv'
  BY DEF CacheInv, At, Marker

(* refresh_rust_target_cache and Cargo: if what is removed goes, no step     *)
(* leaves a marker that is not true of its objects.                          *)
LEMMA CacheKeeps ==
    ASSUME ~Stubborn, InputsInv, CacheInv, [InputsNext]_inputsVars
    PROVE  CacheInv'
  <1> USE GotoFields, StopFields DEF InputsInv, InputsTypeOK, Manifests, At, toolchain, cache
  <1>1. CASE Edit
    BY <1>1 DEF Edit, CacheInv
  <1>2. CASE Refresh
    <2>1. /\ objects' = objects /\ abiMarker = Marker
          \/ objects' = [objects EXCEPT ![manifest.target] = {}]
      BY <1>2 DEF Refresh, Removed
    <2>2. run'.at = "mark" /\ UNCHANGED <<manifest, abiMarker>>
      BY <1>2 DEF Refresh
    <2>3. Marker \in [abi : Abis, target : Targets]
      BY DEF Marker
    <2> QED BY <2>1, <2>2, <2>3 DEF CacheInv, Marker
  <1>3. CASE Mark
    BY <1>3 DEF Mark, CacheInv, Marker
  <1>4. CASE Compile
    BY <1>4 DEF Compile, Compiled, CacheInv, Marker
  <1>5. CASE BreakOff
    <2>0. run'.at = "idle" /\ UNCHANGED manifest
      BY <1>5 DEF BreakOff
    <2>1. CASE At("refresh") /\ abiMarker # Marker
      <3>1. UNCHANGED abiMarker /\ \A t \in Targets : objects'[t] \subseteq objects[t]
        BY <1>5, <2>1 DEF BreakOff
      <3> QED BY <2>0, <3>1 DEF CacheInv
    <2>2. CASE At("mark")
      <3>1. abiMarker' = Torn /\ UNCHANGED objects
        BY <1>5, <2>2 DEF BreakOff
      <3> QED BY <2>0, <3>1, InputsAssumption DEF CacheInv
    <2>3. CASE At("compile")
      <3>1. UNCHANGED abiMarker /\ objects' \in {objects, Compiled} /\ abiMarker = Marker
        BY <1>5, <2>3 DEF BreakOff, CacheInv
      <3> QED BY <2>0, <3>1 DEF CacheInv, Compiled, Marker
    <2>4. CASE ~(At("refresh") /\ abiMarker # Marker) /\ ~At("mark") /\ ~At("compile")
      <3>1. UNCHANGED <<abiMarker, objects>>
        BY <1>5, <2>4 DEF BreakOff
      <3> QED BY <2>0, <3>1, CacheStands
    <2> QED BY <2>1, <2>2, <2>3, <2>4
  <1>6. CASE StartBuild \/ StartPrepare \/ Transfer \/ TransferFails \/ Verify \/ CheckTools
             \/ Unpack
    <2>1. /\ UNCHANGED <<manifest, abiMarker, objects>>
          /\ run'.at \in {"idle", "tools", "fetch", "prepare", "verify", "refresh", "download",
                          "settle"}
      BY <1>6 DEF StartBuild, StartPrepare, Transfer, TransferFails, Verify, CheckTools, Unpack,
                  Shape
    <2> QED BY <2>1, CacheStands
  <1>7. CASE DownloadRust \/ DownloadSdk
    <2>1. /\ UNCHANGED <<manifest, abiMarker, objects>>
          /\ run'.at \in {"idle", "extract", "unpack"}
      BY <1>7 DEF DownloadRust, DownloadSdk, Download, Proceed
    <2> QED BY <2>1, CacheStands
  <1>8. CASE Extract \/ CopyLibrary \/ CopySdk
    <2>1. /\ UNCHANGED <<manifest, abiMarker, objects>>
          /\ run'.at \in {run.at, "idle", "clone", "refresh"}
      BY <1>8 DEF Extract, CopyLibrary, CopySdk, Put, Keep, Proceed
    <2> QED BY <2>1, CacheStands
  <1>9. CASE Clone \/ Checkout \/ UpdateSubmodule
    <2>1. /\ UNCHANGED <<manifest, abiMarker, objects>>
          /\ run'.at \in {"idle", "checkout", "submodule", "copy"}
      BY <1>9 DEF Clone, Checkout, UpdateSubmodule, Shape
    <2> QED BY <2>1, CacheStands
  <1>10. CASE UNCHANGED inputsVars
    BY <1>10, CacheStands DEF inputsVars
  <1> QED BY <1>1, <1>2, <1>3, <1>4, <1>5, <1>6, <1>7, <1>8, <1>9, <1>10 DEF InputsNext, Work

(* If rmtree leaves nothing, Cargo never takes an object that was compiled   *)
(* against other compatibility sources, whatever was edited, built for other *)
(* targets and broken off in between.                                        *)
THEOREM ObjectsCurrent == ~Stubborn => (InputsSpec => []ObjectsAreCurrent)
  <1> SUFFICES ASSUME ~Stubborn PROVE InputsSpec => []ObjectsAreCurrent
    OBVIOUS
  <1>1. InputsInit => InputsInv /\ CacheInv
    BY InputsInitially
  <1>2. InputsInv /\ CacheInv /\ [InputsNext]_inputsVars => (InputsInv /\ CacheInv)'
    BY InputsKeeps, CacheKeeps
  <1>3. InputsInv /\ CacheInv => ObjectsAreCurrent
    BY DEF InputsInv, InputsTypeOK, Manifests, CacheInv, ObjectsAreCurrent, Marker
  <1> QED BY <1>1, <1>2, <1>3, PTL DEF InputsSpec

-----------------------------------------------------------------------------

(* Steps that leave the toolchains alone.                                    *)
LEMMA InstalledStands ==
    ASSUME InstalledInv, UNCHANGED <<installed, clone>>,
           \/ run'.at = run.at
           \/ /\ ~At("copy") /\ ~At("settle")
              /\ run'.at \in {"idle", "tools", "fetch", "verify", "prepare", "unpack", "settle"}
           \/ At("refresh") /\ run'.at = "mark"
           \/ At("mark") /\ run'.at = "compile"
    PROVE  InstalledInv'
  BY DEF InstalledInv, At

(* ensure_wasix_rust_toolchain and prepare-toolchain.py: unless a run breaks *)
(* off while it copies, no step leaves a part of what is looked at without   *)
(* the rest.                                                                 *)
LEMMA InstalledKeeps ==
    ASSUME {"copy", "settle"} \cap Breakable = {},
           InputsInv, InstalledInv, [InputsNext]_inputsVars
    PROVE  InstalledInv'
  <1> USE GotoFields, StopFields DEF InputsInv, At, toolchain
  <1>1. CASE CheckTools
    BY <1>1 DEF CheckTools, InstalledInv, Looked, FromSource, FromArchive
  <1>2. CASE DownloadRust \/ DownloadSdk
    <2>1. /\ UNCHANGED <<installed, clone>>
          /\ \/ At("download") /\ run'.at \in {"idle", "extract"}
             \/ At("prepare") /\ run'.at \in {"idle", "unpack"}
      BY <1>2 DEF DownloadRust, DownloadSdk, Download, Proceed
    <2> QED BY <2>1 DEF InstalledInv
  <1>3. CASE Extract
    <2>1. /\ At("extract") /\ UNCHANGED clone
          /\ installed["rust"] \subseteq installed'["rust"]
          /\ installed'["rust"] \subseteq installed["rust"] \cup FromArchive
          /\ installed'["sdk"] = installed["sdk"]
          /\ \/ run'.at = "extract"
             \/ run'.at = "clone" /\ FromArchive \subseteq installed'["rust"]
      BY <1>3, PutFiles DEF Extract, Tools, Proceed
    <2>2. FromArchive \cap FromSource = {}
      BY DEF FromArchive, FromSource
    <2> QED BY <2>1, <2>2 DEF InstalledInv
  <1>4. CASE CopyLibrary
    <2>1. At("copy") /\ clone.backtrace /\ FromArchive \subseteq installed["rust"]
      BY <1>4 DEF CopyLibrary, InstalledInv
    <2>2. FromSource \ (IF clone.backtrace THEN {} ELSE {"backtrace"}) = FromSource
      BY <2>1
    <2>3. /\ UNCHANGED clone
          /\ installed["rust"] \subseteq installed'["rust"]
          /\ installed'["sdk"] = installed["sdk"]
          /\ \/ run'.at = "copy"
             \/ run'.at \in {"refresh", "idle"} /\ FromSource \subseteq installed'["rust"]
      BY <1>4, <2>2, PutFiles DEF CopyLibrary, Tools, Proceed
    <2>4. (InputsTypeOK)' BY InputsKeeps
    <2> QED BY <2>1, <2>3, <2>4 DEF InstalledInv, InputsTypeOK
  <1>5. CASE CopySdk
    <2>1. /\ At("settle") /\ UNCHANGED clone
          /\ installed'["rust"] = installed["rust"]
          /\ \/ run'.at = "settle"
             \/ run'.at = "idle" /\ SdkFiles \subseteq installed'["sdk"]
      BY <1>5, PutFiles DEF CopySdk, Tools, Proceed
    <2>2. (InputsTypeOK)' BY InputsKeeps
    <2> QED BY <2>1, <2>2 DEF InstalledInv, InputsTypeOK
  <1>6. CASE Clone
    <2>1. /\ At("clone") /\ UNCHANGED installed
          /\ run'.at \in {"checkout", "submodule", "idle"}
      BY <1>6 DEF Clone, Shape
    <2> QED BY <2>1 DEF InstalledInv
  <1>7. CASE Checkout
    BY <1>7 DEF Checkout, InstalledInv
  <1>8. CASE UpdateSubmodule
    BY <1>8 DEF UpdateSubmodule, InstalledInv, Shape
  <1>9. CASE Refresh \/ Mark \/ Compile
    BY <1>9, InstalledStands DEF Refresh, Mark, Compile
  <1>10. CASE BreakOff
    <2>1. ~At("copy") /\ ~At("settle") /\ run'.at = "idle" /\ UNCHANGED <<installed, clone>>
      BY <1>10 DEF BreakOff
    <2> QED BY <2>1, InstalledStands
  <1>11. CASE Edit \/ StartBuild \/ StartPrepare \/ Transfer \/ TransferFails \/ Verify \/ Unpack
    <2>1. /\ UNCHANGED <<installed, clone>>
          /\ run'.at = run.at \/ run'.at \in {"idle", "tools", "fetch", "verify", "prepare", "settle"}
          /\ ~At("copy") /\ ~At("settle")
      BY <1>11 DEF Edit, StartBuild, StartPrepare, Transfer, TransferFails, Verify, Unpack, Shape
    <2> QED BY <2>1, InstalledStands
  <1>12. CASE UNCHANGED inputsVars
    BY <1>12, InstalledStands DEF inputsVars
  <1> QED BY <1>1, <1>2, <1>3, <1>4, <1>5, <1>6, <1>7, <1>8, <1>9, <1>10, <1>11, <1>12
          DEF InputsNext, Work

(* If no run breaks off in the two steps that copy files into place, a       *)
(* toolchain a build goes on with is whole although three files of it are    *)
(* looked at, and one of the SDK, wherever else runs broke off.              *)
THEOREM ToolchainWhole ==
    {"copy", "settle"} \cap Breakable = {} => (InputsSpec => []ToolchainIsWhole)
  <1> SUFFICES ASSUME {"copy", "settle"} \cap Breakable = {}
               PROVE  InputsSpec => []ToolchainIsWhole
    OBVIOUS
  <1>1. InputsInit => InputsInv /\ InstalledInv
    BY InputsInitially
  <1>2. InputsInv /\ InstalledInv /\ [InputsNext]_inputsVars => (InputsInv /\ InstalledInv)'
    BY InputsKeeps, InstalledKeeps
  <1>3. InputsInv /\ InstalledInv => ToolchainIsWhole
    BY DEF InstalledInv, ToolchainIsWhole, At
  <1> QED BY <1>1, <1>2, <1>3, PTL DEF InputsSpec
=============================================================================
