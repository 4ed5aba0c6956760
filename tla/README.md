# EdgeTerm Packages in TLA+

This directory specifies the program logic of EdgeTerm Packages: the catalog of
ports, what a build fetches and caches, the build driver, the acceptance scripts and
their ledger, the source audit, the APT repository publisher, and the EdgeTerm POSIX
layer every package is linked with. TLC checks the specifications on small
instances; TLAPS proves every safety property, action property and refinement of the
passing runs for every value of the constants, some under a condition (section 6).

## 1. Inventory

| Part | Source | State it keeps | Operations |
| --- | --- | --- | --- |
| Acceptance ledger | `scripts/acceptance.py` | `acceptance/<package>.json`: version, bound artifact digest, evidence per check | `bind-artifact`, `record`, `status` |
| Repository publisher | `scripts/repository.py` | per channel: pool, `Packages`, `Packages.xz`, `Release`, `InRelease`, `Release.gpg`; the same for `local-flat` | `build_repository` |
| Build driver | `scripts/ports.py` | per port: source tree, stage, integrity snapshot, `build-complete.json`; `dist/*.deb`; shared Rust target caches | `build_port`, `package_port`, `process_batch` |
| Source cache | `scripts/ports.py`, `prepare-toolchain.py` | `.cache/sources`, pinned downloads, the Rust toolchain and SDK, `rust-target-abi.json` and `cargo-target` | `fetch_port`, `download_pinned_file`, `ensure_wasix_rust_toolchain`, `refresh_rust_target_cache` |
| Catalog | `scripts/ports.py` | none (`ports/*/port.toml`, `batches.toml`) | `validate_catalog`, `load_batches`, `runtime_bundle_dependencies` |
| Source audit | `scripts/source_audit.py` | none (reads locks, markers, records) | `build_report`, `--require-complete` |
| Acceptance scripts | `scripts/build-acceptance.sh`, `runtime-acceptance.sh`, `browser-acceptance.py` | evidence files, sandboxes | rebuild twice and compare; install, upgrade, run, remove, purge; run in Chrome |
| Descriptor layer | `vendor/edgeterm-posix/src/descriptors.c` | `directory_paths[4096]`, `active_directory_path`, one mutex | `open`, `openat`, `close`, `dup`, `dup2`, `chdir`, `fchdir`, `getcwd` |
| libc compatibility | `vendor/edgeterm-posix/src/compat.c` | `mkstemp` counters, preopen names | `read`, `stat`, `rmdir`, `fopen`, ... |
| Mount list | `vendor/edgeterm-posix/src/mounts.c` | the list of synthetic streams | `setmntent`, `getmntent`, `endmntent` |
| Rest of the POSIX layer | `vendor/edgeterm-posix/{src,rust,scripts}` | none | statvfs, poll, startup, source integrity, Rust overlays |
| Manifests, patches | `ports/`, `pipeline/`, `patches/` | data | - |

How they interact: the build driver reads manifests and the source cache, writes
a stage and a marker, and packs the stage into `dist/`. The acceptance scripts
run the driver and the packages and write the ledger. The publisher reads
`dist/` and the ledger and writes the sites that APT clients read. The audit
reads the driver's markers, the ledger and `dist/`. All of them share one working
tree through plain files. Nothing locks it; a script that dies leaves whatever
it had written. Inside a built package, the descriptor layer stands between the
program's threads and the WASIX host.

What is hard:

* **Races on files.** Ledger commands read, change and replace a record in separate
  steps; the publisher hashes a `.deb` and reads it again to copy it.
* **Breaking off.** A publication rewrites half a dozen files of a site one after
  the other, in place. A build leaves a stage, a snapshot and a marker.
* **Staleness.** Records, markers, caches and signatures outlive what they were
  made about: a rebuilt artifact, a bumped version, an edited port, a changed ABI.
* **Threads.** The descriptor layer changes the host's state and its own table
  under different locks or none, and libc reaches descriptors without it.
* **Order of descent.** Dependencies are built, and bundled, depth first over
  graphs whose acyclicity is checked elsewhere.

What makes each part correct:

* *Ledger*: a stable record names an artifact that passed every check.
* *Publisher*: a client can install from the stable channel only what passed every
  check, at any moment; a run that ends signed has published everything it chose.
* *Build driver*: what is packaged was built, whole, from the current inputs of
  the port and of everything it depends on; a forced rebuild uses no old result.
* *Audit*: a package counted as verified has all its evidence about the current `.deb`.
* *Descriptor layer*: the remembered path of a descriptor is the path of the
  directory it is open on, and the remembered working directory is the host's; it
  moves as that of a POSIX process does.
* *Catalog*: an accepted catalog has no circle of build dependencies, what it has can be
  built, and a bundle lists exactly what is executed, dependencies before dependents.
* *Source cache*: a build uses the source its manifest pins, whole toolchains, and no
  object compiled against other compatibility sources.
* *Acceptance scripts*: what they record of an artifact was shown of that artifact.

## 2. Plan

In the order of importance of what can go wrong:

| # | Modules | What they are about | State |
| --- | --- | --- | --- |
| 1 | `Acceptance`, `AcceptanceProofs` | the ledger | checked and proved |
| 2 | `Repository`, `StableChannel`, `ReleasePipeline`, `ReleaseProofs` | publisher, its promise, their composition with ledger and packaging | checked and proved, the refinement too |
| 3 | `Descriptors`, `PosixDirectory`, `DescriptorsProofs` | the descriptor layer, and the working directory a program relies on | checked and proved, the refinement too, but for `LockIsReleased` |
| 4 | `Builder`, `BuilderProofs` | `build_port`, `package_port`, `process_batch` | checked and proved, but for `RunsEnd` |
| 5 | `Catalog`, `Flattening`, `CatalogProofs` | validation, batches, and the three recursive walks over the manifests | checked and proved, but for `WalksEnd` |
| 6 | `Inputs`, `InputsProofs` | downloads with retries, toolchain installation, the Rust target cache | checked and proved, but for `InputsEnd` |
| 7 | `Evidence`, `EvidenceProofs` | both acceptance scripts, the browser evidence and the audit, over `Acceptance` | checked and proved |

The conditions that remain are needed: packaging beside a script breaks `RecordedIsTested`, `VerifiedIsPristine` and with
them `StableIsProven` (section 4, last table), and what it leaves standing is proved without it. The liveness properties stay with TLC.

`ReleasePipeline` composes 1 and 2 with packaging; `Evidence` composes 1 with what
of the driver matters to evidence: stage, marker and `.deb`.

## 3. Modules and the code

**`Acceptance`**. `file[p]` is `acceptance/<p>.json`. A command is two steps,
because `acceptance.py` reads the record (`ReadForBind`, `ReadForRecord`) and later
puts a changed copy in its place (`Replace`, `os.replace`), with nothing locked in
between; `Die` is a command that ends before. A digest is the artifact it is the
digest of. `passed` is the truth about tests: `ReadForRecord` requires it, since
the scripts record a check only after the test succeeded (`set -e`). Evidence that
was forged, or recorded by hand, is outside the model. `overtaken` is a history
variable used by `EvidenceIsKept` alone.

**`Repository`**. One `build_repository` run: unlink the pool, select and copy
`.deb` after `.deb`, write the index, its compressed form, the `Release`, sign it
twice; the same for `local-flat`. Each file is one step, and `BreakOff` may
follow each and tear the file that was open. The stable gate hashes a `.deb`
(`Publishable`) in one step and `Copy` reads it in another. Sizes and dates are
left out; the loop takes ports in any order, which no property depends on.
`Catalogue`, `Reachable` and `Available` are the APT client: it trusts what the
chain InRelease, index, `.deb` confirms digest by digest.

**`ReleasePipeline`** puts the ledger, the publisher, `dpkg-deb` (`OpenDeb`,
`CloseDeb`, `AbandonDeb`: it writes in place) and edits of `port.toml` together.
**`StableChannel`** is the abstract specification: a client is offered a signed
catalogue of accepted files, parts of it may be unavailable, never anything else.

**`Builder`**. `stack` is the recursion of `build_port`, each frame with the
revision of the `Port` object it holds (`data`), the fingerprint it took of the
files, and what it has copied to its prefix. The container is three steps: `Compile`
empties the stage, `Install` fills it, `Check` stands for everything between
installation and the container's end: the second verification of the source tree,
the Asyncify pass, and `validate_stage`. `write_text` is two: `OpenMarker` truncates the old
marker, `WriteMarker` writes the new one and returns the stage. `run` is the process: the ports of the batch that
are left, the manifests loaded at the start, the stages collected for the package
in hand, the report. `Fail` is what `process_batch` catches; `Crash` is a torn
marker, which it does not, in every run that reaches the port through the cache until somebody
builds it directly; `Kill` ends the process at any step `Breakable` allows: before the marker is opened,
which leaves the marker of the build before beside the new stage, or before it is written, which
leaves it torn; `FailToPack` is a package that cannot be made, by an error or a
kill, and may leave a torn `.deb`. A stage is identified by the manifest it was made from,
whether it was checked, and the same of the stages it was linked with. Dependency edges
do not change, and the branch of `build_port` that refuses a circle is left to `Catalog`.

**`Catalog`**. `loaded` are the manifests `main` loads and validates, `ports` those that
`build_port` or `package_port` loads again and does not validate (`Reloads` says
what they can have become). The recursive functions are a `stack` of calls, each
with the children it has still to visit; `visiting`, `visited` and `ordered` are
the sets and the list of the two `visit` functions, which are one set of actions because they are
one function but for the lists they follow (`Lists`) and the ports they turn away (`Fit`).
`Callers` is `dependency_stack`. `chain` is the path an error message prints. A name
that is no port is a `KeyError` nobody catches, the end `crashed`. A catalog is a record
of lists; whether the form of its fields is right is one bit per port (`formed`). `Unknown` are the names that no port has, `Commands` the executables; a list may have
any of them, in any order and any number of times. The properties compare the walks with
`Reachable`, the least set closed under the lists.

**`Inputs`**. One run at a time: `build_port` from `fetch_port` to the container, or
`prepare-toolchain.py`. A digest is the content it is the digest of, and `Corrupt` is
everything nobody pins, a transfer that was cut short without an error included. `installed` is which
files of an installation are there: those the scripts look at (`Looked`, `clang`) and, for
all they do not look at, one each (`libraries`, `library`, `headers`). `clone` is the Rust checkout: none, a
`.git` without a commit, or with. `objects[t]` is what the objects of target `t` were
compiled against. A run may break off at the steps of `Breakable`, in the middle of removing
objects, compiling, or writing the marker, too; between runs `Edit` changes the pin, the
target and the compatibility sources, back as well as forth.

**`Evidence`** extends `Acceptance`: a command a script issues is a process of the
ledger. `script` is the one script that runs, with the first digest it took, the copy
it tests, the digest it binds and the records it has still to make; a failed step ends it
(`set -e`) and leaves what it has done. `build-acceptance.sh` takes each digest of a file in
`dist` in a step of its own, after the `ports.py` that wrote it has ended; `made`, the artifact its first
packaging really made, is history. `Build`, `PackageStage`, `WriteDeb` (`dpkg-deb` writes in place: the
name may stand for something else until it is done, or for good if it broke off) and `EditManifest` are what
people do between scripts, and all but the last, with `Concurrent`, beside one; the ports the script itself builds are
not cut into steps. `stage` and `marker` are what `build_port` leaves, `dist` what is
packaged, `pool` the candidate repository. `passed` now comes from the steps that show something:
a build that repeats, a build from verified sources, an installation, a browser test. Four
checks stand for the ledger's: one from each kind of step. `Verified` is `audit_port`.

**`Descriptors`**. `host` and `hostCwd` are the WASIX host; `directory_paths`,
`active_directory_path` and `lock` are the variables of `descriptors.c`; `thread[t]`
is the call thread `t` is in with its locals. A call is cut where the code lets go
of the mutex: the host's call, one step per locked read or replacement. Only `chdir` holds the
mutex over a host call, so only it is in `lock`. A path is the node it names in
a tree that does not change and has no symbolic links; the process is taken to start with
`PWD` naming its working directory. Threads stand for programs built with
`EDGETERM_POSIX_THREADS`. `LibcOpen` and `LibcClose` are opens and closes that do not
go through the layer (`opendir`, `closedir`, `fclose`, and the `close` calls in
`compat.c`); `Unwrapped` says which of them happen. `asked` keeps what a call was given:
the argument of `chdir`, or the node that the descriptor of `fchdir` was open on.

**`PosixDirectory`** is the abstract specification: one working directory, which `chdir` and `fchdir`
move in a single step to what was asked for, or leave. `Directory` in `Descriptors` maps its directory to
what `getcwd` reads (not to `hostCwd`; `CwdCoherent` relates the two), its descriptors to the host's, and a
request to the argument of the call in progress. `Answer` is the end of a call, where the mutex is put
back, so the target is judged from the directory of that moment, while the layer computed it
steps before. An `fchdir` of a descriptor without an entry fails at once, and is no step of the abstract directory.

## 4. Runs

| Run | Shows | Bounds, and why they are enough |
| --- | --- | --- |
| `evidence` | the ledger's `AcceptanceTypeOK`, `StableIsProven`, `EvidenceOfOneArtifact`, `EvidenceIsKept`; `RecordedIsTested`, `VerifiedIsPristine` | one package (records are independent); a script and a person who records beside it (a race is between two); a version whose builds come out in two ways and one that does not build |
| `release_versions` | `OfferedIsProven`; `KeepsPromise`, the refinement | one package in two versions, one artifact each, two runs: the second meets what the first left, complete or broken off |
| `release_channels` | `RepositoryTypeOK`, `OfferedIsProven`, `SignedIsServed` | both channels sharing `local-flat`; two artifacts of one version; a package that the second run refuses leaves a pool empty that the first had filled |
| `release_repackaged` | violation of `OfferedIsProven` | as above, with packaging during a publication |
| `descriptors_single` | `TableIsTrue`, `FchdirIsTrue`; `DirectoryIsPosix`, the refinement | one thread; three numbers, one beyond the limit; a tree of three directories and a file |
| `descriptors_threads` | `TypeOK`, `CwdCoherent`, `LockIsReleased` | two threads and two numbers, everything behind the layer allowed |
| `descriptors_race` | violation of `FchdirIsTrue` | two threads, everything through the layer |
| `builder_runs` | `BuilderTypeOK`, `MarkerIsTrue`, `PackedIsDeclared`, `PackedIsChecked`, `LinkedIsCurrent`, `ReportIsTrue`, `RunsEnd` | two ports, one linked with and bundling the other; two manifest revisions, so edits revert; any number of runs, broken off at every step but `"install"` and `"marker"` |
| `builder_broken_off` | violation of `PackedIsChecked` | three ports, a diamond; runs break off after installation |
| `builder_edited` | violation of `PackedIsDeclared` | three ports; manifests edited during a run |
| `catalog` | `CatalogTypeOK`, `AcceptedIsAcyclic`, `BatchesAreExact`, `CircleIsReal`, `BundleIsClosure`, `AcceptedCanBeBuilt`, `WalksEnd` | three ports with every list of up to two entries: circles through one, two and three ports, diamonds, names listed twice; catalogs with one thing wrong; reloaded with a circle, or a port missing |
| `inputs` | `InputsTypeOK`, `SourceIsPinned`, `ToolchainIsWhole`, `ObjectsAreCurrent`, `InputsEnd` | two of each thing that can be edited, so that an edit is taken back; four attempts, as in the code; any number of runs |

A passing run that shares a property with a violation leaves out the one condition
that breaks it: no packaging during a
publication (`Concurrent = FALSE` in the release runs), closes through the layer and one thread
(`Unwrapped`, `Threads`), no break-off between installation and the opening of the marker
(`Breakable` without `"install"` and `"marker"`), no edit during a run (`Concurrent = {}`). These are conditions on how the
code is used, not on what it does, and the violations are what happens without them.

Some passing runs leave out a condition under which their property fails, without a
run that shows it. Change the constant to see it:

| Run | Constant | What TLC then finds |
| --- | --- | --- |
| `evidence` | `"ready"` in `Modes` | `RecordedIsTested`: with `EDGETERM_REPOSITORY_READY=1` the `.deb` of an old pool is tested, and the digest of the one in `dist` recorded (`runtime-acceptance.sh:102`, `:105`) |
| `evidence` | `Concurrent = {"package"}` | `RecordedIsTested`, `StableIsProven` and `VerifiedIsPristine`: packaging between a build of `build-acceptance.sh` and its digest; the first also between the copy for the sandbox and the digest |
| `builder_runs` | `"marker"` in `Breakable` | `MarkerIsTrue`, `PackedIsDeclared` and `LinkedIsCurrent`: a kill after `validate_stage` (`ports.py:1126`) and before the marker is opened (`:1127`) leaves the marker of the manifest before beside the new stage; when the edit is taken back, the stage is reused, packed and linked as a build of that manifest. `PackedIsChecked` holds all the same: the stage has been checked |
| `inputs` | `"copy"` in `Breakable` | `ToolchainIsWhole`: the two files of the library that are looked at were copied before the rest (`ports.py:406`) |
| `inputs` | `"settle"` in `Breakable` | `ToolchainIsWhole`: the same with the SDK and its compiler (`prepare-toolchain.py:22`) |
| `inputs` | `Stubborn = TRUE` | `ObjectsAreCurrent`: `rmtree(..., ignore_errors=True)` leaves an object, and the marker vouches for it (`ports.py:334`) |
| `descriptors_single` | `"close"` in `Unwrapped` | `TableIsTrue` and `FchdirIsTrue`: a `close` inside libc leaves an entry which the next owner of the number inherits (`descriptors.c:397`) |
| `descriptors_single` | two `Threads` | `DirectoryIsPosix`: a relative `chdir` joins its argument to the directory of before another thread's `chdir`, and succeeds below it (`descriptors.c:415`) |

`MaxRuns` bounds the publications of a behaviour; everything else is bounded by
the constants. Permutations of packages are used as symmetries in the
release runs, which check only safety (the refinement is a safety property).

### What disagrees with the documents

* `release_repackaged`: an artifact nobody tested is signed into the stable channel
  (`scripts/repository.py:134` hashes, `:138` reads again).
* `descriptors_race`: `fchdir` returns 0 in the wrong directory.
* `builder_broken_off`: an unverified stage is reused under the marker of the build before.
* `builder_edited`: a stage of the old source is packed under the new version and checksum.

Met while modelling, and shown by no run:

* The audit compares the pristine marker by version only (`source_audit.py:76`), while
  `README.md:30` has the marker refer to the current package artifact. `VerifiedIsPristine`
  is what holds all the same, thanks to the evidence in the record.
* `validate_catalog` looks for circles among `build.dependencies` only; a circle of
  `exec_dependencies`, a build-only port to be executed, or a command listed twice by one
  port is accepted and fails when the package is made (`AcceptedCanBeBuilt` lists what can).
* `package` of a build-only port, and a dependency that has gone from the reloaded manifests,
  end in a `KeyError`, which `process_batch` does not catch.
* A Rust checkout whose first fetch broke off is never fetched again (`ports.py:416`).

## 5. Fairness

* `Descriptors!FairSpec`: weak fairness of `Continue(t)`, for each thread. A thread inside the layer
  runs straight-line code whose only wait is the mutex; nothing makes the program
  issue another call, so `Call` is not fair. The mutex holder is never waiting, so
  weak fairness is enough for `LockIsReleased`.
* `Builder!FairBuilderSpec`: weak fairness of `Work`: a process that is not killed goes on
  and its container ends. Edits, starts, failures and kills are never forced.

* `Catalog!FairCatalogSpec` and `Inputs!FairInputsSpec`: weak fairness of `Work`, which is the
  process that runs: it is sequential, transfers have a timeout and containers end. Starting a run, editing and
  breaking off are never forced. `WalksEnd` and `InputsEnd` need no more, since one
  process has always at most one kind of step to take next.

## 6. Proofs

Eight modules hold proofs. Every theorem holds for all values of the constants of its
specification; those of `AcceptanceProofs` are about `AcceptanceSpec`, the others about the specifications the runs check. Each is a chain from an inductive invariant, which says what
the property leaves out about the steps in between. The invariants are conjunctions of
parts with their names, and there is one step of proof for each action.

### The ledger and the scripts

* `AcceptanceProofs`. `StableIsProven` is not inductive: a command that holds a copy
  could put back a claim nobody would have made. `LedgerInv` adds that every record
  and *every held copy* claims only what passed, names one artifact, and has a flag
  no stronger than its checks; it is kept because `passed` only grows and both
  `Bound` and `Recorded` preserve it of any record read. `AcceptanceTyped`,
  `StableProven` and `OneArtifact` follow, for any number of packages, versions,
  checks, artifacts and processes. `EvidenceKept`, an action property, needs `KeptInv`: a
  held copy that was not overtaken has all the evidence of the record it would replace, as
  long as it is about the same version and artifact.
* `EvidenceProofs`. What a script records was shown earlier, of a file that had another
  name then. `EvidenceInv` is the ledger's two invariants, the types, and `ScriptInv`, which follows the artifact
  through a script: the file the first digest is taken of was built from verified sources, a second file
  with that digest proves that the build repeats, what the sandbox
  tests is what `dist` has, and (`Grounded`) whatever a script with a digest is going to
  record of it was shown of it, or is about to be. Some of that fails when packages are made beside a
  script, and a candidate repository that is taken as it is found (`"ready"`) makes the sandbox test another artifact;
  `Granted` is then what the ledger has not earned (everything, or the one result of the sandbox), and `Known` is
  `AcceptanceProofs` over what passed *or is granted*, so that its lemmas are used and not repeated, and `EvidenceInvariance`
  needs no condition. Nor does `ScriptsKeepLedger`: whatever happens to files beside a script, records do not mix artifacts
  and repeating loses nothing. `VerifiedPristine` needs `Undisturbed`, `RecordedTested` and `ScriptsProveStable` need
  `Exact` (`Undisturbed`, and no `"ready"`), as the table of constants in section 4 shows.

### The repository

* `ReleaseProofs`, sites. `SiteInv` says which files of its site a run has already written (`Written`), that
  `local-flat` gets what the channel got (`Mirrored`), and that the sites of a run that ended are whole
  (`SignedInv`). `RepositoryTyped` and `SignedServed` follow, whatever broke off before and
  whatever is packaged meanwhile.
* `ReleaseProofs`, the gate. A client trusts signatures, so that `GateInv` is about what is signed (`Catalogue`), what
  will be signed next (the pool, as soon as it is emptied) and what is about to be copied; all of it accepted. The step
  it depends on is `Copy`, which reads the `.deb` the gate has hashed: `OfferedProven` therefore assumes
  `Concurrent = FALSE`, and the run `release_repackaged` shows that it must.
* `PromiseKept` is the refinement of `StableChannel`, by one lemma for each kind of step: a step of the ledger is an
  `Accept`; the signature of the stable site is the one step that may `Publish`, and a publication that breaks
  off while it signs a `Void`; every other step leaves the signed catalogue alone, and at most
  takes files from a client or gives them back, a `Disturb`.

### What a build takes and makes

* `InputsProofs`. `SourceIsPinned` is inductive with the types, since what the cache has under a name was
  compared with a pin on every path to it. `CacheInv` makes the marker of the Rust cache an
  invariant: a marker that can be read is true of *the target it names*, whichever target was built
  since; it needs that what `rmtree` removes goes (`~Stubborn`). `InstalledInv`, for `ToolchainWhole`, says that the
  copied files come last and all at once, which a run that breaks off while it copies or moves
  (`{"copy", "settle"} \cap Breakable`) makes false.
* `BuilderProofs`. `BuilderInv` is about the stack: each frame waits for the dependency its inner frame
  builds (`Waits`), and has one copy for each dependency that returned (`FrameInv`). That no two
  frames have one port follows from `AcyclicAssumption`, since the ports between them would be a set
  in which each has a dependency. `BuilderTyped` and `ReportTrue` hold unconditionally.
  `CheckedInv`: a stage is under a readable marker, away from the container, only when its checks were made;
  `PackedChecked` needs that no run breaks off between installation and the checks, whatever is edited.
  `VouchedFrom` says where such a marker comes from: it spoke for the same stage before, the build has written
  it, or a kill left it beside the stage before it was opened. Without that kill, and with an opened marker being
  empty (`OpenInv`), a readable marker is the one its stage was made with.
  `CurrentInv`: nothing a run has loaded, digested, linked or collected differs from the manifests; with it
  `MarkerTrue`, `PackedDeclared` and the action property `LinkedCurrent` hold if nothing breaks off between installation and
  the opening of the marker and nobody edits during a run (`Orderly`). Every marker passes through its opening, so
  `LinkedCurrent` also speaks of a forced build that writes the fingerprint that was there.
  What happens without these conditions is shown by `builder_broken_off` and `builder_edited`, and for
  `"marker"` in the table above.

### The catalog

* `Flattening`. What the community modules' `FlattenSeq` has in it, and when it has nothing twice. The operator is
  a recursive function, so this is an induction; the library's induction theorems cannot be
  instantiated here, but the induction can be over a *set*: `LeastOfNat` is the least-number principle,
  from the well-foundedness of finite sets under inclusion.
* `CatalogProofs`, all without conditions on what the manifests say, how deep they go, or what they are when they are loaded
  again. `CatalogInv` is the shape of the stack and its relation to `visiting`. `Following` says that
  each call is for a name in its caller's list, which makes every reported `chain` a real one (`CircleReal`).
  `WalkInv` says that what a call has been through is visited, and that *what is visited is closed* under the
  lists. `Reachable` is the least closed set, so that a walk is compared with it by exhibiting
  one, without an induction on its depth: that `visited` without a port is closed when the port is about
  to be added shows that no port reaches itself (`AcceptedAcyclic`). `CollectInv` adds the order of what is
  collected (`BundleClosed`); `Nested` and `Validated` relate the walks of accepted, unchanged manifests to
  each other (`AcceptedBuildable`). `BatchesExact` is `Flattening` applied to `load_batches`.

### The descriptor layer

* `DescriptorsProofs`, threads. `CwdInv` is the type invariant with `Coherent`: whoever is at
  `chdone` holds the mutex, only such a thread does, and the host is in the
  directory that thread is about to remember; with the mutex free, the two agree.
  Calls are dealt with in `CallKeeps`, the remaining steps in `ContinueKeeps`.
  `DescriptorsTyped` and `CwdIsCoherent` follow for any number of threads and
  descriptors, any tree, and whatever libc does behind the layer.
* `DescriptorsProofs`, one thread. `TableInv` says that every entry is true except the one the call in progress
  works on, and that what the call will write there is true; for a relative open that
  includes that its directory has not moved since the host resolved the path, which
  is where a second thread would break it. Of a `chdir` it says that its path is still its argument, joined to the
  directory of now if that is relative. `TableTheorem` and `FchdirIsHonest` assume
  `SingleThreaded`: exactly one thread, no close behind the layer; opens behind it are allowed.
  `descriptors_race` is what a second thread does.
* `LayerIsPosix` is the refinement of `PosixDirectory`, under the same condition and by the same invariants. First
  steps of calls are `Use`, `Chdir` or `Fchdir` (`CallSimulated`); of the later ones only `ChdirFails` and `ChdirDone` are
  not stutters but `Answer` (`ContinueSimulated`), because `TableInv` has the target and `Coherent` the host.

### What is assumed

The `ASSUME`s of the modules, which the runs evaluate:

| Assumption | Why the code justifies it |
| --- | --- |
| null values differ from values (`NoVersion`, `None`, `Torn`, `Missing`, `Corrupt`, `NoPort`, ...) | a missing or truncated file has no content that a digest or a parser accepts |
| `ReleasesAssumption` | the same of a `Release` file, which is a record here |
| `ChecksAssumption` | `acceptance.py` has a list of checks that is not empty |
| `BuiltAssumption`, `EvidenceAssumption` | which artifacts a version can come out as; in `Evidence` the processes are the script and a person, and the checks one of each kind, as section 3 says |
| `CatalogAssumption` (`Builder`) | dependencies and bundles are ports: `validate_catalog` refuses unknown names |
| `AcyclicAssumption` (`Builder`) | `main` builds only what `validate_catalog` accepted; that this has no circle is `AcceptedAcyclic` |
| `BatchAssumption` (`Builder`) | `load_batches` refuses a batch that is empty (`ports.py:273`) or a name that comes twice (`:280`) |
| `OrderAssumption`, `CatalogsAssumption` | `load_ports` yields each directory of `ports/` once, in order; what the lists name is not restricted, and of a reloaded catalog only the form is assumed |
| `InputsAssumption` | there is something to fetch, and at least one attempt |
| `TreeAssumption`, `FdsAssumption`, `UnwrappedAssumption` (`Descriptors`) | `Join` is total on paths, `PWD` is a directory, descriptor numbers are natural; a tree that does not change, as section 3 says |

### Only model-checked

The four liveness properties `LockIsReleased`, `RunsEnd`, `WalksEnd` and `InputsEnd`: liveness under fairness,
and with it `ENABLED`, is out of the prover's reach. Every other property of a passing run has a theorem,
under the conditions named above; a passing run meets them, and the runs
that expect a violation do not.

## 7. Not modelled

Listed in `PROJECT.json` with reasons. In short:

* The mount list (`mounts.c`), which only pairs streams with their buffers; what could go wrong
  is a data race between threads that read the mount table.
* Stateless conversions: `statvfs`, `poll`, capabilities, startup, Rust overlays,
  source normalization, and most of `compat.c`.
* Data and text: manifests, the shell script `configure_script` writes but for its order of steps,
  the layout of a package (copying, symbolic links, control files, SBOM), and the ports'
  `patch_*.py`, which replace text in pinned sources and stop if the text is neither there nor replaced already.
* The image (`Dockerfile`, `build_image`).

Limits of what is modelled: one publisher and one driver at a time, inputs a
fingerprint does not cover, renames in the file tree, symbolic links, allocation failures, evidence
that was forged, and in `Evidence` one package without dependencies of its own.
