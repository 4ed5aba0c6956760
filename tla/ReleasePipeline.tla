--------------------------- MODULE ReleasePipeline ---------------------------
(***************************************************************************)
(* The release pipeline: package_port writes .deb files, acceptance.py     *)
(* records what was tested, build_repository publishes what is accepted,   *)
(* and maintainers edit the versions in port.toml.  All share the working  *)
(* tree and nothing locks it.                                              *)
(***************************************************************************)
EXTENDS Repository, Naturals

CONSTANTS
    Built,        \* Built[v]: the artifacts a build of version v can produce
    Concurrent,   \* may package_port run while build_repository runs?
    Flats,        \* the values of --local-flat in use
    MaxRuns       \* bound on the number of build_repository runs

ASSUME BuiltAssumption == Built \in [Versions -> SUBSET Artifacts]
ASSUME ConcurrentAssumption == Concurrent \in BOOLEAN
ASSUME FlatsAssumption == Flats \subseteq BOOLEAN
ASSUME MaxRunsAssumption == MaxRuns \in Nat

VARIABLES
    packaging,    \* the version whose .deb dpkg-deb is writing, per package
    started       \* how many build_repository runs were started

pipelineVars == <<acceptanceVars, repositoryVars, packaging, started>>

-----------------------------------------------------------------------------

PipelineInit ==
    /\ AcceptanceInit
    /\ RepositoryInit
    /\ packaging = [p \in Packages |-> NoVersion]
    /\ started = 0

(* A version or revision is changed in port.toml.                            *)
EditManifest(p, v) ==
    /\ manifest' = [manifest EXCEPT ![p] = v]
    /\ UNCHANGED <<acceptanceVars, dist, siteVars, run, packaging, started>>

(* dpkg-deb opens its output in place, under the version package_port read.  *)
OpenDeb(p) ==
    /\ packaging[p] = NoVersion
    /\ Concurrent \/ At("idle")
    /\ packaging' = [packaging EXCEPT ![p] = manifest[p]]
    /\ dist' = [dist EXCEPT ![p][manifest[p]] = Torn]
    /\ UNCHANGED <<acceptanceVars, manifest, siteVars, run, started>>

CloseDeb(p, a) ==
    /\ packaging[p] # NoVersion
    /\ a \in Built[packaging[p]]
    /\ dist' = [dist EXCEPT ![p][packaging[p]] = a]
    /\ packaging' = [packaging EXCEPT ![p] = NoVersion]
    /\ UNCHANGED <<acceptanceVars, manifest, siteVars, run, started>>

(* dpkg-deb or its container dies and leaves what it wrote.                  *)
AbandonDeb(p) ==
    /\ packaging[p] # NoVersion
    /\ packaging' = [packaging EXCEPT ![p] = NoVersion]
    /\ UNCHANGED <<acceptanceVars, repositoryVars, started>>

(* Without Concurrent, a publication waits for packaging to be over.         *)
StartRun ==
    /\ Concurrent \/ \A p \in Packages : packaging[p] = NoVersion
    /\ started < MaxRuns
    /\ \E channel \in Channels, key \in BOOLEAN, flat \in Flats : Start(channel, key, flat)
    /\ started' = started + 1
    /\ UNCHANGED <<acceptanceVars, packaging>>

Publish ==
    /\ RepositoryNext
    /\ UNCHANGED <<acceptanceVars, packaging, started>>

Accept ==
    /\ AcceptanceNext
    /\ UNCHANGED <<repositoryVars, packaging, started>>

PackagerNext ==
    \E p \in Packages :
       \/ \E v \in Versions : EditManifest(p, v)
       \/ OpenDeb(p)
       \/ \E a \in Artifacts : CloseDeb(p, a)
       \/ AbandonDeb(p)

PipelineNext == StartRun \/ Publish \/ Accept \/ PackagerNext

PipelineSpec == PipelineInit /\ [][PipelineNext]_pipelineVars

-----------------------------------------------------------------------------

RepositoryTypeOK ==
    /\ manifest \in [Packages -> Versions]
    /\ dist \in [Packages -> [Versions -> Debs \cup {Missing}]]
    /\ pool \in [Sites -> SUBSET Files]
    /\ \A s \in Sites :
          /\ index[s] \in (SUBSET Files) \cup {Missing, Torn}
          /\ xz[s] \in (SUBSET Files) \cup {Missing, Torn}
          /\ {release[s], inRelease[s], detached[s]}
                \subseteq Releases(s) \cup {Missing, Torn}
    /\ run \in Runs
    /\ packaging \in [Packages -> Versions \cup {NoVersion}]
    /\ started \in 0 .. MaxRuns

(* The files that passed every check.                                        *)
AcceptedFiles ==
    {f \in Files : \A c \in Checks : <<f.package, c, f.deb>> \in passed}

(* local-flat shows the channel it was built from, so it is gated only where *)
(* no candidate channel is in use.                                           *)
GatedSites == {"stable"} \cup (IF "candidate" \in Channels THEN {} ELSE {Flat})

(* A client of the stable channel can never install a .deb that did not pass *)
(* every acceptance check: not while a publication rewrites the site, not    *)
(* after one that broke off, and not while records are rebound (the gate of  *)
(* build_repository with the chain InRelease, Packages, .deb).               *)
OfferedIsProven ==
    \A s \in Sites \cap GatedSites : Available(s) \subseteq AcceptedFiles

(* When a run ends with its sites signed, everything in their pools can be   *)
(* installed, both signatures sign the Release that is there, and local-flat *)
(* holds what its channel holds.                                             *)
SignedIsServed ==
    At("idle") =>
       /\ \A s \in run.signed :
             /\ Available(s) = pool[s]
             /\ inRelease[s] = release[s]
             /\ s # Flat => detached[s] = release[s] /\ index[s] = xz[s]
       /\ \A s \in run.signed \ {Flat} : Flat \in run.signed => pool[Flat] = pool[s]

(* The stable site, seen through the digests a client checks, is the channel *)
(* that StableChannel promises.                                              *)
Promised == INSTANCE StableChannel WITH
    accepted <- AcceptedFiles,
    catalogue <- Catalogue("stable"),
    available <- Available("stable")

KeepsPromise == Promised!ChannelSpec
=============================================================================
