----------------------------- MODULE Repository -----------------------------
(***************************************************************************)
(* scripts/repository.py: one build_repository run, file by file.          *)
(*                                                                         *)
(* A site is a tree of files a client reads: the tree of each channel      *)
(* (pool/<channel> and dists/<channel>) and repository/local-flat.  A site *)
(* holds a pool of .deb files, an index of them, a Release that names the  *)
(* digests of the index, and signatures of the Release.  A digest is       *)
(* modelled as the contents it is the digest of, and a signature as the    *)
(* Release it was made of; dates and sizes are left out.                   *)
(*                                                                         *)
(* The run may break off at any step: an exception, a full disk, a kill.   *)
(* A file that is being written is then Torn, for every file of the run is *)
(* written in place.                                                       *)
(***************************************************************************)
EXTENDS Acceptance, FiniteSets

CONSTANTS
    Channels,     \* the channels in use, a part of {"stable", "candidate"}
    Torn,         \* a file whose writing was broken off
    Missing       \* no such file

ASSUME ChannelsAssumption == Channels \subseteq {"stable", "candidate"}
ASSUME FileValuesAssumption ==
    /\ Torn \notin Artifacts \cup {NoArtifact}
    /\ Missing \notin Artifacts \cup {Torn}

VARIABLES
    manifest,     \* deb_version of each port.toml
    dist,         \* dist/<package>_<version>_wasm32-wasix.deb
    pool,         \* the .deb files of each site
    index,        \* Packages of each site
    xz,           \* Packages.xz of each channel's site
    release,      \* Release of each site
    inRelease,    \* the Release that InRelease of each site signs
    detached,     \* the Release that Release.gpg of each channel's site signs
    run           \* the build_repository run, and how the last one ended

siteVars == <<pool, index, xz, release, inRelease, detached>>
repositoryVars == <<manifest, dist, siteVars, run>>

-----------------------------------------------------------------------------

Flat == "local-flat"
Sites == Channels \cup {Flat}

(* The contents of a .deb, and a .deb in a pool under its name.              *)
Debs == Artifacts \cup {Torn}
Files == [package : Packages, version : Versions, deb : Debs]

(* local-flat has no Packages.xz, and its Release does not name one.         *)
Releases(s) == [index : SUBSET Files, xz : IF s = Flat THEN {Missing} ELSE SUBSET Files]

ASSUME ReleasesAssumption == \A s \in Sites : {Missing, Torn} \cap Releases(s) = {}

(* A run works on one site at a time: its channel's, then local-flat.        *)
Steps == {"unlink", "select", "copy", "index", "xz", "release", "sign", "detach"}

(* The deb_version of each port is read once, when the run starts.  Of a run *)
(* that ended, signed tells which sites it completed and signed.             *)
Runs ==
    [pc : {"idle"}, signed : SUBSET Sites]
       \cup
    [pc : Steps, channel : Channels, at : Sites, key : BOOLEAN, flat : BOOLEAN,
     versions : [Packages -> Versions], todo : SUBSET Packages, copying : SUBSET Packages]

Ended(signed) == [pc |-> "idle", signed |-> signed]

At(step) == run.pc = step
Goto(step) == run' = [run EXCEPT !.pc = step]

-----------------------------------------------------------------------------

RepositoryInit ==
    /\ manifest \in [Packages -> Versions]
    /\ dist = [p \in Packages |-> [v \in Versions |-> Missing]]
    /\ pool = [s \in Sites |-> {}]
    /\ index = [s \in Sites |-> Missing]
    /\ xz = [s \in Sites |-> Missing]
    /\ release = [s \in Sites |-> Missing]
    /\ inRelease = [s \in Sites |-> Missing]
    /\ detached = [s \in Sites |-> Missing]
    /\ run = Ended({})

(* build_repository up to the loop that unlinks: it raises, with nothing     *)
(* changed, when the current .deb of any package is missing.                 *)
Start(channel, key, flat) ==
    /\ At("idle")
    /\ \A p \in Packages : dist[p][manifest[p]] # Missing
    /\ run' = [pc |-> "unlink", channel |-> channel, at |-> channel, key |-> key,
               flat |-> flat, versions |-> manifest, todo |-> {}, copying |-> {}]
    /\ UNCHANGED <<manifest, dist, siteVars>>

(* One stale .deb after the other goes.                                      *)
Unlink ==
    /\ At("unlink")
    /\ \E f \in pool[run.at] : pool' = [pool EXCEPT ![run.at] = @ \ {f}]
    /\ UNCHANGED <<manifest, dist, index, xz, release, inRelease, detached, run>>

(* What the copying loop ranges over: every port, or the channel's pool.     *)
Candidates ==
    IF run.at = Flat THEN {f.package : f \in pool[run.channel]} ELSE Packages

(* Faulty variant: the copying starts beside stale files.                    *)
Unlinked_KeepsStale ==
    /\ At("unlink")
    /\ run' = [run EXCEPT !.pc = "select", !.todo = Candidates]
    /\ UNCHANGED <<manifest, dist, siteVars>>

Unlinked ==
    /\ At("unlink")
    /\ pool[run.at] = {}
    /\ run' = [run EXCEPT !.pc = "select", !.todo = Candidates]
    /\ UNCHANGED <<manifest, dist, siteVars>>

(* Faulty variant: the record decides, whatever artifact it is bound to.     *)
Publishable_AnyArtifact(p) == is_stable(read_state(p, run.versions[p]))

(* The stable gate: a stable record of this very version and .deb.           *)
Publishable(p) ==
    LET state == read_state(p, run.versions[p]) IN
    /\ is_stable(state)
    /\ state.artifact = dist[p][run.versions[p]]

(* Faulty variant: a run that also refreshes local-flat skips the gate.      *)
Select_UngatedWithFlat(p) ==
    /\ At("select")
    /\ p \in run.todo
    /\ run' = IF run.at = "stable" /\ ~run.flat /\ ~Publishable(p)
              THEN [run EXCEPT !.todo = @ \ {p}]
              ELSE [run EXCEPT !.todo = @ \ {p}, !.copying = {p}, !.pc = "copy"]
    /\ UNCHANGED <<manifest, dist, siteVars>>

(* The loop goes by name; no property depends on the order.                  *)
Select(p) ==
    /\ At("select")
    /\ p \in run.todo
    /\ run' = IF run.at = "stable" /\ ~Publishable(p)
              THEN [run EXCEPT !.todo = @ \ {p}]
              ELSE [run EXCEPT !.todo = @ \ {p}, !.copying = {p}, !.pc = "copy"]
    /\ UNCHANGED <<manifest, dist, siteVars>>

(* The bytes are read again for the copy, after the gate has read them.      *)
Source(p) ==
    IF run.at = Flat
    THEN {f \in pool[run.channel] : f.package = p}
    ELSE {[package |-> p, version |-> run.versions[p], deb |-> dist[p][run.versions[p]]]}

Copied == UNION {Source(p) : p \in run.copying}

Copy ==
    /\ At("copy")
    /\ pool' = [pool EXCEPT ![run.at] = @ \cup Copied]
    /\ run' = [run EXCEPT !.pc = "select", !.copying = {}]
    /\ UNCHANGED <<manifest, dist, index, xz, release, inRelease, detached>>

(* write_packages_index, of the .deb files as they are in the pool.          *)
WriteIndex ==
    /\ At("select")
    /\ run.todo = {}
    /\ index' = [index EXCEPT ![run.at] = pool[run.at]]
    /\ Goto(IF run.at = Flat THEN "release" ELSE "xz")
    /\ UNCHANGED <<manifest, dist, pool, xz, release, inRelease, detached>>

(* Faulty variant: the compressed index of the run before is left in place.  *)
WriteXz_KeepsOld ==
    /\ At("xz")
    /\ xz' = IF xz[run.at] \in {Missing, Torn} THEN [xz EXCEPT ![run.at] = index[run.at]] ELSE xz
    /\ Goto("release")
    /\ UNCHANGED <<manifest, dist, pool, index, release, inRelease, detached>>

WriteXz ==
    /\ At("xz")
    /\ xz' = [xz EXCEPT ![run.at] = index[run.at]]
    /\ Goto("release")
    /\ UNCHANGED <<manifest, dist, pool, index, release, inRelease, detached>>

(* The channel's site is done: local-flat follows or the run ends.           *)
SiteDone ==
    run' = IF run.flat /\ run.at # Flat
           THEN [run EXCEPT !.pc = "unlink", !.at = Flat]
           ELSE Ended(IF run.key THEN {run.channel, run.at} ELSE {})

(* Faulty variant: local-flat's Release names the channel's Packages.xz.     *)
WriteRelease_FlatNamesXz ==
    /\ At("release")
    /\ release' = [release EXCEPT ![run.at] =
                      [index |-> index[run.at], xz |-> xz[run.channel]]]
    /\ IF run.key THEN Goto("sign") ELSE SiteDone
    /\ UNCHANGED <<manifest, dist, pool, index, xz, inRelease, detached>>

WriteRelease ==
    /\ At("release")
    /\ release' = [release EXCEPT ![run.at] = [index |-> index[run.at], xz |-> xz[run.at]]]
    /\ IF run.key THEN Goto("sign") ELSE SiteDone
    /\ UNCHANGED <<manifest, dist, pool, index, xz, inRelease, detached>>

(* gpg --clearsign.                                                          *)
Sign ==
    /\ At("sign")
    /\ inRelease' = [inRelease EXCEPT ![run.at] = release[run.at]]
    /\ IF run.at = Flat THEN SiteDone ELSE Goto("detach")
    /\ UNCHANGED <<manifest, dist, pool, index, xz, release, detached>>

(* gpg --detach-sign, for a channel's site only.                             *)
SignDetached ==
    /\ At("detach")
    /\ detached' = [detached EXCEPT ![run.at] = release[run.at]]
    /\ SiteDone
    /\ UNCHANGED <<manifest, dist, pool, index, xz, release, inRelease>>

(* Either the step's file was not opened yet, or it is torn.                 *)
Tear(variable, step) ==
    {variable} \cup (IF At(step) THEN {[variable EXCEPT ![run.at] = Torn]} ELSE {})

TearPool ==
    {pool} \cup (IF At("copy")
                 THEN {[pool EXCEPT ![run.at] =
                           @ \cup {[f EXCEPT !.deb = Torn] : f \in Copied}]}
                 ELSE {})

TearIndex ==
    {index} \cup (IF At("select") /\ run.todo = {}
                  THEN {[index EXCEPT ![run.at] = Torn]} ELSE {})

BreakOff ==
    /\ ~At("idle")
    /\ pool' \in TearPool
    /\ index' \in TearIndex
    /\ xz' \in Tear(xz, "xz")
    /\ release' \in Tear(release, "release")
    /\ inRelease' \in Tear(inRelease, "sign")
    /\ detached' \in Tear(detached, "detach")
    /\ run' = Ended({})
    /\ UNCHANGED <<manifest, dist>>

RepositoryNext ==
    \/ Unlink
    \/ Unlinked
    \/ \E p \in Packages : Select(p)
    \/ Copy
    \/ WriteIndex
    \/ WriteXz
    \/ WriteRelease
    \/ Sign
    \/ SignDetached
    \/ BreakOff

-----------------------------------------------------------------------------

(* What an APT client makes of a site: the entries a valid signature vouches *)
(* for, in the index the client fetches (Packages.xz where there is one),    *)
(* and those among them whose index and .deb have the signed digests.        *)
Catalogue(s) ==
    IF inRelease[s] \in {Missing, Torn} THEN {}
    ELSE IF s = Flat THEN inRelease[s].index ELSE inRelease[s].xz

Reachable(s) ==
    /\ inRelease[s] \notin {Missing, Torn}
    /\ Catalogue(s) = IF s = Flat THEN index[s] ELSE xz[s]

Available(s) == IF Reachable(s) THEN Catalogue(s) \cap pool[s] ELSE {}
=============================================================================
