---------------------------- MODULE ReleaseProofs ----------------------------
(***************************************************************************)
(* Proofs about the release pipeline, for any packages, versions, builds   *)
(* and number of publications.  A publication writes each site file after  *)
(* file and may break off anywhere.  That a finished run is served whole   *)
(* needs an invariant about the files the run has already written; that a  *)
(* client is only ever offered accepted files needs, besides, one about    *)
(* the pool the signature is going to vouch for, and that nothing is       *)
(* packaged between the gate and the copy.                                 *)
(***************************************************************************)
EXTENDS ReleasePipeline, AcceptanceProofs

-----------------------------------------------------------------------------

(* Every file of a site has its place.                                       *)
SitesOK ==
    /\ DOMAIN index = Sites
    /\ DOMAIN xz = Sites
    /\ DOMAIN release = Sites
    /\ DOMAIN inRelease = Sites
    /\ DOMAIN detached = Sites
    /\ xz[Flat] = Missing

(* All files of a site fit together.                                         *)
Complete(s) ==
    /\ index[s] = pool[s]
    /\ xz[s] = IF s = Flat THEN Missing ELSE index[s]
    /\ release[s] = [index |-> index[s], xz |-> xz[s]]
    /\ inRelease[s] = release[s]
    /\ s # Flat => detached[s] = release[s]

(* The files of its site a run has already written.                          *)
Written ==
    /\ run.pc \in {"xz", "release", "sign", "detach"} => index[run.at] = pool[run.at]
    /\ run.pc \in {"release", "sign", "detach"} =>
          xz[run.at] = IF run.at = Flat THEN Missing ELSE index[run.at]
    /\ run.pc \in {"sign", "detach"} =>
          /\ run.key
          /\ release[run.at] = [index |-> index[run.at], xz |-> xz[run.at]]
    /\ At("detach") => inRelease[run.at] = release[run.at]

(* How far local-flat has come to hold what the run's channel holds.         *)
Mirrored ==
    run.at = Flat =>
       /\ run.key => Complete(run.channel)
       /\ run.pc \in {"select", "copy"} =>
             /\ pool[Flat] \subseteq pool[run.channel]
             /\ \A f \in pool[run.channel] :
                   f \in pool[Flat] \/ f.package \in run.todo \cup run.copying
       /\ run.pc \in {"release", "sign"} => pool[Flat] = pool[run.channel]

RunInv ==
    ~At("idle") =>
       /\ \A p \in Packages : dist[p][run.versions[p]] # Missing
       /\ run.at \in {run.channel, Flat}
       /\ run.pc \in {"xz", "detach"} => run.at # Flat
       /\ ~At("copy") => run.copying = {}
       /\ Written
       /\ Mirrored

SignedInv ==
    At("idle") =>
       \A s \in run.signed : Complete(s) /\ (Flat \in run.signed => pool[Flat] = pool[s])

SiteInv ==
    /\ RepositoryTypeOK
    /\ SitesOK
    /\ RunInv
    /\ SignedInv

(* The stable gate: what is signed, what is going to be signed, and what is  *)
(* going to be copied.                                                       *)
GateInv ==
    /\ \A s \in Sites \cap GatedSites : Catalogue(s) \subseteq AcceptedFiles
    /\ ~At("idle") =>
          /\ \A p \in Packages : packaging[p] = NoVersion
          /\ run.channel = "stable" /\ ~(At("unlink") /\ run.at = "stable") =>
                pool["stable"] \subseteq AcceptedFiles
          /\ At("copy") /\ run.at = "stable" => Copied \subseteq AcceptedFiles

-----------------------------------------------------------------------------

LEMMA FlatIsApart == Flat \in Sites /\ Flat \notin Channels /\ Channels \subseteq Sites
  BY ChannelsAssumption DEF Flat, Sites

(* The variables of a run that is not over.                                  *)
LEMMA Running ==
    ASSUME run \in Runs, ~At("idle")
    PROVE  /\ run.pc \in Steps /\ run.channel \in Channels /\ run.at \in Sites
           /\ run.key \in BOOLEAN /\ run.flat \in BOOLEAN
           /\ run.versions \in [Packages -> Versions]
           /\ run.todo \subseteq Packages /\ run.copying \subseteq Packages
           /\ run = [pc |-> run.pc, channel |-> run.channel, at |-> run.at, key |-> run.key,
                     flat |-> run.flat, versions |-> run.versions, todo |-> run.todo,
                     copying |-> run.copying]
  BY DEF Runs, At

(* A step to another pc that leaves the rest of the run alone.               *)
LEMMA GotoFields ==
    ASSUME run \in Runs, ~At("idle"), NEW step \in Steps, Goto(step)
    PROVE  /\ run' \in Runs
           /\ run'.pc = step /\ run'.channel = run.channel /\ run'.at = run.at
           /\ run'.key = run.key /\ run'.flat = run.flat /\ run'.versions = run.versions
           /\ run'.todo = run.todo /\ run'.copying = run.copying
  BY Running DEF Goto, Runs

(* What a run copies are files.                                              *)
LEMMA CopiedAreFiles ==
    ASSUME RepositoryTypeOK, RunInv, ~At("idle")
    PROVE  Copied \in SUBSET Files
  <1> USE Running DEF RepositoryTypeOK
  <1>1. ASSUME NEW p \in run.copying PROVE Source(p) \subseteq Files
    <2>1. CASE run.at = Flat
      BY <2>1, FlatIsApart DEF Source
    <2>2. CASE run.at # Flat
      <3>1. p \in Packages /\ run.versions[p] \in Versions
        OBVIOUS
      <3>2. dist[p][run.versions[p]] \in Debs
        BY <3>1 DEF RunInv
      <3> QED BY <2>2, <3>1, <3>2 DEF Source, Files
    <2> QED BY <2>1, <2>2
  <1> QED BY <1>1 DEF Copied

(* The site is done: either local-flat comes next, or the run ends with the  *)
(* sites it signed.                                                          *)
LEMMA SiteDoneStep ==
    ASSUME SiteInv, ~At("idle"), ~At("copy"), SiteDone, UNCHANGED dist,
           NEW site, site = run.at, NEW channel, channel = run.channel,
           run.key => Complete(site)',
           run.key /\ site = Flat => Complete(channel)' /\ pool'[Flat] = pool'[channel]
    PROVE  run' \in Runs /\ RunInv' /\ SignedInv'
  <1> USE Running, FlatIsApart DEF SiteInv, RepositoryTypeOK
  <1>0. run.copying = {} /\ site \in {channel, Flat}
    BY DEF RunInv
  <1>1. CASE run.flat /\ run.at # Flat
    <2>1. run' = [run EXCEPT !.pc = "unlink", !.at = Flat]
      BY <1>1 DEF SiteDone
    <2>2. /\ run' \in Runs
          /\ run'.pc = "unlink" /\ run'.at = Flat /\ run'.copying = {}
          /\ run'.channel = channel /\ run'.versions = run.versions /\ run'.key = run.key
      BY <1>0, <2>1 DEF Runs, Steps
    <2>3. run'.key => Complete(run.channel)'
      BY <1>0, <1>1, <2>2
    <2>4. \A p \in Packages : dist'[p][run'.versions[p]] # Missing
      BY <2>2 DEF RunInv
    <2>5. RunInv'
      BY <2>2, <2>3, <2>4 DEF RunInv, Written, Mirrored, At
    <2> QED BY <2>2, <2>5 DEF SignedInv, At
  <1>2. CASE ~(run.flat /\ run.at # Flat)
    <2> DEFINE signed == IF run.key THEN {channel, site} ELSE {}
    <2>1. run' = [pc |-> "idle", signed |-> signed] /\ signed \subseteq Sites
      BY <1>2 DEF SiteDone, Ended
    <2>2. run' \in Runs /\ RunInv'
      BY <2>1 DEF Runs, RunInv, At
    <2>3. run'.signed = signed
      BY <2>1
    <2>4. ASSUME NEW s \in signed
          PROVE  Complete(s)' /\ (Flat \in signed => pool'[Flat] = pool'[s])
      <3>1. run.key /\ s \in {channel, site} /\ channel # Flat
        BY <2>4
      <3>2. Complete(s)'
        BY <1>0, <3>1
      <3>3. Flat \in signed => site = Flat
        BY <3>1
      <3> QED BY <1>0, <3>1, <3>2, <3>3
    <2> HIDE DEF signed
    <2>5. SignedInv'
      BY <2>3, <2>4 DEF SignedInv
    <2> QED BY <2>2, <2>5
  <1> QED BY <1>1, <1>2

(* Files of another site than the run's are left alone.                      *)
LEMMA CompleteStands ==
    ASSUME NEW s, Complete(s),
           pool'[s] = pool[s], index'[s] = index[s], xz'[s] = xz[s],
           release'[s] = release[s], inRelease'[s] = inRelease[s], detached'[s] = detached[s]
    PROVE  Complete(s)'
  BY DEF Complete

(* The run empties the pool of its site and decides what to copy.            *)
LEMMA UnlinkKeeps ==
    ASSUME SiteInv, Unlink, UNCHANGED <<packaging, started>>
    PROVE  SiteInv'
  <1> USE FlatIsApart DEF Unlink, SiteInv
  <1>0. ~At("idle") /\ run \in Runs
    BY DEF At, RepositoryTypeOK
  <1>1. PICK f \in pool[run.at] : pool' = [pool EXCEPT ![run.at] = @ \ {f}]
    OBVIOUS
  <1>2. RepositoryTypeOK'
    BY <1>0, <1>1, Running DEF RepositoryTypeOK
  <1>3. RunInv'
    <2>1. Written'
      BY DEF Written, At
    <2>2. Mirrored'
      <3> SUFFICES ASSUME run.at = Flat, run.key PROVE Complete(run.channel)'
        BY DEF Mirrored, At
      <3>1. run.channel # Flat /\ run.channel \in Sites
        BY <1>0, Running
      <3>2. pool'[run.channel] = pool[run.channel]
        BY <1>1, <3>1 DEF RepositoryTypeOK
      <3> QED BY <1>0, <3>2, CompleteStands DEF RunInv, Mirrored
    <2> QED BY <2>1, <2>2 DEF RunInv, At
  <1>4. SitesOK' /\ SignedInv'
    BY <1>0 DEF SitesOK, SignedInv, At
  <1> QED BY <1>2, <1>3, <1>4

LEMMA UnlinkedKeeps ==
    ASSUME SiteInv, Unlinked, UNCHANGED <<packaging, started>>
    PROVE  SiteInv'
  <1> USE FlatIsApart DEF Unlinked, SiteInv
  <1>0. ~At("idle") /\ run \in Runs /\ ~At("copy")
    BY DEF At, RepositoryTypeOK
  <1>1. Candidates \subseteq Packages
    BY <1>0, Running DEF Candidates, RepositoryTypeOK, Files
  <1>2. /\ run' \in Runs
        /\ run'.pc = "select" /\ run'.todo = Candidates
        /\ run'.channel = run.channel /\ run'.at = run.at /\ run'.key = run.key
        /\ run'.versions = run.versions /\ run'.copying = run.copying
    BY <1>0, <1>1, Running DEF Runs, Steps
  <1>3. UNCHANGED <<manifest, dist, pool, index, xz, release, inRelease, detached>>
    BY DEF siteVars
  <1>4. RepositoryTypeOK'
    BY <1>2, <1>3 DEF RepositoryTypeOK
  <1>5. RunInv'
    <2>1. Written'
      BY <1>2 DEF Written, At
    <2>2. Mirrored'
      <3> SUFFICES ASSUME run.at = Flat
                   PROVE  /\ run.key => Complete(run.channel)
                          /\ pool[Flat] \subseteq pool[run.channel]
                          /\ \A f \in pool[run.channel] : f.package \in Candidates
        BY <1>2, <1>3 DEF Mirrored, Complete
      <3> QED BY <1>0 DEF RunInv, Mirrored, Candidates
    <2> QED BY <1>0, <1>2, <1>3, <2>1, <2>2 DEF RunInv, At
  <1>6. SitesOK' /\ SignedInv'
    BY <1>2, <1>3 DEF SitesOK, SignedInv, At
  <1> QED BY <1>4, <1>5, <1>6

LEMMA SelectKeeps ==
    ASSUME SiteInv, NEW p \in Packages, Select(p), UNCHANGED <<packaging, started>>
    PROVE  SiteInv'
  <1> USE FlatIsApart DEF Select, SiteInv
  <1>0. ~At("idle") /\ run \in Runs /\ run.copying = {}
    BY DEF At, RepositoryTypeOK, RunInv
  <1>1. /\ run' \in Runs
        /\ run'.channel = run.channel /\ run'.at = run.at /\ run'.key = run.key
        /\ run'.versions = run.versions /\ run'.todo = run.todo \ {p}
        /\ \/ run.at = "stable" /\ run'.pc = "select" /\ run'.copying = {}
           \/ run'.pc = "copy" /\ run'.copying = {p}
    BY <1>0, Running DEF Runs, Steps, At
  <1>2. UNCHANGED <<manifest, dist, pool, index, xz, release, inRelease, detached>>
    BY DEF siteVars
  <1>3. RepositoryTypeOK'
    BY <1>1, <1>2 DEF RepositoryTypeOK
  <1>4. RunInv'
    <2>1. Written'
      BY <1>1 DEF Written, At
    <2>2. Mirrored'
      <3> SUFFICES ASSUME run.at = Flat
                   PROVE  /\ run.key => Complete(run.channel)
                          /\ pool[Flat] \subseteq pool[run.channel]
                          /\ \A f \in pool[run.channel] :
                                f \in pool[Flat] \/ f.package \in (run.todo \ {p}) \cup {p}
        BY <1>1, <1>2 DEF Mirrored, Complete, Flat
      <3> QED BY <1>0 DEF RunInv, Mirrored, At
    <2> QED BY <1>0, <1>1, <1>2, <2>1, <2>2 DEF RunInv, At
  <1>5. SitesOK' /\ SignedInv'
    BY <1>1, <1>2 DEF SitesOK, SignedInv, At
  <1> QED BY <1>3, <1>4, <1>5

LEMMA CopyKeeps ==
    ASSUME SiteInv, Copy, UNCHANGED <<packaging, started>>
    PROVE  SiteInv'
  <1> USE FlatIsApart DEF Copy, SiteInv
  <1>0. ~At("idle") /\ run \in Runs /\ run.at \in Sites
    BY Running DEF At, RepositoryTypeOK
  <1>1. /\ run' \in Runs
        /\ run'.pc = "select" /\ run'.copying = {}
        /\ run'.channel = run.channel /\ run'.at = run.at /\ run'.key = run.key
        /\ run'.versions = run.versions /\ run'.todo = run.todo
    BY <1>0, Running DEF Runs, Steps
  <1>2. Copied \in SUBSET Files
    BY <1>0, CopiedAreFiles
  <1>3. /\ pool'[run.at] = pool[run.at] \cup Copied
        /\ \A s \in Sites : s # run.at => pool'[s] = pool[s]
        /\ pool' \in [Sites -> SUBSET Files]
    BY <1>0, <1>2 DEF RepositoryTypeOK
  <1>4. RepositoryTypeOK'
    BY <1>1, <1>3 DEF RepositoryTypeOK
  <1>5. RunInv'
    <2>1. Written'
      BY <1>1 DEF Written, At
    <2>2. Mirrored'
      <3> SUFFICES ASSUME run.at = Flat
                   PROVE  /\ run.key => Complete(run.channel)'
                          /\ pool'[Flat] \subseteq pool'[run.channel]
                          /\ \A f \in pool'[run.channel] :
                                f \in pool'[Flat] \/ f.package \in run.todo
        BY <1>1 DEF Mirrored
      <3>1. run.channel \in Sites /\ run.channel # Flat
        BY <1>0, Running
      <3>2. pool'[run.channel] = pool[run.channel]
        BY <1>3, <3>1
      <3>3. Copied = {f \in pool[run.channel] : f.package \in run.copying}
        BY DEF Copied, Source
      <3>4. run.key => Complete(run.channel)'
        BY <1>0, <1>1, <3>2, CompleteStands DEF RunInv, Mirrored
      <3> QED BY <1>0, <1>1, <1>3, <3>2, <3>3, <3>4 DEF RunInv, Mirrored, At
    <2> QED BY <1>0, <1>1, <2>1, <2>2 DEF RunInv, At
  <1>6. SitesOK' /\ SignedInv'
    BY <1>1 DEF SitesOK, SignedInv, At
  <1> QED BY <1>4, <1>5, <1>6

(* The run writes the files of its site, each from those before it.          *)
LEMMA WriteIndexKeeps ==
    ASSUME SiteInv, WriteIndex, UNCHANGED <<packaging, started>>
    PROVE  SiteInv'
  <1> USE FlatIsApart DEF WriteIndex, SiteInv
  <1>0. ~At("idle") /\ run \in Runs /\ run.at \in Sites
    BY Running DEF At, RepositoryTypeOK
  <1>1. /\ run' \in Runs
        /\ run'.pc = IF run.at = Flat THEN "release" ELSE "xz"
        /\ run'.channel = run.channel /\ run'.at = run.at /\ run'.key = run.key
        /\ run'.versions = run.versions /\ run'.copying = run.copying
    BY <1>0, GotoFields DEF Steps
  <1>2. /\ index'[run.at] = pool[run.at]
        /\ \A s \in Sites : s # run.at => index'[s] = index[s]
        /\ DOMAIN index' = Sites
    BY <1>0 DEF SitesOK
  <1>3. RepositoryTypeOK'
    BY <1>0, <1>1, <1>2 DEF RepositoryTypeOK
  <1>4. RunInv'
    <2>1. Written'
      BY <1>1, <1>2 DEF Written, At, SitesOK
    <2>2. Mirrored'
      <3> SUFFICES ASSUME run.at = Flat
                   PROVE  /\ run.key => Complete(run.channel)'
                          /\ pool[Flat] = pool[run.channel]
        BY <1>1 DEF Mirrored
      <3>1. run.channel \in Sites /\ run.channel # Flat
        BY <1>0, Running
      <3>2. run.key => Complete(run.channel)'
        BY <1>0, <1>1, <1>2, <3>1, CompleteStands DEF RunInv, Mirrored
      <3> QED BY <1>0, <3>2 DEF RunInv, Mirrored, At
    <2> QED BY <1>0, <1>1, <2>1, <2>2 DEF RunInv, At
  <1>5. SitesOK' /\ SignedInv'
    BY <1>1, <1>2 DEF SitesOK, SignedInv, At
  <1> QED BY <1>3, <1>4, <1>5

LEMMA WriteXzKeeps ==
    ASSUME SiteInv, WriteXz, UNCHANGED <<packaging, started>>
    PROVE  SiteInv'
  <1> USE FlatIsApart DEF WriteXz, SiteInv
  <1>0. ~At("idle") /\ run \in Runs /\ run.at \in Sites /\ run.at # Flat
    BY Running DEF At, RepositoryTypeOK, RunInv
  <1>1. /\ run' \in Runs
        /\ run'.pc = "release"
        /\ run'.channel = run.channel /\ run'.at = run.at /\ run'.key = run.key
        /\ run'.versions = run.versions /\ run'.copying = run.copying
    BY <1>0, GotoFields DEF Steps
  <1>2. /\ xz'[run.at] = index[run.at]
        /\ \A s \in Sites : s # run.at => xz'[s] = xz[s]
        /\ DOMAIN xz' = Sites
    BY <1>0 DEF SitesOK
  <1>3. RepositoryTypeOK'
    BY <1>0, <1>1, <1>2 DEF RepositoryTypeOK
  <1>4. RunInv'
    <2>1. Written' /\ Mirrored'
      BY <1>0, <1>1, <1>2 DEF Written, Mirrored, At, RunInv
    <2> QED BY <1>0, <1>1, <2>1 DEF RunInv, At
  <1>5. SitesOK' /\ SignedInv'
    BY <1>0, <1>1, <1>2 DEF SitesOK, SignedInv, At
  <1> QED BY <1>3, <1>4, <1>5

LEMMA WriteReleaseKeeps ==
    ASSUME SiteInv, WriteRelease, UNCHANGED <<packaging, started>>
    PROVE  SiteInv'
  <1> USE FlatIsApart DEF WriteRelease, SiteInv
  <1>0. ~At("idle") /\ ~At("copy") /\ run \in Runs /\ run.at \in Sites
    BY Running DEF At, RepositoryTypeOK
  <1> DEFINE written == [index |-> index[run.at], xz |-> xz[run.at]]
  <1>1. /\ release'[run.at] = written
        /\ \A s \in Sites : s # run.at => release'[s] = release[s]
        /\ DOMAIN release' = Sites
    BY <1>0 DEF SitesOK
  <1>2. written \in Releases(run.at)
    <2>1. pool[run.at] \in SUBSET Files /\ index[run.at] = pool[run.at]
      BY <1>0 DEF RepositoryTypeOK, RunInv, Written, At
    <2>2. xz[run.at] = IF run.at = Flat THEN Missing ELSE index[run.at]
      BY <1>0 DEF RunInv, Written, At
    <2> QED BY <2>1, <2>2 DEF Releases
  <1>3. run' \in Runs /\ RunInv' /\ SignedInv'
    <2>1. CASE run.key
      <3>1. /\ run' \in Runs
            /\ run'.pc = "sign"
            /\ run'.channel = run.channel /\ run'.at = run.at /\ run'.key = run.key
            /\ run'.versions = run.versions /\ run'.copying = run.copying
        BY <1>0, <2>1, GotoFields DEF Steps
      <3>2. Written'
        BY <1>0, <1>1, <2>1, <3>1 DEF Written, At, RunInv
      <3>3. Mirrored'
        <4> SUFFICES ASSUME run.at = Flat
                     PROVE  /\ run.key => Complete(run.channel)'
                            /\ pool[Flat] = pool[run.channel]
          BY <3>1 DEF Mirrored
        <4>1. run.channel \in Sites /\ run.channel # Flat
          BY <1>0, Running
        <4>2. run.key => Complete(run.channel)'
          BY <1>0, <1>1, <3>1, <4>1, CompleteStands DEF RunInv, Mirrored
        <4> QED BY <1>0, <4>2 DEF RunInv, Mirrored, At
      <3> QED BY <1>0, <3>1, <3>2, <3>3 DEF RunInv, SignedInv, At
    <2>2. CASE ~run.key
      BY <1>0, <2>2, SiteDoneStep
    <2> QED BY <2>1, <2>2
  <1>4. RepositoryTypeOK'
    BY <1>0, <1>1, <1>2, <1>3 DEF RepositoryTypeOK
  <1>5. SitesOK'
    BY <1>1 DEF SitesOK
  <1> QED BY <1>3, <1>4, <1>5

LEMMA SignKeeps ==
    ASSUME SiteInv, Sign, UNCHANGED <<packaging, started>>
    PROVE  SiteInv'
  <1> USE FlatIsApart DEF Sign, SiteInv
  <1>0. ~At("idle") /\ ~At("copy") /\ run \in Runs /\ run.at \in Sites
    BY Running DEF At, RepositoryTypeOK
  <1>1. /\ inRelease'[run.at] = release[run.at]
        /\ \A s \in Sites : s # run.at => inRelease'[s] = inRelease[s]
        /\ DOMAIN inRelease' = Sites
    BY <1>0 DEF SitesOK
  <1>2. run' \in Runs /\ RunInv' /\ SignedInv'
    <2>1. CASE run.at # Flat
      <3>1. /\ run' \in Runs
            /\ run'.pc = "detach"
            /\ run'.channel = run.channel /\ run'.at = run.at /\ run'.key = run.key
            /\ run'.versions = run.versions /\ run'.copying = run.copying
        BY <1>0, <2>1, GotoFields DEF Steps
      <3>2. Written' /\ Mirrored'
        BY <1>0, <1>1, <2>1, <3>1 DEF Written, Mirrored, At, RunInv
      <3> QED BY <1>0, <2>1, <3>1, <3>2 DEF RunInv, SignedInv, At
    <2>2. CASE run.at = Flat
      <3> PICK channel : channel = run.channel
        OBVIOUS
      <3>1. channel \in Sites /\ channel # Flat
        BY <1>0, Running
      <3>2. Complete(channel) /\ pool[Flat] = pool[channel]
        BY <1>0, <2>2 DEF RunInv, Written, Mirrored, At
      <3>3. Complete(channel)'
        BY <1>1, <2>2, <3>1, <3>2, CompleteStands
      <3>4. Complete(Flat)'
        BY <1>0, <1>1, <2>2 DEF RunInv, Written, Complete, At
      <3> QED BY <1>0, <2>2, <3>2, <3>3, <3>4, SiteDoneStep
    <2> QED BY <2>1, <2>2
  <1>3. RepositoryTypeOK'
    BY <1>0, <1>1, <1>2 DEF RepositoryTypeOK
  <1>4. SitesOK'
    BY <1>1 DEF SitesOK
  <1> QED BY <1>2, <1>3, <1>4

LEMMA SignDetachedKeeps ==
    ASSUME SiteInv, SignDetached, UNCHANGED <<packaging, started>>
    PROVE  SiteInv'
  <1> USE FlatIsApart DEF SignDetached, SiteInv
  <1>0. ~At("idle") /\ ~At("copy") /\ run \in Runs /\ run.at \in Sites /\ run.at # Flat
    BY Running DEF At, RepositoryTypeOK, RunInv
  <1> PICK site : site = run.at
    OBVIOUS
  <1>1. /\ detached'[site] = release[site]
        /\ \A s \in Sites : s # site => detached'[s] = detached[s]
        /\ DOMAIN detached' = Sites
    BY <1>0 DEF SitesOK
  <1>2. /\ index[site] = pool[site]
        /\ xz[site] = index[site]
        /\ release[site] = [index |-> index[site], xz |-> xz[site]]
        /\ inRelease[site] = release[site]
    BY <1>0 DEF RunInv, Written, At
  <1>3. Complete(site)'
    BY <1>0, <1>1, <1>2 DEF Complete
  <1>4. run' \in Runs /\ RunInv' /\ SignedInv'
    BY <1>0, <1>3, SiteDoneStep
  <1>5. RepositoryTypeOK'
    BY <1>0, <1>1, <1>4 DEF RepositoryTypeOK
  <1>6. SitesOK'
    BY <1>1 DEF SitesOK
  <1> QED BY <1>4, <1>5, <1>6

(* Wherever the run breaks off, it promises nothing more.                    *)
LEMMA TornOrNot ==
    ASSUME NEW variable, DOMAIN variable = Sites, NEW step, NEW new \in Tear(variable, step)
    PROVE  /\ DOMAIN new = Sites
           /\ \A s \in Sites : new[s] \in {variable[s], Torn}
           /\ ~At(step) => new = variable
  BY DEF Tear

LEMMA BreakOffKeeps ==
    ASSUME SiteInv, BreakOff, UNCHANGED <<packaging, started>>
    PROVE  SiteInv'
  <1> USE FlatIsApart DEF BreakOff, SiteInv
  <1>0. run \in Runs /\ run.at \in Sites
    BY Running DEF RepositoryTypeOK
  <1>1. run' = [pc |-> "idle", signed |-> {}]
    BY DEF Ended
  <1>2. RunInv' /\ SignedInv' /\ run' \in Runs
    BY <1>1 DEF RunInv, SignedInv, At, Runs
  <1>3. /\ DOMAIN index' = Sites
        /\ \A s \in Sites : index'[s] \in {index[s], Torn}
    BY DEF TearIndex, SitesOK
  <1>4. /\ DOMAIN xz' = Sites
        /\ \A s \in Sites : xz'[s] \in {xz[s], Torn}
    BY TornOrNot DEF SitesOK
  <1>5. DOMAIN release' = Sites /\ \A s \in Sites : release'[s] \in {release[s], Torn}
    BY TornOrNot DEF SitesOK
  <1>6. DOMAIN inRelease' = Sites /\ \A s \in Sites : inRelease'[s] \in {inRelease[s], Torn}
    BY TornOrNot DEF SitesOK
  <1>7. DOMAIN detached' = Sites /\ \A s \in Sites : detached'[s] \in {detached[s], Torn}
    BY TornOrNot DEF SitesOK
  <1>8. pool' \in [Sites -> SUBSET Files]
    <2>1. {[f EXCEPT !.deb = Torn] : f \in Copied} \in SUBSET Files
      BY CopiedAreFiles DEF Files, Debs
    <2> QED BY <1>0, <2>1 DEF TearPool, RepositoryTypeOK
  <1>9. xz'[Flat] = Missing
    <2>1. ~(At("xz") /\ run.at = Flat)
      BY DEF RunInv, At
    <2> QED BY <1>0, <2>1 DEF Tear, SitesOK
  <1>10. RepositoryTypeOK'
    BY <1>2, <1>3, <1>4, <1>5, <1>6, <1>7, <1>8 DEF RepositoryTypeOK
  <1> QED BY <1>2, <1>3, <1>4, <1>5, <1>6, <1>7, <1>9, <1>10 DEF SitesOK

LEMMA PublishKeeps == ASSUME SiteInv, Publish PROVE SiteInv'
  BY UnlinkKeeps, UnlinkedKeeps, SelectKeeps, CopyKeeps, WriteIndexKeeps, WriteXzKeeps,
     WriteReleaseKeeps, SignKeeps, SignDetachedKeeps, BreakOffKeeps DEF Publish, RepositoryNext

(* A run starts only with every current .deb in place, and no .deb is ever   *)
(* removed from dist.                                                        *)
LEMMA StartKeeps == ASSUME SiteInv, StartRun PROVE SiteInv'
  <1> USE FlatIsApart DEF SiteInv
  <1> PICK channel \in Channels, key \in BOOLEAN, flat \in Flats : Start(channel, key, flat)
    BY DEF StartRun
  <1>1. run' = [pc |-> "unlink", channel |-> channel, at |-> channel, key |-> key,
                flat |-> flat, versions |-> manifest, todo |-> {}, copying |-> {}]
    BY DEF Start
  <1>2. UNCHANGED <<manifest, dist, siteVars, packaging>>
    BY DEF Start, StartRun
  <1>3. RepositoryTypeOK'
    <2>1. run' \in Runs
      BY <1>1, FlatsAssumption DEF Runs, Steps, RepositoryTypeOK
    <2>2. started' \in 0 .. MaxRuns
      BY MaxRunsAssumption DEF StartRun, RepositoryTypeOK
    <2> QED BY <1>2, <2>1, <2>2 DEF RepositoryTypeOK, siteVars
  <1>4. RunInv'
    <2>1. \A p \in Packages : dist[p][manifest[p]] # Missing
      BY DEF Start
    <2> QED BY <1>1, <1>2, <2>1 DEF RunInv, Written, Mirrored, At
  <1>5. SitesOK' /\ SignedInv'
    BY <1>1, <1>2 DEF SitesOK, SignedInv, At, siteVars
  <1> QED BY <1>3, <1>4, <1>5

(* Packaging and editing beside a run never touch its sites.                 *)
LEMMA PackagerKeeps == ASSUME SiteInv, PackagerNext PROVE SiteInv'
  <1> USE FlatIsApart DEF SiteInv
  <1>1. /\ UNCHANGED <<siteVars, run, started>>
        /\ manifest' \in [Packages -> Versions]
        /\ packaging' \in [Packages -> Versions \cup {NoVersion}]
        /\ dist' \in [Packages -> [Versions -> Debs \cup {Missing}]]
        /\ \A p \in Packages, v \in Versions : dist[p][v] # Missing => dist'[p][v] # Missing
    <2>1. ASSUME NEW p \in Packages, NEW v \in Versions, EditManifest(p, v)
          PROVE  <1>1!:
      BY <2>1 DEF EditManifest, RepositoryTypeOK
    <2>2. ASSUME NEW p \in Packages, OpenDeb(p)
          PROVE  <1>1!:
      BY <2>2, FileValuesAssumption DEF OpenDeb, RepositoryTypeOK, Debs
    <2>3. ASSUME NEW p \in Packages, NEW a \in Artifacts, CloseDeb(p, a)
          PROVE  <1>1!:
      BY <2>3, FileValuesAssumption DEF CloseDeb, RepositoryTypeOK, Debs
    <2>4. ASSUME NEW p \in Packages, AbandonDeb(p)
          PROVE  <1>1!:
      BY <2>4 DEF AbandonDeb, RepositoryTypeOK, repositoryVars
    <2> QED BY <2>1, <2>2, <2>3, <2>4 DEF PackagerNext
  <1>2. RepositoryTypeOK'
    BY <1>1 DEF RepositoryTypeOK, siteVars
  <1>3. RunInv'
    <2>1. ~At("idle") => \A p \in Packages : dist'[p][run.versions[p]] # Missing
      BY <1>1, Running DEF RunInv, RepositoryTypeOK
    <2> QED BY <1>1, <2>1 DEF RunInv, Written, Mirrored, Complete, At, siteVars
  <1>4. SitesOK' /\ SignedInv'
    BY <1>1 DEF SitesOK, SignedInv, Complete, At, siteVars
  <1> QED BY <1>2, <1>3, <1>4

LEMMA SiteStands ==
    ASSUME SiteInv, UNCHANGED <<repositoryVars, packaging, started>>
    PROVE  SiteInv'
  BY DEF SiteInv, repositoryVars, siteVars, RepositoryTypeOK, SitesOK, RunInv, Written, Mirrored,
         SignedInv, Complete, At

LEMMA SiteInit == PipelineInit => SiteInv
  <1> SUFFICES ASSUME PipelineInit PROVE SiteInv
    OBVIOUS
  <1> USE FlatIsApart DEF PipelineInit, RepositoryInit
  <1>1. RepositoryTypeOK
    BY MaxRunsAssumption DEF RepositoryTypeOK, Runs, Ended
  <1>2. SitesOK /\ RunInv /\ SignedInv
    BY DEF SitesOK, RunInv, SignedInv, At, Ended
  <1> QED BY <1>1, <1>2 DEF SiteInv

LEMMA SiteStep == SiteInv /\ [PipelineNext]_pipelineVars => SiteInv'
  BY StartKeeps, PublishKeeps, PackagerKeeps, SiteStands DEF PipelineNext, Accept, pipelineVars

(* The ledger does not depend on what is published.                          *)
LEMMA PipelineLedger ==
    ASSUME LedgerInv, [PipelineNext]_pipelineVars
    PROVE  LedgerInv' /\ passed \subseteq passed'
  <1>1. [AcceptanceNext]_acceptanceVars
    BY DEF PipelineNext, StartRun, Publish, Accept, PackagerNext, EditManifest, OpenDeb, CloseDeb,
           AbandonDeb, pipelineVars
  <1>2. passed \subseteq passed'
    BY <1>1 DEF AcceptanceNext, TestPasses, ReadForBind, ReadForRecord, Hold, Replace, Die,
                acceptanceVars
  <1> QED BY <1>1, <1>2, LedgerStep

-----------------------------------------------------------------------------

(* The files of the repository keep their types, whoever writes them when.   *)
THEOREM RepositoryTyped == PipelineSpec => []RepositoryTypeOK
  <1>1. SiteInv => RepositoryTypeOK
    BY DEF SiteInv
  <1> QED BY <1>1, SiteInit, SiteStep, PTL DEF PipelineSpec

(* What a run signed is served whole until the next one starts: the index of *)
(* each signed site lists its pool, both signatures sign its Release, and    *)
(* local-flat holds what its channel holds.  Packaging beside a run is       *)
(* allowed for.                                                              *)
THEOREM SignedServed == PipelineSpec => []SignedIsServed
  <1>1. SiteInv => SignedIsServed
    <2> SUFFICES ASSUME SiteInv, At("idle")
                 PROVE  /\ \A s \in run.signed :
                              /\ Available(s) = pool[s]
                              /\ inRelease[s] = release[s]
                              /\ s # Flat => detached[s] = release[s] /\ index[s] = xz[s]
                        /\ \A s \in run.signed \ {Flat} :
                              Flat \in run.signed => pool[Flat] = pool[s]
      BY DEF SignedIsServed
    <2>1. ASSUME NEW s \in run.signed PROVE Complete(s) /\ s \in Sites
      BY DEF SiteInv, SignedInv, RepositoryTypeOK, Runs, At, Steps
    <2>2. ASSUME NEW s \in run.signed PROVE Available(s) = pool[s]
      <3>1. release[s] = [index |-> pool[s], xz |-> IF s = Flat THEN Missing ELSE pool[s]]
        BY <2>1 DEF Complete
      <3>2. release[s] \in Releases(s)
        BY <2>1, <3>1 DEF Releases, SiteInv, RepositoryTypeOK
      <3>3. inRelease[s] = release[s] /\ inRelease[s] \notin {Missing, Torn}
        BY <2>1, <3>2, ReleasesAssumption DEF Complete
      <3>4. Catalogue(s) = pool[s]
        BY <3>1, <3>3 DEF Catalogue
      <3> QED BY <2>1, <3>3, <3>4 DEF Available, Reachable, Complete
    <2> QED BY <2>1, <2>2 DEF Complete, SiteInv, SignedInv
  <1> QED BY <1>1, SiteInit, SiteStep, PTL DEF PipelineSpec

-----------------------------------------------------------------------------

(* What passed the checks stays accepted.                                    *)
LEMMA AcceptedGrows ==
    ASSUME passed \subseteq passed'
    PROVE  AcceptedFiles \subseteq AcceptedFiles'
  BY DEF AcceptedFiles

(* A gated site shows the stable channel.                                    *)
LEMMA GatedIsStable ==
    ASSUME NEW s \in Sites \cap GatedSites, NEW channel \in Channels, s \in {channel, Flat}
    PROVE  channel = "stable"
  BY ChannelsAssumption DEF GatedSites, Flat

(* The gate lets a package through only if the .deb it is about to copy      *)
(* passed every check: its record is stable, sound, and bound to that .deb.  *)
LEMMA PublishableIsAccepted ==
    ASSUME LedgerInv, SiteInv, ~At("idle"), NEW p \in Packages, Publishable(p)
    PROVE  [package |-> p, version |-> run.versions[p], deb |-> dist[p][run.versions[p]]]
              \in AcceptedFiles
  <1> DEFINE v == run.versions[p]
             state == read_state(p, v)
             deb == dist[p][v]
  <1>1. v \in Versions
    BY Running DEF SiteInv, RepositoryTypeOK
  <1>2. is_stable(state) /\ state.artifact = deb
    BY DEF Publishable
  <1>3. Sound(p, state)
    BY <1>1, ReadSound
  <1>4. state \in Records
    BY <1>1, ReadType DEF LedgerInv, AcceptanceTypeOK
  <1> HIDE DEF state
  <1>5. \A c \in Checks : <<p, c, deb>> \in passed
    BY <1>2, <1>3 DEF is_stable, Sound, Claims
  <1>6. deb \in Debs
    BY <1>2, <1>4 DEF is_stable, Records, Debs
  <1> HIDE DEF v, deb
  <1> QED BY <1>1, <1>5, <1>6 DEF AcceptedFiles, Files, v, deb

(* The gate holds for what a client trusts as long as no signature changes.  *)
LEMMA CatalogueStands ==
    ASSUME GateInv, passed \subseteq passed', UNCHANGED inRelease
    PROVE  \A s \in Sites \cap GatedSites : Catalogue(s)' \subseteq AcceptedFiles'
  BY AcceptedGrows DEF GateInv, Catalogue

(* The steps of a run: the pool of the stable site is emptied before it is   *)
(* filled with what came through the gate, and only then signed.             *)
LEMMA PublishGated ==
    ASSUME Concurrent = FALSE, LedgerInv, SiteInv, GateInv, Publish
    PROVE  GateInv'
  <1> USE FlatIsApart DEF SiteInv
  <1>0. /\ passed' = passed /\ packaging' = packaging
        /\ AcceptedFiles' = AcceptedFiles
    BY DEF Publish, acceptanceVars, AcceptedFiles
  <1>1. ~At("idle") /\ run \in Runs
    BY DEF Publish, RepositoryNext, Unlink, Unlinked, Select, Copy, WriteIndex, WriteXz,
           WriteRelease, Sign, SignDetached, BreakOff, At, RepositoryTypeOK
  <1>2. /\ \A p \in Packages : packaging[p] = NoVersion
        /\ run.at \in {run.channel, Flat}
    BY <1>1 DEF GateInv, RunInv
  <1>3. CASE Unlink
    <2>1. UNCHANGED <<inRelease, run, dist>>
      BY <1>3 DEF Unlink
    <2>2. run.channel = "stable" /\ ~(At("unlink") /\ run.at = "stable") =>
             pool'["stable"] \subseteq pool["stable"]
      BY <1>1, <1>2, <1>3, Running DEF Unlink, RepositoryTypeOK
    <2> QED BY <1>0, <1>1, <1>3, <2>1, <2>2, CatalogueStands DEF GateInv, At, Unlink
  <1>4. CASE Unlinked
    <2>1. /\ run'.pc = "select"
          /\ run'.channel = run.channel /\ run'.at = run.at
          /\ pool[run.at] = {}
          /\ UNCHANGED <<pool, inRelease>>
      BY <1>1, <1>4, Running DEF Unlinked, siteVars
    <2> QED BY <1>0, <1>1, <1>2, <2>1, CatalogueStands DEF GateInv, At
  <1>5. ASSUME NEW p \in Packages, Select(p) PROVE GateInv'
    <2>1. /\ run'.channel = run.channel /\ run'.at = run.at /\ run'.versions = run.versions
          /\ At("select")
          /\ UNCHANGED <<dist, pool, inRelease>>
          /\ \/ run'.pc = "select"
             \/ /\ run'.pc = "copy" /\ run'.copying = {p}
                /\ run.at = "stable" => Publishable(p)
      <3>1. At("select") /\ UNCHANGED <<dist, pool, inRelease>>
        BY <1>5 DEF Select, siteVars
      <3>2. CASE run.at = "stable" /\ ~Publishable(p)
        <4>1. run' = [run EXCEPT !.todo = @ \ {p}]
          BY <1>5, <3>2 DEF Select
        <4> QED BY <1>1, <3>1, <4>1, Running DEF At
      <3>3. CASE ~(run.at = "stable" /\ ~Publishable(p))
        <4>1. run' = [run EXCEPT !.todo = @ \ {p}, !.copying = {p}, !.pc = "copy"]
          BY <1>5, <3>3 DEF Select
        <4> QED BY <1>1, <3>1, <3>3, <4>1, Running
      <3> QED BY <3>2, <3>3
    <2>2. ASSUME run'.pc = "copy", run'.at = "stable"
          PROVE  Copied' \subseteq AcceptedFiles
      <3>1. [package |-> p, version |-> run.versions[p], deb |-> dist[p][run.versions[p]]]
               \in AcceptedFiles
        BY <1>1, <2>1, <2>2, PublishableIsAccepted
      <3>2. Copied' = {[package |-> p, version |-> run.versions[p],
                        deb |-> dist[p][run.versions[p]]]}
        BY <2>1, <2>2 DEF Copied, Source, Flat
      <3> QED BY <3>1, <3>2
    <2>3. run'.channel = "stable" => pool'["stable"] \subseteq AcceptedFiles'
      BY <1>0, <1>1, <2>1 DEF GateInv, At
    <2> QED BY <1>0, <1>2, <2>1, <2>2, <2>3, CatalogueStands DEF GateInv, At
  <1>6. CASE Copy
    <2>1. /\ run'.pc = "select" /\ run'.channel = run.channel /\ run'.at = run.at
          /\ pool' = [pool EXCEPT ![run.at] = @ \cup Copied]
          /\ At("copy")
          /\ UNCHANGED inRelease
      BY <1>1, <1>6, Running DEF Copy
    <2>2. run.channel = "stable" => pool'["stable"] \subseteq AcceptedFiles
      BY <1>1, <1>2, <2>1, Running DEF GateInv, RepositoryTypeOK, At
    <2> QED BY <1>0, <1>2, <2>1, <2>2, CatalogueStands DEF GateInv, At
  <1>7. CASE WriteIndex \/ WriteXz
    <2>1. /\ run'.channel = run.channel /\ run'.at = run.at
          /\ run'.pc \in {"xz", "release"} /\ ~At("unlink")
          /\ UNCHANGED <<pool, inRelease>>
      BY <1>1, <1>7, GotoFields DEF WriteIndex, WriteXz, At, Steps
    <2> QED BY <1>0, <1>1, <1>2, <2>1, CatalogueStands DEF GateInv, At
  <1>8. ASSUME \/ SiteDone
               \/ Goto("sign") \/ Goto("detach"),
               At("release") \/ At("sign") \/ At("detach"),
               UNCHANGED pool,
               \A s \in Sites \cap GatedSites : Catalogue(s)' \subseteq AcceptedFiles'
        PROVE  GateInv'
    <2>1. run.channel = "stable" => pool["stable"] \subseteq AcceptedFiles
      BY <1>1, <1>8 DEF GateInv, At
    <2>2. CASE SiteDone
      <3>1. \/ run'.pc = "idle"
            \/ /\ run'.pc = "unlink" /\ run'.channel = run.channel /\ run'.at = Flat
        BY <1>1, <2>2, Running DEF SiteDone, Ended
      <3> QED BY <1>0, <1>2, <1>8, <2>1, <3>1 DEF GateInv, At, Flat
    <2>3. CASE Goto("sign") \/ Goto("detach")
      <3>1. run'.pc \in {"sign", "detach"} /\ run'.channel = run.channel
        BY <1>1, <2>3, GotoFields DEF Steps
      <3> QED BY <1>0, <1>2, <1>8, <2>1, <3>1 DEF GateInv, At
    <2> QED BY <1>8, <2>2, <2>3
  <1>9. CASE WriteRelease \/ SignDetached
    BY <1>0, <1>8, <1>9, CatalogueStands DEF WriteRelease, SignDetached
  <1>10. CASE Sign
    <2>1. ASSUME NEW s \in Sites \cap GatedSites PROVE Catalogue(s)' \subseteq AcceptedFiles
      <3>1. inRelease' = [inRelease EXCEPT ![run.at] = release[run.at]] /\ At("sign")
        BY <1>10 DEF Sign
      <3>2. CASE s # run.at
        BY <3>1, <3>2 DEF GateInv, Catalogue, SitesOK
      <3>3. CASE s = run.at
        <4>1. run.channel = "stable"
          BY <1>1, <1>2, <3>3, GatedIsStable, Running
        <4>2. pool["stable"] \subseteq AcceptedFiles
          BY <1>1, <3>1, <4>1 DEF GateInv, At
        <4>3. /\ release[s] = [index |-> pool[s], xz |-> IF s = Flat THEN Missing ELSE pool[s]]
              /\ pool[s] = pool["stable"]
          BY <1>1, <1>2, <3>1, <3>3, <4>1 DEF RunInv, Written, Mirrored, At
        <4>4. inRelease'[s] = release[s]
          BY <3>1, <3>3 DEF SitesOK
        <4> QED BY <4>2, <4>3, <4>4 DEF Catalogue
      <3> QED BY <3>2, <3>3
    <2> QED BY <1>0, <1>8, <1>10, <2>1 DEF Sign
  <1>11. CASE BreakOff
    <2>1. run'.pc = "idle"
      BY <1>11 DEF BreakOff, Ended
    <2>2. \A s \in Sites : inRelease'[s] \in {inRelease[s], Torn}
      BY <1>11, TornOrNot DEF BreakOff, SitesOK
    <2> QED BY <1>0, <2>1, <2>2 DEF GateInv, Catalogue, At
  <1> QED BY <1>3, <1>4, <1>5, <1>6, <1>7, <1>9, <1>10, <1>11 DEF Publish, RepositoryNext

(* The steps beside a run: nothing is packaged until it is over, and no      *)
(* command of acceptance.py takes evidence away.                             *)
LEMMA BesideGated ==
    ASSUME Concurrent = FALSE, LedgerInv, SiteInv, GateInv,
           StartRun \/ PackagerNext \/ Accept \/ UNCHANGED pipelineVars
    PROVE  GateInv'
  <1> USE FlatIsApart DEF SiteInv
  <1>0. passed \subseteq passed' /\ UNCHANGED <<pool, inRelease>>
    <2>1. passed \subseteq passed'
      BY PipelineLedger DEF PipelineNext
    <2> QED BY <2>1 DEF StartRun, Start, PackagerNext, EditManifest, OpenDeb, CloseDeb, AbandonDeb,
                        Accept, pipelineVars, repositoryVars, siteVars
  <1>1. \A s \in Sites \cap GatedSites : Catalogue(s)' \subseteq AcceptedFiles'
    BY <1>0, CatalogueStands
  <1>2. AcceptedFiles \subseteq AcceptedFiles'
    BY <1>0, AcceptedGrows
  <1>3. CASE StartRun
    <2>1. /\ \A p \in Packages : packaging'[p] = NoVersion
          /\ run'.pc = "unlink" /\ run'.at = run'.channel
      BY <1>3 DEF StartRun, Start
    <2> QED BY <1>1, <2>1 DEF GateInv, At
  <1>4. CASE PackagerNext /\ At("idle")
    <2>1. UNCHANGED run
      BY <1>4 DEF PackagerNext, EditManifest, OpenDeb, CloseDeb, AbandonDeb, repositoryVars
    <2> QED BY <1>1, <1>4, <2>1 DEF GateInv, At
  <1>5. CASE PackagerNext /\ ~At("idle")
    <2>1. UNCHANGED <<run, dist, packaging>>
      BY <1>5 DEF PackagerNext, EditManifest, OpenDeb, CloseDeb, AbandonDeb, GateInv
    <2> QED BY <1>0, <1>1, <1>2, <2>1 DEF GateInv, At, Copied, Source
  <1>6. CASE Accept \/ UNCHANGED pipelineVars
    <2>1. UNCHANGED <<run, dist, packaging>>
      BY <1>6 DEF Accept, pipelineVars, repositoryVars
    <2> QED BY <1>0, <1>1, <1>2, <2>1 DEF GateInv, At, Copied, Source
  <1> QED BY <1>3, <1>4, <1>5, <1>6

LEMMA GateInit == PipelineInit => GateInv
  BY FlatIsApart DEF PipelineInit, RepositoryInit, GateInv, Catalogue, At, Ended

(* All that a client trusts and a run is about to sign is accepted, together *)
(* with the invariants this rests on.                                        *)
ReleaseInv == LedgerInv /\ SiteInv /\ GateInv

LEMMA ReleaseInvariance == Concurrent = FALSE => (PipelineSpec => []ReleaseInv)
  <1> SUFFICES ASSUME Concurrent = FALSE PROVE PipelineSpec => []ReleaseInv
    OBVIOUS
  <1>1. PipelineInit => ReleaseInv
    BY LedgerInit, SiteInit, GateInit DEF PipelineInit, ReleaseInv
  <1>2. ReleaseInv /\ [PipelineNext]_pipelineVars => ReleaseInv'
    BY PipelineLedger, SiteStep, PublishGated, BesideGated DEF ReleaseInv, PipelineNext
  <1> QED BY <1>1, <1>2, PTL DEF PipelineSpec

(* Nothing is packaged while a publication runs: then no client of a gated   *)
(* site can ever install a .deb that did not pass every check, through any   *)
(* number of publications, broken off anywhere, of any packages.             *)
THEOREM OfferedProven == Concurrent = FALSE => (PipelineSpec => []OfferedIsProven)
  <1> SUFFICES ASSUME Concurrent = FALSE PROVE PipelineSpec => []OfferedIsProven
    OBVIOUS
  <1>1. ReleaseInv => OfferedIsProven
    BY DEF ReleaseInv, GateInv, OfferedIsProven, Available
  <1> QED BY <1>1, ReleaseInvariance, PTL

-----------------------------------------------------------------------------

(* The refinement, step by step.  The last test of a file is an Accept; the  *)
(* signature of the stable site a Publish; one that breaks off a Void; every *)
(* other step only takes from or gives back to what a client can install.    *)
LEMMA RefinesAccept ==
    ASSUME Accept
    PROVE  Promised!Accept
  <1>1. AcceptedFiles' \subseteq Files /\ AcceptedFiles \subseteq AcceptedFiles'
    <2>1. passed \subseteq passed'
      BY DEF Accept, AcceptanceNext, TestPasses, ReadForBind, ReadForRecord, Hold, Replace, Die
    <2>2. AcceptedFiles' \subseteq Files
      BY DEF AcceptedFiles
    <2> QED BY <2>1, <2>2, AcceptedGrows
  <1>2. AcceptedFiles' = AcceptedFiles \cup AcceptedFiles'
    BY <1>1
  <1>3. UNCHANGED <<Catalogue("stable"), Available("stable")>>
    BY DEF Accept, repositoryVars, siteVars, Catalogue, Available, Reachable
  <1> QED BY <1>1, <1>2, <1>3 DEF Promised!Accept

LEMMA RefinesDisturb ==
    ASSUME UNCHANGED <<passed, Catalogue("stable")>>
    PROVE  Promised!Disturb
  <1>1. UNCHANGED AcceptedFiles
    BY DEF AcceptedFiles
  <1>2. Available("stable")' \subseteq Catalogue("stable")'
    BY DEF Available
  <1> QED BY <1>1, <1>2 DEF Promised!Disturb

LEMMA RefinesPublish ==
    ASSUME ReleaseInv, Sign, run.at = "stable", "stable" \in Channels, UNCHANGED passed
    PROVE  Promised!Publish
  <1> USE FlatIsApart DEF ReleaseInv, SiteInv
  <1>1. /\ ~At("idle") /\ At("sign") /\ "stable" # Flat /\ run \in Runs
        /\ UNCHANGED <<pool, index, xz, release>>
        /\ inRelease'["stable"] = release["stable"]
    BY DEF Sign, At, Flat, SitesOK, RepositoryTypeOK
  <1>2. run.channel = "stable"
    BY <1>1, FlatIsApart DEF RunInv
  <1>3. /\ index["stable"] = pool["stable"] /\ xz["stable"] = pool["stable"]
        /\ release["stable"] = [index |-> pool["stable"], xz |-> pool["stable"]]
        /\ pool["stable"] \subseteq AcceptedFiles
    BY <1>1, <1>2 DEF RunInv, Written, GateInv, At
  <1>4. release["stable"] \notin {Missing, Torn}
    <2>1. "stable" \in Sites /\ pool["stable"] \subseteq Files
      BY <1>3 DEF AcceptedFiles
    <2>2. release["stable"] \in Releases("stable")
      BY <1>1, <1>3, <2>1 DEF Releases
    <2> QED BY <2>1, <2>2, ReleasesAssumption
  <1>5. Catalogue("stable")' = pool["stable"]
    BY <1>1, <1>3, <1>4 DEF Catalogue
  <1>6. Available("stable")' = pool["stable"]
    BY <1>1, <1>3, <1>4, <1>5 DEF Available, Reachable
  <1>7. UNCHANGED AcceptedFiles
    BY DEF AcceptedFiles
  <1> QED BY <1>3, <1>5, <1>6, <1>7 DEF Promised!Publish

LEMMA RefinesVoid ==
    ASSUME inRelease'["stable"] = Torn, UNCHANGED passed
    PROVE  Promised!Void
  BY DEF Promised!Void, AcceptedFiles, Catalogue, Available, Reachable

LEMMA RefinesStep ==
    ASSUME "stable" \in Channels, ReleaseInv, [PipelineNext]_pipelineVars
    PROVE  Promised!ChannelNext
  <1> USE FlatIsApart DEF ReleaseInv, SiteInv, Promised!ChannelNext
  <1>1. CASE Accept
    BY <1>1, RefinesAccept
  <1>2. CASE UNCHANGED passed /\ UNCHANGED inRelease
    BY <1>2, RefinesDisturb DEF Catalogue
  <1>3. CASE Sign /\ UNCHANGED passed
    <2>1. CASE run.at = "stable"
      BY <1>3, <2>1, RefinesPublish
    <2>2. CASE run.at # "stable"
      <3>1. inRelease'["stable"] = inRelease["stable"]
        BY <1>3, <2>2 DEF Sign, SitesOK
      <3> QED BY <1>3, <3>1, RefinesDisturb DEF Catalogue
    <2> QED BY <2>1, <2>2
  <1>4. CASE BreakOff /\ UNCHANGED passed
    <2>1. inRelease'["stable"] \in {inRelease["stable"], Torn}
      BY <1>4, TornOrNot DEF BreakOff, SitesOK
    <2>2. CASE inRelease'["stable"] = inRelease["stable"]
      BY <1>4, <2>2, RefinesDisturb DEF Catalogue
    <2> QED BY <1>4, <2>1, <2>2, RefinesVoid
  <1>5. CASE StartRun \/ PackagerNext \/ UNCHANGED pipelineVars
    <2>1. UNCHANGED passed /\ UNCHANGED inRelease
      BY <1>5 DEF StartRun, Start, PackagerNext, EditManifest, OpenDeb, CloseDeb, AbandonDeb,
                  pipelineVars, acceptanceVars, repositoryVars, siteVars
    <2> QED BY <1>2, <2>1
  <1>6. CASE Publish
    <2>1. UNCHANGED passed
      BY <1>6 DEF Publish, acceptanceVars
    <2>2. CASE ~Sign /\ ~BreakOff
      <3>1. UNCHANGED inRelease
        BY <1>6, <2>2 DEF Publish, RepositoryNext, Unlink, Unlinked, Select, Copy, WriteIndex, WriteXz,
                          WriteRelease, SignDetached, siteVars
      <3> QED BY <1>2, <2>1, <3>1
    <2> QED BY <1>3, <1>4, <2>1, <2>2
  <1> QED BY <1>1, <1>5, <1>6 DEF PipelineNext

(* The pipeline keeps the promise of the stable channel.                     *)
THEOREM PromiseKept ==
    "stable" \in Channels /\ Concurrent = FALSE => (PipelineSpec => KeepsPromise)
  <1> SUFFICES ASSUME "stable" \in Channels, Concurrent = FALSE
               PROVE  PipelineSpec => KeepsPromise
    OBVIOUS
  <1>1. PipelineInit => Promised!ChannelInit
    <2> SUFFICES ASSUME PipelineInit PROVE Promised!ChannelInit
      OBVIOUS
    <2>1. AcceptedFiles = {}
      BY ChecksAssumption DEF PipelineInit, AcceptanceInit, AcceptedFiles
    <2>2. Catalogue("stable") = {}
      BY FlatIsApart DEF PipelineInit, RepositoryInit, Catalogue
    <2> QED BY <2>1, <2>2 DEF Promised!ChannelInit, Available
  <1>2. ReleaseInv /\ [PipelineNext]_pipelineVars =>
           [Promised!ChannelNext]_(Promised!channelVars)
    BY RefinesStep
  <1> QED BY <1>1, <1>2, ReleaseInvariance, PTL DEF PipelineSpec, KeepsPromise, Promised!ChannelSpec
=============================================================================
