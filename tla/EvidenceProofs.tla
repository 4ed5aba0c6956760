--------------------------- MODULE EvidenceProofs ---------------------------
(***************************************************************************)
(* Proofs about the acceptance scripts, for any versions, artifacts and    *)
(* outcomes of builds.  A script holds what it packaged, copied, tested    *)
(* and digested in shell variables and files that others can change, and   *)
(* acceptance.py records what the script tells it.  That the ledger stays  *)
(* sound therefore needs an invariant about the script: whatever it is     *)
(* going to record was shown, or will have been by then, of the artifact   *)
(* it took the digest of.  With a repository that is taken as it is found, *)
(* the test in the sandbox is of another artifact: then the same holds of  *)
(* everything but that test, which is granted.                             *)
(***************************************************************************)
EXTENDS Evidence, AcceptanceProofs

-----------------------------------------------------------------------------

(* Nothing is packaged beside a script.                                      *)
Undisturbed == Concurrent = {}

(* Nor does the sandbox take a repository as it finds it: then the copy it   *)
(* tests is the .deb whose digest is taken.                                  *)
Exact == Undisturbed /\ "ready" \notin Modes

(* What is taken to be shown without having been: that the .deb in dist can  *)
(* be installed, when runtime-acceptance.sh takes a candidate repository as  *)
(* it finds it; everything, when packages are made beside a script.  The     *)
(* ledger is that of Acceptance with this granted.                           *)
Granted ==
    IF ~Undisturbed THEN Results
    ELSE IF "ready" \in Modes THEN {package} \X {"apt_install"} \X Artifacts ELSE {}
Known == INSTANCE AcceptanceProofs WITH passed <- passed \cup Granted

(* The variables beside the ledger keep their types.                         *)
Scripts ==
    [at      : {"idle", "first", "keep", "second", "compare", "digest", "bind", "record"},
     version : Versions \cup {NoVersion},
     made    : Artifacts \cup {NoArtifact},
     first   : Artifacts \cup {NoArtifact},
     sha     : Artifacts \cup {NoArtifact},
     tested  : Artifacts \cup {NoArtifact},
     records : {<<>>, <<"apt_install">>, <<"pristine_source">>,
                <<"reproducible_build", "pristine_source">>}]

EvidenceTypeOK ==
    /\ manifest \in [version : Versions, locked : BOOLEAN]
    /\ stage \in Artifacts \cup {NoArtifact}
    /\ marker.version \in Versions => stage \in Artifacts
    /\ dist \in [Versions -> Artifacts \cup {NoArtifact}]
    /\ pool \in [Versions -> Artifacts \cup {NoArtifact}]
    /\ script \in Scripts

(* Check c of the package succeeded on a.                                    *)
Proven(c, a) == <<package, c, a>> \in passed \cup Granted

(* What a script that has its digest is going to record of it: nothing more; *)
(* the test in the sandbox, which holds this very artifact or has passed, if *)
(* it is not granted; or the two builds that were compared.                  *)
Grounded ==
    \/ /\ script.records = <<>>
       /\ script.tested = NoArtifact
    \/ /\ script.records = <<"apt_install">>
       /\ script.tested = NoArtifact => Proven("apt_install", script.sha)
       /\ script.tested # NoArtifact /\ Exact => script.tested = script.sha
    \/ /\ script.records \in {<<"pristine_source">>,
                              <<"reproducible_build", "pristine_source">>}
       /\ script.tested = NoArtifact
       /\ Proven("reproducible_build", script.sha)
       /\ Proven("pristine_source", script.sha)

(* The .deb of the script's version.                                         *)
Deb == dist[script.version]

(* What each step of a script may rely on.  The first package is the one it  *)
(* finds in dist, and the one it compares the second with, only if nothing   *)
(* is packaged meanwhile.                                                    *)
ScriptInv ==
    /\ ~At("idle") => script.version \in Versions
    /\ script.at \in {"first", "keep", "second", "compare"} =>
          /\ script.version = manifest.version
          /\ script.records = <<"reproducible_build", "pristine_source">>
          /\ script.tested = NoArtifact
    /\ At("keep") =>
          /\ Deb \in Artifacts
          /\ Proven("pristine_source", Deb)
          /\ Undisturbed => Deb = script.made
    /\ At("second") =>
          /\ script.first \in Artifacts
          /\ Proven("pristine_source", script.first)
          /\ Undisturbed => script.first = script.made
    /\ At("compare") =>
          /\ script.first \in Artifacts
          /\ Proven("pristine_source", script.first)
          /\ Deb = script.first => Proven("reproducible_build", script.first)
    /\ At("digest") =>
          /\ Deb \in Artifacts
          /\ script.records \in {<<>>, <<"apt_install">>}
          /\ script.tested = NoArtifact <=> script.records = <<>>
          /\ Exact => script.tested = Deb
    /\ script.at \in {"bind", "record"} =>
          /\ script.sha \in Artifacts
          /\ Grounded

EvidenceInv ==
    /\ Known!LedgerInv
    /\ Known!KeptInv
    /\ EvidenceTypeOK
    /\ ScriptInv

-----------------------------------------------------------------------------

LEMMA PackageIsOne == package \in Packages
  BY EvidenceAssumption DEF package

LEMMA ChecksAre ==
    {"reproducible_build", "pristine_source", "apt_install", "chrome"} = Checks
  BY EvidenceAssumption

LEMMA GrantedAre == Granted \subseteq Results
  BY PackageIsOne, ChecksAre DEF Granted, Results

(* Beside a script that is disturbed everything counts as shown.             *)
LEMMA AllGranted ==
    ASSUME ~Undisturbed, NEW c \in Checks, NEW a \in Artifacts
    PROVE  <<package, c, a>> \in Granted
  BY PackageIsOne DEF Granted, Results

(* A step of the ledger is one with what is granted, too.                    *)
LEMMA KnownStep ==
    ASSUME [AcceptanceNext]_acceptanceVars
    PROVE  [Known!AcceptanceNext]_(Known!acceptanceVars)
  <1> USE DEF read_state, Known!read_state, Fresh, Known!Fresh, NoChecks, Known!NoChecks,
              Bound, Known!Bound, Recorded, Known!Recorded, Restated, Known!Restated,
              is_stable, Known!is_stable, Idle, Known!Idle, Writing, Known!Writing
  <1>1. CASE UNCHANGED acceptanceVars
    BY <1>1 DEF acceptanceVars, Known!acceptanceVars
  <1>2. ASSUME NEW p \in Packages, NEW c \in Checks, NEW a \in Artifacts, TestPasses(p, c, a)
        PROVE  Known!AcceptanceNext
    <2>1. Known!TestPasses(p, c, a)
      BY <1>2 DEF TestPasses, Known!TestPasses
    <2> QED BY <2>1 DEF Known!AcceptanceNext
  <1>3. ASSUME NEW q \in Processes, NEW p \in Packages, NEW v \in Versions,
               NEW a \in Artifacts, ReadForBind(q, p, v, a)
        PROVE  Known!AcceptanceNext
    <2>1. Known!ReadForBind(q, p, v, a)
      BY <1>3 DEF ReadForBind, Known!ReadForBind, Hold, Known!Hold
    <2> QED BY <2>1 DEF Known!AcceptanceNext
  <1>4. ASSUME NEW q \in Processes, NEW p \in Packages, NEW v \in Versions,
               NEW c \in Checks, NEW a \in Artifacts, ReadForRecord(q, p, v, c, a)
        PROVE  Known!AcceptanceNext
    <2>1. Known!ReadForRecord(q, p, v, c, a)
      BY <1>4 DEF ReadForRecord, Known!ReadForRecord, Hold, Known!Hold
    <2> QED BY <2>1 DEF Known!AcceptanceNext
  <1>5. ASSUME NEW q \in Processes, Replace(q) \/ Die(q)
        PROVE  Known!AcceptanceNext
    <2>1. Known!Replace(q) \/ Known!Die(q)
      BY <1>5 DEF Replace, Known!Replace, Die, Known!Die
    <2> QED BY <2>1 DEF Known!AcceptanceNext
  <1> QED BY <1>1, <1>2, <1>3, <1>4, <1>5 DEF AcceptanceNext

(* A step that leaves the ledger alone, or is a step of the ledger, or only  *)
(* brings evidence, keeps what AcceptanceProofs says of the ledger.          *)
LEMMA LedgerStands ==
    ASSUME Known!LedgerInv, Known!KeptInv, [AcceptanceNext]_acceptanceVars \/ Shown
    PROVE  Known!LedgerInv' /\ Known!KeptInv'
  <1> USE NoVersionAssumption, NoArtifactAssumption, ChecksAssumption
  <1>1. CASE [AcceptanceNext]_acceptanceVars
    <2>1. [Known!AcceptanceNext]_(Known!acceptanceVars)
      BY <1>1, KnownStep
    <2> QED BY <2>1, Known!LedgerStep, Known!KeptStep
  <1>2. CASE Shown
    <2>1. Known!Shown
      BY <1>2, GrantedAre DEF Shown, Known!Shown, Results, Known!Results
    <2> QED BY <2>1, Known!ShownKeeps, Known!ShownKept
  <1> QED BY <1>1, <1>2

(* What is granted adds nothing to the types.                                *)
LEMMA LedgerTyped == ASSUME Known!LedgerInv PROVE AcceptanceTypeOK
  BY DEF Known!LedgerInv, Known!AcceptanceTypeOK, AcceptanceTypeOK, Known!Records, Records,
         Known!Commands, Commands, Known!Results, Results, Known!Idle, Idle

(* The initial records claim nothing.                                        *)
LEMMA InitStands == ASSUME AcceptanceInit PROVE Known!LedgerInv /\ Known!KeptInv
  <1> USE DEF AcceptanceInit, Fresh, Known!Fresh, NoChecks, Known!NoChecks, Idle, Known!Idle
  <1>1. Known!AcceptanceTypeOK
    BY GrantedAre DEF Known!AcceptanceTypeOK, Known!Records, Known!Commands, Results, Known!Results
  <1>2. \A p \in Packages : Known!Sound(p, file[p])
    BY DEF Known!Sound, Known!Claims, Known!is_stable
  <1>3. \A q \in Processes : ~Known!Writing(q)
    BY DEF Known!Writing
  <1> QED BY <1>1, <1>2, <1>3 DEF Known!LedgerInv, Known!KeptInv

(* The script's command takes hold of a record of what it knows.             *)
LEMMA RecordedStands ==
    ASSUME Known!LedgerInv, Known!KeptInv, NEW v \in Versions, NEW c \in Checks,
           NEW a \in Artifacts, Proven(c, a), read_state(package, v).artifact = a,
           Hold(Script, package, Recorded(read_state(package, v), c, a))
    PROVE  Known!LedgerInv' /\ Known!KeptInv'
  <1> USE NoVersionAssumption, NoArtifactAssumption, ChecksAssumption, PackageIsOne
  <1>1. Script \in Processes
    BY EvidenceAssumption
  <1>2. read_state(package, v) \in Records
    BY LedgerTyped, ReadType DEF AcceptanceTypeOK
  <1>3. /\ read_state(package, v) = Known!read_state(package, v)
        /\ Recorded(read_state(package, v), c, a) = Known!Recorded(Known!read_state(package, v), c, a)
        /\ Records = Known!Records
    BY DEF read_state, Known!read_state, Fresh, Known!Fresh, NoChecks, Known!NoChecks,
           Recorded, Known!Recorded, Restated, Known!Restated, is_stable, Known!is_stable,
           Records, Known!Records
  <1> DEFINE data == Known!read_state(package, v)
             record == Known!Recorded(data, c, a)
  <1>4. /\ data \in Known!Records
        /\ data.artifact = a
        /\ Known!Hold(Script, package, record)
    BY <1>2, <1>3 DEF Hold, Known!Hold
  <1>5. <<package, c, a>> \in passed \cup Granted
    BY DEF Proven
  <1>6. Known!Sound(package, data)
    BY Known!ReadSound
  <1> HIDE DEF data
  <1>7. record \in Known!Records
    BY <1>4, Known!RecordedFields
  <1>8. Known!Sound(package, record)
    BY <1>4, <1>5, <1>6, Known!RecordedSound
  <1>9. Known!Keeps(package, record)
    BY <1>4, Known!RecordedKept DEF data
  <1> HIDE DEF record
  <1> QED BY <1>1, <1>4, <1>7, <1>8, <1>9, Known!HoldKeeps, Known!HoldKept

(* A script that stands still can rely on what it relied on: evidence is     *)
(* never withdrawn.                                                          *)
LEMMA ScriptStands ==
    ASSUME ScriptInv, UNCHANGED script, passed \subseteq passed',
           ~At("idle") => UNCHANGED <<manifest, dist>>
    PROVE  ScriptInv'
  BY DEF ScriptInv, At, Grounded, Proven, Deb

(* If others package meanwhile, it finds some .deb all the same.             *)
LEMMA ScriptDisturbed ==
    ASSUME ~Undisturbed, ScriptInv, UNCHANGED <<script, manifest>>, passed \subseteq passed',
           \A v \in Versions : dist[v] \in Artifacts => dist'[v] \in Artifacts
    PROVE  ScriptInv'
  <1>1. \A c \in {"reproducible_build", "pristine_source"}, a \in Artifacts : Proven(c, a)'
    BY AllGranted, ChecksAre DEF Proven
  <1>2. Grounded => Grounded'
    BY DEF Grounded, Proven
  <1>3. At("keep") \/ At("digest") => Deb' \in Artifacts
    BY DEF ScriptInv, At, Deb
  <1> QED BY <1>1, <1>2, <1>3 DEF ScriptInv, At, Exact

(* A script that is over relies on nothing.                                  *)
LEMMA ExitStands ==
    ASSUME Exit
    PROVE  script' \in Scripts /\ ScriptInv'
  BY DEF Exit, NoScript, Scripts, ScriptInv, At

(* The build of a port brings evidence and leaves the ledger alone.          *)
LEMMA BuildShows ==
    ASSUME EvidenceInv, NEW pristine \in BOOLEAN, NEW a \in Artifacts,
           NEW more \in SUBSET Results, BuildPort(pristine, a, more)
    PROVE  /\ Shown
           /\ stage' = a
           /\ UNCHANGED <<manifest, pool>>
           /\ more \subseteq passed'
           /\ pristine => <<package, "pristine_source", a>> \in passed'
  <1>1. <<package, "pristine_source", a>> \in Results
    BY PackageIsOne, ChecksAre DEF Results
  <1>2. passed \subseteq Results
    BY LedgerTyped DEF EvidenceInv, AcceptanceTypeOK
  <1> QED BY <1>1, <1>2 DEF BuildPort, MadePristine, Shown

-----------------------------------------------------------------------------

(* Packaging and editing by hand: no script runs meanwhile, or everything    *)
(* that the script is going to record is granted.                            *)
LEMMA MaintainerStep ==
    ASSUME EvidenceInv, Build \/ PackageStage \/ WriteDeb \/ EditManifest
    PROVE  EvidenceInv'
  <1>1. manifest.version \in Versions
    BY DEF EvidenceInv, EvidenceTypeOK
  <1>2. ASSUME UNCHANGED <<script, manifest>>, Between, passed \subseteq passed',
               NEW a \in Artifacts, dist' \in {dist, [dist EXCEPT ![manifest.version] = a]}
        PROVE  ScriptInv' /\ dist' \in [Versions -> Artifacts \cup {NoArtifact}]
    <2>1. dist' \in [Versions -> Artifacts \cup {NoArtifact}]
      BY <1>1, <1>2 DEF EvidenceInv, EvidenceTypeOK
    <2>2. \A v \in Versions : dist[v] \in Artifacts => dist'[v] \in Artifacts
      BY <1>1, <1>2 DEF EvidenceInv, EvidenceTypeOK
    <2>3. CASE At("idle")
      BY <1>2, <2>1, <2>3, ScriptStands DEF EvidenceInv
    <2>4. CASE ~Undisturbed
      BY <1>2, <2>1, <2>2, <2>4, ScriptDisturbed DEF EvidenceInv
    <2> QED BY <1>2, <2>3, <2>4 DEF Between, Undisturbed
  <1>3. CASE Build
    <2> PICK pristine \in BOOLEAN, a \in Artifacts :
              \/ PackagePort(pristine, a, {})
              \/ BuildPort(pristine, a, {}) /\ UNCHANGED dist
      BY <1>3 DEF Build
    <2>1. BuildPort(pristine, a, {}) /\ UNCHANGED script /\ Between
      BY <1>3 DEF Build, PackagePort
    <2>2. Shown /\ stage' = a /\ UNCHANGED <<manifest, pool>>
      BY <2>1, BuildShows
    <2>3. ScriptInv' /\ dist' \in [Versions -> Artifacts \cup {NoArtifact}]
      BY <1>2, <2>1, <2>2 DEF PackagePort, Shown
    <2>4. EvidenceTypeOK'
      BY <2>1, <2>2, <2>3 DEF EvidenceInv, EvidenceTypeOK
    <2> QED BY <2>2, <2>3, <2>4, LedgerStands DEF EvidenceInv
  <1>4. CASE PackageStage \/ WriteDeb
    <2>1. /\ UNCHANGED <<acceptanceVars, manifest, stage, marker, pool, script>>
          /\ Between
      BY <1>4 DEF PackageStage, WriteDeb
    <2>2. PICK a \in Artifacts : dist' = [dist EXCEPT ![manifest.version] = a]
      <3>1. CASE PackageStage
        <4>1. stage \in Artifacts
          BY <1>1, <3>1 DEF PackageStage, EvidenceInv, EvidenceTypeOK
        <4> QED BY <3>1, <4>1 DEF PackageStage
      <3>2. CASE WriteDeb
        BY <3>2 DEF WriteDeb
      <3> QED BY <1>4, <3>1, <3>2
    <2>3. ScriptInv' /\ dist' \in [Versions -> Artifacts \cup {NoArtifact}]
      BY <1>2, <2>1, <2>2 DEF acceptanceVars
    <2>4. EvidenceTypeOK'
      BY <2>1, <2>3 DEF EvidenceInv, EvidenceTypeOK
    <2> QED BY <2>1, <2>3, <2>4, LedgerStands DEF EvidenceInv
  <1>5. CASE EditManifest
    <2>1. EvidenceTypeOK'
      BY <1>5 DEF EditManifest, EvidenceInv, EvidenceTypeOK
    <2>2. ScriptInv'
      BY <1>5, ScriptStands DEF EditManifest, EvidenceInv, acceptanceVars
    <2> QED BY <1>5, <2>1, <2>2, LedgerStands DEF EditManifest, EvidenceInv
  <1> QED BY <1>3, <1>4, <1>5

(* build-acceptance.sh: the second package has the digest of the first one,  *)
(* so that what was shown of either was shown of the one that is bound.      *)
LEMMA BuildAcceptanceStep ==
    ASSUME EvidenceInv,
           StartBuildAcceptance \/ PackageFirst \/ DigestFirst \/ PackageSecond \/ DigestSecond
    PROVE  EvidenceInv'
  <1>1. manifest.version \in Versions /\ script \in Scripts
    BY DEF EvidenceInv, EvidenceTypeOK
  <1>2. CASE StartBuildAcceptance
    <2> USE <1>2 DEF StartBuildAcceptance
    <2>1. EvidenceTypeOK'
      BY <1>1 DEF EvidenceInv, EvidenceTypeOK, treeVars, NoScript, Scripts
    <2>2. ScriptInv'
      BY <1>1 DEF ScriptInv, At, NoScript, treeVars
    <2> QED BY <2>1, <2>2, LedgerStands DEF EvidenceInv
  <1>3. CASE PackageFirst
    <2> PICK a \in Artifacts :
              /\ PackagePort(TRUE, a, {})
              /\ script' = [script EXCEPT !.at = "keep", !.made = a]
      BY <1>3 DEF PackageFirst
    <2>1. Shown /\ stage' = a /\ UNCHANGED <<manifest, pool>> /\ Proven("pristine_source", a)'
      BY BuildShows DEF PackagePort, Proven
    <2>2. /\ script' \in Scripts
          /\ script'.at = "keep"
          /\ script'.made = a
          /\ script'.version = script.version
          /\ script'.records = script.records
          /\ script'.tested = script.tested
      BY <1>1 DEF Scripts
    <2>3. EvidenceTypeOK'
      BY <1>1, <2>1, <2>2 DEF PackagePort, EvidenceInv, EvidenceTypeOK
    <2>4. /\ script.version = manifest.version
          /\ script.records = <<"reproducible_build", "pristine_source">>
          /\ script.tested = NoArtifact
      BY <1>3 DEF PackageFirst, EvidenceInv, ScriptInv, At
    <2>5. Deb' = a
      BY <1>1, <2>2, <2>4 DEF Deb, PackagePort, EvidenceInv, EvidenceTypeOK
    <2>6. ScriptInv'
      BY <1>1, <2>1, <2>2, <2>4, <2>5 DEF ScriptInv, At
    <2> QED BY <2>1, <2>3, <2>6, LedgerStands DEF EvidenceInv
  <1>4. CASE DigestFirst
    <2>1. /\ At("keep")
          /\ script' = [script EXCEPT !.at = "second", !.first = Deb]
          /\ UNCHANGED <<acceptanceVars, treeVars>>
      BY <1>4 DEF DigestFirst, Deb
    <2>2. /\ script.version \in Versions
          /\ script.version = manifest.version
          /\ script.records = <<"reproducible_build", "pristine_source">>
          /\ script.tested = NoArtifact
          /\ Deb \in Artifacts
          /\ Proven("pristine_source", Deb)
          /\ Undisturbed => Deb = script.made
      BY <2>1 DEF EvidenceInv, ScriptInv, At
    <2>3. /\ script' \in Scripts
          /\ script'.at = "second"
          /\ script'.first = Deb
          /\ script'.made = script.made
          /\ script'.version = script.version
          /\ script'.records = script.records
          /\ script'.tested = script.tested
      BY <1>1, <2>1, <2>2 DEF Scripts
    <2>4. EvidenceTypeOK'
      BY <2>1, <2>3 DEF EvidenceInv, EvidenceTypeOK, treeVars
    <2>5. ScriptInv'
      BY <2>1, <2>2, <2>3 DEF ScriptInv, At, Proven, acceptanceVars, treeVars
    <2> QED BY <2>1, <2>4, <2>5, LedgerStands DEF EvidenceInv
  <1>5. CASE PackageSecond
    <2> PICK a \in Artifacts : PackagePort(TRUE, a, Repeated(a))
      BY <1>5 DEF PackageSecond
    <2>1. /\ At("second")
          /\ script' = [script EXCEPT !.at = "compare"]
      BY <1>5 DEF PackageSecond
    <2>2. Repeated(a) \in SUBSET Results
      BY PackageIsOne, ChecksAre DEF Repeated, Results
    <2>3. /\ Shown /\ stage' = a /\ UNCHANGED <<manifest, pool>>
          /\ a = script.made => Proven("reproducible_build", a)'
      BY <2>2, BuildShows DEF PackagePort, Proven, Repeated
    <2>4. /\ script.version = manifest.version
          /\ script.records = <<"reproducible_build", "pristine_source">>
          /\ script.tested = NoArtifact
          /\ script.first \in Artifacts
          /\ Proven("pristine_source", script.first)
          /\ Undisturbed => script.first = script.made
      BY <2>1 DEF EvidenceInv, ScriptInv, At
    <2>5. /\ script' \in Scripts
          /\ script'.at = "compare"
          /\ script'.first = script.first
          /\ script'.version = script.version
          /\ script'.records = script.records
          /\ script'.tested = script.tested
      BY <1>1, <2>1 DEF Scripts
    <2>6. EvidenceTypeOK'
      BY <1>1, <2>3, <2>5 DEF PackagePort, EvidenceInv, EvidenceTypeOK
    <2>7. Deb' = a
      BY <1>1, <2>4, <2>5 DEF Deb, PackagePort, EvidenceInv, EvidenceTypeOK
    <2>8. Proven("pristine_source", script.first)'
      BY <2>3, <2>4, <2>5 DEF Proven, Shown
    <2>9. a = script.first => Proven("reproducible_build", script.first)'
      BY <2>3, <2>4, <2>5, AllGranted, ChecksAre DEF Proven
    <2>10. ScriptInv'
      BY <1>1, <2>3, <2>4, <2>5, <2>7, <2>8, <2>9 DEF ScriptInv, At
    <2> QED BY <2>3, <2>6, <2>10, LedgerStands DEF EvidenceInv
  <1>6. CASE DigestSecond
    <2>1. /\ At("compare")
          /\ IF Deb = script.first
             THEN script' = [script EXCEPT !.at = "bind", !.sha = script.first] ELSE Exit
          /\ UNCHANGED <<acceptanceVars, treeVars>>
      BY <1>6 DEF DigestSecond, Deb
    <2>2. /\ script.version \in Versions
          /\ script.records = <<"reproducible_build", "pristine_source">>
          /\ script.tested = NoArtifact
          /\ script.first \in Artifacts
          /\ Proven("pristine_source", script.first)
          /\ Deb = script.first => Proven("reproducible_build", script.first)
      BY <2>1 DEF EvidenceInv, ScriptInv, At
    <2>3. script' \in Scripts
      BY <1>1, <2>1, ExitStands DEF Scripts
    <2>4. EvidenceTypeOK'
      BY <2>1, <2>3 DEF EvidenceInv, EvidenceTypeOK, treeVars
    <2>5. CASE Deb # script.first
      BY <2>1, <2>4, <2>5, LedgerStands, ExitStands DEF EvidenceInv
    <2>6. CASE Deb = script.first
      <3>1. /\ script'.at = "bind"
            /\ script'.sha = script.first
            /\ script'.version = script.version
            /\ script'.records = script.records
            /\ script'.tested = script.tested
        BY <1>1, <2>1, <2>6 DEF Scripts
      <3>2. ScriptInv'
        BY <2>1, <2>2, <2>6, <3>1 DEF ScriptInv, At, Proven, Grounded, acceptanceVars
      <3> QED BY <2>1, <2>4, <3>2, LedgerStands DEF EvidenceInv
    <2> QED BY <2>5, <2>6
  <1> QED BY <1>2, <1>3, <1>4, <1>5, <1>6

(* runtime-acceptance.sh up to the digest: with nothing packaged meanwhile,  *)
(* the copy for the sandbox and the digest are of the same .deb.             *)
LEMMA RuntimeAcceptanceStep ==
    ASSUME EvidenceInv,
           (\E mode \in Modes : StartRuntimeAcceptance(mode)) \/ DigestDeb
    PROVE  EvidenceInv'
  <1>1. manifest.version \in Versions /\ script \in Scripts
    BY DEF EvidenceInv, EvidenceTypeOK
  <1>2. ASSUME NEW mode \in Modes, StartRuntimeAcceptance(mode)
        PROVE  EvidenceInv'
    <2> DEFINE tested == IF mode = "current" THEN dist[manifest.version]
                                             ELSE pool'[manifest.version]
    <2>1. /\ dist[manifest.version] # NoArtifact
          /\ pool' = IF mode = "candidate" THEN CandidatePool ELSE pool
          /\ script' = [NoScript EXCEPT !.at = "digest", !.version = manifest.version,
                           !.tested = tested,
                           !.records = IF tested = NoArtifact THEN <<>> ELSE <<"apt_install">>]
          /\ UNCHANGED <<acceptanceVars, manifest, stage, marker, dist>>
      BY <1>2 DEF StartRuntimeAcceptance
    <2>2. pool' \in [Versions -> Artifacts \cup {NoArtifact}]
      BY <2>1 DEF CandidatePool, EvidenceInv, EvidenceTypeOK
    <2>3. /\ tested \in Artifacts \cup {NoArtifact}
          /\ dist[manifest.version] \in Artifacts
          /\ Exact => tested = dist[manifest.version]
      BY <1>1, <2>1, <2>2, EvidenceAssumption DEF Exact, CandidatePool, EvidenceInv, EvidenceTypeOK
    <2> DEFINE records == IF tested = NoArtifact THEN <<>> ELSE <<"apt_install">>
    <2> HIDE DEF tested
    <2>7. /\ records \in {<<>>, <<"apt_install">>}
          /\ tested = NoArtifact <=> records = <<>>
      OBVIOUS
    <2> HIDE DEF records
    <2>4. script' = [at |-> "digest", version |-> manifest.version, made |-> NoArtifact,
                     first |-> NoArtifact, sha |-> NoArtifact, tested |-> tested, records |-> records]
      BY <2>1 DEF NoScript, records
    <2>5. EvidenceTypeOK'
      BY <1>1, <2>1, <2>2, <2>3, <2>4, <2>7 DEF EvidenceInv, EvidenceTypeOK, Scripts
    <2>6. ScriptInv'
      BY <1>1, <2>1, <2>3, <2>4, <2>7 DEF ScriptInv, At, Deb
    <2> QED BY <2>1, <2>5, <2>6, LedgerStands DEF EvidenceInv
  <1>3. CASE DigestDeb
    <2>1. /\ At("digest")
          /\ script' = [script EXCEPT !.at = "bind", !.sha = dist[script.version]]
          /\ UNCHANGED <<acceptanceVars, treeVars>>
      BY <1>3 DEF DigestDeb
    <2>2. /\ dist[script.version] \in Artifacts
          /\ script.records \in {<<>>, <<"apt_install">>}
          /\ script.tested = NoArtifact <=> script.records = <<>>
          /\ Exact => script.tested = dist[script.version]
          /\ script.version \in Versions
      BY <2>1 DEF EvidenceInv, ScriptInv, At, Deb
    <2>3. /\ script' \in Scripts
          /\ script'.at = "bind"
          /\ script'.sha = dist[script.version]
          /\ script'.version = script.version
          /\ script'.records = script.records
          /\ script'.tested = script.tested
      BY <1>1, <2>1, <2>2 DEF Scripts
    <2>4. EvidenceTypeOK'
      BY <2>1, <2>3 DEF EvidenceInv, EvidenceTypeOK, treeVars
    <2>5. ScriptInv'
      BY <2>2, <2>3, NoArtifactAssumption DEF ScriptInv, At, Grounded
    <2> QED BY <2>1, <2>4, <2>5, LedgerStands DEF EvidenceInv
  <1> QED BY <1>2, <1>3

(* The commands the scripts call once they have a digest.                    *)
LEMMA BindStep == ASSUME EvidenceInv, BindArtifact PROVE EvidenceInv'
  <1>1. /\ At("bind")
        /\ ReadForBind(Script, package, script.version, script.sha)
        /\ script' = [script EXCEPT !.at = "record"]
        /\ UNCHANGED treeVars
    BY DEF BindArtifact
  <1>2. script \in Scripts /\ script.version \in Versions /\ script.sha \in Artifacts /\ Grounded
    BY <1>1 DEF EvidenceInv, EvidenceTypeOK, ScriptInv, At
  <1>3. AcceptanceNext /\ passed' = passed
    <2>1. Script \in Processes
      BY EvidenceAssumption
    <2> QED BY <1>1, <1>2, <2>1, PackageIsOne DEF AcceptanceNext, ReadForBind, Hold
  <1>4. /\ script' \in Scripts
        /\ script'.at = "record"
        /\ script'.sha = script.sha
        /\ script'.version = script.version
        /\ script'.records = script.records
        /\ script'.tested = script.tested
    BY <1>1, <1>2 DEF Scripts
  <1>5. EvidenceTypeOK'
    BY <1>1, <1>4 DEF EvidenceInv, EvidenceTypeOK, treeVars
  <1>6. ScriptInv'
    BY <1>2, <1>3, <1>4 DEF ScriptInv, At, Grounded, Proven
  <1> QED BY <1>3, <1>5, <1>6, LedgerStands DEF EvidenceInv

LEMMA SandboxStep == ASSUME EvidenceInv, TestInSandbox PROVE EvidenceInv'
  <1>1. /\ At("record") /\ script.tested # NoArtifact
        /\ TestPasses(package, "apt_install", script.tested)
        /\ script' = [script EXCEPT !.tested = NoArtifact]
        /\ UNCHANGED treeVars
    BY DEF TestInSandbox
  <1>2. script \in Scripts /\ script.version \in Versions /\ script.sha \in Artifacts /\ Grounded
    BY <1>1 DEF EvidenceInv, EvidenceTypeOK, ScriptInv, At
  <1>3. /\ script.records = <<"apt_install">>
        /\ script.tested \in Artifacts
        /\ Exact => script.tested = script.sha
    BY <1>1, <1>2 DEF Grounded, Scripts
  <1>4. AcceptanceNext /\ <<package, "apt_install", script.sha>> \in passed' \cup Granted
    <2>1. AcceptanceNext /\ <<package, "apt_install", script.tested>> \in passed'
      BY <1>1, <1>3, PackageIsOne, ChecksAre DEF AcceptanceNext, TestPasses
    <2>2. ~Exact => <<package, "apt_install", script.sha>> \in Granted
      BY <1>2, AllGranted, ChecksAre DEF Exact, Granted
    <2> QED BY <1>3, <2>1, <2>2
  <1>5. /\ script' \in Scripts
        /\ script'.at = "record"
        /\ script'.sha = script.sha
        /\ script'.version = script.version
        /\ script'.records = script.records
        /\ script'.tested = NoArtifact
    BY <1>1, <1>2 DEF Scripts, At
  <1>6. EvidenceTypeOK'
    BY <1>1, <1>5 DEF EvidenceInv, EvidenceTypeOK, treeVars
  <1>7. ScriptInv'
    BY <1>2, <1>3, <1>4, <1>5 DEF ScriptInv, At, Grounded, Proven
  <1> QED BY <1>4, <1>6, <1>7, LedgerStands DEF EvidenceInv

LEMMA TailOfOne == ASSUME NEW x PROVE Tail(<<x>>) = <<>>
  OBVIOUS

LEMMA TailOfTwo == ASSUME NEW x, NEW y PROVE Tail(<<x, y>>) = <<y>>
  OBVIOUS

LEMMA RecordStep == ASSUME EvidenceInv, Record PROVE EvidenceInv'
  <1> DEFINE c == Head(script.records)
             data == read_state(package, script.version)
  <1>1. /\ At("record") /\ script.tested = NoArtifact /\ script.records # <<>>
        /\ UNCHANGED treeVars
    BY DEF Record
  <1>2. \/ /\ data.artifact = script.sha
           /\ Hold(Script, package, Recorded(data, c, script.sha))
           /\ script' = [script EXCEPT !.records = Tail(@)]
        \/ Exit /\ UNCHANGED acceptanceVars
    BY DEF Record
  <1>3. script \in Scripts /\ script.version \in Versions /\ script.sha \in Artifacts /\ Grounded
    BY <1>1 DEF EvidenceInv, EvidenceTypeOK, ScriptInv, At
  <1>4. CASE Exit /\ UNCHANGED acceptanceVars
    <2>1. EvidenceTypeOK'
      BY <1>1, <1>4, ExitStands DEF EvidenceInv, EvidenceTypeOK, treeVars
    <2> QED BY <1>4, <2>1, ExitStands, LedgerStands DEF EvidenceInv
  <1>5. CASE /\ data.artifact = script.sha
             /\ Hold(Script, package, Recorded(data, c, script.sha))
             /\ script' = [script EXCEPT !.records = Tail(@)]
    <2>1. c \in Checks /\ Proven(c, script.sha)
      <3>1. CASE script.records = <<"apt_install">>
        BY <1>1, <1>3, <3>1, ChecksAre DEF Grounded
      <3>2. CASE script.records \in {<<"pristine_source">>,
                                     <<"reproducible_build", "pristine_source">>}
        BY <1>1, <1>3, <3>2, ChecksAre DEF Grounded
      <3> QED BY <1>1, <1>3, <3>1, <3>2 DEF Grounded
    <2>2. Known!LedgerInv' /\ Known!KeptInv'
      <3> HIDE DEF c
      <3> QED BY <1>3, <1>5, <2>1, RecordedStands DEF EvidenceInv
    <2>3. \/ Tail(script.records) = <<>>
          \/ /\ Tail(script.records) = <<"pristine_source">>
             /\ script.records = <<"reproducible_build", "pristine_source">>
      <3>1. CASE script.records = <<"reproducible_build", "pristine_source">>
        BY <3>1, TailOfTwo
      <3>2. CASE script.records \in {<<"apt_install">>, <<"pristine_source">>}
        BY <3>2, TailOfOne
      <3> QED BY <1>1, <1>3, <3>1, <3>2 DEF Grounded
    <2>4. /\ script' \in Scripts
          /\ script'.at = script.at
          /\ script'.sha = script.sha
          /\ script'.version = script.version
          /\ script'.records = Tail(script.records)
          /\ script'.tested = NoArtifact
      BY <1>1, <1>3, <1>5, <2>3 DEF Scripts
    <2>5. EvidenceTypeOK'
      BY <1>1, <2>4 DEF EvidenceInv, EvidenceTypeOK, treeVars
    <2>6. Tail(script.records) = <<"pristine_source">> =>
             Proven("reproducible_build", script.sha) /\ Proven("pristine_source", script.sha)
      BY <1>3, <2>3 DEF Grounded
    <2>7. UNCHANGED passed
      BY <1>5 DEF Hold
    <2>8. ScriptInv'
      BY <1>1, <1>3, <2>3, <2>4, <2>6, <2>7 DEF ScriptInv, At, Grounded, Proven
    <2> QED BY <2>2, <2>5, <2>8 DEF EvidenceInv
  <1> QED BY <1>2, <1>4, <1>5

(* A script ends, by itself or because a step of it fails.                   *)
LEMMA EndStep == ASSUME EvidenceInv, Finish \/ Fail PROVE EvidenceInv'
  <1>1. Exit /\ UNCHANGED <<acceptanceVars, treeVars>>
    BY DEF Finish, Fail
  <1>2. EvidenceTypeOK'
    BY <1>1, ExitStands DEF EvidenceInv, EvidenceTypeOK, treeVars
  <1> QED BY <1>1, <1>2, ExitStands, LedgerStands DEF EvidenceInv

(* The tests in a browser, and the commands that were called earlier.        *)
LEMMA BesideStep ==
    ASSUME EvidenceInv,
           \/ TestInBrowser \/ RecordBrowser
           \/ \E q \in Processes : ReplaceRecord(q) \/ DieRecording(q)
    PROVE  EvidenceInv'
  <1>1. AcceptanceNext /\ passed \subseteq passed' /\ UNCHANGED treeVars
    <2>1. CASE TestInBrowser
      <3> PICK v \in Versions :
                dist[v] # NoArtifact /\ TestPasses(package, "chrome", dist[v])
        BY <2>1 DEF TestInBrowser
      <3>1. dist[v] \in Artifacts
        BY DEF EvidenceInv, EvidenceTypeOK
      <3> QED BY <2>1, <3>1, PackageIsOne, ChecksAre
                 DEF TestInBrowser, AcceptanceNext, TestPasses
    <2>2. CASE RecordBrowser
      <3>1. Person \in Processes
        BY EvidenceAssumption
      <3> QED BY <2>2, <3>1, PackageIsOne, ChecksAre
                 DEF RecordBrowser, AcceptanceNext, ReadForRecord, Hold
    <2>3. ASSUME NEW q \in Processes, ReplaceRecord(q)
          PROVE  AcceptanceNext /\ passed \subseteq passed' /\ UNCHANGED treeVars
      BY <2>3 DEF ReplaceRecord, AcceptanceNext, Replace
    <2>4. ASSUME NEW q \in Processes, DieRecording(q)
          PROVE  AcceptanceNext /\ passed \subseteq passed' /\ UNCHANGED treeVars
      BY <2>4 DEF DieRecording, AcceptanceNext, Die
    <2> QED BY <2>1, <2>2, <2>3, <2>4
  <1>2. Exit \/ UNCHANGED script
    BY DEF TestInBrowser, RecordBrowser, ReplaceRecord, DieRecording
  <1>3. EvidenceTypeOK'
    BY <1>1, <1>2, ExitStands DEF EvidenceInv, EvidenceTypeOK, treeVars
  <1>4. ScriptInv'
    BY <1>1, <1>2, ExitStands, ScriptStands DEF EvidenceInv, treeVars
  <1> QED BY <1>1, <1>3, <1>4, LedgerStands DEF EvidenceInv

-----------------------------------------------------------------------------

LEMMA EvidenceInitially == EvidenceInit => EvidenceInv
  <1> SUFFICES ASSUME EvidenceInit PROVE EvidenceInv
    OBVIOUS
  <1>1. Known!LedgerInv /\ Known!KeptInv
    BY InitStands DEF EvidenceInit
  <1>2. EvidenceTypeOK /\ ScriptInv
    BY NoVersionAssumption DEF EvidenceInit, EvidenceTypeOK, NoMarker, NoScript, Scripts, ScriptInv, At
  <1> QED BY <1>1, <1>2 DEF EvidenceInv

(* Every step of the scripts, the people and the ledger keeps the invariant. *)
LEMMA EvidenceStep ==
    ASSUME EvidenceInv, [EvidenceNext]_evidenceVars
    PROVE  EvidenceInv'
  <1>1. CASE UNCHANGED evidenceVars
    <2>1. EvidenceTypeOK' /\ ScriptInv'
      BY <1>1, ScriptStands DEF evidenceVars, treeVars, acceptanceVars, EvidenceInv, EvidenceTypeOK
    <2> QED BY <1>1, <2>1, LedgerStands DEF evidenceVars, EvidenceInv
  <1>2. CASE EvidenceNext
    BY <1>2, MaintainerStep, BuildAcceptanceStep, RuntimeAcceptanceStep, BindStep,
       SandboxStep, RecordStep, EndStep, BesideStep DEF EvidenceNext
  <1> QED BY <1>1, <1>2

(* What the ledger and the scripts hold on to, whatever is built, packaged,  *)
(* edited, tested and recorded before, between and, with what is granted     *)
(* then, beside them.                                                        *)
THEOREM EvidenceInvariance == EvidenceSpec => []EvidenceInv
  <1>1. EvidenceInit => EvidenceInv
    BY EvidenceInitially
  <1>2. EvidenceInv /\ [EvidenceNext]_evidenceVars => EvidenceInv'
    BY EvidenceStep
  <1> QED BY <1>1, <1>2, PTL DEF EvidenceSpec

(* Nothing is granted if nobody packages beside a script and the sandbox     *)
(* never tests an older repository: then whatever a record says of an        *)
(* artifact was shown of that very artifact: the scripts never record what   *)
(* they did not test, built anew or not.                                     *)
THEOREM RecordedTested == Exact => (EvidenceSpec => []RecordedIsTested)
  <1> SUFFICES ASSUME Exact PROVE EvidenceSpec => []RecordedIsTested
    OBVIOUS
  <1>1. EvidenceInv => RecordedIsTested
    BY PackageIsOne
       DEF Exact, EvidenceInv, Granted, Known!LedgerInv, Known!Sound, Known!Claims,
           RecordedIsTested
  <1> QED BY <1>1, EvidenceInvariance, PTL

(* What source_audit.py counts as verified was made by a build that verified *)
(* its source tree, though manifest, marker, record and .deb are read apart, *)
(* and whatever repository the runtime test was run against.                 *)
THEOREM VerifiedPristine == Undisturbed => (EvidenceSpec => []VerifiedIsPristine)
  <1> SUFFICES ASSUME Undisturbed PROVE EvidenceSpec => []VerifiedIsPristine
    OBVIOUS
  <1>1. EvidenceInv => VerifiedIsPristine
    <2> SUFFICES ASSUME EvidenceInv, Verified
                 PROVE  <<package, "pristine_source", dist[manifest.version]>> \in passed
      BY DEF VerifiedIsPristine
    <2>1. <<package, "pristine_source", dist[manifest.version]>> \in passed \cup Granted
      BY PackageIsOne, ChecksAre
         DEF EvidenceInv, Known!LedgerInv, Known!Sound, Known!Claims, Verified, acceptance_matches
    <2>2. "pristine_source" # "apt_install"
      OBVIOUS
    <2> QED BY <2>1, <2>2 DEF Granted
  <1> QED BY <1>1, EvidenceInvariance, PTL

(* The commands the scripts issue, also the record that has no look at what  *)
(* was shown, keep the evidence of one record about one artifact, and the    *)
(* evidence of a repeated acceptance, whatever repository is tested and      *)
(* whatever is packaged beside them.                                         *)
THEOREM ScriptsKeepLedger ==
    EvidenceSpec => [](AcceptanceTypeOK /\ EvidenceOfOneArtifact) /\ EvidenceIsKept
  <1>1. EvidenceInv => AcceptanceTypeOK /\ EvidenceOfOneArtifact
    BY LedgerTyped
       DEF EvidenceInv, Known!LedgerInv, Known!Sound, Known!Claims, EvidenceOfOneArtifact
  <1>2. EvidenceInv =>
           [\A q \in Processes, p \in Packages, c \in Checks :
              (/\ Replace(q)
               /\ q \notin overtaken
               /\ file'[p].version = file[p].version
               /\ file'[p].artifact = file[p].artifact)
              => (file[p].checks[c] # NoArtifact => file'[p].checks[c] = file[p].checks[c])
           ]_acceptanceVars
    <2> SUFFICES ASSUME EvidenceInv, NEW q \in Processes, NEW p \in Packages, NEW c \in Checks,
                        Replace(q), q \notin overtaken,
                        file'[p].version = file[p].version, file'[p].artifact = file[p].artifact,
                        file[p].checks[c] # NoArtifact
                 PROVE  file'[p].checks[c] = file[p].checks[c]
      OBVIOUS
    <2>1. Known!Replace(q)
      BY DEF Replace, Known!Replace, Writing, Known!Writing, Idle, Known!Idle
    <2> QED BY <2>1, Known!ReplacedKept, NoVersionAssumption, NoArtifactAssumption,
               ChecksAssumption DEF EvidenceInv
  <1> QED BY <1>1, <1>2, EvidenceInvariance, PTL DEF EvidenceIsKept

(* If nothing is granted, a record the scripts leave is stable only when the *)
(* artifact it names passed every check.                                     *)
THEOREM ScriptsProveStable == Exact => (EvidenceSpec => []StableIsProven)
  <1> SUFFICES ASSUME Exact PROVE EvidenceSpec => []StableIsProven
    OBVIOUS
  <1>1. EvidenceInv => StableIsProven
    <2> SUFFICES ASSUME EvidenceInv, NEW p \in Packages, NEW c \in Checks,
                        file[p].stable \/ is_stable(file[p])
                 PROVE  <<p, c, file[p].artifact>> \in passed
      BY DEF StableIsProven
    <2>1. /\ file[p].stable = is_stable(file[p])
          /\ file[p].checks[c] # NoArtifact => <<p, c, file[p].checks[c]>> \in passed
      BY DEF Exact, EvidenceInv, Granted, Known!LedgerInv, Known!Sound, Known!Claims,
             is_stable, Known!is_stable
    <2> QED BY <2>1 DEF is_stable
  <1> QED BY <1>1, EvidenceInvariance, PTL
=============================================================================
