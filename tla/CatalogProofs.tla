---------------------------- MODULE CatalogProofs ----------------------------
(***************************************************************************)
(* Proofs about the catalog and the recursive walks over it, for any ports,*)
(* any lists in their manifests, and anything the manifests can be when    *)
(* they are loaded again.                                                  *)
(*                                                                         *)
(* What can be reached is the least closed set, so that what a walk has    *)
(* visited is compared with it by exhibiting a closed set, without an      *)
(* induction over the depth of the walk.                                   *)
(***************************************************************************)
EXTENDS Catalog, Flattening

Entries == Ports \cup Unknown
Frames == [port : Ports \cup {NoPort}, todo : Seq(Entries)]

-----------------------------------------------------------------------------

(* The next child, and those that remain.                                    *)
LEMMA HeadTail ==
    ASSUME NEW S, NEW todo \in Seq(S), todo # <<>>
    PROVE  /\ Tail(todo) \in Seq(S) /\ Head(todo) \in S
           /\ ToSet(todo) = {Head(todo)} \cup ToSet(Tail(todo))
  <1>1. /\ Len(todo) \in Nat /\ Len(todo) >= 1 /\ DOMAIN todo = 1..Len(todo)
        /\ Tail(todo) \in Seq(S) /\ DOMAIN Tail(todo) = 1..Len(todo) - 1
        /\ \A i \in 1..Len(todo) - 1 : Tail(todo)[i] = todo[i + 1]
    OBVIOUS
  <1>2. 1 \in 1..Len(todo) /\ Head(todo) = todo[1] /\ Head(todo) \in S
    BY <1>1
  <1>3. ToSet(Tail(todo)) \subseteq ToSet(todo)
    <2>1. \A i \in 1..Len(todo) - 1 : i + 1 \in 1..Len(todo)
      BY <1>1
    <2> QED BY <1>1, <2>1 DEF ToSet
  <1>4. ToSet(todo) \subseteq {Head(todo)} \cup ToSet(Tail(todo))
    <2> SUFFICES ASSUME NEW i \in 1..Len(todo)
                 PROVE  todo[i] \in {Head(todo)} \cup ToSet(Tail(todo))
      BY <1>1 DEF ToSet
    <2>1. CASE i = 1
      BY <1>2, <2>1
    <2>2. CASE i # 1
      <3>1. i - 1 \in 1..Len(todo) - 1 /\ i - 1 + 1 = i
        BY <1>1, <2>2
      <3> QED BY <1>1, <3>1 DEF ToSet
    <2> QED BY <2>1, <2>2
  <1>5. Head(todo) \in ToSet(todo)
    BY <1>1, <1>2 DEF ToSet
  <1> QED BY <1>1, <1>2, <1>3, <1>4, <1>5

(* Of a stack of frames: the innermost is done with its next child, a call   *)
(* is made for that child, the innermost call returns.                       *)
LEMMA PassIs ==
    ASSUME stack \in Seq(Frames), stack # <<>>, HasChild
    PROVE  /\ Passed \in Seq(Frames) /\ Len(Passed) = Len(stack) /\ Child \in Entries
           /\ \A i \in 1..Len(stack) : Passed[i].port = stack[i].port
           /\ \A i \in 1..Len(stack) : i # Len(stack) => Passed[i] = stack[i]
           /\ ToSet(stack[Len(stack)].todo) = {Child} \cup ToSet(Passed[Len(stack)].todo)
  <1> DEFINE n == Len(stack)
             passed == [stack[n] EXCEPT !.todo = Tail(@)]
  <1>1. n \in Nat /\ n >= 1 /\ n \in 1..n /\ stack[n] \in Frames
    OBVIOUS
  <1>2. stack[n].todo \in Seq(Entries) /\ stack[n].todo # <<>> /\ Child = Head(stack[n].todo)
    BY <1>1 DEF HasChild, Child, Innermost, Last, Frames
  <1>3. passed \in Frames /\ passed.port = stack[n].port /\ passed.todo = Tail(stack[n].todo)
    BY <1>1, <1>2, HeadTail DEF Frames
  <1>4. Passed = [stack EXCEPT ![n] = passed]
    BY DEF Passed
  <1> HIDE DEF passed
  <1>5. /\ Passed \in Seq(Frames) /\ Len(Passed) = n /\ Passed[n] = passed
        /\ \A i \in 1..n : i # n => Passed[i] = stack[i]
    BY <1>1, <1>3, <1>4
  <1> QED BY <1>1, <1>2, <1>3, <1>5, HeadTail

LEMMA CallIs ==
    ASSUME stack \in Seq(Frames), stack # <<>>, HasChild,
           NEW p \in Ports, NEW todo \in Seq(Entries), Call(p, todo)
    PROVE  /\ stack' \in Seq(Frames) /\ Len(stack') = Len(stack) + 1 /\ Child \in Entries
           /\ \A i \in 1..Len(stack) : stack'[i].port = stack[i].port
           /\ \A i \in 1..Len(stack) : i # Len(stack) => stack'[i] = stack[i]
           /\ ToSet(stack[Len(stack)].todo) = {Child} \cup ToSet(stack'[Len(stack)].todo)
           /\ stack'[Len(stack) + 1].port = p /\ stack'[Len(stack) + 1].todo = todo
           /\ stack' # <<>>
  <1> DEFINE frame == [port |-> p, todo |-> todo]
  <1>1. frame \in Frames
    BY DEF Frames
  <1>2. stack' = Append(Passed, frame)
    BY DEF Call, Frame
  <1>3. Len(stack) \in Nat /\ Len(stack) >= 1
    OBVIOUS
  <1> HIDE DEF frame
  <1>4. /\ stack' \in Seq(Frames) /\ Len(stack') = Len(stack) + 1
        /\ \A i \in 1..Len(stack) : stack'[i] = Passed[i]
        /\ stack'[Len(stack) + 1] = frame /\ stack' # <<>>
    BY <1>1, <1>2, <1>3, PassIs
  <1>5. frame.port = p /\ frame.todo = todo
    BY DEF frame
  <1>6. Len(stack) \in 1..Len(stack)
    BY <1>3
  <1> QED BY <1>3, <1>4, <1>5, <1>6, PassIs

LEMMA OneOrMore ==
    ASSUME NEW n \in Nat, n >= 1
    PROVE  n = 1 \/ (n > 1 /\ n \in 2..n)
  OBVIOUS

LEMMA ReturnIs ==
    ASSUME stack \in Seq(Frames), InnerCall, Return
    PROVE  /\ stack' \in Seq(Frames) /\ Len(stack') = Len(stack) - 1 /\ stack' # <<>>
           /\ \A i \in 1..Len(stack') : stack'[i] = stack[i]
  <1> DEFINE n == Len(stack)
  <1>1. n \in Nat /\ n > 1 /\ stack' = SubSeq(stack, 1, n - 1)
    BY DEF InnerCall, Return, Front
  <1>2. n - 1 \in Nat /\ n - 1 >= 1 /\ n - 1 <= n
    BY <1>1
  <1>3. stack' = [i \in 1..n - 1 |-> stack[i]]
    BY <1>1, <1>2
  <1>4. /\ stack' \in Seq(Frames) /\ Len(stack') = n - 1
        /\ \A i \in 1..n - 1 : stack'[i] = stack[i]
    BY <1>2, <1>3
  <1> QED BY <1>2, <1>4

-----------------------------------------------------------------------------

(* The stack is empty when nothing is being walked over, and its calls are   *)
(* of different ports.  The manifests a walk goes over are a catalog, and    *)
(* in one that main has checked every name is a port.                        *)
StackShape ==
    /\ stack \in Seq(Frames)
    /\ stack = <<>> <=> phase \in Ended \cup {"validate"}
    /\ \A i \in 2..Len(stack) : stack[i].port \in Ports
    /\ \A i, j \in 2..Len(stack) : i # j => stack[i].port # stack[j].port
    /\ stack # <<>> => stack[1].port = IF phase = "collect" THEN request.port ELSE NoPort
    /\ phase = "visit" => \A i \in 1..Len(stack) : ToSet(stack[i].todo) \subseteq Ports

VisitShape ==
    /\ visiting = (IF Visits THEN Callers ELSE {})
    /\ visited \subseteq Ports
    /\ phase \in {"visit", "collect", "bundle"} \/ visited = {}
    /\ ordered \in Seq(Ports)
    /\ phase \in {"validate", "visit", "accepted", "build"} => ordered = <<>>

CatalogShape ==
    /\ loaded \in Catalogs /\ IsCatalog(ports)
    /\ phase \in Phases
    /\ phase \in {"build", "collect", "bundle"} => request.port \in Ports
    /\ phase = "visit" => Known(loaded)

CatalogInv == CatalogShape /\ StackShape /\ VisitShape

LEMMA CatalogInitially == CatalogInit => CatalogInv
  <1> SUFFICES ASSUME CatalogInit PROVE CatalogInv
    OBVIOUS
  <1>1. CatalogShape
    BY CatalogsAssumption DEF CatalogInit, CatalogShape, Phases
  <1>2. StackShape
    BY DEF CatalogInit, StackShape
  <1>3. VisitShape
    BY DEF CatalogInit, VisitShape, Visits
  <1> QED BY <1>1, <1>2, <1>3 DEF CatalogInv

(* The catalog main loaded has every port.                                   *)
LEMMA LoadedHasPorts ==
    ASSUME CatalogShape
    PROVE  /\ IsCatalog(loaded) /\ Names(loaded) = Ports
           /\ \A p \in Ports : loaded.build[p] \in Seq(Entries) /\ loaded.exec[p] \in Seq(Entries)
           /\ Names(ports) \subseteq Ports /\ DOMAIN ports.exec = Names(ports)
           /\ \A p \in Names(ports) :
                 ports.build[p] \in Seq(Entries) /\ ports.exec[p] \in Seq(Entries)
  BY CatalogsAssumption DEF CatalogShape, IsCatalog, Entries

-----------------------------------------------------------------------------

(* The ways a stack changes: it is emptied, it has its first call, it goes   *)
(* on to the next child, it has one call more, one call less.                *)
LEMMA EndKeeps ==
    ASSUME CatalogInv, NEW how \in Ended, End(how),
           UNCHANGED <<loaded, ports, request, ordered>>,
           how = "accepted" => ordered = <<>>
    PROVE  CatalogInv'
  <1>1. how \notin {"visit", "collect", "build", "bundle", "validate"} /\ how \in Phases
    BY DEF Ended, Phases
  <1>2. CatalogShape'
    BY <1>1 DEF CatalogInv, CatalogShape, End
  <1>3. StackShape'
    BY <1>1 DEF CatalogInv, StackShape, End
  <1>4. VisitShape'
    BY <1>1 DEF CatalogInv, VisitShape, End, Visits
  <1> QED BY <1>2, <1>3, <1>4 DEF CatalogInv

LEMMA StartKeeps ==
    ASSUME NEW p \in Ports \cup {NoPort}, NEW todo \in Seq(Entries),
           stack' = <<Frame(p, todo)>>, phase' \in {"visit", "build", "collect", "bundle"},
           p = IF phase' = "collect" THEN request'.port ELSE NoPort,
           phase' = "visit" => ToSet(todo) \subseteq Ports
    PROVE  StackShape' /\ Callers' = {}
  <1> DEFINE frame == [port |-> p, todo |-> todo]
  <1>1. frame \in Frames /\ frame.port = p /\ frame.todo = todo
    BY DEF Frames
  <1>2. stack' = <<frame>>
    BY DEF Frame
  <1> HIDE DEF frame
  <1>3. stack' \in Seq(Frames) /\ stack' # <<>> /\ Len(stack') = 1 /\ stack'[1] = frame
    BY <1>1, <1>2
  <1>4. phase' \notin Ended \cup {"validate"}
    BY DEF Ended
  <1>5. 2..Len(stack') = {} /\ \A i \in 1..Len(stack') : i = 1
    BY <1>3
  <1>6. StackShape'
    BY <1>1, <1>3, <1>4, <1>5 DEF StackShape
  <1> QED BY <1>5, <1>6 DEF Callers

LEMMA PassedKeeps ==
    ASSUME CatalogInv, stack # <<>>, HasChild, stack' = Passed,
           UNCHANGED <<loaded, ports, phase, request, visiting, visited, ordered>>
    PROVE  CatalogInv' /\ Callers' = Callers
  <1> DEFINE n == Len(stack)
  <1>1. stack \in Seq(Frames) /\ n \in Nat /\ n >= 1 /\ n \in 1..n
    BY DEF CatalogInv, StackShape
  <1>2. /\ stack' \in Seq(Frames) /\ Len(stack') = n /\ stack' # <<>>
        /\ \A i \in 1..n : stack'[i].port = stack[i].port
        /\ \A i \in 1..n : i # n => stack'[i] = stack[i]
        /\ ToSet(stack'[n].todo) \subseteq ToSet(stack[n].todo)
    BY <1>1, PassIs
  <1>3. 2..n \subseteq 1..n /\ 1 \in 1..n
    BY <1>1
  <1>4. \A i \in 1..n : ToSet(stack'[i].todo) \subseteq ToSet(stack[i].todo)
    BY <1>2
  <1>5. StackShape'
    BY <1>1, <1>2, <1>3, <1>4 DEF CatalogInv, StackShape
  <1>6. Callers' = Callers
    BY <1>2, <1>3 DEF Callers
  <1> QED BY <1>5, <1>6 DEF CatalogInv, CatalogShape, VisitShape, Visits

LEMMA CallKeeps ==
    ASSUME CatalogInv, stack # <<>>, HasChild,
           NEW p \in Ports \ Callers, NEW todo \in Seq(Entries), Call(p, todo),
           phase = "visit" => ToSet(todo) \subseteq Ports,
           UNCHANGED <<phase, request>>
    PROVE  StackShape' /\ Callers' = Callers \cup {p}
  <1> DEFINE n == Len(stack)
  <1>1. stack \in Seq(Frames) /\ n \in Nat /\ n >= 1 /\ n \in 1..n
    BY DEF CatalogInv, StackShape
  <1>2. /\ stack' \in Seq(Frames) /\ Len(stack') = n + 1 /\ stack' # <<>>
        /\ \A i \in 1..n : stack'[i].port = stack[i].port
        /\ \A i \in 1..n : i # n => stack'[i] = stack[i]
        /\ ToSet(stack'[n].todo) \subseteq ToSet(stack[n].todo)
        /\ stack'[n + 1].port = p /\ stack'[n + 1].todo = todo
    <2>1. p \in Ports
      OBVIOUS
    <2> QED BY <1>1, <2>1, CallIs
  <1>3. /\ 2..n \subseteq 1..n /\ 1 \in 1..n /\ 2..n + 1 = 2..n \cup {n + 1}
        /\ 1..n + 1 = 1..n \cup {n + 1} /\ n + 1 \notin 1..n
    BY <1>1
  <1>4. \A i \in 1..n : ToSet(stack'[i].todo) \subseteq ToSet(stack[i].todo)
    BY <1>2
  <1>5. Callers' = Callers \cup {p}
    BY <1>2, <1>3 DEF Callers
  <1>6. \A i \in 2..n : stack'[i].port # p
    BY <1>2, <1>3 DEF Callers
  <1>7. \A i, j \in 2..Len(stack') : i # j => stack'[i].port # stack'[j].port
    BY <1>2, <1>3, <1>6 DEF CatalogInv, StackShape
  <1>8. StackShape'
    BY <1>1, <1>2, <1>3, <1>4, <1>7 DEF CatalogInv, StackShape
  <1> QED BY <1>5, <1>8

LEMMA ReturnKeeps ==
    ASSUME CatalogInv, InnerCall, Return, UNCHANGED <<phase, request>>
    PROVE  /\ StackShape' /\ Innermost.port \in Callers
           /\ Callers' = Callers \ {Innermost.port}
  <1> DEFINE n == Len(stack)
  <1>1. stack \in Seq(Frames) /\ n \in Nat /\ n >= 2 /\ Innermost = stack[n]
    BY DEF CatalogInv, StackShape, InnerCall, Innermost, Last
  <1>2. /\ stack' \in Seq(Frames) /\ Len(stack') = n - 1 /\ stack' # <<>> /\ stack # <<>>
        /\ \A i \in 1..n - 1 : stack'[i] = stack[i]
    BY <1>1, ReturnIs
  <1>3. /\ 2..n = 2..n - 1 \cup {n} /\ n \notin 2..n - 1
        /\ 2..n - 1 \subseteq 1..n - 1 /\ 1 \in 1..n - 1 /\ 1..n - 1 \subseteq 1..n
    BY <1>1
  <1>4. StackShape'
    BY <1>1, <1>2, <1>3 DEF CatalogInv, StackShape
  <1>5. \A i \in 2..n - 1 : stack[i].port # stack[n].port
    BY <1>3 DEF CatalogInv, StackShape
  <1> QED BY <1>1, <1>2, <1>3, <1>4, <1>5 DEF Callers

LEMMA StackTyped ==
    ASSUME CatalogInv, phase \notin Ended \cup {"validate"}
    PROVE  /\ stack \in Seq(Frames) /\ stack # <<>> /\ Len(stack) \in Nat /\ Len(stack) >= 1
           /\ Len(stack) \in 1..Len(stack) /\ Innermost = stack[Len(stack)]
           /\ HasChild => Child \in Entries /\ Child \in ToSet(Innermost.todo)
  <1>1. stack \in Seq(Frames) /\ stack # <<>>
    BY DEF CatalogInv, StackShape
  <1>2. Innermost = stack[Len(stack)]
    BY DEF Innermost, Last
  <1> QED BY <1>1, <1>2, PassIs

(* The port that is entered, and its list.                                   *)
LEMMA EnteredIs ==
    ASSUME CatalogInv, Visits, HasChild, Child \notin visiting \cup visited, Fit(Child)
    PROVE  /\ Child \in Ports \ Callers /\ Lists[Child] \in Seq(Entries)
           /\ phase = "visit" => ToSet(Lists[Child]) \subseteq Ports
           /\ phase = "collect" => Child \in Names(ports)
  <1>1. phase \in {"visit", "collect"} /\ phase \notin Ended \cup {"validate"}
    BY DEF Visits, Ended
  <1>2. Child \in ToSet(stack[Len(stack)].todo) /\ Child \notin Callers
    BY <1>1, StackTyped DEF CatalogInv, VisitShape, Visits
  <1>3. CASE phase = "visit"
    <2>1. Child \in Ports
      BY <1>1, <1>2, <1>3, StackTyped DEF CatalogInv, StackShape
    <2>2. ToSet(loaded.build[Child]) \subseteq Ports
      BY <1>3, <2>1, LoadedHasPorts DEF CatalogInv, CatalogShape, Known
    <2>3. Lists[Child] \in Seq(Entries)
      BY <1>3, <2>1, LoadedHasPorts DEF CatalogInv, Lists
    <2> QED BY <1>2, <1>3, <2>1, <2>2, <2>3 DEF Lists
  <1>4. CASE phase = "collect"
    <2>1. Child \in Names(ports)
      BY <1>4 DEF Fit
    <2>2. Lists[Child] \in Seq(Entries) /\ Child \in Ports
      BY <1>4, <2>1, LoadedHasPorts DEF CatalogInv, Lists
    <2> QED BY <1>2, <1>4, <2>1, <2>2
  <1> QED BY <1>1, <1>3, <1>4

LEMMA CatalogInductive ==
    ASSUME CatalogInv, [CatalogNext]_catalogVars
    PROVE  CatalogInv'
  <1> USE DEF CatalogInv
  <1>1. ASSUME Validate PROVE CatalogInv'
    <2>1. CASE End("refused")
      BY <1>1, <2>1, EndKeeps DEF Validate, Ended
    <2>2. CASE ~End("refused")
      <3>1. /\ phase' = "visit" /\ stack' = <<Frame(NoPort, Order)>> /\ Known(loaded)
            /\ UNCHANGED <<loaded, ports, request, visiting, visited, ordered>>
        BY <1>1, <2>2 DEF Validate
      <3>2. Order \in Seq(Entries) /\ ToSet(Order) \subseteq Ports
        BY OrderAssumption DEF Entries
      <3>3. StackShape' /\ Callers' = {}
        BY <3>1, <3>2, StartKeeps
      <3>4. CatalogShape'
        BY <3>1 DEF CatalogShape, Phases, Known, Names
      <3>5. VisitShape'
        BY <1>1, <3>1, <3>3 DEF Validate, VisitShape, Visits
      <3> QED BY <3>3, <3>4, <3>5
    <2> QED BY <2>1, <2>2
  <1>2. ASSUME Accept PROVE CatalogInv'
    <2>1. ordered = <<>>
      BY <1>2 DEF Accept, VisitShape
    <2>2. End("accepted") \/ End("refused")
      BY <1>2 DEF Accept
    <2> QED BY <1>2, <2>1, <2>2, EndKeeps DEF Accept, Ended
  <1>3. ASSUME Enter PROVE CatalogInv'
    <2>1. phase \notin Ended \cup {"validate"}
      BY <1>3 DEF Enter, Visits, Ended
    <2>2. /\ Child \in Ports \ Callers /\ Lists[Child] \in Seq(Entries)
          /\ phase = "visit" => ToSet(Lists[Child]) \subseteq Ports
      BY <1>3, EnteredIs DEF Enter
    <2>3. StackShape' /\ Callers' = Callers \cup {Child}
      BY <1>3, <2>1, <2>2, StackTyped, CallKeeps DEF Enter
    <2>4. CatalogShape'
      BY <1>3 DEF Enter, CatalogShape, Known, Names
    <2>5. VisitShape'
      BY <1>3, <2>3 DEF Enter, VisitShape, Visits
    <2> QED BY <2>3, <2>4, <2>5
  <1>4. ASSUME Unfit PROVE CatalogInv'
    BY <1>4, EndKeeps DEF Unfit, Ended
  <1>5. ASSUME Again PROVE CatalogInv'
    <2>1. phase \notin Ended \cup {"validate"}
      BY <1>5 DEF Again, Visits, Ended
    <2> QED BY <1>5, <2>1, StackTyped, PassedKeeps DEF Again
  <1>6. ASSUME Circle PROVE CatalogInv'
    <2>1. End("refused") \/ End("failed")
      BY <1>6 DEF Circle
    <2> QED BY <1>6, <2>1, EndKeeps DEF Circle, Ended
  <1>7. ASSUME Leave PROVE CatalogInv'
    <2>1. /\ StackShape' /\ Innermost.port \in Callers
          /\ Callers' = Callers \ {Innermost.port}
      BY <1>7, ReturnKeeps DEF Leave
    <2>2. CatalogShape'
      BY <1>7 DEF Leave, CatalogShape, Known, Names
    <2>3. Innermost.port \in Ports
      BY <2>1 DEF StackShape, Callers
    <2>4. ordered' \in Seq(Ports) /\ (phase = "visit" => ordered' = <<>>)
      <3>1. Append(ordered, Innermost.port) \in Seq(Ports)
        BY <2>3 DEF VisitShape
      <3> QED BY <1>7, <3>1 DEF Leave, VisitShape
    <2>5. VisitShape'
      BY <1>7, <2>1, <2>3, <2>4 DEF Leave, VisitShape, Visits
    <2> QED BY <2>1, <2>2, <2>5
  <1>8. ASSUME BuildPort PROVE CatalogInv'
    <2>1. phase \notin Ended \cup {"validate"} /\ phase \in {"build", "bundle"}
      BY <1>8 DEF BuildPort, Building, Ended
    <2>2. CASE stack' = Passed
      BY <1>8, <2>1, <2>2, StackTyped, PassedKeeps DEF BuildPort
    <2>3. CASE Call(Child, Manifest.build[Child])
      <3>1. Child \in Ports \ Callers /\ Manifest.build[Child] \in Seq(Entries)
        <4>1. CASE Manifest = loaded
          BY <1>8, <4>1, LoadedHasPorts DEF BuildPort
        <4>2. CASE Manifest = ports
          BY <1>8, <4>2, LoadedHasPorts DEF BuildPort
        <4> QED BY <4>1, <4>2 DEF Manifest
      <3>2. StackShape' /\ Callers' = Callers \cup {Child}
        BY <1>8, <2>1, <2>3, <3>1, StackTyped, CallKeeps DEF BuildPort
      <3>3. CatalogShape'
        BY <1>8, <2>1 DEF BuildPort, CatalogShape
      <3>4. VisitShape'
        BY <1>8, <2>1 DEF BuildPort, VisitShape, Visits
      <3> QED BY <3>2, <3>3, <3>4
    <2> QED BY <1>8, <2>2, <2>3 DEF BuildPort
  <1>9. ASSUME BuildUnknown PROVE CatalogInv'
    BY <1>9, EndKeeps DEF BuildUnknown, Ended
  <1>10. ASSUME BuildCircle PROVE CatalogInv'
    BY <1>10, EndKeeps DEF BuildCircle, Ended
  <1>11. ASSUME BuildDone PROVE CatalogInv'
    <2>1. StackShape'
      BY <1>11, ReturnKeeps DEF BuildDone
    <2>2. CatalogShape' /\ VisitShape'
      BY <1>11 DEF BuildDone, Building, CatalogShape, VisitShape, Visits
    <2> QED BY <2>1, <2>2
  <1>12. ASSUME Built PROVE CatalogInv'
    <2>1. CASE End("built") \/ End("crashed")
      BY <1>12, <2>1, EndKeeps DEF Built, Ended
    <2>2. CASE ~(End("built") \/ End("crashed"))
      <3>1. /\ phase = "build" /\ phase' = "collect"
            /\ stack' = <<Frame(request.port, loaded.exec[request.port])>>
            /\ UNCHANGED <<loaded, ports, request, visiting, visited, ordered>>
        BY <1>12, <2>2 DEF Built
      <3>2. request.port \in Ports /\ loaded.exec[request.port] \in Seq(Entries)
        BY <3>1, LoadedHasPorts DEF CatalogShape
      <3>3. StackShape' /\ Callers' = {}
        BY <3>1, <3>2, StartKeeps
      <3>4. CatalogShape'
        BY <3>1 DEF CatalogShape, Phases
      <3>5. VisitShape'
        BY <3>1, <3>3 DEF VisitShape, Visits
      <3> QED BY <3>3, <3>4, <3>5
    <2> QED BY <2>1, <2>2
  <1>13. ASSUME Collected PROVE CatalogInv'
    <2>1. ordered \in Seq(Entries)
      BY DEF VisitShape, Entries
    <2>2. StackShape'
      BY <1>13, <2>1, StartKeeps DEF Collected
    <2>3. Callers = {}
      <3>1. 2..Len(stack) = {}
        BY <1>13 DEF Collected, InnerCall, StackShape
      <3> QED BY <3>1 DEF Callers
    <2>4. CatalogShape' /\ VisitShape'
      BY <1>13, <2>3 DEF Collected, CatalogShape, VisitShape, Visits, Phases
    <2> QED BY <2>2, <2>4
  <1>14. ASSUME Bundle PROVE CatalogInv'
    <2>1. End("packaged") \/ End("failed")
      BY <1>14 DEF Bundle
    <2> QED BY <1>14, <2>1, EndKeeps DEF Bundle, Ended
  <1>15. ASSUME NEW p \in Ports, NEW action \in {"build", "package"}, Begin(action, p)
         PROVE  CatalogInv'
    <2>1. <<p>> \in Seq(Entries)
      BY DEF Entries
    <2>2. StackShape' /\ Callers' = {}
      BY <1>15, <2>1, StartKeeps DEF Begin
    <2>3. CatalogShape'
      BY <1>15, CatalogsAssumption DEF Begin, CatalogShape, Phases
    <2>4. VisitShape'
      BY <1>15 DEF Begin, VisitShape, Visits
    <2> QED BY <2>2, <2>3, <2>4
  <1>16. CASE UNCHANGED catalogVars
    BY <1>16 DEF catalogVars, CatalogShape, StackShape, VisitShape, Visits, Callers
  <1> QED
    BY <1>1, <1>2, <1>3, <1>4, <1>5, <1>6, <1>7, <1>8, <1>9, <1>10, <1>11, <1>12,
       <1>13, <1>14, <1>15, <1>16 DEF CatalogNext, Work

LEMMA InvIsTyped == ASSUME CatalogInv PROVE CatalogTypeOK
  <1>1. ToSet(ordered) \subseteq Ports
    BY DEF CatalogInv, VisitShape, ToSet
  <1> QED BY <1>1 DEF CatalogInv, CatalogShape, StackShape, VisitShape, Visits, CatalogTypeOK

(* What the walks keep is what it should be, and no two calls in progress    *)
(* are for the same port, whatever the manifests say: a walk is never deeper *)
(* than there are ports.                                                     *)
THEOREM CatalogTyped == CatalogSpec => []CatalogTypeOK
  <1>1. CatalogInit => CatalogInv
    BY CatalogInitially
  <1>2. CatalogInv /\ [CatalogNext]_catalogVars => CatalogInv'
    BY CatalogInductive
  <1>3. CatalogInv => CatalogTypeOK
    BY InvIsTyped
  <1> QED BY <1>1, <1>2, <1>3, PTL DEF CatalogSpec

-----------------------------------------------------------------------------

(* The names the call at depth i, for port p, has been given to go through,  *)
(* and what is known of p: it is a port of the manifests its list is from.   *)
Items(i, p) ==
    CASE phase = "visit" -> IF i = 1 THEN ToSet(Order) ELSE ToSet(loaded.build[p])
      [] phase = "collect" -> IF i = 1 THEN ToSet(loaded.exec[p]) ELSE ToSet(ports.exec[p])
      [] phase = "build" -> IF i = 1 THEN {request.port}
                            ELSE IF i = 2 THEN ToSet(loaded.build[p]) ELSE ToSet(ports.build[p])
      [] phase = "bundle" -> IF i = 1 THEN ToSet(ordered) ELSE ToSet(ports.build[p])
      [] OTHER -> {}
Named(i, p) ==
    \/ i = 1 \/ phase = "visit" \/ (phase = "build" /\ i = 2)
    \/ p \in Names(ports)

(* A call is for a name in the list of the call it is made by, and has still *)
(* to go through a part of its own.                                          *)
FollowsAt(i) ==
    /\ Named(i, stack[i].port)
    /\ ToSet(stack[i].todo) \subseteq Items(i, stack[i].port)
    /\ i # Len(stack) => stack[i + 1].port \in Items(i, stack[i].port)
Following == \A i \in 1..Len(stack) : FollowsAt(i)

LEMMA FollowingStarts ==
    ASSUME NEW p, NEW todo, stack' = <<Frame(p, todo)>>, ToSet(todo) \subseteq Items(1, p)'
    PROVE  Following'
  <1>1. Len(stack') = 1 /\ stack'[1].port = p /\ stack'[1].todo = todo
    BY DEF Frame
  <1> QED BY <1>1 DEF Following, FollowsAt, Named

LEMMA FollowingPassed ==
    ASSUME CatalogInv, Following, stack # <<>>, HasChild, stack' = Passed,
           UNCHANGED <<loaded, ports, phase, request, ordered>>
    PROVE  Following'
  <1> DEFINE n == Len(stack)
  <1>1. stack \in Seq(Frames) /\ n \in Nat /\ n >= 1 /\ n \in 1..n
    BY DEF CatalogInv, StackShape
  <1>2. /\ Len(stack') = n
        /\ \A i \in 1..n : stack'[i].port = stack[i].port
        /\ \A i \in 1..n : i # n => stack'[i] = stack[i]
        /\ ToSet(stack'[n].todo) \subseteq ToSet(stack[n].todo)
    BY <1>1, PassIs
  <1>3. \A i, p : Items(i, p)' = Items(i, p) /\ (Named(i, p) => Named(i, p)')
    BY DEF Items, Named, Names
  <1>4. ASSUME NEW i \in 1..n PROVE FollowsAt(i)'
    <2>1. FollowsAt(i) /\ ToSet(stack'[i].todo) \subseteq ToSet(stack[i].todo)
      BY <1>2 DEF Following
    <2>2. i # n => i + 1 \in 1..n
      BY <1>1
    <2> QED BY <1>2, <1>3, <2>1, <2>2 DEF FollowsAt
  <1> QED BY <1>2, <1>4 DEF Following

LEMMA FollowingCall ==
    ASSUME CatalogInv, Following, stack # <<>>, HasChild,
           Child \in Ports, NEW todo \in Seq(Entries), Call(Child, todo),
           ToSet(todo) \subseteq Items(Len(stack) + 1, Child), Named(Len(stack) + 1, Child),
           UNCHANGED <<loaded, ports, phase, request, ordered>>
    PROVE  Following'
  <1> DEFINE n == Len(stack)
  <1>1. stack \in Seq(Frames) /\ n \in Nat /\ n >= 1 /\ n \in 1..n
    BY DEF CatalogInv, StackShape
  <1>2. /\ Len(stack') = n + 1
        /\ \A i \in 1..n : stack'[i].port = stack[i].port
        /\ \A i \in 1..n : i # n => stack'[i] = stack[i]
        /\ ToSet(stack[n].todo) = {Child} \cup ToSet(stack'[n].todo)
        /\ stack'[n + 1].port = Child /\ stack'[n + 1].todo = todo
    BY <1>1, CallIs
  <1>3. \A i, p : Items(i, p)' = Items(i, p) /\ (Named(i, p) => Named(i, p)')
    BY DEF Items, Named, Names
  <1>4. n + 1 \in 1..n + 1 /\ \A i \in 1..n + 1 : i # n + 1 => i \in 1..n
    BY <1>1
  <1>5. ASSUME NEW i \in 1..n PROVE FollowsAt(i)'
    <2>1. FollowsAt(i) /\ ToSet(stack'[i].todo) \subseteq ToSet(stack[i].todo)
      BY <1>2 DEF Following
    <2>2. stack'[i + 1].port \in Items(i, stack[i].port)
      <3>1. CASE i = n
        BY <1>2, <2>1, <3>1 DEF FollowsAt
      <3>2. CASE i # n
        <4>1. i + 1 \in 1..n
          BY <1>1, <3>2
        <4> QED BY <1>2, <2>1, <3>2, <4>1 DEF FollowsAt
      <3> QED BY <3>1, <3>2
    <2>3. i \in 1..n + 1
      BY <1>1
    <2> QED BY <1>2, <1>3, <2>1, <2>2, <2>3 DEF FollowsAt
  <1>6. ASSUME NEW i \in 1..n + 1, i = n + 1 PROVE FollowsAt(i)'
    BY <1>2, <1>3, <1>6 DEF FollowsAt
  <1> QED BY <1>2, <1>4, <1>5, <1>6 DEF Following

LEMMA FollowingReturn ==
    ASSUME CatalogInv, Following, InnerCall, Return,
           UNCHANGED <<loaded, ports, phase, request>>, phase = "bundle" => ordered' = ordered
    PROVE  Following'
  <1> DEFINE n == Len(stack)
  <1>1. stack \in Seq(Frames) /\ n \in Nat /\ n >= 2
    BY DEF CatalogInv, StackShape, InnerCall
  <1>2. Len(stack') = n - 1 /\ \A i \in 1..n - 1 : stack'[i] = stack[i]
    BY <1>1, ReturnIs
  <1>3. \A i, p : Items(i, p)' = Items(i, p) /\ (Named(i, p) => Named(i, p)')
    BY DEF Items, Named, Names
  <1>4. ASSUME NEW i \in 1..n - 1 PROVE FollowsAt(i)'
    <2>1. i \in 1..n /\ i # n /\ (i # n - 1 => i + 1 \in 1..n - 1)
      BY <1>1
    <2>2. FollowsAt(i)
      BY <2>1 DEF Following
    <2> QED BY <1>2, <1>3, <2>1, <2>2 DEF FollowsAt
  <1> QED BY <1>2, <1>4 DEF Following

-----------------------------------------------------------------------------

(* The chain of names in a message is that of the calls in progress, with    *)
(* the name that closes the circle.                                          *)
Mentioned == Entries \cup {NoPort}

LEMMA PutBehind ==
    ASSUME NEW S, NEW s \in Seq(S), NEW e \in S
    PROVE  /\ s \o <<e>> \in Seq(S) /\ Len(s \o <<e>>) = Len(s) + 1
           /\ \A i \in 1..Len(s) : (s \o <<e>>)[i] = s[i]
           /\ (s \o <<e>>)[Len(s) + 1] = e
  OBVIOUS

LEMMA PutInFront ==
    ASSUME NEW S, NEW s \in Seq(S), NEW e \in S
    PROVE  /\ <<e>> \o s \in Seq(S) /\ Len(<<e>> \o s) = Len(s) + 1
           /\ (<<e>> \o s)[1] = e
           /\ \A i \in 1..Len(s) : (<<e>> \o s)[i + 1] = s[i]
  OBVIOUS

LEMMA ChainIs ==
    ASSUME stack \in Seq(Frames), Len(stack) >= 1, NEW p \in Entries
    PROVE  /\ ChainTo(p) \in Seq(Mentioned) /\ Len(ChainTo(p)) = Len(stack)
           /\ \A i \in 1..Len(stack) - 1 : ChainTo(p)[i] = stack[i + 1].port
           /\ ChainTo(p)[Len(stack)] = p
  <1> DEFINE n == Len(stack)
             calls == [i \in 1..n - 1 |-> stack[i + 1].port]
  <1>1. n \in Nat /\ n - 1 \in Nat /\ n - 1 + 1 = n
    OBVIOUS
  <1>2. \A i \in 1..n - 1 : stack[i + 1].port \in Mentioned
    <2>1. \A j \in 1..n : stack[j].port \in Mentioned
      <3>1. \A frame \in Frames : frame.port \in Mentioned
        BY DEF Frames, Mentioned, Entries
      <3> QED BY <3>1
    <2>2. \A i \in 1..n - 1 : i + 1 \in 1..n
      BY <1>1
    <2> QED BY <2>1, <2>2
  <1>3. calls \in Seq(Mentioned) /\ Len(calls) = n - 1
    BY <1>1, <1>2
  <1>4. ChainTo(p) = calls \o <<p>> /\ p \in Mentioned
    BY DEF ChainTo, Mentioned
  <1>5. \A i \in 1..n - 1 : calls[i] = stack[i + 1].port
    OBVIOUS
  <1> HIDE DEF calls
  <1>6. /\ calls \o <<p>> \in Seq(Mentioned) /\ Len(calls \o <<p>>) = Len(calls) + 1
        /\ \A i \in 1..Len(calls) : (calls \o <<p>>)[i] = calls[i]
        /\ (calls \o <<p>>)[Len(calls) + 1] = p
    BY <1>3, <1>4, PutBehind, Zenon
  <1> QED BY <1>1, <1>3, <1>4, <1>5, <1>6

LEMMA ClosesIn ==
    ASSUME NEW S, NEW c \in Seq(S), NEW k \in 1..Len(c) - 1, c[k] = c[Len(c)]
    PROVE  Last(c) \in ToSet(Front(c))
  <1>1. Len(c) \in Nat /\ Len(c) - 1 \in Nat /\ Front(c) = [i \in 1..Len(c) - 1 |-> c[i]]
    BY DEF Front
  <1> QED BY <1>1 DEF Last, ToSet

Follows(p) ==
    ToSet(loaded.build[p]) \cup ToSet(loaded.exec[p])
       \cup IF p \in Names(ports) THEN ToSet(ports.build[p]) \cup ToSet(ports.exec[p]) ELSE {}

(* The name a call is at: that of the call it has made, or of the next one.  *)
At(i) == IF i = Len(stack) THEN Child ELSE stack[i + 1].port

LEMMA AtFollows ==
    ASSUME CatalogInv, Following, phase \in {"visit", "collect", "build", "bundle"}, HasChild,
           NEW i \in 1..Len(stack), i # 1 \/ phase = "collect"
    PROVE  At(i) \in Follows(stack[i].port)
  <1>1. phase \notin Ended \cup {"validate"}
    BY DEF Ended
  <1>2. Len(stack) \in 1..Len(stack) /\ Child \in ToSet(stack[Len(stack)].todo)
    BY <1>1, StackTyped
  <1>3. At(i) \in Items(i, stack[i].port) /\ Named(i, stack[i].port)
    BY <1>2 DEF At, Following, FollowsAt
  <1> QED BY <1>3 DEF Items, Named, Follows

LinksInv ==
    /\ Following
    /\ chain # <<>> => phase \in {"refused", "failed"}
    /\ CircleIsReal

(* The calls in progress are a circle when the innermost one is at the port  *)
(* of one of them.                                                           *)
LEMMA CircleCloses ==
    ASSUME CatalogInv, Following, phase \in {"visit", "collect", "build", "bundle"}, HasChild,
           Child \in Callers, UNCHANGED <<loaded, ports>>,
           chain' = (IF phase = "collect" THEN <<request.port>> ELSE <<>>) \o ChainTo(Child)
    PROVE  CircleIsReal'
  <1> DEFINE n == Len(stack)
             c == ChainTo(Child)
  <1>1. phase \notin Ended \cup {"validate"}
    BY DEF Ended
  <1>2. stack \in Seq(Frames) /\ n \in Nat /\ n >= 1 /\ Child \in Entries /\ n \in 1..n
    BY <1>1, StackTyped
  <1>3. /\ c \in Seq(Mentioned) /\ Len(c) = n /\ c[n] = Child
        /\ \A i \in 1..n - 1 : c[i] = stack[i + 1].port
    BY <1>2, ChainIs
  <1>4. PICK k \in 2..n : stack[k].port = Child
    BY DEF Callers
  <1>5. k - 1 \in 1..n - 1 /\ k - 1 + 1 = k /\ c[k - 1] = Child
    BY <1>2, <1>3, <1>4
  <1>6. \A i \in 1..n - 1 : c[i] = At(i)
    <2>1. \A i \in 1..n - 1 : i # n
      BY <1>2
    <2> QED BY <1>3, <2>1 DEF At
  <1>7. c[n] = At(n)
    BY <1>3 DEF At
  <1> HIDE DEF c
  <1>8. \A i \in 1..n : c[i] = At(i)
    BY <1>2, <1>6, <1>7
  <1>9. \A p : Follows(p)' = Follows(p)
    BY DEF Follows, Names
  <1>10. ASSUME NEW d, chain' = d,
                Last(d) \in ToSet(Front(d)),
                \A i \in 1..Len(d) - 1 : d[i + 1] \in Follows(d[i])
         PROVE  CircleIsReal'
    BY <1>9, <1>10 DEF CircleIsReal, Follows
  <1>11. CASE phase # "collect"
    <2>1. chain' = c
      BY <1>3, <1>11 DEF c
    <2>2. Last(c) \in ToSet(Front(c))
      BY <1>3, <1>5, ClosesIn
    <2>3. ASSUME NEW i \in 1..n - 1 PROVE c[i + 1] \in Follows(c[i])
      <3>1. i + 1 \in 1..n /\ i + 1 # 1
        BY <1>2
      <3>2. At(i + 1) \in Follows(stack[i + 1].port)
        BY <3>1, AtFollows
      <3> QED BY <1>3, <1>8, <3>1, <3>2
    <2> QED BY <1>3, <1>10, <2>1, <2>2, <2>3
  <1>12. CASE phase = "collect"
    <2> DEFINE d == <<request.port>> \o c
    <2>1. request.port \in Mentioned /\ stack[1].port = request.port
      BY <1>1, <1>12 DEF CatalogInv, CatalogShape, StackShape, Mentioned, Entries
    <2>2. d \in Seq(Mentioned) /\ Len(d) = n + 1 /\ d[1] = request.port
      <3> DEFINE root == request.port
      <3>1. root \in Mentioned /\ d = <<root>> \o c
        BY <2>1
      <3> HIDE DEF d, root
      <3>2. d \in Seq(Mentioned) /\ Len(d) = Len(c) + 1 /\ d[1] = root
        BY <1>3, <3>1, PutInFront, Zenon
      <3> QED BY <1>3, <3>2 DEF root
    <2>3. \A i \in 1..n : d[i + 1] = c[i]
      BY <1>3, <2>1, PutInFront
    <2>4. chain' = d
      BY <1>12 DEF c
    <2> HIDE DEF d
    <2>5. \A i \in 1..n : d[i] = stack[i].port
      <3> SUFFICES ASSUME NEW i \in 1..n, i # 1 PROVE d[i] = stack[i].port
        BY <2>1, <2>2
      <3>1. i - 1 \in 1..n - 1 /\ i - 1 \in 1..n /\ i - 1 + 1 = i
        BY <1>2
      <3> QED BY <1>3, <2>3, <3>1
    <2>6. d[k] = Child /\ d[n + 1] = Child /\ k \in 1..n
      BY <1>2, <1>3, <1>4, <2>3, <2>5
    <2>7. Last(d) \in ToSet(Front(d))
      <3>1. k \in 1..Len(d) - 1 /\ d[k] = d[Len(d)]
        BY <1>2, <2>2, <2>6
      <3> QED BY <2>2, <3>1, ClosesIn
    <2>8. ASSUME NEW i \in 1..n PROVE d[i + 1] \in Follows(d[i])
      BY <1>8, <1>12, <2>3, <2>5, AtFollows
    <2>9. Len(d) - 1 = n
      BY <1>2, <2>2
    <2> QED BY <1>10, <2>4, <2>7, <2>8, <2>9
  <1> QED BY <1>11, <1>12

LEMMA FollowingInductive ==
    ASSUME CatalogInv, Following, [CatalogNext]_catalogVars
    PROVE  Following'
  <1>1. ASSUME NEW how \in Ended, End(how) PROVE Following'
    BY <1>1 DEF End, Following
  <1>2. ASSUME Validate PROVE Following'
    <2>1. CASE End("refused")
      BY <1>1, <2>1 DEF Ended
    <2>2. CASE ~End("refused")
      <3>1. phase' = "visit" /\ stack' = <<Frame(NoPort, Order)>>
        BY <1>2, <2>2 DEF Validate
      <3> QED BY <3>1, FollowingStarts DEF Items
    <2> QED BY <2>1, <2>2
  <1>3. ASSUME Accept PROVE Following'
    <2>1. End("accepted") \/ End("refused")
      BY <1>3 DEF Accept
    <2> QED BY <1>1, <2>1 DEF Ended
  <1>4. ASSUME Enter PROVE Following'
    <2>1. phase \notin Ended \cup {"validate"} /\ phase \in {"visit", "collect"}
      BY <1>4 DEF Enter, Visits, Ended
    <2>2. /\ Child \in Ports /\ Lists[Child] \in Seq(Entries)
          /\ phase = "collect" => Child \in Names(ports)
      BY <1>4, EnteredIs DEF Enter
    <2>3. Len(stack) + 1 # 1 /\ stack # <<>>
      BY <2>1, StackTyped
    <2>4. Named(Len(stack) + 1, Child)
      BY <2>1, <2>2 DEF Named
    <2>5. ToSet(Lists[Child]) \subseteq Items(Len(stack) + 1, Child)
      BY <2>1, <2>3 DEF Items, Lists
    <2> QED BY <1>4, <2>2, <2>3, <2>4, <2>5, FollowingCall DEF Enter
  <1>5. ASSUME Unfit PROVE Following'
    BY <1>1, <1>5 DEF Unfit, Ended
  <1>6. ASSUME Again PROVE Following'
    <2>1. phase \notin Ended \cup {"validate"}
      BY <1>6 DEF Again, Visits, Ended
    <2> QED BY <1>6, <2>1, StackTyped, FollowingPassed DEF Again
  <1>7. ASSUME Circle PROVE Following'
    <2>1. End("refused") \/ End("failed")
      BY <1>7 DEF Circle
    <2> QED BY <1>1, <2>1 DEF Ended
  <1>8. ASSUME Leave PROVE Following'
    BY <1>8, FollowingReturn DEF Leave, Visits
  <1>9. ASSUME BuildPort PROVE Following'
    <2>1. phase \notin Ended \cup {"validate"} /\ phase \in {"build", "bundle"}
      BY <1>9 DEF BuildPort, Building, Ended
    <2>2. CASE stack' = Passed
      BY <1>9, <2>1, <2>2, StackTyped, FollowingPassed DEF BuildPort
    <2>3. CASE Call(Child, Manifest.build[Child])
      <3> DEFINE n == Len(stack)
      <3>1. n \in Nat /\ n >= 1 /\ stack # <<>> /\ n + 1 # 1 /\ (n + 1 = 2 <=> ~(n > 1))
        BY <2>1, StackTyped
      <3>2. CASE phase = "build" /\ ~InnerCall
        <4>1. Child \in Ports /\ loaded.build[Child] \in Seq(Entries)
          BY <1>9, <3>2, LoadedHasPorts DEF BuildPort, Manifest, CatalogInv
        <4>2. n + 1 = 2
          BY <3>1, <3>2 DEF InnerCall
        <4>3. Named(n + 1, Child) /\ ToSet(loaded.build[Child]) \subseteq Items(n + 1, Child)
          BY <3>2, <4>2 DEF Named, Items
        <4> HIDE DEF n
        <4> QED BY <1>9, <2>3, <3>1, <3>2, <4>1, <4>3, FollowingCall DEF BuildPort, Manifest, n
      <3>3. CASE ~(phase = "build" /\ ~InnerCall)
        <4>1. Child \in Names(ports) /\ Child \in Ports /\ ports.build[Child] \in Seq(Entries)
          BY <1>9, <3>3, LoadedHasPorts DEF BuildPort, Manifest, CatalogInv
        <4>2. phase = "build" => n + 1 # 2
          BY <3>1, <3>3 DEF InnerCall
        <4>3. Named(n + 1, Child) /\ ToSet(ports.build[Child]) \subseteq Items(n + 1, Child)
          BY <2>1, <3>1, <4>1, <4>2 DEF Named, Items
        <4> HIDE DEF n
        <4> QED BY <1>9, <2>3, <3>1, <3>3, <4>1, <4>3, FollowingCall DEF BuildPort, Manifest, n
      <3> QED BY <3>2, <3>3
    <2> QED BY <1>9, <2>2, <2>3 DEF BuildPort
  <1>10. ASSUME BuildUnknown PROVE Following'
    BY <1>1, <1>10 DEF BuildUnknown, Ended
  <1>11. ASSUME BuildCircle PROVE Following'
    BY <1>1, <1>11 DEF BuildCircle, Ended
  <1>12. ASSUME BuildDone PROVE Following'
    BY <1>12, FollowingReturn DEF BuildDone
  <1>13. ASSUME Built PROVE Following'
    <2>1. CASE End("built") \/ End("crashed")
      BY <1>1, <2>1 DEF Ended
    <2>2. CASE ~(End("built") \/ End("crashed"))
      <3>1. /\ phase' = "collect" /\ loaded' = loaded
            /\ stack' = <<Frame(request.port, loaded.exec[request.port])>>
        BY <1>13, <2>2 DEF Built
      <3> QED BY <3>1, FollowingStarts DEF Items
    <2> QED BY <2>1, <2>2
  <1>14. ASSUME Collected PROVE Following'
    BY <1>14, FollowingStarts DEF Collected, Items
  <1>15. ASSUME Bundle PROVE Following'
    <2>1. End("packaged") \/ End("failed")
      BY <1>15 DEF Bundle
    <2> QED BY <1>1, <2>1 DEF Ended
  <1>16. ASSUME NEW p \in Ports, NEW action \in {"build", "package"}, Begin(action, p)
         PROVE  Following'
    <2>1. ToSet(<<p>>) = {p}
      BY DEF ToSet
    <2> QED BY <1>16, <2>1, FollowingStarts DEF Begin, Items
  <1>17. CASE UNCHANGED catalogVars
    BY <1>17 DEF catalogVars, Following, FollowsAt, Items, Named, Names
  <1> QED
    BY <1>2, <1>3, <1>4, <1>5, <1>6, <1>7, <1>8, <1>9, <1>10, <1>11, <1>12,
       <1>13, <1>14, <1>15, <1>16, <1>17 DEF CatalogNext, Work

LEMMA LinksInductive ==
    ASSUME CatalogInv, LinksInv, [CatalogNext]_catalogVars
    PROVE  LinksInv'
  <1>1. Following'
    BY FollowingInductive DEF LinksInv
  <1>2. CASE Circle \/ BuildCircle
    <2>1. /\ phase \in {"visit", "collect", "build", "bundle"} /\ HasChild /\ Child \in Callers
          /\ UNCHANGED <<loaded, ports>>
      BY <1>2 DEF Circle, BuildCircle, Visits, Building, CatalogInv, VisitShape
    <2>2. chain' = (IF phase = "collect" THEN <<request.port>> ELSE <<>>) \o ChainTo(Child)
      <3>1. CASE Circle
        BY <3>1 DEF Circle, Visits
      <3>2. CASE BuildCircle
        <4>1. phase \notin Ended \cup {"validate"} /\ phase # "collect"
          BY <3>2 DEF BuildCircle, Building, Ended
        <4>2. ChainTo(Child) \in Seq(Mentioned)
          BY <3>2, <4>1, StackTyped, ChainIs DEF BuildCircle
        <4>3. <<>> \o ChainTo(Child) = ChainTo(Child)
          BY <4>2
        <4> QED BY <3>2, <4>1, <4>3 DEF BuildCircle
      <3> QED BY <1>2, <3>1, <3>2
    <2>3. CircleIsReal'
      BY <2>1, <2>2, CircleCloses DEF LinksInv
    <2>4. phase' \in {"refused", "failed"}
      BY <1>2 DEF Circle, BuildCircle, End
    <2> QED BY <1>1, <2>3, <2>4 DEF LinksInv
  <1>3. CASE UNCHANGED catalogVars
    BY <1>1, <1>3 DEF catalogVars, LinksInv, CircleIsReal, Names
  <1>4. CASE CatalogNext /\ ~(Circle \/ BuildCircle)
    <2>1. chain = <<>> /\ chain' = chain
      BY <1>4 DEF CatalogNext, Work, Validate, Accept, Enter, Unfit, Again, Leave, BuildPort,
             BuildUnknown, BuildDone, Built, Collected, Bundle, Begin, Visits, Building,
             LinksInv
    <2>2. CircleIsReal'
      BY <2>1 DEF CircleIsReal
    <2> QED BY <1>1, <2>1, <2>2 DEF LinksInv
  <1> QED BY <1>2, <1>3, <1>4

(* A circle that is reported is one.                                         *)
THEOREM CircleReal == CatalogSpec => []CircleIsReal
  <1>1. CatalogInit => CatalogInv /\ LinksInv
    <2> SUFFICES ASSUME CatalogInit PROVE CatalogInv /\ LinksInv
      OBVIOUS
    <2>1. Following /\ chain = <<>> /\ CircleIsReal
      BY DEF CatalogInit, Following, CircleIsReal
    <2> QED BY <2>1, CatalogInitially DEF LinksInv
  <1>2. CatalogInv /\ LinksInv /\ [CatalogNext]_catalogVars => CatalogInv' /\ LinksInv'
    BY CatalogInductive, LinksInductive
  <1>3. LinksInv => CircleIsReal
    BY DEF LinksInv
  <1> QED BY <1>1, <1>2, <1>3, PTL DEF CatalogSpec

-----------------------------------------------------------------------------

(* What can be reached has the roots, is closed, and is part of every set    *)
(* that has the roots and is closed.                                         *)
LEMMA ReachesRoots ==
    ASSUME NEW lists, NEW roots, NEW q \in roots \cap Ports
    PROVE  q \in Reachable(lists, roots)
  BY DEF Reachable

LEMMA ReachesOn ==
    ASSUME NEW lists, NEW roots, NEW p \in Reachable(lists, roots), p \in DOMAIN lists,
           NEW q \in ToSet(lists[p]) \cap Ports
    PROVE  q \in Reachable(lists, roots)
  BY DEF Reachable, Closed

LEMMA ReachesNoMore ==
    ASSUME NEW lists, NEW roots, NEW S \in SUBSET Ports,
           roots \cap Ports \subseteq S, Closed(S, lists)
    PROVE  Reachable(lists, roots) \subseteq S
  BY DEF Reachable

(* While ports are visited: what a call has gone through is visited, but for *)
(* the port of the call it has made; what is visited is closed.              *)
Made(i) == IF i = Len(stack) THEN {} ELSE {stack[i + 1].port}
WalkedAt(i) ==
    Items(i, stack[i].port) \subseteq ToSet(stack[i].todo) \cup visited \cup Made(i)
WalkInv ==
    Visits =>
       /\ visited \cap visiting = {}
       /\ \A i \in 1..Len(stack) : WalkedAt(i)
       /\ \A p \in visited : ToSet(Lists[p]) \subseteq visited

(* The innermost call is through with its list.                              *)
LEMMA InnermostIsThrough ==
    ASSUME CatalogInv, Following, WalkInv, Visits, ~HasChild
    PROVE  /\ Items(Len(stack), Innermost.port) \subseteq visited
           /\ Len(stack) \in Nat /\ Len(stack) >= 1 /\ Innermost = stack[Len(stack)]
           /\ InnerCall => ToSet(Lists[Innermost.port]) \subseteq visited
           /\ InnerCall /\ phase = "collect" => Innermost.port \in Names(ports)
           /\ InnerCall => Innermost.port \in visiting /\ Innermost.port \notin visited
  <1> DEFINE n == Len(stack)
  <1>1. phase \notin Ended \cup {"validate"} /\ phase \in {"visit", "collect"}
    BY DEF Visits, Ended
  <1>2. n \in Nat /\ n >= 1 /\ n \in 1..n /\ Innermost = stack[n]
    BY <1>1, StackTyped
  <1>3. stack[n].todo = <<>>
    BY <1>2 DEF HasChild
  <1>4. ToSet(stack[n].todo) = {}
    BY <1>3 DEF ToSet
  <1>5. Items(n, Innermost.port) \subseteq visited
    BY <1>2, <1>4 DEF WalkInv, WalkedAt, Made
  <1>6. ASSUME InnerCall
        PROVE  /\ ToSet(Lists[Innermost.port]) \subseteq visited
               /\ phase = "collect" => Innermost.port \in Names(ports)
               /\ Innermost.port \in visiting /\ Innermost.port \notin visited
    <2>1. n # 1 /\ n \in 2..n
      BY <1>2, <1>6 DEF InnerCall
    <2>2. ToSet(Lists[Innermost.port]) = Items(n, Innermost.port)
      BY <1>1, <2>1 DEF Items, Lists
    <2>3. phase = "collect" => Innermost.port \in Names(ports)
      BY <1>2, <2>1 DEF Following, FollowsAt, Named
    <2>4. Innermost.port \in Callers
      BY <1>2, <2>1 DEF Callers
    <2> QED BY <1>5, <2>2, <2>3, <2>4 DEF WalkInv, CatalogInv, VisitShape
  <1> QED BY <1>2, <1>5, <1>6

LEMMA WalkInductive ==
    ASSUME CatalogInv, Following, WalkInv, [CatalogNext]_catalogVars
    PROVE  WalkInv'
  <1> DEFINE n == Len(stack)
  <1>1. CASE Enter
    <2>1. phase \notin Ended \cup {"validate"} /\ phase \in {"visit", "collect"}
      BY <1>1 DEF Enter, Visits, Ended
    <2>2. stack \in Seq(Frames) /\ stack # <<>> /\ n \in Nat /\ n >= 1 /\ n \in 1..n
      BY <2>1, StackTyped
    <2>3. Child \in Ports /\ Lists[Child] \in Seq(Entries)
      BY <1>1, EnteredIs DEF Enter
    <2>4. /\ Len(stack') = n + 1
          /\ \A i \in 1..n : stack'[i].port = stack[i].port
          /\ \A i \in 1..n : i # n => stack'[i] = stack[i]
          /\ ToSet(stack[n].todo) = {Child} \cup ToSet(stack'[n].todo)
          /\ stack'[n + 1].port = Child /\ stack'[n + 1].todo = Lists[Child]
      BY <1>1, <2>2, <2>3, CallIs DEF Enter
    <2>5. \A i, p : Items(i, p)' = Items(i, p)
      BY <1>1, <2>1 DEF Enter, Items
    <2>6. ASSUME NEW i \in 1..n PROVE WalkedAt(i)'
      <3>1. WalkedAt(i) /\ i # n + 1 /\ (i # n => i + 1 \in 1..n)
        BY <1>1, <2>2 DEF Enter, WalkInv
      <3> QED BY <1>1, <2>4, <2>5, <3>1 DEF Enter, WalkedAt, Made
    <2>7. ASSUME NEW i \in 1..n + 1, i = n + 1 PROVE WalkedAt(i)'
      <3>1. Items(i, Child) \subseteq ToSet(Lists[Child])
        BY <2>1, <2>2, <2>7 DEF Items, Lists
      <3> QED BY <2>4, <2>5, <2>7, <3>1 DEF WalkedAt
    <2>8. \A i \in 1..n + 1 : i = n + 1 \/ i \in 1..n
      BY <2>2
    <2>9. \A i \in 1..Len(stack') : WalkedAt(i)'
      BY <2>4, <2>6, <2>7, <2>8
    <2>10. Lists' = Lists /\ Visits
      BY <1>1, <2>1 DEF Enter, Lists
    <2> QED BY <1>1, <2>9, <2>10 DEF Enter, WalkInv
  <1>2. CASE Again
    <2>1. phase \notin Ended \cup {"validate"} /\ phase \in {"visit", "collect"}
      BY <1>2 DEF Again, Visits, Ended
    <2>2. stack \in Seq(Frames) /\ stack # <<>> /\ n \in Nat /\ n >= 1 /\ n \in 1..n
      BY <2>1, StackTyped
    <2>3. /\ Len(stack') = n
          /\ \A i \in 1..n : stack'[i].port = stack[i].port
          /\ \A i \in 1..n : i # n => stack'[i] = stack[i]
          /\ ToSet(stack[n].todo) = {Child} \cup ToSet(stack'[n].todo)
      BY <1>2, <2>2, PassIs DEF Again
    <2>4. \A i, p : Items(i, p)' = Items(i, p)
      BY <1>2, <2>1 DEF Again, Items
    <2>5. ASSUME NEW i \in 1..n PROVE WalkedAt(i)'
      <3>1. WalkedAt(i) /\ (i # n => i + 1 \in 1..n)
        BY <1>2, <2>2 DEF Again, WalkInv
      <3> QED BY <1>2, <2>3, <2>4, <3>1 DEF Again, WalkedAt, Made
    <2>6. Lists' = Lists /\ Visits
      BY <1>2, <2>1 DEF Again, Lists
    <2> QED BY <1>2, <2>3, <2>5, <2>6 DEF Again, WalkInv
  <1>3. CASE Leave
    <2>1. phase \notin Ended \cup {"validate"} /\ phase \in {"visit", "collect"}
      BY <1>3 DEF Leave, Visits, Ended
    <2>2. stack \in Seq(Frames) /\ stack # <<>> /\ n \in Nat /\ n > 1 /\ Innermost = stack[n]
      BY <1>3, <2>1, StackTyped DEF Leave, InnerCall
    <2>3. Len(stack') = n - 1 /\ \A i \in 1..n - 1 : stack'[i] = stack[i]
      BY <1>3, <2>2, ReturnIs DEF Leave
    <2>4. \A i, p : Items(i, p)' = Items(i, p)
      BY <1>3, <2>1 DEF Leave, Items
    <2>5. ASSUME NEW i \in 1..n - 1 PROVE WalkedAt(i)'
      <3>1. WalkedAt(i) /\ i # n /\ (i # n - 1 => i + 1 \in 1..n - 1) /\ (i = n - 1 => i + 1 = n)
        BY <1>3, <2>2 DEF Leave, WalkInv
      <3>2. visited' = visited \cup {stack[n].port}
        BY <1>3, <2>2 DEF Leave
      <3> QED BY <2>3, <2>4, <3>1, <3>2 DEF WalkedAt, Made
    <2>6. Lists' = Lists
      BY <1>3, <2>1 DEF Leave, Lists
    <2>7. ToSet(Lists[Innermost.port]) \subseteq visited
      BY <1>3, InnermostIsThrough DEF Leave
    <2> QED BY <1>3, <2>3, <2>5, <2>6, <2>7 DEF Leave, WalkInv
  <1>4. CASE Validate
    <2>1. CASE End("refused")
      BY <2>1 DEF End, WalkInv, Visits
    <2>2. CASE ~End("refused")
      <3>1. /\ phase' = "visit" /\ stack' = <<Frame(NoPort, Order)>>
            /\ visited = {} /\ visited' = {}
        BY <1>4, <2>2 DEF Validate, CatalogInv, VisitShape
      <3>2. Len(stack') = 1 /\ stack'[1].todo = Order
        BY <3>1 DEF Frame
      <3> QED BY <3>1, <3>2 DEF WalkInv, WalkedAt, Items
    <2> QED BY <2>1, <2>2
  <1>5. CASE Built
    <2>1. CASE phase' = "collect"
      <3>1. /\ stack' = <<Frame(request.port, loaded.exec[request.port])>>
            /\ loaded' = loaded /\ visited = {} /\ visited' = {}
        BY <1>5, <2>1 DEF Built, End, CatalogInv, VisitShape
      <3>2. /\ Len(stack') = 1 /\ stack'[1].port = request.port
            /\ stack'[1].todo = loaded.exec[request.port]
        BY <3>1 DEF Frame
      <3> QED BY <2>1, <3>1, <3>2 DEF WalkInv, WalkedAt, Items
    <2>2. CASE phase' # "collect"
      BY <1>5, <2>2 DEF Built, End, WalkInv, Visits
    <2> QED BY <2>1, <2>2
  <1>6. CASE UNCHANGED catalogVars
    BY <1>6 DEF catalogVars, WalkInv, Visits, WalkedAt, Made, Items, Lists
  <1>7. CASE CatalogNext /\ ~(Enter \/ Again \/ Leave \/ Validate \/ Built)
    <2>1. ~Visits'
      BY <1>7 DEF CatalogNext, Work, Accept, Unfit, Circle, BuildPort, BuildUnknown, BuildCircle,
             BuildDone, Collected, Bundle, Begin, End, Visits, Building
    <2> QED BY <2>1 DEF WalkInv
  <1> QED BY <1>1, <1>2, <1>3, <1>4, <1>5, <1>6, <1>7

-----------------------------------------------------------------------------

(* What is visited, and nothing else, is what a port done with can reach, so *)
(* that the port itself is not.                                              *)
VisitedIsAcyclic == phase = "visit" => \A p \in visited : ~Circular(loaded.build, p)

LEMMA VisitedClosed ==
    ASSUME CatalogInv, WalkInv, Visits
    PROVE  visited \in SUBSET Ports /\ Closed(visited, Lists)
  BY DEF CatalogInv, VisitShape, WalkInv, Closed

LEMMA AcyclicInductive ==
    ASSUME CatalogInv, Following, WalkInv, VisitedIsAcyclic, AcceptedIsAcyclic,
           [CatalogNext]_catalogVars
    PROVE  VisitedIsAcyclic' /\ AcceptedIsAcyclic'
  <1>1. loaded' = loaded
    BY DEF CatalogNext, Work, Validate, Accept, Enter, Unfit, Again, Circle, Leave, BuildPort,
           BuildUnknown, BuildCircle, BuildDone, Built, Collected, Bundle, Begin, catalogVars
  <1>2. \A p : Circular(loaded.build, p)' <=> Circular(loaded.build, p)
    BY <1>1 DEF Circular, Reachable, Closed
  <1>3. CASE Leave /\ phase = "visit"
    <2>1. /\ ToSet(Lists[Innermost.port]) \subseteq visited /\ Innermost.port \notin visited
          /\ visited \cap visiting = {}
      BY <1>3, InnermostIsThrough DEF Leave, WalkInv
    <2>2. Lists = loaded.build
      BY <1>3 DEF Lists
    <2>3. Reachable(loaded.build, ToSet(loaded.build[Innermost.port])) \subseteq visited
      BY <1>3, <2>1, <2>2, VisitedClosed, ReachesNoMore DEF Leave
    <2>4. ~Circular(loaded.build, Innermost.port)
      BY <2>1, <2>3 DEF Circular
    <2> QED BY <1>2, <1>3, <2>4 DEF Leave, VisitedIsAcyclic, AcceptedIsAcyclic
  <1>4. CASE Accept
    <2>1. Visits /\ ~HasChild /\ phase = "visit" /\ ~InnerCall
      BY <1>4 DEF Accept, Visits
    <2>2. Items(1, Innermost.port) \subseteq visited
      <3>1. Len(stack) = 1
        BY <2>1, InnermostIsThrough, OneOrMore DEF InnerCall
      <3> QED BY <2>1, <3>1, InnermostIsThrough
    <2>3. Ports \subseteq visited
      BY <2>1, <2>2, OrderAssumption DEF Items
    <2>4. \A p \in Ports : ~Circular(loaded.build, p)
      BY <2>1, <2>3 DEF VisitedIsAcyclic
    <2> QED BY <1>2, <1>4, <2>4 DEF Accept, End, VisitedIsAcyclic, AcceptedIsAcyclic
  <1>5. CASE Validate
    BY <1>5 DEF Validate, End, CatalogInv, VisitShape, VisitedIsAcyclic, AcceptedIsAcyclic
  <1>6. CASE Enter \/ Again \/ (Leave /\ phase # "visit")
    BY <1>2, <1>6 DEF Enter, Again, Leave, Visits, VisitedIsAcyclic, AcceptedIsAcyclic
  <1>7. CASE Circle \/ Unfit
    BY <1>2, <1>7 DEF Circle, Unfit, End, Visits, Fit, VisitedIsAcyclic, AcceptedIsAcyclic
  <1>8. CASE UNCHANGED catalogVars
    BY <1>2, <1>8 DEF catalogVars, VisitedIsAcyclic, AcceptedIsAcyclic
  <1>9. CASE CatalogNext /\ ~(Leave \/ Accept \/ Validate \/ Enter \/ Again \/ Circle \/ Unfit)
    <2>1. phase \notin {"validate", "visit", "refused"} /\ phase' # "visit"
      BY <1>9 DEF CatalogNext, Work, BuildPort, BuildUnknown, BuildCircle,
             BuildDone, Built, Collected, Bundle, Begin, End, Building
    <2> QED BY <1>2, <2>1 DEF VisitedIsAcyclic, AcceptedIsAcyclic
  <1> QED BY <1>3, <1>4, <1>5, <1>6, <1>7, <1>8, <1>9

WalksInv == CatalogInv /\ Following /\ WalkInv

LEMMA WalksInitially == CatalogInit => WalksInv
  <1> SUFFICES ASSUME CatalogInit PROVE WalksInv
    OBVIOUS
  <1>1. Following /\ WalkInv
    BY DEF CatalogInit, Following, WalkInv, Visits
  <1> QED BY <1>1, CatalogInitially DEF WalksInv

LEMMA WalksInductive == WalksInv /\ [CatalogNext]_catalogVars => WalksInv'
  BY CatalogInductive, FollowingInductive, WalkInductive DEF WalksInv

(* A catalog that main accepts has no circle of build dependencies.          *)
THEOREM AcceptedAcyclic == CatalogSpec => []AcceptedIsAcyclic
  <1> DEFINE Inv == WalksInv /\ VisitedIsAcyclic /\ AcceptedIsAcyclic
  <1>1. CatalogInit => Inv
    BY WalksInitially DEF CatalogInit, VisitedIsAcyclic, AcceptedIsAcyclic
  <1>2. Inv /\ [CatalogNext]_catalogVars => Inv'
    BY WalksInductive, AcyclicInductive DEF WalksInv
  <1> QED BY <1>1, <1>2, PTL DEF CatalogSpec

-----------------------------------------------------------------------------

(* While the bundle is collected: the list is of the ports visited, each     *)
(* once and after those it executes, and they are executed by the port that  *)
(* was asked for.                                                            *)
Arranged ==
    /\ IsInjective(ordered)
    /\ \A i, j \in DOMAIN ordered :
          ordered[j] \in ToSet(ports.exec[ordered[i]]) => j < i
CollectInv ==
    phase = "collect" =>
       /\ ToSet(ordered) = visited /\ Arranged
       /\ visited \cup visiting \subseteq Executed

(* The next child is executed by the port that was asked for.                *)
LEMMA ChildIsExecuted ==
    ASSUME CatalogInv, Following, CollectInv, phase = "collect", HasChild, Child \in Ports
    PROVE  Child \in Executed
  <1> DEFINE n == Len(stack)
  <1>1. phase \notin Ended \cup {"validate"}
    BY DEF Ended
  <1>2. n \in Nat /\ n >= 1 /\ n \in 1..n /\ Child \in ToSet(stack[n].todo)
    BY <1>1, StackTyped
  <1>3. Child \in Items(n, stack[n].port) /\ Named(n, stack[n].port)
    BY <1>2 DEF Following, FollowsAt
  <1>4. CASE n = 1
    <2>1. stack[n].port = request.port
      BY <1>1, <1>4 DEF CatalogInv, StackShape
    <2>2. Child \in ToSet(loaded.exec[request.port]) \cap Ports
      BY <1>3, <1>4, <2>1 DEF Items
    <2> QED BY <2>2, ReachesRoots DEF Executed
  <1>5. CASE n # 1
    <2>1. n \in 2..n
      BY <1>2, <1>5, OneOrMore
    <2>2. stack[n].port \in visiting
      BY <2>1 DEF CatalogInv, VisitShape, Visits, Callers
    <2>3. stack[n].port \in DOMAIN ports.exec
      BY <1>3, <1>5, LoadedHasPorts DEF Named, CatalogInv
    <2>4. Child \in ToSet(ports.exec[stack[n].port]) \cap Ports
      BY <1>3, <1>5 DEF Items
    <2>5. stack[n].port \in Executed
      BY <2>2 DEF CollectInv
    <2> QED BY <2>3, <2>4, <2>5, ReachesOn DEF Executed
  <1> QED BY <1>4, <1>5

(* A port is put behind all that it executes.                                *)
LEMMA ArrangedBehind ==
    ASSUME ordered \in Seq(Ports), Arranged, NEW p \in Ports, p \notin ToSet(ordered),
           ToSet(ports.exec[p]) \subseteq ToSet(ordered),
           \A q \in ToSet(ordered) : ToSet(ports.exec[q]) \subseteq ToSet(ordered),
           ordered' = Append(ordered, p), ports' = ports
    PROVE  Arranged' /\ ToSet(ordered)' = ToSet(ordered) \cup {p}
  <1> DEFINE n == Len(ordered)
  <1>1. /\ n \in Nat /\ DOMAIN ordered = 1..n /\ DOMAIN ordered' = 1..n + 1
        /\ \A i \in 1..n : ordered'[i] = ordered[i]
        /\ ordered'[n + 1] = p /\ n + 1 \notin 1..n
    OBVIOUS
  <1>2. 1..n + 1 = 1..n \cup {n + 1} /\ \A i \in 1..n : i < n + 1
    BY <1>1
  <1>3. \A i \in 1..n : ordered[i] \in ToSet(ordered)
    BY <1>1 DEF ToSet
  <1>4. ToSet(ordered') = ToSet(ordered) \cup {p}
    BY <1>1, <1>2 DEF ToSet
  <1>5. IsInjective(ordered')
    BY <1>1, <1>2, <1>3 DEF Arranged, IsInjective
  <1>6. ASSUME NEW i \in 1..n + 1, NEW j \in 1..n + 1,
               ordered'[j] \in ToSet(ports.exec[ordered'[i]])
        PROVE  j < i
    <2>1. CASE i = n + 1
      BY <1>1, <1>2, <1>6, <2>1
    <2>2. CASE i \in 1..n
      BY <1>1, <1>2, <1>3, <1>6, <2>2 DEF Arranged
    <2> QED BY <1>2, <2>1, <2>2
  <1> QED BY <1>1, <1>4, <1>5, <1>6 DEF Arranged

LEMMA CollectInductive ==
    ASSUME CatalogInv, Following, WalkInv, CollectInv, BundleIsClosure, [CatalogNext]_catalogVars
    PROVE  CollectInv' /\ BundleIsClosure'
  <1>1. CASE Enter
    <2>1. phase = "collect" => Child \in Executed
      BY <1>1, EnteredIs, ChildIsExecuted DEF Enter
    <2>2. Executed' = Executed
      BY <1>1 DEF Enter, Executed, Reachable, Closed
    <2> QED BY <1>1, <2>1, <2>2 DEF Enter, Visits, CollectInv, Arranged, BundleIsClosure
  <1>2. CASE Again
    <2>1. Executed' = Executed
      BY <1>2 DEF Again, Executed, Reachable, Closed
    <2> QED BY <1>2, <2>1 DEF Again, Visits, CollectInv, Arranged, BundleIsClosure
  <1>3. CASE Leave
    <2>1. Executed' = Executed
      BY <1>3 DEF Leave, Executed, Reachable, Closed
    <2>2. CASE phase # "collect"
      BY <1>3, <2>2 DEF Leave, Visits, CollectInv, BundleIsClosure
    <2>3. CASE phase = "collect"
      <3>1. /\ Innermost.port \in visiting /\ Innermost.port \notin visited
            /\ ToSet(ports.exec[Innermost.port]) \subseteq visited
        BY <1>3, <2>3, InnermostIsThrough DEF Leave, Lists
      <3>2. Innermost.port \in Ports
        BY <2>3, <3>1 DEF CatalogInv, VisitShape, StackShape, Visits, Callers
      <3>3. \A q \in visited : ToSet(ports.exec[q]) \subseteq visited
        BY <2>3 DEF WalkInv, Visits, Lists
      <3>4. Arranged' /\ ToSet(ordered)' = ToSet(ordered) \cup {Innermost.port}
        <4> DEFINE p == Innermost.port
        <4>1. /\ ordered \in Seq(Ports) /\ Arranged /\ p \in Ports /\ p \notin ToSet(ordered)
              /\ ToSet(ports.exec[p]) \subseteq ToSet(ordered)
              /\ \A q \in ToSet(ordered) : ToSet(ports.exec[q]) \subseteq ToSet(ordered)
              /\ ordered' = Append(ordered, p) /\ ports' = ports
          BY <1>3, <2>3, <3>1, <3>2, <3>3 DEF Leave, CollectInv, CatalogInv, VisitShape
        <4> HIDE DEF p
        <4> QED BY <4>1, ArrangedBehind DEF p
      <3> QED BY <1>3, <2>1, <2>3, <3>1, <3>4 DEF Leave, CollectInv, BundleIsClosure
    <2> QED BY <2>2, <2>3
  <1>4. CASE Built
    <2>1. CASE phase' = "collect"
      <3>1. phase = "build" /\ UNCHANGED <<visited, ordered, visiting>>
        BY <1>4, <2>1 DEF Built, End
      <3>2. ordered = <<>> /\ visited = {} /\ visiting = {}
        BY <3>1 DEF CatalogInv, VisitShape, Visits
      <3>3. ToSet(ordered') = {} /\ DOMAIN ordered' = {}
        BY <3>1, <3>2 DEF ToSet
      <3> QED BY <2>1, <3>1, <3>2, <3>3 DEF CollectInv, Arranged, IsInjective, BundleIsClosure
    <2>2. CASE phase' # "collect"
      BY <1>4, <2>2 DEF Built, End, CollectInv, BundleIsClosure
    <2> QED BY <2>1, <2>2
  <1>5. CASE Collected
    <2>1. Visits /\ ~HasChild /\ phase = "collect" /\ ~InnerCall
      BY <1>5 DEF Collected, Visits
    <2>2. Len(stack) = 1 /\ Innermost = stack[1] /\ Items(1, Innermost.port) \subseteq visited
      <3>1. Len(stack) = 1
        BY <2>1, InnermostIsThrough, OneOrMore DEF InnerCall
      <3> QED BY <2>1, <3>1, InnermostIsThrough
    <2>3. stack # <<>>
      BY <2>2
    <2>4. Innermost.port = request.port
      BY <2>1, <2>2, <2>3 DEF CatalogInv, StackShape
    <2>5. ToSet(loaded.exec[request.port]) \subseteq visited
      BY <2>1, <2>2, <2>4 DEF Items
    <2>6. Lists = ports.exec
      BY <2>1 DEF Lists
    <2>7. Executed \subseteq visited
      BY <2>1, <2>5, <2>6, VisitedClosed, ReachesNoMore DEF Executed
    <2>8. ToSet(ordered) = Executed /\ Arranged
      BY <2>1, <2>7 DEF CollectInv
    <2>9. Executed' = Executed
      BY <1>5 DEF Collected, Executed, Reachable, Closed
    <2> QED BY <1>5, <2>8, <2>9 DEF Collected, CollectInv, BundleIsClosure, Arranged
  <1>6. CASE (BuildPort \/ BuildDone) \/ UNCHANGED catalogVars
    <2>1. /\ UNCHANGED <<loaded, ports, phase, request, ordered, visited>>
          /\ phase = "collect" => visiting' = visiting
      BY <1>6 DEF BuildPort, BuildDone, Building, catalogVars
    <2>2. Executed' = Executed
      BY <2>1 DEF Executed, Reachable, Closed
    <2> QED BY <2>1, <2>2 DEF CollectInv, Arranged, BundleIsClosure
  <1>7. CASE CatalogNext /\ ~(Enter \/ Again \/ Leave \/ Built \/ Collected \/ BuildPort \/ BuildDone)
    <2>1. phase' \notin {"collect", "bundle"}
      BY <1>7 DEF CatalogNext, Work, Validate, Accept, Unfit, Circle, BuildUnknown, BuildCircle,
             Bundle, Begin, End, Visits
    <2> QED BY <2>1 DEF CollectInv, BundleIsClosure
  <1> QED BY <1>1, <1>2, <1>3, <1>4, <1>5, <1>6, <1>7

(* A bundle is made of exactly the ports that are executed, each once and    *)
(* after those it executes itself.                                           *)
THEOREM BundleClosed == CatalogSpec => []BundleIsClosure
  <1> DEFINE Inv == WalksInv /\ CollectInv /\ BundleIsClosure
  <1>1. CatalogInit => Inv
    BY WalksInitially DEF CatalogInit, CollectInv, BundleIsClosure
  <1>2. Inv /\ [CatalogNext]_catalogVars => Inv'
    BY WalksInductive, CollectInductive DEF WalksInv
  <1> QED BY <1>1, <1>2, PTL DEF CatalogSpec

-----------------------------------------------------------------------------

LEMMA LoadedStays == ASSUME [CatalogNext]_catalogVars PROVE loaded' = loaded
  BY DEF CatalogNext, Work, Validate, Accept, Enter, Unfit, Again, Circle, Leave, BuildPort,
         BuildUnknown, BuildCircle, BuildDone, Built, Collected, Bundle, Begin, catalogVars

(* What load_batches finds of the flattened batches holds of the batches.    *)
LEMMA BatchesAre ==
    ASSUME CatalogInv, load_batches(loaded)
    PROVE  LET batches == loaded.batches
           IN /\ UNION {ToSet(batches[i]) : i \in DOMAIN batches} = Visible(loaded)
              /\ \A i \in DOMAIN batches : IsInjective(batches[i])
              /\ \A i, j \in DOMAIN batches :
                    i # j => ToSet(batches[i]) \cap ToSet(batches[j]) = {}
  <1> DEFINE batches == loaded.batches
             T == Ports \cup Unknown
  <1>1. batches \in Seq(Seq(T))
    BY LoadedHasPorts DEF CatalogInv, IsCatalog
  <1>2. DOMAIN batches = 1..Len(batches)
    BY <1>1
  <1>3. /\ ToSet(FlattenSeq(batches)) = Visible(loaded)
        /\ IsInjective(FlattenSeq(batches))
    BY DEF load_batches
  <1> HIDE DEF batches, T
  <1>4. /\ ToSet(FlattenSeq(batches)) = UNION {ToSet(batches[i]) : i \in 1..Len(batches)}
        /\ IsInjective(FlattenSeq(batches)) <=> Apart(batches, Len(batches))
    BY <1>1, FlattenSeqIs
  <1> QED BY <1>2, <1>3, <1>4 DEF Apart, batches

(* The batches main accepts have every user-visible port once, and no other. *)
THEOREM BatchesExact == CatalogSpec => []BatchesAreExact
  <1>1. CatalogInit => CatalogInv /\ BatchesAreExact
    BY CatalogInitially DEF CatalogInit, BatchesAreExact
  <1>2. ASSUME CatalogInv, BatchesAreExact, [CatalogNext]_catalogVars
        PROVE  BatchesAreExact'
    <2>1. loaded' = loaded
      BY <1>2, LoadedStays
    <2>2. CASE Accept
      <3>1. CASE load_batches(loaded)
        BY <1>2, <2>1, <3>1, BatchesAre DEF BatchesAreExact, Visible, Names, user_visible
      <3>2. CASE ~load_batches(loaded)
        BY <2>2, <3>2 DEF Accept, End, BatchesAreExact
      <3> QED BY <3>1, <3>2
    <2>3. CASE ~Accept
      <3>1. phase' \notin {"validate", "visit", "refused"}
               => phase \notin {"validate", "visit", "refused"}
        BY <1>2, <2>3 DEF CatalogNext, Work, Validate, Enter, Unfit, Again, Circle, Leave,
               BuildPort, BuildUnknown, BuildCircle, BuildDone, Built, Collected, Bundle, Begin,
               catalogVars, End, Visits, Fit, Building
      <3> QED BY <1>2, <2>1, <3>1 DEF BatchesAreExact, Visible, Names, user_visible
    <2> QED BY <2>2, <2>3
  <1>3. CatalogInv /\ BatchesAreExact /\ [CatalogNext]_catalogVars => (CatalogInv /\ BatchesAreExact)'
    BY <1>2, CatalogInductive
  <1> QED BY <1>1, <1>3, PTL DEF CatalogSpec

-----------------------------------------------------------------------------

(* What validation has found; what was asked for; and, if the manifests are  *)
(* those main accepted, that each call in progress is for a port the callers *)
(* can reach.                                                                *)
Validated ==
    phase \notin {"validate", "refused"} =>
       /\ Known(loaded) /\ OneOwner(loaded)
       /\ \A p \in Names(loaded) : validate_port(loaded, p)
RequestInv ==
    /\ phase \in {"build", "collect", "bundle"} => request.action \in {"build", "package"}
    /\ phase \in {"collect", "bundle"} => request.action = "package"
Walked == IF phase = "collect" THEN loaded.exec ELSE loaded.build
Below(p) == Reachable(Walked, ToSet(Walked[p]))
Nested ==
    ports = loaded =>
       \A i, j \in 2..Len(stack) : i < j => stack[j].port \in Below(stack[i].port)

LEMMA ChildIsBelow ==
    ASSUME WalksInv, Nested, ports = loaded, phase \in {"visit", "collect", "build", "bundle"},
           HasChild, Child \in Ports, NEW i \in 2..Len(stack)
    PROVE  Child \in Below(stack[i].port)
  <1> DEFINE n == Len(stack)
  <1> USE DEF WalksInv
  <1>1. phase \notin Ended \cup {"validate"}
    BY DEF Ended
  <1>2. n \in Nat /\ n >= 1 /\ n \in 1..n /\ Child \in ToSet(stack[n].todo)
    BY <1>1, StackTyped
  <1>3. n \in 2..n /\ n # 1 /\ (i # n => i < n)
    BY <1>2
  <1>4. Child \in ToSet(Walked[stack[n].port]) \cap Ports
    <2>1. Child \in Items(n, stack[n].port)
      BY <1>2 DEF Following, FollowsAt
    <2> QED BY <1>3, <2>1 DEF Items, Walked
  <1>5. stack[n].port \in DOMAIN Walked
    <2>1. stack[n].port \in Ports
      BY <1>3 DEF CatalogInv, StackShape
    <2> QED BY <2>1, LoadedHasPorts DEF CatalogInv, Names, Walked
  <1>6. CASE i = n
    BY <1>4, <1>6, ReachesRoots DEF Below
  <1>7. CASE i # n
    <2>1. stack[n].port \in Below(stack[i].port)
      BY <1>3, <1>7 DEF Nested
    <2> QED BY <1>4, <1>5, <2>1, ReachesOn DEF Below
  <1> QED BY <1>6, <1>7

LEMMA NoneInner == ASSUME NEW n \in {0, 1} PROVE 2..n = {}
  <1>1. n \in Int /\ ~(2 <= n)
    OBVIOUS
  <1> QED BY <1>1

LEMMA NestedInductive ==
    ASSUME WalksInv, Nested, [CatalogNext]_catalogVars
    PROVE  Nested'
  <1> DEFINE n == Len(stack)
  <1> USE DEF WalksInv
  <1>1. ASSUME Len(stack') \in {0, 1} PROVE Nested'
    <2>1. 2..Len(stack') = {}
      BY <1>1, NoneInner
    <2> QED BY <2>1 DEF Nested
  <1>2. ASSUME NEW p, NEW todo, stack' = <<Frame(p, todo)>> PROVE Nested'
    BY <1>1, <1>2
  <1>3. ASSUME NEW how, End(how) PROVE Nested'
    BY <1>1, <1>3 DEF End
  <1>4. ASSUME UNCHANGED <<loaded, ports, phase>>,
               phase \in {"visit", "collect", "build", "bundle"},
               HasChild, Child \in Ports, NEW todo \in Seq(Entries), Call(Child, todo)
        PROVE  Nested'
    <2>1. phase \notin Ended \cup {"validate"}
      BY <1>4 DEF Ended
    <2>2. stack \in Seq(Frames) /\ stack # <<>> /\ n \in Nat /\ n >= 1
      BY <2>1, StackTyped
    <2>3. /\ Len(stack') = n + 1 /\ stack'[n + 1].port = Child
          /\ \A i \in 1..n : stack'[i].port = stack[i].port
      BY <1>4, <2>2, CallIs
    <2>4. \A p : Below(p)' = Below(p)
      BY <1>4 DEF Below, Walked, Reachable, Closed
    <2>5. ASSUME ports = loaded, NEW i \in 2..n + 1, NEW j \in 2..n + 1, i < j
          PROVE  stack'[j].port \in Below(stack'[i].port)
      <3>1. i \in 2..n /\ i \in 1..n /\ (j # n + 1 => j \in 2..n /\ j \in 1..n)
        BY <2>2, <2>5
      <3>2. CASE j = n + 1
        BY <1>4, <2>3, <2>5, <3>1, <3>2, ChildIsBelow
      <3>3. CASE j # n + 1
        BY <2>3, <2>5, <3>1, <3>3 DEF Nested
      <3> QED BY <3>2, <3>3
    <2> QED BY <1>4, <2>3, <2>4, <2>5 DEF Nested
  <1>5. ASSUME UNCHANGED <<loaded, ports, phase>>, HasChild, stack' = Passed,
               phase \notin Ended \cup {"validate"}
        PROVE  Nested'
    <2>1. stack \in Seq(Frames) /\ stack # <<>> /\ n \in Nat /\ n >= 1
      BY <1>5, StackTyped
    <2>2. Len(stack') = n /\ \A i \in 1..n : stack'[i].port = stack[i].port
      BY <1>5, <2>1, PassIs
    <2>3. \A p : Below(p)' = Below(p)
      BY <1>5 DEF Below, Walked, Reachable, Closed
    <2>4. 2..n \subseteq 1..n
      BY <2>1
    <2> QED BY <1>5, <2>2, <2>3, <2>4 DEF Nested
  <1>6. ASSUME UNCHANGED <<loaded, ports, phase>>, InnerCall, Return PROVE Nested'
    <2>1. stack \in Seq(Frames) /\ n \in Nat /\ n > 1
      BY <1>6 DEF CatalogInv, StackShape, InnerCall
    <2>2. Len(stack') = n - 1 /\ \A i \in 1..n - 1 : stack'[i] = stack[i]
      BY <1>6, <2>1, ReturnIs
    <2>3. \A p : Below(p)' = Below(p)
      BY <1>6 DEF Below, Walked, Reachable, Closed
    <2>4. 2..n - 1 \subseteq 1..n - 1 /\ 2..n - 1 \subseteq 2..n
      BY <2>1
    <2> QED BY <1>6, <2>2, <2>3, <2>4 DEF Nested
  <1>7. CASE Enter
    <2>1. Child \in Ports /\ Lists[Child] \in Seq(Entries)
      BY <1>7, EnteredIs DEF Enter
    <2> QED BY <1>4, <1>7, <2>1 DEF Enter, Visits
  <1>8. CASE BuildPort
    <2>1. phase \in {"build", "bundle"} /\ phase \notin Ended \cup {"validate"}
      BY <1>8 DEF BuildPort, Building, Ended
    <2>2. Child \in Ports /\ Manifest.build[Child] \in Seq(Entries)
      <3>1. CASE Manifest = loaded
        BY <1>8, <3>1, LoadedHasPorts DEF BuildPort, CatalogInv
      <3>2. CASE Manifest = ports
        BY <1>8, <3>2, LoadedHasPorts DEF BuildPort, CatalogInv
      <3> QED BY <3>1, <3>2 DEF Manifest
    <2> QED BY <1>4, <1>5, <1>8, <2>1, <2>2 DEF BuildPort
  <1>9. CASE Again
    BY <1>5, <1>9 DEF Again, Visits, Ended
  <1>10. CASE Leave \/ BuildDone
    BY <1>6, <1>10 DEF Leave, BuildDone
  <1>11. CASE Unfit \/ Circle \/ BuildUnknown \/ BuildCircle \/ Accept \/ Bundle
    BY <1>3, <1>11 DEF Unfit, Circle, BuildUnknown, BuildCircle, Accept, Bundle
  <1>12. CASE Validate \/ Built \/ Collected
    BY <1>2, <1>3, <1>12 DEF Validate, Built, Collected
  <1>13. CASE \E p \in Ports, action \in {"build", "package"} : Begin(action, p)
    BY <1>2, <1>13 DEF Begin
  <1>14. CASE UNCHANGED catalogVars
    BY <1>14 DEF catalogVars, Nested, Below, Walked, Reachable, Closed
  <1> QED
    BY <1>7, <1>8, <1>9, <1>10, <1>11, <1>12, <1>13, <1>14 DEF CatalogNext, Work

LEMMA ValidatedInductive ==
    ASSUME Validated, RequestInv, [CatalogNext]_catalogVars
    PROVE  Validated' /\ RequestInv'
  <1>1. loaded' = loaded
    BY LoadedStays
  <1>2. Validated'
    <2>1. CASE Validate
      BY <1>1, <2>1 DEF Validate, End, Validated
    <2>2. CASE ~Validate
      <3>1. phase' \notin {"validate", "refused"} => phase \notin {"validate", "refused"}
        BY <2>2 DEF CatalogNext, Work, Accept, Enter, Unfit, Again, Circle, Leave, BuildPort,
               BuildUnknown, BuildCircle, BuildDone, Built, Collected, Bundle, Begin, catalogVars,
               End, Visits, Building
      <3> QED BY <1>1, <3>1 DEF Validated
    <2> QED BY <2>1, <2>2
  <1>3. RequestInv'
    <2>1. CASE \E p \in Ports, action \in {"build", "package"} : Begin(action, p)
      BY <2>1 DEF Begin, RequestInv
    <2>2. CASE ~\E p \in Ports, action \in {"build", "package"} : Begin(action, p)
      <3>1. /\ request' = request
            /\ phase' \in {"build", "collect", "bundle"} =>
                  phase \in {"build", "collect", "bundle"}
            /\ phase' \in {"collect", "bundle"} =>
                  phase \in {"collect", "bundle"} \/ request.action # "build"
        BY <2>2 DEF CatalogNext, Work, Validate, Accept, Enter, Unfit, Again, Circle, Leave,
               BuildPort, BuildUnknown, BuildCircle, BuildDone, Built, Collected, Bundle,
               catalogVars, End, Visits, Building
      <3> QED BY <3>1 DEF RequestInv
    <2> QED BY <2>1, <2>2
  <1> QED BY <1>2, <1>3

(* If none of what validation leaves open is the case, then no two commands  *)
(* of a bundle have one name.                                                *)
LEMMA CommandsAreApart ==
    ASSUME WalksInv, Validated, BundleIsClosure, phase = "bundle", ports = loaded,
           \A p \in Executed : ~Circular(loaded.exec, p),
           \A p \in Executed \cup {request.port} : IsInjective(loaded.commands[p])
    PROVE  IsInjective(BundleCommands)
  <1> DEFINE commands == loaded.commands
             parts == [i \in DOMAIN ordered |-> ports.commands[ordered[i]]]
  <1>1. /\ ordered \in Seq(Ports) /\ ToSet(ordered) = Executed /\ IsInjective(ordered)
        /\ request.port \in Ports
    BY DEF WalksInv, CatalogInv, VisitShape, CatalogShape, BundleIsClosure
  <1>2. DOMAIN ordered = 1..Len(ordered) /\ Len(ordered) \in Nat
    BY <1>1
  <1>3. /\ \A p \in Ports : commands[p] \in Seq(Commands)
        /\ \A p, q \in Ports : p # q => ToSet(commands[p]) \cap ToSet(commands[q]) = {}
    BY LoadedHasPorts DEF WalksInv, CatalogInv, IsCatalog, Validated, OneOwner
  <1>4. \A i \in 1..Len(ordered) : ordered[i] \in Executed /\ ordered[i] \in Ports
    BY <1>1, <1>2 DEF ToSet
  <1>5. request.port \notin Executed
    BY DEF Circular, Executed
  <1>6. /\ parts \in Seq(Seq(Commands)) /\ Len(parts) = Len(ordered)
        /\ \A i \in 1..Len(parts) : parts[i] = commands[ordered[i]]
    BY <1>2, <1>3, <1>4
  <1> HIDE DEF commands, parts
  <1>7. Apart(parts, Len(parts))
    <2>1. \A i \in 1..Len(parts) : IsInjective(parts[i])
      BY <1>4, <1>6 DEF commands
    <2>2. ASSUME NEW i \in 1..Len(parts), NEW j \in 1..Len(parts), i # j
          PROVE  ToSet(parts[i]) \cap ToSet(parts[j]) = {}
      <3>1. ordered[i] # ordered[j]
        BY <1>1, <1>2, <1>6, <2>2 DEF IsInjective
      <3> QED BY <1>3, <1>4, <1>6, <3>1
    <2> QED BY <2>1, <2>2 DEF Apart
  <1>8. /\ FlattenSeq(parts) \in Seq(Commands) /\ IsInjective(FlattenSeq(parts))
        /\ ToSet(FlattenSeq(parts)) = UNION {ToSet(parts[i]) : i \in 1..Len(parts)}
    BY <1>6, <1>7, FlattenSeqIs
  <1>9. ToSet(commands[request.port]) \cap ToSet(FlattenSeq(parts)) = {}
    <2>1. ASSUME NEW i \in 1..Len(parts)
          PROVE  ToSet(commands[request.port]) \cap ToSet(parts[i]) = {}
      BY <1>1, <1>3, <1>4, <1>5, <1>6
    <2> QED BY <1>8, <2>1
  <1>10. commands[request.port] \in Seq(Commands) /\ IsInjective(commands[request.port])
    BY <1>1, <1>3 DEF commands
  <1>11. IsInjective(commands[request.port] \o FlattenSeq(parts))
    BY <1>8, <1>9, <1>10, PutTogether
  <1> QED BY <1>11 DEF BundleCommands, commands, parts

BuildableInv ==
    /\ WalksInv /\ AcceptedIsAcyclic /\ CollectInv /\ BundleIsClosure
    /\ Validated /\ RequestInv /\ Nested

(* What is left open by validation, when a package fails.                    *)
LeftOpen ==
    /\ request.action = "package"
    /\ \/ request.port \notin loaded.visible
       \/ ~(Executed \subseteq loaded.visible)
       \/ \E p \in Executed : Circular(loaded.exec, p)
       \/ \E p \in Executed \cup {request.port} : ~IsInjective(loaded.commands[p])

LEMMA FailsForWhatIsLeftOpen ==
    ASSUME BuildableInv, ports = loaded,
           \/ Unfit \/ (Circle /\ phase = "collect") \/ BuildUnknown \/ BuildCircle
           \/ (Built /\ phase' = "crashed") \/ (Bundle /\ phase' = "failed")
    PROVE  LeftOpen
  <1> USE DEF BuildableInv
  <1>1. IsCatalog(loaded) /\ Names(loaded) = Ports
    BY LoadedHasPorts DEF WalksInv, CatalogInv
  <1>2. CASE Unfit
    <2>1. /\ phase = "collect" /\ HasChild
          /\ (Child \notin Ports \/ Child \notin loaded.visible)
      BY <1>1, <1>2 DEF Unfit, Visits, Fit, user_visible
    <2>2. phase \notin Ended \cup {"validate"}
      BY <2>1 DEF Ended
    <2>3. Child \in Ports
      <3> DEFINE n == Len(stack)
      <3>1. n \in 1..n /\ Child \in ToSet(stack[n].todo) /\ n \in Nat /\ n >= 1 /\ stack # <<>>
        BY <2>1, <2>2, StackTyped DEF WalksInv
      <3>2. Child \in Items(n, stack[n].port)
        BY <3>1 DEF WalksInv, Following, FollowsAt
      <3>3. stack[n].port \in Ports
        <4>1. CASE n = 1
          BY <2>1, <3>1, <4>1 DEF WalksInv, CatalogInv, StackShape, CatalogShape
        <4>2. CASE n # 1
          BY <3>1, <4>2, OneOrMore DEF WalksInv, CatalogInv, StackShape
        <4> QED BY <4>1, <4>2
      <3>4. Child \in ToSet(loaded.exec[stack[n].port])
        BY <2>1, <3>2 DEF Items
      <3> QED BY <1>1, <2>2, <3>3, <3>4 DEF Validated, Known, Ended
    <2>4. Child \in Executed
      BY <2>1, <2>3, ChildIsExecuted DEF WalksInv
    <2> QED BY <2>1, <2>3, <2>4 DEF LeftOpen, RequestInv
  <1>3. CASE Circle /\ phase = "collect"
    <2>1. Child \in Callers /\ Child \in visiting /\ HasChild
      BY <1>3 DEF Circle, WalksInv, CatalogInv, VisitShape, Visits
    <2>2. PICK k \in 2..Len(stack) : stack[k].port = Child
      BY <2>1 DEF Callers
    <2>3. Child \in Ports
      BY <2>2 DEF WalksInv, CatalogInv, StackShape
    <2>4. Child \in Below(Child)
      BY <1>3, <2>1, <2>2, <2>3, ChildIsBelow
    <2>5. Circular(loaded.exec, Child) /\ Child \in Executed
      BY <1>3, <2>1, <2>4 DEF Circular, Below, Walked, CollectInv
    <2> QED BY <1>3, <2>5 DEF LeftOpen, RequestInv
  <1>4. CASE BuildCircle
    <2>1. phase \in {"build", "bundle"} /\ HasChild /\ Child \in Callers
      BY <1>4 DEF BuildCircle, Building
    <2>2. PICK k \in 2..Len(stack) : stack[k].port = Child
      BY <2>1 DEF Callers
    <2>3. Child \in Ports
      BY <2>2 DEF WalksInv, CatalogInv, StackShape
    <2>4. Child \in Below(Child)
      BY <2>1, <2>2, <2>3, ChildIsBelow
    <2>5. Circular(loaded.build, Child)
      BY <2>1, <2>4 DEF Circular, Below, Walked
    <2> QED BY <2>1, <2>3, <2>5 DEF AcceptedIsAcyclic
  <1>5. CASE BuildUnknown
    <2> DEFINE n == Len(stack)
    <2>1. phase \in {"build", "bundle"} /\ HasChild /\ Child \notin Ports
      BY <1>1, <1>5 DEF BuildUnknown, Building, Manifest
    <2>2. phase \notin Ended \cup {"validate"}
      BY <2>1 DEF Ended
    <2>3. n \in 1..n /\ Child \in ToSet(stack[n].todo) /\ n \in Nat /\ n >= 1
      BY <2>1, <2>2, StackTyped DEF WalksInv
    <2>4. Child \in Items(n, stack[n].port)
      BY <2>3 DEF WalksInv, Following, FollowsAt
    <2>5. CASE n = 1
      <3>1. request.port \in Ports /\ ToSet(ordered) \subseteq Ports
        BY <2>1 DEF WalksInv, CatalogInv, CatalogShape, VisitShape, ToSet
      <3> QED BY <2>1, <2>4, <2>5, <3>1 DEF Items
    <2>6. CASE n # 1
      <3>1. stack[n].port \in Ports
        BY <2>3, <2>6, OneOrMore DEF WalksInv, CatalogInv, StackShape
      <3>2. Child \in ToSet(loaded.build[stack[n].port])
        BY <2>1, <2>4, <2>6 DEF Items
      <3> QED BY <1>1, <2>1, <2>2, <3>1, <3>2 DEF Validated, Known, Ended
    <2> QED BY <2>5, <2>6
  <1>6. CASE Built /\ phase' = "crashed"
    <2>1. /\ phase = "build" /\ request.action # "build"
          /\ loaded.commands[request.port] = <<>>
      BY <1>6 DEF Built, End
    <2>2. request.port \in Ports
      BY <2>1 DEF WalksInv, CatalogInv, CatalogShape
    <2>3. request.port \notin loaded.visible
      BY <1>1, <2>1, <2>2 DEF Validated, validate_port, user_visible
    <2> QED BY <2>1, <2>3 DEF LeftOpen, RequestInv
  <1>7. CASE Bundle /\ phase' = "failed"
    <2>1. phase = "bundle" /\ ~IsInjective(BundleCommands)
      BY <1>7 DEF Bundle, End
    <2>2. \/ \E p \in Executed : Circular(loaded.exec, p)
          \/ \E p \in Executed \cup {request.port} : ~IsInjective(loaded.commands[p])
      BY <2>1, CommandsAreApart
    <2> QED BY <2>1, <2>2 DEF LeftOpen, RequestInv
  <1> QED BY <1>2, <1>3, <1>4, <1>5, <1>6, <1>7

LEMMA CanBeBuiltInductive ==
    ASSUME BuildableInv, AcceptedCanBeBuilt, [CatalogNext]_catalogVars
    PROVE  AcceptedCanBeBuilt'
  <1>1. SUFFICES ASSUME ports' = loaded', phase' \in {"failed", "crashed"}
                 PROVE  LeftOpen'
    BY DEF AcceptedCanBeBuilt, LeftOpen
  <1>2. UNCHANGED <<loaded, ports, request>>
    BY <1>1 DEF CatalogNext, Work, Validate, Accept, Enter, Unfit, Again, Circle, Leave, BuildPort,
           BuildUnknown, BuildCircle, BuildDone, Built, Collected, Bundle, Begin, catalogVars
  <1>3. LeftOpen' <=> LeftOpen
    BY <1>2 DEF LeftOpen, Circular, Executed, Reachable, Closed
  <1>4. CASE phase \in {"failed", "crashed"}
    BY <1>1, <1>2, <1>3, <1>4 DEF AcceptedCanBeBuilt, LeftOpen
  <1>5. CASE phase \notin {"failed", "crashed"}
    <2>1. \/ Unfit \/ (Circle /\ phase = "collect") \/ BuildUnknown \/ BuildCircle
          \/ (Built /\ phase' = "crashed") \/ (Bundle /\ phase' = "failed")
      BY <1>1, <1>5 DEF CatalogNext, Work, Validate, Accept, Enter, Again, Circle, Leave,
             BuildPort, BuildDone, Built, Collected, Bundle, Begin, catalogVars, End, Visits
    <2> QED BY <1>1, <1>2, <1>3, <2>1, FailsForWhatIsLeftOpen
  <1> QED BY <1>4, <1>5

(* If the manifests are still those main accepted, no build fails, and a     *)
(* package fails only for what validation leaves open.                       *)
THEOREM AcceptedBuildable == CatalogSpec => []AcceptedCanBeBuilt
  <1> DEFINE Inv == BuildableInv /\ VisitedIsAcyclic /\ AcceptedCanBeBuilt
  <1>1. CatalogInit => Inv
    <2> SUFFICES ASSUME CatalogInit PROVE Inv
      OBVIOUS
    <2>1. /\ VisitedIsAcyclic /\ AcceptedIsAcyclic /\ CollectInv /\ BundleIsClosure
          /\ Validated /\ RequestInv /\ AcceptedCanBeBuilt
      BY DEF CatalogInit, VisitedIsAcyclic, AcceptedIsAcyclic, CollectInv, BundleIsClosure,
             Validated, RequestInv, AcceptedCanBeBuilt
    <2>2. Len(stack) = 0
      BY DEF CatalogInit
    <2>3. Nested
      BY <2>2, NoneInner DEF Nested
    <2> QED BY <2>1, <2>3, WalksInitially DEF BuildableInv
  <1>2. Inv /\ [CatalogNext]_catalogVars => Inv'
    BY WalksInductive, AcyclicInductive, CollectInductive, ValidatedInductive, NestedInductive,
       CanBeBuiltInductive DEF WalksInv, BuildableInv
  <1> QED BY <1>1, <1>2, PTL DEF CatalogSpec
=============================================================================
