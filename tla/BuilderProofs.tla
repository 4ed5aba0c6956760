---------------------------- MODULE BuilderProofs ----------------------------
(***************************************************************************)
(* Proofs about the build driver, for any ports, however deep they depend  *)
(* on each other, any revisions of their manifests and any command lines.  *)
(* The calls of build_port are a stack of frames; what holds of a package  *)
(* holds because of what each frame has collected from the calls below it. *)
(***************************************************************************)
EXTENDS Builder, TLAPS

-----------------------------------------------------------------------------

Working == {"compile", "install", "marker", "write"}
Frames == [port : Ports, data : Revisions, cached : BOOLEAN,
           at : {"enter", "dependencies"} \cup Working,
           fingerprint : Revisions \cup {None}, prefix : Seq(Copies)]
Runs == [todo : Seq(Ports), action : {"build", "package"}, force : BOOLEAN,
         loaded : [Ports -> Revisions], ports : [Ports -> Revisions],
         parts : Seq(Built), passed : SUBSET Ports]

Directories ==
    /\ manifest \in [Ports -> Revisions]
    /\ stage \in [Ports -> Stages]
    /\ \A p \in Ports : Installed(p) => Len(stage[p].linked) = Len(Dependencies[p])
    /\ marker \in [Ports -> Revisions \cup {None, Torn}]
    /\ artifact \in [Ports -> Artifacts \cup {None, Torn}]
    /\ \A p \in Ports : Packed(p) => Len(artifact[p].parts) = 1 + Len(Bundled[p])

(* A list of ports names no port twice, and the report none that is still to *)
(* come.  The outermost call is for the port in hand, or for a port that it  *)
(* bundles.                                                                  *)
RunInv ==
    \/ run = Idle /\ stack = <<>>
    \/ /\ run \in Runs /\ run.todo # <<>>
       /\ \A i, j \in 1..Len(run.todo) : i # j => run.todo[i] # run.todo[j]
       /\ \A i \in 1..Len(run.todo) : run.todo[i] \notin run.passed
       /\ stack # <<>> /\ run.parts = <<>> => stack[1].port = Current

(* What a frame has of its dependencies, and what the container has made.    *)
FrameInv(frame, stages) ==
    /\ frame.at = "enter" => frame.prefix = <<>>
    /\ frame.at # "enter" => frame.fingerprint \in Revisions
    /\ Len(frame.prefix) <= Len(Dependencies[frame.port])
    /\ frame.at \in Working => Len(frame.prefix) = Len(Dependencies[frame.port])
    /\ frame.at = "compile" => stages[frame.port] = Emptied
    /\ frame.at \in {"install", "marker", "write"} =>
          stages[frame.port] = [manifest |-> frame.data, checked |-> frame.at # "install",
                                linked |-> frame.prefix]

(* A call that has made another is waiting for the next of its dependencies. *)
Waits(frame, inner) ==
    /\ frame.at = "dependencies"
    /\ Len(frame.prefix) < Len(Dependencies[frame.port])
    /\ inner.port = Dependencies[frame.port][Len(frame.prefix) + 1]

StackInv ==
    /\ stack \in Seq(Frames)
    /\ \A i \in 1..Len(stack) : FrameInv(stack[i], stage)
    /\ \A i \in 1..Len(stack) - 1 : Waits(stack[i], stack[i + 1])

BuilderInv == Directories /\ RunInv /\ StackInv /\ ReportIsTrue

(* p has a stage and a marker that speaks for it.                            *)
Vouched(p) == marker[p] \in Revisions /\ Installed(p) /\ ~Underway(p)

(* A marker that was opened is empty until it is written.                    *)
OpenInv == At("write") => marker[Innermost.port] = Torn

Whole(built) ==
    built.checked /\ \A i \in 1..Len(built.linked) : built.linked[i].checked

(* A stage is only under a marker that can be read, away from the container, *)
(* when its build came to its end; only such a stage is copied or packed.    *)
CheckedInv ==
    /\ OpenInv
    /\ \A p \in Ports : Vouched(p) => stage[p].checked
    /\ \A p \in Ports : Installed(p) =>
          \A i \in 1..Len(stage[p].linked) : stage[p].linked[i].checked
    /\ \A i \in 1..Len(stack) :
          \A j \in 1..Len(stack[i].prefix) : stack[i].prefix[j].checked
    /\ Running => \A i \in 1..Len(run.parts) : Whole(run.parts[i])
    /\ PackedIsChecked

(* What a frame holds of the manifests.                                      *)
IsCurrent(frame, manifests) ==
    /\ frame.data = manifests[frame.port]
    /\ frame.at # "enter" => frame.fingerprint = manifests[frame.port]
    /\ \A j \in 1..Len(frame.prefix) :
          frame.prefix[j].manifest = manifests[Dependencies[frame.port][j]]

(* Nothing a run has loaded, digested, linked or collected differs from what *)
(* the manifests say, which do not change while it goes on.                  *)
CurrentInv ==
    /\ Running =>
          /\ run.loaded = manifest /\ run.ports = manifest
          /\ run.parts # <<>> => run.parts[1].manifest = manifest[Current]
    /\ \A i \in 1..Len(stack) : IsCurrent(stack[i], manifest)
    /\ MarkerIsTrue
    /\ PackedIsDeclared

-----------------------------------------------------------------------------

(* A stack has one call, or one below the innermost.                         *)
LEMMA OneOrMore ==
    ASSUME NEW n \in Nat, n >= 1
    PROVE  n = 1 \/ (n > 1 /\ n - 1 \in Nat /\ n - 1 # 0 /\ n - 1 >= 1)
  OBVIOUS

(* What the stack of calls is after a step of a call, a call and a return.   *)
LEMMA MoveKeeps ==
    ASSUME StackInv, stack # <<>>, NEW frame \in Frames, Move(frame),
           frame.port = Innermost.port, FrameInv(frame, stage')
    PROVE  /\ StackInv'
           /\ stack' # <<>> /\ Len(stack') = Len(stack)
           /\ \A i \in 1..Len(stack) - 1 : stack'[i] = stack[i]
           /\ stack'[Len(stack)] = frame
           /\ stack'[1].port = stack[1].port
  <1>1. /\ stack \in Seq(Frames) /\ Len(stack) \in Nat \ {0}
        /\ stack' \in Seq(Frames)
        /\ stack' # <<>> /\ Len(stack') = Len(stack)
        /\ \A i \in 1..Len(stack) - 1 : stack'[i] = stack[i]
        /\ stack'[Len(stack)] = frame
    BY DEF StackInv, Move
  <1>2. stack'[1].port = stack[1].port
    BY <1>1 DEF Innermost
  <1>3. \A i \in 1..Len(stack') : FrameInv(stack'[i], stage')
    <2> TAKE i \in 1..Len(stack')
    <2>1. CASE i = Len(stack)
      BY <1>1, <2>1
    <2>2. CASE i # Len(stack)
      <3>1. i \in 1..Len(stack) /\ i \in 1..Len(stack) - 1 /\ stack'[i] = stack[i]
        BY <1>1, <2>2
      <3>2. stack[i].at = "dependencies" /\ FrameInv(stack[i], stage)
        BY <3>1 DEF StackInv, Waits
      <3> QED BY <3>1, <3>2 DEF FrameInv, Working
    <2> QED BY <2>1, <2>2
  <1>4. \A i \in 1..Len(stack') - 1 : Waits(stack'[i], stack'[i + 1])
    <2> TAKE i \in 1..Len(stack') - 1
    <2>1. stack'[i] = stack[i] /\ stack'[i + 1].port = stack[i + 1].port
      BY <1>1 DEF Innermost
    <2> QED BY <1>1, <2>1 DEF StackInv, Waits
  <1> QED BY <1>1, <1>2, <1>3, <1>4 DEF StackInv

LEMMA CallKeeps ==
    ASSUME StackInv, NEW frame \in Frames, stack' = Append(stack, frame), UNCHANGED stage,
           FrameInv(frame, stage), stack # <<>> => Waits(Innermost, frame)
    PROVE  /\ StackInv'
           /\ stack' # <<>> /\ Len(stack') = Len(stack) + 1
           /\ \A i \in 1..Len(stack) : stack'[i] = stack[i]
           /\ stack'[Len(stack) + 1] = frame
  <1>1. /\ stack \in Seq(Frames) /\ Len(stack) \in Nat
        /\ stack' \in Seq(Frames)
        /\ stack' # <<>> /\ Len(stack') = Len(stack) + 1
        /\ \A i \in 1..Len(stack) : stack'[i] = stack[i]
        /\ stack'[Len(stack) + 1] = frame
    BY DEF StackInv
  <1>2. \A i \in 1..Len(stack') : FrameInv(stack'[i], stage')
    BY <1>1 DEF StackInv
  <1>3. \A i \in 1..Len(stack') - 1 : Waits(stack'[i], stack'[i + 1])
    BY <1>1 DEF StackInv, Innermost
  <1> QED BY <1>1, <1>2, <1>3 DEF StackInv

LEMMA ReturnKeeps ==
    ASSUME StackInv, stack # <<>>, Return, stage[Innermost.port] \in Built, UNCHANGED stage
    PROVE  /\ StackInv'
           /\ \/ /\ Len(stack) = 1 /\ stack' = <<>>
                 /\ run' = [run EXCEPT !.parts = Append(@, stage[Innermost.port])]
              \/ /\ Len(stack) > 1 /\ UNCHANGED run
                 /\ stack' # <<>> /\ Len(stack') = Len(stack) - 1
                 /\ \A i \in 1..Len(stack) - 2 : stack'[i] = stack[i]
                 /\ stack'[Len(stack) - 1] =
                       [stack[Len(stack) - 1] EXCEPT !.prefix = Append(@, Copy(stage[Innermost.port]))]
                 /\ stack'[1].port = stack[1].port
  <1> DEFINE built == stage[Innermost.port]
  <1>0. stack \in Seq(Frames) /\ Len(stack) \in Nat /\ Len(stack) >= 1
    BY DEF StackInv
  <1>1. CASE Len(stack) = 1
    BY <1>0, <1>1 DEF Return, StackInv
  <1>2. CASE /\ Len(stack) > 1
             /\ Len(stack) - 1 \in Nat /\ Len(stack) - 1 # 0 /\ Len(stack) - 1 >= 1
    <2> DEFINE frame == [stack[Len(stack) - 1] EXCEPT !.prefix = Append(@, Copy(built))]
    <2>1. /\ UNCHANGED run
          /\ stack' = [SubSeq(stack, 1, Len(stack) - 1) EXCEPT
                         ![Len(stack) - 1].prefix = Append(@, Copy(built))]
      BY <1>2, Zenon DEF Return
    <2>2. Copy(built) \in Copies
      BY DEF Copy, Copies, Built
    <2>3. stack[Len(stack) - 1] \in Frames
      BY <1>0, <1>2
    <2>4. frame \in Frames /\ frame.port = stack[Len(stack) - 1].port
          /\ frame.at = stack[Len(stack) - 1].at
          /\ frame.fingerprint = stack[Len(stack) - 1].fingerprint
          /\ Len(frame.prefix) = Len(stack[Len(stack) - 1].prefix) + 1
      <3> DEFINE outer == stack[Len(stack) - 1]
      <3>1. frame = [outer EXCEPT !.prefix = Append(@, Copy(built))]
        OBVIOUS
      <3>2. outer \in Frames
        BY <2>3
      <3> HIDE DEF outer, frame, built
      <3>3. Append(outer.prefix, Copy(built)) \in Seq(Copies)
            /\ Len(Append(outer.prefix, Copy(built))) = Len(outer.prefix) + 1
        BY <2>2, <3>2 DEF Frames
      <3>4. frame \in Frames /\ frame.port = outer.port /\ frame.at = outer.at
            /\ frame.fingerprint = outer.fingerprint
            /\ Len(frame.prefix) = Len(outer.prefix) + 1
        BY <3>1, <3>2, <3>3 DEF Frames
      <3> QED BY <3>4 DEF outer
    <2>5. SubSeq(stack, 1, Len(stack) - 1) \in Seq(Frames)
          /\ Len(SubSeq(stack, 1, Len(stack) - 1)) = Len(stack) - 1
          /\ \A i \in 1..Len(stack) - 1 : SubSeq(stack, 1, Len(stack) - 1)[i] = stack[i]
      BY <1>0, <1>2
    <2>6. stack' = [SubSeq(stack, 1, Len(stack) - 1) EXCEPT ![Len(stack) - 1] = frame]
      <3>1. SubSeq(stack, 1, Len(stack) - 1)[Len(stack) - 1] = stack[Len(stack) - 1]
        BY <1>0, <1>2, <2>5
      <3> QED BY <2>1, <3>1, Zenon
    <2> HIDE DEF frame, built
    <2>7. /\ stack' \in Seq(Frames)
          /\ stack' # <<>> /\ Len(stack') = Len(stack) - 1
          /\ \A i \in 1..Len(stack) - 2 : stack'[i] = stack[i]
          /\ stack'[Len(stack) - 1] = frame
      <3> DEFINE below == SubSeq(stack, 1, Len(stack) - 1)
      <3>1. below \in Seq(Frames) /\ Len(below) = Len(stack) - 1 /\ Len(below) \in Nat \ {0}
        BY <1>2, <2>5
      <3>2. stack' = [below EXCEPT ![Len(below)] = frame]
        BY <2>6, <3>1
      <3> HIDE DEF below
      <3>3. /\ stack' \in Seq(Frames) /\ Len(stack') = Len(below)
            /\ \A i \in 1..Len(below) - 1 : stack'[i] = below[i]
            /\ stack'[Len(below)] = frame
        BY <2>4, <3>1, <3>2
      <3>4. \A i \in 1..Len(below) - 1 : below[i] = stack[i]
        BY <2>5, <3>1 DEF below
      <3> QED BY <1>0, <1>2, <3>1, <3>3, <3>4
    <2>8. Waits(stack[Len(stack) - 1], stack[Len(stack)]) /\ FrameInv(stack[Len(stack) - 1], stage)
      BY <1>0, <1>2 DEF StackInv
    <2>9. FrameInv(frame, stage)
      BY <2>3, <2>4, <2>8 DEF FrameInv, Waits, Working, Frames
    <2>10. \A i \in 1..Len(stack') : FrameInv(stack'[i], stage')
      BY <1>0, <2>7, <2>9 DEF StackInv
    <2>11. \A i \in 1..Len(stack') - 1 : Waits(stack'[i], stack'[i + 1])
      <3> DEFINE top == Len(stack) - 1
      <3>1. top \in Nat /\ top >= 1 /\ Len(stack') = top /\ Len(stack) - 2 = top - 1
        BY <1>0, <1>2, <2>7
      <3>2. \A i \in 1..top - 1 : stack'[i] = stack[i]
        BY <2>7, <3>1
      <3>3. stack'[top].port = stack[top].port
        BY <2>4, <2>7
      <3>4. \A i \in 1..top : Waits(stack[i], stack[i + 1])
        BY DEF StackInv
      <3> HIDE DEF top
      <3>5. ASSUME NEW i \in 1..top - 1 PROVE Waits(stack'[i], stack'[i + 1])
        <4>1. i \in 1..top /\ stack'[i] = stack[i]
          BY <3>1, <3>2
        <4>2. stack'[i + 1].port = stack[i + 1].port
          <5>1. CASE i + 1 = top
            BY <3>3, <5>1
          <5>2. CASE i + 1 # top
            <6>1. i + 1 \in 1..top - 1
              BY <3>1, <5>2
            <6> QED BY <3>2, <6>1
          <5> QED BY <5>1, <5>2
        <4> QED BY <3>4, <4>1, <4>2 DEF Waits
      <3> QED BY <3>1, <3>5
    <2>12. stack'[1].port = stack[1].port
      BY <1>0, <1>2, <2>4, <2>7
    <2>13. StackInv'
      BY <2>7, <2>10, <2>11 DEF StackInv
    <2> QED BY <1>2, <2>1, <2>7, <2>12, <2>13 DEF frame, built
  <1> QED BY <1>0, <1>1, <1>2, OneOrMore

(* Only the innermost call has a container.                                  *)
LEMMA InnermostWorks ==
    ASSUME StackInv, NEW p
    PROVE  Underway(p) <=> stack # <<>> /\ Innermost.port = p /\ Innermost.at \in Working
  <1>1. stack \in Seq(Frames) /\ Len(stack) \in Nat
    BY DEF StackInv
  <1>2. \A i \in 1..Len(stack) : i # Len(stack) => stack[i].at = "dependencies"
    BY <1>1 DEF StackInv, Waits
  <1> QED BY <1>1, <1>2 DEF Underway, Innermost, Working

(* No port is below itself: the ports between two calls for the same one     *)
(* would each have a dependency among them.                                  *)
LEMMA NoPortTwice ==
    ASSUME StackInv, NEW i \in 1..Len(stack), NEW j \in 1..Len(stack), i < j
    PROVE  stack[i].port # stack[j].port
  <1> SUFFICES ASSUME stack[i].port = stack[j].port PROVE FALSE
    OBVIOUS
  <1> DEFINE ports == {stack[k].port : k \in i..j - 1}
  <1>1. stack \in Seq(Frames) /\ Len(stack) \in Nat
    BY DEF StackInv
  <1>2. /\ \A k \in i..j - 1 : k \in 1..Len(stack) - 1 /\ stack[k] \in Frames
        /\ i \in i..j - 1
    BY <1>1
  <1>3. ports \in (SUBSET Ports) \ {{}}
    <2>1. ports \subseteq Ports
      BY <1>2 DEF Frames
    <2>2. stack[i].port \in ports
      BY <1>2
    <2> QED BY <2>1, <2>2
  <1>4. PICK p \in ports : \A m \in 1..Len(Dependencies[p]) : Dependencies[p][m] \notin ports
    BY <1>3, AcyclicAssumption
  <1>5. PICK k \in i..j - 1 : stack[k].port = p
    BY <1>4
  <1>6. Waits(stack[k], stack[k + 1]) /\ stack[k] \in Frames
    BY <1>2, <1>5 DEF StackInv
  <1>7. stack[k + 1].port \in ports
    <2>1. CASE k + 1 = j
      <3>1. stack[k + 1].port = stack[i].port
        BY <2>1
      <3> QED BY <1>2, <3>1
    <2>2. CASE k + 1 # j
      <3>1. i \in Nat /\ j \in Nat /\ k \in Nat /\ i <= k /\ k <= j - 1
        BY <1>1, <1>2
      <3>2. k + 1 \in i..j - 1
        BY <2>2, <3>1
      <3> QED BY <3>2
    <2> QED BY <2>1, <2>2
  <1>8. PICK m \in 1..Len(Dependencies[p]) : stack[k + 1].port = Dependencies[p][m]
    <2>1. /\ Len(stack[k].prefix) \in Nat /\ Len(Dependencies[p]) \in Nat
          /\ Len(stack[k].prefix) < Len(Dependencies[p])
          /\ stack[k + 1].port = Dependencies[p][Len(stack[k].prefix) + 1]
      <3>1. p \in Ports /\ Dependencies[p] \in Seq(Ports)
        BY <1>5, <1>6, CatalogAssumption DEF Frames
      <3>2. stack[k].prefix \in Seq(Copies)
        BY <1>6 DEF Frames
      <3> QED BY <1>5, <1>6, <3>1, <3>2 DEF Waits
    <2>2. Len(stack[k].prefix) + 1 \in 1..Len(Dependencies[p])
      BY <2>1
    <2> QED BY <2>1, <2>2
  <1> QED BY <1>4, <1>7, <1>8

-----------------------------------------------------------------------------

LEMMA InnermostFrame ==
    ASSUME StackInv, stack # <<>>
    PROVE  /\ Innermost \in Frames /\ FrameInv(Innermost, stage)
           /\ Len(stack) \in 1..Len(stack)
  <1>1. Len(stack) \in 1..Len(stack)
    BY DEF StackInv
  <1> QED BY <1>1 DEF StackInv, Innermost

LEMMA CallsRun == ASSUME RunInv PROVE stack # <<>> => Running
  BY DEF RunInv, Running, Idle

LEMMA RunFields ==
    ASSUME RunInv, Running
    PROVE  /\ run \in Runs /\ run.todo # <<>> /\ Current \in Ports
           /\ run.todo[1] = Current /\ Current \notin run.passed
           /\ Len(run.todo) \in Nat /\ Len(run.todo) >= 1
  <1>1. run \in Runs /\ run.todo # <<>> /\ run.todo \in Seq(Ports)
    BY DEF RunInv, Running, Runs
  <1>2. Len(run.todo) \in Nat /\ Len(run.todo) >= 1 /\ 1 \in 1..Len(run.todo)
    BY <1>1
  <1> QED BY <1>1, <1>2 DEF RunInv, Running, Current

LEMMA RunIsNotIdle ==
    ASSUME NEW r \in Runs, r.todo # <<>>
    PROVE  r # Idle
  BY DEF Idle

(* A run that goes on with the call in hand.                                 *)
LEMMA RunStands ==
    ASSUME RunInv, UNCHANGED run, stack # <<>>, stack' # <<>>,
           stack'[1].port = stack[1].port
    PROVE  RunInv'
  BY DEF RunInv, Current

(* The next port of the list, or the end of the run.                         *)
LEMMA NextPortKeeps ==
    ASSUME RunInv, Running, NEW passed, passed \subseteq run.passed \cup {Current},
           NextPort(passed), stack' = <<>>
    PROVE  /\ RunInv'
           /\ \/ run' = Idle
              \/ /\ run' \in Runs /\ run'.todo # <<>>
                 /\ run'.action = run.action /\ run'.loaded = run.loaded
                 /\ run'.ports = run.ports
                 /\ run'.parts = <<>> /\ run'.passed = passed
  <1>1. run \in Runs /\ run.todo # <<>> /\ Current \in Ports /\ Len(run.todo) \in Nat
        /\ Len(run.todo) >= 1 /\ run.todo[1] = Current
    BY RunFields
  <1>2. CASE Len(run.todo) = 1
    BY <1>2, Zenon DEF NextPort, RunInv
  <1>3. CASE /\ Len(run.todo) > 1 /\ Len(run.todo) - 1 \in Nat
             /\ Len(run.todo) - 1 # 0 /\ Len(run.todo) - 1 >= 1
    <2> DEFINE todo == Tail(run.todo)
    <2>1. run.todo \in Seq(Ports)
      BY <1>1 DEF Runs
    <2>2. todo \in Seq(Ports) /\ Len(todo) = Len(run.todo) - 1
          /\ \A i \in 1..Len(todo) : todo[i] = run.todo[i + 1] /\ i + 1 \in 1..Len(run.todo)
      BY <1>3, <2>1
    <2>3. run' = [run EXCEPT !.todo = todo, !.parts = <<>>, !.passed = passed]
      BY <1>1, <1>3 DEF NextPort
    <2>4. todo # <<>>
      BY <1>3, <2>2
    <2>5. passed \subseteq Ports
      BY <1>1 DEF Runs
    <2> HIDE DEF todo
    <2>6. /\ run' \in Runs /\ run'.todo = todo
          /\ run'.action = run.action /\ run'.loaded = run.loaded
          /\ run'.ports = run.ports
          /\ run'.parts = <<>> /\ run'.passed = passed
      <3>1. run' = [todo |-> todo, action |-> run.action, force |-> run.force,
                    loaded |-> run.loaded, ports |-> run.ports, parts |-> <<>>,
                    passed |-> passed]
        BY <1>1, <2>3 DEF Runs
      <3>2. <<>> \in Seq(Built)
        OBVIOUS
      <3> QED BY <1>1, <2>2, <2>5, <3>1, <3>2 DEF Runs
    <2>7. \A i, j \in 1..Len(run.todo) : i # j => run.todo[i] # run.todo[j]
      BY RunIsNotIdle DEF RunInv, Running
    <2>8. \A i \in 1..Len(run.todo) : run.todo[i] \notin run.passed
      BY DEF RunInv, Running
    <2>9. \A i, j \in 1..Len(todo) : i # j => todo[i] # todo[j]
      BY <2>2, <2>7
    <2>10. \A i \in 1..Len(todo) : todo[i] \notin passed
      <3> TAKE i \in 1..Len(todo)
      <3>1. i + 1 \in 1..Len(run.todo) /\ todo[i] = run.todo[i + 1] /\ 1 \in 1..Len(run.todo)
            /\ i + 1 # 1
        BY <1>1, <2>2
      <3>2. todo[i] \notin run.passed /\ todo[i] # Current
        BY <1>1, <2>7, <2>8, <3>1
      <3> QED BY <3>2
    <2> QED BY <2>4, <2>6, <2>9, <2>10 DEF RunInv
  <1> QED BY <1>1, <1>2, <1>3, OneOrMore

-----------------------------------------------------------------------------

LEMMA BuilderInitially == BuilderInit => BuilderInv
  <1> SUFFICES ASSUME BuilderInit PROVE BuilderInv
    OBVIOUS
  <1>1. Directories
    BY CatalogAssumption DEF BuilderInit, Directories, Stages, Installed, Packed
  <1>2. StackInv
    BY DEF BuilderInit, StackInv
  <1>3. RunInv /\ ReportIsTrue
    BY DEF BuilderInit, RunInv, ReportIsTrue, Running
  <1> QED BY <1>1, <1>2, <1>3 DEF BuilderInv

(* Steps that leave the directories as they are.                             *)
LEMMA DirectoriesStand ==
    ASSUME Directories, UNCHANGED <<manifest, stage, marker, artifact>>
    PROVE  Directories'
  BY DEF Directories, Installed, Packed

(* A command line, or an edit.                                               *)
LEMMA OutsideKeeps ==
    ASSUME BuilderInv,
           (\E p \in Ports : Edit(p)) \/ (\E request \in Requests : StartRun(request))
    PROVE  BuilderInv'
  <1> USE DEF BuilderInv
  <1>1. CASE \E p \in Ports : Edit(p)
    <2>1. manifest' \in [Ports -> Revisions]
          /\ UNCHANGED <<stage, marker, artifact, run, stack>>
      BY <1>1 DEF Edit, Directories
    <2>2. Directories' /\ RunInv' /\ ReportIsTrue'
      BY <2>1 DEF Directories, Installed, Packed, RunInv, Current, ReportIsTrue, Running
    <2>3. StackInv'
      BY <2>1 DEF StackInv
    <2> QED BY <2>2, <2>3
  <1>2. ASSUME NEW request \in Requests, StartRun(request)
        PROVE  BuilderInv'
    <2>1. /\ request \in [action : {"build", "package"}, force : BOOLEAN, batch : Seq(Ports)]
          /\ request.batch # <<>>
          /\ \A i, j \in 1..Len(request.batch) : i # j => request.batch[i] # request.batch[j]
      BY CatalogAssumption, BatchAssumption
    <2>2. stack = <<>> /\ UNCHANGED <<manifest, stage, marker, artifact, stack>>
      BY <1>2 DEF StartRun, RunInv, Running, Idle
    <2>3. run' = [todo |-> request.batch, action |-> request.action, force |-> request.force,
                  loaded |-> manifest, ports |-> manifest, parts |-> <<>>, passed |-> {}]
      BY <1>2 DEF StartRun
    <2>4. run' \in Runs
      <3>1. <<>> \in Seq(Built)
        OBVIOUS
      <3> QED BY <2>1, <2>3, <3>1 DEF Runs, Directories
    <2>5. RunInv'
      BY <2>1, <2>2, <2>3, <2>4 DEF RunInv
    <2>6. StackInv' /\ ReportIsTrue'
      BY <2>2, <2>3 DEF StackInv, ReportIsTrue
    <2> QED BY <2>2, <2>5, <2>6, DirectoriesStand
  <1> QED BY <1>1, <1>2

(* The first call for a port, for a part of a package, or for a dependency.  *)
LEMMA CallsKeep ==
    ASSUME BuilderInv, BuildPort \/ BuildBundled \/ BuildDependency
    PROVE  BuilderInv'
  <1> USE DEF BuilderInv
  <1>0. Running /\ UNCHANGED <<manifest, stage, marker, artifact>>
    BY CallsRun DEF BuildPort, BuildBundled, BuildDependency, At
  <1>1. run \in Runs /\ Current \in Ports
    BY <1>0, RunFields
  <1>2. Directories'
    BY <1>0, DirectoriesStand
  <1>3. ASSUME NEW p \in Ports, NEW data \in Revisions, NEW cached \in BOOLEAN
        PROVE  Frame(p, data, cached) \in Frames /\ FrameInv(Frame(p, data, cached), stage)
    <2>1. <<>> \in Seq(Copies)
      OBVIOUS
    <2> QED BY <1>3, <2>1, CatalogAssumption DEF Frame, Frames, FrameInv, Working
  <1>4. CASE BuildPort
    <2> DEFINE frame == Frame(Current, run.loaded[Current], run.action = "package" /\ ~run.force)
    <2>1. frame \in Frames /\ FrameInv(frame, stage) /\ frame.port = Current
      BY <1>1, <1>3 DEF Runs, Frame
    <2>2. stack = <<>> /\ stack' = <<frame>> /\ run' = [run EXCEPT !.ports = manifest]
      BY <1>4 DEF BuildPort
    <2> HIDE DEF frame
    <2>3. stack' = Append(stack, frame)
      BY <2>2
    <2>4. StackInv'
      BY <1>0, <2>1, <2>2, <2>3, CallKeeps
    <2>5. run' \in Runs /\ run'.todo = run.todo /\ run'.passed = run.passed
          /\ run'.action = run.action /\ run'.loaded = run.loaded
      BY <1>1, <2>2 DEF Runs, Directories
    <2>6. RunInv'
      BY <1>0, <2>1, <2>2, <2>5 DEF RunInv, Running, Current
    <2>7. ReportIsTrue'
      BY <1>0, <2>5 DEF ReportIsTrue, Packed
    <2> QED BY <1>2, <2>4, <2>6, <2>7
  <1>5. CASE BuildBundled
    <2> DEFINE p == Bundled[Current][Len(run.parts)]
               frame == Frame(p, run.ports[p], TRUE)
    <2>1. stack = <<>> /\ run.parts # <<>> /\ stack' = <<frame>> /\ UNCHANGED run
      BY <1>5 DEF BuildBundled
    <2>2. p \in Ports
      <3>1. run.parts \in Seq(Built) /\ Len(run.parts) <= Len(Bundled[Current])
        BY <1>1, <1>5 DEF BuildBundled, Runs
      <3>2. Len(run.parts) \in 1..Len(Bundled[Current]) /\ Bundled[Current] \in Seq(Ports)
        BY <1>1, <2>1, <3>1, CatalogAssumption
      <3> QED BY <3>2
    <2> HIDE DEF p
    <2>3. frame \in Frames /\ FrameInv(frame, stage)
      BY <1>1, <1>3, <2>2 DEF Runs
    <2> HIDE DEF frame
    <2>4. stack' = Append(stack, frame)
      BY <2>1
    <2>5. StackInv'
      BY <1>0, <2>1, <2>3, <2>4, CallKeeps
    <2>6. RunInv' /\ ReportIsTrue'
      BY <1>0, <2>1 DEF RunInv, Running, ReportIsTrue, Packed
    <2> QED BY <1>2, <2>5, <2>6
  <1>6. CASE BuildDependency
    <2> DEFINE p == Dependencies[Innermost.port][Len(Innermost.prefix) + 1]
               frame == Frame(p, run.ports[p], TRUE)
    <2>1. stack # <<>> /\ Innermost.at = "dependencies" /\ UNCHANGED run
          /\ Len(Innermost.prefix) + 1 <= Len(Dependencies[Innermost.port])
          /\ stack' = Append(stack, frame)
      BY <1>6 DEF BuildDependency, At
    <2>2. Innermost \in Frames /\ Len(stack) \in 1..Len(stack)
      BY <2>1, InnermostFrame
    <2>3. Len(Innermost.prefix) \in Nat /\ Dependencies[Innermost.port] \in Seq(Ports)
      BY <2>2, CatalogAssumption DEF Frames
    <2>4. p \in Ports /\ Len(Innermost.prefix) < Len(Dependencies[Innermost.port])
      BY <2>1, <2>3
    <2>5. frame \in Frames /\ FrameInv(frame, stage)
      BY <1>1, <1>3, <2>4 DEF Runs
    <2>6. Waits(Innermost, frame)
      BY <2>1, <2>4 DEF Waits, Frame
    <2> HIDE DEF frame, p
    <2>7. StackInv' /\ stack' # <<>> /\ stack'[1] = stack[1]
      <3>1. 1 \in 1..Len(stack)
        BY <2>2
      <3> QED BY <1>0, <2>1, <2>5, <2>6, <3>1, CallKeeps
    <2>8. RunInv'
      BY <2>1, <2>7, RunStands
    <2>9. ReportIsTrue'
      BY <1>0, <2>1 DEF ReportIsTrue, Packed, Running
    <2> QED BY <1>2, <2>7, <2>8, <2>9
  <1> QED BY <1>4, <1>5, <1>6

LEMMA CheckedStage ==
    ASSUME NEW built \in Built, NEW checked \in BOOLEAN
    PROVE  [built EXCEPT !.checked = checked] =
              [manifest |-> built.manifest, checked |-> checked, linked |-> built.linked]
  BY DEF Built

(* A call that goes on: the fingerprint, then the container step by step.    *)
LEMMA MovesKeep ==
    ASSUME BuilderInv, Rebuild \/ Compile \/ Install \/ Check \/ OpenMarker
    PROVE  BuilderInv'
  <1> USE DEF BuilderInv
  <1>0. /\ stack # <<>> /\ Running /\ UNCHANGED <<manifest, artifact, run>>
        /\ Innermost \in Frames /\ FrameInv(Innermost, stage) /\ Len(stack) \in 1..Len(stack)
        /\ Innermost.port \in Ports /\ Dependencies[Innermost.port] \in Seq(Ports)
        /\ Innermost.prefix \in Seq(Copies) /\ Len(Innermost.prefix) \in Nat
    <2>1. stack # <<>> /\ UNCHANGED <<manifest, artifact, run>>
      BY DEF Rebuild, Compile, Install, Check, OpenMarker, At
    <2>2. Innermost \in Frames /\ FrameInv(Innermost, stage) /\ Len(stack) \in 1..Len(stack)
      BY <2>1, InnermostFrame
    <2> QED BY <2>1, <2>2, CallsRun, CatalogAssumption DEF Frames
  <1>1. ReportIsTrue'
    BY <1>0 DEF ReportIsTrue, Packed, Running
  <1>2. SUFFICES Directories' /\ StackInv' /\ stack' # <<>> /\ stack'[1].port = stack[1].port
    BY <1>0, <1>1, RunStands
  <1>3. CASE Rebuild
    <2> DEFINE frame == [Innermost EXCEPT !.at = "dependencies",
                                          !.fingerprint = manifest[Innermost.port]]
    <2>1. Innermost.at = "enter" /\ UNCHANGED stage /\ Move(frame) /\ marker' = Refuse(Innermost.port)
      BY <1>3 DEF Rebuild, At
    <2>2. frame \in Frames /\ frame.port = Innermost.port /\ FrameInv(frame, stage')
      BY <1>0, <2>1 DEF Frames, FrameInv, Working, Directories
    <2>3. Directories'
      BY <1>0, <2>1 DEF Directories, Refuse, Installed, Packed
    <2> HIDE DEF frame
    <2> QED BY <1>0, <2>1, <2>2, <2>3, MoveKeeps
  <1>4. CASE Compile
    <2> DEFINE frame == [Innermost EXCEPT !.at = "compile"]
    <2>1. /\ Innermost.at = "dependencies" /\ UNCHANGED marker /\ Move(frame)
          /\ Len(Innermost.prefix) = Len(Dependencies[Innermost.port])
          /\ stage' = [stage EXCEPT ![Innermost.port] = Emptied]
      BY <1>4 DEF Compile, At
    <2>2. stage' \in [Ports -> Stages] /\ stage'[Innermost.port] = Emptied
          /\ \A p \in Ports : p # Innermost.port => stage'[p] = stage[p]
      BY <1>0, <2>1 DEF Directories, Stages
    <2>3. frame \in Frames /\ frame.port = Innermost.port /\ FrameInv(frame, stage')
      BY <1>0, <2>1, <2>2 DEF Frames, FrameInv, Working
    <2>4. Directories'
      BY <1>0, <2>1, <2>2 DEF Directories, Installed, Packed
    <2> HIDE DEF frame
    <2> QED BY <1>0, <2>1, <2>3, <2>4, MoveKeeps
  <1>5. CASE Install
    <2> DEFINE frame == [Innermost EXCEPT !.at = "install"]
               built == [manifest |-> Innermost.data, checked |-> FALSE,
                         linked |-> Innermost.prefix]
    <2>1. /\ Innermost.at = "compile" /\ UNCHANGED marker /\ Move(frame)
          /\ stage' = [stage EXCEPT ![Innermost.port] = built]
      BY <1>5 DEF Install, At
    <2>2. built \in Built
      BY <1>0 DEF Frames, Built
    <2>3. stage' \in [Ports -> Stages] /\ stage'[Innermost.port] = built
          /\ \A p \in Ports : p # Innermost.port => stage'[p] = stage[p]
      BY <1>0, <2>1, <2>2 DEF Directories, Stages
    <2>4. frame \in Frames /\ frame.port = Innermost.port /\ FrameInv(frame, stage')
      BY <1>0, <2>1, <2>3 DEF Frames, FrameInv, Working
    <2>5. Directories'
      <3>1. Len(built.linked) = Len(Dependencies[Innermost.port])
        BY <1>0, <2>1 DEF FrameInv, Working
      <3> QED BY <1>0, <2>1, <2>3, <3>1 DEF Directories, Installed, Packed
    <2> HIDE DEF frame
    <2> QED BY <1>0, <2>1, <2>4, <2>5, MoveKeeps
  <1>6. CASE Check
    <2> DEFINE frame == [Innermost EXCEPT !.at = "marker"]
               built == [manifest |-> Innermost.data, checked |-> TRUE,
                         linked |-> Innermost.prefix]
    <2>1. /\ Innermost.at = "install" /\ UNCHANGED marker /\ Move(frame)
          /\ stage' = [stage EXCEPT ![Innermost.port].checked = TRUE]
      BY <1>6 DEF Check, At
    <2>2. built \in Built
      BY <1>0 DEF Frames, Built
    <2>3. stage[Innermost.port] = [manifest |-> Innermost.data, checked |-> FALSE,
                                   linked |-> Innermost.prefix]
      BY <1>0, <2>1 DEF FrameInv
    <2>4. stage' \in [Ports -> Stages] /\ stage'[Innermost.port] = built
          /\ \A p \in Ports : p # Innermost.port => stage'[p] = stage[p]
      <3>1. [stage[Innermost.port] EXCEPT !.checked = TRUE] = built
        <4>1. stage[Innermost.port] \in Built
          BY <1>0, <2>3 DEF Frames, Built
        <4>2. [stage[Innermost.port] EXCEPT !.checked = TRUE] =
                 [manifest |-> stage[Innermost.port].manifest, checked |-> TRUE,
                  linked |-> stage[Innermost.port].linked]
          BY <4>1, CheckedStage, Zenon
        <4>3. /\ stage[Innermost.port].manifest = Innermost.data
              /\ stage[Innermost.port].linked = Innermost.prefix
          BY <2>3
        <4> QED BY <4>2, <4>3, Zenon
      <3>2. stage' = [stage EXCEPT ![Innermost.port] = built]
        BY <2>1, <3>1, Zenon
      <3> QED BY <1>0, <2>2, <3>2 DEF Directories, Stages
    <2>5. frame \in Frames /\ frame.port = Innermost.port /\ FrameInv(frame, stage')
      BY <1>0, <2>1, <2>4 DEF Frames, FrameInv, Working
    <2>6. Directories'
      <3>1. Len(built.linked) = Len(Dependencies[Innermost.port])
        BY <1>0, <2>1 DEF FrameInv, Working
      <3> QED BY <1>0, <2>1, <2>4, <3>1 DEF Directories, Installed, Packed
    <2> HIDE DEF frame
    <2> QED BY <1>0, <2>1, <2>5, <2>6, MoveKeeps
  <1>7. CASE OpenMarker
    <2> DEFINE frame == [Innermost EXCEPT !.at = "write"]
    <2>1. /\ Innermost.at = "marker" /\ UNCHANGED stage /\ Move(frame)
          /\ marker' = [marker EXCEPT ![Innermost.port] = Torn]
      BY <1>7 DEF OpenMarker, At
    <2>2. frame \in Frames /\ frame.port = Innermost.port /\ FrameInv(frame, stage')
      BY <1>0, <2>1 DEF Frames, FrameInv, Working
    <2>3. Directories'
      BY <1>0, <2>1 DEF Directories, Installed, Packed
    <2> HIDE DEF frame
    <2> QED BY <1>0, <2>1, <2>2, <2>3, MoveKeeps
  <1> QED BY <1>3, <1>4, <1>5, <1>6, <1>7

(* A call that returns its stage.                                            *)
LEMMA ReturnsKeep ==
    ASSUME BuilderInv, Reuse \/ WriteMarker
    PROVE  BuilderInv' /\ stage[Innermost.port] \in Built
  <1> USE DEF BuilderInv
  <1>0. /\ stack # <<>> /\ Running /\ UNCHANGED <<manifest, artifact, stage>> /\ Return
        /\ Innermost \in Frames /\ FrameInv(Innermost, stage) /\ Len(stack) \in 1..Len(stack)
        /\ Innermost.port \in Ports
    <2>1. stack # <<>> /\ UNCHANGED <<manifest, artifact, stage>> /\ Return
      BY DEF Reuse, WriteMarker, At
    <2>2. Innermost \in Frames /\ FrameInv(Innermost, stage) /\ Len(stack) \in 1..Len(stack)
      BY <2>1, InnermostFrame
    <2> QED BY <2>1, <2>2, CallsRun DEF Frames
  <1>1. stage[Innermost.port] \in Built
    <2>1. CASE Reuse
      BY <1>0, <2>1 DEF Reuse, Reusable, Installed, Directories, Stages
    <2>2. CASE WriteMarker
      <3>1. Innermost.at = "write"
        BY <2>2 DEF WriteMarker, At
      <3>2. stage[Innermost.port] = [manifest |-> Innermost.data, checked |-> TRUE,
                                     linked |-> Innermost.prefix]
        BY <1>0, <3>1 DEF FrameInv
      <3> QED BY <1>0, <3>2 DEF Frames, Built
    <2> QED BY <2>1, <2>2
  <1>2. Directories'
    <2>1. CASE Reuse
      BY <2>1, DirectoriesStand DEF Reuse
    <2>2. CASE WriteMarker
      <3>1. Innermost.at = "write" /\ marker' = [marker EXCEPT ![Innermost.port] = Innermost.fingerprint]
        BY <2>2 DEF WriteMarker, At
      <3>2. Innermost.fingerprint \in Revisions
        BY <1>0, <3>1 DEF FrameInv
      <3> QED BY <1>0, <3>1, <3>2 DEF Directories, Installed, Packed
    <2> QED BY <2>1, <2>2
  <1>3. StackInv'
    BY <1>0, <1>1, ReturnKeeps
  <1>4. RunInv' /\ ReportIsTrue'
    <2>1. CASE stack' = <<>> /\ run' = [run EXCEPT !.parts = Append(@, stage[Innermost.port])]
      <3> DEFINE built == stage[Innermost.port]
      <3>1. run \in Runs
        BY <1>0, RunFields
      <3>2. Append(run.parts, built) \in Seq(Built)
        BY <1>1, <3>1 DEF Runs
      <3>3. run' = [todo |-> run.todo, action |-> run.action, force |-> run.force,
                    loaded |-> run.loaded, ports |-> run.ports,
                    parts |-> Append(run.parts, built), passed |-> run.passed]
        BY <2>1, <3>1 DEF Runs
      <3> HIDE DEF built
      <3>4. run' \in Runs /\ run'.todo = run.todo /\ run'.passed = run.passed
            /\ run'.action = run.action /\ run'.loaded = run.loaded
        BY <3>1, <3>2, <3>3 DEF Runs
      <3>5. RunInv'
        BY <1>0, <2>1, <3>4 DEF RunInv, Running
      <3>6. ReportIsTrue'
        BY <1>0, <3>4 DEF ReportIsTrue, Packed
      <3> QED BY <3>5, <3>6
    <2>2. CASE UNCHANGED run /\ stack' # <<>> /\ stack'[1].port = stack[1].port
      <3>1. RunInv'
        BY <1>0, <2>2, RunStands
      <3>2. ReportIsTrue'
        BY <1>0, <2>2 DEF ReportIsTrue, Packed, Running
      <3> QED BY <3>1, <3>2
    <2> QED BY <1>0, <1>1, <2>1, <2>2, ReturnKeeps
  <1> QED BY <1>1, <1>2, <1>3, <1>4

(* A port of the list that is finished, and the end of a run: what was       *)
(* packed is in dist, and nothing else that the report names is touched.     *)
LEMMA EndsKeep ==
    ASSUME BuilderInv, Report \/ Pack \/ Fail \/ FailToPack \/ Crash \/ Kill
    PROVE  BuilderInv'
  <1> USE DEF BuilderInv
  <1>0. /\ Running /\ stack' = <<>> /\ UNCHANGED <<manifest, stage>>
        /\ run \in Runs /\ Current \in Ports /\ Current \notin run.passed
    <2>1. Running
      BY CallsRun DEF Report, Pack, Fail, FailToPack, Crash, Kill, At
    <2> QED BY <2>1, RunFields DEF Report, Pack, Fail, FailToPack, Crash, Kill
  <1>1. StackInv'
    BY <1>0 DEF StackInv
  <1>2. /\ marker' = marker
        /\ \/ artifact' = artifact
           \/ artifact' = [artifact EXCEPT ![Current] = Torn]
           \/ Pack
    BY DEF Report, Pack, Fail, FailToPack, Crash, Kill
  <1>3. \A p \in Ports : p # Current => artifact'[p] = artifact[p]
    BY <1>0, <1>2 DEF Pack, Directories
  <1>4. CASE Pack
    <2> DEFINE packed == [declared |-> run.loaded[Current], parts |-> run.parts]
    <2>1. /\ artifact' = [artifact EXCEPT ![Current] = packed]
          /\ UNCHANGED marker /\ run.action = "package"
          /\ Len(run.parts) = 1 + Len(Bundled[Current])
          /\ NextPort(run.passed \cup {Current})
      BY <1>4 DEF Pack, PackingComplete
    <2>2. packed \in Artifacts
      BY <1>0 DEF Runs, Artifacts
    <2>3. artifact' \in [Ports -> Artifacts \cup {None, Torn}] /\ artifact'[Current] = packed
      BY <1>0, <2>1, <2>2 DEF Directories
    <2>4. Directories'
      BY <1>0, <1>3, <2>1, <2>3 DEF Directories, Installed, Packed
    <2>5. /\ RunInv'
          /\ run' = Idle \/ (run'.loaded = run.loaded /\ run'.passed = run.passed \cup {Current})
      BY <1>0, <2>1, NextPortKeeps
    <2>6. ReportIsTrue'
      <3> SUFFICES ASSUME run' # Idle, NEW p \in run'.passed
                   PROVE  Packed(p)' /\ artifact'[p].declared = run'.loaded[p]
        BY DEF ReportIsTrue, Running
      <3>1. CASE p = Current
        BY <2>2, <2>3, <2>5, <3>1, ArtifactsAssumption DEF Packed
      <3>2. CASE p # Current
        <4>1. p \in run.passed /\ p \in Ports
          BY <1>0, <2>5, <3>2 DEF Runs
        <4> QED BY <1>0, <1>3, <2>1, <2>5, <3>2, <4>1 DEF ReportIsTrue, Packed
      <3> QED BY <3>1, <3>2
    <2> QED BY <1>1, <2>4, <2>5, <2>6
  <1>5. CASE ~Pack
    <2>1. Directories'
      <3>1. marker' \in [Ports -> Revisions \cup {None, Torn}]
        BY <1>2 DEF Directories
      <3>2. /\ artifact' \in [Ports -> Artifacts \cup {None, Torn}]
            /\ artifact'[Current] \in {artifact[Current], Torn}
        BY <1>0, <1>2, <1>5 DEF Directories
      <3> QED BY <1>0, <1>3, <3>1, <3>2 DEF Directories, Installed, Packed
    <2>2. \/ run' = Idle
          \/ NextPort(run.passed)
          \/ run.action = "build" /\ NextPort(run.passed \cup {Current})
      BY <1>5 DEF Report, Fail, FailToPack, Crash, Kill
    <2>3. /\ RunInv'
          /\ \/ run' = Idle
             \/ /\ run'.loaded = run.loaded /\ run'.action = run.action
                /\ run'.action = "package" => run'.passed = run.passed
      <3>1. CASE run' = Idle
        BY <1>0, <3>1 DEF RunInv
      <3>2. CASE NextPort(run.passed)
        BY <1>0, <3>2, NextPortKeeps
      <3>3. CASE run.action = "build" /\ NextPort(run.passed \cup {Current})
        BY <1>0, <3>3, NextPortKeeps
      <3> QED BY <2>2, <3>1, <3>2, <3>3
    <2>4. ReportIsTrue'
      <3> SUFFICES ASSUME run' # Idle, run'.action = "package", NEW p \in run'.passed
                   PROVE  Packed(p)' /\ artifact'[p].declared = run'.loaded[p]
        BY DEF ReportIsTrue, Running
      <3>1. p \in run.passed /\ p \in Ports /\ p # Current
        BY <1>0, <2>3 DEF Runs
      <3> QED BY <1>0, <1>3, <2>3, <3>1 DEF ReportIsTrue, Packed
    <2> QED BY <1>1, <2>1, <2>3, <2>4
  <1> QED BY <1>4, <1>5

LEMMA BuilderKeeps ==
    ASSUME BuilderInv, [BuilderNext]_builderVars
    PROVE  BuilderInv'
  <1>1. CASE UNCHANGED builderVars
    <2>1. Directories' /\ RunInv' /\ ReportIsTrue'
      BY <1>1 DEF builderVars, BuilderInv, Directories, Installed, Packed, RunInv, Current,
                  ReportIsTrue, Running
    <2> QED BY <1>1, <2>1 DEF builderVars, BuilderInv, StackInv
  <1>2. CASE BuilderNext
    BY <1>2, OutsideKeeps, CallsKeep, MovesKeep, ReturnsKeep, EndsKeep DEF BuilderNext, Work
  <1> QED BY <1>1, <1>2

-----------------------------------------------------------------------------

(* The directories of every port keep their types, a package has a part for  *)
(* each port it bundles, and build_port is never called for a port it is     *)
(* already building, however deep the ports depend on each other.            *)
THEOREM BuilderTyped == BuilderSpec => []BuilderTypeOK
  <1>1. BuilderInit => BuilderInv
    BY BuilderInitially
  <1>2. BuilderInv /\ [BuilderNext]_builderVars => BuilderInv'
    BY BuilderKeeps
  <1>3. BuilderInv => BuilderTypeOK
    <2> SUFFICES ASSUME BuilderInv PROVE BuilderTypeOK
      OBVIOUS
    <2>1. ASSUME NEW p \in Ports, Installed(p)
          PROVE  stage[p].manifest \in Revisions /\ stage[p].checked \in BOOLEAN
      BY <2>1 DEF BuilderInv, Directories, Installed, Stages, Built
    <2>2. ~Running => stack = <<>>
      BY CallsRun DEF BuilderInv
    <2>3. \A i, j \in 1..Len(stack) : i # j => stack[i].port # stack[j].port
      <3> TAKE i, j \in 1..Len(stack)
      <3>1. Len(stack) \in Nat
        BY DEF BuilderInv, StackInv
      <3>2. CASE i < j
        BY <3>2, NoPortTwice DEF BuilderInv
      <3>3. CASE j < i
        BY <3>3, NoPortTwice DEF BuilderInv
      <3> QED BY <3>1, <3>2, <3>3
    <2> QED BY <2>1, <2>2, <2>3 DEF BuilderTypeOK, BuilderInv, Directories
  <1> QED BY <1>1, <1>2, <1>3, PTL DEF BuilderSpec

(* What a report of a package run says passed of lies packed in dist, from   *)
(* the manifest the run loaded, also with manifests edited while it goes on: *)
(* no port comes twice in a list, so what is packed is not packed again.     *)
THEOREM ReportTrue == BuilderSpec => []ReportIsTrue
  <1>1. BuilderInit => BuilderInv
    BY BuilderInitially
  <1>2. BuilderInv /\ [BuilderNext]_builderVars => BuilderInv'
    BY BuilderKeeps
  <1>3. BuilderInv => ReportIsTrue
    BY DEF BuilderInv
  <1> QED BY <1>1, <1>2, <1>3, PTL DEF BuilderSpec

-----------------------------------------------------------------------------

(* Only the innermost call has opened a marker, and nobody else writes it.   *)
LEMMA OpenKeeps ==
    ASSUME BuilderInv, OpenInv, [BuilderNext]_builderVars
    PROVE  OpenInv'
  <1>0. /\ stack \in Seq(Frames) /\ Len(stack) \in Nat
        /\ stack # <<>> => Innermost \in Frames /\ Len(stack) \in 1..Len(stack)
        /\ marker \in [Ports -> Revisions \cup {None, Torn}]
    BY InnermostFrame DEF BuilderInv, StackInv, Directories
  <1>1. CASE UNCHANGED <<stack, marker>> \/ stack' = <<>>
    BY <1>1 DEF OpenInv, At, Innermost
  <1>2. CASE OpenMarker
    <2> DEFINE frame == [Innermost EXCEPT !.at = "write"]
    <2>1. stack # <<>> /\ Move(frame) /\ marker' = [marker EXCEPT ![Innermost.port] = Torn]
      BY <1>2 DEF OpenMarker, At
    <2>2. frame.port = Innermost.port /\ Innermost.port \in Ports
      BY <1>0, <2>1 DEF Frames
    <2> HIDE DEF frame
    <2>3. Innermost' = frame
      BY <1>0, <2>1 DEF Move, Innermost
    <2> QED BY <1>0, <2>1, <2>2, <2>3 DEF OpenInv
  <1>3. CASE Rebuild \/ Compile \/ Install \/ Check
    <2>1. stack # <<>> /\ Innermost \in Frames
      BY <1>0, <1>3 DEF Rebuild, Compile, Install, Check, At
    <2>2. PICK frame : Move(frame) /\ frame.at # "write"
      <3>1. \A at \in {"compile", "install", "marker"} : [Innermost EXCEPT !.at = at].at # "write"
        BY <2>1 DEF Frames
      <3>2. [Innermost EXCEPT !.at = "dependencies",
                              !.fingerprint = manifest[Innermost.port]].at # "write"
        BY <2>1 DEF Frames
      <3>3. CASE Rebuild
        BY <3>2, <3>3 DEF Rebuild
      <3>4. CASE Compile \/ Install \/ Check
        BY <3>1, <3>4 DEF Compile, Install, Check
      <3> QED BY <1>3, <3>3, <3>4
    <2>3. Innermost' = frame
      BY <1>0, <2>1, <2>2 DEF Move, Innermost
    <2> QED BY <2>2, <2>3 DEF OpenInv, At
  <1>4. CASE BuildPort \/ BuildBundled \/ BuildDependency
    <2>1. PICK frame : stack' = Append(stack, frame) /\ frame.at = "enter"
      <3>1. \E p, data, cached : stack' = Append(stack, Frame(p, data, cached))
        <4>1. \A frame : <<frame>> = Append(<<>>, frame)
          OBVIOUS
        <4>2. CASE BuildPort
          BY <4>1, <4>2, Zenon DEF BuildPort
        <4>3. CASE BuildBundled
          BY <4>1, <4>3, Zenon DEF BuildBundled
        <4>4. CASE BuildDependency
          BY <4>4, Zenon DEF BuildDependency
        <4> QED BY <1>4, <4>2, <4>3, <4>4
      <3>2. \A p, data, cached : Frame(p, data, cached).at = "enter"
        BY DEF Frame
      <3> QED BY <3>1, <3>2
    <2>2. Innermost' = frame
      BY <1>0, <2>1 DEF Innermost
    <2> QED BY <2>1, <2>2 DEF OpenInv, At
  <1>5. CASE Reuse \/ WriteMarker
    <2>1. Return /\ UNCHANGED stage /\ stage[Innermost.port] \in Built /\ stack # <<>>
      BY <1>5, ReturnsKeep DEF Reuse, WriteMarker, At
    <2>2. CASE Len(stack) > 1 /\ Len(stack') = Len(stack) - 1
               /\ stack'[Len(stack) - 1] =
                     [stack[Len(stack) - 1] EXCEPT !.prefix = Append(@, Copy(stage[Innermost.port]))]
      <3>1. Len(stack) - 1 \in 1..Len(stack) - 1 /\ stack[Len(stack) - 1] \in Frames
        BY <1>0, <2>2
      <3>2. stack[Len(stack) - 1].at = "dependencies"
        BY <3>1 DEF BuilderInv, StackInv, Waits
      <3>3. stack'[Len(stack) - 1].at = "dependencies"
        BY <2>2, <3>1, <3>2 DEF Frames
      <3> QED BY <2>2, <3>3 DEF OpenInv, At, Innermost
    <2> QED BY <1>1, <2>1, <2>2, ReturnKeeps DEF BuilderInv
  <1> QED BY <1>1, <1>2, <1>3, <1>4, <1>5
          DEF BuilderNext, Work, Edit, StartRun, Report, Pack, Fail, FailToPack, Crash, Kill,
              builderVars

(* Where a marker that speaks for a stage comes from: it did before, or the  *)
(* call that made the stage has written it.  In between, the old marker      *)
(* speaks for nothing, because the container is at work on the stage; a run  *)
(* that breaks off there has installed nothing, or has the checks behind it: *)
(* then the old marker is left beside the new stage, or an empty one.        *)
LEMMA VouchedFrom ==
    ASSUME "install" \notin Breakable, BuilderInv, OpenInv, [BuilderNext]_builderVars,
           NEW p \in Ports, Vouched(p)'
    PROVE  \/ Vouched(p) /\ marker'[p] = marker[p] /\ stage'[p] = stage[p]
           \/ /\ WriteMarker /\ p = Innermost.port
              /\ marker'[p] = Innermost.fingerprint /\ stage'[p] = stage[p]
              /\ stage[p] = [manifest |-> Innermost.data, checked |-> TRUE,
                             linked |-> Innermost.prefix]
           \/ /\ "marker" \in Breakable
              /\ stage'[p] = [manifest |-> Innermost.data, checked |-> TRUE,
                              linked |-> Innermost.prefix]
  <1> DEFINE Same == Vouched(p) /\ marker'[p] = marker[p] /\ stage'[p] = stage[p]
  <1>0. /\ stack # <<>> => Innermost \in Frames /\ FrameInv(Innermost, stage)
        /\ Underway(p) <=> stack # <<>> /\ Innermost.port = p /\ Innermost.at \in Working
        /\ marker \in [Ports -> Revisions \cup {None, Torn}]
        /\ stage \in [Ports -> Stages]
    BY InnermostFrame, InnermostWorks DEF BuilderInv, Directories
  <1>1. CASE ~Underway(p) /\ marker'[p] = marker[p] /\ stage'[p] = stage[p]
    BY <1>1 DEF Vouched, Installed
  <1>2. CASE UNCHANGED builderVars
    <2>1. ~Underway(p)
      BY <1>2 DEF builderVars, Vouched, Underway
    <2> QED BY <1>1, <1>2, <2>1 DEF builderVars
  <1>3. CASE (\E q \in Ports : Edit(q)) \/ (\E request \in Requests : StartRun(request))
    <2>1. ~Underway(p)
      BY <1>3 DEF Edit, StartRun, Vouched, Underway
    <2> QED BY <1>1, <1>3, <2>1 DEF Edit, StartRun
  <1>4. CASE BuildPort \/ BuildBundled \/ BuildDependency
    <2>1. ~Underway(p)
      BY <1>0, <1>4 DEF BuildPort, BuildBundled, BuildDependency, At, Working
    <2> QED BY <1>1, <1>4, <2>1 DEF BuildPort, BuildBundled, BuildDependency
  <1>5. CASE Rebuild
    <2>1. ~Underway(p) /\ stage' = stage /\ marker' \in {marker, [marker EXCEPT ![Innermost.port] = None]}
      BY <1>0, <1>5 DEF Rebuild, Refuse, At, Working
    <2>2. marker'[p] = marker[p]
      BY <1>0, <2>1, AbsentAssumption DEF Vouched
    <2> QED BY <1>1, <2>1, <2>2
  <1>6. CASE Compile \/ Install \/ Check \/ OpenMarker
    <2>1. PICK frame \in Frames :
             Move(frame) /\ frame.at \in Working /\ frame.port = Innermost.port
      <3>1. stack # <<>> /\ Innermost \in Frames
        BY <1>0, <1>6 DEF Compile, Install, Check, OpenMarker, At
      <3>2. \A at \in Working : [Innermost EXCEPT !.at = at] \in Frames
                /\ [Innermost EXCEPT !.at = at].at = at
                /\ [Innermost EXCEPT !.at = at].port = Innermost.port
        BY <3>1 DEF Frames
      <3>3. \E at \in Working : Move([Innermost EXCEPT !.at = at])
        BY <1>6 DEF Compile, Install, Check, OpenMarker, Working
      <3> QED BY <3>2, <3>3
    <2>2. stack # <<>> /\ stack \in Seq(Frames)
          /\ \A q \in Ports : q # Innermost.port =>
                marker'[q] = marker[q] /\ stage'[q] = stage[q]
      BY <1>0, <1>6 DEF Compile, Install, Check, OpenMarker, At, BuilderInv, StackInv
    <2>3. stack'[Len(stack)] = frame /\ Len(stack) \in 1..Len(stack')
      BY <2>1, <2>2 DEF Move
    <2>4. p # Innermost.port
      BY <2>1, <2>3 DEF Vouched, Underway, Working
    <2> QED BY <1>0, <1>1, <2>2, <2>4
  <1>7. CASE Reuse
    <2>1. ~Underway(p)
      BY <1>0, <1>7 DEF Reuse, At, Working
    <2> QED BY <1>1, <1>7, <2>1 DEF Reuse
  <1>8. CASE WriteMarker
    <2>1. /\ stack # <<>> /\ Innermost.at = "write" /\ UNCHANGED stage
          /\ marker' = [marker EXCEPT ![Innermost.port] = Innermost.fingerprint]
      BY <1>8 DEF WriteMarker, At
    <2>2. CASE p = Innermost.port
      <3>1. stage[p] = [manifest |-> Innermost.data, checked |-> TRUE,
                        linked |-> Innermost.prefix]
        BY <1>0, <2>1, <2>2 DEF FrameInv
      <3> QED BY <1>0, <1>8, <2>1, <2>2, <3>1
    <2>3. CASE p # Innermost.port
      BY <1>0, <1>1, <2>1, <2>3
    <2> QED BY <2>2, <2>3
  <1>9. CASE Report \/ Pack \/ FailToPack \/ Crash
    <2>1. ~Underway(p)
      BY <1>0, <1>9 DEF Report, Pack, FailToPack, Crash, At, Working
    <2> QED BY <1>1, <1>9, <2>1 DEF Report, Pack, FailToPack, Crash
  <1>10. CASE Fail \/ Kill
    <2>1. /\ stack # <<>> /\ Innermost.at \in Breakable /\ Innermost.at # "install"
          /\ UNCHANGED <<stage, marker>>
      BY <1>10 DEF Fail, Kill
    <2>2. CASE Underway(p)
      <3>1. p = Innermost.port /\ Innermost.at \in {"compile", "marker", "write"}
        BY <1>0, <2>1, <2>2 DEF Working
      <3>2. Innermost.at # "compile"
        BY <1>0, <2>1, <3>1 DEF FrameInv, Vouched, Installed
      <3>3. Innermost.at # "write"
        BY <2>1, <3>1, AbsentAssumption DEF OpenInv, At, Vouched
      <3>4. "marker" \in Breakable /\ stage'[p] = [manifest |-> Innermost.data, checked |-> TRUE,
                                                   linked |-> Innermost.prefix]
        BY <1>0, <2>1, <3>1, <3>2, <3>3 DEF FrameInv
      <3> QED BY <3>4
    <2>3. CASE ~Underway(p)
      BY <1>1, <2>1, <2>3
    <2> QED BY <2>2, <2>3
  <1> QED BY <1>2, <1>3, <1>4, <1>5, <1>6, <1>7, <1>8, <1>9, <1>10 DEF BuilderNext, Work

-----------------------------------------------------------------------------

(* A stage that a call returns is whole: the call found it under its marker, *)
(* or brought its build to the end.                                          *)
LEMMA ReturnedIsWhole ==
    ASSUME BuilderInv, CheckedInv, Reuse \/ WriteMarker
    PROVE  Whole(stage[Innermost.port])
  <1>0. stack # <<>> /\ Innermost \in Frames /\ FrameInv(Innermost, stage)
        /\ Len(stack) \in 1..Len(stack)
    <2>1. stack # <<>>
      BY DEF Reuse, WriteMarker, At
    <2> QED BY <2>1, InnermostFrame DEF BuilderInv
  <1>1. CASE Reuse
    <2>1. Innermost.at = "enter" /\ Reusable(Innermost.port) /\ Innermost.port \in Ports
      BY <1>0, <1>1 DEF Reuse, At, Frames
    <2>2. ~Underway(Innermost.port)
      BY <2>1, InnermostWorks DEF BuilderInv, Working
    <2>3. Vouched(Innermost.port)
      BY <2>1, <2>2 DEF Reusable, Vouched, BuilderInv, Directories
    <2> QED BY <2>1, <2>3 DEF CheckedInv, Whole, Vouched
  <1>2. CASE WriteMarker
    <2>1. stage[Innermost.port] = [manifest |-> Innermost.data, checked |-> TRUE,
                                   linked |-> Innermost.prefix]
      BY <1>0, <1>2 DEF WriteMarker, At, FrameInv
    <2>2. \A j \in 1..Len(Innermost.prefix) : Innermost.prefix[j].checked
      BY <1>0 DEF CheckedInv, Innermost
    <2> QED BY <2>1, <2>2 DEF Whole
  <1> QED BY <1>1, <1>2

(* What the calls have collected: checked copies.                            *)
LEMMA PrefixesKeep ==
    ASSUME BuilderInv, CheckedInv, BuilderNext,
           NEW i \in 1..Len(stack'), NEW j \in 1..Len(stack'[i].prefix)
    PROVE  stack'[i].prefix[j].checked
  <1>0. /\ stack \in Seq(Frames) /\ StackInv /\ Len(stack) \in Nat
        /\ \A k \in 1..Len(stack) : \A m \in 1..Len(stack[k].prefix) : stack[k].prefix[m].checked
    BY DEF BuilderInv, StackInv, CheckedInv
  <1>1. CASE stack' = stack \/ stack' = <<>>
    BY <1>0, <1>1
  <1>2. CASE \E frame \in Frames : stack' = Append(stack, frame) /\ frame.prefix = <<>>
    BY <1>0, <1>2
  <1>3. CASE \E frame \in Frames : Move(frame) /\ frame.prefix = Innermost.prefix
    BY <1>0, <1>3 DEF Move, Innermost
  <1>4. CASE Reuse \/ WriteMarker
    <2> DEFINE built == stage[Innermost.port]
               outer == stack[Len(stack) - 1]
    <2>1. Return /\ UNCHANGED stage /\ built \in Built /\ stack # <<>> /\ built.checked
      BY <1>4, ReturnsKeep, ReturnedIsWhole DEF Reuse, WriteMarker, At, Whole
    <2>2. CASE Len(stack) > 1 /\ Len(stack') = Len(stack) - 1
               /\ (\A k \in 1..Len(stack) - 2 : stack'[k] = stack[k])
               /\ stack'[Len(stack) - 1] = [outer EXCEPT !.prefix = Append(@, Copy(built))]
      <3>1. CASE i # Len(stack) - 1
        BY <1>0, <2>2, <3>1
      <3>2. CASE i = Len(stack) - 1
        <4>1. outer \in Frames /\ \A m \in 1..Len(outer.prefix) : outer.prefix[m].checked
          BY <1>0, <2>2
        <4>2. Copy(built) \in Copies /\ Copy(built).checked
          BY <2>1 DEF Copy, Copies, Built
        <4>3. stack'[i].prefix = Append(outer.prefix, Copy(built))
          BY <2>2, <3>2, <4>1 DEF Frames
        <4> HIDE DEF outer, built
        <4>4. outer.prefix \in Seq(Copies)
          BY <4>1 DEF Frames
        <4>5. CASE j = Len(outer.prefix) + 1
          BY <4>2, <4>3, <4>4, <4>5
        <4>6. CASE j # Len(outer.prefix) + 1
          BY <4>1, <4>3, <4>4, <4>6
        <4> QED BY <4>5, <4>6
      <3> QED BY <3>1, <3>2
    <2>3. CASE stack' = <<>>
      BY <2>3
    <2> QED BY <1>0, <2>1, <2>2, <2>3, ReturnKeeps
  <1>5. CASE (\E p \in Ports : Edit(p)) \/ (\E request \in Requests : StartRun(request))
             \/ Report \/ Pack \/ Fail \/ FailToPack \/ Crash \/ Kill
    BY <1>1, <1>5 DEF Edit, StartRun, Report, Pack, Fail, FailToPack, Crash, Kill
  <1>6. CASE BuildPort \/ BuildBundled \/ BuildDependency
    <2>1. StackInv' /\ (stack' = Append(stack, stack'[Len(stack) + 1]))
          /\ stack'[Len(stack) + 1].prefix = <<>> /\ Len(stack) + 1 \in 1..Len(stack')
      BY <1>0, <1>6, CallsKeep DEF BuilderInv, BuildPort, BuildBundled, BuildDependency, Frame
    <2> QED BY <1>2, <2>1 DEF StackInv
  <1>7. CASE Rebuild \/ Compile \/ Install \/ Check \/ OpenMarker
    <2>1. stack # <<>> /\ Innermost \in Frames
      BY <1>0, <1>7, InnermostFrame DEF Rebuild, Compile, Install, Check, OpenMarker, At
    <2>2. \A at \in {"dependencies"} \cup Working :
             /\ [Innermost EXCEPT !.at = at] \in Frames
             /\ [Innermost EXCEPT !.at = at].prefix = Innermost.prefix
             /\ \A p \in Ports :
                   /\ [Innermost EXCEPT !.at = at, !.fingerprint = manifest[p]] \in Frames
                   /\ [Innermost EXCEPT !.at = at, !.fingerprint = manifest[p]].prefix =
                         Innermost.prefix
      BY <2>1 DEF Frames, BuilderInv, Directories
    <2>3. \E at \in {"dependencies"} \cup Working :
             \/ Move([Innermost EXCEPT !.at = at])
             \/ Move([Innermost EXCEPT !.at = at, !.fingerprint = manifest[Innermost.port]])
      BY <1>7 DEF Rebuild, Compile, Install, Check, OpenMarker, Working
    <2> QED BY <1>3, <2>1, <2>2, <2>3 DEF Frames
  <1> QED BY <1>4, <1>5, <1>6, <1>7 DEF BuilderNext, Work

(* The parts of a package are added one by one as the outermost call returns.*)
LEMMA PartsFrom ==
    ASSUME BuilderInv, [BuilderNext]_builderVars, Running', NEW i \in 1..Len(run'.parts)
    PROVE  \/ /\ Running /\ i \in 1..Len(run.parts) /\ run'.parts[i] = run.parts[i]
              /\ run'.todo = run.todo /\ run'.loaded = run.loaded
           \/ /\ Running /\ (Reuse \/ WriteMarker)
              /\ Len(stack) = 1 /\ i = Len(run.parts) + 1
              /\ run'.parts[i] = stage[Innermost.port]
              /\ run'.todo = run.todo /\ run'.loaded = run.loaded
  <1>1. CASE UNCHANGED run
    BY <1>1 DEF Running
  <1>2. CASE \E request \in Requests : StartRun(request)
    BY <1>2 DEF StartRun
  <1>3. CASE Report \/ Pack \/ Fail \/ FailToPack \/ Crash \/ Kill
    <2>1. Running /\ stack' = <<>>
      BY <1>3, CallsRun DEF BuilderInv, Report, Pack, Fail, FailToPack, Crash, Kill, At
    <2>2. \/ run' = Idle \/ NextPort(run.passed) \/ NextPort(run.passed \cup {Current})
      BY <1>3 DEF Report, Pack, Fail, FailToPack, Crash, Kill
    <2>3. run' = Idle \/ run'.parts = <<>>
      BY <2>1, <2>2, NextPortKeeps DEF BuilderInv
    <2> QED BY <2>3 DEF Running
  <1>4. CASE BuildPort
    <2>1. Running /\ run' = [run EXCEPT !.ports = manifest] /\ run \in Runs
      BY <1>4, RunFields DEF BuildPort, BuilderInv
    <2>2. run'.parts = run.parts /\ run'.todo = run.todo /\ run'.loaded = run.loaded
      BY <2>1 DEF Runs
    <2> QED BY <2>1, <2>2
  <1>5. CASE Reuse \/ WriteMarker
    <2> DEFINE built == stage[Innermost.port]
    <2>1. Return /\ UNCHANGED stage /\ built \in Built /\ stack # <<>> /\ Running
      BY <1>5, ReturnsKeep, CallsRun DEF Reuse, WriteMarker, At, BuilderInv
    <2>2. CASE Len(stack) = 1 /\ run' = [run EXCEPT !.parts = Append(@, built)]
      <3> HIDE DEF built
      <3>1. run \in Runs /\ run.parts \in Seq(Built)
        BY <2>1, RunFields DEF BuilderInv, Runs
      <3>2. run'.parts = Append(run.parts, built) /\ run'.todo = run.todo
            /\ run'.loaded = run.loaded
        BY <2>2, <3>1 DEF Runs
      <3>3. CASE i = Len(run.parts) + 1
        <4>1. run'.parts[i] = built
          BY <2>1, <3>1, <3>2, <3>3
        <4> QED BY <1>5, <2>1, <2>2, <3>2, <3>3, <4>1 DEF built
      <3>4. CASE i # Len(run.parts) + 1
        BY <2>1, <3>1, <3>2, <3>4
      <3> QED BY <3>3, <3>4
    <2>3. CASE UNCHANGED run
      BY <1>1, <2>3
    <2> QED BY <2>1, <2>2, <2>3, ReturnKeeps DEF BuilderInv
  <1>6. UNCHANGED run \/ (\E request \in Requests : StartRun(request))
        \/ Report \/ Pack \/ Fail \/ FailToPack \/ Crash \/ Kill \/ BuildPort \/ Reuse \/ WriteMarker
    BY DEF BuilderNext, Work, Edit, BuildBundled, Rebuild, BuildDependency, Compile, Install,
           Check, OpenMarker, builderVars
  <1> QED BY <1>1, <1>2, <1>3, <1>4, <1>5, <1>6

LEMMA PartsKeep ==
    ASSUME BuilderInv, CheckedInv, [BuilderNext]_builderVars, Running',
           NEW i \in 1..Len(run'.parts)
    PROVE  Whole(run'.parts[i])
  BY PartsFrom, ReturnedIsWhole DEF CheckedInv

(* An artifact that can be read was there, or is what is packed now.         *)
LEMMA ArtifactFrom ==
    ASSUME BuilderInv, [BuilderNext]_builderVars, NEW p \in Ports, Packed(p)'
    PROVE  \/ artifact'[p] = artifact[p]
           \/ /\ Pack /\ p = Current
              /\ artifact'[p] = [declared |-> run.loaded[Current], parts |-> run.parts]
  <1>1. artifact \in [Ports -> Artifacts \cup {None, Torn}]
    BY DEF BuilderInv, Directories
  <1>2. UNCHANGED artifact \/ Pack \/ artifact' = [artifact EXCEPT ![Current] = Torn]
    BY DEF BuilderNext, Work, Edit, StartRun, BuildPort, BuildBundled, Report,
           Reuse, Rebuild, BuildDependency, Compile, Install, Check, OpenMarker,
           WriteMarker, Fail, FailToPack, Crash, Kill, builderVars
  <1>3. CASE Pack
    BY <1>1, <1>3 DEF Pack
  <1>4. CASE artifact' = [artifact EXCEPT ![Current] = Torn]
    BY <1>1, <1>4 DEF Packed
  <1> QED BY <1>2, <1>3, <1>4

LEMMA CheckedKeeps ==
    ASSUME "install" \notin Breakable, BuilderInv, CheckedInv, [BuilderNext]_builderVars
    PROVE  CheckedInv'
  <1>0. /\ BuilderInv'
        /\ stack # <<>> => Innermost \in Frames /\ FrameInv(Innermost, stage)
                           /\ Len(stack) \in 1..Len(stack)
    BY BuilderKeeps, InnermostFrame DEF BuilderInv
  <1>1. ASSUME NEW p \in Ports, Vouched(p)'
        PROVE  stage'[p].checked
    <2>1. CASE Vouched(p) /\ stage'[p] = stage[p]
      BY <2>1 DEF CheckedInv
    <2>2. CASE stage'[p] = [manifest |-> Innermost.data, checked |-> TRUE,
                            linked |-> Innermost.prefix]
      BY <2>2
    <2> QED BY <1>1, <2>1, <2>2, VouchedFrom DEF CheckedInv
  <1>2. ASSUME NEW p \in Ports, Installed(p)', NEW i \in 1..Len(stage'[p].linked)
        PROVE  stage'[p].linked[i].checked
    <2>1. CASE stage'[p] = stage[p]
      BY <1>2, <2>1 DEF CheckedInv, Installed
    <2>2. CASE stage'[p] # stage[p]
      <3>0. Compile \/ Install \/ Check
        <4>1. UNCHANGED stage \/ Compile \/ Install \/ Check
          BY DEF BuilderNext, Work, Edit, StartRun, BuildPort, BuildBundled, Report, Pack,
                 Reuse, Rebuild, BuildDependency, OpenMarker, WriteMarker,
                 Fail, FailToPack, Crash, Kill, builderVars
        <4> QED BY <2>2, <4>1
      <3>1. /\ stack # <<>>
            /\ \/ stage' = [stage EXCEPT ![Innermost.port] = Emptied]
               \/ stage' = [stage EXCEPT ![Innermost.port] =
                               [manifest |-> Innermost.data, checked |-> FALSE,
                                linked |-> Innermost.prefix]]
               \/ Check
        BY <3>0 DEF Compile, Install, Check, At
      <3>2. stage \in [Ports -> Stages]
        BY DEF BuilderInv, Directories
      <3>3. \A j \in 1..Len(Innermost.prefix) : Innermost.prefix[j].checked
        BY <1>0, <3>1 DEF CheckedInv, Innermost
      <3>4. CASE Check
        <4>1. Innermost.at = "install" /\ stage' = [stage EXCEPT ![Innermost.port].checked = TRUE]
          BY <3>4 DEF Check, At
        <4>2. p = Innermost.port
          BY <2>2, <3>2, <4>1
        <4>3. stage[p] = [manifest |-> Innermost.data, checked |-> FALSE,
                          linked |-> Innermost.prefix]
          BY <1>0, <3>1, <4>1, <4>2 DEF FrameInv
        <4>4. stage'[p].linked = stage[p].linked
          <5>1. stage'[p] = [stage[p] EXCEPT !.checked = TRUE]
            BY <3>2, <4>1, <4>2
          <5> QED BY <5>1, <4>3
        <4> QED BY <1>2, <3>3, <4>3, <4>4
      <3>5. CASE stage' = [stage EXCEPT ![Innermost.port] = Emptied]
        BY <1>2, <2>2, <3>2, <3>5 DEF Installed
      <3>6. CASE stage' = [stage EXCEPT ![Innermost.port] =
                             [manifest |-> Innermost.data, checked |-> FALSE,
                              linked |-> Innermost.prefix]]
        <4>1. stage'[p].linked = Innermost.prefix
          BY <2>2, <3>2, <3>6
        <4> QED BY <1>2, <3>3, <4>1
      <3> QED BY <3>1, <3>4, <3>5, <3>6
    <2> QED BY <2>1, <2>2
  <1>3. ASSUME NEW i \in 1..Len(stack'), NEW j \in 1..Len(stack'[i].prefix)
        PROVE  stack'[i].prefix[j].checked
    <2>1. CASE BuilderNext
      BY <1>3, <2>1, PrefixesKeep
    <2>2. CASE UNCHANGED builderVars
      BY <1>3, <2>2 DEF builderVars, CheckedInv
    <2> QED BY <2>1, <2>2
  <1>4. ASSUME Running', NEW i \in 1..Len(run'.parts)
        PROVE  Whole(run'.parts[i])
    BY <1>4, PartsKeep DEF CheckedInv
  <1>5. PackedIsChecked'
    <2> SUFFICES ASSUME NEW p \in Ports, Packed(p)',
                        NEW i \in 1..Len(artifact'[p].parts)
                 PROVE  Whole(artifact'[p].parts[i])
      BY DEF PackedIsChecked, Whole
    <2>1. CASE artifact'[p] = artifact[p]
      BY <2>1 DEF CheckedInv, PackedIsChecked, Packed, Whole
    <2>2. CASE Pack /\ artifact'[p] = [declared |-> run.loaded[Current], parts |-> run.parts]
      BY <2>2 DEF Pack, CheckedInv
    <2> QED BY <2>1, <2>2, ArtifactFrom
  <1>6. OpenInv'
    BY OpenKeeps DEF CheckedInv
  <1> QED BY <1>1, <1>2, <1>3, <1>4, <1>5, <1>6 DEF CheckedInv

-----------------------------------------------------------------------------

(* No package has in it, or is linked with, a stage whose build broke off    *)
(* before the source tree was verified again and the executables             *)
(* transformed, if no build breaks off between installation and those        *)
(* checks: also with manifests edited while runs go on, and with builds that *)
(* break off when only their marker is to be written.                        *)
THEOREM PackedChecked == "install" \notin Breakable => (BuilderSpec => []PackedIsChecked)
  <1> SUFFICES ASSUME "install" \notin Breakable PROVE BuilderSpec => []PackedIsChecked
    OBVIOUS
  <1>1. BuilderInit => BuilderInv /\ CheckedInv
    <2>1. BuilderInit => CheckedInv
      BY DEF BuilderInit, CheckedInv, OpenInv, At, PackedIsChecked, Vouched, Installed, Packed, Running
    <2> QED BY <2>1, BuilderInitially
  <1>2. BuilderInv /\ CheckedInv /\ [BuilderNext]_builderVars => (BuilderInv /\ CheckedInv)'
    BY BuilderKeeps, CheckedKeeps
  <1>3. CheckedInv => PackedIsChecked
    BY DEF CheckedInv
  <1> QED BY <1>1, <1>2, <1>3, PTL DEF BuilderSpec

-----------------------------------------------------------------------------

(* The manifests that a run has loaded are those on disk.                    *)
LEMMA RunIsCurrent ==
    ASSUME Concurrent = {}, BuilderInv, CurrentInv, [BuilderNext]_builderVars, Running'
    PROVE  /\ run'.loaded = manifest' /\ run'.ports = manifest'
           /\ Running => UNCHANGED manifest
  <1>1. Running => UNCHANGED manifest
    BY DEF BuilderNext, Work, Edit, StartRun, BuildPort, BuildBundled, Report, Pack, Reuse,
           Rebuild, BuildDependency, Compile, Install, Check, OpenMarker, WriteMarker, Fail,
           FailToPack, Crash, Kill, builderVars
  <1>2. CASE UNCHANGED run
    BY <1>1, <1>2 DEF CurrentInv, Running
  <1>3. CASE \E request \in Requests : StartRun(request)
    BY <1>3 DEF StartRun, Running
  <1>4. CASE Report \/ Pack \/ Fail \/ FailToPack \/ Crash \/ Kill
    <2>1. Running /\ stack' = <<>>
      BY <1>4, CallsRun DEF BuilderInv, Report, Pack, Fail, FailToPack, Crash, Kill, At
    <2>2. \/ run' = Idle \/ NextPort(run.passed) \/ NextPort(run.passed \cup {Current})
      BY <1>4 DEF Report, Pack, Fail, FailToPack, Crash, Kill
    <2>3. run' = Idle \/ (run'.loaded = run.loaded /\ run'.ports = run.ports)
      BY <2>1, <2>2, NextPortKeeps DEF BuilderInv
    <2> QED BY <1>1, <2>1, <2>3 DEF Running, CurrentInv
  <1>5. CASE BuildPort
    <2>1. Running /\ run' = [run EXCEPT !.ports = manifest] /\ run \in Runs
      BY <1>5, RunFields DEF BuildPort, BuilderInv
    <2>2. run'.ports = manifest /\ run'.loaded = run.loaded
      BY <2>1 DEF Runs
    <2> QED BY <1>1, <2>1, <2>2 DEF CurrentInv
  <1>6. CASE Reuse \/ WriteMarker
    <2>1. Return /\ UNCHANGED stage /\ stage[Innermost.port] \in Built /\ stack # <<>> /\ Running
      BY <1>6, ReturnsKeep, CallsRun DEF Reuse, WriteMarker, At, BuilderInv
    <2>2. run \in Runs
      BY <2>1, RunFields DEF BuilderInv
    <2>3. run'.loaded = run.loaded /\ run'.ports = run.ports
      BY <2>1, <2>2, ReturnKeeps DEF BuilderInv, Runs
    <2> QED BY <1>1, <2>1, <2>3 DEF CurrentInv
  <1>7. UNCHANGED run \/ (\E request \in Requests : StartRun(request))
        \/ Report \/ Pack \/ Fail \/ FailToPack \/ Crash \/ Kill \/ BuildPort \/ Reuse \/ WriteMarker
    BY DEF BuilderNext, Work, Edit, BuildBundled, Rebuild, BuildDependency, Compile, Install,
           Check, OpenMarker, builderVars
  <1> QED BY <1>1, <1>2, <1>3, <1>4, <1>5, <1>6, <1>7

(* A stage that a call returns was made from the manifest as it is.          *)
LEMMA ReturnedIsCurrent ==
    ASSUME BuilderInv, CurrentInv, Reuse \/ WriteMarker
    PROVE  stage[Innermost.port].manifest = manifest[Innermost.port]
  <1>0. stack # <<>> /\ Innermost \in Frames /\ FrameInv(Innermost, stage)
        /\ Len(stack) \in 1..Len(stack)
    <2>1. stack # <<>>
      BY DEF Reuse, WriteMarker, At
    <2> QED BY <2>1, InnermostFrame DEF BuilderInv
  <1>1. CASE Reuse
    <2>1. Innermost.at = "enter" /\ Reusable(Innermost.port) /\ Innermost.port \in Ports
      BY <1>0, <1>1 DEF Reuse, At, Frames
    <2>2. ~Underway(Innermost.port)
      BY <2>1, InnermostWorks DEF BuilderInv, Working
    <2> QED BY <2>1, <2>2 DEF Reusable, CurrentInv, MarkerIsTrue, BuilderInv, Directories
  <1>2. CASE WriteMarker
    <2>1. stage[Innermost.port] = [manifest |-> Innermost.data, checked |-> TRUE,
                                   linked |-> Innermost.prefix]
      BY <1>0, <1>2 DEF WriteMarker, At, FrameInv
    <2> QED BY <1>0, <2>1 DEF CurrentInv, Innermost, IsCurrent
  <1> QED BY <1>1, <1>2

LEMMA FramesAreCurrent ==
    ASSUME Concurrent = {}, BuilderInv, CurrentInv, BuilderNext, NEW i \in 1..Len(stack')
    PROVE  IsCurrent(stack'[i], manifest')
  <1>0. /\ stack \in Seq(Frames) /\ StackInv /\ Len(stack) \in Nat
        /\ \A k \in 1..Len(stack) : IsCurrent(stack[k], manifest)
        /\ stack # <<>> => Running
    BY CallsRun DEF BuilderInv, StackInv, CurrentInv
  <1>1. CASE stack' = <<>>
    BY <1>1
  <1>2. CASE stack' = stack /\ UNCHANGED manifest
    BY <1>0, <1>2
  <1>3. CASE (\E p \in Ports : Edit(p)) \/ (\E request \in Requests : StartRun(request))
             \/ Report \/ Pack \/ Fail \/ FailToPack \/ Crash \/ Kill
    <2>1. stack' = <<>>
      BY <1>0, <1>3 DEF Edit, StartRun, Report, Pack, Fail, FailToPack, Crash, Kill
    <2> QED BY <1>1, <2>1
  <1>4. CASE BuildPort \/ BuildBundled \/ BuildDependency
    <2>1. Running /\ UNCHANGED manifest /\ run \in Runs
      BY <1>0, <1>4, RunFields DEF BuildPort, BuildBundled, BuildDependency, At, BuilderInv
    <2>2. run.loaded = manifest /\ run.ports = manifest
      BY <2>1 DEF CurrentInv
    <2>3. \E p, cached : stack' = Append(stack, Frame(p, manifest[p], cached))
      <3>1. CASE BuildPort
        <4> DEFINE cached == run.action = "package" /\ ~run.force
        <4>1. stack = <<>> /\ stack' = <<Frame(Current, run.loaded[Current], cached)>>
          BY <3>1 DEF BuildPort
        <4> HIDE DEF cached
        <4>2. stack' = Append(stack, Frame(Current, manifest[Current], cached))
          BY <2>2, <4>1
        <4> QED BY <4>2
      <3>2. CASE BuildBundled
        <4> DEFINE p == Bundled[Current][Len(run.parts)]
        <4>1. stack = <<>> /\ stack' = <<Frame(p, run.ports[p], TRUE)>>
          BY <3>2 DEF BuildBundled
        <4> HIDE DEF p
        <4>2. stack' = Append(stack, Frame(p, manifest[p], TRUE))
          BY <2>2, <4>1
        <4> QED BY <4>2
      <3>3. CASE BuildDependency
        <4> DEFINE p == Dependencies[Innermost.port][Len(Innermost.prefix) + 1]
        <4>1. stack' = Append(stack, Frame(p, run.ports[p], TRUE))
          BY <3>3 DEF BuildDependency
        <4> HIDE DEF p
        <4> QED BY <2>2, <4>1
      <3> QED BY <1>4, <3>1, <3>2, <3>3
    <2>4. PICK p, cached : stack' = Append(stack, Frame(p, manifest[p], cached))
      BY <2>3
    <2>5. IsCurrent(Frame(p, manifest[p], cached), manifest)
      BY DEF Frame, IsCurrent
    <2> DEFINE frame == Frame(p, manifest[p], cached)
    <2> HIDE DEF frame
    <2>6. stack' = Append(stack, frame) /\ IsCurrent(frame, manifest)
      BY <2>4, <2>5 DEF frame
    <2>7. stack'[i] = frame \/ (i \in 1..Len(stack) /\ stack'[i] = stack[i])
      BY <1>0, <2>6
    <2> QED BY <1>0, <2>1, <2>6, <2>7
  <1>5. CASE Rebuild \/ Compile \/ Install \/ Check \/ OpenMarker
    <2>1. stack # <<>> /\ Innermost \in Frames /\ Len(stack) \in 1..Len(stack) /\ UNCHANGED manifest
          /\ IsCurrent(Innermost, manifest)
      BY <1>0, <1>5, InnermostFrame DEF Rebuild, Compile, Install, Check, OpenMarker, At, Innermost
    <2>2. PICK frame : Move(frame) /\ IsCurrent(frame, manifest)
      <3>1. CASE Rebuild
        <4> DEFINE next == [Innermost EXCEPT !.at = "dependencies",
                                             !.fingerprint = manifest[Innermost.port]]
        <4>1. Move(next)
          BY <3>1 DEF Rebuild
        <4>2. next.port = Innermost.port /\ next.data = Innermost.data
              /\ next.fingerprint = manifest[Innermost.port] /\ next.prefix = Innermost.prefix
          BY <2>1 DEF Frames
        <4> HIDE DEF next
        <4>3. IsCurrent(next, manifest)
          BY <2>1, <4>2 DEF IsCurrent
        <4> QED BY <4>1, <4>3
      <3>2. CASE Compile \/ Install \/ Check \/ OpenMarker
        <4>1. PICK at \in Working : Move([Innermost EXCEPT !.at = at]) /\ Innermost.at # "enter"
          BY <3>2 DEF Compile, Install, Check, OpenMarker, At, Working
        <4> DEFINE next == [Innermost EXCEPT !.at = at]
        <4>2. next.port = Innermost.port /\ next.data = Innermost.data
              /\ next.fingerprint = Innermost.fingerprint /\ next.prefix = Innermost.prefix
          BY <2>1 DEF Frames
        <4> HIDE DEF next
        <4>3. IsCurrent(next, manifest)
          BY <2>1, <4>1, <4>2 DEF IsCurrent
        <4> QED BY <4>1, <4>3 DEF next
      <3> QED BY <1>5, <3>1, <3>2
    <2>3. stack'[i] = frame \/ (i \in 1..Len(stack) /\ stack'[i] = stack[i])
      BY <1>0, <2>1, <2>2 DEF Move
    <2> QED BY <1>0, <2>1, <2>2, <2>3
  <1>6. CASE Reuse \/ WriteMarker
    <2> DEFINE built == stage[Innermost.port]
               outer == stack[Len(stack) - 1]
    <2>1. Return /\ UNCHANGED <<stage, manifest>> /\ built \in Built /\ stack # <<>>
          /\ built.manifest = manifest[Innermost.port]
      BY <1>6, ReturnsKeep, ReturnedIsCurrent DEF Reuse, WriteMarker, At
    <2>2. CASE Len(stack) > 1 /\ Len(stack') = Len(stack) - 1
               /\ (\A k \in 1..Len(stack) - 2 : stack'[k] = stack[k])
               /\ stack'[Len(stack) - 1] = [outer EXCEPT !.prefix = Append(@, Copy(built))]
      <3>1. CASE i # Len(stack) - 1
        BY <1>0, <2>1, <2>2, <3>1
      <3>2. CASE i = Len(stack) - 1
        <4>1. outer \in Frames /\ IsCurrent(outer, manifest) /\ Waits(outer, Innermost)
          <5>1. Len(stack) - 1 \in 1..Len(stack) - 1 /\ Len(stack) - 1 \in 1..Len(stack)
                /\ Len(stack) - 1 + 1 = Len(stack)
            BY <1>0, <2>2
          <5>2. Waits(stack[Len(stack) - 1], stack[Len(stack) - 1 + 1])
            BY <1>0, <5>1 DEF StackInv
          <5> QED BY <1>0, <5>1, <5>2 DEF Innermost
        <4>2. Copy(built).manifest = manifest[Innermost.port]
          BY <2>1 DEF Copy
        <4>3. stack'[i].prefix = Append(outer.prefix, Copy(built))
              /\ stack'[i].port = outer.port /\ stack'[i].at = outer.at
              /\ stack'[i].data = outer.data /\ stack'[i].fingerprint = outer.fingerprint
          BY <2>2, <3>2, <4>1 DEF Frames
        <4>4. outer.prefix \in Seq(Copies)
          BY <4>1 DEF Frames
        <4> HIDE DEF outer, built
        <4> SUFFICES ASSUME NEW j \in 1..Len(stack'[i].prefix)
                     PROVE  stack'[i].prefix[j].manifest = manifest[Dependencies[outer.port][j]]
          BY <2>1, <4>1, <4>3 DEF IsCurrent
        <4>5. CASE j = Len(outer.prefix) + 1
          BY <4>1, <4>2, <4>3, <4>4, <4>5 DEF Waits
        <4>6. CASE j # Len(outer.prefix) + 1
          BY <4>1, <4>3, <4>4, <4>6 DEF IsCurrent
        <4> QED BY <4>5, <4>6
      <3> QED BY <3>1, <3>2
    <2> QED BY <1>0, <1>1, <2>1, <2>2, ReturnKeeps
  <1> QED BY <1>3, <1>4, <1>5, <1>6 DEF BuilderNext, Work

LEMMA CurrentKeeps ==
    ASSUME Concurrent = {}, Breakable \cap {"install", "marker"} = {},
           BuilderInv, OpenInv, CurrentInv, [BuilderNext]_builderVars
    PROVE  CurrentInv'
  <1>0. stack # <<>> => /\ Innermost \in Frames /\ FrameInv(Innermost, stage)
                        /\ Len(stack) \in 1..Len(stack) /\ IsCurrent(Innermost, manifest)
    BY InnermostFrame DEF BuilderInv, CurrentInv, Innermost
  <1>1. ASSUME Running', run'.parts # <<>>
        PROVE  run'.parts[1].manifest = manifest'[Current']
    <2>1. 1 \in 1..Len(run'.parts)
      <3>1. BuilderInv' /\ run' # Idle
        BY <1>1, BuilderKeeps DEF Running
      <3>2. run'.parts \in Seq(Built)
        BY <3>1 DEF BuilderInv, RunInv, Runs
      <3> QED BY <1>1, <3>2
    <2>2. Running => UNCHANGED manifest
      BY <1>1, RunIsCurrent
    <2>3. CASE /\ Running /\ 1 \in 1..Len(run.parts) /\ run'.parts[1] = run.parts[1]
               /\ run'.todo = run.todo
      <3>1. run.parts # <<>>
        BY <2>3
      <3> QED BY <2>2, <2>3, <3>1 DEF CurrentInv, Current
    <2>4. CASE /\ Running /\ (Reuse \/ WriteMarker)
               /\ Len(stack) = 1 /\ 1 = Len(run.parts) + 1
               /\ run'.parts[1] = stage[Innermost.port] /\ run'.todo = run.todo
      <3>1. run.parts = <<>> /\ stack # <<>>
        <4>1. run.parts \in Seq(Built) /\ Len(run.parts) \in Nat
          BY <2>4, RunFields DEF BuilderInv, Runs
        <4> QED BY <2>4, <4>1 DEF Reuse, WriteMarker, At
      <3>2. Innermost.port = Current
        BY <2>4, <3>1 DEF BuilderInv, RunInv, Innermost
      <3> QED BY <2>2, <2>4, <3>2, ReturnedIsCurrent DEF Current
    <2> QED BY <1>1, <2>1, <2>3, <2>4, PartsFrom
  <1>2. ASSUME NEW i \in 1..Len(stack')
        PROVE  IsCurrent(stack'[i], manifest')
    <2>1. CASE BuilderNext
      BY <1>2, <2>1, FramesAreCurrent
    <2>2. CASE UNCHANGED builderVars
      BY <1>2, <2>2 DEF builderVars, CurrentInv
    <2> QED BY <2>1, <2>2
  <1>3. ASSUME NEW p \in Ports, Vouched(p)'
        PROVE  stage'[p].checked /\ stage'[p].manifest = marker'[p]
    <2>1. CASE Vouched(p) /\ marker'[p] = marker[p] /\ stage'[p] = stage[p]
      BY <2>1 DEF CurrentInv, MarkerIsTrue, Vouched
    <2>2. CASE /\ WriteMarker /\ p = Innermost.port
               /\ marker'[p] = Innermost.fingerprint /\ stage'[p] = stage[p]
               /\ stage[p] = [manifest |-> Innermost.data, checked |-> TRUE,
                              linked |-> Innermost.prefix]
      BY <1>0, <2>2 DEF WriteMarker, At, IsCurrent
    <2> QED BY <1>3, <2>1, <2>2, VouchedFrom
  <1>4. ASSUME NEW p \in Ports, Packed(p)'
        PROVE  artifact'[p].parts[1].manifest = artifact'[p].declared
    <2>1. CASE artifact'[p] = artifact[p]
      BY <1>4, <2>1 DEF CurrentInv, PackedIsDeclared, Packed
    <2>2. CASE /\ Pack /\ p = Current
               /\ artifact'[p] = [declared |-> run.loaded[Current], parts |-> run.parts]
      <3>1. Running /\ Len(run.parts) = 1 + Len(Bundled[Current]) /\ Bundled[Current] \in Seq(Ports)
        BY <2>2, CatalogAssumption DEF Pack, PackingComplete
      <3>2. run.parts # <<>>
        <4>1. Len(Bundled[Current]) \in Nat
          BY <3>1
        <4> QED BY <3>1, <4>1
      <3> QED BY <2>2, <3>1, <3>2 DEF CurrentInv
    <2> QED BY <1>4, <2>1, <2>2, ArtifactFrom
  <1> QED BY <1>1, <1>2, <1>3, <1>4, RunIsCurrent
          DEF CurrentInv, MarkerIsTrue, PackedIsDeclared, Vouched

(* Only the end of a build writes a marker that can be read, for a stage     *)
(* linked with what the calls below have returned.                           *)
LEMMA LinkedWithCurrent ==
    ASSUME BuilderInv, CheckedInv, CurrentInv, BuilderNext,
           NEW p \in Ports, marker'[p] # marker[p], marker'[p] \in Revisions,
           NEW i \in 1..Len(Dependencies[p])
    PROVE  stage'[p].linked[i] = [manifest |-> manifest[Dependencies[p][i]], checked |-> TRUE]
  <1>1. marker \in [Ports -> Revisions \cup {None, Torn}]
    BY DEF BuilderInv, Directories
  <1>2. UNCHANGED marker \/ marker' \in {[marker EXCEPT ![Innermost.port] = None],
                                         [marker EXCEPT ![Innermost.port] = Torn]}
        \/ WriteMarker
    BY DEF BuilderNext, Work, Edit, StartRun, BuildPort, BuildBundled, Report, Pack, Reuse,
           Rebuild, Refuse, BuildDependency, Compile, Install, Check, OpenMarker, Fail, FailToPack,
           Crash, Kill
  <1>3. WriteMarker
    BY <1>1, <1>2, AbsentAssumption
  <1>4. /\ stack # <<>> /\ Innermost.at = "write" /\ UNCHANGED stage
        /\ marker' = [marker EXCEPT ![Innermost.port] = Innermost.fingerprint]
    BY <1>3 DEF WriteMarker, At
  <1>5. p = Innermost.port
    BY <1>1, <1>4
  <1>6. Innermost \in Frames /\ FrameInv(Innermost, stage) /\ Len(stack) \in 1..Len(stack)
    BY <1>4, InnermostFrame DEF BuilderInv
  <1>7. /\ stage[p] = [manifest |-> Innermost.data, checked |-> TRUE, linked |-> Innermost.prefix]
        /\ i \in 1..Len(Innermost.prefix)
    BY <1>4, <1>5, <1>6 DEF FrameInv, Working
  <1>8. /\ Innermost.prefix[i].checked
        /\ Innermost.prefix[i].manifest = manifest[Dependencies[p][i]]
    BY <1>5, <1>6, <1>7 DEF CheckedInv, CurrentInv, IsCurrent, Innermost
  <1>9. Innermost.prefix[i] \in Copies
    BY <1>6, <1>7 DEF Frames
  <1>10. Innermost.prefix[i] = [manifest |-> manifest[Dependencies[p][i]], checked |-> TRUE]
    BY <1>8, <1>9 DEF Copies
  <1> QED BY <1>4, <1>7, <1>10

(* No build breaks off between installation and the opening of its marker,   *)
(* and nobody edits a manifest while a run goes on.                          *)
Orderly == Breakable \cap {"install", "marker"} = {} /\ Concurrent = {}

LEMMA OrderlyInv ==
    Orderly => (BuilderSpec => [](BuilderInv /\ CheckedInv /\ CurrentInv))
  <1> SUFFICES ASSUME Orderly
               PROVE  BuilderSpec => [](BuilderInv /\ CheckedInv /\ CurrentInv)
    OBVIOUS
  <1>1. BuilderInit => BuilderInv /\ CheckedInv /\ CurrentInv
    BY BuilderInitially
       DEF BuilderInit, CheckedInv, OpenInv, At, PackedIsChecked, Vouched, Installed, Packed, Running,
           CurrentInv, MarkerIsTrue, PackedIsDeclared
  <1>2. BuilderInv /\ CheckedInv /\ CurrentInv /\ [BuilderNext]_builderVars =>
           (BuilderInv /\ CheckedInv /\ CurrentInv)'
    BY BuilderKeeps, CheckedKeeps, CurrentKeeps DEF Orderly, CheckedInv
  <1> QED BY <1>1, <1>2, PTL DEF BuilderSpec

(* A marker that can be read tells the truth about a stage that is there,    *)
(* whatever was edited, built and broken off before, but for builds that     *)
(* broke off between installation and the opening of their marker.           *)
THEOREM MarkerTrue == Orderly => (BuilderSpec => []MarkerIsTrue)
  <1>1. BuilderInv /\ CheckedInv /\ CurrentInv => MarkerIsTrue
    BY DEF CurrentInv
  <1> QED BY <1>1, OrderlyInv, PTL

(* The stage in a package was built from the manifest its control file and   *)
(* source.json were written from, on the same conditions.                    *)
THEOREM PackedDeclared == Orderly => (BuilderSpec => []PackedIsDeclared)
  <1>1. BuilderInv /\ CheckedInv /\ CurrentInv => PackedIsDeclared
    BY DEF CurrentInv
  <1> QED BY <1>1, OrderlyInv, PTL

(* Whenever a marker is written, also with the fingerprint it had before the *)
(* build opened it, the stage under it was linked with checked stages of the *)
(* current manifest of each of its direct dependencies, whether these were   *)
(* built on the way or found in the cache.  On the same conditions.          *)
THEOREM LinkedCurrent == Orderly => (BuilderSpec => LinkedIsCurrent)
  <1> DEFINE Linked ==
        \A p \in Ports :
           marker'[p] # marker[p] /\ marker'[p] \in Revisions =>
              \A i \in 1..Len(Dependencies[p]) :
                 stage'[p].linked[i] = [manifest |-> manifest[Dependencies[p][i]], checked |-> TRUE]
  <1>1. BuilderInv /\ CheckedInv /\ CurrentInv /\ [BuilderNext]_builderVars => [Linked]_builderVars
    BY LinkedWithCurrent
  <1> QED BY <1>1, OrderlyInv, PTL DEF BuilderSpec, LinkedIsCurrent
=============================================================================
