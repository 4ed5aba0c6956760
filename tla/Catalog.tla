------------------------------- MODULE Catalog -------------------------------
(***************************************************************************)
(* scripts/ports.py: what main makes of the manifests before it acts on    *)
(* them (validate_catalog, load_batches), and the recursive walks over     *)
(* them of the actions build and package: build_port down                  *)
(* build.dependencies and runtime_bundle_dependencies down                 *)
(* runtime.exec_dependencies.  A recursive call is a frame of a stack.     *)
(*                                                                         *)
(* main validates the manifests it has loaded.  build_port and             *)
(* package_port load them again and do not validate them again: only the   *)
(* port that was asked for still comes from the catalog main accepted.     *)
(***************************************************************************)
EXTENDS Naturals, FiniteSets, SequencesExt

CONSTANTS
    Ports,        \* the directories below ports/
    Unknown,      \* names in the lists of a manifest that no port has
    Commands,     \* the names of the commands they provide
    Order,        \* the order load_ports returns them in
    MinVisible,   \* the number of user-visible packages there must be
    Catalogs,     \* contents the manifests and batches.toml can have
    Reloads(_),   \* what a catalog can have become when it is loaded again
    NoPort        \* the caller of the outermost calls

ASSUME OrderAssumption ==
    Order \in Seq(Ports) /\ ToSet(Order) = Ports /\ IsInjective(Order)
ASSUME NoPortAssumption == NoPort \notin Ports /\ Unknown \cap Ports = {}

VARIABLES
    loaded,       \* the manifests main has loaded
    ports,        \* the manifests the action in hand has loaded
    phase,        \* what the process is doing, or how it has ended
    request,      \* the action, and the port it was asked for
    stack,        \* the calls of the recursive function, innermost last
    visiting, visited, ordered,  \* the variables of the two visit functions
    chain         \* the names in the message of a circle that was reported

catalogVars ==
    <<loaded, ports, phase, request, stack, visiting, visited, ordered, chain>>

Ended == {"refused", "accepted", "built", "packaged", "failed", "crashed"}
Phases == {"validate", "visit", "build", "collect", "bundle"} \cup Ended

-----------------------------------------------------------------------------

(* build and exec give the lists of build.dependencies and                   *)
(* runtime.exec_dependencies, formed the ports whose fields are as they      *)
(* should be; a build-only port has no runtime table, which is an empty list *)
(* of commands.                                                              *)
Names(c) == DOMAIN c.build
user_visible(c, p) == p \in c.visible

(* load_ports has each directory once; nothing is known of the names in the  *)
(* lists, nor of what the manifests are when they are loaded again.          *)
IsCatalog(c) ==
    /\ Names(c) \subseteq Ports /\ DOMAIN c.exec = Names(c)
    /\ \A p \in Names(c) :
          /\ c.build[p] \in Seq(Ports \cup Unknown) /\ c.exec[p] \in Seq(Ports \cup Unknown)
          /\ c.commands[p] \in Seq(Commands)
    /\ c.batches \in Seq(Seq(Ports \cup Unknown))
ASSUME CatalogsAssumption ==
    \A c \in Catalogs :
       IsCatalog(c) /\ Names(c) = Ports /\ \A r \in Reloads(c) : IsCatalog(r)

Visible(c) == {p \in Names(c) : user_visible(c, p)}

(* The fields of the manifest have the form they should, and a user-visible  *)
(* port has a command.                                                       *)
validate_port(c, p) ==
    p \in c.formed /\ (user_visible(c, p) => c.commands[p] # <<>>)

(* Faulty variant: the ports a port executes are not looked up.              *)
Known_NotExecuted(c) ==
    \A p \in Names(c) : ToSet(c.build[p]) \cup c.depends[p] \subseteq Names(c)

(* Every name in a list of dependencies is that of a port.                   *)
Known(c) ==
    \A p \in Names(c) :
       ToSet(c.build[p]) \cup ToSet(c.exec[p]) \cup c.depends[p] \subseteq Names(c)

(* No command is provided by two ports.  One port may list one twice.        *)
OneOwner(c) ==
    \A p, q \in Names(c) :
       p # q => ToSet(c.commands[p]) \cap ToSet(c.commands[q]) = {}

(* Faulty variant: a port may be in several batches.                         *)
load_batches_Overlapping(c) ==
    LET flattened == FlattenSeq(c.batches)
    IN /\ c.batches # <<>> /\ \A i \in DOMAIN c.batches : c.batches[i] # <<>>
       /\ ToSet(flattened) \subseteq Visible(c)
       /\ Visible(c) \subseteq ToSet(flattened)

(* The batches are accepted: every user-visible port is in exactly one.      *)
load_batches(c) ==
    LET flattened == FlattenSeq(c.batches)
    IN /\ c.batches # <<>> /\ \A i \in DOMAIN c.batches : c.batches[i] # <<>>
       /\ ToSet(flattened) \subseteq Names(c)
       /\ IsInjective(flattened)
       /\ ToSet(flattened) \subseteq Visible(c)
       /\ Visible(c) \subseteq ToSet(flattened)

-----------------------------------------------------------------------------

(* A call for port has still to go through todo.                             *)
Frame(port, todo) == [port |-> port, todo |-> todo]
Innermost == Last(stack)
Callers == {stack[i].port : i \in 2..Len(stack)}
Child == Head(Innermost.todo)
HasChild == Innermost.todo # <<>>

(* The innermost call is done with its next child.                           *)
Passed == [stack EXCEPT ![Len(stack)].todo = Tail(@)]
Call(p, todo) == stack' = Append(Passed, Frame(p, todo))
Return == stack' = Front(stack)
InnerCall == Len(stack) > 1
ChainTo(p) == [i \in 1..(Len(stack) - 1) |-> stack[i + 1].port] \o <<p>>

End(how) ==
    /\ phase' = how
    /\ stack' = <<>>
    /\ visiting' = {} /\ visited' = {}

CatalogInit ==
    /\ loaded \in Catalogs
    /\ ports = loaded
    /\ phase = "validate"
    /\ request = [action |-> "validate", port |-> NoPort]
    /\ stack = <<>>
    /\ visiting = {} /\ visited = {} /\ ordered = <<>>
    /\ chain = <<>>

-----------------------------------------------------------------------------

(* validate_catalog up to its walk over the build dependencies.              *)
Validate ==
    /\ phase = "validate"
    /\ IF /\ Cardinality(Visible(loaded)) >= MinVisible
          /\ \A p \in Names(loaded) : validate_port(loaded, p)
          /\ OneOwner(loaded) /\ Known(loaded)
       THEN /\ phase' = "visit"
            /\ stack' = <<Frame(NoPort, Order)>>
            /\ UNCHANGED <<visiting, visited>>
       ELSE End("refused")
    /\ UNCHANGED <<loaded, ports, request, ordered, chain>>

-----------------------------------------------------------------------------

(* visit in validate_catalog and visit in runtime_bundle_dependencies are    *)
(* one function, but for the lists they follow, the ports they turn away,    *)
(* and the list the second one makes.                                        *)
Visits == phase \in {"visit", "collect"}
Lists == IF phase = "visit" THEN loaded.build ELSE ports.exec
Fit(p) == phase = "visit" \/ (p \in Names(ports) /\ user_visible(ports, p))

(* Faulty variant: a port is done with as soon as it is entered.             *)
Enter_Done ==
    /\ Visits /\ HasChild
    /\ Child \notin visiting \cup visited /\ Fit(Child)
    /\ visited' = visited \cup {Child}
    /\ Call(Child, Lists[Child])
    /\ UNCHANGED <<loaded, ports, phase, request, visiting, ordered, chain>>

Enter ==
    /\ Visits /\ HasChild
    /\ Child \notin visiting \cup visited /\ Fit(Child)
    /\ visiting' = visiting \cup {Child}
    /\ Call(Child, Lists[Child])
    /\ UNCHANGED <<loaded, ports, phase, request, visited, ordered, chain>>

(* A port to be executed is unknown, or has no commands.                     *)
Unfit ==
    /\ Visits /\ HasChild
    /\ Child \notin visiting \cup visited /\ ~Fit(Child)
    /\ End("failed")
    /\ UNCHANGED <<loaded, ports, request, ordered, chain>>

Again ==
    /\ Visits /\ HasChild
    /\ Child \in visited \ visiting
    /\ stack' = Passed
    /\ UNCHANGED <<loaded, ports, phase, request, visiting, visited, ordered, chain>>

(* Faulty variant: the circle is noted, and walked again.                    *)
Circle_Noted ==
    /\ Visits /\ HasChild
    /\ Child \in visiting
    /\ chain' = ChainTo(Child)
    /\ UNCHANGED <<loaded, ports, phase, request, stack, visiting, visited, ordered>>

Circle ==
    /\ Visits /\ HasChild
    /\ Child \in visiting
    /\ chain' = (IF phase = "visit" THEN <<>> ELSE <<request.port>>) \o ChainTo(Child)
    /\ End(IF phase = "visit" THEN "refused" ELSE "failed")
    /\ UNCHANGED <<loaded, ports, request, ordered>>

(* Faulty variants: the port is still being visited when its visit is over;  *)
(* a port is put before the ports it executes.                               *)
Leave_StaysVisiting ==
    /\ Visits /\ ~HasChild /\ InnerCall
    /\ visited' = visited \cup {Innermost.port}
    /\ ordered' = IF phase = "visit" THEN ordered ELSE Append(ordered, Innermost.port)
    /\ Return
    /\ UNCHANGED <<loaded, ports, phase, request, visiting, chain>>
Leave_InFront ==
    /\ Visits /\ ~HasChild /\ InnerCall
    /\ visiting' = visiting \ {Innermost.port}
    /\ visited' = visited \cup {Innermost.port}
    /\ ordered' = IF phase = "visit" THEN ordered ELSE <<Innermost.port>> \o ordered
    /\ Return
    /\ UNCHANGED <<loaded, ports, phase, request, chain>>

Leave ==
    /\ Visits /\ ~HasChild /\ InnerCall
    /\ visiting' = visiting \ {Innermost.port}
    /\ visited' = visited \cup {Innermost.port}
    /\ ordered' = IF phase = "visit" THEN ordered ELSE Append(ordered, Innermost.port)
    /\ Return
    /\ UNCHANGED <<loaded, ports, phase, request, chain>>

-----------------------------------------------------------------------------

(* All ports are visited, and main loads the batches.                        *)
Accept ==
    /\ phase = "visit" /\ ~HasChild /\ ~InnerCall
    /\ End(IF load_batches(loaded) THEN "accepted" ELSE "refused")
    /\ UNCHANGED <<loaded, ports, request, ordered, chain>>

-----------------------------------------------------------------------------

(* build_port or package_port of a port main found in its catalog.           *)
Begin(action, p) ==
    /\ phase = "accepted"
    /\ ports' \in Reloads(loaded)
    /\ request' = [action |-> action, port |-> p]
    /\ phase' = "build"
    /\ stack' = <<Frame(NoPort, <<p>>)>>
    /\ UNCHANGED <<loaded, visiting, visited, ordered, chain>>

(* build_port is at work: for the port that was asked for, or, once they are *)
(* known, for the ports of its bundle.  Only the first call of all is given  *)
(* a port from the catalog main loaded.                                      *)
Building == phase \in {"build", "bundle"}
Manifest == IF phase = "build" /\ ~InnerCall THEN loaded ELSE ports

(* Faulty variant: build_port relies on validate_catalog.                    *)
BuildPort_Trusting ==
    /\ Building /\ HasChild
    /\ Child \in Names(Manifest)
    /\ Call(Child, Manifest.build[Child]) \/ stack' = Passed
    /\ UNCHANGED <<loaded, ports, phase, request, visiting, visited, ordered, chain>>

(* A call of build_port goes down the dependencies of the port in turn,      *)
(* unless a cached stage answers it.                                         *)
BuildPort ==
    /\ Building /\ HasChild
    /\ Child \in Names(Manifest) \ Callers
    /\ Call(Child, Manifest.build[Child]) \/ stack' = Passed
    /\ UNCHANGED <<loaded, ports, phase, request, visiting, visited, ordered, chain>>

(* Nobody catches the KeyError of a name that is no port any more.           *)
BuildUnknown ==
    /\ Building /\ HasChild
    /\ Child \notin Names(Manifest)
    /\ End("crashed")
    /\ UNCHANGED <<loaded, ports, request, ordered, chain>>

BuildCircle ==
    /\ Building /\ HasChild
    /\ Child \in Names(Manifest) \cap Callers
    /\ chain' = ChainTo(Child)
    /\ End("failed")
    /\ UNCHANGED <<loaded, ports, request, ordered>>

BuildDone ==
    /\ Building /\ ~HasChild /\ InnerCall
    /\ Return
    /\ UNCHANGED <<loaded, ports, phase, request, visiting, visited, ordered, chain>>

(* The stage that was asked for is there.  package_port goes on to the       *)
(* bundle, unless the port is build-only: it has no runtime table to look    *)
(* into.  The port itself is not put into visiting.                          *)
Built ==
    /\ phase = "build" /\ ~HasChild /\ ~InnerCall
    /\ IF request.action = "build"
       THEN End("built")
       ELSE IF loaded.commands[request.port] = <<>>
       THEN End("crashed")
       ELSE /\ phase' = "collect"
            /\ stack' = <<Frame(request.port, loaded.exec[request.port])>>
            /\ UNCHANGED <<visiting, visited>>
    /\ UNCHANGED <<loaded, ports, request, ordered, chain>>

-----------------------------------------------------------------------------

(* The list is complete, and its ports are built one after the other.        *)
Collected ==
    /\ phase = "collect" /\ ~HasChild /\ ~InnerCall
    /\ phase' = "bundle"
    /\ stack' = <<Frame(NoPort, ordered)>>
    /\ UNCHANGED <<loaded, ports, request, visiting, visited, ordered, chain>>

BundleCommands ==
    loaded.commands[request.port]
       \o FlattenSeq([i \in DOMAIN ordered |-> ports.commands[ordered[i]]])

(* The bundle is put together of the commands of the port and those of the   *)
(* ports it executes, or there is no need for one.  Two commands of the same *)
(* name are refused.                                                         *)
Bundle ==
    /\ phase = "bundle" /\ ~HasChild /\ ~InnerCall
    /\ End(IF IsInjective(BundleCommands) THEN "packaged" ELSE "failed")
    /\ UNCHANGED <<loaded, ports, request, ordered, chain>>

-----------------------------------------------------------------------------

Work ==
    \/ Validate \/ Accept
    \/ Enter \/ Unfit \/ Again \/ Circle \/ Leave
    \/ BuildPort \/ BuildUnknown \/ BuildCircle \/ BuildDone \/ Built
    \/ Collected \/ Bundle

CatalogNext ==
    \/ \E p \in Ports, action \in {"build", "package"} : Begin(action, p)
    \/ Work

CatalogSpec == CatalogInit /\ [][CatalogNext]_catalogVars

(* The process runs until it ends.                                           *)
FairCatalogSpec == CatalogSpec /\ WF_catalogVars(Work)

-----------------------------------------------------------------------------

(* What the walks have to agree with: the least set that has the roots and   *)
(* is closed under the lists.  The first port of a bundle is taken from the  *)
(* catalog main accepted, the others from the one loaded again.              *)
Closed(S, lists) == \A p \in S \cap (DOMAIN lists) : ToSet(lists[p]) \cap Ports \subseteq S
Reachable(lists, roots) ==
    {q \in Ports : \A S \in SUBSET Ports : roots \cap Ports \subseteq S /\ Closed(S, lists) => q \in S}
Circular(lists, p) == p \in Reachable(lists, ToSet(lists[p]))
Executed == Reachable(ports.exec, ToSet(loaded.exec[request.port]))

(* The calls in progress are of different ports, so that recursion is never  *)
(* deeper than the catalog, also in catalogs nobody validated.               *)
CatalogTypeOK ==
    /\ phase \in Phases
    /\ stack = <<>> <=> phase \in Ended \cup {"validate"}
    /\ \A i, j \in 2..Len(stack) : i # j => stack[i].port # stack[j].port
    /\ visiting = (IF phase \in {"visit", "collect"} THEN Callers ELSE {})
    /\ ToSet(ordered) \subseteq Ports

(* A catalog that main accepts has no circle of build dependencies: one that *)
(* the walk meets is refused, and the walk meets them all.                   *)
AcceptedIsAcyclic ==
    phase \notin {"validate", "visit", "refused"} =>
       \A p \in Ports : ~Circular(loaded.build, p)

(* Its batches have every user-visible port once, and no other.              *)
BatchesAreExact ==
    phase \notin {"validate", "visit", "refused"} =>
       LET batches == loaded.batches
       IN /\ UNION {ToSet(batches[i]) : i \in DOMAIN batches} = Visible(loaded)
          /\ \A i \in DOMAIN batches : IsInjective(batches[i])
          /\ \A i, j \in DOMAIN batches : i # j => ToSet(batches[i]) \cap ToSet(batches[j]) = {}

(* A circle that is reported is one: the chain in the message follows the    *)
(* dependencies, and comes back to a port it has passed.                     *)
CircleIsReal ==
    chain # <<>> =>
       /\ Last(chain) \in ToSet(Front(chain))
       /\ \A i \in 1..(Len(chain) - 1) :
             chain[i + 1] \in ToSet(loaded.build[chain[i]]) \cup ToSet(loaded.exec[chain[i]])
                \cup IF chain[i] \in Names(ports)
                     THEN ToSet(ports.build[chain[i]]) \cup ToSet(ports.exec[chain[i]])
                     ELSE {}

(* A bundle is made of exactly the ports that are executed, directly or      *)
(* through others, each once and after those it executes itself.             *)
BundleIsClosure ==
    phase = "bundle" =>
       /\ ToSet(ordered) = Executed
       /\ IsInjective(ordered)
       /\ \A i, j \in DOMAIN ordered :
             ordered[j] \in ToSet(ports.exec[ordered[i]]) => j < i

(* Validation is worth its name.  If the manifests are still those that main *)
(* accepted, then no walk fails or crashes in a build, and a package fails   *)
(* only for what validation leaves open: it is of a build-only port, the     *)
(* ports it executes go round in a circle or have no commands, or one of     *)
(* them lists a command twice.                                               *)
AcceptedCanBeBuilt ==
    ports = loaded /\ phase \in {"failed", "crashed"} =>
       /\ request.action = "package"
       /\ \/ request.port \notin loaded.visible
          \/ ~(Executed \subseteq loaded.visible)
          \/ \E p \in Executed : Circular(loaded.exec, p)
          \/ \E p \in Executed \cup {request.port} : ~IsInjective(loaded.commands[p])

(* Every process ends, whatever the manifests say: a circle is met by the    *)
(* checks of the walks, not by the depth of the stack.                       *)
WalksEnd == phase \notin Ended ~> phase \in Ended
=============================================================================
