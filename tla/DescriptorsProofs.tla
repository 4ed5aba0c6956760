-------------------------- MODULE DescriptorsProofs --------------------------
(***************************************************************************)
(* Proofs about the descriptor layer, for any number of threads and        *)
(* descriptors and any file tree.                                          *)
(*                                                                         *)
(* CwdCoherent speaks of the moments when the mutex is free; the invariant *)
(* adds what holds while it is not: exactly the holder is between the      *)
(* host's chdir and the assignment of active_directory_path, and it will   *)
(* assign the directory the host is in.                                    *)
(***************************************************************************)
EXTENDS Descriptors, TLAPS

-----------------------------------------------------------------------------

(* chdir's critical section, and what everyone may rely on outside it.       *)
Coherent ==
    /\ Unlocked => copy_active_directory_path = hostCwd
    /\ \A t \in Threads : lock = t <=> In(t, "chdone")
    /\ \A t \in Threads : In(t, "chdone") => thread[t].path = hostCwd

CwdInv == TypeOK /\ Coherent

TablesOK ==
    /\ host \in [Fds -> Nodes \cup {Closed}]
    /\ directory_paths \in [Fds -> Paths \cup {NoPath}]

LEMMA CwdInit == Init => CwdInv
  <1> SUFFICES ASSUME Init PROVE CwdInv
    OBVIOUS
  <1> USE TreeAssumption, NullAssumption DEF Init
  <1>1. TypeOK
    BY DEF TypeOK, Calls
  <1>2. Coherent
    BY DEF Coherent, Unlocked, copy_active_directory_path, In, Returned
  <1> QED BY <1>1, <1>2 DEF CwdInv

(* What a thread can find in the table.                                      *)
LEMMA CopyType ==
    ASSUME TypeOK, NEW fd \in Fds
    PROVE  copy_directory_path(fd) \in Paths \cup {NoPath}
  BY DEF TypeOK, copy_directory_path

LEMMA JoinType ==
    ASSUME NEW base \in Paths, NEW arg \in Names
    PROVE  Join[base][arg] \in Paths
  BY TreeAssumption

LEMMA ActiveType ==
    ASSUME TypeOK
    PROVE  copy_active_directory_path \in Dirs
  BY TreeAssumption DEF TypeOK, copy_active_directory_path

LEMMA CallCases ==
    ASSUME NEW t \in Threads, Call(t)
    PROVE  \/ \E fd \in Fds, node \in Nodes : OpenAbsolute(t, fd, node)
           \/ \E fd \in Fds, from \in Fds \cup {AT_FDCWD}, arg \in Names :
                 OpenRelative(t, fd, from, arg)
           \/ \E fd \in Fds : Close(t, fd) \/ Fchdir(t, fd)
           \/ \E fd \in Fds, duplicate \in Fds : Dup(t, fd, duplicate) \/ Dup2(t, fd, duplicate)
           \/ \E fd \in Fds, node \in Dirs : LibcClose(t, fd) \/ LibcOpen(t, fd, node)
           \/ \E node \in Nodes : ChdirAbsolute(t, node)
           \/ \E arg \in Names : ChdirRelative(t, arg)
  BY TreeAssumption DEF Call

(* A step of a thread that neither is nor gets between chdir's two halves.   *)
LEMMA QuietStep ==
    ASSUME CwdInv, NEW t \in Threads, NEW call \in Calls, call.pc # "chdone",
           ~In(t, "chdone"), Become(t, call), TablesOK',
           UNCHANGED <<hostCwd, active_directory_path, lock>>
    PROVE  CwdInv'
  <1>1. TypeOK'
    BY DEF CwdInv, TypeOK, TablesOK, Become
  <1>2. ASSUME NEW s \in Threads
        PROVE  /\ In(s, "chdone")' <=> In(s, "chdone")
               /\ In(s, "chdone") => thread'[s] = thread[s]
    BY DEF CwdInv, TypeOK, Become, In
  <1>3. Coherent'
    BY <1>2 DEF CwdInv, Coherent, Unlocked, copy_active_directory_path
  <1> QED BY <1>1, <1>3 DEF CwdInv

(* The first steps of all calls are quiet.                                   *)
LEMMA CallKeeps ==
    ASSUME CwdInv, NEW t \in Threads, Call(t)
    PROVE  CwdInv'
  <1> USE DEF hostVars, layerVars
  <1>0. TypeOK /\ TablesOK
    BY DEF CwdInv, TypeOK, TablesOK
  <1>0a. In(t, "returned") => ~In(t, "chdone")
    BY DEF In
  <1>1. ASSUME NEW fd \in Fds, NEW node \in Nodes, OpenAbsolute(t, fd, node)
        PROVE  CwdInv'
    <2>1. [pc |-> "replace", fd |-> fd, path |-> node, fresh |-> TRUE] \in Calls
      BY DEF Calls, Paths
    <2>2. TablesOK'
      BY <1>0, <1>1 DEF TablesOK, OpenAbsolute, HostOpen
    <2> QED BY <1>0a, <1>1, <2>1, <2>2, QuietStep DEF OpenAbsolute, HostOpen
  <1>2. ASSUME NEW fd \in Fds, NEW from \in Fds \cup {AT_FDCWD}, NEW arg \in Names,
               OpenRelative(t, fd, from, arg)
        PROVE  CwdInv'
    <2>1. [pc |-> "base", fd |-> fd, from |-> from, arg |-> arg] \in Calls
      BY DEF Calls
    <2>2. TablesOK'
      BY <1>0, <1>2 DEF TablesOK, OpenRelative, HostOpen
    <2> QED BY <1>0a, <1>2, <2>1, <2>2, QuietStep DEF OpenRelative, HostOpen
  <1>3. ASSUME NEW fd \in Fds, Close(t, fd)
        PROVE  CwdInv'
    <2>1. [pc |-> "replace", fd |-> fd, path |-> NoPath, fresh |-> FALSE] \in Calls
      BY DEF Calls
    <2>2. TablesOK'
      BY <1>0, <1>3 DEF TablesOK, Close
    <2> QED BY <1>0a, <1>3, <2>1, <2>2, QuietStep DEF Close
  <1>4. ASSUME NEW fd \in Fds, NEW duplicate \in Fds,
               Dup(t, fd, duplicate) \/ Dup2(t, fd, duplicate)
        PROVE  CwdInv'
    <2>1. [pc |-> "copy", fd |-> duplicate, from |-> fd] \in Calls
      BY DEF Calls
    <2>2. TablesOK'
      BY <1>0, <1>4 DEF TablesOK, Dup, Dup2, Duplicate
    <2> QED BY <1>0a, <1>4, <2>1, <2>2, QuietStep DEF Dup, Dup2, Duplicate
  <1>5. ASSUME NEW fd \in Fds, Fchdir(t, fd)
        PROVE  CwdInv'
    <2>1. host[fd] \in Nodes /\ copy_directory_path(fd) \in Dirs
      BY <1>0, <1>5 DEF TypeOK, Fchdir, Usable
    <2>2. [pc |-> "chdir", path |-> copy_directory_path(fd), asked |-> host[fd]] \in Calls
      BY <2>1 DEF Calls, Nodes, Paths
    <2>3. TablesOK'
      BY <1>0, <1>5 DEF TablesOK, Fchdir
    <2> QED BY <1>0a, <1>5, <2>2, <2>3, QuietStep DEF Fchdir
  <1>6. ASSUME NEW fd \in Fds, NEW node \in Dirs,
               LibcClose(t, fd) \/ LibcOpen(t, fd, node)
        PROVE  CwdInv'
    <2>1. UNCHANGED <<hostCwd, layerVars, thread>>
      BY <1>6 DEF LibcClose, LibcOpen, HostOpen
    <2>2. TablesOK'
      BY <1>0, <1>6 DEF TablesOK, LibcClose, LibcOpen, HostOpen, Nodes
    <2>3. TypeOK'
      BY <1>0, <2>1, <2>2 DEF TypeOK, TablesOK
    <2>4. Coherent'
      BY <2>1 DEF CwdInv, Coherent, Unlocked, copy_active_directory_path, In
    <2> QED BY <2>3, <2>4 DEF CwdInv
  <1>7. ASSUME NEW node \in Nodes, ChdirAbsolute(t, node)
        PROVE  CwdInv'
    <2>1. [pc |-> "chdir", path |-> node, asked |-> node] \in Calls
      BY DEF Calls, Paths
    <2>2. TablesOK'
      BY <1>0, <1>7 DEF TablesOK, ChdirAbsolute
    <2> QED BY <1>0a, <1>7, <2>1, <2>2, QuietStep DEF ChdirAbsolute
  <1>8. ASSUME NEW arg \in Names, ChdirRelative(t, arg)
        PROVE  CwdInv'
    <2>1. [pc |-> "chbase", arg |-> arg] \in Calls
      BY DEF Calls
    <2>2. TablesOK'
      BY <1>0, <1>8 DEF TablesOK, ChdirRelative
    <2> QED BY <1>0a, <1>8, <2>1, <2>2, QuietStep DEF ChdirRelative
  <1> QED BY <1>1, <1>2, <1>3, <1>4, <1>5, <1>6, <1>7, <1>8, CallCases

(* Of the later steps only chdir's two halves are not.                       *)
LEMMA ContinueKeeps ==
    ASSUME CwdInv, NEW t \in Threads, Continue(t)
    PROVE  CwdInv'
  <1> USE DEF hostVars, layerVars
  <1>0. TypeOK /\ TablesOK /\ Coherent /\ thread[t] \in Calls
    BY DEF CwdInv, TypeOK, TablesOK
  <1>0a. Returned \in Calls /\ Returned.pc # "chdone"
    BY DEF Calls, Returned
  <1>1. CASE RememberBase(t)
    <2>1. /\ thread[t].fd \in Fds
          /\ thread[t].from \in Fds \cup {AT_FDCWD}
          /\ thread[t].arg \in Names
      BY <1>0, <1>1 DEF RememberBase, In, Calls, Returned
    <2> DEFINE base == IF thread[t].from = AT_FDCWD
                       THEN copy_active_directory_path
                       ELSE copy_directory_path(thread[t].from)
               next == IF base = NoPath THEN Returned
                       ELSE [pc |-> "replace", fd |-> thread[t].fd,
                             path |-> Join[base][thread[t].arg], fresh |-> TRUE]
    <2>2. base \in Paths \cup {NoPath}
      BY <1>0, <2>1, CopyType, ActiveType DEF Paths, Nodes
    <2>3. Become(t, next)
      BY <1>1 DEF RememberBase
    <2> HIDE DEF base
    <2>4. next \in Calls /\ next.pc # "chdone"
      BY <1>0a, <2>1, <2>2, JoinType DEF Calls
    <2>5. TablesOK' /\ ~In(t, "chdone")
      BY <1>0, <1>1 DEF TablesOK, RememberBase, In
    <2> HIDE DEF next
    <2> QED BY <1>1, <2>3, <2>4, <2>5, QuietStep DEF RememberBase
  <1>2. CASE CopyPath(t)
    <2>1. thread[t].fd \in Fds /\ thread[t].from \in Fds
      BY <1>0, <1>2 DEF CopyPath, In, Calls, Returned
    <2>2. [pc |-> "replace", fd |-> thread[t].fd,
           path |-> copy_directory_path(thread[t].from), fresh |-> TRUE] \in Calls
      BY <1>0, <2>1, CopyType DEF Calls
    <2>3. TablesOK' /\ ~In(t, "chdone")
      BY <1>0, <1>2 DEF TablesOK, CopyPath, In
    <2> QED BY <1>2, <2>2, <2>3, QuietStep DEF CopyPath
  <1>3. CASE Replace(t)
    <2>1. thread[t].fd \in Fds /\ thread[t].path \in Paths \cup {NoPath}
      BY <1>0, <1>3 DEF Replace, In, Calls, Returned
    <2>2. TablesOK' /\ ~In(t, "chdone")
      BY <1>0, <1>3, <2>1 DEF TablesOK, Replace, In
    <2> QED BY <1>0a, <1>3, <2>2, QuietStep DEF Replace
  <1>4. CASE ChdirBase(t)
    <2>1. thread[t].arg \in Names
      BY <1>0, <1>4 DEF ChdirBase, In, Calls, Returned
    <2>2. Join[copy_active_directory_path][thread[t].arg] \in Paths
      BY <1>0, <2>1, ActiveType, JoinType DEF Paths, Nodes
    <2>3. [pc |-> "chdir", asked |-> thread[t].arg,
           path |-> Join[copy_active_directory_path][thread[t].arg]] \in Calls
      BY <2>1, <2>2 DEF Calls
    <2>4. TablesOK' /\ ~In(t, "chdone")
      BY <1>0, <1>4 DEF TablesOK, ChdirBase, In
    <2> QED BY <1>4, <2>3, <2>4, QuietStep DEF ChdirBase
  <1>5. CASE ChdirFails(t)
    <2>1. TablesOK' /\ ~In(t, "chdone")
      BY <1>0, <1>5 DEF TablesOK, ChdirFails, In
    <2> QED BY <1>0a, <1>5, <2>1, QuietStep DEF ChdirFails
  <1>6. CASE ChdirHost(t)
    <2> DEFINE next == [thread[t] EXCEPT !.pc = "chdone"]
    <2>1. /\ next \in Calls
          /\ next.pc = "chdone"
          /\ next.path = thread[t].path
      BY <1>0, <1>6 DEF ChdirHost, In, Calls, Returned
    <2>2. thread' = [thread EXCEPT ![t] = next]
      BY <1>6 DEF ChdirHost, Become
    <2> HIDE DEF next
    <2>3. TypeOK'
      BY <1>0, <1>6, <2>1, <2>2 DEF TypeOK, ChdirHost
    <2>4. \A s \in Threads : s # t => ~In(s, "chdone")
      BY <1>0, <1>6, NullAssumption DEF Coherent, ChdirHost, Unlocked
    <2>5. ~Unlocked'
      BY <1>6, NullAssumption DEF ChdirHost, Unlocked
    <2>6. Coherent'
      BY <1>0, <1>6, <2>1, <2>2, <2>4, <2>5 DEF Coherent, ChdirHost, TypeOK, In
    <2> QED BY <2>3, <2>6 DEF CwdInv
  <1>7. CASE ChdirDone(t)
    <2>1. thread[t].path = hostCwd /\ lock = t
      BY <1>0, <1>7 DEF Coherent, ChdirDone
    <2>2. thread' = [thread EXCEPT ![t] = Returned]
      BY <1>7 DEF ChdirDone, Become
    <2>3. active_directory_path' = hostCwd
      BY <1>7, <2>1 DEF ChdirDone
    <2>4. TypeOK'
      BY <1>0, <1>0a, <1>7, <2>2, <2>3 DEF TypeOK, ChdirDone
    <2>5. \A s \in Threads : ~In(s, "chdone")'
      BY <1>0, <1>0a, <2>1, <2>2 DEF Coherent, TypeOK, In
    <2>6. Coherent'
      BY <1>0, <1>7, <2>3, <2>5, NullAssumption
      DEF Coherent, ChdirDone, TypeOK, Unlocked, copy_active_directory_path, Nodes, Paths
    <2> QED BY <2>4, <2>6 DEF CwdInv
  <1> QED BY <1>1, <1>2, <1>3, <1>4, <1>5, <1>6, <1>7 DEF Continue

-----------------------------------------------------------------------------

LEMMA CwdStep == CwdInv /\ [Next]_vars => CwdInv'
  <1> SUFFICES ASSUME CwdInv, [Next]_vars PROVE CwdInv'
    OBVIOUS
  <1>1. CASE UNCHANGED vars
    BY <1>1 DEF vars, hostVars, layerVars, CwdInv, TypeOK, Coherent, Unlocked,
                copy_active_directory_path, In
  <1>2. CASE Next
    BY <1>2, CallKeeps, ContinueKeeps DEF Next
  <1> QED BY <1>1, <1>2

THEOREM CwdInvariance == Spec => []CwdInv
  BY CwdInit, CwdStep, PTL DEF Spec

(* Type correctness of the table, the working directories and every call.    *)
THEOREM DescriptorsTyped == Spec => []TypeOK
  <1>1. CwdInv => TypeOK
    BY DEF CwdInv
  <1> QED BY <1>1, CwdInvariance, PTL

(* getcwd and every relative call read the host's working directory, with    *)
(* any number of threads, and whatever libc does behind the layer.           *)
THEOREM CwdIsCoherent == Spec => []CwdCoherent
  <1>1. CwdInv => CwdCoherent
    BY DEF CwdInv, Coherent, CwdCoherent
  <1> QED BY <1>1, CwdInvariance, PTL

-----------------------------------------------------------------------------

(* With one thread, and no close behind the layer, entries stay true.  While *)
(* the thread is inside a call, the entry of the descriptor the call works   *)
(* on may be out of date; everything the call will write there is right.     *)
SingleThreaded == (\E t \in Threads : Threads = {t}) /\ "close" \notin Unwrapped

EntryIsTrue(fd) == directory_paths[fd] # NoPath => directory_paths[fd] = host[fd]

WorkedOn(t, fd) ==
    /\ In(t, "base") \/ In(t, "copy") \/ In(t, "replace")
    /\ thread[t].fd = fd

CallIsTrue(t) ==
    /\ In(t, "base") =>
          /\ directory_paths[thread[t].fd] = NoPath
          /\ thread[t].from # thread[t].fd
          /\ host[thread[t].fd] =
                Join[IF thread[t].from = AT_FDCWD THEN hostCwd
                     ELSE host[thread[t].from]][thread[t].arg]
    /\ In(t, "copy") => /\ host[thread[t].fd] = host[thread[t].from]
                        /\ EntryIsTrue(thread[t].from)
    /\ In(t, "replace") => \/ thread[t].path = NoPath
                           \/ thread[t].path = host[thread[t].fd]
    /\ In(t, "chdir") \/ In(t, "chdone") =>
          thread[t].path = IF thread[t].asked \in Names
                           THEN Join[copy_active_directory_path][thread[t].asked]
                           ELSE thread[t].asked

TableInv ==
    /\ \A fd \in Fds : ~Tracked(fd) => directory_paths[fd] = NoPath
    /\ \A t \in Threads, fd \in Fds : WorkedOn(t, fd) \/ EntryIsTrue(fd)
    /\ \A t \in Threads : CallIsTrue(t)

LEMMA TableInit == Init => TableInv
  BY DEF Init, TableInv, EntryIsTrue, CallIsTrue, In, Returned

(* A thread that is not in the middle of a call finds every entry true, and  *)
(* none at a free number.                                                    *)
LEMMA BetweenCalls ==
    ASSUME CwdInv, TableInv, NEW t \in Threads, In(t, "returned"), NEW fd \in Fds
    PROVE  /\ EntryIsTrue(fd)
           /\ copy_directory_path(fd) = directory_paths[fd]
           /\ host[fd] = Closed => directory_paths[fd] = NoPath
  <1>1. EntryIsTrue(fd)
    BY DEF TableInv, WorkedOn, In
  <1>2. copy_directory_path(fd) = directory_paths[fd]
    BY DEF TableInv, copy_directory_path
  <1>3. host[fd] = Closed => directory_paths[fd] = NoPath
    BY <1>1, NullAssumption DEF EntryIsTrue, CwdInv, TypeOK
  <1> QED BY <1>1, <1>2, <1>3

(* It suffices to look at the one thread there is.                           *)
LEMMA SoleThread ==
    ASSUME SingleThreaded, NEW t \in Threads,
           (\A fd \in Fds : ~Tracked(fd) => directory_paths[fd] = NoPath)',
           (\A fd \in Fds : WorkedOn(t, fd) \/ EntryIsTrue(fd))',
           CallIsTrue(t)'
    PROVE  TableInv'
  BY DEF SingleThreaded, TableInv

LEMMA TableCall ==
    ASSUME SingleThreaded, CwdInv, TableInv, NEW t \in Threads, Call(t)
    PROVE  TableInv'
  <1> USE DEF hostVars, layerVars
  <1>0. /\ TypeOK
        /\ t \in Threads
        /\ \A fd \in Fds : ~Tracked(fd) => directory_paths[fd] = NoPath
        /\ In(t, "returned")
    BY DEF CwdInv, TableInv, Call, OpenAbsolute, OpenRelative, Close, Dup, Dup2, Fchdir,
           LibcClose, LibcOpen, ChdirAbsolute, ChdirRelative
  <1>1. \A fd \in Fds : /\ EntryIsTrue(fd)
                        /\ copy_directory_path(fd) = directory_paths[fd]
                        /\ host[fd] = Closed => directory_paths[fd] = NoPath
    BY <1>0, BetweenCalls
  <1>2. ASSUME NEW fd \in Fds, NEW node \in Nodes, OpenAbsolute(t, fd, node)
        PROVE  TableInv'
    <2>1. /\ thread'[t] = [pc |-> "replace", fd |-> fd, path |-> node, fresh |-> TRUE]
          /\ host' = [host EXCEPT ![fd] = node]
          /\ directory_paths' = directory_paths
      BY <1>0, <1>2 DEF OpenAbsolute, HostOpen, Become, TypeOK
    <2>2. CallIsTrue(t)'
      BY <1>0, <2>1 DEF CallIsTrue, In, TypeOK
    <2>3. \A g \in Fds : (WorkedOn(t, g) \/ EntryIsTrue(g))'
      BY <1>0, <1>1, <2>1 DEF WorkedOn, EntryIsTrue, In, TypeOK
    <2> QED BY <1>0, <2>1, <2>2, <2>3, SoleThread DEF Tracked
  <1>3. ASSUME NEW fd \in Fds, NEW from \in Fds \cup {AT_FDCWD}, NEW arg \in Names,
               OpenRelative(t, fd, from, arg)
        PROVE  TableInv'
    <2> DEFINE start == IF from = AT_FDCWD THEN hostCwd ELSE host[from]
    <2>1. /\ thread'[t] = [pc |-> "base", fd |-> fd, from |-> from, arg |-> arg]
          /\ host' = [host EXCEPT ![fd] = HostWalk(start, arg)]
          /\ HostWalk(start, arg) \in Nodes
          /\ host[fd] = Closed
          /\ UNCHANGED <<directory_paths, hostCwd>>
      BY <1>0, <1>3 DEF OpenRelative, HostOpen, FreeFd, Become, TypeOK
    <2>2. HostWalk(start, arg) = Join[start][arg]
      BY <2>1, NullAssumption DEF HostWalk
    <2>3. from # fd
      BY <1>3, <2>1, NullAssumption DEF OpenRelative, Usable
    <2>4. start' = start
      BY <2>1, <2>3, <1>0 DEF TypeOK
    <2>5. CallIsTrue(t)'
      BY <1>0, <1>1, <2>1, <2>2, <2>3, <2>4 DEF CallIsTrue, In, TypeOK
    <2>6. \A g \in Fds : (WorkedOn(t, g) \/ EntryIsTrue(g))'
      BY <1>0, <1>1, <2>1 DEF WorkedOn, EntryIsTrue, In, TypeOK
    <2> QED BY <1>0, <2>1, <2>5, <2>6, SoleThread DEF Tracked
  <1>4. ASSUME NEW fd \in Fds, Close(t, fd)
        PROVE  TableInv'
    <2>1. /\ thread'[t] = [pc |-> "replace", fd |-> fd, path |-> NoPath, fresh |-> FALSE]
          /\ host' = [host EXCEPT ![fd] = Closed]
          /\ directory_paths' = directory_paths
      BY <1>0, <1>4 DEF Close, Become, TypeOK
    <2>2. CallIsTrue(t)'
      BY <1>0, <2>1 DEF CallIsTrue, In, TypeOK
    <2>3. \A g \in Fds : (WorkedOn(t, g) \/ EntryIsTrue(g))'
      BY <1>0, <1>1, <2>1 DEF WorkedOn, EntryIsTrue, In, TypeOK
    <2> QED BY <1>0, <2>1, <2>2, <2>3, SoleThread DEF Tracked
  <1>5. ASSUME NEW fd \in Fds, NEW duplicate \in Fds,
               Dup(t, fd, duplicate) \/ Dup2(t, fd, duplicate)
        PROVE  TableInv'
    <2>1. /\ thread'[t] = [pc |-> "copy", fd |-> duplicate, from |-> fd]
          /\ host' = [host EXCEPT ![duplicate] = host[fd]]
          /\ directory_paths' = directory_paths
      BY <1>0, <1>5 DEF Dup, Dup2, Duplicate, Become, TypeOK
    <2>2. CallIsTrue(t)'
      BY <1>0, <1>1, <2>1 DEF CallIsTrue, EntryIsTrue, In, TypeOK
    <2>3. \A g \in Fds : (WorkedOn(t, g) \/ EntryIsTrue(g))'
      BY <1>0, <1>1, <2>1 DEF WorkedOn, EntryIsTrue, In, TypeOK
    <2> QED BY <1>0, <2>1, <2>2, <2>3, SoleThread DEF Tracked
  <1>6. ASSUME NEW fd \in Fds, Fchdir(t, fd)
        PROVE  TableInv'
    <2>1. /\ thread'[t] = [pc |-> "chdir", path |-> copy_directory_path(fd), asked |-> host[fd]]
          /\ UNCHANGED <<host, directory_paths>>
          /\ copy_directory_path(fd) \in Dirs
      BY <1>0, <1>6 DEF Fchdir, Become, TypeOK
    <2>2. copy_directory_path(fd) = host[fd] /\ host[fd] \notin Names
      BY <1>1, <2>1, TreeAssumption, NullAssumption DEF EntryIsTrue, Nodes, Paths
    <2>3. CallIsTrue(t)'
      BY <2>1, <2>2 DEF CallIsTrue, In
    <2>4. \A g \in Fds : (WorkedOn(t, g) \/ EntryIsTrue(g))'
      BY <1>1, <2>1 DEF EntryIsTrue
    <2> QED BY <1>0, <2>1, <2>3, <2>4, SoleThread DEF Tracked
  <1>7. ASSUME NEW fd \in Fds, NEW node \in Dirs, LibcOpen(t, fd, node)
        PROVE  TableInv'
    <2>1. /\ host' = [host EXCEPT ![fd] = node]
          /\ host[fd] = Closed
          /\ UNCHANGED <<directory_paths, thread>>
      BY <1>7 DEF LibcOpen, HostOpen, FreeFd
    <2>2. CallIsTrue(t)'
      BY <1>0, <2>1 DEF CallIsTrue, In
    <2>3. \A g \in Fds : (WorkedOn(t, g) \/ EntryIsTrue(g))'
      BY <1>0, <1>1, <2>1 DEF EntryIsTrue, TypeOK
    <2> QED BY <1>0, <2>1, <2>2, <2>3, SoleThread DEF Tracked
  <1>8. ASSUME NEW node \in Nodes, ChdirAbsolute(t, node)
        PROVE  TableInv'
    <2>1. /\ thread'[t] = [pc |-> "chdir", path |-> node, asked |-> node]
          /\ UNCHANGED <<host, directory_paths>>
      BY <1>0, <1>8 DEF ChdirAbsolute, Become, TypeOK
    <2>2. CallIsTrue(t)'
      BY <2>1, TreeAssumption DEF CallIsTrue, In, Paths
    <2>3. \A g \in Fds : (WorkedOn(t, g) \/ EntryIsTrue(g))'
      BY <1>1, <2>1 DEF EntryIsTrue
    <2> QED BY <1>0, <2>1, <2>2, <2>3, SoleThread DEF Tracked
  <1>9. ASSUME NEW arg \in Names, ChdirRelative(t, arg)
        PROVE  TableInv'
    <2>1. /\ thread'[t] = [pc |-> "chbase", arg |-> arg]
          /\ UNCHANGED <<host, directory_paths>>
      BY <1>0, <1>9 DEF ChdirRelative, Become, TypeOK
    <2>2. CallIsTrue(t)'
      BY <2>1 DEF CallIsTrue, In
    <2>3. \A g \in Fds : (WorkedOn(t, g) \/ EntryIsTrue(g))'
      BY <1>1, <2>1 DEF EntryIsTrue
    <2> QED BY <1>0, <2>1, <2>2, <2>3, SoleThread DEF Tracked
  <1> QED BY <1>2, <1>3, <1>4, <1>5, <1>6, <1>7, <1>8, <1>9, CallCases DEF LibcClose, SingleThreaded

(* The fields of a call that changes the directory.                          *)
LEMMA ChdirFields ==
    ASSUME TypeOK, NEW t \in Threads, In(t, "chdir") \/ In(t, "chdone")
    PROVE  /\ thread[t].path \in Paths
           /\ thread[t].asked \in Nodes \cup Names
           /\ [thread[t] EXCEPT !.pc = "chdone"]
                 = [pc |-> "chdone", path |-> thread[t].path, asked |-> thread[t].asked]
  <1>1. thread[t] \in [pc : {"chdir", "chdone"}, path : Paths, asked : Nodes \cup Names]
    BY DEF TypeOK, In, Calls, Returned
  <1> QED BY <1>1

(* Changing the directory leaves the table alone.                            *)
LEMMA ChdirStep ==
    ASSUME SingleThreaded, CwdInv, TableInv, NEW t \in Threads,
           UNCHANGED <<host, directory_paths>>,
           ~(In(t, "base") \/ In(t, "copy") \/ In(t, "replace")), CallIsTrue(t)'
    PROVE  TableInv'
  <1>1. \A fd \in Fds : EntryIsTrue(fd)
    BY DEF TableInv, WorkedOn
  <1>2. \A fd \in Fds : (WorkedOn(t, fd) \/ EntryIsTrue(fd))'
    BY <1>1 DEF EntryIsTrue
  <1>3. (\A fd \in Fds : ~Tracked(fd) => directory_paths[fd] = NoPath)'
    BY DEF TableInv, Tracked
  <1> QED BY <1>2, <1>3, SoleThread

LEMMA TableContinue ==
    ASSUME SingleThreaded, CwdInv, TableInv, NEW t \in Threads, Continue(t)
    PROVE  TableInv'
  <1> USE DEF hostVars, layerVars
  <1>0. /\ TypeOK /\ Coherent /\ CallIsTrue(t)
        /\ thread[t] \in Calls
        /\ \A fd \in Fds : ~Tracked(fd) => directory_paths[fd] = NoPath
        /\ \A fd \in Fds : WorkedOn(t, fd) \/ EntryIsTrue(fd)
    BY DEF CwdInv, TableInv, TypeOK
  <1>1. CASE RememberBase(t)
    <2>1. /\ thread[t].fd \in Fds
          /\ thread[t].from \in Fds \cup {AT_FDCWD}
          /\ In(t, "base") /\ Unlocked
          /\ UNCHANGED <<host, directory_paths>>
      BY <1>0, <1>1 DEF RememberBase, In, Calls, Returned
    <2> DEFINE base == IF thread[t].from = AT_FDCWD
                       THEN copy_active_directory_path
                       ELSE copy_directory_path(thread[t].from)
               start == IF thread[t].from = AT_FDCWD THEN hostCwd ELSE host[thread[t].from]
    <2>2. thread'[t] = IF base = NoPath THEN Returned
                       ELSE [pc |-> "replace", fd |-> thread[t].fd,
                             path |-> Join[base][thread[t].arg], fresh |-> TRUE]
      BY <1>0, <1>1 DEF RememberBase, Become, TypeOK
    <2>3. base = NoPath \/ base = start
      BY <1>0, <2>1 DEF Coherent, CallIsTrue, WorkedOn, EntryIsTrue, copy_directory_path
    <2>4. directory_paths[thread[t].fd] = NoPath /\ host[thread[t].fd] = Join[start][thread[t].arg]
      BY <1>0, <2>1 DEF CallIsTrue
    <2> HIDE DEF base, start
    <2>5. CallIsTrue(t)'
      BY <2>1, <2>2, <2>3, <2>4 DEF CallIsTrue, In, Returned
    <2>6. \A g \in Fds : (WorkedOn(t, g) \/ EntryIsTrue(g))'
      BY <1>0, <2>1, <2>2, <2>4 DEF WorkedOn, EntryIsTrue, In, Returned
    <2> QED BY <1>0, <2>1, <2>5, <2>6, SoleThread DEF Tracked
  <1>2. CASE CopyPath(t)
    <2>1. /\ thread[t].fd \in Fds /\ thread[t].from \in Fds
          /\ In(t, "copy")
          /\ UNCHANGED <<host, directory_paths>>
      BY <1>0, <1>2 DEF CopyPath, In, Calls, Returned
    <2>2. thread'[t] = [pc |-> "replace", fd |-> thread[t].fd,
                        path |-> copy_directory_path(thread[t].from), fresh |-> TRUE]
      BY <1>0, <1>2 DEF CopyPath, Become, TypeOK
    <2>3. /\ host[thread[t].fd] = host[thread[t].from]
          /\ EntryIsTrue(thread[t].from)
      BY <1>0, <2>1 DEF CallIsTrue
    <2>4. \A g \in Fds : (WorkedOn(t, g) \/ EntryIsTrue(g))'
      BY <1>0, <2>1, <2>2 DEF WorkedOn, EntryIsTrue, In
    <2>5. CallIsTrue(t)'
      <3>1. \/ copy_directory_path(thread[t].from) = NoPath
            \/ copy_directory_path(thread[t].from) = host[thread[t].fd]
        BY <2>3 DEF EntryIsTrue, copy_directory_path
      <3> QED BY <2>1, <2>2, <3>1 DEF CallIsTrue, In
    <2> QED BY <1>0, <2>1, <2>4, <2>5, SoleThread DEF Tracked
  <1>3. CASE Replace(t)
    <2>1. /\ thread[t].fd \in Fds
          /\ In(t, "replace")
          /\ host' = host
          /\ thread'[t] = Returned
          /\ directory_paths' = IF Tracked(thread[t].fd)
                                THEN [directory_paths EXCEPT ![thread[t].fd] = thread[t].path]
                                ELSE directory_paths
      BY <1>0, <1>3 DEF Replace, In, Calls, Returned, Become, TypeOK
    <2>2. CallIsTrue(t)'
      BY <2>1 DEF CallIsTrue, In, Returned
    <2>3. \A g \in Fds : (WorkedOn(t, g) \/ EntryIsTrue(g))'
      BY <1>0, <2>1 DEF WorkedOn, EntryIsTrue, CallIsTrue, In, TypeOK
    <2>4. \A g \in Fds : ~Tracked(g) => directory_paths'[g] = NoPath
      BY <1>0, <2>1 DEF TypeOK
    <2> QED BY <2>2, <2>3, <2>4, SoleThread DEF Tracked
  <1>4. CASE ChdirBase(t)
    <2>1. /\ thread[t].arg \in Names
          /\ UNCHANGED <<host, directory_paths, active_directory_path>>
          /\ ~(In(t, "base") \/ In(t, "copy") \/ In(t, "replace"))
      BY <1>0, <1>4 DEF ChdirBase, In, Calls, Returned
    <2>2. thread'[t] = [pc |-> "chdir", asked |-> thread[t].arg,
                        path |-> Join[copy_active_directory_path][thread[t].arg]]
      BY <1>0, <1>4 DEF ChdirBase, Become, TypeOK
    <2>3. copy_active_directory_path' = copy_active_directory_path
      BY <2>1 DEF copy_active_directory_path
    <2>4. CallIsTrue(t)'
      BY <2>1, <2>2, <2>3 DEF CallIsTrue, In
    <2> QED BY <2>1, <2>4, ChdirStep
  <1>5. CASE ChdirHost(t)
    <2>1. /\ UNCHANGED <<host, directory_paths, active_directory_path>>
          /\ In(t, "chdir")
          /\ thread'[t] = [thread[t] EXCEPT !.pc = "chdone"]
      BY <1>0, <1>5 DEF ChdirHost, Become, TypeOK
    <2>2. /\ thread'[t].pc = "chdone"
          /\ thread'[t].asked = thread[t].asked
          /\ thread'[t].path = thread[t].path
      BY <1>0, <2>1, ChdirFields
    <2>3. copy_active_directory_path' = copy_active_directory_path
      BY <2>1 DEF copy_active_directory_path
    <2>4. CallIsTrue(t)'
      BY <1>0, <2>1, <2>2, <2>3 DEF CallIsTrue, In
    <2>5. ~(In(t, "base") \/ In(t, "copy") \/ In(t, "replace"))
      BY <2>1 DEF In
    <2> QED BY <2>1, <2>4, <2>5, ChdirStep
  <1>6. CASE ChdirFails(t) \/ ChdirDone(t)
    <2>1. /\ UNCHANGED <<host, directory_paths>>
          /\ thread'[t] = Returned
          /\ ~(In(t, "base") \/ In(t, "copy") \/ In(t, "replace"))
      BY <1>0, <1>6 DEF ChdirFails, ChdirDone, Become, In, TypeOK
    <2>2. CallIsTrue(t)'
      BY <2>1 DEF CallIsTrue, In, Returned
    <2> QED BY <2>1, <2>2, ChdirStep
  <1> QED BY <1>1, <1>2, <1>3, <1>4, <1>5, <1>6 DEF Continue

(* With one thread that closes through the layer, both invariants hold.      *)
LEMMA TablesStay == SingleThreaded => (Spec => [](CwdInv /\ TableInv))
  <1> SUFFICES ASSUME SingleThreaded PROVE Spec => [](CwdInv /\ TableInv)
    OBVIOUS
  <1>1. Init => CwdInv /\ TableInv
    BY CwdInit, TableInit
  <1>2. CwdInv /\ TableInv /\ [Next]_vars => (CwdInv /\ TableInv)'
    <2> SUFFICES ASSUME CwdInv, TableInv, [Next]_vars PROVE TableInv'
      BY CwdStep
    <2>1. CASE UNCHANGED vars
      BY <2>1 DEF vars, hostVars, layerVars, TableInv, Tracked, WorkedOn, EntryIsTrue,
                  CallIsTrue, In, copy_active_directory_path
    <2>2. CASE Next
      BY <2>2, TableCall, TableContinue DEF Next
    <2> QED BY <2>1, <2>2
  <1> QED BY <1>1, <1>2, PTL DEF Spec

(* In a single-threaded program whose descriptors are all closed through the *)
(* layer, entries are true between calls and fchdir never lies, for any      *)
(* number of descriptors and any tree, whatever libc opens behind the layer. *)
THEOREM TableTheorem == SingleThreaded => (Spec => [](TableIsTrue /\ FchdirIsTrue))
  <1> SUFFICES ASSUME SingleThreaded PROVE Spec => [](TableIsTrue /\ FchdirIsTrue)
    OBVIOUS
  <1>1. CwdInv /\ TableInv => TableIsTrue /\ FchdirIsTrue
    <2> SUFFICES ASSUME CwdInv, TableInv PROVE TableIsTrue /\ FchdirIsTrue
      OBVIOUS
    <2>1. FchdirIsTrue
      <3> SUFFICES ASSUME NEW t \in Threads, In(t, "chdone"), thread[t].asked \in Nodes
                   PROVE  hostCwd = thread[t].asked
        BY DEF FchdirIsTrue
      <3>1. thread[t].asked \notin Names
        BY TreeAssumption DEF Paths
      <3>2. thread[t].path = thread[t].asked
        BY <3>1 DEF TableInv, CallIsTrue
      <3> QED BY <3>2 DEF CwdInv, Coherent
    <2>2. TableIsTrue
      <3> SUFFICES ASSUME \A t \in Threads : In(t, "returned"), NEW fd \in Fds
                   PROVE  /\ directory_paths[fd] # NoPath => directory_paths[fd] = host[fd]
                          /\ ~Tracked(fd) => directory_paths[fd] = NoPath
        BY DEF TableIsTrue
      <3> PICK t \in Threads : TRUE
        BY DEF SingleThreaded
      <3> QED BY DEF TableInv, EntryIsTrue, WorkedOn, In
    <2> QED BY <2>1, <2>2
  <1> QED BY <1>1, TablesStay, PTL

(* fchdir, by itself: in such a program the directory it replays the path of *)
(* is the one the host has open, however the number was opened and closed.   *)
THEOREM FchdirIsHonest == SingleThreaded => (Spec => []FchdirIsTrue)
  BY TableTheorem, PTL

-----------------------------------------------------------------------------

Requests == [t \in Threads |-> Request(thread[t])]

LEMMA RequestMoves ==
    ASSUME TypeOK, NEW t \in Threads, NEW call, Become(t, call)
    PROVE  /\ Requests[t] = Request(thread[t])
           /\ Requests' = [Requests EXCEPT ![t] = Request(call)]
  <1>1. thread' = [s \in Threads |-> IF s = t THEN call ELSE thread[s]]
    BY DEF TypeOK, Become
  <1>2. Requests' = [s \in Threads |-> IF s = t THEN Request(call) ELSE Request(thread[s])]
    BY <1>1 DEF Requests
  <1> HIDE DEF Become
  <1> QED BY <1>2 DEF Requests

LEMMA RequestStands ==
    ASSUME TypeOK, NEW t \in Threads, NEW call, Become(t, call),
           Request(call) = Request(thread[t])
    PROVE  Requests' = Requests
  <1>1. Requests' = [Requests EXCEPT ![t] = Requests[t]]
    BY RequestMoves
  <1> QED BY <1>1 DEF Requests

(* Using a descriptor is no business of the working directory.               *)
LEMMA UseSimulated ==
    ASSUME TypeOK, NEW fd \in Fds, NEW node \in Nodes \cup {Closed},
           host' = [host EXCEPT ![fd] = node], Requests' = Requests,
           UNCHANGED active_directory_path
    PROVE  Directory!Use
  BY DEF Directory!Use, Requests, copy_active_directory_path, Nodes

LEMMA CallSimulated ==
    ASSUME CwdInv, NEW t \in Threads, Call(t)
    PROVE  Directory!DirectoryNext
  <1> USE DEF layerVars, hostVars
  <1>0. TypeOK /\ Request(Returned) = NoPath
    BY DEF CwdInv, Request, Returned
  <1>0a. In(t, "returned") => Request(thread[t]) = NoPath
    BY DEF In, Request
  <1>1. ASSUME NEW fd \in Fds, NEW node \in Nodes, OpenAbsolute(t, fd, node)
        PROVE  Directory!Use
    <2> DEFINE call == [pc |-> "replace", fd |-> fd, path |-> node, fresh |-> TRUE]
    <2>1. Request(call) = NoPath
      BY DEF Request
    <2>2. Become(t, call) /\ In(t, "returned")
      BY <1>1 DEF OpenAbsolute
    <2>3. Requests' = Requests
      BY <1>0, <1>0a, <2>1, <2>2, RequestStands
    <2> QED BY <1>0, <1>1, <2>3, UseSimulated DEF OpenAbsolute, HostOpen
  <1>2. ASSUME NEW fd \in Fds, NEW from \in Fds \cup {AT_FDCWD}, NEW arg \in Names,
               OpenRelative(t, fd, from, arg)
        PROVE  Directory!Use
    <2> DEFINE call == [pc |-> "base", fd |-> fd, from |-> from, arg |-> arg]
    <2>1. Request(call) = NoPath
      BY DEF Request
    <2>2. Become(t, call) /\ In(t, "returned")
      BY <1>2 DEF OpenRelative
    <2>3. Requests' = Requests
      BY <1>0, <1>0a, <2>1, <2>2, RequestStands
    <2> QED BY <1>0, <1>2, <2>3, UseSimulated DEF OpenRelative, HostOpen
  <1>3. ASSUME NEW fd \in Fds, Close(t, fd)
        PROVE  Directory!Use
    <2> DEFINE call == [pc |-> "replace", fd |-> fd, path |-> NoPath, fresh |-> FALSE]
    <2>1. Request(call) = NoPath
      BY DEF Request
    <2>2. Become(t, call) /\ In(t, "returned")
      BY <1>3 DEF Close
    <2>3. Requests' = Requests
      BY <1>0, <1>0a, <2>1, <2>2, RequestStands
    <2> QED BY <1>0, <1>3, <2>3, UseSimulated DEF Close
  <1>4. ASSUME NEW fd \in Fds, NEW duplicate \in Fds,
               Dup(t, fd, duplicate) \/ Dup2(t, fd, duplicate)
        PROVE  Directory!Use
    <2> DEFINE call == [pc |-> "copy", fd |-> duplicate, from |-> fd]
    <2>1. Request(call) = NoPath
      BY DEF Request
    <2>2. Become(t, call) /\ In(t, "returned") /\ host' = [host EXCEPT ![duplicate] = host[fd]]
          /\ UNCHANGED active_directory_path
      BY <1>4 DEF Dup, Dup2, Duplicate
    <2>3. Requests' = Requests
      BY <1>0, <1>0a, <2>1, <2>2, RequestStands
    <2>4. host[fd] \in Nodes \cup {Closed}
      BY <1>0 DEF TypeOK
    <2> QED BY <1>0, <2>2, <2>3, <2>4, UseSimulated
  <1>5. ASSUME NEW fd \in Fds, NEW node \in Dirs,
               LibcClose(t, fd) \/ LibcOpen(t, fd, node)
        PROVE  Directory!Use
    <2>1. /\ UNCHANGED <<active_directory_path, thread>>
          /\ \E content \in Nodes \cup {Closed} : host' = [host EXCEPT ![fd] = content]
      BY <1>5 DEF LibcClose, LibcOpen, HostOpen, Nodes
    <2>2. Requests' = Requests
      BY <2>1 DEF Requests
    <2> QED BY <1>0, <2>1, <2>2, UseSimulated
  <1>6. ASSUME NEW node \in Nodes, ChdirAbsolute(t, node)
        PROVE  Directory!Chdir(t)
    <2> DEFINE call == [pc |-> "chdir", path |-> node, asked |-> node]
    <2>1. Request(call) = node
      BY DEF Request
    <2>2. Become(t, call) /\ In(t, "returned") /\ UNCHANGED <<host, active_directory_path>>
      BY <1>6 DEF ChdirAbsolute
    <2> HIDE DEF call
    <2>3. Requests[t] = NoPath /\ Requests' = [Requests EXCEPT ![t] = node]
      BY <1>0, <1>0a, <2>1, <2>2, RequestMoves
    <2> QED BY <2>2, <2>3
        DEF Directory!Chdir, Directory!Ask, Requests, copy_active_directory_path, Nodes
  <1>7. ASSUME NEW arg \in Names, ChdirRelative(t, arg)
        PROVE  Directory!Chdir(t)
    <2> DEFINE call == [pc |-> "chbase", arg |-> arg]
    <2>1. Request(call) = arg
      BY DEF Request
    <2>2. Become(t, call) /\ In(t, "returned") /\ UNCHANGED <<host, active_directory_path>>
      BY <1>7 DEF ChdirRelative
    <2> HIDE DEF call
    <2>3. Requests[t] = NoPath /\ Requests' = [Requests EXCEPT ![t] = arg]
      BY <1>0, <1>0a, <2>1, <2>2, RequestMoves
    <2> QED BY <2>2, <2>3
        DEF Directory!Chdir, Directory!Ask, Requests, copy_active_directory_path
  <1>8. ASSUME NEW fd \in Fds, Fchdir(t, fd)
        PROVE  Directory!Fchdir(t)
    <2> DEFINE call == [pc |-> "chdir", path |-> copy_directory_path(fd), asked |-> host[fd]]
    <2>1. Request(call) = host[fd]
      BY DEF Request
    <2>2. Become(t, call) /\ In(t, "returned") /\ UNCHANGED <<host, active_directory_path>>
          /\ host[fd] # Closed
      BY <1>8 DEF Fchdir, Usable
    <2> HIDE DEF call
    <2>3. Requests[t] = NoPath /\ Requests' = [Requests EXCEPT ![t] = host[fd]]
      BY <1>0, <1>0a, <2>1, <2>2, RequestMoves
    <2> QED BY <2>2, <2>3
        DEF Directory!Fchdir, Directory!Ask, Requests, copy_active_directory_path
  <1> QED BY <1>1, <1>2, <1>3, <1>4, <1>5, <1>6, <1>7, <1>8, CallCases
         DEF Directory!DirectoryNext

(* The call comes to its end where chdir puts back the mutex; until then it  *)
(* only finds out what path it will go to.                                   *)
LEMMA ContinueSimulated ==
    ASSUME CwdInv, TableInv, NEW t \in Threads, Continue(t)
    PROVE  Directory!DirectoryNext \/ UNCHANGED Directory!directoryVars
  <1> USE DEF layerVars, hostVars
  <1>0. /\ TypeOK /\ Coherent /\ CallIsTrue(t)
        /\ Request(Returned) = NoPath
    BY DEF CwdInv, TableInv, Request, Returned
  <1>1. CASE RememberBase(t) \/ CopyPath(t) \/ Replace(t)
    <2>1. PICK call : Become(t, call) /\ (call = Returned \/ call.pc = "replace")
      BY <1>1 DEF RememberBase, CopyPath, Replace
    <2>2. Request(call) = NoPath /\ Request(thread[t]) = NoPath
      BY <1>0, <1>1, <2>1 DEF RememberBase, CopyPath, Replace, In, Request
    <2>3. Requests' = Requests
      BY <1>0, <2>1, <2>2, RequestStands
    <2>4. UNCHANGED <<host, active_directory_path>>
      BY <1>1 DEF RememberBase, CopyPath, Replace
    <2> QED BY <2>3, <2>4 DEF Directory!directoryVars, Requests, copy_active_directory_path
  <1>2. CASE ChdirBase(t)
    <2> DEFINE call == [pc |-> "chdir", asked |-> thread[t].arg,
                        path |-> Join[copy_active_directory_path][thread[t].arg]]
    <2>1. Request(call) = Request(thread[t])
      BY <1>2 DEF ChdirBase, In, Request
    <2>2. Become(t, call) /\ UNCHANGED <<host, active_directory_path>>
      BY <1>2 DEF ChdirBase
    <2> HIDE DEF call
    <2>3. Requests' = Requests
      BY <1>0, <2>1, <2>2, RequestStands
    <2> QED BY <2>2, <2>3 DEF Directory!directoryVars, Requests, copy_active_directory_path
  <1>3. CASE ChdirHost(t)
    <2>1. /\ In(t, "chdir") /\ UNCHANGED <<host, active_directory_path>>
          /\ Become(t, [thread[t] EXCEPT !.pc = "chdone"])
      BY <1>3 DEF ChdirHost
    <2>2. Request([thread[t] EXCEPT !.pc = "chdone"]) = Request(thread[t])
      BY <1>0, <2>1, ChdirFields DEF Request, In
    <2>3. Requests' = Requests
      BY <1>0, <2>1, <2>2, RequestStands
    <2> QED BY <2>1, <2>3 DEF Directory!directoryVars, Requests, copy_active_directory_path
  <1>4. CASE ChdirFails(t) \/ ChdirDone(t)
    <2>1. /\ In(t, "chdir") \/ In(t, "chdone")
          /\ Become(t, Returned)
          /\ UNCHANGED host
      BY <1>4 DEF ChdirFails, ChdirDone
    <2>2. /\ Requests[t] = thread[t].asked
          /\ Requests' = [Requests EXCEPT ![t] = NoPath]
      <3>1. Request(thread[t]) = thread[t].asked
        BY <2>1 DEF Request, In
      <3> QED BY <1>0, <2>1, <3>1, RequestMoves
    <2>3. thread[t].asked # NoPath
      BY <1>0, <2>1, ChdirFields, NullAssumption DEF Paths
    <2>4. Directory!Target(t) = thread[t].path
      BY <1>0, <2>1, <2>2 DEF Directory!Target, CallIsTrue, Requests
    <2>5. copy_active_directory_path' =
             IF thread[t].path \in Dirs THEN thread[t].path ELSE copy_active_directory_path
      <3>1. CASE ChdirFails(t)
        BY <3>1 DEF ChdirFails, copy_active_directory_path
      <3>2. CASE ChdirDone(t)
        <4>1. thread[t].path = hostCwd /\ hostCwd \in Dirs
          BY <1>0, <3>2 DEF ChdirDone, Coherent, TypeOK
        <4>2. active_directory_path' = thread[t].path /\ thread[t].path # NoPath
          BY <3>2, <4>1, NullAssumption DEF ChdirDone, Paths, Nodes
        <4> QED BY <4>1, <4>2 DEF copy_active_directory_path
      <3> QED BY <1>4, <3>1, <3>2
    <2>6. Directory!Answer(t)
      BY <2>1, <2>2, <2>3, <2>4, <2>5 DEF Directory!Answer, Requests
    <2> QED BY <2>6 DEF Directory!DirectoryNext
  <1> QED BY <1>1, <1>2, <1>3, <1>4 DEF Continue

(* In such a program the directory getcwd tells is the working directory of  *)
(* a POSIX process, although the host has no fchdir and chdir is many steps: *)
(* every chdir and fchdir ends in what it was asked for, seen from where the *)
(* program was, or changes nothing.                                          *)
THEOREM LayerIsPosix == SingleThreaded => (Spec => DirectoryIsPosix)
  <1> SUFFICES ASSUME SingleThreaded PROVE Spec => DirectoryIsPosix
    OBVIOUS
  <1>1. Init => Directory!DirectoryInit
    BY DEF Init, Directory!DirectoryInit, copy_active_directory_path, Request, Returned
  <1>2. CwdInv /\ TableInv /\ [Next]_vars => [Directory!DirectoryNext]_(Directory!directoryVars)
    <2> SUFFICES ASSUME CwdInv, TableInv, [Next]_vars
                 PROVE  Directory!DirectoryNext \/ UNCHANGED Directory!directoryVars
      OBVIOUS
    <2>1. CASE UNCHANGED vars
      BY <2>1 DEF vars, hostVars, layerVars, Directory!directoryVars, copy_active_directory_path
    <2>2. CASE Next
      BY <2>2, CallSimulated, ContinueSimulated DEF Next
    <2> QED BY <2>1, <2>2
  <1>3. Spec => [](CwdInv /\ TableInv)
    BY TablesStay
  <1> QED BY <1>1, <1>2, <1>3, PTL DEF Spec, DirectoryIsPosix, Directory!DirectorySpec
=============================================================================
