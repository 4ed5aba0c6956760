----------------------------- MODULE Descriptors -----------------------------
(***************************************************************************)
(* vendor/edgeterm-posix/src/descriptors.c: WASIX has no fchdir, so the    *)
(* layer remembers the path every descriptor was opened by and the working *)
(* directory, and replays them.                                            *)
(*                                                                         *)
(* Each call of the layer is several steps: the host call, reading what is *)
(* remembered, replacing what is remembered.  The mutex covers one read or *)
(* one replacement; only chdir holds it across a host call.  A step that   *)
(* takes and releases the mutex is one action, enabled when it is free.    *)
(*                                                                         *)
(* A path is modelled as the node it names.  The tree does not change and  *)
(* has no symbolic links, so the lexical join of the layer and the walk of *)
(* the host agree whenever they start from the same directory.             *)
(***************************************************************************)
EXTENDS Naturals, FiniteSets

CONSTANTS
    Threads,      \* threads of the program
    Fds,          \* descriptor numbers
    Limit,        \* EDGETERM_DESCRIPTOR_LIMIT: numbers from here on have no entry
    Dirs, Files,  \* the nodes of the file tree
    Names,        \* relative path arguments
    Join,         \* Join[n][r]: the path r joined to the path of n, normalized
    PWD,          \* the directory the process starts in, as the environment has it
    Unwrapped,    \* which of "open" and "close" libc also does behind the layer
    AT_FDCWD,     \* the working directory as the argument of openat
    Nowhere,      \* a path that names nothing
    NoPath,       \* a null path
    Closed,       \* the descriptor is not open
    NoThread      \* the mutex is free

Nodes == Dirs \cup Files
Paths == Nodes \cup {Nowhere}

ASSUME FdsAssumption == Fds \subseteq Nat /\ Limit \in Nat
ASSUME TreeAssumption ==
    /\ Join \in [Paths -> [Names -> Paths]]
    /\ PWD \in Dirs
    /\ Dirs \cap Files = {}
    /\ Names \cap Paths = {}
ASSUME NullAssumption ==
    /\ Nowhere \notin Nodes
    /\ NoPath \notin Paths \cup Names /\ Closed \notin Paths \cup {NoPath}
    /\ NoThread \notin Threads
    /\ AT_FDCWD \notin Fds
ASSUME UnwrappedAssumption == Unwrapped \subseteq {"open", "close"}

VARIABLES
    host,         \* the node each descriptor is open on
    hostCwd,      \* the working directory of the host
    directory_paths,
    active_directory_path,
    lock,         \* who holds directory_paths_lock across a step
    thread        \* the call each thread is in, with its local variables

hostVars == <<host, hostCwd>>
layerVars == <<directory_paths, active_directory_path, lock>>
vars == <<hostVars, layerVars, thread>>

-----------------------------------------------------------------------------

Returned == [pc |-> "returned"]

(* fd is the descriptor a call opens or closes; fresh tells an opening call  *)
(* from a close; asked is what chdir was given, and for an fchdir the node   *)
(* that its descriptor is open on.                                           *)
Calls ==
    {Returned}
    \cup [pc : {"base"}, fd : Fds, from : Fds \cup {AT_FDCWD}, arg : Names]
    \cup [pc : {"copy"}, fd : Fds, from : Fds]
    \cup [pc : {"replace"}, fd : Fds, path : Paths \cup {NoPath}, fresh : BOOLEAN]
    \cup [pc : {"chbase"}, arg : Names]
    \cup [pc : {"chdir", "chdone"}, path : Paths, asked : Nodes \cup Names]

In(t, pc) == thread[t].pc = pc
Become(t, call) == thread' = [thread EXCEPT ![t] = call]

Unlocked == lock = NoThread

Tracked(fd) == fd < Limit

copy_directory_path(fd) == IF Tracked(fd) THEN directory_paths[fd] ELSE NoPath

copy_active_directory_path ==
    IF active_directory_path = NoPath THEN PWD ELSE active_directory_path

(* The host gives out the lowest number that is free.                        *)
FreeFd(fd) ==
    /\ host[fd] = Closed
    /\ \A lower \in Fds : host[lower] = Closed => fd <= lower

Opening(t, fd) ==
    \/ In(t, "base") /\ thread[t].fd = fd
    \/ In(t, "copy") /\ thread[t].fd = fd
    \/ In(t, "replace") /\ thread[t].fd = fd /\ thread[t].fresh

(* The program has been given the descriptor and not closed it.              *)
Usable(fd) == host[fd] # Closed /\ \A t \in Threads : ~Opening(t, fd)

-----------------------------------------------------------------------------

Init ==
    /\ host = [fd \in Fds |-> Closed]
    /\ hostCwd = PWD
    /\ directory_paths = [fd \in Fds |-> NoPath]
    /\ active_directory_path = NoPath
    /\ lock = NoThread
    /\ thread = [t \in Threads |-> Returned]

(* What the host opens for a path relative to a directory; a file or a hole  *)
(* is no directory to start from.                                            *)
HostWalk(start, arg) == IF start \in Dirs THEN Join[start][arg] ELSE Nowhere

HostOpen(fd, node) ==
    /\ FreeFd(fd)
    /\ node \in Nodes
    /\ host' = [host EXCEPT ![fd] = node]
    /\ UNCHANGED <<hostCwd, layerVars>>

(* open and openat of an absolute path, up to the replacement.               *)
OpenAbsolute(t, fd, node) ==
    /\ In(t, "returned")
    /\ HostOpen(fd, node)
    /\ Become(t, [pc |-> "replace", fd |-> fd, path |-> node, fresh |-> TRUE])

(* open of a relative path (from AT_FDCWD), and openat.                      *)
OpenRelative(t, fd, from, arg) ==
    /\ In(t, "returned")
    /\ from # AT_FDCWD => Usable(from)
    /\ HostOpen(fd, HostWalk(IF from = AT_FDCWD THEN hostCwd ELSE host[from], arg))
    /\ Become(t, [pc |-> "base", fd |-> fd, from |-> from, arg |-> arg])

(* remember_directory, when there is a base to join to; without one it       *)
(* returns and leaves the entry as it is.                                    *)
RememberBase(t) ==
    /\ In(t, "base")
    /\ Unlocked
    /\ LET call == thread[t]
           base == IF call.from = AT_FDCWD
                   THEN copy_active_directory_path ELSE copy_directory_path(call.from)
       IN Become(t, IF base = NoPath THEN Returned
                    ELSE [pc |-> "replace", fd |-> call.fd,
                          path |-> Join[base][call.arg], fresh |-> TRUE])
    /\ UNCHANGED <<hostVars, layerVars>>

(* Faulty variant: closing leaves the entry behind.                          *)
Close_Forgets(t, fd) ==
    /\ In(t, "returned")
    /\ Usable(fd)
    /\ host' = [host EXCEPT ![fd] = Closed]
    /\ Become(t, Returned)
    /\ UNCHANGED <<hostCwd, layerVars>>

Close(t, fd) ==
    /\ In(t, "returned")
    /\ Usable(fd)
    /\ host' = [host EXCEPT ![fd] = Closed]
    /\ Become(t, [pc |-> "replace", fd |-> fd, path |-> NoPath, fresh |-> FALSE])
    /\ UNCHANGED <<hostCwd, layerVars>>

(* dup takes a free number; dup2 a given one, closing what was open there.   *)
Duplicate(t, fd, duplicate) ==
    /\ host' = [host EXCEPT ![duplicate] = host[fd]]
    /\ Become(t, [pc |-> "copy", fd |-> duplicate, from |-> fd])
    /\ UNCHANGED <<hostCwd, layerVars>>

Dup(t, fd, duplicate) ==
    /\ In(t, "returned")
    /\ Usable(fd)
    /\ FreeFd(duplicate)
    /\ Duplicate(t, fd, duplicate)

Dup2(t, fd, duplicate) ==
    /\ In(t, "returned")
    /\ Usable(fd)
    /\ host[duplicate] = Closed \/ Usable(duplicate)
    /\ Duplicate(t, fd, duplicate)

(* Faulty variant: a duplicate is remembered only if its original is.        *)
CopyPath_SkipsNull(t) ==
    /\ In(t, "copy")
    /\ Unlocked
    /\ LET path == copy_directory_path(thread[t].from) IN
       Become(t, IF path = NoPath THEN Returned
                 ELSE [pc |-> "replace", fd |-> thread[t].fd, path |-> path, fresh |-> TRUE])
    /\ UNCHANGED <<hostVars, layerVars>>

CopyPath(t) ==
    /\ In(t, "copy")
    /\ Unlocked
    /\ Become(t, [pc |-> "replace", fd |-> thread[t].fd,
                  path |-> copy_directory_path(thread[t].from), fresh |-> TRUE])
    /\ UNCHANGED <<hostVars, layerVars>>

(* replace_directory_path ends open, openat, close, dup and dup2.            *)
Replace(t) ==
    /\ In(t, "replace")
    /\ Unlocked
    /\ LET call == thread[t] IN
       directory_paths' = IF Tracked(call.fd)
                          THEN [directory_paths EXCEPT ![call.fd] = call.path]
                          ELSE directory_paths
    /\ Become(t, Returned)
    /\ UNCHANGED <<hostVars, active_directory_path, lock>>

ChdirAbsolute(t, node) ==
    /\ In(t, "returned")
    /\ Become(t, [pc |-> "chdir", path |-> node, asked |-> node])
    /\ UNCHANGED <<hostVars, layerVars>>

ChdirRelative(t, arg) ==
    /\ In(t, "returned")
    /\ Become(t, [pc |-> "chbase", arg |-> arg])
    /\ UNCHANGED <<hostVars, layerVars>>

(* Faulty variant: a relative path starts where the process did.             *)
ChdirBase_FromPWD(t) ==
    /\ In(t, "chbase")
    /\ Unlocked
    /\ Become(t, [pc |-> "chdir", asked |-> thread[t].arg, path |-> Join[PWD][thread[t].arg]])
    /\ UNCHANGED <<hostVars, layerVars>>

ChdirBase(t) ==
    /\ In(t, "chbase")
    /\ Unlocked
    /\ Become(t, [pc |-> "chdir", asked |-> thread[t].arg,
                  path |-> Join[copy_active_directory_path][thread[t].arg]])
    /\ UNCHANGED <<hostVars, layerVars>>

(* fchdir up to its chdir: an error without an entry, or if the path is no   *)
(* directory.                                                                *)
Fchdir(t, fd) ==
    /\ In(t, "returned")
    /\ Usable(fd)
    /\ Unlocked
    /\ copy_directory_path(fd) \in Dirs
    /\ Become(t, [pc |-> "chdir", path |-> copy_directory_path(fd), asked |-> host[fd]])
    /\ UNCHANGED <<hostVars, layerVars>>

(* Faulty variant: chdir takes the mutex only after the host has moved.      *)
ChdirHost_Unlocked(t) ==
    /\ In(t, "chdir")
    /\ thread[t].path \in Dirs
    /\ hostCwd' = thread[t].path
    /\ Become(t, [thread[t] EXCEPT !.pc = "chdone"])
    /\ UNCHANGED <<host, layerVars>>

(* Faulty variant: what the host answers to chdir is not looked at.          *)
ChdirHost_IgnoresError(t) ==
    /\ In(t, "chdir")
    /\ Unlocked
    /\ hostCwd' = IF thread[t].path \in Dirs THEN thread[t].path ELSE hostCwd
    /\ lock' = t
    /\ Become(t, [thread[t] EXCEPT !.pc = "chdone"])
    /\ UNCHANGED <<host, directory_paths, active_directory_path>>

(* chdir takes the mutex and moves the host; it keeps the mutex.             *)
ChdirHost(t) ==
    /\ In(t, "chdir")
    /\ Unlocked
    /\ thread[t].path \in Dirs
    /\ hostCwd' = thread[t].path
    /\ lock' = t
    /\ Become(t, [thread[t] EXCEPT !.pc = "chdone"])
    /\ UNCHANGED <<host, directory_paths, active_directory_path>>

(* Faulty variant: the error return forgets the mutex.                       *)
ChdirFails_KeepsLock(t) ==
    /\ In(t, "chdir")
    /\ Unlocked
    /\ thread[t].path \notin Dirs
    /\ lock' = t
    /\ Become(t, Returned)
    /\ UNCHANGED <<hostVars, directory_paths, active_directory_path>>

ChdirFails(t) ==
    /\ In(t, "chdir")
    /\ Unlocked
    /\ thread[t].path \notin Dirs
    /\ Become(t, Returned)
    /\ UNCHANGED <<hostVars, layerVars>>

ChdirDone(t) ==
    /\ In(t, "chdone")
    /\ active_directory_path' = thread[t].path
    /\ lock' = NoThread
    /\ Become(t, Returned)
    /\ UNCHANGED <<hostVars, directory_paths>>

(* closedir and fclose close, and opendir opens, inside libc: the host sees  *)
(* it and the layer does not.                                                *)
LibcClose(t, fd) ==
    /\ "close" \in Unwrapped
    /\ In(t, "returned")
    /\ Usable(fd)
    /\ host' = [host EXCEPT ![fd] = Closed]
    /\ UNCHANGED <<hostCwd, layerVars, thread>>

LibcOpen(t, fd, node) ==
    /\ "open" \in Unwrapped
    /\ In(t, "returned")
    /\ HostOpen(fd, node)
    /\ UNCHANGED thread

-----------------------------------------------------------------------------

Call(t) ==
    \/ \E fd \in Fds :
          \/ \E node \in Nodes : OpenAbsolute(t, fd, node)
          \/ \E from \in Fds \cup {AT_FDCWD}, arg \in Names : OpenRelative(t, fd, from, arg)
          \/ Close(t, fd)
          \/ \E duplicate \in Fds : Dup(t, fd, duplicate) \/ Dup2(t, fd, duplicate)
          \/ Fchdir(t, fd)
          \/ LibcClose(t, fd)
          \/ \E node \in Dirs : LibcOpen(t, fd, node)
    \/ \E node \in Nodes : ChdirAbsolute(t, node)
    \/ \E arg \in Names : ChdirRelative(t, arg)

Continue(t) ==
    \/ RememberBase(t)
    \/ CopyPath(t)
    \/ Replace(t)
    \/ ChdirBase(t)
    \/ ChdirHost(t)
    \/ ChdirFails(t)
    \/ ChdirDone(t)

Next == \E t \in Threads : Call(t) \/ Continue(t)

Spec == Init /\ [][Next]_vars

(* A thread that is inside the layer and not waiting keeps running.          *)
FairSpec == Spec /\ \A t \in Threads : WF_vars(Continue(t))

-----------------------------------------------------------------------------

TypeOK ==
    /\ host \in [Fds -> Nodes \cup {Closed}]
    /\ hostCwd \in Dirs
    /\ directory_paths \in [Fds -> Paths \cup {NoPath}]
    /\ active_directory_path \in Dirs \cup {NoPath}
    /\ lock \in Threads \cup {NoThread}
    /\ thread \in [Threads -> Calls]

(* Whoever can read the remembered working directory (getcwd, a relative     *)
(* open or chdir) reads the directory the host is in, with any number of     *)
(* threads: chdir moves the host and the memory under one mutex.             *)
CwdCoherent == Unlocked => copy_active_directory_path = hostCwd

(* When fchdir is about to report success, the process is in the directory   *)
(* its descriptor was open on when it was called, however descriptors were   *)
(* opened, duplicated, closed and their numbers reused before.               *)
FchdirIsTrue ==
    \A t \in Threads :
       In(t, "chdone") /\ thread[t].asked \in Nodes => hostCwd = thread[t].asked

(* Between calls, an entry that is there is the right one, and a number that *)
(* is closed has none for its next owner to inherit.                         *)
TableIsTrue ==
    (\A t \in Threads : In(t, "returned")) =>
       \A fd \in Fds :
          /\ directory_paths[fd] # NoPath => directory_paths[fd] = host[fd]
          /\ ~Tracked(fd) => directory_paths[fd] = NoPath

(* What getcwd tells moves as the working directory of a process does: each  *)
(* chdir and fchdir, however many steps it takes and whichever directories   *)
(* the ones before it went to, ends in what was asked for as seen from where *)
(* the program was, or changes nothing.                                      *)
Request(call) ==
    CASE call.pc = "chbase" -> call.arg
      [] call.pc \in {"chdir", "chdone"} -> call.asked
      [] OTHER -> NoPath

Directory == INSTANCE PosixDirectory WITH
    cwd <- copy_active_directory_path, open <- host,
    request <- [t \in Threads |-> Request(thread[t])]

DirectoryIsPosix == Directory!DirectorySpec

(* A chdir that fails or succeeds lets the other threads go on.              *)
LockIsReleased == lock # NoThread ~> lock = NoThread
=============================================================================
