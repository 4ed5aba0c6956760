--------------------------- MODULE PosixDirectory ---------------------------
(***************************************************************************)
(* What a program relies on about its working directory, with nothing of   *)
(* how a layer without fchdir provides it: there is one directory, which   *)
(* getcwd tells and relative paths start from; chdir and fchdir move it at *)
(* one instant to what was asked for, the latter to the directory that the *)
(* descriptor was open on at the call, or leave it where it is.            *)
(***************************************************************************)

CONSTANTS
    Threads, Fds,
    Dirs, Files,      \* the nodes of the file tree
    Names,            \* relative path arguments
    Join,             \* Join[n][r]: the node that r names from the directory n
    PWD,              \* the directory the process starts in
    Closed,           \* the descriptor is not open
    NoPath            \* the thread is not changing the directory

VARIABLES
    cwd,              \* the working directory
    open,             \* the node each descriptor is open on
    request           \* what each thread has asked to go to

directoryVars == <<cwd, open, request>>

DirectoryInit ==
    /\ cwd = PWD
    /\ open = [fd \in Fds |-> Closed]
    /\ request = [t \in Threads |-> NoPath]

(* Descriptors are opened, duplicated and closed.                            *)
Use ==
    /\ \E fd \in Fds, node \in Dirs \cup Files \cup {Closed} :
          open' = [open EXCEPT ![fd] = node]
    /\ UNCHANGED <<cwd, request>>

(* chdir names a node or a path to it, fchdir an open descriptor.            *)
Ask(t, target) ==
    /\ request[t] = NoPath
    /\ request' = [request EXCEPT ![t] = target]
    /\ UNCHANGED <<cwd, open>>

Chdir(t) == \E target \in Dirs \cup Files \cup Names : Ask(t, target)

Fchdir(t) == \E fd \in Fds : open[fd] # Closed /\ Ask(t, open[fd])

Target(t) == IF request[t] \in Names THEN Join[cwd][request[t]] ELSE request[t]

(* The call succeeds exactly if its target is a directory.                   *)
Answer(t) ==
    /\ request[t] # NoPath
    /\ cwd' = IF Target(t) \in Dirs THEN Target(t) ELSE cwd
    /\ request' = [request EXCEPT ![t] = NoPath]
    /\ UNCHANGED open

DirectoryNext ==
    \/ Use
    \/ \E t \in Threads : Chdir(t) \/ Fchdir(t) \/ Answer(t)

DirectorySpec == DirectoryInit /\ [][DirectoryNext]_directoryVars
=============================================================================
