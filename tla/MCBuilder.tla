------------------------------ MODULE MCBuilder ------------------------------
EXTENDS Builder, TLC

CONSTANTS zlib, m4, bison

(* bison is linked with zlib and m4, m4 with zlib; bison executes m4.  With  *)
(* fewer ports, what is left of that.                                        *)
Left(ports) == SelectSeq(ports, LAMBDA p : p \in Ports)
MCDependencies == [p \in Ports |->
    Left(IF p = m4 THEN <<zlib>> ELSE IF p = bison THEN <<zlib, m4>> ELSE <<>>)]
MCBundled == [p \in Ports |-> Left(IF p = bison THEN <<m4>> ELSE <<>>)]

MCRequests ==
    {[action |-> "build", force |-> FALSE, batch |-> <<p>>] : p \in Ports}
    \cup {[action |-> "package", force |-> f, batch |-> b] :
            f \in BOOLEAN, b \in {<<bison>>, <<m4, bison>>}}
=============================================================================
