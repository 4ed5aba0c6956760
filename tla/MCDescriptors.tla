---------------------------- MODULE MCDescriptors ----------------------------
EXTENDS Descriptors, TLC

CONSTANTS root, a, b, f, x, up

(* root holds the directory a, a the directory b, b the file f, each as x.   *)
MCJoin ==
    root :> (x :> a @@ up :> root)
    @@ a :> (x :> b @@ up :> root)
    @@ b :> (x :> f @@ up :> a)
    @@ f :> (x :> Nowhere @@ up :> b)
    @@ Nowhere :> (x :> Nowhere @@ up :> Nowhere)

Symmetry == Permutations(Threads)
=============================================================================
