------------------------------ MODULE MCCatalog ------------------------------
(***************************************************************************)
(* Three ports and every way they can be linked, or execute each other,    *)
(* with up to two entries in a list, twice the same one included; and      *)
(* catalogs with one thing wrong.                                          *)
(***************************************************************************)
EXTENDS Catalog, TLC

CONSTANTS zlib, m4, bison, x, y, z

MCOrder == <<bison, m4, zlib>>

ShortLists == {<<>>} \cup {<<p>> : p \in Ports} \cup (Ports \X Ports)
NoLists == [p \in Ports |-> <<>>]

Sound == [build |-> NoLists, exec |-> NoLists, depends |-> [p \in Ports |-> {}],
          visible |-> Ports, formed |-> Ports,
          commands |-> [p \in Ports |-> IF p = zlib THEN <<x>> ELSE IF p = m4 THEN <<y>> ELSE <<z>>],
          batches |-> <<<<m4, bison>>, <<zlib>>>>]

WithoutZlib == [Sound EXCEPT !.visible = @ \ {zlib}, !.commands[zlib] = <<>>,
                             !.batches = <<<<m4, bison>>>>]

Linked == {[Sound EXCEPT !.build = lists] : lists \in [Ports -> ShortLists]}
Executing == {[Sound EXCEPT !.exec = lists] : lists \in [Ports -> ShortLists]}
BuildOnly == {[WithoutZlib EXCEPT !.build[bison] = <<zlib>>, !.exec[bison] = list] :
                 list \in ShortLists}
Odd ==
    {[Sound EXCEPT !.commands[m4] = <<y, y>>, !.exec[bison] = <<m4>>],
     [Sound EXCEPT !.commands[m4] = <<z>>],
     [Sound EXCEPT !.commands[m4] = <<z>>, !.exec[bison] = <<m4>>],
     [Sound EXCEPT !.depends[m4] = {"gone"}],
     [Sound EXCEPT !.exec[bison] = <<"gone">>],
     [Sound EXCEPT !.build[bison] = <<"gone">>],
     [Sound EXCEPT !.visible = {m4}],
     [Sound EXCEPT !.formed = @ \ {m4}],
     [Sound EXCEPT !.commands[m4] = <<>>, !.exec[bison] = <<m4>>],
     [Sound EXCEPT !.batches = <<>>],
     [Sound EXCEPT !.batches = <<<<m4, bison>>, <<>>>>],
     [Sound EXCEPT !.batches = <<<<m4, bison>>>>],
     [Sound EXCEPT !.batches = <<<<m4, bison>>, <<zlib, m4>>>>],
     [WithoutZlib EXCEPT !.batches = Sound.batches]}

MCCatalogs == Linked \cup Executing \cup BuildOnly \cup Odd

(* The manifests are as they were, or m4 has come to depend on bison, or     *)
(* m4 is gone.                                                               *)
Without(p, lists) == [q \in DOMAIN lists \ {p} |-> lists[q]]
MCReloads(c) ==
    {c,
     [c EXCEPT !.build[m4] = <<bison>>, !.exec[m4] = <<bison>>],
     [c EXCEPT !.build = Without(m4, @), !.exec = Without(m4, @)]}
=============================================================================
