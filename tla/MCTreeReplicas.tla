--------------------------- MODULE MCTreeReplicas ---------------------------
(***************************************************************************)
(* Small instances of TreeReplicas for TLC.                                *)
(***************************************************************************)
EXTENDS TreeReplicas

Bound(authors, receivers, menu, stale, edits, twins, undos) ==
    [authors |-> authors, receivers |-> receivers, menu |-> menu, stale |-> stale, edits |-> edits,
     twins |-> twins, undos |-> undos]

Everything ==
    {Bound({1, 2}, Client, {"insert", "move", "delete"}, TRUE, 2, 0, 0),
     Bound({1, 2}, Client, {"move"}, TRUE, 3, 0, 0),
     Bound({1}, Client, {"insert", "move", "delete"}, TRUE, 2, 1, 0),
     Bound({1}, {}, {"insert", "move", "delete"}, FALSE, 2, 0, 2)}

Thrice == {Bound({1}, {1}, {"insert", "move"}, TRUE, 2, 2, 0)}

Revivals == {Bound({1}, {}, {"insert", "move", "delete"}, FALSE, 2, 0, 2)}
=============================================================================
