--------------------------- MODULE MCDocReplicas ----------------------------
(***************************************************************************)
(* Small instances of DocReplicas for TLC.                                 *)
(***************************************************************************)
EXTENDS DocReplicas

Bound(authors, receivers, menu, stale, edits, groups, undos, evictions, adopts) ==
    [authors |-> authors, receivers |-> receivers, menu |-> menu, stale |-> stale, edits |-> edits,
     groups |-> groups, undos |-> undos, evictions |-> evictions, adopts |-> adopts]

Slots == {"MapSet", "MapDelete", "RegisterSet", "CounterInc", "CounterDec", "MapCreate", "ListCreate"}

Notes == {"RangedCreate", "RangedSetPayload", "RangedDelete", "AclGrant", "AclRevoke"}

(* Slots and annotations edited on both sides; transactions delivered in   *)
(* pieces, given up and adopted; undo alone and with the other's ops       *)
(* coming in.                                                              *)
Everything ==
    {Bound({1, 2}, Client, Slots, TRUE, 3, 0, 0, 0, 0),
     Bound({1, 2}, Client, Notes, TRUE, 4, 0, 0, 0, 0),
     Bound({1}, Client, {"MapSet", "MapCreate"}, TRUE, 4, 1, 0, 1, 0),
     Bound({1, 2}, Client, {"MapSet", "MapCreate"}, TRUE, 3, 1, 0, 1, 1),
     Bound({1}, {}, Slots, FALSE, 3, 1, 2, 0, 0),
     Bound({1}, {}, Notes, FALSE, 3, 1, 3, 0, 0),
     Bound({1, 2}, {1}, {"MapSet", "MapCreate"}, FALSE, 3, 0, 2, 0, 0),
     Bound({1, 2}, {1}, {"MapSet", "CounterInc"}, FALSE, 3, 0, 1, 0, 0)}

(* Undo after a tuple has been revoked twice.                              *)
RevokedTwice == {Bound({1}, {}, {"AclGrant", "AclRevoke"}, TRUE, 3, 0, 1, 0, 0)}
=============================================================================
