----------------------------- MODULE MCRedaction -----------------------------
(***************************************************************************)
(* Small instances of Redaction for TLC.  Client 1 writes first and is the *)
(* creator; 2 reads what it is not denied; 3 may not read zone "z" and     *)
(* speaks version 3; 4 reads what it is granted and speaks version 1.      *)
(***************************************************************************)
EXTENDS Redaction

MCIdentity == [c \in 1..4 |-> [id |-> 10 + c, groups |-> {}, authenticated |-> TRUE]]

MCTiers == [c \in 1..4 |-> [deployment |-> "abstain", schema |-> IF c = 4 THEN "abstain" ELSE "allow"]]

MCZoneVerdict == [c \in 1..4 |-> [z \in {"z"} |-> IF c = 3 THEN "deny" ELSE "abstain"]]

MCSelector == [c \in 1..4 |-> IF c = 4 THEN {"z"} ELSE {}]

MCVersion == [c \in 1..4 |-> CASE c = 3 -> 3 [] c = 4 -> 1 [] OTHER -> 2]

Field(type, ty, field, to) == [type |-> type, ty |-> ty, field |-> field, to |-> to]

(* Version 2 adds n, version 3 renames the k of the root.                  *)
MCEdges == <<<<Field("AddField", "Doc", "n", "")>>, <<Field("RenameField", "Doc", "k", "l")>>>>

MCChildType == (<<"Doc", "a">> :> "Page") @@ (<<"Doc", "z">> :> "Page")

A == Child(Root, "a", "map")
Z == Child(Root, "z", "map")
S(m) == Child(m, "s", "list")

On(target, type, key) ==
    [target |-> target, kind |-> [type |-> type, key |-> key, val |-> IF type = "CounterInc" THEN <<1>> ELSE <<>>]]
Mark(anchors) == [target |-> Root, kind |-> [type |-> "RangedCreate", val |-> <<>>, anchors |-> anchors]]
Tuple(c, effect, scope) ==
    [target |-> Root, kind |-> [type |-> "AclGrant",
        val |-> [subject |-> Actor(10 + c), cap |-> "read", effect |-> effect, scope |-> scope, grantor |-> 11]]]

By(c, edits) == [by |-> c, plan |-> [edits |-> edits, atomic |-> FALSE]]
Together(c, edits) == [by |-> c, plan |-> [edits |-> edits, atomic |-> TRUE]]

Budget(first, roaming, setup, menu, edits, compactions, joins, steady) ==
    [joined |-> first, roaming |-> roaming, setup |-> setup, menu |-> menu, edits |-> edits,
     compactions |-> compactions, joins |-> joins, steady |-> steady]

MakeA == <<On(Root, "MapCreate", "a"), On(A, "ListCreate", "s"), On(A, "MapSet", "k")>>
Carve == <<Tuple(2, "deny", AtPath(<<"a">>)), Tuple(4, "allow", AtElement(A))>>

(* Readers that keep what they may read: writes on both sides of the line, *)
(* alone and in one transaction.                                           *)
Steady == Budget({1, 2, 4}, {2, 4}, <<By(1, MakeA \o Carve)>>,
    {By(1, <<On(Root, "MapSet", "k")>>), By(1, <<On(A, "MapDelete", "k")>>),
     By(1, <<On(Root, "ListCreate", "s"), Mark({S(Root), S(A)})>>), By(1, <<Mark({S(A)})>>),
     Together(1, <<On(A, "CounterInc", "n"), On(Root, "MapSet", "k"), On(A, "MapSet", "k")>>),
     By(2, <<On(Root, "CounterInc", "n")>>)}, 2, 1, 1, TRUE)

(* A reader in one zone and at another version.                            *)
Zoned == Budget({1, 3}, {3}, <<By(1, <<On(Root, "MapCreate", "a"), On(Root, "MapCreate", "z")>>)>>,
    {By(1, <<On(Root, "MapSet", "k")>>), By(1, <<On(A, "MapSet", "k")>>), By(1, <<On(Z, "MapSet", "k")>>),
     Together(1, <<On(Root, "MapDelete", "k"), On(Z, "CounterInc", "k"), On(Root, "MapSet", "n")>>),
     By(1, <<On(Root, "MapSet", "l")>>), By(1, <<On(Z, "ListCreate", "s"), Mark({S(Z)})>>),
     By(1, <<Tuple(3, "deny", AtPath(<<"a">>))>>)}, 2, 1, 1, FALSE)

(* A write at version 3 takes the room out of the reach of the others.     *)
Lifting == [Zoned EXCEPT !.joined = {1, 3, 4}, !.roaming = {3, 4}, !.steady = TRUE,
    !.menu = {By(1, <<On(A, "MapSet", "k")>>), By(1, <<On(Root, "MapSet", "n")>>), By(3, <<On(A, "MapSet", "n")>>)}]

(* The same reader writes, at its version, beside a writer at another.     *)
Mixed == [Zoned EXCEPT !.menu = @ \union {By(3, <<On(A, "MapSet", "n")>>)}, !.edits = 3]

(* What may be read changes, with what is written and what is deleted.     *)
Shifting == Budget({1, 2}, {2}, <<By(1, MakeA)>>,
    {By(1, <<Carve[1]>>), By(1, <<Carve[2]>>), By(1, <<On(Root, "MapDelete", "a")>>), By(1, <<On(Root, "MapCreate", "a")>>),
     By(2, <<On(A, "MapSet", "k")>>), By(2, <<On(A, "MapCreate", "a")>>), By(2, <<Mark({S(A)})>>),
     By(2, <<On(Root, "MapSet", "a")>>)}, 3, 1, 1, FALSE)

(* A container at the key that version 3 renames, written into and deleted *)
(* below a reader at that version; made again, or beside a write at the    *)
(* key that the delete moves to.                                           *)
K == Child(Root, "k", "map")
Renaming(last) == [Zoned EXCEPT !.setup = <<By(1, <<On(Root, "MapCreate", "k")>>)>>, !.edits = 3,
    !.menu = {By(1, <<On(Root, "MapDelete", "k")>>), By(1, <<On(K, "MapSet", "k")>>), By(1, <<last>>)}]

MCBudgets ==
    {Steady, Zoned, Shifting, Lifting, Renaming(On(Root, "MapCreate", "k")), Renaming(On(Root, "MapSet", "l"))}
MCMixed == {Mixed}
=============================================================================
