------------------------ MODULE MCRoomReplication ------------------------
(* Instances of RoomReplication for TLC.                                   *)
EXTENDS RoomReplication

CONSTANTS n1, n2, n3

TwoNodes == <<n1, n2>>
ThreeNodes == <<n1, n2, n3>>

SingleOps == {<<o>> : o \in Op}
Mesh == {<<x, y>> \in Node \X Node : x # y}
PrimaryOut == {<<x, y>> \in Mesh : x = n1}
OneBack == PrimaryOut \union {<<n2, n1>>}
BothWays == {<<n1, n2>>, <<n2, n1>>}
SecondLeads == {<<n1, n2>>, <<n2, n1>>, <<n2, n3>>}
SecondToFirst == {<<n2, n1>>}

OpSymmetry == Permutations(Op)
=============================================================================
