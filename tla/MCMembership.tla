---------------------------- MODULE MCMembership ----------------------------
(***************************************************************************)
(* Small instances of Membership for TLC.                                  *)
(***************************************************************************)
EXTENDS Membership

CONSTANTS n1, n2, n3

(* Every node is configured with every other.                              *)
Full == [n \in Node |-> Node \ {n}]

(* n1 and n2 are configured with each other; n3 joins through n1.          *)
Joiner == (n1 :> {n2}) @@ (n2 :> {n1}) @@ (n3 :> {n1})

Founders == {<<n1, n2>>, <<n2, n1>>}

(* All links but one: n2 has not dialed n1 yet.                            *)
AllButOne == (Node \X Node) \ {<<n2, n1>>}

OwnHosts == [n \in Node |-> n]

Ranking == <<n1, n2, n3>>
=============================================================================
