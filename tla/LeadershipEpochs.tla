-------------------------- MODULE LeadershipEpochs --------------------------
(***************************************************************************)
(* The per-room leadership epoch of crates/server/src/leadership.rs: what  *)
(* each node has seen, at which epoch it leads, and which epochs it has    *)
(* stamped on outbound frames.  Nodes learn of each other's epochs only    *)
(* through stamped frames, in any order and any number of times.           *)
(*                                                                         *)
(* This is the abstract specification RoomReplication implements.  It has  *)
(* no disk: a restart keeps `seen`, which the detailed specification earns *)
(* by persisting it before a frame leaves.  Only a node whose disk may be  *)
(* lost ever forgets what it has seen.                                     *)
(***************************************************************************)
EXTENDS Naturals

CONSTANTS
    Node,
    Wipeable  \* the nodes that may come back with an empty disk

VARIABLES
    seen,     \* seen[n]: the highest epoch n observed or claimed
    led,      \* led[n]: the epoch n leads at, 0 when it claims no leadership
    stamped   \* stamped[n]: every epoch n ever put on a frame

vars == <<seen, led, stamped>>

(* The epoch a claim returns: a standing claim no lower than everything    *)
(* seen is kept, otherwise a generation above everything seen is opened.   *)
ClaimedEpoch(s, l) == IF l # 0 /\ l >= s THEN l ELSE s + 1

(* Whether a frame at epoch e makes a node leading at l step down.         *)
LeadsBelow(l, e) == l # 0 /\ e > l

Superseded(l, e) == IF LeadsBelow(l, e) THEN 0 ELSE l

Observed(s, e) == IF e > s THEN e ELSE s

Init ==
    /\ seen = [n \in Node |-> 0]
    /\ led = [n \in Node |-> 0]
    /\ stamped = [n \in Node |-> {}]

ClaimLeadership(n) ==
    LET e == ClaimedEpoch(seen[n], led[n]) IN
    /\ seen' = [seen EXCEPT ![n] = Observed(@, e)]
    /\ led' = [led EXCEPT ![n] = e]
    /\ stamped' = [stamped EXCEPT ![n] = @ \union {e}]

(* n applies a frame m stamped, unless the frame is fenced.                *)
ApplyFrame(n, m, e) ==
    /\ e \in stamped[m]
    /\ e >= seen[n]
    /\ seen' = [seen EXCEPT ![n] = Observed(@, e)]
    /\ led' = [led EXCEPT ![n] = Superseded(@, e)]
    /\ UNCHANGED stamped

Restart(n) ==
    /\ led' = [led EXCEPT ![n] = 0]
    /\ UNCHANGED <<seen, stamped>>

Wipe(n) ==
    /\ n \in Wipeable
    /\ seen' = [seen EXCEPT ![n] = 0]
    /\ led' = [led EXCEPT ![n] = 0]
    /\ UNCHANGED stamped

Next ==
    \E n \in Node :
        \/ ClaimLeadership(n)
        \/ \E m \in Node \ {n} : \E e \in stamped[m] : ApplyFrame(n, m, e)
        \/ Restart(n)
        \/ Wipe(n)

Spec == Init /\ [][Next]_vars
-----------------------------------------------------------------------------
TypeOK ==
    /\ seen \in [Node -> Nat]
    /\ led \in [Node -> Nat]
    /\ stamped \in [Node -> SUBSET Nat]

(* A node that leads does so at the highest epoch it has seen: whatever it *)
(* observed above its claim took the claim away.                           *)
LedIsHighest == \A n \in Node : led[n] \in {0, seen[n]}

(* No node that keeps its disk stamps an epoch above what it has itself    *)
(* seen, so the fence it applies to others is never below what it sent.    *)
StampedIsSeen == \A n \in Node \ Wipeable : \A e \in stamped[n] : e \in 1 .. seen[n]

(* Every epoch a node fences with was opened by some node's claim.         *)
SeenWasStamped ==
    \A n \in Node : seen[n] # 0 => \E m \in Node : seen[n] \in stamped[m]

EpochInvariant == LedIsHighest /\ StampedIsSeen /\ SeenWasStamped

(* A fence never moves back, restarts included, on a node that keeps its   *)
(* disk.                                                                   *)
SeenMonotone == [][\A n \in Node \ Wipeable : seen'[n] >= seen[n]]_vars
=============================================================================
