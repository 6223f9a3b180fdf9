------------------------------ MODULE RoomHub ------------------------------
(***************************************************************************)
(* One room as the server's hub holds it (crates/server/src/lib.rs, Room   *)
(* and the Hub operations on it): a compaction floor, the retained log     *)
(* above it, and the set of op ids the replica has folded.  A CRDT         *)
(* document is a function of the ops folded into it, so `seen` stands for  *)
(* the document as well as for the dedup index.                            *)
(***************************************************************************)
EXTENDS Naturals, Sequences, FiniteSets, SequencesExt

CONSTANTS
    Op,                  \* the op ids clients mint
    CompactionThreshold  \* retained ops at which an ingest compacts, 0 = never

ASSUME ThresholdAssumption == CompactionThreshold \in Nat

Room == [base : Nat, log : Seq(Op), seen : SUBSET Op]

EmptyRoom == [base |-> 0, log |-> <<>>, seen |-> {}]

RoomHead(r) == r.base + Len(r.log)

(* The elements of s at the positions in `at`, in the order of s.          *)
Picked(s, at) ==
    [k \in 1 .. Cardinality(at) |->
        s[CHOOSE i \in at : Cardinality({j \in at : j <= i}) = k]]

(* The positions at which a batch names an op for the first time.          *)
FirstNamed(ops) == {i \in DOMAIN ops : \A j \in 1 .. i - 1 : ops[j] # ops[i]}

(* Mutant of Fresh: dedups within the batch only.                          *)
FreshInBatch(r, ops) == Picked(ops, FirstNamed(ops))

(* The ops of a batch that are new to the room, each once, in batch order. *)
Fresh(r, ops) == Picked(ops, {i \in FirstNamed(ops) : ops[i] \notin r.seen})

Compact(r) == [base |-> RoomHead(r), log |-> <<>>, seen |-> r.seen]

Commit(r, fresh) ==
    LET grown == [base |-> r.base, log |-> r.log \o fresh, seen |-> r.seen \union Range(fresh)]
    IN IF CompactionThreshold > 0 /\ Len(grown.log) >= CompactionThreshold
       THEN Compact(grown)
       ELSE grown

Ingest(r, ops) == Commit(r, Fresh(r, ops))

(* Mutant of CatchUp: the snapshot leaves the retained log out.            *)
CatchUpFromFloor(r, floor) ==
    IF floor < r.base
    THEN [kind |-> "snapshot", seq |-> RoomHead(r), state |-> r.seen \ Range(r.log)]
    ELSE [kind |-> "ops",
          ops |-> SubSeq(r.log, floor - r.base + 1, Len(r.log))]

(* What a reader at `floor` is missing: the retained tail, or the whole    *)
(* replica when the floor lies below the compaction base.                  *)
CatchUp(r, floor) ==
    IF floor < r.base
    THEN [kind |-> "snapshot", seq |-> RoomHead(r), state |-> r.seen]
    ELSE [kind |-> "ops",
          ops |-> SubSeq(r.log, floor - r.base + 1, Len(r.log))]

(* Mutant of InstallSnapshot: the floor lands one past the snapshot.       *)
InstallSnapshotPast(state, seq) == [base |-> seq + 1, log |-> <<>>, seen |-> state]

InstallSnapshot(state, seq) == [base |-> seq, log |-> <<>>, seen |-> state]
=============================================================================
