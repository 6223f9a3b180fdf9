------------------------------ MODULE Sequence ------------------------------
(***************************************************************************)
(* The sequence CRDT behind List and Text (crates/core/src/list.rs).       *)
(*                                                                         *)
(* An item's id is a stamp <<lamport, client>>.  Every item hangs to the   *)
(* left or the right of another (or of Root), and the sequence is the      *)
(* in-order walk.  A list keeps the items that carry a value in `nodes`    *)
(* and the deleted ids in `dead`, run-length compressed: a run is a chain  *)
(* of consecutive lamports, each the right child of the one before.        *)
(* Values are left out (an item is told by its id), and so are two claims  *)
(* to one id, which an honest mint never makes.                            *)
(***************************************************************************)
EXTENDS Integers, FiniteSetsExt, SequencesExt

CONSTANT MaxTombstoneRun    \* MAX_TOMBSTONE_RUN, ids of one encoded record

ASSUME SequenceAssumption == MaxTombstoneRun \in Nat \ {0}

Root == <<0, 0>>

Before(s, t) == s[1] < t[1] \/ (s[1] = t[1] /\ s[2] < t[2])

RunId(head, i) == <<head[1] + i, head[2]>>

Anchor(parent, side) == [parent |-> parent, side |-> side]

NoItems == [i \in {} |-> Anchor(Root, "right")]

EmptyList == [nodes |-> NoItems, dead |-> NoItems]

Without(f, keys) == [k \in DOMAIN f \ keys |-> f[k]]

With(f, k, v) == [j \in DOMAIN f \union {k} |-> IF j = k THEN v ELSE f[j]]

-----------------------------------------------------------------------------
(* Deleted runs.                                                           *)

Covers(head, len, id) ==
    head[2] = id[2] /\ id[1] >= head[1] /\ id[1] - head[1] < len

(* The heads of the runs covering an id: none or one.                      *)
DeadRun(l, id) == {h \in DOMAIN l.dead : Covers(h, l.dead[h].len, id)}

IsTombstoned(l, id) == DeadRun(l, id) # {}

ContainsId(l, id) == id \in DOMAIN l.nodes \/ IsTombstoned(l, id)

AnchorOf(record) == Anchor(record.parent, record.side)

Run(len, anchor) == [len |-> len, parent |-> anchor.parent, side |-> anchor.side]

(* A deleted stretch is welded onto the run whose chain it continues and   *)
(* onto the run that continues its own.                                    *)
AddDead(l, head, len, anchor) ==
    LET prev == RunId(head, -1)
        last == RunId(head, len - 1)
        next == RunId(head, len)
        before == {h \in DeadRun(l, prev) : anchor = Anchor(prev, "right")
                                            /\ RunId(h, l.dead[h].len - 1) = prev}
        after == {h \in DOMAIN l.dead \intersect {next} : AnchorOf(l.dead[h]) = Anchor(last, "right")}
        start == IF before = {} THEN head ELSE CHOOSE h \in before : TRUE
        at == IF before = {} THEN anchor ELSE AnchorOf(l.dead[start])
        length == len + SumSet({0} \union {l.dead[h].len : h \in before})
                      + SumSet({0} \union {l.dead[h].len : h \in after})
    IN [l EXCEPT !.dead = With(Without(@, after), start, Run(length, at))]

DeleteId(l, id) ==
    IF id \notin DOMAIN l.nodes THEN l
    ELSE AddDead([l EXCEPT !.nodes = Without(@, {id})], id, 1, l.nodes[id])

DeleteIds(l, ids) == FoldSet(LAMBDA id, acc : DeleteId(acc, id), l, ids)

(* A claim to an id already held is a replay.                              *)
InsertItem(l, id, anchor) ==
    IF ContainsId(l, id) THEN l ELSE [l EXCEPT !.nodes = With(@, id, anchor)]

(* Mutant of InsertRun: every item of a run takes the run's anchor.        *)
InsertRunFlat(l, base, len, anchor) ==
    FoldLeft(LAMBDA acc, k : InsertItem(acc, RunId(base, k - 1), anchor), l, [k \in 1..len |-> k])

(* The first item of a run takes the anchor, each later one hangs to the   *)
(* right of its predecessor.                                               *)
InsertRun(l, base, len, anchor) ==
    FoldLeft(LAMBDA acc, k : InsertItem(acc, RunId(base, k - 1),
                 IF k = 1 THEN anchor ELSE Anchor(RunId(base, k - 2), "right")),
             l, [k \in 1..len |-> k])

-----------------------------------------------------------------------------
(* The walk.  A span is a stretch of ids that the walk emits at once.      *)

Span(head, len, anchor) ==
    [head |-> head, len |-> len, parent |-> anchor.parent, side |-> anchor.side]

LastId(span) == RunId(span.head, span.len - 1)

(* Where an attachment to p cuts the run h: p begins a piece when          *)
(* something hangs to its left, ends one when to its right.                *)
Cut(l, h, p, side) == (p[1] - h[1]) + IF side = "right" THEN 1 ELSE 0

Anchors(l) ==
    {l.nodes[i] : i \in DOMAIN l.nodes}
        \union {AnchorOf(l.dead[h]) : h \in DOMAIN l.dead}

Cuts(l, h) ==
    {Cut(l, h, a.parent, a.side) :
        a \in {b \in Anchors(l) : Covers(h, l.dead[h].len, b.parent)}}
    \intersect 1..(l.dead[h].len - 1)

Pieces(l, h) ==
    LET starts == {0} \union Cuts(l, h)
        end(s) == Min({c \in starts \union {l.dead[h].len} : c > s})
    IN {Span(RunId(h, s), end(s) - s,
             IF s = 0 THEN AnchorOf(l.dead[h])
             ELSE Anchor(RunId(h, s - 1), "right")) : s \in starts}

Spans(l) ==
    {Span(i, 1, l.nodes[i]) : i \in DOMAIN l.nodes}
        \union UNION {Pieces(l, h) : h \in DOMAIN l.dead}

(* Left children, the span itself, right children; siblings by stamp.      *)
InOrder(spans) ==
    LET hung(p, side) == {s \in spans : s.parent = p /\ s.side = side}
        walk[siblings \in SUBSET spans] ==
            IF siblings = {} THEN <<>>
            ELSE LET s == CHOOSE t \in siblings : \A u \in siblings : ~Before(u.head, t.head)
                 IN walk[hung(s.head, "left")] \o <<s>> \o walk[hung(LastId(s), "right")]
                        \o walk[siblings \ {s}]
    IN walk[hung(Root, "left")] \o walk[hung(Root, "right")]

TreeOrder(l) == InOrder(Spans(l))

IsLive(l, span) == span.head \in DOMAIN l.nodes

LiveOrder(l) ==
    LET live == SelectSeq(TreeOrder(l), LAMBDA s : IsLive(l, s))
    IN [i \in DOMAIN live |-> live[i].head]

-----------------------------------------------------------------------------
(* Placement.                                                              *)

(* Every id of a run but the last has its successor as a right child.      *)
HasRightChild(l, p) ==
    \/ Anchor(p, "right") \in Anchors(l)
    \/ \E h \in DeadRun(l, p) : p # RunId(h, l.dead[h].len - 1)

(* Mutant of Placement: always in front of the right neighbour.            *)
PlacementByRight(l, left, right) ==
    CASE right # Root -> Anchor(right, "left")
      [] OTHER -> Anchor(left, "right")

(* After the left neighbour if it has no right subtree yet, else in front  *)
(* of the right neighbour.                                                 *)
Placement(l, left, right) ==
    CASE left # Root /\ ~HasRightChild(l, left) -> Anchor(left, "right")
      [] right # Root -> Anchor(right, "left")
      [] OTHER -> Anchor(left, "right")

(* The gap before live position `index` starts right behind a live item.   *)
Place(l, index) ==
    LET order == TreeOrder(l)
        boundary == IF index = 0 THEN 0
                    ELSE CHOOSE k \in DOMAIN order :
                            /\ IsLive(l, order[k])
                            /\ Cardinality({j \in 1..k : IsLive(l, order[j])}) = index
        left == IF boundary = 0 THEN Root ELSE LastId(order[boundary])
        right == IF boundary = Len(order) THEN Root ELSE order[boundary + 1].head
    IN Placement(l, left, right)

-----------------------------------------------------------------------------
(* Merging another replica's list.                                         *)

MergeNodes(l, other) ==
    [l EXCEPT !.nodes = [i \in DOMAIN l.nodes \union
                            {j \in DOMAIN other.nodes : ~ContainsId(l, j)} |->
                         IF i \in DOMAIN l.nodes THEN l.nodes[i] ELSE other.nodes[i]]]

(* Mutant of Bury: an unseen stretch is given the run's own anchor.        *)
BuryAtHead(l, h, run) ==
    FoldLeft(LAMBDA acc, k :
                LET id == RunId(h, k - 1)
                IN CASE IsTombstoned(acc, id) -> acc
                     [] id \in DOMAIN acc.nodes -> DeleteId(acc, id)
                     [] OTHER -> AddDead(acc, id, 1, AnchorOf(run)),
             l, [k \in 1..run.len |-> k])

(* An id still held keeps the placement it recorded; an unseen one is      *)
(* adopted from the run's chain.                                           *)
Bury(l, h, run) ==
    FoldLeft(LAMBDA acc, k :
                LET id == RunId(h, k - 1)
                IN CASE IsTombstoned(acc, id) -> acc
                     [] id \in DOMAIN acc.nodes -> DeleteId(acc, id)
                     [] OTHER -> AddDead(acc, id, 1,
                                    IF k = 1 THEN AnchorOf(run)
                                    ELSE Anchor(RunId(h, k - 2), "right")),
             l, [k \in 1..run.len |-> k])

Merge(l, other) ==
    FoldSet(LAMBDA h, acc : Bury(acc, h, other.dead[h]), MergeNodes(l, other), DOMAIN other.dead)

-----------------------------------------------------------------------------
(* The state codec.                                                        *)

(* Mutant of Chunks: every record of a long run repeats the run's anchor.  *)
ChunksUnchained(h, run) ==
    {Span(RunId(h, off), Min({run.len - off, MaxTombstoneRun}), AnchorOf(run)) :
        off \in {o \in 0..(run.len - 1) : o % MaxTombstoneRun = 0}}

(* A run longer than the cap is written as chained records.                *)
Chunks(h, run) ==
    {Span(RunId(h, off), Min({run.len - off, MaxTombstoneRun}),
          IF off = 0 THEN AnchorOf(run) ELSE Anchor(RunId(h, off - 1), "right")) :
        off \in {o \in 0..(run.len - 1) : o % MaxTombstoneRun = 0}}

EncodeState(l) ==
    LET heads == SetToSortSeq(DOMAIN l.dead, Before)
    IN [nodes |-> l.nodes,
        runs |-> FlattenSeq([i \in DOMAIN heads |->
                    SetToSortSeq(Chunks(heads[i], l.dead[heads[i]]),
                                 LAMBDA s, t : Before(s.head, t.head))])]

DecodeState(state) ==
    FoldLeft(LAMBDA acc, s : AddDead(acc, s.head, s.len, AnchorOf(s)),
             [EmptyList EXCEPT !.nodes = state.nodes], state.runs)
=============================================================================
