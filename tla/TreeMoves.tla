----------------------------- MODULE TreeMoves ------------------------------
(***************************************************************************)
(* One replica of an XML tree (crates/core/src/treemove.rs and the XML     *)
(* half of doc.rs): children inserted, moved and deleted, the log of moves *)
(* kept in stamp order, and the placements of each node, of which the fold *)
(* of the log lets one render.                                             *)
(*                                                                         *)
(* A children list is named by its owner, a node by its owner at birth,    *)
(* its stamp and its kind; a placement is <<list, stamp>>.  The order of   *)
(* siblings is the sequence's concern (Sequence) and left out.             *)
(***************************************************************************)
EXTENDS Integers, FiniteSets, SequencesExt, FiniteSetsExt

Put(f, x, e) == [y \in DOMAIN f \union {x} |-> IF y = x THEN e ELSE f[y]]

Over(f, g) == [x \in DOMAIN f \union DOMAIN g |-> IF x \in DOMAIN f THEN f[x] ELSE g[x]]

(* A left fold that TLC evaluates step by step: each result is bound as an *)
(* element of a set before the next step uses it.                          *)
FoldSteps(Step(_, _), base, seq) ==
    LET fold[n \in 0..Len(seq)] == IF n = 0 THEN {base} ELSE {Step(x, seq[n]) : x \in fold[n - 1]}
    IN CHOOSE x \in fold[Len(seq)] : TRUE

(* The fragment at the root of the tree.                                   *)
Fragment == <<>>

XmlChildId(list, stamp, kind) == Append(list, <<stamp, kind>>)

Later(s, t) == s[1] > t[1] \/ (s[1] = t[1] /\ s[2] > t[2])

(* The order of element ids, which is arbitrary but total.                 *)
Smaller(a, b) ==
    \/ Len(a) < Len(b)
    \/ /\ Len(a) = Len(b)
       /\ \E i \in DOMAIN a :
             /\ SubSeq(a, 1, i - 1) = SubSeq(b, 1, i - 1)
             /\ Later(b[i][1], a[i][1]) \/ (a[i][1] = b[i][1] /\ a[i][2] = "element" /\ b[i][2] = "text")

EmptyTree ==
    [nodes |-> {Fragment},    \* the nodes materialised
     tags |-> <<>>,           \* node -> what it shows
     base |-> <<>>,           \* node -> the owner it was created under
     moved |-> <<>>,          \* node -> the parent a move gave it
     log |-> <<>>,            \* the moves, by stamp
     places |-> <<>>,         \* node -> its placements
     index |-> <<>>,          \* placement -> the node that holds it
     dead |-> {},             \* placements deleted
     away |-> {},             \* placements suppressed by a move
     parents |-> <<>>,        \* node -> the list it is reached through
     pending |-> {},          \* nodes that wait for a first placement
     seen |-> {},
     buffer |-> <<>>,
     clock |-> 0]

HasList(t, owner) == owner \in t.nodes /\ (owner # Fragment => Last(owner)[2] = "element")

-----------------------------------------------------------------------------
(***************************************************************************)
(* The move log.                                                           *)
(***************************************************************************)
(* The parent of a node, or none: a set of at most one.                    *)
ParentOf(t, node) ==
    IF node \in DOMAIN t.moved THEN {t.moved[node]}
    ELSE IF node \in DOMAIN t.base THEN {t.base[node]} ELSE {}

AncestorsOf(t, node) ==
    LET Close[S \in SUBSET t.nodes] ==
            LET up == UNION {ParentOf(t, x) : x \in S} IN IF up \subseteq S THEN S ELSE Close[S \union up]
    IN Close[ParentOf(t, node)]

SetBase(t, child, parent) ==
    IF child \in DOMAIN t.base THEN t ELSE [t EXCEPT !.base = Put(@, child, parent)]

(* Mutant of Redo: no test for a cycle through the child's descendants.    *)
RedoUnchecked(t, move) ==
    [t EXCEPT !.log = Append(@, [move EXCEPT !.prev =
                  IF move.child \in DOMAIN t.moved THEN {t.moved[move.child]} ELSE {}]),
              !.moved = Put(@, move.child, move.parent)]

(* A move onto itself or below itself is logged and changes nothing.       *)
Redo(t, move) ==
    [t EXCEPT !.log = Append(@, [move EXCEPT !.prev =
                  IF move.child \in DOMAIN t.moved THEN {t.moved[move.child]} ELSE {}]),
              !.moved = IF move.child \in {move.parent} \union AncestorsOf(t, move.parent) THEN @
                        ELSE Put(@, move.child, move.parent)]

UndoMove(t, move) ==
    [t EXCEPT !.moved = IF move.prev = {} THEN Restrict(@, DOMAIN @ \ {move.child})
                        ELSE Put(@, move.child, CHOOSE p \in move.prev : TRUE)]

(* How many moves of the log come before `stamp`: where it has its place.  *)
PartitionPoint(log, stamp) == Cardinality({i \in DOMAIN log : Later(stamp, log[i].stamp)})

Earlier(log, stamp) == SubSeq(log, 1, PartitionPoint(log, stamp))

Since(log, stamp) == SubSeq(log, PartitionPoint(log, stamp) + 1, Len(log))

UndoAll(t, moves) == FoldSteps(UndoMove, t, moves)

RedoAll(t, moves) == FoldSteps(Redo, t, moves)

(* The moves from `stamp` on undone, the latest first.                     *)
Rewound(t, stamp) == UndoAll([t EXCEPT !.log = Earlier(@, stamp)], Reverse(Since(t.log, stamp)))

(* Mutant of LogMove: the move is applied on top, as it arrives.           *)
LogMoveLast(t, stamp, child, parent) ==
    IF \E m \in Range(t.log) : m.stamp = stamp THEN t
    ELSE Redo(t, [stamp |-> stamp, child |-> child, parent |-> parent, prev |-> {}])

(* Undo what is later, apply, redo; a stamp already in the log is a replay.*)
LogMove(t, stamp, child, parent) ==
    IF \E m \in Range(t.log) : m.stamp = stamp THEN t
    ELSE RedoAll(Rewound(t, stamp),
                 <<[stamp |-> stamp, child |-> child, parent |-> parent, prev |-> {}]>> \o Since(t.log, stamp))

WithdrawMove(t, stamp, child, parent) ==
    IF \E m \in Range(t.log) : m.stamp = stamp /\ m.child = child /\ m.parent = parent
    THEN RedoAll(Rewound(t, stamp), Tail(Since(t.log, stamp)))
    ELSE t

-----------------------------------------------------------------------------
(***************************************************************************)
(* Placements.                                                             *)
(***************************************************************************)
(* The placement that renders: the latest in the list of the node's parent *)
(* and none at all once any of them has been deleted.                      *)
Live(t, node) ==
    LET here == {p \in t.places[node] : p[1] \in ParentOf(t, node)}
    IN IF t.places[node] \intersect t.dead # {} THEN {}
       ELSE {p \in here : \A q \in here : p = q \/ Later(p[2], q[2])}

(* Mutant of RefoldMoves: a deleted placement hides itself only.           *)
RefoldMovesLive(t) ==
    LET placed == {n \in DOMAIN t.places : ParentOf(t, n) # {}}
        Latest(n) ==
            LET here == {p \in t.places[n] : p[1] \in ParentOf(t, n)}
            IN {p \in here : \A q \in here : p = q \/ Later(p[2], q[2])}
    IN [t EXCEPT
           !.away = ((@ \ UNION {t.places[n] : n \in placed})
                        \union UNION {t.places[n] \ Latest(n) : n \in placed}) \ t.dead,
           !.parents = Over([n \in placed |-> CHOOSE p \in ParentOf(t, n) : TRUE], @)]

RefoldMoves(t) ==
    LET placed == {n \in DOMAIN t.places : ParentOf(t, n) # {}}
    IN [t EXCEPT
           !.away = ((@ \ UNION {t.places[n] : n \in placed})
                        \union UNION {t.places[n] \ Live(t, n) : n \in placed}) \ t.dead,
           !.parents = Over([n \in placed |-> CHOOSE p \in ParentOf(t, n) : TRUE], @)]

BornAt(place, node) == node \in {XmlChildId(place[1], place[2], kind) : kind \in {"element", "text"}}

(* A birth over a move, then the smaller id.                               *)
Outranks(place, node, held) ==
    IF BornAt(place, node) = BornAt(place, held) THEN Smaller(node, held) ELSE BornAt(place, node)

Claim(t, place, node) ==
    IF place \notin DOMAIN t.index THEN "Fresh"
    ELSE IF t.index[place] = node THEN "Joined"
    ELSE IF Outranks(place, node, t.index[place]) THEN "Evicted" ELSE "Refused"

(* The loser keeps neither the placement nor the move that brought it      *)
(* there; without another it waits for one, reached as the log has it.     *)
Dislodged(t, place, held) ==
    IF t.places[held] # {place} THEN [t EXCEPT !.places[held] = @ \ {place}]
    ELSE [t EXCEPT !.places = Restrict(@, DOMAIN @ \ {held}),
                   !.pending = @ \union {held},
                   !.parents = IF ParentOf(t, held) = {} THEN Restrict(@, DOMAIN @ \ {held})
                               ELSE Put(@, held, CHOOSE p \in ParentOf(t, held) : TRUE)]

EvictPlacement(t, place, held) == Dislodged(WithdrawMove(t, place[2], held, place[1]), place, held)

(* The node takes the placement: the incumbent is evicted, the slot is     *)
(* seated afresh.                                                          *)
Takes(t, place, node) ==
    [t EXCEPT !.index = Put(@, place, node),
              !.places = Put(@, node, {place} \union IF node \in DOMAIN @ THEN @[node] ELSE {}),
              !.away = @ \ {place},
              !.pending = @ \ {node}]

Seated(t, place, node, claim) ==
    CASE claim = "Fresh" -> Takes(t, place, node)
      [] claim = "Evicted" -> Takes(EvictPlacement(t, place, t.index[place]), place, node)
      [] claim = "Joined" -> [t EXCEPT !.away = @ \ {place}]

(* A birth that does not get its placement leaves a node that waits.       *)
Born(t, place, child, claim) ==
    IF claim # "Refused" THEN Seated(t, place, child, claim)
    ELSE [t EXCEPT !.pending = IF child \in DOMAIN t.places THEN @ ELSE @ \union {child}]

Shell(t, list, child, tag) ==
    [t EXCEPT !.nodes = @ \union {child}, !.parents = Put(@, child, list),
              !.tags = IF child \in t.nodes THEN @ ELSE Put(@, child, tag)]

InsertXmlChild(t, list, kind, tag, stamp) ==
    LET child == XmlChildId(list, stamp, kind)
        claim == Claim(t, <<list, stamp>>, child)
        Placed(u) == SetBase(Born(u, <<list, stamp>>, child, claim), child, list)
        Folded(u) == IF claim \in {"Joined", "Evicted"} THEN RefoldMoves(u) ELSE u
    IN IF HasList(t, list) THEN Folded(Placed(Shell(t, list, child, tag))) ELSE t

(* A move that does not get its placement is refused whole.                *)
ApplyMove(t, list, node, stamp) ==
    LET claim == Claim(t, <<list, stamp>>, node)
        Logged(u) == [LogMove(u, stamp, node, list) EXCEPT !.pending = @ \ {node}]
    IN IF node \notin DOMAIN t.places \union t.pending \/ ~HasList(t, list) \/ claim = "Refused" THEN t
       ELSE RefoldMoves(Logged(Seated(t, <<list, stamp>>, node, claim)))

ListDelete(t, place) ==
    IF place \notin DOMAIN t.index THEN t
    ELSE RefoldMoves([t EXCEPT !.dead = @ \union {place}, !.away = @ \ {place}])

-----------------------------------------------------------------------------
(***************************************************************************)
(* Ops and the buffer.                                                     *)
(***************************************************************************)
(* Mutant of Ready: a move waits for a node that has not been deleted.     *)
ReadyShown(t, op) ==
    CASE op.type = "XmlInsertChild" -> HasList(t, op.list)
      [] op.type = "XmlMove" -> /\ HasList(t, op.list)
                                /\ \/ op.node \in t.pending
                                   \/ op.node \in DOMAIN t.places /\ t.places[op.node] \intersect t.dead = {}
      [] op.type = "ListDelete" -> <<op.list, op.at>> \in DOMAIN t.index

Ready(t, op) ==
    CASE op.type = "XmlInsertChild" -> HasList(t, op.list)
      [] op.type = "XmlMove" -> HasList(t, op.list) /\ op.node \in DOMAIN t.places \union t.pending
      [] op.type = "ListDelete" -> <<op.list, op.at>> \in DOMAIN t.index

ApplyKind(t, op) ==
    CASE op.type = "XmlInsertChild" -> InsertXmlChild(t, op.list, op.kind, op.tag, op.stamp)
      [] op.type = "XmlMove" -> ApplyMove(t, op.list, op.node, op.stamp)
      [] op.type = "ListDelete" -> ListDelete(t, <<op.list, op.at>>)

ApplyNow(t, op) ==
    ApplyKind([t EXCEPT !.seen = @ \union {op.id}, !.clock = Max({@, op.stamp[1]})], op)

DrainStep(t) ==
    LET ready == {i \in DOMAIN t.buffer : Ready(t, t.buffer[i])}
    IN IF ready = {} THEN t
       ELSE ApplyNow([t EXCEPT !.buffer = RemoveAt(@, Min(ready))], t.buffer[Min(ready)])

DrainAll(t, turns) == FoldSteps(LAMBDA u, i : DrainStep(u), t, turns)

DrainBuffer(t) == DrainAll(t, t.buffer)

Apply(t, op) ==
    IF Ready(t, op) THEN DrainBuffer(ApplyNow(t, op)) ELSE [t EXCEPT !.buffer = Append(@, op)]

-----------------------------------------------------------------------------
(***************************************************************************)
(* Snapshots.  The log is stored without the parents it undoes to, the     *)
(* placements of the nodes that were moved or deleted, and the live nodes  *)
(* of the lists; the rest is rebuilt.                                      *)
(***************************************************************************)
(* Mutant of Stored: the placements of a deleted node are not stored.      *)
StoredMoved(t) == {n \in DOMAIN t.places : Cardinality(t.places[n]) > 1}

Stored(t) ==
    {n \in DOMAIN t.places : Cardinality(t.places[n]) > 1 \/ t.places[n] \intersect t.dead # {}}

EncodeState(t) ==
    [t EXCEPT !.places = Restrict(@, Stored(t)), !.index = Restrict(@, DOMAIN @ \ t.dead),
              !.base = <<>>, !.moved = <<>>, !.away = {}, !.pending = {},
              !.log = [i \in DOMAIN @ |-> [@[i] EXCEPT !.prev = {}]]]

(* A node with no stored record is placed where a list still holds it.     *)
ReconstructBirths(s) ==
    LET known == UNION Range(s.places)
        births == {p \in DOMAIN s.index : s.index[p] \notin DOMAIN s.places /\ p \notin known}
        places == Over([n \in {s.index[p] : p \in births} |-> {p \in births : s.index[p] = n}], s.places)
    IN [s EXCEPT !.places = places,
                 !.index = [p \in UNION Range(places) |-> CHOOSE n \in DOMAIN places : p \in places[n]]]

(* The parent of a node at birth: from its birth placement, or from its    *)
(* parent link where it has no placement.                                  *)
ReseedBases(s) ==
    LET born == {n \in DOMAIN s.places : \E p \in s.places[n] : BornAt(p, n)}
        unplaced == {n \in DOMAIN s.parents : n \notin DOMAIN s.places}
    IN [s EXCEPT !.base = Over([n \in born |-> (CHOOSE p \in s.places[n] : BornAt(p, n))[1]],
                                 [n \in unplaced |-> s.parents[n]])]

RestoreUnplaced(s) ==
    [s EXCEPT !.pending = {n \in DOMAIN s.parents : n \notin DOMAIN s.places}]

RestoreMoves(s) ==
    RefoldMoves(FoldSteps(LAMBDA t, m : LogMove(t, m.stamp, m.child, m.parent),
                         [s EXCEPT !.log = <<>>], s.log))

DecodeState(s) == DrainBuffer(RestoreMoves(RestoreUnplaced(ReseedBases(ReconstructBirths(s)))))
=============================================================================
