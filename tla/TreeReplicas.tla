---------------------------- MODULE TreeReplicas ----------------------------
(***************************************************************************)
(* Replicas of one XML tree: children inserted, moved and deleted on       *)
(* several of them, undo and redo, ops delivered in any order, and two ops *)
(* that carry one stamp into one list.                                     *)
(***************************************************************************)
EXTENDS TreeMoves

CONSTANTS
    Client,     \* positive integers
    Budgets     \* the bounds explored, one of them in each behaviour: who
                \* edits and how often, what, whether also what is not shown
                \* any more, how many ops repeat a stamp, and how many undos

ASSUME TreeReplicasAssumption == Client \subseteq Nat \ {0}

VARIABLES
    ops,        \* every op published
    tree,       \* [Client -> tree]
    history,    \* [Client -> undo history]
    budget      \* what is left of the bounds

vars == <<ops, tree, history, budget>>

(* What an edit does, and the op it is minted into.                        *)
Insert(list, kind, tag) == [type |-> "XmlInsertChild", list |-> list, kind |-> kind, tag |-> tag]

Move(list, node) == [type |-> "XmlMove", list |-> list, node |-> node]

Delete(list, at) == [type |-> "ListDelete", list |-> list, at |-> at]

Op(shape, id, stamp) == Over([id |-> id, stamp |-> stamp], shape)

(* Every replica starts with two elements under the fragment and a third   *)
(* under the first of them.                                                *)
Start ==
    LET first == XmlChildId(Fragment, <<1, 0>>, "element")
        With(t, list, n) == ApplyNow(t, Op(Insert(list, "element", <<0, n>>), <<0, n>>, <<n, 0>>))
    IN With(With(With(EmptyTree, Fragment, 1), Fragment, 2), first, 3)

NoHistory == [undo |-> <<>>, redo |-> <<>>, revived |-> <<>>, elements |-> <<>>]

Init ==
    /\ ops = {}
    /\ tree = [c \in Client |-> Start]
    /\ history = [c \in Client |-> NoHistory]
    /\ budget \in Budgets

-----------------------------------------------------------------------------
(***************************************************************************)
(* What renders.                                                           *)
(***************************************************************************)
Rendered(t) == {p \in DOMAIN t.index : p \notin t.dead \union t.away}

Shown(t) == {n \in DOMAIN t.places : t.places[n] \intersect Rendered(t) # {}}

(* The nodes shown below `node`, every link of the way shown.              *)
Under(t, node) ==
    {n \in Shown(t) : /\ node \in AncestorsOf(t, n)
                      /\ \A x \in AncestorsOf(t, n) : node \in AncestorsOf(t, x) => x \in Shown(t)}

TagOf(t, node) == IF node = Fragment THEN <<0, 0>> ELSE t.tags[node]

(* Each tag with the tag above it, and how often the pair is there.        *)
View(t) ==
    LET visible == Under(t, Fragment)
        Link(n) == <<t.tags[n], TagOf(t, t.parents[n])>>
    IN {<<Link(n), Cardinality({x \in visible : Link(x) = Link(n)})>> : n \in visible}

-----------------------------------------------------------------------------
(***************************************************************************)
(* Inverses, read off the state the edit is about to change.               *)
(***************************************************************************)
(* Mutant of Snapshot: the node without what is below it.                  *)
SnapshotShell(t, node) ==
    <<[was |-> node, under |-> t.parents[node], kind |-> Last(node)[2], tag |-> t.tags[node]]>>

(* A node and what is shown below it, parents first.                       *)
Snapshot(t, node) ==
    LET subtree == {node} \union Under(t, node)
        Depth(n) == Cardinality(AncestorsOf(t, n))
        order == CHOOSE s \in [1..Cardinality(subtree) -> subtree] :
                     IsInjective(s) /\ \A i, j \in DOMAIN s : i < j => Depth(s[i]) <= Depth(s[j])
    IN [i \in 1..Cardinality(subtree) |->
           [was |-> order[i], under |-> t.parents[order[i]],
            kind |-> Last(order[i])[2], tag |-> t.tags[order[i]]]]

Revive(list, at, node, snapshot) ==
    [type |-> "ReviveNode", list |-> list, at |-> at, node |-> node, snapshot |-> snapshot]

ListDeleteInverse(t, place) ==
    IF place \notin DOMAIN t.index \/ place \in t.dead \/ t.index[place] \notin Shown(t) THEN <<>>
    ELSE <<Revive(place[1], place[2], t.index[place], Snapshot(t, t.index[place]))>>

MoveInverse(t, node) ==
    IF node \in DOMAIN t.parents /\ node \in Shown(t) THEN <<Move(t.parents[node], node)>> ELSE <<>>

InverseOf(t, op) ==
    CASE op.type = "XmlInsertChild" -> <<Delete(op.list, op.stamp)>>
      [] op.type = "ListDelete" -> ListDeleteInverse(t, <<op.list, op.at>>)
      [] op.type = "XmlMove" -> MoveInverse(t, op.node)

(* A recording: the tree, the ops emitted and the inverses recorded.       *)
Recording(t, c, elements, revived) ==
    [tree |-> t, client |-> c, ops |-> <<>>, steps |-> <<>>, elements |-> elements, revived |-> revived]

Emit(r, shape) ==
    LET own == {id \in r.tree.seen : id[1] = r.client}
        op == Op(shape, <<r.client, Cardinality(own) + 1>>, <<r.tree.clock + 1, r.client>>)
    IN [r EXCEPT !.tree = ApplyNow(@, op), !.ops = Append(@, op),
                 !.steps = @ \o InverseOf(r.tree, op)]

(* What a revival put in the place of `x`, revival after revival.          *)
Current(f, x) == FoldSet(LAMBDA y, cur : IF cur \in DOMAIN f THEN f[cur] ELSE cur, x, DOMAIN f)

FollowRevivals(r, step) ==
    LET list == Current(r.elements, step.list)
    IN CASE step.type = "ListDelete" -> Delete(list, Current(r.revived, <<list, step.at>>)[2])
         [] step.type = "XmlMove" -> Move(list, Current(r.elements, step.node))

(* The captured nodes are inserted anew, in the list the step names; only  *)
(* the outermost is found again by the steps stacked beneath.              *)
Rebuild(s, n) ==
    LET Noted(e, op) == [r |-> e, to |-> Put(s.to, n.was, XmlChildId(op.list, op.stamp, op.kind))]
        Note(e) == Noted(e, Last(e.ops))
    IN Note(Emit(s.r, Insert(s.to[n.under], n.kind, n.tag)))

RebuildAll(s, snapshot) == FoldSteps(Rebuild, s, snapshot)

ReviveNode(r, step) ==
    LET Remember(done, root) ==
            [done EXCEPT !.elements = Put(@, step.node, root),
                         !.revived = Put(@, <<step.list, step.at>>, <<step.list, Last(root)[1]>>)]
        Noted(s) == Remember(s.r, s.to[step.node])
    IN Noted(RebuildAll([r |-> r, to |-> Put(<<>>, step.snapshot[1].under, step.list)], step.snapshot))

EmitInverse(r, step) ==
    IF step.type = "ReviveNode" THEN ReviveNode(r, step) ELSE Emit(r, FollowRevivals(r, step))

(* The node a step deletes for good; steps below it are dropped.           *)
Removes(t, step) ==
    IF step.type = "ListDelete" /\ <<step.list, step.at>> \in DOMAIN t.index \ t.dead
    THEN {t.index[step.list, step.at]} ELSE {}

Dropped(t, steps, step) ==
    ({step.list} \union AncestorsOf(t, step.list)) \intersect UNION {Removes(t, s) : s \in Range(steps)} # {}

Replayed(r, step) == IF HasList(r.tree, Current(r.elements, step.list)) THEN EmitInverse(r, step) ELSE r

Planned(t, steps, r, step) == IF Dropped(t, steps, step) THEN r ELSE Replayed(r, step)

PlayAll(t, steps, r, turns) == FoldSteps(LAMBDA x, step : Planned(t, steps, x, step), r, turns)

Replay(c, intention) ==
    LET h == history[c]
        r == PlayAll(tree[c], intention.steps, Recording(tree[c], c, h.elements, h.revived),
                     Reverse(intention.steps))
    IN [r EXCEPT !.tree = DrainBuffer(@)]

-----------------------------------------------------------------------------
Foreign(t, c) == {id \in t.seen : id[1] # c}

(* An intention, with what was shown before it and the others' ops applied *)
(* by then (observed).                                                     *)
Intention(c, steps) == [steps |-> steps, was |-> View(tree[c]), foreign |-> Foreign(tree[c], c)]

Recorded(h, intention) == [h EXCEPT !.undo = Append(@, intention), !.redo = <<>>]

Edit(c, shape) ==
    /\ c \in budget.authors /\ budget.edits > 0
    /\ budget' = [budget EXCEPT !.edits = @ - 1]
    /\ \E r \in {Emit(Recording(tree[c], c, <<>>, <<>>), shape)} :
          /\ tree' = [tree EXCEPT ![c] = DrainBuffer(r.tree)]
          /\ ops' = ops \union Range(r.ops)
          /\ history' = [history EXCEPT ![c] =
                 IF r.steps = <<>> \/ budget.undos = 0 THEN @
                 ELSE Recorded(@, Intention(c, r.steps))]

(* What an edit may name: by its id a caller reaches a node that is gone   *)
(* from view too.                                                          *)
Owners(t) == {n \in t.nodes : HasList(t, n) /\ (budget.stale \/ n \in {Fragment} \union Under(t, Fragment))}

Movable(t) == {n \in DOMAIN t.places : budget.stale \/ n \in Under(t, Fragment)}

(* A child of either kind at any owner.                                    *)
InsertChild(c) ==
    /\ "insert" \in budget.menu
    /\ \E list \in Owners(tree[c]), kind \in {"element", "text"} :
          Edit(c, Insert(list, kind, <<c, Cardinality({id \in tree[c].seen : id[1] = c}) + 1>>))

(* A node that has a placement, to any owner, its own descendants too.     *)
MoveXml(c) ==
    /\ "move" \in budget.menu
    /\ \E node \in Movable(tree[c]), list \in Owners(tree[c]) : Edit(c, Move(list, node))

(* A child that is shown.                                                  *)
DeleteChild(c) ==
    /\ "delete" \in budget.menu
    /\ \E place \in Rendered(tree[c]) : Edit(c, Delete(place[1], place[2]))

(* The nodes an op stamped `stamp` can name: those of the start, and those *)
(* born before it.                                                         *)
BornBefore(stamp) ==
    LET births == {o \in ops : o.type = "XmlInsertChild" /\ o.stamp[1] < stamp[1]}
    IN DOMAIN Start.places \union {XmlChildId(o.list, o.stamp, o.kind) : o \in births}

(* Another op under a stamp that was minted already, into the same list: a *)
(* restored device mints its old stamps again.  Two inserts of one kind    *)
(* derive one node and are taken to agree on its tag.                      *)
Twin ==
    /\ budget.twins > 0
    /\ \E op \in {o \in ops : o.type # "ListDelete"} :
          \E shape \in {Insert(op.list, kind, IF op.type = "XmlMove" THEN <<0, 9>> ELSE op.tag) :
                               kind \in {"element", "text"}}
                           \union {Move(op.list, n) : n \in BornBefore(op.stamp)} :
             ops' = ops \union {Op(shape, <<0, 8 + budget.twins>>, op.stamp)}
    /\ budget' = [budget EXCEPT !.twins = @ - 1]
    /\ UNCHANGED <<tree, history>>

(* What was made anew is forgotten once no intention can name it.          *)
Prune(h) == IF h.undo = <<>> /\ h.redo = <<>> THEN NoHistory ELSE h

(* Also an intention that turned out inert leaves its mirror.              *)
Replaying(c, from) ==
    /\ budget.undos > 0 /\ history[c][from] # <<>>
    /\ budget' = [budget EXCEPT !.undos = @ - 1]
    /\ \E r \in {Replay(c, Last(history[c][from]))} :
          LET h == [history[c] EXCEPT ![from] = Front(@), !.elements = r.elements, !.revived = r.revived]
              mirror == Intention(c, r.steps)
          IN /\ tree' = [tree EXCEPT ![c] = r.tree]
             /\ ops' = ops \union Range(r.ops)
             /\ history' = [history EXCEPT ![c] =
                    Prune([h EXCEPT ![IF from = "undo" THEN "redo" ELSE "undo"] = Append(@, mirror)])]

Undo(c) == Replaying(c, "undo")

Redone(c) == Replaying(c, "redo")

Receive(c, op) ==
    /\ op.id \notin tree[c].seen \union {o.id : o \in Range(tree[c].buffer)}
    /\ tree' = [tree EXCEPT ![c] = Apply(@, op)]
    /\ UNCHANGED <<ops, history, budget>>

Next ==
    \/ \E c \in Client :
          \/ InsertChild(c) \/ MoveXml(c) \/ DeleteChild(c) \/ Undo(c) \/ Redone(c)
          \/ c \in budget.receivers /\ \E op \in ops : Receive(c, op)
    \/ Twin

Spec == Init /\ [][Next]_vars

-----------------------------------------------------------------------------
Received(t) == t.seen \union {o.id : o \in Range(t.buffer)}

(* The link reachability walks from a node is the one the log gives it,    *)
(* also after it has lost its placement and the move that brought it there *)
(* (doc.rs, evict_placement and refold_moves).                             *)
LinksFollowLog ==
    \A c \in Client : \A n \in tree[c].nodes \ {Fragment} :
        n \in DOMAIN tree[c].parents /\ tree[c].parents[n] \in ParentOf(tree[c], n)

(* A node that lost the placement it was born at and holds another: what a *)
(* snapshot stores no longer names its owner at birth (doc.rs,             *)
(* reseed_bases).                                                          *)
Edgeless(t) == {n \in DOMAIN t.places : \A p \in t.places[n] : ~BornAt(p, n)}

(* Replicas that have received the same ops have applied the same and hold *)
(* the same tree, in every order of arrival: the same log and fold, the    *)
(* same placements, the same links, also where moves together make a       *)
(* cycle, meet a delete, or claim one placement.  One that has received    *)
(* every op holds none back, the links are those the log gives, and a      *)
(* snapshot is read back as it was, but for the owner at birth of a node   *)
(* that holds only placements moves gave it.                               *)
Converged ==
    /\ \A c, d \in Client : Received(tree[c]) = Received(tree[d]) =>
          [tree[c] EXCEPT !.buffer = <<>>, !.clock = 0] = [tree[d] EXCEPT !.buffer = <<>>, !.clock = 0]
    /\ \A c \in Client :
          /\ {o.id : o \in ops} \subseteq Received(tree[c]) => tree[c].buffer = <<>>
          /\ DecodeState(EncodeState(tree[c])) =
                 [tree[c] EXCEPT !.base = Restrict(@, DOMAIN @ \ Edgeless(tree[c]))]
    /\ LinksFollowLog

(* No node is its own ancestor and every node is under the fragment,       *)
(* whatever moves meet in whatever order (treemove.rs, redo).              *)
Rooted ==
    \A c \in Client : \A n \in tree[c].nodes \ {Fragment} :
        n \notin AncestorsOf(tree[c], n) /\ Fragment \in AncestorsOf(tree[c], n)

(* A node with a placement is shown exactly once, or not at all if any of  *)
(* its placements has been deleted: a delete wins over every move.         *)
ShownOnce ==
    \A c \in Client : \A n \in DOMAIN tree[c].places :
        LET deleted == tree[c].places[n] \intersect tree[c].dead # {}
        IN Cardinality(tree[c].places[n] \intersect Rendered(tree[c])) = IF deleted THEN 0 ELSE 1

(* Undo and redo put back what was shown before the intention they take    *)
(* back, as long as no other replica's op has come in since.               *)
Restores(c) ==
    \A stack \in {history[c].undo, history[c].redo} :
        stack # <<>> /\ budget.undos > 0 /\ Last(stack).foreign = Foreign(tree[c], c) =>
            \A r \in {Replay(c, Last(stack))} : View(r.tree) = Last(stack).was

(* ... while nothing taken back has been made anew.                        *)
UndoRestores == \A c \in Client : history[c].elements = <<>> => Restores(c)

(* ... whatever has been made anew.                                        *)
UndoReachesRevived == \A c \in Client : Restores(c)
=============================================================================
