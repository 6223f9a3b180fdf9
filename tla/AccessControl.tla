---------------------------- MODULE AccessControl ----------------------------
(***************************************************************************)
(* What the access control tuples of a document decide: the evaluator of   *)
(* crates/core/src/acl.rs, and the composition the server makes of it      *)
(* (crates/server/src/acl.rs): the tiers of a decision, and the gate an op *)
(* must pass to reach a reader.                                            *)
(*                                                                         *)
(* `records` is the ACL set of a document, id -> [val, revokers], with     *)
(* val = [subject, cap, effect, scope, grantor].  An actor is [id, groups, *)
(* authenticated].  A path is a sequence of keys; a scope holds a path or  *)
(* an element, and a scope that resolves to no path is inert.              *)
(***************************************************************************)
EXTENDS Integers, FiniteSets, SequencesExt

Actor(id) == [kind |-> "actor", id |-> id]

Class(kind) == [kind |-> kind, id |-> 0]

Matches(subject, actor) ==
    CASE subject.kind = "actor" -> subject.id = actor.id
      [] subject.kind = "group" -> subject.id \in actor.groups
      [] subject.kind = "authenticated" -> actor.authenticated
      [] subject.kind = "anonymous" -> ~actor.authenticated
      [] subject.kind = "anyone" -> TRUE

Governs(scope, path) == IsPrefix(scope, path)

AtPath(path) == [path |-> {path}, element |-> {}]

AtElement(id) == [path |-> {}, element |-> {id}]

(* The path a scope governs, as a set of at most one.                      *)
ScopePath(index, scope) == scope.path \union {index[id] : id \in scope.element \intersect DOMAIN index}

-----------------------------------------------------------------------------
(***************************************************************************)
(* The decision over the tuples as they are present, without authority.    *)
(***************************************************************************)
Bearing(tuples, actor, path, index) ==
    {t \in tuples : /\ Matches(t.subject, actor)
                    /\ \E p \in ScopePath(index, t.scope) : Governs(p, path)}

DecideCapability(tuples, actor, path, cap, index) ==
    LET has(effect, c) == \E t \in Bearing(tuples, actor, path, index) : t.effect = effect /\ t.cap = c
    IN CASE has("deny", cap) -> "deny"
         [] ~has("deny", cap) /\ (\/ has("allow", "own") /\ ~has("deny", "own")
                                  \/ has("allow", cap)) -> "allow"
         [] OTHER -> "abstain"

-----------------------------------------------------------------------------
(***************************************************************************)
(* Authority.  An `acl` is the records with the path each governs, the     *)
(* creator, and a snapshot of which are rooted and which are revoked.      *)
(***************************************************************************)
GovernsAt(acl, i, path) == \E p \in acl.paths[i] : Governs(p, path)

IsOwn(t) == t.effect = "allow" /\ t.cap = "own"

OwnsPath(acl, who, path) ==
    \/ who = acl.creator
    \/ \E i \in acl.rooted \ acl.revoked : /\ IsOwn(acl.tuples[i])
                                           /\ acl.tuples[i].subject = Actor(who)
                                           /\ GovernsAt(acl, i, path)

RootPass(acl) ==
    {i \in DOMAIN acl.tuples : \E p \in acl.paths[i] : OwnsPath(acl, acl.tuples[i].grantor, p)}

(* Mutant of RevokePass: every tombstone counts.                           *)
RevokePassAny(acl) == {i \in DOMAIN acl.tuples : acl.revokers[i] # {}}

RevokePass(acl) ==
    {i \in DOMAIN acl.tuples : \E who \in acl.revokers[i] :
        \/ who \in {acl.creator, acl.tuples[i].grantor}
        \/ \E p \in acl.paths[i] : OwnsPath(acl, who, p)}

Pass(acl) == [acl EXCEPT !.rooted = RootPass(acl), !.revoked = RevokePass(acl)]

Seeded(records, index, creator) ==
    [tuples |-> [i \in DOMAIN records |-> records[i].val],
     revokers |-> [i \in DOMAIN records |-> records[i].revokers],
     paths |-> [i \in DOMAIN records |-> ScopePath(index, records[i].val.scope)],
     creator |-> creator, rooted |-> {}, revoked |-> {}]

The(set) == CHOOSE x \in set : TRUE

(* k passes, each from the snapshot the one before it left (a set of one). *)
Passes(acl, k) ==
    LET after[n \in 0..k] == IF n = 0 THEN {acl} ELSE {Pass(a) : a \in after[n - 1]}
    IN The(after[k])

RootPasses(acl, k) ==
    LET after[n \in 0..k] ==
            IF n = 0 THEN {acl} ELSE {[a EXCEPT !.rooted = RootPass(a)] : a \in after[n - 1]}
    IN The(after[k])

(* The revokes still in flux are disregarded and the rooting is settled    *)
(* with the others.                                                        *)
DisregardFlux(acl, n) == RootPasses([acl EXCEPT !.revoked = @ \intersect RevokePass(acl)], n + 1)

Bound(n) == 2 * n + 2

(* Mutant of Settled: one pass, no fixpoint.                               *)
SettledOnce(records, index, creator) == Pass(Seeded(records, index, creator))

(* A pass that changes nothing ends the loop, at the bound at the latest.  *)
Settled(records, index, creator) ==
    LET n == Cardinality(DOMAIN records)
        LastPass(acl) == IF Pass(acl) = acl THEN acl ELSE DisregardFlux(Pass(acl), n)
    IN The({LastPass(acl) : acl \in {Passes(Seeded(records, index, creator), Bound(n) - 1)}})

(* Those whose own grants over the path `grantor` derives its own from.    *)
Superiors(acl, grantor, path) ==
    LET delegators(who) ==
            {acl.tuples[i].grantor : i \in {j \in acl.rooted \ acl.revoked :
                /\ IsOwn(acl.tuples[j]) /\ GovernsAt(acl, j, path)
                /\ \E w \in who : acl.tuples[j].subject = Actor(w)}}
        up[n \in 0..(Cardinality(DOMAIN acl.tuples) + 1)] ==
            IF n = 0 THEN {{grantor}} ELSE {who \union delegators(who) : who \in up[n - 1]}
    IN The(up[Cardinality(DOMAIN acl.tuples) + 1])

AtOrAbove(acl, author, grantor, path) ==
    author = acl.creator \/ author \in Superiors(acl, grantor, path)

Denies(acl, actor, path) ==
    {i \in DOMAIN acl.tuples \ acl.revoked : /\ acl.tuples[i].effect = "deny"
                                             /\ Matches(acl.tuples[i].subject, actor)
                                             /\ GovernsAt(acl, i, path)}

(* Mutant of DenySuppresses: a deny needs no authority.                    *)
DenySuppressesAny(acl, actor, path, cap, granter, over, viaOwn) ==
    \E i \in Denies(acl, actor, path) : acl.tuples[i].cap = cap \/ (viaOwn /\ acl.tuples[i].cap = "own")

DenySuppresses(acl, actor, path, cap, granter, over, viaOwn) ==
    \E i \in Denies(acl, actor, path) :
        /\ acl.tuples[i].cap = cap \/ (viaOwn /\ acl.tuples[i].cap = "own")
        /\ AtOrAbove(acl, acl.tuples[i].grantor, granter, over)

(* The creator's own of the root needs no tuple.                           *)
CreatorOwns(acl, actor, path, cap) ==
    actor.id = acl.creator /\ ~DenySuppresses(acl, actor, path, cap, acl.creator, <<>>, TRUE)

(* Mutant of Confers: an own grants itself and nothing below it.           *)
ConfersExactly(acl, i, actor, path, cap) ==
    LET t == acl.tuples[i]
    IN /\ t.effect = "allow" /\ t.cap = cap /\ Matches(t.subject, actor)
       /\ \E p \in acl.paths[i] :
            Governs(p, path) /\ ~DenySuppresses(acl, actor, path, cap, t.grantor, p, t.cap = "own")

Confers(acl, i, actor, path, cap) ==
    LET t == acl.tuples[i]
    IN /\ t.effect = "allow" /\ t.cap \in {"own", cap} /\ Matches(t.subject, actor)
       /\ \E p \in acl.paths[i] :
            Governs(p, path) /\ ~DenySuppresses(acl, actor, path, cap, t.grantor, p, t.cap = "own")

DecideSettled(acl, actor, path, cap) ==
    IF \/ CreatorOwns(acl, actor, path, cap)
       \/ \E i \in acl.rooted \ acl.revoked : Confers(acl, i, actor, path, cap)
    THEN "allow"
    ELSE IF \E i \in Denies(acl, actor, path) : acl.tuples[i].cap = cap THEN "deny"
    ELSE "abstain"

DecideCapabilityWithAuthority(records, creator, actor, path, cap, index) ==
    The({DecideSettled(acl, actor, path, cap) : acl \in {Settled(records, index, creator)}})

-----------------------------------------------------------------------------
(***************************************************************************)
(* The server's composition.  A room is [records, creator, index, held,    *)
(* anchors]: its ACL set, the actor that wrote first (a set of at most     *)
(* one), the path of every live container, the containers it retains and   *)
(* the anchors of its annotations.  `deployment` and `schema` are the      *)
(* verdicts of the two other tiers on the actor.                           *)
(***************************************************************************)
Authorized(deployment, docAcl, schema) ==
    deployment = "allow" \/ (deployment = "abstain" /\
        (docAcl = "allow" \/ (docAcl = "abstain" /\ schema = "allow")))

DocAclAt(room, actor, path, cap) ==
    IF room.creator = {} THEN "abstain"
    ELSE DecideCapabilityWithAuthority(room.records, The(room.creator), actor, path, cap, room.index)

GrantPaths(room) == UNION {ScopePath(room.index, room.records[i].val.scope) : i \in DOMAIN room.records}

HasAnyReadGrant(room, actor) ==
    /\ room.creator # {}
    /\ actor.id \in room.creator \/ \E p \in GrantPaths(room) : DocAclAt(room, actor, p, "read") = "allow"

RecipientReadsPath(room, tiers, actor, path) ==
    Authorized(tiers.deployment, DocAclAt(room, actor, path, "read"), tiers.schema)

(* Root read, and no deny at the path of any tuple.                        *)
ReadsWholeDocument(room, tiers, actor) ==
    /\ RecipientReadsPath(room, tiers, actor, <<>>)
    /\ \/ tiers.deployment = "allow"
       \/ room.creator = {}
       \/ \A p \in GrantPaths(room) : DocAclAt(room, actor, p, "read") # "deny"

WholeDocument == [whole |-> TRUE, paths |-> {}]

Paths(paths) == [whole |-> FALSE, paths |-> paths]

AnchorGate(room, seqs) ==
    IF seqs \subseteq DOMAIN room.index THEN Paths({room.index[s] : s \in seqs}) ELSE WholeDocument

ScopeGate(paths) == IF paths = {} THEN WholeDocument ELSE Paths(paths)

AclOpScope(room, id) ==
    IF id \in DOMAIN room.records THEN ScopePath(room.index, room.records[id].val.scope) ELSE {}

(* An op on a slot reads at the slot, an op on a container at the          *)
(* container; one whose container is retained but has no path, at the      *)
(* root.                                                                   *)
OpReadPath(room, op) ==
    IF op.target \notin DOMAIN room.index THEN <<>>
    ELSE IF "key" \in DOMAIN op.kind THEN Append(room.index[op.target], op.kind.key)
    ELSE room.index[op.target]

(* Mutant of OpReadGate: a target the room does not place reads at the     *)
(* root.                                                                   *)
OpReadGateRoot(room, op) ==
    IF op.kind.type = "RangedCreate" THEN Paths({room.index[s] : s \in op.kind.anchors \intersect DOMAIN room.index})
    ELSE Paths({OpReadPath(room, op)})

OpReadGate(room, op) ==
    CASE op.kind.type = "RangedCreate" -> AnchorGate(room, op.kind.anchors)
      [] op.kind.type \in {"RangedSetPayload", "RangedDelete"} ->
            IF op.kind.id \in DOMAIN room.anchors THEN AnchorGate(room, room.anchors[op.kind.id]) ELSE WholeDocument
      [] op.kind.type = "AclGrant" -> ScopeGate(ScopePath(room.index, op.kind.val.scope))
      [] op.kind.type = "AclRevoke" -> ScopeGate(AclOpScope(room, op.kind.id))
      [] OTHER -> IF op.target \in DOMAIN room.index \union room.held THEN Paths({OpReadPath(room, op)})
                  ELSE WholeDocument

Admits(gate, room, tiers, actor) ==
    IF gate.whole THEN ReadsWholeDocument(room, tiers, actor)
    ELSE \A p \in gate.paths : RecipientReadsPath(room, tiers, actor, p)
=============================================================================
