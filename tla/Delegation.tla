------------------------------ MODULE Delegation ------------------------------
(***************************************************************************)
(* Principals granting, denying and revoking over one document.  The set   *)
(* of tuples is content-neutral (crates/core/src/doc.rs, AclGrant and      *)
(* AclRevoke): whatever is written is stored, and every revoke leaves its  *)
(* author on the tuple.  Who had the authority for it is decided by the    *)
(* evaluator, over the set as it is.  A tuple names its author truthfully. *)
(***************************************************************************)
EXTENDS AccessControl

CONSTANTS
    Principal,      \* the actors, the creator among them
    Creator,
    Grants,         \* the tuples that may be written
    Revocations,    \* who may revoke which of them
    Page,           \* an element that is moved
    Places,         \* the paths it is moved between
    MaxRecords,     \* bound on the tuples written
    MaxRevokes      \* bound on the revokes

VARIABLES
    records,        \* the ACL set, tuple -> [val, revokers]
    place           \* where the element is

vars == <<records, place>>

(* Where the elements are, for a scope that names one.                     *)
Index == [id \in {Page} |-> place]

Init == records = <<>> /\ place \in Places

Revokes == UNION {{<<t, who>> : who \in records[t].revokers} : t \in DOMAIN records}

GrantTuple(t) ==
    /\ t \in Grants \ DOMAIN records /\ Cardinality(DOMAIN records) < MaxRecords
    /\ records' = [x \in DOMAIN records \union {t} |->
                     IF x = t THEN [val |-> t, revokers |-> {}] ELSE records[x]]
    /\ UNCHANGED place

RevokeTuple(who, t) ==
    /\ <<who, t>> \in Revocations /\ t \in DOMAIN records /\ <<t, who>> \notin Revokes /\ Cardinality(Revokes) < MaxRevokes
    /\ records' = [records EXCEPT ![t].revokers = @ \union {who}]
    /\ UNCHANGED place

(* The element is moved to another parent.                                 *)
MovePage == place' \in Places \ {place} /\ UNCHANGED records

Next ==
    \/ \E t \in Grants : GrantTuple(t)
    \/ \E who \in Principal, t \in DOMAIN records : RevokeTuple(who, t)
    \/ MovePage

Spec == Init /\ [][Next]_vars

-----------------------------------------------------------------------------
Cap == {"own", "read"}

Path == {<<>>, place}

ActorOf(p) == [id |-> p, groups |-> {}, authenticated |-> TRUE]

Acl == Settled(records, Index, Creator)

Allowed ==
    UNION {{x \in Principal \X Path \X Cap :
                DecideSettled(acl, ActorOf(x[1]), x[2], x[3]) = "allow"} : acl \in {Acl}}

(***************************************************************************)
(* The reference.  For a set of revokes taken to hold, the rooting is the  *)
(* least one; the revokes then honoured shrink as the set grows, so that   *)
(* two applications of Honoured from the empty set bound from below the    *)
(* revokes that hold in any reading, and their limit is what must hold.    *)
(***************************************************************************)
LeastRooted(acl) == RootPasses([acl EXCEPT !.rooted = {}], Cardinality(DOMAIN acl.tuples))

Honoured(acl, revoked) == RevokePass(LeastRooted([acl EXCEPT !.revoked = revoked]))

CertainlyRevoked(acl) ==
    LET below[n \in 0..Cardinality(DOMAIN acl.tuples)] ==
            IF n = 0 THEN {{}} ELSE {Honoured(acl, Honoured(acl, r)) : r \in below[n - 1]}
    IN The(below[Cardinality(DOMAIN acl.tuples)])

Reference(acl) == LeastRooted([acl EXCEPT !.revoked = CertainlyRevoked(acl)])

(* Over the tuples of the creator that nobody revoked, authority adds      *)
(* nothing: both layers of the evaluator decide alike.                     *)
LayersAgree ==
    LET plain == {t \in DOMAIN records : t.grantor = Creator /\ records[t].revokers = {}}
    IN \A acl \in {Settled([t \in plain |-> records[t]], Index, Creator)} :
       \A p \in Principal \ {Creator}, path \in Path, cap \in Cap :
          DecideSettled(acl, ActorOf(p), path, cap) = DecideCapability(plain, ActorOf(p), path, cap, Index)

(* The bounded passes of the evaluator end at the least rooting under the  *)
(* revokes that hold beyond doubt (decide_capability_with_authority): a    *)
(* revoke whose author's own standing depends on it is disregarded, and    *)
(* the verdict is no artifact of the number of passes.  Where no authority *)
(* is in question it is the verdict of decide_capability.                  *)
SettlesToReference == LayersAgree /\ \A acl \in {Acl} : acl = Reference(acl)

OwnsSomething(who) == \E acl \in {Acl}, path \in Path : OwnsPath(acl, who, path)

(* A grant, a deny or a revoke by somebody who owns nothing, unless it     *)
(* revokes a tuple of its own, neither gives nor takes any capability      *)
(* (root_pass, revoke_pass, at_or_above).                                  *)
AuthorityNeeded ==
    [][ \/ place' # place
        \/ Allowed' = Allowed
        \/ \E t \in DOMAIN records' \ DOMAIN records : OwnsSomething(t.grantor)
        \/ \E r \in Revokes' \ Revokes : r[2] = r[1].grantor \/ OwnsSomething(r[2]) ]_vars

(* Nobody but the creator itself takes a capability from the creator,      *)
(* whose own of the root is written in no tuple (creator_owns).            *)
CreatorImmune ==
    \A acl \in {Acl}, path \in Path, cap \in Cap :
        \/ DecideSettled(acl, ActorOf(Creator), path, cap) = "allow"
        \/ \E t \in DOMAIN records : t.effect = "deny" /\ t.grantor = Creator
=============================================================================
