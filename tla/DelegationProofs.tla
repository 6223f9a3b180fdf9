-------------------------- MODULE DelegationProofs --------------------------
(* What the evaluator of the access control tuples decides, for any        *)
(* principals, any tuples and any number of grants and revokes.            *)
EXTENDS Delegation, FiniteSetTheorems, TLAPS

(* No tuple hands the creator the own of the root, wherever the page lies. *)
NoOwnToCreator ==
    \A t \in Grants : IsOwn(t) /\ t.subject = Actor(Creator) =>
        \A at \in Places : \A p \in ScopePath([id \in {Page} |-> at], t.scope) : ~Governs(p, <<>>)

(* The tuples of the document are the ones it wrote.                       *)
RecordsInv ==
    /\ records = [t \in DOMAIN records |-> records[t]]
    /\ DOMAIN records \subseteq Grants
    /\ IsFiniteSet(DOMAIN records)
    /\ \A t \in DOMAIN records : /\ records[t] = [val |-> records[t].val, revokers |-> records[t].revokers]
                                 /\ records[t].val = t
    /\ place \in Places

(* What stays the same through the passes, and what a pass fills in.       *)
Acls ==
    [tuples : {[t \in DOMAIN records |-> t]},
     revokers : {[t \in DOMAIN records |-> records[t].revokers]},
     paths : {[t \in DOMAIN records |-> ScopePath(Index, t.scope)]},
     creator : {Creator}, rooted : SUBSET DOMAIN records, revoked : SUBSET DOMAIN records]

-----------------------------------------------------------------------------
(* A set that holds 0 and with each number below k the next holds them all.*)
LEMMA UpTo ==
  ASSUME NEW S, NEW k \in Nat, 0 \in S, \A j \in 1 .. k : j - 1 \in S => j \in S
  PROVE  \A j \in 0 .. k : j \in S
<1> DEFINE T == {j \in Nat : j <= k /\ j \notin S}
<1> SUFFICES ASSUME T # {} PROVE FALSE
  OBVIOUS
<1>1. PICK i \in T : \A y \in T : ~(<<y, i>> \in OpToRel(<, Nat))
  <2>1. T \subseteq Nat /\ T # {}
    OBVIOUS
  <2> HIDE DEF T
  <2> QED BY <2>1, NatLessThanWellFounded, WFMin
<1>2. i \in Nat /\ i <= k /\ i \notin S /\ \A y \in Nat : y < i => y \notin T
  BY <1>1 DEF OpToRel
<1>3. i \in 1 .. k /\ i - 1 \in Nat /\ i - 1 < i /\ i - 1 <= k
  BY <1>2
<1> QED BY <1>2, <1>3

Orbit(h, F, x, k) ==
    /\ h = [j \in 0 .. k |-> h[j]]
    /\ h[0] = x
    /\ \A j \in 1 .. k : h[j] = F[h[j - 1]]

(* The iterates of a function exist.                                       *)
LEMMA OrbitExists ==
  ASSUME NEW D, NEW F \in [D -> D], NEW x \in D, NEW k \in Nat
  PROVE  \E h \in [0 .. k -> D] : Orbit(h, F, x, k)
<1> DEFINE S == {j \in Nat : \E h \in [0 .. j -> D] : Orbit(h, F, x, j)}
<1>1. 0 \in S
  <2> DEFINE h == [j \in 0 .. 0 |-> x]
  <2>1. h \in [0 .. 0 -> D] /\ h = [j \in 0 .. 0 |-> h[j]] /\ h[0] = x
    OBVIOUS
  <2>2. Orbit(h, F, x, 0)
    BY <2>1 DEF Orbit
  <2> QED BY <2>1, <2>2
<1>2. ASSUME NEW j \in 1 .. k, j - 1 \in S PROVE j \in S
  <2>1. PICK h \in [0 .. (j - 1) -> D] : Orbit(h, F, x, j - 1)
    BY <1>2
  <2> DEFINE g == [i \in 0 .. j |-> IF i = j THEN F[h[j - 1]] ELSE h[i]]
  <2>2. g \in [0 .. j -> D]
    BY <2>1
  <2>3. g = [i \in 0 .. j |-> g[i]] /\ g[0] = x
    BY <2>1 DEF Orbit
  <2>4. ASSUME NEW i \in 1 .. j PROVE g[i] = F[g[i - 1]]
    <3>1. i - 1 \in 0 .. (j - 1) /\ g[i - 1] = h[i - 1]
      OBVIOUS
    <3>2. CASE i = j
      BY <3>1, <3>2
    <3>3. CASE i # j
      <4>1. i \in 1 .. (j - 1) /\ g[i] = h[i]
        BY <3>3
      <4>2. h[i] = F[h[i - 1]]
        BY <2>1, <4>1 DEF Orbit
      <4> QED BY <3>1, <4>1, <4>2
    <3> QED BY <3>2, <3>3
  <2> HIDE DEF g
  <2>5. Orbit(g, F, x, j)
    BY <2>3, <2>4 DEF Orbit
  <2> QED BY <2>2, <2>5
<1> HIDE DEF S
<1>3. k \in S
  BY <1>1, <1>2, UpTo
<1> QED BY <1>3 DEF S

-----------------------------------------------------------------------------
(* A pass fills in the rooted and the revoked and touches nothing else.    *)
LEMMA PassKeeps ==
  ASSUME NEW a \in Acls, NEW r \in SUBSET DOMAIN records, NEW v \in SUBSET DOMAIN records
  PROVE  /\ [a EXCEPT !.rooted = r, !.revoked = v] \in Acls
         /\ [a EXCEPT !.rooted = r] \in Acls
         /\ [a EXCEPT !.revoked = v] \in Acls
  BY DEF Acls

LEMMA AclFields ==
  ASSUME NEW a \in Acls
  PROVE  /\ a.tuples = [t \in DOMAIN records |-> t]
         /\ a.paths = [t \in DOMAIN records |-> ScopePath(Index, t.scope)]
         /\ a.creator = Creator
         /\ a.rooted \subseteq DOMAIN records
         /\ a.revoked \subseteq DOMAIN records
  BY DEF Acls

LEMMA PassIn ==
  ASSUME NEW a \in Acls
  PROVE  Pass(a) \in Acls /\ [a EXCEPT !.rooted = RootPass(a)] \in Acls
<1>1. RootPass(a) \subseteq DOMAIN records /\ RevokePass(a) \subseteq DOMAIN records
  BY AclFields DEF RootPass, RevokePass
<1> QED BY <1>1, PassKeeps DEF Pass

LEMMA SeededIn ==
  ASSUME RecordsInv
  PROVE  Seeded(records, Index, Creator) \in Acls
<1>1. \A t \in DOMAIN records : records[t].val = t
  BY DEF RecordsInv
<1>2. [i \in DOMAIN records |-> records[i].val] = [t \in DOMAIN records |-> t]
  BY <1>1
<1>3. [i \in DOMAIN records |-> ScopePath(Index, records[i].val.scope)]
        = [t \in DOMAIN records |-> ScopePath(Index, t.scope)]
  BY <1>1
<1> QED BY <1>2, <1>3 DEF Seeded, Acls

(* However many passes are made.                                           *)
LEMMA PassesIn ==
  ASSUME NEW acl \in Acls, NEW k \in Nat
  PROVE  Passes(acl, k) \in Acls
<1> DEFINE F == [a \in Acls |-> Pass(a)]
           Eq(G) == G = [n \in 0 .. k |-> IF n = 0 THEN {acl} ELSE {Pass(a) : a \in G[n - 1]}]
           G == CHOOSE g : Eq(g)
<1>1. F \in [Acls -> Acls]
  BY PassIn
<1>2. PICK h \in [0 .. k -> Acls] : Orbit(h, F, acl, k)
  <2> HIDE DEF F
  <2> QED BY <1>1, OrbitExists
<1>3. \A j \in 1 .. k : j - 1 \in 0 .. k /\ h[j] = Pass(h[j - 1])
  <2>1. ASSUME NEW j \in 1 .. k PROVE j - 1 \in 0 .. k /\ h[j] = F[h[j - 1]]
    <3> HIDE DEF F
    <3>1. j - 1 \in 0 .. k
      OBVIOUS
    <3>2. \A i \in 1 .. k : h[i] = F[h[i - 1]]
      BY <1>2, Zenon DEF Orbit
    <3> QED BY <3>1, <3>2
  <2>2. \A a \in Acls : F[a] = Pass(a)
    OBVIOUS
  <2> HIDE DEF F
  <2> QED BY <2>1, <2>2
<1>4. Eq([n \in 0 .. k |-> {h[n]}])
  <2> DEFINE g == [n \in 0 .. k |-> {h[n]}]
  <2>1. ASSUME NEW n \in 0 .. k PROVE {h[n]} = IF n = 0 THEN {acl} ELSE {Pass(a) : a \in g[n - 1]}
    <3>1. CASE n = 0
      BY <1>2, <3>1 DEF Orbit
    <3>2. CASE n # 0
      <4>1. n \in 1 .. k /\ g[n - 1] = {h[n - 1]}
        BY <3>2
      <4> HIDE DEF g
      <4> QED BY <1>3, <3>2, <4>1
    <3> QED BY <3>1, <3>2
  <2> QED BY <2>1
<1>5. Eq(G)
  <2> HIDE DEF Eq
  <2> QED BY <1>4
<1>6. G[0] = {acl} /\ \A j \in 1 .. k : G[j] = {Pass(a) : a \in G[j - 1]}
  <2> HIDE DEF G
  <2> QED BY <1>5
<1>7. Passes(acl, k) = The(G[k])
  BY Zenon DEF Passes
<1> HIDE DEF G
<1> DEFINE S == {j \in 0 .. k : G[j] = {h[j]}}
<1>8. 0 \in S
  BY <1>2, <1>6 DEF Orbit
<1>9. ASSUME NEW j \in 1 .. k, j - 1 \in S PROVE j \in S
  BY <1>3, <1>6, <1>9
<1>10. k \in S
  <2> HIDE DEF S
  <2> QED BY <1>8, <1>9, UpTo
<1> QED BY <1>7, <1>10 DEF The

RootStep(a) == [a EXCEPT !.rooted = RootPass(a)]

(* Nor does settling the rooting alone.                                    *)
LEMMA RootPassesIn ==
  ASSUME NEW acl \in Acls, NEW k \in Nat
  PROVE  RootPasses(acl, k) \in Acls
<1> DEFINE F == [a \in Acls |-> RootStep(a)]
           Eq(G) == G = [n \in 0 .. k |-> IF n = 0 THEN {acl} ELSE {RootStep(a) : a \in G[n - 1]}]
           G == CHOOSE g : Eq(g)
<1>1. F \in [Acls -> Acls]
  BY PassIn DEF RootStep
<1>2. PICK h \in [0 .. k -> Acls] : Orbit(h, F, acl, k)
  <2> HIDE DEF F
  <2> QED BY <1>1, OrbitExists
<1>3. \A j \in 1 .. k : j - 1 \in 0 .. k /\ h[j] = RootStep(h[j - 1])
  <2>1. ASSUME NEW j \in 1 .. k PROVE j - 1 \in 0 .. k /\ h[j] = F[h[j - 1]]
    <3> HIDE DEF F
    <3>1. j - 1 \in 0 .. k
      OBVIOUS
    <3>2. \A i \in 1 .. k : h[i] = F[h[i - 1]]
      BY <1>2, Zenon DEF Orbit
    <3> QED BY <3>1, <3>2
  <2>2. \A a \in Acls : F[a] = RootStep(a)
    OBVIOUS
  <2> HIDE DEF F
  <2> QED BY <2>1, <2>2
<1>4. Eq([n \in 0 .. k |-> {h[n]}])
  <2> DEFINE g == [n \in 0 .. k |-> {h[n]}]
  <2>1. ASSUME NEW n \in 0 .. k PROVE {h[n]} = IF n = 0 THEN {acl} ELSE {RootStep(a) : a \in g[n - 1]}
    <3>1. CASE n = 0
      BY <1>2, <3>1 DEF Orbit
    <3>2. CASE n # 0
      <4>1. n \in 1 .. k /\ g[n - 1] = {h[n - 1]}
        BY <3>2
      <4> HIDE DEF g
      <4> QED BY <1>3, <3>2, <4>1
    <3> QED BY <3>1, <3>2
  <2> QED BY <2>1
<1>5. Eq(G)
  <2> HIDE DEF Eq
  <2> QED BY <1>4
<1>6. G[0] = {acl} /\ \A j \in 1 .. k : G[j] = {RootStep(a) : a \in G[j - 1]}
  <2> HIDE DEF G
  <2> QED BY <1>5
<1>7. RootPasses(acl, k) = The(G[k])
  BY Zenon DEF RootPasses, RootStep
<1> HIDE DEF G
<1> DEFINE S == {j \in 0 .. k : G[j] = {h[j]}}
<1>8. 0 \in S
  BY <1>2, <1>6 DEF Orbit
<1>9. ASSUME NEW j \in 1 .. k, j - 1 \in S PROVE j \in S
  BY <1>3, <1>6, <1>9
<1>10. k \in S
  <2> HIDE DEF S
  <2> QED BY <1>8, <1>9, UpTo
<1> QED BY <1>7, <1>10 DEF The

LEMMA SettledIn ==
  ASSUME RecordsInv
  PROVE  Acl \in Acls
<1> DEFINE n == Cardinality(DOMAIN records)
           a == Passes(Seeded(records, Index, Creator), Bound(n) - 1)
<1>1. n \in Nat /\ n + 1 \in Nat /\ Bound(n) - 1 \in Nat
  <2>1. n \in Nat
    BY FS_CardinalityType DEF RecordsInv
  <2> HIDE DEF n
  <2> QED BY <2>1 DEF Bound
<1>2. a \in Acls
  <2>1. Seeded(records, Index, Creator) \in Acls
    BY SeededIn
  <2> QED BY <1>1, <2>1, PassesIn
<1> HIDE DEF n
<1>3. Pass(a) \in Acls
  BY <1>2, PassIn
<1>4. DisregardFlux(Pass(a), n) \in Acls
  <2> DEFINE b == Pass(a)
             c == [b EXCEPT !.revoked = b.revoked \intersect RevokePass(b)]
  <2>1. b.revoked \intersect RevokePass(b) \in SUBSET DOMAIN records
    BY <1>3, AclFields
  <2>2. c \in Acls
    <3> HIDE DEF b
    <3> QED BY <1>3, <2>1, PassKeeps DEF b
  <2>3. DisregardFlux(b, n) = RootPasses(c, n + 1)
    BY DEF DisregardFlux
  <2> HIDE DEF b, c
  <2> QED BY <1>1, <2>2, <2>3, RootPassesIn DEF b
<1>5. Acl = IF Pass(a) = a THEN a ELSE DisregardFlux(Pass(a), n)
  <2> DEFINE x == IF Pass(a) = a THEN a ELSE DisregardFlux(Pass(a), n)
  <2>1. Acl = The({x})
    BY Zenon DEF Acl, Settled, n
  <2> HIDE DEF x
  <2>2. The({x}) = x
    BY DEF The
  <2> QED BY <2>1, <2>2 DEF x
<1> HIDE DEF a
<1> QED BY <1>2, <1>4, <1>5

(* Those who gave one of `who` its own of the root.                        *)
Over(acl, who) ==
    {acl.tuples[i].grantor : i \in {j \in acl.rooted \ acl.revoked :
        /\ IsOwn(acl.tuples[j]) /\ GovernsAt(acl, j, <<>>)
        /\ \E w \in who : acl.tuples[j].subject = Actor(w)}}

Raised(acl, who) == who \union Over(acl, who)

(* The walk up the delegations, from those in x.                           *)
Climb(acl, x, k) ==
    LET up[n \in 0 .. k] == IF n = 0 THEN {x} ELSE {Raised(acl, who) : who \in up[n - 1]}
    IN The(up[k])

LEMMA ClimbStays ==
  ASSUME NEW acl, NEW x, NEW k \in Nat, Raised(acl, x) = x
  PROVE  Climb(acl, x, k) = x
<1> DEFINE Eq(G) == G = [n \in 0 .. k |-> IF n = 0 THEN {x} ELSE {Raised(acl, who) : who \in G[n - 1]}]
           G == CHOOSE g : Eq(g)
<1>1. Eq([n \in 0 .. k |-> {x}])
  <2> DEFINE g == [n \in 0 .. k |-> {x}]
  <2>1. ASSUME NEW n \in 0 .. k
        PROVE  {x} = IF n = 0 THEN {x} ELSE {Raised(acl, who) : who \in g[n - 1]}
    <3>1. CASE n = 0
      BY <3>1
    <3>2. CASE n # 0
      <4>1. g[n - 1] = {x}
        BY <3>2
      <4> HIDE DEF g
      <4>2. {Raised(acl, who) : who \in g[n - 1]} = {x}
        BY <4>1, Zenon
      <4> QED BY <3>2, <4>2
    <3> QED BY <3>1, <3>2
  <2> QED BY <2>1
<1>2. Eq(G)
  <2> HIDE DEF Eq
  <2> QED BY <1>1
<1>3. Climb(acl, x, k) = The(G[k])
  BY Zenon DEF Climb
<1>4. G[0] = {x} /\ \A j \in 1 .. k : G[j] = {Raised(acl, who) : who \in G[j - 1]}
  <2> HIDE DEF G
  <2>1. \A j \in 0 .. k : G[j] = IF j = 0 THEN {x} ELSE {Raised(acl, who) : who \in G[j - 1]}
    BY <1>2, Zenon
  <2>2. 0 \in 0 .. k /\ \A j \in 1 .. k : j \in 0 .. k /\ j # 0
    OBVIOUS
  <2> QED BY <2>1, <2>2, Zenon
<1> HIDE DEF G
<1> DEFINE S == {j \in 0 .. k : G[j] = {x}}
<1>5. 0 \in S
  BY <1>4
<1>6. ASSUME NEW j \in 1 .. k, j - 1 \in S PROVE j \in S
  <2>1. G[j] = {Raised(acl, who) : who \in {x}}
    BY <1>4, <1>6
  <2>2. {Raised(acl, who) : who \in {x}} = {x}
    BY Zenon
  <2> QED BY <2>1, <2>2
<1>7. k \in S
  <2> HIDE DEF S
  <2> QED BY <1>5, <1>6, UpTo
<1> QED BY <1>3, <1>7 DEF The

(* Nobody stands above the creator at the root.                            *)
LEMMA CreatorOnTop ==
  ASSUME RecordsInv, NoOwnToCreator, NEW acl \in Acls
  PROVE  Superiors(acl, Creator, <<>>) = {Creator}
<1> DEFINE k == Cardinality(DOMAIN acl.tuples) + 1
<1>1. k \in Nat
  <2>1. DOMAIN acl.tuples = DOMAIN records
    BY AclFields
  <2> QED BY <2>1, FS_CardinalityType DEF RecordsInv
<1>2. Superiors(acl, Creator, <<>>) = Climb(acl, {Creator}, k)
  BY Zenon DEF Superiors, Over, Raised, Climb
<1>3. Over(acl, {Creator}) = {}
  <2> SUFFICES ASSUME NEW j \in acl.rooted, IsOwn(acl.tuples[j]), GovernsAt(acl, j, <<>>),
                      acl.tuples[j].subject = Actor(Creator)
               PROVE  FALSE
    BY DEF Over
  <2>1. j \in DOMAIN records /\ acl.tuples[j] = j /\ acl.paths[j] = ScopePath(Index, j.scope)
    BY AclFields
  <2>2. j \in Grants /\ place \in Places
    BY <2>1 DEF RecordsInv
  <2>3. PICK p \in ScopePath(Index, j.scope) : Governs(p, <<>>)
    BY <2>1 DEF GovernsAt
  <2> QED BY <2>1, <2>2, <2>3 DEF NoOwnToCreator, Index
<1>4. Raised(acl, {Creator}) = {Creator}
  BY <1>3 DEF Raised
<1> HIDE DEF k
<1> QED BY <1>1, <1>2, <1>4, ClimbStays

LEMMA RecordsStep ==
  ASSUME RecordsInv, [Next]_vars
  PROVE  RecordsInv'
<1>1. ASSUME NEW t \in Grants, GrantTuple(t) PROVE RecordsInv'
  <2>1. DOMAIN records' = DOMAIN records \union {t}
    BY <1>1 DEF GrantTuple
  <2>2. IsFiniteSet(DOMAIN records')
    BY <2>1, FS_AddElement DEF RecordsInv
  <2>3. \A x \in DOMAIN records' : records'[x] = IF x = t THEN [val |-> t, revokers |-> {}] ELSE records[x]
    BY <1>1 DEF GrantTuple
  <2>4. records' = [x \in DOMAIN records' |-> records'[x]]
    BY <1>1 DEF GrantTuple
  <2> QED BY <1>1, <2>1, <2>2, <2>3, <2>4 DEF RecordsInv, GrantTuple
<1>2. ASSUME NEW who \in Principal, NEW t \in DOMAIN records, RevokeTuple(who, t) PROVE RecordsInv'
  <2>1. DOMAIN records' = DOMAIN records /\ records' = [x \in DOMAIN records' |-> records'[x]]
    BY <1>2 DEF RevokeTuple, RecordsInv
  <2>2. ASSUME NEW x \in DOMAIN records
        PROVE  /\ records'[x].val = records[x].val
               /\ records'[x] = [val |-> records'[x].val, revokers |-> records'[x].revokers]
    <3>1. PICK v, r : records[x] = [val |-> v, revokers |-> r]
      BY DEF RecordsInv
    <3>2. CASE x = t
      <4>1. records'[x] = [records[x] EXCEPT !.revokers = records[x].revokers \union {who}]
        BY <1>2, <3>2 DEF RevokeTuple
      <4> QED BY <3>1, <4>1
    <3>3. CASE x # t
      <4>1. records'[x] = records[x]
        BY <1>2, <3>3 DEF RevokeTuple, RecordsInv
      <4> QED BY <4>1 DEF RecordsInv
    <3> QED BY <3>2, <3>3
  <2> QED BY <1>2, <2>1, <2>2 DEF RecordsInv, RevokeTuple
<1>3. CASE MovePage
  BY <1>3 DEF MovePage, RecordsInv
<1>4. CASE UNCHANGED vars
  BY <1>4 DEF vars, RecordsInv
<1> QED BY <1>1, <1>2, <1>3, <1>4 DEF Next

(* As long as no tuple hands the creator the own of the root (which would  *)
(* put its grantor above the creator, at_or_above), nobody but the creator *)
(* takes a capability from the creator, whatever is granted, denied and    *)
(* revoked and wherever elements move (creator_owns, deny_suppresses).     *)
THEOREM CreatorSafe ==
  ASSUME NoOwnToCreator
  PROVE  Spec => []CreatorImmune
<1>1. Init => RecordsInv
  BY FS_EmptySet DEF Init, RecordsInv
<1>2. RecordsInv => CreatorImmune
  <2> SUFFICES ASSUME RecordsInv, NEW path \in Path, NEW cap \in Cap,
                      ~ \E t \in DOMAIN records : t.effect = "deny" /\ t.grantor = Creator
               PROVE  DecideSettled(Acl, ActorOf(Creator), path, cap) = "allow"
    BY DEF CreatorImmune
  <2>1. Acl \in Acls
    BY SettledIn
  <2>2. Acl.creator = Creator /\ Superiors(Acl, Creator, <<>>) = {Creator}
    BY <2>1, AclFields, CreatorOnTop
  <2>3. ~DenySuppresses(Acl, ActorOf(Creator), path, cap, Creator, <<>>, TRUE)
    <3> SUFFICES ASSUME NEW i \in Denies(Acl, ActorOf(Creator), path),
                        AtOrAbove(Acl, Acl.tuples[i].grantor, Creator, <<>>)
                 PROVE  FALSE
      BY DEF DenySuppresses
    <3>1. i \in DOMAIN records /\ Acl.tuples[i] = i /\ i.effect = "deny"
      BY <2>1, AclFields DEF Denies
    <3>2. i.grantor = Creator
      BY <2>2, <3>1 DEF AtOrAbove
    <3> QED BY <3>1, <3>2
  <2>4. CreatorOwns(Acl, ActorOf(Creator), path, cap)
    BY <2>2, <2>3 DEF CreatorOwns, ActorOf
  <2> QED BY <2>4 DEF DecideSettled
<1> QED BY <1>1, <1>2, RecordsStep, PTL DEF Spec
=============================================================================
