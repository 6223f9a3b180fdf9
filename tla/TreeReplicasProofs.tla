------------------------- MODULE TreeReplicasProofs -------------------------
(* Proofs about the XML tree: for any number of replicas, ops, moves under *)
(* one stamp, undos and orders of delivery.                                *)
EXTENDS TreeReplicas, FiniteSetTheorems, SequenceTheorems, TLAPS

(* A set that holds 0 and with each number below k the next holds them all.*)
LEMMA UpTo ==
  ASSUME NEW S, NEW k \in Nat, 0 \in S, \A j \in 1 .. k : j - 1 \in S => j \in S
  PROVE  \A j \in 0 .. k : j \in S
<1> DEFINE T == {j \in Nat : j <= k /\ j \notin S}
<1> SUFFICES ASSUME T # {} PROVE FALSE
  OBVIOUS
<1>1. PICK i \in T : \A y \in T : ~(<<y, i>> \in OpToRel(<, Nat))
  <2>1. T \subseteq Nat /\ T # {}
    OBVIOUS
  <2> HIDE DEF T
  <2> QED BY <2>1, NatLessThanWellFounded, WFMin
<1>2. i \in Nat /\ i <= k /\ i \notin S /\ \A y \in Nat : y < i => y \notin T
  BY <1>1 DEF OpToRel
<1>3. i \in 1 .. k /\ i - 1 \in Nat /\ i - 1 < i /\ i - 1 <= k
  BY <1>2
<1> QED BY <1>2, <1>3

-----------------------------------------------------------------------------
(***************************************************************************)
(* The closure that AncestorsOf computes.  Above gives what a set of nodes    *)
(* leads to in one step; the iteration ends at the least closed set.       *)
(***************************************************************************)
Above(N, P, S) == UNION {P[x] : x \in S}

Closed(N, P, T) == \A x \in T : P[x] \subseteq T

Closes(N, P, f) ==
    f = [S \in SUBSET N |-> LET up == Above(N, P, S) IN IF up \subseteq S THEN S ELSE f[S \union up]]

(* The least closed set above S.                                           *)
Least(N, P, S) == {x \in N : \A T \in SUBSET N : S \subseteq T /\ Closed(N, P, T) => x \in T}

LEMMA LeastCloses ==
  ASSUME NEW N, NEW P \in [N -> SUBSET N]
  PROVE  Closes(N, P, [S \in SUBSET N |-> Least(N, P, S)])
<1> DEFINE f == [S \in SUBSET N |-> Least(N, P, S)]
<1>1. ASSUME NEW S \in SUBSET N
      PROVE  f[S] = LET up == Above(N, P, S) IN IF up \subseteq S THEN S ELSE f[S \union up]
  <2> DEFINE up == Above(N, P, S)
  <2>1. up \in SUBSET N
    BY DEF Above
  <2>2. \A T \in SUBSET N : S \subseteq T /\ Closed(N, P, T) => up \subseteq T
    BY DEF Above, Closed
  <2>3. CASE up \subseteq S
    <3>1. Closed(N, P, S)
      BY <2>3 DEF Above, Closed
    <3> QED BY <2>3, <3>1 DEF Least
  <2>4. CASE ~(up \subseteq S)
    <3>1. S \union up \in SUBSET N /\ f[S \union up] = Least(N, P, S \union up)
      BY <2>1
    <3>2. Least(N, P, S \union up) = Least(N, P, S)
      BY <2>2 DEF Least
    <3> HIDE DEF f, up
    <3> QED BY <2>4, <3>1, <3>2 DEF f, up
  <2> QED BY <2>3, <2>4
<1> QED BY <1>1 DEF Closes

LEMMA Closure ==
  ASSUME NEW N, IsFiniteSet(N), NEW P \in [N -> SUBSET N], NEW f, Closes(N, P, f), NEW S \in SUBSET N
  PROVE  /\ S \subseteq f[S] /\ f[S] \subseteq N /\ Closed(N, P, f[S])
         /\ \A T : S \subseteq T /\ (\A x \in T \intersect N : P[x] \subseteq T) => f[S] \subseteq T
<1> DEFINE Good(R) == /\ R \subseteq f[R] /\ f[R] \subseteq N /\ Closed(N, P, f[R])
                      /\ \A T : R \subseteq T /\ (\A x \in T \intersect N : P[x] \subseteq T) => f[R] \subseteq T
           Bad == {j \in Nat : \E R \in SUBSET N : Cardinality(N \ R) = j /\ ~Good(R)}
<1> SUFFICES ASSUME ~Good(S) PROVE FALSE
  OBVIOUS
<1>1. \A R \in SUBSET N : IsFiniteSet(N \ R) /\ Cardinality(N \ R) \in Nat
  BY FS_Subset, FS_CardinalityType
<1>2. Bad \subseteq Nat /\ Bad # {}
  BY <1>1
<1>3. PICK j \in Bad : \A y \in Bad : ~(<<y, j>> \in OpToRel(<, Nat))
  <2> HIDE DEF Bad
  <2> QED BY <1>2, NatLessThanWellFounded, WFMin
<1>4. PICK R \in SUBSET N : Cardinality(N \ R) = j /\ ~Good(R)
  BY <1>3
<1> DEFINE up == Above(N, P, R)
<1>5. f[R] = IF up \subseteq R THEN R ELSE f[R \union up]
  BY DEF Closes
<1>6. up \subseteq N /\ \A T : R \subseteq T /\ (\A x \in T \intersect N : P[x] \subseteq T) => up \subseteq T
  BY DEF Above
<1>7. CASE up \subseteq R
  <2>1. f[R] = R
    BY <1>5, <1>7
  <2>2. Closed(N, P, R)
    BY <1>7 DEF Above, Closed
  <2> QED BY <1>4, <2>1, <2>2
<1>8. CASE ~(up \subseteq R)
  <2>1. R \union up \in SUBSET N /\ f[R] = f[R \union up]
    BY <1>5, <1>6, <1>8
  <2>2. Good(R \union up)
    <3>1. Cardinality(N \ (R \union up)) < Cardinality(N \ R)
      <4> DEFINE A == N \ (R \union up)
                 B == N \ R
      <4>1. A \subseteq B /\ A # B /\ IsFiniteSet(B)
        BY <1>1, <1>6, <1>8
      <4>2. Cardinality(A) <= Cardinality(B) /\ (Cardinality(A) = Cardinality(B) => A = B)
        <5> HIDE DEF A, B
        <5> QED BY <4>1, FS_Subset
      <4>3. Cardinality(A) \in Nat /\ Cardinality(B) \in Nat
        BY <1>1, <2>1
      <4> HIDE DEF A, B
      <4>4. Cardinality(A) < Cardinality(B)
        BY <4>1, <4>2, <4>3
      <4> QED BY <4>4 DEF A, B
    <3>2. Cardinality(N \ (R \union up)) \notin Bad
      <4>1. Cardinality(N \ (R \union up)) \in Nat /\ Cardinality(N \ (R \union up)) < j /\ j \in Nat
        BY <1>1, <1>4, <2>1, <3>1
      <4> HIDE DEF Bad
      <4> QED BY <1>3, <4>1 DEF OpToRel
    <3> QED BY <1>1, <2>1, <3>2
  <2>3. Good(R)
    BY <1>6, <2>1, <2>2
  <2> QED BY <1>4, <2>3
<1> QED BY <1>7, <1>8

-----------------------------------------------------------------------------
(***************************************************************************)
(* Trees.  Births gives each node but the fragment the parent it was       *)
(* created under, moves override it; the nodes hang from the fragment when *)
(* no set of them leads only into itself.  (A node being inserted is among *)
(* the nodes N a little before it has a parent.)  Texts own no list, so    *)
(* nothing is ever under one.                                              *)
(***************************************************************************)
IsOwner(n) == n = Fragment \/ Last(n)[2] = "element"

Births(N, b) ==
    /\ IsFiniteSet(N) /\ Fragment \in N /\ DOMAIN b \subseteq N \ {Fragment}
    /\ b = [n \in DOMAIN b |-> b[n]]
    /\ \A n \in DOMAIN b : b[n] \in DOMAIN b \union {Fragment} /\ IsOwner(b[n])

ParentIn(b, m, n) == IF n \in DOMAIN m THEN m[n] ELSE b[n]

Moves(b, m) ==
    /\ m = [n \in DOMAIN m |-> m[n]]
    /\ DOMAIN m \subseteq DOMAIN b
    /\ \A n \in DOMAIN m : m[n] \in DOMAIN b \union {Fragment} /\ IsOwner(m[n])

Hangs(b, m) == \A S \in SUBSET DOMAIN b : S # {} => \E n \in S : ParentIn(b, m, n) \notin S

Hung(b, m) == Moves(b, m) /\ Hangs(b, m)

LEMMA ParentsOf ==
  ASSUME NEW t, Births(t.nodes, t.base), Moves(t.base, t.moved)
  PROVE  /\ \A n : n \notin DOMAIN t.base => ParentOf(t, n) = {}
         /\ \A n \in DOMAIN t.base : /\ ParentOf(t, n) = {ParentIn(t.base, t.moved, n)}
                                     /\ ParentIn(t.base, t.moved, n) \in DOMAIN t.base \union {Fragment}
         /\ \A n : ParentOf(t, n) \subseteq t.nodes
<1>1. \A n : n \notin DOMAIN t.base => ParentOf(t, n) = {}
  BY DEF ParentOf, Moves
<1>2. ASSUME NEW n \in DOMAIN t.base
      PROVE  /\ ParentOf(t, n) = {ParentIn(t.base, t.moved, n)}
             /\ ParentIn(t.base, t.moved, n) \in DOMAIN t.base \union {Fragment}
  BY DEF ParentOf, ParentIn, Births, Moves
<1>3. DOMAIN t.base \union {Fragment} \subseteq t.nodes
  BY DEF Births
<1> QED BY <1>1, <1>2, <1>3

(* The ancestors of a node are the least set that holds its parent and     *)
(* with each node that node's parent.                                      *)
LEMMA Ancestry ==
  ASSUME NEW t, Births(t.nodes, t.base), Moves(t.base, t.moved), NEW node
  PROVE  /\ ParentOf(t, node) \subseteq AncestorsOf(t, node)
         /\ AncestorsOf(t, node) \subseteq t.nodes
         /\ \A x \in AncestorsOf(t, node) : ParentOf(t, x) \subseteq AncestorsOf(t, node)
         /\ \A T : /\ ParentOf(t, node) \subseteq T
                   /\ \A x \in T \intersect t.nodes : ParentOf(t, x) \subseteq T
                   => AncestorsOf(t, node) \subseteq T
<1> DEFINE N == t.nodes
           P == [x \in N |-> ParentOf(t, x)]
           Eq(g) == g = [S \in SUBSET N |->
                           LET up == UNION {ParentOf(t, x) : x \in S} IN IF up \subseteq S THEN S ELSE g[S \union up]]
           f == CHOOSE g : Eq(g)
<1>1. IsFiniteSet(N)
  BY DEF Births
<1>2. \A n : ParentOf(t, n) \in SUBSET N
  BY ParentsOf
<1>3. P \in [N -> SUBSET N] /\ \A n \in N : P[n] = ParentOf(t, n)
  BY <1>2
<1>4. \A S \in SUBSET N : Above(N, P, S) = UNION {ParentOf(t, x) : x \in S}
  BY <1>3 DEF Above
<1>5. ASSUME NEW g PROVE Closes(N, P, g) <=> Eq(g)
  <2>1. ASSUME NEW S \in SUBSET N
        PROVE  (LET up == Above(N, P, S) IN IF up \subseteq S THEN S ELSE g[S \union up])
                 = (LET up == UNION {ParentOf(t, x) : x \in S} IN IF up \subseteq S THEN S ELSE g[S \union up])
    BY <1>4
  <2> HIDE DEF P
  <2>2. [S \in SUBSET N |-> LET up == Above(N, P, S) IN IF up \subseteq S THEN S ELSE g[S \union up]]
          = [S \in SUBSET N |-> LET up == UNION {ParentOf(t, x) : x \in S} IN IF up \subseteq S THEN S ELSE g[S \union up]]
    BY <2>1
  <2> QED BY <2>2 DEF Closes
<1>6. \E g : Eq(g)
  <2>1. \E g : Closes(N, P, g)
    <3> HIDE DEF P
    <3> QED BY <1>3, LeastCloses
  <2> HIDE DEF Eq
  <2> QED BY <2>1, <1>5
<1>7. Closes(N, P, f)
  <2> HIDE DEF Eq
  <2> QED BY <1>5, <1>6
<1>8. AncestorsOf(t, node) = f[ParentOf(t, node)]
  BY Zenon DEF AncestorsOf
<1> DEFINE A == f[ParentOf(t, node)]
<1>9. /\ ParentOf(t, node) \subseteq A /\ A \subseteq N /\ Closed(N, P, A)
      /\ \A T : ParentOf(t, node) \subseteq T /\ (\A x \in T \intersect N : P[x] \subseteq T) => A \subseteq T
  <2>1. ParentOf(t, node) \in SUBSET N
    BY <1>2
  <2> HIDE DEF f, P
  <2> QED BY <1>1, <1>3, <1>7, <2>1, Closure
<1> HIDE DEF f
<1>10. \A x \in A : ParentOf(t, x) \subseteq A
  BY <1>3, <1>9 DEF Closed
<1> QED BY <1>3, <1>8, <1>9, <1>10

LEMMA OwnersAbove ==
  ASSUME NEW t, Births(t.nodes, t.base), Moves(t.base, t.moved), NEW node
  PROVE  \A x \in AncestorsOf(t, node) : IsOwner(x)
<1> DEFINE T == {x \in t.nodes : IsOwner(x)}
<1>1. ASSUME NEW n PROVE ParentOf(t, n) \subseteq T
  <2>1. \A p \in ParentOf(t, n) : IsOwner(p)
    BY DEF ParentOf, Births, Moves
  <2>2. ParentOf(t, n) \subseteq t.nodes
    BY ParentsOf
  <2> QED BY <2>1, <2>2
<1> HIDE DEF T
<1>2. AncestorsOf(t, node) \subseteq T
  BY <1>1, Ancestry
<1> QED BY <1>2 DEF T

(* In a tree that hangs, no node is above itself and the fragment is above *)
(* every other node.                                                       *)
LEMMA HungRooted ==
  ASSUME NEW t, Births(t.nodes, t.base), Hung(t.base, t.moved), NEW n \in DOMAIN t.base
  PROVE  n \notin AncestorsOf(t, n) /\ Fragment \in AncestorsOf(t, n)
<1> DEFINE D == DOMAIN t.base
           Up(x) == ParentIn(t.base, t.moved, x)
           A(x) == AncestorsOf(t, x)
<1>1. Moves(t.base, t.moved)
  BY DEF Hung
<1>2. Fragment \notin D /\ ParentOf(t, Fragment) = {} /\ \A x : x \notin D => ParentOf(t, x) = {}
  BY <1>1, ParentsOf DEF Births
<1>3. \A x \in D : ParentOf(t, x) = {Up(x)} /\ Up(x) \in D \union {Fragment}
  BY <1>1, ParentsOf
<1>4. ASSUME NEW x
      PROVE  /\ ParentOf(t, x) \subseteq A(x)
             /\ \A y \in A(x) : ParentOf(t, y) \subseteq A(x)
             /\ \A T : ParentOf(t, x) \subseteq T /\ (\A y \in T : ParentOf(t, y) \subseteq T) => A(x) \subseteq T
  BY <1>1, Ancestry
<1> HIDE DEF A, D
<1>5. ASSUME NEW x \in D PROVE A(x) \subseteq D \union {Fragment}
  <2>1. \A y \in D \union {Fragment} : ParentOf(t, y) \subseteq D \union {Fragment}
    BY <1>2, <1>3
  <2>2. ParentOf(t, x) \subseteq D \union {Fragment}
    BY <1>3
  <2> QED BY <1>4, <2>1, <2>2
<1>6. ASSUME NEW T \in SUBSET D, T # {} PROVE \E x \in T : Up(x) \notin T
  BY <1>6 DEF Hung, Hangs, D
<1>7. n \in D
  BY DEF D
<1>8. Fragment \in A(n)
  <2> SUFFICES ASSUME Fragment \notin A(n) PROVE FALSE
    OBVIOUS
  <2>1. Up(n) \in A(n) /\ A(n) \subseteq D
    BY <1>3, <1>4, <1>5, <1>7
  <2>2. \A x \in A(n) : Up(x) \in A(n)
    BY <1>3, <1>4, <2>1
  <2> QED BY <1>6, <2>1, <2>2
<1>9. A(Fragment) = {}
  <2>1. ParentOf(t, Fragment) \subseteq {} /\ \A y \in {} : ParentOf(t, y) \subseteq {}
    BY <1>2
  <2> QED BY <1>4, <2>1
<1>10. ASSUME NEW x \in D PROVE A(x) \subseteq {Up(x)} \union A(Up(x))
  <2> DEFINE T == {Up(x)} \union A(Up(x))
  <2>1. ParentOf(t, x) \subseteq T
    BY <1>3
  <2>2. ASSUME NEW y \in T PROVE ParentOf(t, y) \subseteq T
    BY <1>4
  <2> HIDE DEF T
  <2>3. A(x) \subseteq T
    BY <1>4, <2>1, <2>2
  <2> QED BY <2>3 DEF T
<1>11. ASSUME n \in A(n) PROVE FALSE
  <2> DEFINE T == {x \in D : n \in A(x)}
  <2>1. n \in T
    BY <1>7, <1>11
  <2>2. ASSUME NEW x \in T PROVE Up(x) \in T
    <3>1. Up(x) \in D \union {Fragment} /\ n \in {Up(x)} \union A(Up(x))
      BY <1>3, <1>10
    <3>2. Up(x) # Fragment
      BY <1>2, <1>7, <1>9, <3>1
    <3> QED BY <1>11, <3>1, <3>2
  <2> HIDE DEF T
  <2>3. T \in SUBSET D /\ T # {}
    BY <2>1 DEF T
  <2> QED BY <1>6, <2>2, <2>3
<1> QED BY <1>8, <1>11 DEF A

(* A move that is not onto or below the node itself keeps the tree whole.  *)
LEMMA MoveHangs ==
  ASSUME NEW t, Births(t.nodes, t.base), Hung(t.base, t.moved),
         NEW child \in DOMAIN t.base, NEW parent \in DOMAIN t.base \union {Fragment}, IsOwner(parent),
         child \notin {parent} \union AncestorsOf(t, parent)
  PROVE  Hung(t.base, Put(t.moved, child, parent))
<1> DEFINE D == DOMAIN t.base
           m == Put(t.moved, child, parent)
           Up(x) == ParentIn(t.base, t.moved, x)
           New(x) == ParentIn(t.base, m, x)
           Anc == {parent} \union AncestorsOf(t, parent)
<1>1. Moves(t.base, t.moved)
  BY DEF Hung
<1>2. Moves(t.base, m) /\ \A x \in D : New(x) = IF x = child THEN parent ELSE Up(x)
  BY <1>1 DEF Moves, Put, ParentIn
<1>3. \A x \in D : ParentOf(t, x) = {Up(x)} /\ Up(x) \in D \union {Fragment}
  BY <1>1, ParentsOf
<1>4. ASSUME NEW T \in SUBSET D, T # {} PROVE \E x \in T : Up(x) \notin T
  BY <1>4 DEF Hung, Hangs
<1>5. /\ ParentOf(t, parent) \subseteq AncestorsOf(t, parent)
      /\ \A y \in AncestorsOf(t, parent) : ParentOf(t, y) \subseteq AncestorsOf(t, parent)
  BY <1>1, Ancestry
<1>6. \A y \in Anc : ParentOf(t, y) \subseteq Anc
  BY <1>5
<1>7. child \in D /\ child \notin Anc /\ parent \in Anc /\ Fragment \notin D
  BY DEF Births
<1> HIDE DEF D, m, Up, New, Anc
<1>8. ASSUME NEW S \in SUBSET D, S # {}, \A x \in S : New(x) \in S PROVE FALSE
  <2>1. CASE child \notin S
    BY <1>2, <1>4, <1>8, <2>1
  <2>2. CASE child \in S
    <3> DEFINE T == S \intersect Anc
    <3>1. parent \in T
      BY <1>2, <1>7, <1>8, <2>2
    <3>2. ASSUME NEW x \in T PROVE Up(x) \in T
      BY <1>2, <1>3, <1>6, <1>7, <1>8
    <3> HIDE DEF T
    <3>3. T \in SUBSET D
      BY DEF T
    <3> QED BY <1>4, <3>1, <3>2, <3>3
  <2> QED BY <2>1, <2>2
<1> QED BY <1>2, <1>8 DEF Hung, Hangs, D, m, New

(* A new leaf keeps the tree whole, under any moves of the others.         *)
LEMMA LeafHangs ==
  ASSUME NEW N, NEW b, Births(N, b), NEW m, Hung(b, m),
         NEW child, child \notin DOMAIN b, NEW parent \in DOMAIN b \union {Fragment}, child # Fragment
  PROVE  Hung(Put(b, child, parent), m)
<1> DEFINE D == DOMAIN b
           c == Put(b, child, parent)
           Up(x) == ParentIn(b, m, x)
           New(x) == ParentIn(c, m, x)
<1>1. Moves(b, m)
  BY DEF Hung
<1>2. DOMAIN c = D \union {child} /\ \A x \in D \union {child} : New(x) = IF x = child THEN parent ELSE Up(x)
  BY <1>1 DEF Moves, Put, ParentIn
<1>3. Moves(c, m)
  BY <1>1, <1>2 DEF Moves
<1>4. ASSUME NEW T \in SUBSET D, T # {} PROVE \E x \in T : Up(x) \notin T
  BY <1>4 DEF Hung, Hangs
<1>5. child \notin D /\ parent # child
  OBVIOUS
<1>6. \A x \in D : Up(x) \in D \union {Fragment}
  BY <1>1 DEF Births, Moves, ParentIn
<1> HIDE DEF D, c, Up, New
<1>7. ASSUME NEW S \in SUBSET (D \union {child}), S # {}, \A x \in S : New(x) \in S PROVE FALSE
  <2> DEFINE T == S \ {child}
  <2>1. T # {}
    BY <1>2, <1>5, <1>7
  <2>2. ASSUME NEW x \in T PROVE Up(x) \in T
    BY <1>2, <1>5, <1>6, <1>7
  <2> HIDE DEF T
  <2>3. T \in SUBSET D
    BY DEF T
  <2> QED BY <1>4, <2>1, <2>2, <2>3
<1> QED BY <1>2, <1>3, <1>7 DEF Hung, Hangs, c, New

-----------------------------------------------------------------------------
(***************************************************************************)
(* Folds.  FoldSteps runs through the values g[0], g[1], ..., each made    *)
(* from the one before it: the same argument for each step that is folded. *)
(***************************************************************************)
(* Undoing moves, one after another.                                       *)
LEMMA UndoFold ==
  ASSUME NEW base, NEW seq, Len(seq) \in Nat
  PROVE  \E g : /\ g[0] = base
                /\ \A i \in 1 .. Len(seq) : g[i] = UndoMove(g[i - 1], seq[i])
                /\ UndoAll(base, seq) = g[Len(seq)]
<1> DEFINE L == Len(seq)
           Eq(G, k) == G = [n \in 0 .. k |-> IF n = 0 THEN {base} ELSE {UndoMove(x, seq[n]) : x \in G[n - 1]}]
           S == {k \in 0 .. L : \E G : Eq(G, k)}
           F == CHOOSE G : Eq(G, L)
<1>1. 0 \in S
  <2>1. Eq([n \in 0 .. 0 |-> {base}], 0)
    OBVIOUS
  <2> HIDE DEF Eq
  <2> QED BY <2>1
<1>2. ASSUME NEW k \in 1 .. L, k - 1 \in S PROVE k \in S
  <2>1. PICK G : Eq(G, k - 1)
    BY <1>2
  <2> DEFINE H == [n \in 0 .. k |-> IF n = k THEN {UndoMove(x, seq[k]) : x \in G[k - 1]} ELSE G[n]]
  <2>2. ASSUME NEW n \in 0 .. k PROVE H[n] = IF n = 0 THEN {base} ELSE {UndoMove(x, seq[n]) : x \in H[n - 1]}
    <3>1. CASE n = k
      <4>1. n # 0 /\ H[n - 1] = G[n - 1]
        BY <3>1
      <4>2. H[n] = {UndoMove(x, seq[n]) : x \in G[n - 1]}
        BY <3>1
      <4> HIDE DEF H
      <4> QED BY <4>1, <4>2
    <3>2. CASE n # k
      <4>1. n \in 0 .. k - 1 /\ H[n] = G[n] /\ (n # 0 => n - 1 \in 0 .. k - 1 /\ H[n - 1] = G[n - 1])
        BY <3>2
      <4>2. G[n] = IF n = 0 THEN {base} ELSE {UndoMove(x, seq[n]) : x \in G[n - 1]}
        BY <2>1, <4>1
      <4> HIDE DEF H
      <4> QED BY <4>1, <4>2
    <3> QED BY <3>1, <3>2
  <2>3. Eq(H, k)
    BY <2>2
  <2> HIDE DEF Eq, H
  <2> QED BY <2>3
<1>3. Eq(F, L)
  <2>1. L \in S
    <3> HIDE DEF S
    <3>1. \A j \in 0 .. L : j \in S
      BY <1>1, <1>2, UpTo
    <3> QED BY <3>1
  <2> HIDE DEF Eq
  <2> QED BY <2>1
<1>4. F[0] = {base} /\ \A i \in 1 .. L : F[i] = {UndoMove(x, seq[i]) : x \in F[i - 1]}
  <2> HIDE DEF F
  <2>1. F[0] = {base}
    BY <1>3
  <2>2. ASSUME NEW i \in 1 .. L PROVE F[i] = {UndoMove(x, seq[i]) : x \in F[i - 1]}
    <3>1. i \in 0 .. L /\ i # 0
      OBVIOUS
    <3> QED BY <1>3, <3>1
  <2> QED BY <2>1, <2>2
<1>5. UndoAll(base, seq) = CHOOSE x \in F[L] : TRUE
  BY DEF UndoAll, FoldSteps
<1> HIDE DEF F
<1> DEFINE g == [i \in 0 .. L |-> CHOOSE x \in F[i] : TRUE]
           R == {i \in 0 .. L : F[i] = {g[i]}}
<1>6. 0 \in R
  BY <1>4
<1>7. ASSUME NEW i \in 1 .. L, i - 1 \in R PROVE i \in R
  <2>1. F[i] = {UndoMove(g[i - 1], seq[i])}
    BY <1>4, <1>7
  <2> QED BY <2>1
<1>8. \A i \in 0 .. L : F[i] = {g[i]}
  <2> HIDE DEF R, g
  <2>1. \A i \in 0 .. L : i \in R
    BY <1>6, <1>7, UpTo
  <2> QED BY <2>1 DEF R
<1>9. \A i \in 1 .. L : g[i] = UndoMove(g[i - 1], seq[i])
  <2>1. ASSUME NEW i \in 1 .. L PROVE g[i] = UndoMove(g[i - 1], seq[i])
    <3> HIDE DEF g
    <3>1. i \in 0 .. L /\ i - 1 \in 0 .. L
      OBVIOUS
    <3>2. {g[i]} = {UndoMove(x, seq[i]) : x \in {g[i - 1]}}
      BY <1>4, <1>8, <3>1
    <3> QED BY <3>2
  <2> QED BY <2>1
<1>10. g[0] = base /\ g[L] = CHOOSE x \in F[L] : TRUE
  BY <1>4
<1> HIDE DEF g
<1> QED BY <1>5, <1>9, <1>10

(* Applying moves.                                                         *)
LEMMA RedoFold ==
  ASSUME NEW base, NEW seq, Len(seq) \in Nat
  PROVE  \E g : /\ g[0] = base
                /\ \A i \in 1 .. Len(seq) : g[i] = Redo(g[i - 1], seq[i])
                /\ RedoAll(base, seq) = g[Len(seq)]
<1> DEFINE L == Len(seq)
           Eq(G, k) == G = [n \in 0 .. k |-> IF n = 0 THEN {base} ELSE {Redo(x, seq[n]) : x \in G[n - 1]}]
           S == {k \in 0 .. L : \E G : Eq(G, k)}
           F == CHOOSE G : Eq(G, L)
<1>1. 0 \in S
  <2>1. Eq([n \in 0 .. 0 |-> {base}], 0)
    OBVIOUS
  <2> HIDE DEF Eq
  <2> QED BY <2>1
<1>2. ASSUME NEW k \in 1 .. L, k - 1 \in S PROVE k \in S
  <2>1. PICK G : Eq(G, k - 1)
    BY <1>2
  <2> DEFINE H == [n \in 0 .. k |-> IF n = k THEN {Redo(x, seq[k]) : x \in G[k - 1]} ELSE G[n]]
  <2>2. ASSUME NEW n \in 0 .. k PROVE H[n] = IF n = 0 THEN {base} ELSE {Redo(x, seq[n]) : x \in H[n - 1]}
    <3>1. CASE n = k
      <4>1. n # 0 /\ H[n - 1] = G[n - 1]
        BY <3>1
      <4>2. H[n] = {Redo(x, seq[n]) : x \in G[n - 1]}
        BY <3>1
      <4> HIDE DEF H
      <4> QED BY <4>1, <4>2
    <3>2. CASE n # k
      <4>1. n \in 0 .. k - 1 /\ H[n] = G[n] /\ (n # 0 => n - 1 \in 0 .. k - 1 /\ H[n - 1] = G[n - 1])
        BY <3>2
      <4>2. G[n] = IF n = 0 THEN {base} ELSE {Redo(x, seq[n]) : x \in G[n - 1]}
        BY <2>1, <4>1
      <4> HIDE DEF H
      <4> QED BY <4>1, <4>2
    <3> QED BY <3>1, <3>2
  <2>3. Eq(H, k)
    BY <2>2
  <2> HIDE DEF Eq, H
  <2> QED BY <2>3
<1>3. Eq(F, L)
  <2>1. L \in S
    <3> HIDE DEF S
    <3>1. \A j \in 0 .. L : j \in S
      BY <1>1, <1>2, UpTo
    <3> QED BY <3>1
  <2> HIDE DEF Eq
  <2> QED BY <2>1
<1>4. F[0] = {base} /\ \A i \in 1 .. L : F[i] = {Redo(x, seq[i]) : x \in F[i - 1]}
  <2> HIDE DEF F
  <2>1. F[0] = {base}
    BY <1>3
  <2>2. ASSUME NEW i \in 1 .. L PROVE F[i] = {Redo(x, seq[i]) : x \in F[i - 1]}
    <3>1. i \in 0 .. L /\ i # 0
      OBVIOUS
    <3> QED BY <1>3, <3>1
  <2> QED BY <2>1, <2>2
<1>5. RedoAll(base, seq) = CHOOSE x \in F[L] : TRUE
  BY DEF RedoAll, FoldSteps
<1> HIDE DEF F
<1> DEFINE g == [i \in 0 .. L |-> CHOOSE x \in F[i] : TRUE]
           R == {i \in 0 .. L : F[i] = {g[i]}}
<1>6. 0 \in R
  BY <1>4
<1>7. ASSUME NEW i \in 1 .. L, i - 1 \in R PROVE i \in R
  <2>1. F[i] = {Redo(g[i - 1], seq[i])}
    BY <1>4, <1>7
  <2> QED BY <2>1
<1>8. \A i \in 0 .. L : F[i] = {g[i]}
  <2> HIDE DEF R, g
  <2>1. \A i \in 0 .. L : i \in R
    BY <1>6, <1>7, UpTo
  <2> QED BY <2>1 DEF R
<1>9. \A i \in 1 .. L : g[i] = Redo(g[i - 1], seq[i])
  <2>1. ASSUME NEW i \in 1 .. L PROVE g[i] = Redo(g[i - 1], seq[i])
    <3> HIDE DEF g
    <3>1. i \in 0 .. L /\ i - 1 \in 0 .. L
      OBVIOUS
    <3>2. {g[i]} = {Redo(x, seq[i]) : x \in {g[i - 1]}}
      BY <1>4, <1>8, <3>1
    <3> QED BY <3>2
  <2> QED BY <2>1
<1>10. g[0] = base /\ g[L] = CHOOSE x \in F[L] : TRUE
  BY <1>4
<1> HIDE DEF g
<1> QED BY <1>5, <1>9, <1>10

(* Draining the buffer.                                                    *)
LEMMA DrainFold ==
  ASSUME NEW base, NEW seq, Len(seq) \in Nat
  PROVE  \E g : /\ g[0] = base
                /\ \A i \in 1 .. Len(seq) : g[i] = DrainStep(g[i - 1])
                /\ DrainAll(base, seq) = g[Len(seq)]
<1> DEFINE L == Len(seq)
           Eq(G, k) == G = [n \in 0 .. k |-> IF n = 0 THEN {base} ELSE {DrainStep(x) : x \in G[n - 1]}]
           S == {k \in 0 .. L : \E G : Eq(G, k)}
           F == CHOOSE G : Eq(G, L)
<1>1. 0 \in S
  <2>1. Eq([n \in 0 .. 0 |-> {base}], 0)
    OBVIOUS
  <2> HIDE DEF Eq
  <2> QED BY <2>1
<1>2. ASSUME NEW k \in 1 .. L, k - 1 \in S PROVE k \in S
  <2>1. PICK G : Eq(G, k - 1)
    BY <1>2
  <2> DEFINE H == [n \in 0 .. k |-> IF n = k THEN {DrainStep(x) : x \in G[k - 1]} ELSE G[n]]
  <2>2. ASSUME NEW n \in 0 .. k PROVE H[n] = IF n = 0 THEN {base} ELSE {DrainStep(x) : x \in H[n - 1]}
    <3>1. CASE n = k
      <4>1. n # 0 /\ H[n - 1] = G[n - 1]
        BY <3>1
      <4>2. H[n] = {DrainStep(x) : x \in G[n - 1]}
        BY <3>1
      <4> HIDE DEF H
      <4> QED BY <4>1, <4>2
    <3>2. CASE n # k
      <4>1. n \in 0 .. k - 1 /\ H[n] = G[n] /\ (n # 0 => n - 1 \in 0 .. k - 1 /\ H[n - 1] = G[n - 1])
        BY <3>2
      <4>2. G[n] = IF n = 0 THEN {base} ELSE {DrainStep(x) : x \in G[n - 1]}
        BY <2>1, <4>1
      <4> HIDE DEF H
      <4> QED BY <4>1, <4>2
    <3> QED BY <3>1, <3>2
  <2>3. Eq(H, k)
    BY <2>2
  <2> HIDE DEF Eq, H
  <2> QED BY <2>3
<1>3. Eq(F, L)
  <2>1. L \in S
    <3> HIDE DEF S
    <3>1. \A j \in 0 .. L : j \in S
      BY <1>1, <1>2, UpTo
    <3> QED BY <3>1
  <2> HIDE DEF Eq
  <2> QED BY <2>1
<1>4. F[0] = {base} /\ \A i \in 1 .. L : F[i] = {DrainStep(x) : x \in F[i - 1]}
  <2> HIDE DEF F
  <2>1. F[0] = {base}
    BY <1>3
  <2>2. ASSUME NEW i \in 1 .. L PROVE F[i] = {DrainStep(x) : x \in F[i - 1]}
    <3>1. i \in 0 .. L /\ i # 0
      OBVIOUS
    <3> QED BY <1>3, <3>1
  <2> QED BY <2>1, <2>2
<1>5. DrainAll(base, seq) = CHOOSE x \in F[L] : TRUE
  BY DEF DrainAll, FoldSteps
<1> HIDE DEF F
<1> DEFINE g == [i \in 0 .. L |-> CHOOSE x \in F[i] : TRUE]
           R == {i \in 0 .. L : F[i] = {g[i]}}
<1>6. 0 \in R
  BY <1>4
<1>7. ASSUME NEW i \in 1 .. L, i - 1 \in R PROVE i \in R
  <2>1. F[i] = {DrainStep(g[i - 1])}
    BY <1>4, <1>7
  <2> QED BY <2>1
<1>8. \A i \in 0 .. L : F[i] = {g[i]}
  <2> HIDE DEF R, g
  <2>1. \A i \in 0 .. L : i \in R
    BY <1>6, <1>7, UpTo
  <2> QED BY <2>1 DEF R
<1>9. \A i \in 1 .. L : g[i] = DrainStep(g[i - 1])
  <2>1. ASSUME NEW i \in 1 .. L PROVE g[i] = DrainStep(g[i - 1])
    <3> HIDE DEF g
    <3>1. i \in 0 .. L /\ i - 1 \in 0 .. L
      OBVIOUS
    <3>2. {g[i]} = {DrainStep(x) : x \in {g[i - 1]}}
      BY <1>4, <1>8, <3>1
    <3> QED BY <3>2
  <2> QED BY <2>1
<1>10. g[0] = base /\ g[L] = CHOOSE x \in F[L] : TRUE
  BY <1>4
<1> HIDE DEF g
<1> QED BY <1>5, <1>9, <1>10

(* Rebuilding what was captured.                                           *)
LEMMA RebuildFold ==
  ASSUME NEW base, NEW seq, Len(seq) \in Nat
  PROVE  \E g : /\ g[0] = base
                /\ \A i \in 1 .. Len(seq) : g[i] = Rebuild(g[i - 1], seq[i])
                /\ RebuildAll(base, seq) = g[Len(seq)]
<1> DEFINE L == Len(seq)
           Eq(G, k) == G = [n \in 0 .. k |-> IF n = 0 THEN {base} ELSE {Rebuild(x, seq[n]) : x \in G[n - 1]}]
           S == {k \in 0 .. L : \E G : Eq(G, k)}
           F == CHOOSE G : Eq(G, L)
<1>1. 0 \in S
  <2>1. Eq([n \in 0 .. 0 |-> {base}], 0)
    OBVIOUS
  <2> HIDE DEF Eq
  <2> QED BY <2>1
<1>2. ASSUME NEW k \in 1 .. L, k - 1 \in S PROVE k \in S
  <2>1. PICK G : Eq(G, k - 1)
    BY <1>2
  <2> DEFINE H == [n \in 0 .. k |-> IF n = k THEN {Rebuild(x, seq[k]) : x \in G[k - 1]} ELSE G[n]]
  <2>2. ASSUME NEW n \in 0 .. k PROVE H[n] = IF n = 0 THEN {base} ELSE {Rebuild(x, seq[n]) : x \in H[n - 1]}
    <3>1. CASE n = k
      <4>1. n # 0 /\ H[n - 1] = G[n - 1]
        BY <3>1
      <4>2. H[n] = {Rebuild(x, seq[n]) : x \in G[n - 1]}
        BY <3>1
      <4> HIDE DEF H
      <4> QED BY <4>1, <4>2
    <3>2. CASE n # k
      <4>1. n \in 0 .. k - 1 /\ H[n] = G[n] /\ (n # 0 => n - 1 \in 0 .. k - 1 /\ H[n - 1] = G[n - 1])
        BY <3>2
      <4>2. G[n] = IF n = 0 THEN {base} ELSE {Rebuild(x, seq[n]) : x \in G[n - 1]}
        BY <2>1, <4>1
      <4> HIDE DEF H
      <4> QED BY <4>1, <4>2
    <3> QED BY <3>1, <3>2
  <2>3. Eq(H, k)
    BY <2>2
  <2> HIDE DEF Eq, H
  <2> QED BY <2>3
<1>3. Eq(F, L)
  <2>1. L \in S
    <3> HIDE DEF S
    <3>1. \A j \in 0 .. L : j \in S
      BY <1>1, <1>2, UpTo
    <3> QED BY <3>1
  <2> HIDE DEF Eq
  <2> QED BY <2>1
<1>4. F[0] = {base} /\ \A i \in 1 .. L : F[i] = {Rebuild(x, seq[i]) : x \in F[i - 1]}
  <2> HIDE DEF F
  <2>1. F[0] = {base}
    BY <1>3
  <2>2. ASSUME NEW i \in 1 .. L PROVE F[i] = {Rebuild(x, seq[i]) : x \in F[i - 1]}
    <3>1. i \in 0 .. L /\ i # 0
      OBVIOUS
    <3> QED BY <1>3, <3>1
  <2> QED BY <2>1, <2>2
<1>5. RebuildAll(base, seq) = CHOOSE x \in F[L] : TRUE
  BY DEF RebuildAll, FoldSteps
<1> HIDE DEF F
<1> DEFINE g == [i \in 0 .. L |-> CHOOSE x \in F[i] : TRUE]
           R == {i \in 0 .. L : F[i] = {g[i]}}
<1>6. 0 \in R
  BY <1>4
<1>7. ASSUME NEW i \in 1 .. L, i - 1 \in R PROVE i \in R
  <2>1. F[i] = {Rebuild(g[i - 1], seq[i])}
    BY <1>4, <1>7
  <2> QED BY <2>1
<1>8. \A i \in 0 .. L : F[i] = {g[i]}
  <2> HIDE DEF R, g
  <2>1. \A i \in 0 .. L : i \in R
    BY <1>6, <1>7, UpTo
  <2> QED BY <2>1 DEF R
<1>9. \A i \in 1 .. L : g[i] = Rebuild(g[i - 1], seq[i])
  <2>1. ASSUME NEW i \in 1 .. L PROVE g[i] = Rebuild(g[i - 1], seq[i])
    <3> HIDE DEF g
    <3>1. i \in 0 .. L /\ i - 1 \in 0 .. L
      OBVIOUS
    <3>2. {g[i]} = {Rebuild(x, seq[i]) : x \in {g[i - 1]}}
      BY <1>4, <1>8, <3>1
    <3> QED BY <3>2
  <2> QED BY <2>1
<1>10. g[0] = base /\ g[L] = CHOOSE x \in F[L] : TRUE
  BY <1>4
<1> HIDE DEF g
<1> QED BY <1>5, <1>9, <1>10

(* Playing the steps of an intention.                                      *)
LEMMA PlannedFold ==
  ASSUME NEW t, NEW steps, NEW base, NEW seq, Len(seq) \in Nat
  PROVE  \E g : /\ g[0] = base
                /\ \A i \in 1 .. Len(seq) : g[i] = Planned(t, steps, g[i - 1], seq[i])
                /\ PlayAll(t, steps, base, seq) = g[Len(seq)]
<1> DEFINE L == Len(seq)
           Eq(G, k) == G = [n \in 0 .. k |-> IF n = 0 THEN {base} ELSE {Planned(t, steps, x, seq[n]) : x \in G[n - 1]}]
           S == {k \in 0 .. L : \E G : Eq(G, k)}
           F == CHOOSE G : Eq(G, L)
<1>1. 0 \in S
  <2>1. Eq([n \in 0 .. 0 |-> {base}], 0)
    OBVIOUS
  <2> HIDE DEF Eq
  <2> QED BY <2>1
<1>2. ASSUME NEW k \in 1 .. L, k - 1 \in S PROVE k \in S
  <2>1. PICK G : Eq(G, k - 1)
    BY <1>2
  <2> DEFINE H == [n \in 0 .. k |-> IF n = k THEN {Planned(t, steps, x, seq[k]) : x \in G[k - 1]} ELSE G[n]]
  <2>2. ASSUME NEW n \in 0 .. k PROVE H[n] = IF n = 0 THEN {base} ELSE {Planned(t, steps, x, seq[n]) : x \in H[n - 1]}
    <3>1. CASE n = k
      <4>1. n # 0 /\ H[n - 1] = G[n - 1]
        BY <3>1
      <4>2. H[n] = {Planned(t, steps, x, seq[n]) : x \in G[n - 1]}
        BY <3>1
      <4> HIDE DEF H
      <4> QED BY <4>1, <4>2
    <3>2. CASE n # k
      <4>1. n \in 0 .. k - 1 /\ H[n] = G[n] /\ (n # 0 => n - 1 \in 0 .. k - 1 /\ H[n - 1] = G[n - 1])
        BY <3>2
      <4>2. G[n] = IF n = 0 THEN {base} ELSE {Planned(t, steps, x, seq[n]) : x \in G[n - 1]}
        BY <2>1, <4>1
      <4> HIDE DEF H
      <4> QED BY <4>1, <4>2
    <3> QED BY <3>1, <3>2
  <2>3. Eq(H, k)
    BY <2>2
  <2> HIDE DEF Eq, H
  <2> QED BY <2>3
<1>3. Eq(F, L)
  <2>1. L \in S
    <3> HIDE DEF S
    <3>1. \A j \in 0 .. L : j \in S
      BY <1>1, <1>2, UpTo
    <3> QED BY <3>1
  <2> HIDE DEF Eq
  <2> QED BY <2>1
<1>4. F[0] = {base} /\ \A i \in 1 .. L : F[i] = {Planned(t, steps, x, seq[i]) : x \in F[i - 1]}
  <2> HIDE DEF F
  <2>1. F[0] = {base}
    BY <1>3
  <2>2. ASSUME NEW i \in 1 .. L PROVE F[i] = {Planned(t, steps, x, seq[i]) : x \in F[i - 1]}
    <3>1. i \in 0 .. L /\ i # 0
      OBVIOUS
    <3> QED BY <1>3, <3>1
  <2> QED BY <2>1, <2>2
<1>5. PlayAll(t, steps, base, seq) = CHOOSE x \in F[L] : TRUE
  BY DEF PlayAll, FoldSteps
<1> HIDE DEF F
<1> DEFINE g == [i \in 0 .. L |-> CHOOSE x \in F[i] : TRUE]
           R == {i \in 0 .. L : F[i] = {g[i]}}
<1>6. 0 \in R
  BY <1>4
<1>7. ASSUME NEW i \in 1 .. L, i - 1 \in R PROVE i \in R
  <2>1. F[i] = {Planned(t, steps, g[i - 1], seq[i])}
    BY <1>4, <1>7
  <2> QED BY <2>1
<1>8. \A i \in 0 .. L : F[i] = {g[i]}
  <2> HIDE DEF R, g
  <2>1. \A i \in 0 .. L : i \in R
    BY <1>6, <1>7, UpTo
  <2> QED BY <2>1 DEF R
<1>9. \A i \in 1 .. L : g[i] = Planned(t, steps, g[i - 1], seq[i])
  <2>1. ASSUME NEW i \in 1 .. L PROVE g[i] = Planned(t, steps, g[i - 1], seq[i])
    <3> HIDE DEF g
    <3>1. i \in 0 .. L /\ i - 1 \in 0 .. L
      OBVIOUS
    <3>2. {g[i]} = {Planned(t, steps, x, seq[i]) : x \in {g[i - 1]}}
      BY <1>4, <1>8, <3>1
    <3> QED BY <3>2
  <2> QED BY <2>1
<1>10. g[0] = base /\ g[L] = CHOOSE x \in F[L] : TRUE
  BY <1>4
<1> HIDE DEF g
<1> QED BY <1>5, <1>9, <1>10

-----------------------------------------------------------------------------
(***************************************************************************)
(* The log.  h[i] is what the first i moves made of the parents: every one *)
(* of these trees hangs, undoing the i-th move gives the one before, and   *)
(* only an element's move can be inert.                                    *)
(***************************************************************************)
MoveOf(b) ==
    [stamp : Int \X Int, child : DOMAIN b, parent : {n \in DOMAIN b \union {Fragment} : IsOwner(n)},
     prev : SUBSET (DOMAIN b \union {Fragment})]

Taken(m, e, m2) ==
    /\ e.prev = IF e.child \in DOMAIN m THEN {m[e.child]} ELSE {}
    /\ m2 \in {m, Put(m, e.child, e.parent)}
    /\ ~IsOwner(e.child) => m2 = Put(m, e.child, e.parent)

Trace(b, log, h) ==
    /\ DOMAIN h[0] = {}
    /\ \A i \in 0 .. Len(log) : Hung(b, h[i])
    /\ \A i \in 1 .. Len(log) : Taken(h[i - 1], log[i], h[i])

Traced(b, log, moved) ==
    /\ log \in Seq(MoveOf(b))
    /\ \E h : Trace(b, log, h) /\ h[Len(log)] = moved

(* The log without what it undoes to, and its order.                       *)
Plain(e) == <<e.stamp, e.child, e.parent>>

Entries(log) == {Plain(log[i]) : i \in DOMAIN log}

Sorted(log) == \A i, j \in DOMAIN log : i < j => Later(log[j].stamp, log[i].stamp)

(* A log followed by a move, and by the first k moves of a sequence.       *)
Extends(log2, log, e) ==
    /\ Len(log2) = Len(log) + 1
    /\ \A i \in 1 .. Len(log) : log2[i] = log[i]
    /\ Plain(log2[Len(log) + 1]) = Plain(e)

Follows(log2, log, seq, k) ==
    /\ Len(log2) = Len(log) + k
    /\ \A i \in 1 .. Len(log) : Plain(log2[i]) = Plain(log[i])
    /\ \A i \in 1 .. k : Plain(log2[Len(log) + i]) = Plain(seq[i])

Fields ==
    {"nodes", "tags", "base", "moved", "log", "places", "index", "dead", "away", "parents", "pending",
     "seen", "buffer", "clock"}

IsTree(t) == t = [f \in Fields |-> t[f]]

(* A tree with another log and what it makes of the parents.               *)
With(t, log, moved) == [t EXCEPT !.log = log, !.moved = moved]

LEMMA WithFacts ==
  ASSUME NEW t, IsTree(t), NEW log, NEW moved
  PROVE  /\ With(t, log, moved).log = log /\ With(t, log, moved).moved = moved
         /\ With(t, log, moved).nodes = t.nodes /\ With(t, log, moved).base = t.base
         /\ IsTree(With(t, log, moved))
         /\ \A log2, moved2 : With(With(t, log, moved), log2, moved2) = With(t, log2, moved2)
         /\ With(t, t.log, t.moved) = t
<1>1. /\ With(t, log, moved).log = log /\ With(t, log, moved).moved = moved
      /\ With(t, log, moved).nodes = t.nodes /\ With(t, log, moved).base = t.base
  BY DEF With, IsTree, Fields
<1>2. \A log2, moved2 : With(With(t, log, moved), log2, moved2) = With(t, log2, moved2)
  BY DEF With, IsTree
<1>3. IsTree(With(t, log, moved))
  BY DEF IsTree, With
<1>4. With(t, t.log, t.moved) = t
  BY DEF IsTree, With
<1> QED BY <1>1, <1>2, <1>3, <1>4

LEMMA ExceptLog ==
  ASSUME NEW t, IsTree(t), NEW log
  PROVE  [t EXCEPT !.log = log] = With(t, log, t.moved)
BY DEF IsTree, With

LEMMA ExceptMoved ==
  ASSUME NEW t, IsTree(t), NEW moved
  PROVE  [t EXCEPT !.moved = moved] = With(t, t.log, moved)
BY DEF IsTree, With

LEMMA UndoTakesBack ==
  ASSUME NEW t, IsTree(t), NEW b, NEW log, NEW m, Moves(b, m), NEW m2, NEW e, Taken(m, e, m2)
  PROVE  UndoMove(With(t, log, m2), e) = With(t, log, m)
<1> DEFINE u == With(t, log, m2)
<1>1. IsTree(u) /\ u.log = log /\ u.moved = m2 /\ With(u, u.log, m) = With(t, log, m)
  <2>1. IsTree(u) /\ u.log = log /\ u.moved = m2
    BY WithFacts
  <2>2. With(u, log, m) = With(t, log, m)
    BY WithFacts
  <2> QED BY <2>1, <2>2
<1>2. [u EXCEPT !.moved = m] = With(u, u.log, m)
  <2> HIDE DEF u
  <2> QED BY <1>1, ExceptMoved
<1>3. (IF e.prev = {} THEN Restrict(m2, DOMAIN m2 \ {e.child})
       ELSE Put(m2, e.child, CHOOSE p \in e.prev : TRUE)) = m
  <2>1. CASE e.child \in DOMAIN m
    <3>1. e.prev = {m[e.child]} /\ (CHOOSE p \in e.prev : TRUE) = m[e.child]
      BY <2>1 DEF Taken
    <3>2. Put(m2, e.child, m[e.child]) = m
      BY <2>1 DEF Taken, Put, Moves
    <3> QED BY <3>1, <3>2
  <2>2. CASE e.child \notin DOMAIN m
    <3>1. e.prev = {}
      BY <2>2 DEF Taken
    <3>2. Restrict(m2, DOMAIN m2 \ {e.child}) = m
      BY <2>2 DEF Taken, Put, Moves, Restrict
    <3> QED BY <3>1, <3>2
  <2> QED BY <2>1, <2>2
<1> HIDE DEF u
<1>4. UndoMove(u, e) = [u EXCEPT !.moved = m]
  BY <1>1, <1>3 DEF UndoMove
<1> QED BY <1>1, <1>2, <1>4 DEF u

LEMMA PartitionIn ==
  ASSUME NEW S, NEW log \in Seq(S), NEW stamp
  PROVE  /\ PartitionPoint(log, stamp) \in 0 .. Len(log)
         /\ (\E i \in DOMAIN log : ~Later(stamp, log[i].stamp)) => PartitionPoint(log, stamp) < Len(log)
<1> DEFINE B == {i \in DOMAIN log : Later(stamp, log[i].stamp)}
<1>1. DOMAIN log = 1 .. Len(log) /\ Len(log) \in Nat
  OBVIOUS
<1> DEFINE I == 1 .. Len(log)
<1>2. IsFiniteSet(I) /\ Cardinality(I) = Len(log)
  BY <1>1, FS_Interval
<1>3. B \subseteq I
  BY <1>1
<1> HIDE DEF B, I
<1>4. /\ Cardinality(B) <= Len(log) /\ (Cardinality(B) = Len(log) => B = I)
      /\ IsFiniteSet(B)
  BY <1>2, <1>3, FS_Subset
<1>5. Cardinality(B) \in Nat
  BY <1>4, FS_CardinalityType
<1>6. (\E i \in DOMAIN log : ~Later(stamp, log[i].stamp)) => B # I
  BY <1>1 DEF B, I
<1> QED BY <1>1, <1>4, <1>5, <1>6 DEF PartitionPoint, B

(* Rewinding to a stamp gives what the moves before it had made.           *)
LEMMA RewoundIs ==
  ASSUME NEW t, IsTree(t), t.log \in Seq(MoveOf(t.base)),
         NEW h, Trace(t.base, t.log, h), h[Len(t.log)] = t.moved, NEW stamp
  PROVE  Rewound(t, stamp) = With(t, Earlier(t.log, stamp), h[PartitionPoint(t.log, stamp)])
<1> DEFINE log == t.log
           k == PartitionPoint(log, stamp)
           E == Earlier(log, stamp)
           R == Reverse(Since(log, stamp))
           base == [t EXCEPT !.log = E]
<1>1. Len(log) \in Nat /\ k \in 0 .. Len(log)
  BY PartitionIn
<1>2. /\ Len(R) \in Nat /\ Len(R) = Len(log) - k
      /\ \A i \in 1 .. Len(R) : R[i] = log[Len(log) - i + 1]
  <2>1. /\ Since(log, stamp) \in Seq(MoveOf(t.base))
        /\ Len(Since(log, stamp)) = Len(log) - k
        /\ \A i \in 1 .. Len(Since(log, stamp)) : Since(log, stamp)[i] = log[k + i]
    <3> HIDE DEF k, log
    <3>1. log \in Seq(MoveOf(t.base))
      BY DEF log
    <3> QED BY <1>1, <3>1 DEF Since, k
  <2> DEFINE s == Since(log, stamp)
  <2> HIDE DEF s, k, log
  <2>2. R = [i \in 1 .. Len(s) |-> s[(Len(s) - i) + 1]] /\ Len(s) \in Nat
    BY <1>1, <2>1 DEF s, Reverse
  <2>3. Len(R) = Len(s)
    BY <2>2
  <2>4. ASSUME NEW i \in 1 .. Len(R) PROVE R[i] = log[Len(log) - i + 1]
    <3>1. R[i] = s[(Len(s) - i) + 1] /\ (Len(s) - i) + 1 \in 1 .. Len(s)
      BY <2>2, <2>3
    <3>2. s[(Len(s) - i) + 1] = log[k + ((Len(s) - i) + 1)]
      BY <2>1, <3>1 DEF s
    <3>3. k + ((Len(s) - i) + 1) = Len(log) - i + 1
      BY <1>1, <2>1, <2>3 DEF s
    <3> QED BY <3>1, <3>2, <3>3
  <2> QED BY <1>1, <2>1, <2>3, <2>4 DEF s
<1> HIDE DEF R, E, k
<1>3. base = With(t, E, h[Len(log)])
  BY ExceptLog
<1> HIDE DEF base
<1>4. PICK g : /\ g[0] = base
               /\ \A i \in 1 .. Len(R) : g[i] = UndoMove(g[i - 1], R[i])
               /\ UndoAll(base, R) = g[Len(R)]
  <2>1. Len(R) \in Nat
    BY <1>2
  <2> QED BY <2>1, UndoFold
<1> DEFINE S == {i \in 0 .. Len(R) : g[i] = With(t, E, h[Len(log) - i])}
<1>5. 0 \in S
  BY <1>1, <1>2, <1>3, <1>4
<1>6. ASSUME NEW i \in 1 .. Len(R), i - 1 \in S PROVE i \in S
  <2> DEFINE j == Len(log) - i + 1
  <2>1. j \in 1 .. Len(log) /\ j - 1 \in 0 .. Len(log) /\ Len(log) - (i - 1) = j /\ Len(log) - i = j - 1
    BY <1>1, <1>2
  <2>2. g[i - 1] = With(t, E, h[j]) /\ R[i] = log[j]
    BY <1>2, <1>6, <2>1
  <2> HIDE DEF j
  <2>3. Taken(h[j - 1], log[j], h[j]) /\ Moves(t.base, h[j - 1])
    BY <2>1 DEF Trace, Hung
  <2>4. g[i] = With(t, E, h[j - 1])
    BY <1>4, <2>2, <2>3, UndoTakesBack
  <2> QED BY <2>1, <2>4
<1>7. Len(R) \in S
  <2> HIDE DEF S
  <2>1. \A i \in 0 .. Len(R) : i \in S
    BY <1>2, <1>5, <1>6, UpTo
  <2> QED BY <1>2, <2>1
<1>8. g[Len(R)] = With(t, E, h[k])
  BY <1>1, <1>2, <1>7
<1> QED BY <1>4, <1>8 DEF Rewound, R, E, k, base

LEMMA RedoExtends ==
  ASSUME NEW t, IsTree(t), Births(t.nodes, t.base), NEW log, NEW moved, Traced(t.base, log, moved),
         NEW e \in MoveOf(t.base)
  PROVE  \E log2, moved2 : /\ Redo(With(t, log, moved), e) = With(t, log2, moved2)
                            /\ Traced(t.base, log2, moved2) /\ Extends(log2, log, e)
<1> DEFINE b == t.base
           u == With(t, log, moved)
           L == Len(log)
           prev == IF e.child \in DOMAIN moved THEN {moved[e.child]} ELSE {}
           e2 == [e EXCEPT !.prev = prev]
           log2 == Append(log, e2)
           moved2 == IF e.child \in {e.parent} \union AncestorsOf(u, e.parent) THEN moved
                     ELSE Put(moved, e.child, e.parent)
<1>1. PICK h : Trace(b, log, h) /\ h[L] = moved
  BY DEF Traced
<1>2. log \in Seq(MoveOf(b)) /\ L \in Nat /\ e.child \in DOMAIN b /\ e.parent \in DOMAIN b \union {Fragment}
      /\ IsOwner(e.parent)
  BY DEF Traced, MoveOf
<1>3. Hung(b, moved) /\ Moves(b, moved)
  BY <1>1, <1>2 DEF Trace, Hung
<1>4. prev \in SUBSET (DOMAIN b \union {Fragment})
  BY <1>3 DEF Moves
<1>5. /\ e2 \in MoveOf(b) /\ e2.child = e.child /\ e2.parent = e.parent /\ e2.prev = prev
      /\ e2.stamp = e.stamp
  <2> HIDE DEF prev
  <2> QED BY <1>4 DEF MoveOf
<1>6. IsTree(u) /\ u.log = log /\ u.moved = moved /\ u.nodes = t.nodes /\ u.base = b
  BY WithFacts
<1>7. Hung(b, moved2)
  <2>1. CASE e.child \in {e.parent} \union AncestorsOf(u, e.parent)
    BY <1>3, <2>1
  <2>2. CASE e.child \notin {e.parent} \union AncestorsOf(u, e.parent)
    <3>1. Births(u.nodes, u.base) /\ Hung(u.base, u.moved)
      BY <1>3, <1>6
    <3>2. e.child \in DOMAIN u.base /\ e.parent \in DOMAIN u.base \union {Fragment} /\ IsOwner(e.parent)
      BY <1>2, <1>6
    <3> HIDE DEF u
    <3>3. Hung(u.base, Put(u.moved, e.child, e.parent))
      BY <2>2, <3>1, <3>2, MoveHangs
    <3> QED BY <1>6, <2>2, <3>3
  <2> QED BY <2>1, <2>2
<1>8. Redo(u, e) = With(t, log2, moved2)
  <2>1. [u EXCEPT !.log = log2, !.moved = moved2] = With(u, log2, moved2)
    BY DEF With
  <2>2. With(u, log2, moved2) = With(t, log2, moved2)
    <3> HIDE DEF log2, moved2
    <3> QED BY WithFacts
  <2>3. Redo(u, e) = [u EXCEPT !.log = log2, !.moved = moved2]
    <3> HIDE DEF u
    <3> QED BY <1>6 DEF Redo
  <2> QED BY <2>1, <2>2, <2>3
<1>9. Taken(moved, e2, moved2)
  <2>1. \A x \in {e.parent} \union AncestorsOf(u, e.parent) : IsOwner(x)
    <3>1. Births(u.nodes, u.base) /\ Moves(u.base, u.moved)
      BY <1>3, <1>6
    <3> HIDE DEF u
    <3> QED BY <1>2, <3>1, OwnersAbove
  <2> HIDE DEF e2, u
  <2> QED BY <1>5, <2>1 DEF Taken
<1> HIDE DEF prev, e2, u, moved2
<1>10. /\ Traced(b, log2, moved2) /\ Len(log2) = L + 1 /\ log2[L + 1] = e2
       /\ \A i \in 1 .. L : log2[i] = log[i]
  <2> DEFINE h2 == [i \in 0 .. L + 1 |-> IF i = L + 1 THEN moved2 ELSE h[i]]
  <2>1. /\ log2 \in Seq(MoveOf(b)) /\ Len(log2) = L + 1 /\ log2[L + 1] = e2
        /\ \A i \in 1 .. L : log2[i] = log[i]
    BY <1>2, <1>5
  <2>2. h2[L + 1] = moved2 /\ \A i \in 0 .. L : h2[i] = h[i]
    BY <1>2
  <2> HIDE DEF h2, log2
  <2>3. ASSUME NEW i \in 0 .. L + 1 PROVE Hung(b, h2[i])
    <3>1. i = L + 1 \/ i \in 0 .. L
      BY <1>2
    <3> QED BY <1>1, <1>7, <2>2, <3>1 DEF Trace
  <2>4. ASSUME NEW i \in 1 .. L + 1 PROVE Taken(h2[i - 1], log2[i], h2[i])
    <3>1. CASE i = L + 1
      <4>1. i - 1 = L /\ L \in 0 .. L
        BY <1>2, <3>1
      <4>2. h2[i - 1] = moved
        BY <1>1, <2>2, <4>1
      <4> QED BY <1>9, <2>1, <2>2, <3>1, <4>2
    <3>2. CASE i # L + 1
      <4>1. i \in 1 .. L /\ i \in 0 .. L /\ i - 1 \in 0 .. L
        BY <1>2, <3>2
      <4>2. Taken(h[i - 1], log[i], h[i])
        BY <1>1, <4>1 DEF Trace
      <4> QED BY <2>1, <2>2, <4>1, <4>2
    <3> QED BY <3>1, <3>2
  <2>5. Trace(b, log2, h2)
    <3>1. DOMAIN h2[0] = {}
      BY <1>1, <1>2, <2>2 DEF Trace
    <3> QED BY <2>1, <2>3, <2>4, <3>1 DEF Trace
  <2> QED BY <2>1, <2>2, <2>5 DEF Traced
<1> HIDE DEF log2
<1>11. Plain(e2) = Plain(e)
  BY <1>5 DEF Plain
<1>12. Extends(log2, log, e)
  BY <1>10, <1>11 DEF Extends
<1> QED BY <1>8, <1>10, <1>12 DEF u

LEMMA RedoAllExtends ==
  ASSUME NEW t, IsTree(t), Births(t.nodes, t.base), NEW log, NEW moved, Traced(t.base, log, moved),
         NEW seq \in Seq(MoveOf(t.base))
  PROVE  \E log2, moved2 : /\ RedoAll(With(t, log, moved), seq) = With(t, log2, moved2)
                            /\ Traced(t.base, log2, moved2) /\ Follows(log2, log, seq, Len(seq))
<1> DEFINE base == With(t, log, moved)
           Good(x, k) == \E log2, moved2 : /\ x = With(t, log2, moved2) /\ Traced(t.base, log2, moved2)
                                           /\ Follows(log2, log, seq, k)
<1>1. Len(seq) \in Nat /\ \A i \in 1 .. Len(seq) : seq[i] \in MoveOf(t.base)
  OBVIOUS
<1>2. Good(base, 0)
  <2>1. Len(log) \in Nat
    BY DEF Traced
  <2>2. Follows(log, log, seq, 0)
    BY <2>1 DEF Follows
  <2> QED BY <2>2
<1> HIDE DEF base
<1>3. PICK g : /\ g[0] = base
               /\ \A i \in 1 .. Len(seq) : g[i] = Redo(g[i - 1], seq[i])
               /\ RedoAll(base, seq) = g[Len(seq)]
  BY <1>1, RedoFold
<1> DEFINE S == {i \in 0 .. Len(seq) : Good(g[i], i)}
<1>4. 0 \in S
  BY <1>1, <1>2, <1>3
<1>5. ASSUME NEW i \in 1 .. Len(seq), i - 1 \in S PROVE i \in S
  <2>1. PICK log1, moved1 : /\ g[i - 1] = With(t, log1, moved1) /\ Traced(t.base, log1, moved1)
                            /\ Follows(log1, log, seq, i - 1)
    BY <1>5
  <2>2. PICK log2, moved2 : /\ Redo(With(t, log1, moved1), seq[i]) = With(t, log2, moved2)
                            /\ Traced(t.base, log2, moved2) /\ Extends(log2, log1, seq[i])
    <3>1. seq[i] \in MoveOf(t.base) /\ Traced(t.base, log1, moved1)
      BY <1>1, <2>1
    <3> QED BY <3>1, RedoExtends
  <2>3. Follows(log2, log, seq, i)
    <3>1. Len(log) \in Nat /\ Len(log1) = Len(log) + (i - 1)
      BY <2>1 DEF Follows, Traced
    <3>2. ASSUME NEW j \in 1 .. Len(log) PROVE Plain(log2[j]) = Plain(log[j])
      <4>1. j \in 1 .. Len(log1)
        BY <3>1
      <4> QED BY <2>1, <2>2, <4>1 DEF Follows, Extends
    <3>3. ASSUME NEW j \in 1 .. i PROVE Plain(log2[Len(log) + j]) = Plain(seq[j])
      <4>1. CASE j = i
        BY <2>2, <3>1, <4>1 DEF Extends
      <4>2. CASE j # i
        <5>1. j \in 1 .. i - 1 /\ Len(log) + j \in 1 .. Len(log1)
          BY <3>1, <4>2
        <5> QED BY <2>1, <2>2, <5>1 DEF Follows, Extends
      <4> QED BY <4>1, <4>2
    <3>4. Len(log2) = Len(log) + i
      BY <2>2, <3>1 DEF Extends
    <3> QED BY <3>2, <3>3, <3>4 DEF Follows
  <2>4. Good(g[i], i)
    BY <1>3, <2>1, <2>2, <2>3
  <2> HIDE DEF Good
  <2> QED BY <2>4
<1>6. Len(seq) \in S
  <2> HIDE DEF S
  <2>1. \A i \in 0 .. Len(seq) : i \in S
    BY <1>1, <1>4, <1>5, UpTo
  <2> QED BY <1>1, <2>1
<1> QED BY <1>3, <1>6 DEF base

(* Where a stamp has its place: after the moves that come before it.       *)
LEMMA PartitionIs ==
  ASSUME NEW S, NEW log \in Seq(S), \A e \in S : e.stamp \in Int \X Int, Sorted(log),
         NEW stamp \in Int \X Int
  PROVE  \A i \in 1 .. Len(log) : i <= PartitionPoint(log, stamp) <=> Later(stamp, log[i].stamp)
<1> DEFINE L == Len(log)
           B == {i \in DOMAIN log : Later(stamp, log[i].stamp)}
           T == {i \in Nat : i > 0 /\ i \notin B}
<1>1. L \in Nat /\ DOMAIN log = 1 .. L /\ \A i \in 1 .. L : log[i].stamp \in Int \X Int
  OBVIOUS
<1>2. ASSUME NEW j \in B, NEW i \in 1 .. L, i < j PROVE i \in B
  <2>1. Later(log[j].stamp, log[i].stamp) /\ Later(stamp, log[j].stamp)
    BY <1>1, <1>2 DEF Sorted
  <2>2. log[j].stamp \in Int \X Int /\ log[i].stamp \in Int \X Int
    BY <1>1
  <2>3. Later(stamp, log[i].stamp)
    <3> DEFINE x == log[j].stamp
               y == log[i].stamp
    <3> HIDE DEF x, y
    <3>1. x \in Int \X Int /\ y \in Int \X Int /\ Later(x, y) /\ Later(stamp, x)
      BY <2>1, <2>2 DEF x, y
    <3>2. Later(stamp, y)
      BY <3>1 DEF Later
    <3> QED BY <3>2 DEF y
  <2> QED BY <1>1, <2>3
<1>3. L + 1 \in T /\ T \subseteq Nat /\ B \subseteq 1 .. L
  BY <1>1
<1> HIDE DEF B
<1>4. PICK i \in T : \A y \in T : ~(<<y, i>> \in OpToRel(<, Nat))
  <2> HIDE DEF T
  <2> QED BY <1>3, NatLessThanWellFounded, WFMin
<1>5. i \in Nat /\ i > 0 /\ i \notin B /\ \A y \in Nat : y < i => y \notin T
  BY <1>4 DEF OpToRel
<1>6. B = 1 .. i - 1
  <2>1. ASSUME NEW j \in 1 .. i - 1 PROVE j \in B
    <3>1. j \in Nat /\ j < i /\ j > 0
      BY <1>5
    <3> QED BY <1>5, <3>1
  <2>2. ASSUME NEW j \in B PROVE j \in 1 .. i - 1
    <3>1. j \in 1 .. L
      BY <1>3
    <3> SUFFICES ASSUME ~(j < i) PROVE FALSE
      BY <1>5, <3>1
    <3>2. i \in 1 .. L /\ (i = j \/ i < j)
      BY <1>5, <3>1
    <3> QED BY <1>2, <1>5, <3>2
  <2> QED BY <2>1, <2>2
<1>7. Cardinality(B) = i - 1
  <2>1. i \in Nat /\ i >= 1 /\ i - 1 \in Int /\ 1 \in Int
    BY <1>5
  <2>2. Cardinality(1 .. i - 1) = IF 1 > i - 1 THEN 0 ELSE (i - 1) - 1 + 1
    BY <2>1, FS_Interval
  <2> HIDE DEF T
  <2> QED BY <1>6, <2>1, <2>2
<1>8. PartitionPoint(log, stamp) = i - 1
  BY <1>7 DEF PartitionPoint, B
<1> HIDE DEF T
<1>9. \A j \in 1 .. L : j \in B <=> Later(stamp, log[j].stamp)
  BY <1>1 DEF B
<1>10. i \in Nat
  BY <1>3, <1>5
<1> QED BY <1>6, <1>8, <1>9, <1>10

LEMMA RewoundTraced ==
  ASSUME NEW t, IsTree(t), Traced(t.base, t.log, t.moved), NEW stamp
  PROVE  LET k == PartitionPoint(t.log, stamp)
             E == Earlier(t.log, stamp)
             S == Since(t.log, stamp)
         IN /\ k \in 0 .. Len(t.log)
            /\ \E moved2 : Rewound(t, stamp) = With(t, E, moved2) /\ Traced(t.base, E, moved2)
            /\ Len(E) = k /\ \A i \in 1 .. k : E[i] = t.log[i]
            /\ S \in Seq(MoveOf(t.base)) /\ Len(S) = Len(t.log) - k
            /\ \A i \in 1 .. Len(t.log) - k : S[i] = t.log[k + i]
<1> DEFINE log == t.log
           k == PartitionPoint(log, stamp)
           E == Earlier(log, stamp)
<1>1. PICK h : Trace(t.base, log, h) /\ h[Len(log)] = t.moved
  BY DEF Traced
<1>2. log \in Seq(MoveOf(t.base)) /\ Len(log) \in Nat /\ k \in 0 .. Len(log)
  BY PartitionIn DEF Traced
<1>4. Rewound(t, stamp) = With(t, E, h[k])
  BY <1>1, <1>2, RewoundIs
<1> HIDE DEF k
<1>5. E \in Seq(MoveOf(t.base)) /\ Len(E) = k /\ \A i \in 1 .. k : E[i] = log[i]
  <2> HIDE DEF log
  <2> QED BY <1>2 DEF Earlier, k
<1>6. Trace(t.base, E, h)
  <2> HIDE DEF E
  <2> QED BY <1>1, <1>2, <1>5 DEF Trace
<1>7. Traced(t.base, E, h[k])
  BY <1>5, <1>6 DEF Traced
<1>8. /\ Since(log, stamp) \in Seq(MoveOf(t.base)) /\ Len(Since(log, stamp)) = Len(log) - k
      /\ \A i \in 1 .. Len(log) - k : Since(log, stamp)[i] = log[k + i]
  <2> HIDE DEF log
  <2> QED BY <1>2 DEF Since, k
<1> QED BY <1>2, <1>4, <1>5, <1>7, <1>8 DEF k

(* A log with an entry put in, or taken out, behind the first k.           *)
PutIn(log2, log, k, x) ==
    /\ Len(log2) = Len(log) + 1
    /\ \A i \in 1 .. k : Plain(log2[i]) = Plain(log[i])
    /\ Plain(log2[k + 1]) = x
    /\ \A i \in k + 1 .. Len(log) : Plain(log2[i + 1]) = Plain(log[i])

TakenOut(log2, log, k) ==
    /\ Len(log2) = Len(log) - 1
    /\ \A i \in 1 .. k : Plain(log2[i]) = Plain(log[i])
    /\ \A i \in k + 2 .. Len(log) : Plain(log2[i - 1]) = Plain(log[i])

LEMMA PutInIs ==
  ASSUME NEW S, NEW log \in Seq(S), \A e \in S : e.stamp \in Int \X Int, Sorted(log),
         NEW T, NEW log2 \in Seq(T), NEW stamp \in Int \X Int, NEW child, NEW parent,
         ~\E i \in DOMAIN log : log[i].stamp = stamp,
         PutIn(log2, log, PartitionPoint(log, stamp), <<stamp, child, parent>>)
  PROVE  Sorted(log2) /\ Entries(log2) = Entries(log) \union {<<stamp, child, parent>>}
<1> DEFINE k == PartitionPoint(log, stamp)
           L == Len(log)
<1>1. /\ L \in Nat /\ DOMAIN log = 1 .. L /\ DOMAIN log2 = 1 .. L + 1 /\ k \in 0 .. L
      /\ \A i \in 1 .. L : log[i].stamp \in Int \X Int
  BY PartitionIn DEF PutIn
<1>2. \A i \in 1 .. L : i <= k <=> Later(stamp, log[i].stamp)
  BY PartitionIs
<1> HIDE DEF k
<1>3. /\ \A i \in 1 .. k : Plain(log2[i]) = Plain(log[i])
      /\ Plain(log2[k + 1]) = <<stamp, child, parent>>
      /\ \A i \in k + 2 .. L + 1 : Plain(log2[i]) = Plain(log[i - 1])
  <2>1. \A i \in k + 1 .. L : Plain(log2[i + 1]) = Plain(log[i])
    BY DEF PutIn, k
  <2>2. ASSUME NEW i \in k + 2 .. L + 1 PROVE Plain(log2[i]) = Plain(log[i - 1])
    <3>1. i - 1 \in k + 1 .. L /\ (i - 1) + 1 = i
      BY <1>1
    <3> QED BY <2>1, <3>1
  <2> QED BY <2>2 DEF PutIn, k
<1>4. /\ \A i \in 1 .. k : log2[i].stamp = log[i].stamp
      /\ log2[k + 1].stamp = stamp
      /\ \A i \in k + 2 .. L + 1 : log2[i].stamp = log[i - 1].stamp
  BY <1>3 DEF Plain
<1>5. Sorted(log2)
  <2> SUFFICES ASSUME NEW i \in 1 .. L + 1, NEW j \in 1 .. L + 1, i < j
               PROVE  Later(log2[j].stamp, log2[i].stamp)
    BY <1>1 DEF Sorted
  <2>1. CASE j <= k
    <3>1. i \in 1 .. k /\ j \in 1 .. k /\ i \in 1 .. L /\ j \in 1 .. L
      BY <1>1, <2>1
    <3> QED BY <1>1, <1>4, <3>1 DEF Sorted
  <2>2. CASE j = k + 1
    <3>1. i \in 1 .. k /\ i \in 1 .. L /\ i <= k
      BY <1>1, <2>2
    <3> QED BY <1>2, <1>4, <2>2, <3>1
  <2>3. CASE j > k + 1
    <3>1. j \in k + 2 .. L + 1 /\ j - 1 \in 1 .. L /\ ~(j - 1 <= k)
      BY <1>1, <2>3
    <3>2. log2[j].stamp = log[j - 1].stamp
      BY <1>4, <3>1
    <3>3. CASE i <= k
      <4>1. i \in 1 .. k /\ i \in 1 .. L /\ i < j - 1
        BY <1>1, <2>3, <3>3
      <4>2. log2[i].stamp = log[i].stamp
        BY <1>4, <4>1
      <4>3. Later(log[j - 1].stamp, log[i].stamp)
        BY <1>1, <3>1, <4>1 DEF Sorted
      <4> QED BY <3>2, <4>2, <4>3
    <3>4. CASE i = k + 1
      <4>1. ~Later(stamp, log[j - 1].stamp) /\ log[j - 1].stamp # stamp
        BY <1>1, <1>2, <3>1
      <4>2. log[j - 1].stamp \in Int \X Int
        BY <1>1, <3>1
      <4>3. \A x \in Int \X Int : ~Later(stamp, x) /\ x # stamp => Later(x, stamp)
        BY DEF Later
      <4> QED BY <1>4, <3>2, <3>4, <4>1, <4>2, <4>3
    <3>5. CASE i > k + 1
      <4>1. i \in k + 2 .. L + 1 /\ i - 1 \in 1 .. L /\ i - 1 < j - 1
        BY <1>1, <2>3, <3>5
      <4>2. log2[i].stamp = log[i - 1].stamp
        BY <1>4, <4>1
      <4>3. Later(log[j - 1].stamp, log[i - 1].stamp)
        BY <1>1, <3>1, <4>1 DEF Sorted
      <4> QED BY <3>2, <4>2, <4>3
    <3> QED BY <1>1, <3>3, <3>4, <3>5
  <2> QED BY <1>1, <2>1, <2>2, <2>3
<1>6. ASSUME NEW x \in Entries(log2) PROVE x \in Entries(log) \union {<<stamp, child, parent>>}
  <2>1. PICK i \in 1 .. L + 1 : x = Plain(log2[i])
    BY <1>1 DEF Entries
  <2>2. CASE i <= k
    <3>1. i \in 1 .. k /\ i \in 1 .. L
      BY <1>1, <2>2
    <3> QED BY <1>1, <1>3, <2>1, <3>1 DEF Entries
  <2>3. CASE i = k + 1
    BY <1>3, <2>1, <2>3
  <2>4. CASE i > k + 1
    <3>1. i \in k + 2 .. L + 1 /\ i - 1 \in 1 .. L
      BY <1>1, <2>4
    <3> QED BY <1>1, <1>3, <2>1, <3>1 DEF Entries
  <2> QED BY <1>1, <2>2, <2>3, <2>4
<1>7. ASSUME NEW x \in Entries(log) PROVE x \in Entries(log2)
  <2>1. PICK i \in 1 .. L : x = Plain(log[i])
    BY <1>1 DEF Entries
  <2>2. CASE i <= k
    <3>1. i \in 1 .. k /\ i \in 1 .. L + 1
      BY <1>1, <2>2
    <3> QED BY <1>1, <1>3, <2>1, <3>1 DEF Entries
  <2>3. CASE i > k
    <3>1. i + 1 \in k + 2 .. L + 1 /\ (i + 1) - 1 = i /\ i + 1 \in 1 .. L + 1
      BY <1>1, <2>3
    <3>2. Plain(log2[i + 1]) = x
      BY <1>3, <2>1, <3>1
    <3> QED BY <1>1, <3>1, <3>2 DEF Entries
  <2> QED BY <1>1, <2>2, <2>3
<1>8. <<stamp, child, parent>> \in Entries(log2)
  <2>1. k + 1 \in 1 .. L + 1
    BY <1>1
  <2> QED BY <1>1, <1>3, <2>1 DEF Entries
<1> QED BY <1>5, <1>6, <1>7, <1>8

LEMMA TakenOutIs ==
  ASSUME NEW S, NEW log \in Seq(S), \A e \in S : e.stamp \in Int \X Int, Sorted(log),
         NEW T, NEW log2 \in Seq(T), NEW i \in DOMAIN log,
         TakenOut(log2, log, PartitionPoint(log, log[i].stamp))
  PROVE  Sorted(log2) /\ Entries(log2) = Entries(log) \ {Plain(log[i])}
<1> DEFINE stamp == log[i].stamp
           k == PartitionPoint(log, stamp)
           L == Len(log)
<1>1. /\ L \in Nat /\ DOMAIN log = 1 .. L /\ k \in 0 .. L /\ i \in 1 .. L
      /\ \A j \in 1 .. L : log[j].stamp \in Int \X Int
  BY PartitionIn
<1>2. stamp \in Int \X Int
  BY <1>1
<1> HIDE DEF stamp
<1>3. \A j \in 1 .. L : j <= k <=> Later(stamp, log[j].stamp)
  BY <1>2, PartitionIs
<1> HIDE DEF k
<1>4. i = k + 1
  <2>1. ~(i <= k)
    <3>1. ~Later(stamp, stamp)
      BY <1>2 DEF Later
    <3> QED BY <1>1, <1>3, <3>1 DEF stamp
  <2>2. CASE k + 1 < i
    <3>1. k + 1 \in 1 .. L /\ ~(k + 1 <= k)
      BY <1>1, <2>2
    <3>2. ~Later(stamp, log[k + 1].stamp)
      BY <1>3, <3>1
    <3>3. Later(log[i].stamp, log[k + 1].stamp)
      BY <1>1, <2>2, <3>1 DEF Sorted
    <3> QED BY <3>2, <3>3 DEF stamp
  <2> QED BY <1>1, <2>1, <2>2
<1>5. /\ DOMAIN log2 = 1 .. L - 1
      /\ \A j \in 1 .. k : Plain(log2[j]) = Plain(log[j])
      /\ \A j \in k + 1 .. L - 1 : Plain(log2[j]) = Plain(log[j + 1])
  <2>1. \A j \in k + 2 .. L : Plain(log2[j - 1]) = Plain(log[j])
    BY DEF TakenOut, k, stamp
  <2>2. ASSUME NEW j \in k + 1 .. L - 1 PROVE Plain(log2[j]) = Plain(log[j + 1])
    <3>1. j + 1 \in k + 2 .. L /\ (j + 1) - 1 = j
      BY <1>1
    <3> QED BY <2>1, <3>1
  <2>3. DOMAIN log2 = 1 .. L - 1
    BY <1>1 DEF TakenOut
  <2> QED BY <2>2, <2>3 DEF TakenOut, k, stamp
<1> DEFINE At(j) == IF j <= k THEN j ELSE j + 1
<1>6. \A j \in 1 .. L - 1 : /\ At(j) \in 1 .. L /\ At(j) # i /\ Plain(log2[j]) = Plain(log[At(j)])
                            /\ log2[j].stamp = log[At(j)].stamp
  <2> SUFFICES ASSUME NEW j \in 1 .. L - 1
               PROVE  At(j) \in 1 .. L /\ At(j) # i /\ Plain(log2[j]) = Plain(log[At(j)])
    BY DEF Plain
  <2>1. CASE j <= k
    <3>1. j \in 1 .. k
      BY <2>1
    <3> QED BY <1>1, <1>4, <1>5, <2>1, <3>1
  <2>2. CASE ~(j <= k)
    <3>1. j \in k + 1 .. L - 1
      BY <1>1, <2>2
    <3> QED BY <1>1, <1>4, <1>5, <2>2, <3>1
  <2> QED BY <2>1, <2>2
<1>7. \A j, l \in 1 .. L - 1 : j < l => At(j) < At(l)
  BY <1>1
<1>8. \A j \in 1 .. L : j # i => \E l \in 1 .. L - 1 : At(l) = j
  <2> SUFFICES ASSUME NEW j \in 1 .. L, j # i PROVE \E l \in 1 .. L - 1 : At(l) = j
    OBVIOUS
  <2>1. CASE j <= k
    <3>1. j \in 1 .. L - 1 /\ At(j) = j
      BY <1>1, <1>4, <2>1
    <3> QED BY <3>1
  <2>2. CASE ~(j <= k)
    <3>1. j - 1 \in 1 .. L - 1 /\ ~(j - 1 <= k) /\ (j - 1) + 1 = j
      BY <1>1, <1>4, <2>2
    <3>2. At(j - 1) = j
      BY <3>1
    <3> HIDE DEF At
    <3> QED BY <3>1, <3>2
  <2> QED BY <2>1, <2>2
<1> HIDE DEF At
<1>9. Sorted(log2)
  BY <1>1, <1>5, <1>6, <1>7 DEF Sorted
<1>10. \A j \in 1 .. L : j # i => Plain(log[j]) # Plain(log[i])
  <2> SUFFICES ASSUME NEW j \in 1 .. L, j # i PROVE log[j].stamp # log[i].stamp
    BY DEF Plain
  <2>1. Later(log[j].stamp, log[i].stamp) \/ Later(log[i].stamp, log[j].stamp)
    <3>1. i \in DOMAIN log /\ j \in DOMAIN log /\ (i < j \/ j < i)
      BY <1>1
    <3> QED BY <3>1 DEF Sorted
  <2>2. \A x \in Int \X Int : ~Later(x, x)
    BY DEF Later
  <2> QED BY <1>1, <2>1, <2>2
<1>11. ASSUME NEW x \in Entries(log2) PROVE x \in Entries(log) \ {Plain(log[i])}
  <2>1. PICK j \in 1 .. L - 1 : x = Plain(log2[j])
    BY <1>5 DEF Entries
  <2>2. At(j) \in 1 .. L /\ At(j) # i /\ x = Plain(log[At(j)])
    BY <1>6, <2>1
  <2> QED BY <1>1, <1>10, <2>2 DEF Entries
<1>12. ASSUME NEW x \in Entries(log) \ {Plain(log[i])} PROVE x \in Entries(log2)
  <2>1. PICK j \in 1 .. L : x = Plain(log[j])
    BY <1>1 DEF Entries
  <2>2. PICK l \in 1 .. L - 1 : At(l) = j
    BY <1>8, <1>12, <2>1
  <2> QED BY <1>5, <1>6, <2>1, <2>2 DEF Entries
<1> QED BY <1>9, <1>11, <1>12

LEMMA LogMoveTraced ==
  ASSUME NEW t, IsTree(t), Births(t.nodes, t.base), Traced(t.base, t.log, t.moved), Sorted(t.log),
         NEW stamp \in Int \X Int, NEW child \in DOMAIN t.base,
         NEW parent \in DOMAIN t.base \union {Fragment}, IsOwner(parent)
  PROVE  \E log2, moved2 :
            /\ LogMove(t, stamp, child, parent) = With(t, log2, moved2)
            /\ Traced(t.base, log2, moved2) /\ Sorted(log2)
            /\ IF \E e \in Entries(t.log) : e[1] = stamp THEN Entries(log2) = Entries(t.log)
               ELSE Entries(log2) = Entries(t.log) \union {<<stamp, child, parent>>}
<1> DEFINE e == [stamp |-> stamp, child |-> child, parent |-> parent, prev |-> {}]
           S == Since(t.log, stamp)
           E == Earlier(t.log, stamp)
           seq == <<e>> \o S
           k == PartitionPoint(t.log, stamp)
           L == Len(t.log)
<1>1. t.log \in Seq(MoveOf(t.base)) /\ L \in Nat /\ DOMAIN t.log = 1 .. L
  BY DEF Traced
<1>2. (\E m \in Range(t.log) : m.stamp = stamp) <=> \E x \in Entries(t.log) : x[1] = stamp
  <2>1. \A m : Plain(m)[1] = m.stamp
    BY DEF Plain
  <2> QED BY <2>1 DEF Range, Entries
<1>3. CASE \E m \in Range(t.log) : m.stamp = stamp
  <2>1. LogMove(t, stamp, child, parent) = With(t, t.log, t.moved)
    BY <1>3, WithFacts DEF LogMove
  <2> QED BY <1>2, <1>3, <2>1
<1>4. CASE ~\E m \in Range(t.log) : m.stamp = stamp
  <2>1. e \in MoveOf(t.base) /\ Plain(e) = <<stamp, child, parent>>
    BY DEF MoveOf, Plain
  <2>2. /\ k \in 0 .. L
        /\ Len(E) = k /\ \A i \in 1 .. k : E[i] = t.log[i]
        /\ S \in Seq(MoveOf(t.base)) /\ Len(S) = L - k
        /\ \A i \in 1 .. L - k : S[i] = t.log[k + i]
    BY RewoundTraced
  <2>3. PICK moved1 : Rewound(t, stamp) = With(t, E, moved1) /\ Traced(t.base, E, moved1)
    BY RewoundTraced
  <2> HIDE DEF e, k, E, S
  <2>4. /\ seq \in Seq(MoveOf(t.base)) /\ Len(seq) = L - k + 1 /\ seq[1] = e
        /\ \A i \in 1 .. L - k : seq[i + 1] = S[i]
    BY <1>1, <2>1, <2>2
  <2> HIDE DEF seq
  <2>5. PICK log2, moved2 : /\ RedoAll(With(t, E, moved1), seq) = With(t, log2, moved2)
                            /\ Traced(t.base, log2, moved2) /\ Follows(log2, E, seq, Len(seq))
    BY <2>3, <2>4, RedoAllExtends
  <2>6. LogMove(t, stamp, child, parent) = With(t, log2, moved2)
    <3>1. LogMove(t, stamp, child, parent) = RedoAll(Rewound(t, stamp), seq)
      BY <1>4 DEF LogMove, e, seq, S
    <3> QED BY <2>3, <2>5, <3>1
  <2>7. PutIn(log2, t.log, k, <<stamp, child, parent>>)
    <3>1. Len(log2) = L + 1
      BY <1>1, <2>2, <2>4, <2>5 DEF Follows
    <3>2. \A i \in 1 .. k : Plain(log2[i]) = Plain(t.log[i])
      BY <2>2, <2>5 DEF Follows
    <3>3. \A i \in 1 .. L - k + 1 : Plain(log2[k + i]) = Plain(seq[i])
      BY <2>2, <2>4, <2>5 DEF Follows
    <3>4. Plain(log2[k + 1]) = <<stamp, child, parent>>
      <4>1. 1 \in 1 .. L - k + 1
        BY <1>1, <2>2
      <4> QED BY <2>1, <2>4, <3>3, <4>1
    <3>5. ASSUME NEW i \in k + 1 .. L PROVE Plain(log2[i + 1]) = Plain(t.log[i])
      <4>1. /\ i - k \in 1 .. L - k /\ (i - k) + 1 \in 1 .. L - k + 1
            /\ k + ((i - k) + 1) = i + 1 /\ k + (i - k) = i
        BY <1>1, <2>2
      <4>2. Plain(log2[i + 1]) = Plain(seq[(i - k) + 1])
        BY <3>3, <4>1
      <4>3. seq[(i - k) + 1] = t.log[i]
        BY <2>2, <2>4, <4>1
      <4> QED BY <4>2, <4>3
    <3> QED BY <3>1, <3>2, <3>4, <3>5 DEF PutIn
  <2>8. Sorted(log2) /\ Entries(log2) = Entries(t.log) \union {<<stamp, child, parent>>}
    <3>1. \A x \in MoveOf(t.base) : x.stamp \in Int \X Int
      BY DEF MoveOf
    <3>2. log2 \in Seq(MoveOf(t.base))
      BY <2>5 DEF Traced
    <3>3. ~\E i \in DOMAIN t.log : t.log[i].stamp = stamp
      BY <1>4 DEF Range
    <3>4. PutIn(log2, t.log, PartitionPoint(t.log, stamp), <<stamp, child, parent>>)
      BY <2>7 DEF k
    <3>5. t.log \in Seq(MoveOf(t.base))
      BY <1>1
    <3> QED BY <3>1, <3>2, <3>3, <3>4, <3>5, PutInIs, SMTT(30)
  <2> QED BY <1>2, <1>4, <2>5, <2>6, <2>8
<1> QED BY <1>3, <1>4

LEMMA WithdrawTraced ==
  ASSUME NEW t, IsTree(t), Births(t.nodes, t.base), Traced(t.base, t.log, t.moved), Sorted(t.log),
         NEW stamp, NEW child, NEW parent
  PROVE  \E log2, moved2 :
            /\ WithdrawMove(t, stamp, child, parent) = With(t, log2, moved2)
            /\ Traced(t.base, log2, moved2) /\ Sorted(log2)
            /\ Entries(log2) = Entries(t.log) \ {<<stamp, child, parent>>}
<1> DEFINE k == PartitionPoint(t.log, stamp)
           L == Len(t.log)
           S == Since(t.log, stamp)
           E == Earlier(t.log, stamp)
           seq == Tail(S)
           has == \E m \in Range(t.log) : m.stamp = stamp /\ m.child = child /\ m.parent = parent
<1>1. t.log \in Seq(MoveOf(t.base)) /\ L \in Nat /\ DOMAIN t.log = 1 .. L
  BY DEF Traced
<1>2. has <=> <<stamp, child, parent>> \in Entries(t.log)
  BY DEF Range, Entries, Plain
<1>3. CASE ~has
  <2>1. WithdrawMove(t, stamp, child, parent) = With(t, t.log, t.moved)
    BY <1>3, WithFacts DEF WithdrawMove
  <2> QED BY <1>2, <1>3, <2>1
<1>4. CASE has
  <2>1. PICK i \in 1 .. L : /\ t.log[i].stamp = stamp /\ t.log[i].child = child
                            /\ t.log[i].parent = parent
    BY <1>1, <1>4 DEF Range
  <2>2. stamp \in Int \X Int /\ \A x \in MoveOf(t.base) : x.stamp \in Int \X Int
    <3>1. t.log[i] \in MoveOf(t.base)
      BY <1>1
    <3> QED BY <2>1, <3>1 DEF MoveOf
  <2>3. /\ k \in 0 .. L
        /\ Len(E) = k /\ \A j \in 1 .. k : E[j] = t.log[j]
        /\ S \in Seq(MoveOf(t.base)) /\ Len(S) = L - k
        /\ \A j \in 1 .. L - k : S[j] = t.log[k + j]
    BY RewoundTraced
  <2>4. PICK moved1 : Rewound(t, stamp) = With(t, E, moved1) /\ Traced(t.base, E, moved1)
    BY RewoundTraced
  <2>5. k < L
    <3>1. ~Later(stamp, t.log[i].stamp)
      BY <2>1, <2>2 DEF Later
    <3> QED BY <1>1, <3>1, PartitionIn DEF k
  <2> HIDE DEF k, E, S
  <2>6. /\ seq \in Seq(MoveOf(t.base)) /\ Len(seq) = L - k - 1
        /\ \A j \in 1 .. L - k - 1 : seq[j] = S[j + 1]
    <3>1. S # <<>>
      BY <1>1, <2>3, <2>5
    <3> QED BY <1>1, <2>3, <2>5, <3>1
  <2> HIDE DEF seq
  <2>7. PICK log2, moved2 : /\ RedoAll(With(t, E, moved1), seq) = With(t, log2, moved2)
                            /\ Traced(t.base, log2, moved2) /\ Follows(log2, E, seq, Len(seq))
    BY <2>4, <2>6, RedoAllExtends
  <2>8. WithdrawMove(t, stamp, child, parent) = With(t, log2, moved2)
    <3>1. WithdrawMove(t, stamp, child, parent) = RedoAll(Rewound(t, stamp), seq)
      BY <1>4 DEF WithdrawMove, seq, S
    <3> QED BY <2>4, <2>7, <3>1
  <2>9. TakenOut(log2, t.log, k)
    <3>1. Len(log2) = L - 1
      BY <1>1, <2>3, <2>5, <2>6, <2>7 DEF Follows
    <3>2. \A j \in 1 .. k : Plain(log2[j]) = Plain(t.log[j])
      BY <2>3, <2>7 DEF Follows
    <3>3. \A j \in 1 .. L - k - 1 : Plain(log2[k + j]) = Plain(seq[j])
      BY <2>3, <2>6, <2>7 DEF Follows
    <3>4. ASSUME NEW j \in k + 2 .. L PROVE Plain(log2[j - 1]) = Plain(t.log[j])
      <4>1. /\ j - k - 1 \in 1 .. L - k - 1 /\ k + (j - k - 1) = j - 1
            /\ (j - k - 1) + 1 \in 1 .. L - k /\ k + ((j - k - 1) + 1) = j
        BY <1>1, <2>3
      <4>2. Plain(log2[j - 1]) = Plain(seq[j - k - 1])
        BY <3>3, <4>1
      <4>3. seq[j - k - 1] = t.log[j]
        BY <2>3, <2>6, <4>1
      <4> QED BY <4>2, <4>3
    <3> QED BY <3>1, <3>2, <3>4 DEF TakenOut
  <2>10. Sorted(log2) /\ Entries(log2) = Entries(t.log) \ {Plain(t.log[i])}
    <3>1. log2 \in Seq(MoveOf(t.base)) /\ i \in DOMAIN t.log
      BY <1>1, <2>7 DEF Traced
    <3>2. TakenOut(log2, t.log, PartitionPoint(t.log, t.log[i].stamp))
      BY <2>1, <2>9 DEF k
    <3> QED BY <1>1, <2>2, <3>1, <3>2, TakenOutIs
  <2>11. Plain(t.log[i]) = <<stamp, child, parent>>
    BY <2>1 DEF Plain
  <2> QED BY <2>7, <2>8, <2>10, <2>11
<1> QED BY <1>3, <1>4

(* What the log tells of the moved: a node is where one of its entries put *)
(* it, and a text that was ever moved stays moved.                         *)
LEMMA MovedByLog ==
  ASSUME NEW b, NEW log, NEW moved, Traced(b, log, moved)
  PROVE  /\ \A n \in DOMAIN moved : \E e \in Entries(log) : e[2] = n /\ e[3] = moved[n]
         /\ \A e \in Entries(log) : ~IsOwner(e[2]) => e[2] \in DOMAIN moved
<1> DEFINE L == Len(log)
           Told(i, m) == /\ \A n \in DOMAIN m : \E j \in 1 .. i : log[j].child = n /\ log[j].parent = m[n]
                         /\ \A j \in 1 .. i : ~IsOwner(log[j].child) => log[j].child \in DOMAIN m
<1>1. PICK h : Trace(b, log, h) /\ h[L] = moved
  BY DEF Traced
<1>2. L \in Nat /\ DOMAIN log = 1 .. L
  BY DEF Traced
<1> DEFINE S == {i \in 0 .. L : Told(i, h[i])}
<1>3. 0 \in S
  BY <1>1, <1>2 DEF Trace
<1>4. ASSUME NEW i \in 1 .. L, i - 1 \in S PROVE i \in S
  <2> DEFINE m == h[i - 1]
             m2 == h[i]
             e == log[i]
             put == Put(m, e.child, e.parent)
  <2>1. Told(i - 1, m) /\ Taken(m, e, m2)
    BY <1>1, <1>4 DEF Trace
  <2>2. DOMAIN put = DOMAIN m \union {e.child} /\ \A n \in DOMAIN put : put[n] = IF n = e.child THEN e.parent ELSE m[n]
    BY DEF Put
  <2>3. m2 = m \/ m2 = put
    BY <2>1 DEF Taken
  <2>4. ~IsOwner(e.child) => m2 = put
    BY <2>1 DEF Taken
  <2>5. \A j \in 1 .. i : j \in 1 .. i - 1 \/ j = i
    BY <1>2
  <2>6. i \in 1 .. i /\ \A j \in 1 .. i - 1 : j \in 1 .. i
    BY <1>2
  <2> HIDE DEF m, m2, put
  <2>7. ASSUME NEW n \in DOMAIN m2
        PROVE  \E j \in 1 .. i : log[j].child = n /\ log[j].parent = m2[n]
    <3>1. CASE n \in DOMAIN m /\ m2[n] = m[n]
      BY <2>1, <2>6, <3>1
    <3>2. CASE n = e.child /\ m2[n] = e.parent
      BY <2>6, <3>2
    <3> QED BY <2>2, <2>3, <2>7, <3>1, <3>2
  <2>8. ASSUME NEW j \in 1 .. i, ~IsOwner(log[j].child) PROVE log[j].child \in DOMAIN m2
    <3>1. DOMAIN m \subseteq DOMAIN m2
      BY <2>2, <2>3
    <3>2. CASE j \in 1 .. i - 1
      BY <2>1, <2>8, <3>1, <3>2
    <3>3. CASE j = i
      BY <2>2, <2>4, <2>8, <3>3
    <3> QED BY <2>5, <3>2, <3>3
  <2>9. Told(i, h[i])
    BY <2>7, <2>8 DEF m2
  <2> HIDE DEF Told
  <2> QED BY <1>2, <2>9
<1>5. Told(L, moved)
  <2>1. L \in S
    <3> HIDE DEF S
    <3>1. \A i \in 0 .. L : i \in S
      BY <1>2, <1>3, <1>4, UpTo
    <3> QED BY <1>2, <3>1
  <2> HIDE DEF Told
  <2> QED BY <1>1, <2>1
<1>6. \A j \in 1 .. L : /\ Plain(log[j]) \in Entries(log)
                         /\ Plain(log[j])[2] = log[j].child /\ Plain(log[j])[3] = log[j].parent
  BY <1>2 DEF Entries, Plain
<1>7. \A e \in Entries(log) : \E j \in 1 .. L : e = Plain(log[j])
  BY <1>2 DEF Entries
<1>8. ASSUME NEW n \in DOMAIN moved PROVE \E e \in Entries(log) : e[2] = n /\ e[3] = moved[n]
  BY <1>5, <1>6
<1>9. ASSUME NEW e \in Entries(log), ~IsOwner(e[2]) PROVE e[2] \in DOMAIN moved
  <2>1. PICK j \in 1 .. L : e = Plain(log[j])
    BY <1>7
  <2>2. e[2] = log[j].child
    BY <1>6, <2>1
  <2> QED BY <1>5, <1>9, <2>2
<1> QED BY <1>8, <1>9

-----------------------------------------------------------------------------
(***************************************************************************)
(* Node ids.  A node is named by where it was born.                        *)
(***************************************************************************)
Stamped(n) ==
    /\ n \in Seq(Range(n))
    /\ \A i \in DOMAIN n : n[i] = <<n[i][1], n[i][2]>> /\ n[i][1] \in Int \X Int

Birth(n) == <<Front(n), Last(n)[1]>>

LEMMA ChildIs ==
  ASSUME NEW list, Stamped(list), NEW stamp \in Int \X Int, NEW kind
  PROVE  LET child == XmlChildId(list, stamp, kind)
         IN /\ child # Fragment /\ Stamped(child)
            /\ Front(child) = list /\ Last(child) = <<stamp, kind>> /\ Birth(child) = <<list, stamp>>
<1> DEFINE S == Range(list) \union {<<stamp, kind>>}
           child == Append(list, <<stamp, kind>>)
           n == Len(list)
<1>1. list \in Seq(Range(list)) /\ Range(list) \subseteq S /\ <<stamp, kind>> \in S
  BY DEF Stamped
<1>2. list \in Seq(S)
  BY <1>1, SeqMonotonic
<1>3. <<stamp, kind>>[1] = stamp /\ <<stamp, kind>>[2] = kind
  OBVIOUS
<1> HIDE DEF S
<1>4. /\ child \in Seq(S) /\ Len(child) = n + 1 /\ n \in Nat
      /\ DOMAIN child = 1 .. n + 1 /\ DOMAIN list = 1 .. n
      /\ child[n + 1] = <<stamp, kind>> /\ \A i \in 1 .. n : child[i] = list[i]
  BY <1>1, <1>2
<1>5. child # <<>>
  BY <1>4
<1>6. Front(child) = list
  <2>1. Front(child) = SubSeq(child, 1, n)
    BY <1>4 DEF Front
  <2> HIDE DEF child, n
  <2>2. SubSeq(child, 1, n) = list
    <3>1. SubSeq(child, 1, n) \in Seq(S) /\ Len(SubSeq(child, 1, n)) = n
      BY <1>4
    <3>2. \A i \in 1 .. n : SubSeq(child, 1, n)[i] = list[i]
      BY <1>4
    <3>3. Len(list) = n
      BY DEF n
    <3> QED BY <1>2, <3>1, <3>2, <3>3, SeqEqual
  <2> QED BY <2>1, <2>2
<1>7. Last(child) = <<stamp, kind>>
  BY <1>4 DEF Last
<1>8. Stamped(child)
  <2> HIDE DEF child, n
  <2>1. \A k \in 1 .. n + 1 : child[k] \in Range(child)
    BY <1>4 DEF Range
  <2>2. child \in Seq(Range(child))
    BY <1>4, <2>1
  <2>3. ASSUME NEW i \in 1 .. n + 1
        PROVE  child[i] = <<child[i][1], child[i][2]>> /\ child[i][1] \in Int \X Int
    <3>1. CASE i = n + 1
      BY <1>3, <1>4, <3>1
    <3>2. CASE i # n + 1
      <4>1. i \in 1 .. n
        BY <1>4, <3>2
      <4> QED BY <1>4, <4>1 DEF Stamped
    <3> QED BY <3>1, <3>2
  <2> QED BY <1>4, <2>2, <2>3 DEF Stamped
<1>9. Birth(child) = <<list, stamp>>
  BY <1>3, <1>6, <1>7 DEF Birth
<1> QED BY <1>5, <1>6, <1>7, <1>8, <1>9 DEF XmlChildId, Fragment

LEMMA NodeIs ==
  ASSUME NEW n, Stamped(n), n # Fragment
  PROVE  /\ n = XmlChildId(Front(n), Last(n)[1], Last(n)[2])
         /\ Front(n) \in Seq(Range(n)) /\ Last(n)[1] \in Int \X Int
<1> DEFINE S == Range(n)
           k == Len(n)
<1>1. n \in Seq(S) /\ n # <<>>
  BY DEF Stamped, Fragment
<1> HIDE DEF S
<1>2. k \in Nat /\ k >= 1 /\ DOMAIN n = 1 .. k
  BY <1>1
<1>3. Last(n) = <<Last(n)[1], Last(n)[2]>> /\ Last(n)[1] \in Int \X Int /\ Last(n) = n[k] /\ n[k] \in S
  BY <1>1, <1>2 DEF Stamped, Last
<1> DEFINE f == Front(n)
           x == Last(n)
           m == Append(f, x)
<1>4. f \in Seq(S) /\ Len(f) = k - 1 /\ \A i \in 1 .. k - 1 : f[i] = n[i]
  BY <1>1, <1>2 DEF Front
<1>5. m \in Seq(S) /\ Len(m) = k /\ m[k] = n[k] /\ \A i \in 1 .. k - 1 : m[i] = n[i]
  <2>1. x \in S /\ x = n[k]
    BY <1>3
  <2> HIDE DEF f, x, k
  <2>2. /\ m \in Seq(S) /\ Len(m) = Len(f) + 1 /\ m[Len(f) + 1] = x
        /\ \A i \in 1 .. Len(f) : m[i] = f[i]
    BY <1>4, <2>1
  <2> HIDE DEF m
  <2> QED BY <1>2, <1>4, <2>1, <2>2
<1>6. m = n
  <2> HIDE DEF m
  <2>1. \A i \in 1 .. k : m[i] = n[i]
    BY <1>2, <1>5
  <2> QED BY <1>1, <1>5, <2>1, SeqEqual
<1> QED BY <1>3, <1>4, <1>6 DEF XmlChildId, S

(* The two ids that one placement can give at birth.                       *)
LEMMA TwoBorn ==
  ASSUME NEW list, NEW S, list \in Seq(S), NEW stamp
  PROVE  LET a == XmlChildId(list, stamp, "element")
             b == XmlChildId(list, stamp, "text")
         IN /\ \A x : BornAt(<<list, stamp>>, x) <=> x = a \/ x = b
            /\ Len(a) = Len(list) + 1 /\ Len(b) = Len(list) + 1 /\ DOMAIN b = 1 .. Len(list) + 1
            /\ Len(list) \in Nat /\ DOMAIN a = 1 .. Len(list) + 1
            /\ a[Len(list) + 1] = <<stamp, "element">> /\ b[Len(list) + 1] = <<stamp, "text">>
            /\ \A i \in 1 .. Len(list) : a[i] = list[i] /\ b[i] = list[i]
            /\ SubSeq(a, 1, Len(list)) = SubSeq(b, 1, Len(list))
<1> DEFINE a == Append(list, <<stamp, "element">>)
           b == Append(list, <<stamp, "text">>)
           T == S \union {<<stamp, "element">>, <<stamp, "text">>}
           n == Len(list)
<1>1. list \in Seq(T) /\ <<stamp, "element">> \in T /\ <<stamp, "text">> \in T
  BY SeqMonotonic
<1> HIDE DEF T
<1>2. /\ a \in Seq(T) /\ b \in Seq(T) /\ n \in Nat /\ Len(a) = n + 1 /\ Len(b) = n + 1
      /\ DOMAIN a = 1 .. n + 1 /\ DOMAIN b = 1 .. n + 1
      /\ a[n + 1] = <<stamp, "element">> /\ b[n + 1] = <<stamp, "text">>
      /\ \A i \in 1 .. n : a[i] = list[i] /\ b[i] = list[i]
  BY <1>1
<1>3. SubSeq(a, 1, n) = SubSeq(b, 1, n)
  <2> HIDE DEF a, b, n
  <2>1. /\ SubSeq(a, 1, n) \in Seq(T) /\ Len(SubSeq(a, 1, n)) = n
        /\ SubSeq(b, 1, n) \in Seq(T) /\ Len(SubSeq(b, 1, n)) = n
        /\ \A i \in 1 .. n : SubSeq(a, 1, n)[i] = SubSeq(b, 1, n)[i]
    BY <1>2
  <2> QED BY <2>1, SeqEqual
<1>4. \A x : BornAt(<<list, stamp>>, x) <=> x = a \/ x = b
  BY DEF BornAt, XmlChildId
<1> QED BY <1>2, <1>3, <1>4 DEF XmlChildId

(* An element is never put out of the placement it was born at ...         *)
LEMMA ElementStays ==
  ASSUME NEW held, Stamped(held), held # Fragment, IsOwner(held), NEW node, node # held
  PROVE  ~Outranks(Birth(held), node, held)
<1> DEFINE list == Front(held)
           stamp == Last(held)[1]
           a == XmlChildId(list, stamp, "element")
           b == XmlChildId(list, stamp, "text")
           place == <<list, stamp>>
           n == Len(list)
<1>1. held = a /\ list \in Seq(Range(held)) /\ stamp \in Int \X Int
  BY NodeIs DEF IsOwner
<1>2. \A i \in DOMAIN held : held[i][1] \in Int \X Int
  BY DEF Stamped
<1> HIDE DEF list, stamp
<1>3. /\ \A x : BornAt(place, x) <=> x = a \/ x = b
      /\ Len(a) = n + 1 /\ Len(b) = n + 1 /\ DOMAIN b = 1 .. n + 1
      /\ n \in Nat /\ DOMAIN a = 1 .. n + 1
      /\ a[n + 1] = <<stamp, "element">> /\ b[n + 1] = <<stamp, "text">>
      /\ \A i \in 1 .. n : a[i] = list[i] /\ b[i] = list[i]
  BY <1>1, TwoBorn
<1> HIDE DEF a, b, n, place
<1>4. ~Smaller(b, a)
  <2>1. \A x \in Int \X Int : ~Later(x, x)
    BY DEF Later
  <2>2. ASSUME NEW i \in 1 .. n + 1
        PROVE  ~(Later(a[i][1], b[i][1]) \/ (b[i][1] = a[i][1] /\ b[i][2] = "element" /\ a[i][2] = "text"))
    <3>1. CASE i = n + 1
      <4>1. b[i][1] = stamp /\ a[i][1] = stamp /\ b[i][2] = "text"
        BY <1>3, <3>1
      <4> QED BY <1>1, <2>1, <4>1
    <3>2. CASE i # n + 1
      <4>1. i \in 1 .. n /\ a[i] = b[i]
        BY <1>3, <3>2
      <4>2. a[i][1] \in Int \X Int
        BY <1>1, <1>2, <1>3
      <4> QED BY <2>1, <4>1, <4>2
    <3> QED BY <3>1, <3>2
  <2> QED BY <1>3, <2>2 DEF Smaller
<1>5. BornAt(place, held) /\ (BornAt(place, node) => node = b)
  BY <1>1, <1>3
<1>6. BornAt(place, node) \in BOOLEAN /\ BornAt(place, held) \in BOOLEAN
  BY DEF BornAt
<1>7. ~Outranks(place, node, held)
  BY <1>1, <1>4, <1>5, <1>6 DEF Outranks
<1> QED BY <1>7 DEF Birth, place, list, stamp

(* ... and takes it from whatever holds it.                                *)
LEMMA ElementWins ==
  ASSUME NEW list, Stamped(list), NEW stamp, NEW held, held # XmlChildId(list, stamp, "element")
  PROVE  Outranks(<<list, stamp>>, XmlChildId(list, stamp, "element"), held)
<1> DEFINE a == XmlChildId(list, stamp, "element")
           b == XmlChildId(list, stamp, "text")
           place == <<list, stamp>>
           n == Len(list)
<1>1. list \in Seq(Range(list))
  BY DEF Stamped
<1>2. /\ \A x : BornAt(place, x) <=> x = a \/ x = b
      /\ Len(a) = n + 1 /\ Len(b) = n + 1 /\ n \in Nat /\ DOMAIN a = 1 .. n + 1
      /\ a[n + 1] = <<stamp, "element">> /\ b[n + 1] = <<stamp, "text">>
      /\ SubSeq(a, 1, n) = SubSeq(b, 1, n)
  BY <1>1, TwoBorn
<1>3. held # a
  OBVIOUS
<1> HIDE DEF a, b, n, place
<1>4. Smaller(a, b)
  <2>1. n + 1 \in DOMAIN a /\ (n + 1) - 1 = n
    BY <1>2
  <2>2. a[n + 1][1] = b[n + 1][1] /\ a[n + 1][2] = "element" /\ b[n + 1][2] = "text"
    BY <1>2
  <2> QED BY <1>2, <2>1, <2>2 DEF Smaller
<1>5. BornAt(place, a) /\ (BornAt(place, held) => held = b)
  BY <1>2, <1>3
<1>6. BornAt(place, a) \in BOOLEAN /\ BornAt(place, held) \in BOOLEAN
  BY DEF BornAt
<1>7. Outranks(place, a, held)
  BY <1>4, <1>5, <1>6 DEF Outranks
<1> QED BY <1>7 DEF place, a

-----------------------------------------------------------------------------
(***************************************************************************)
(* Operations.  Each keeps the log traced, the placements and those that   *)
(* wait among the nodes, and the nodes what has a parent.                  *)
(***************************************************************************)
Placed(t) ==
    /\ DOMAIN t.places \subseteq t.nodes \ {Fragment}
    /\ t.pending \subseteq t.nodes \ {Fragment}
    /\ \A p \in DOMAIN t.index : t.index[p] \in t.nodes \ {Fragment}

Kept(t) ==
    /\ IsTree(t) /\ Births(t.nodes, t.base) /\ Traced(t.base, t.log, t.moved) /\ Sorted(t.log)
    /\ Placed(t)

(* What most operations leave alone.                                       *)
Alike(t, u) ==
    u.nodes = t.nodes /\ u.base = t.base /\ u.buffer = t.buffer /\ u.clock = t.clock /\ u.dead = t.dead

(* A placement among those of a node; no node is listed without one.       *)
Holds(t, n, p) == n \in DOMAIN t.places /\ p \in t.places[n]

Inhabited(t) == \A n \in DOMAIN t.places : t.places[n] # {}

LEMMA WithKept ==
  ASSUME NEW t, Kept(t), NEW log, NEW moved, Traced(t.base, log, moved), Sorted(log)
  PROVE  LET u == With(t, log, moved)
         IN /\ Kept(u) /\ Alike(t, u) /\ u.log = log /\ u.moved = moved
            /\ u.index = t.index /\ u.places = t.places /\ u.away = t.away
<1> DEFINE u == With(t, log, moved)
<1>1. IsTree(t) /\ IsTree(u) /\ u.log = log /\ u.moved = moved
  BY WithFacts DEF Kept
<1>2. Alike(t, u) /\ u.places = t.places /\ u.pending = t.pending /\ u.index = t.index /\ u.away = t.away
  BY <1>1 DEF With, IsTree, Fields, Alike
<1> HIDE DEF u
<1>3. Kept(u)
  BY <1>1, <1>2 DEF Kept, Placed, Alike
<1> QED BY <1>1, <1>2, <1>3 DEF u

LEMMA DislodgedKept ==
  ASSUME NEW t, Kept(t), Inhabited(t), NEW place, NEW held, Holds(t, held, place)
  PROVE  LET u == Dislodged(t, place, held)
         IN /\ Kept(u) /\ Alike(t, u) /\ u.log = t.log /\ u.index = t.index /\ Inhabited(u)
            /\ \A n, p : Holds(u, n, p) <=> Holds(t, n, p) /\ ~(n = held /\ p = place)
<1> DEFINE u == Dislodged(t, place, held)
<1>1. IsTree(t) /\ held \in t.nodes \ {Fragment} /\ held \in DOMAIN t.places /\ place \in t.places[held]
  BY DEF Kept, Placed, Holds
<1>2. CASE t.places[held] # {place}
  <2> DEFINE pl == [t.places EXCEPT ![held] = @ \ {place}]
  <2>1. u = [t EXCEPT !.places = pl]
    BY <1>1, <1>2 DEF Dislodged, IsTree, Fields
  <2>2. /\ DOMAIN pl = DOMAIN t.places
        /\ \A n \in DOMAIN pl : pl[n] = IF n = held THEN t.places[held] \ {place} ELSE t.places[n]
    BY <1>1
  <2> HIDE DEF u, pl
  <2>3. IsTree(u) /\ Alike(t, u) /\ u.log = t.log /\ u.moved = t.moved
    BY <1>1, <2>1 DEF IsTree, Fields, Alike
  <2>4. u.pending = t.pending /\ u.index = t.index /\ u.places = pl
    BY <1>1, <2>1 DEF IsTree, Fields
  <2>5. Kept(u)
    BY <2>2, <2>3, <2>4 DEF Kept, Placed, Alike
  <2>6. Inhabited(u)
    BY <1>1, <1>2, <2>2, <2>4 DEF Inhabited
  <2>7. \A n, p : Holds(u, n, p) <=> Holds(t, n, p) /\ ~(n = held /\ p = place)
    BY <1>1, <2>2, <2>4 DEF Holds
  <2> QED BY <2>3, <2>4, <2>5, <2>6, <2>7 DEF u
<1>3. CASE ~(t.places[held] # {place})
  <2> DEFINE pa == IF ParentOf(t, held) = {} THEN Restrict(t.parents, DOMAIN t.parents \ {held})
                   ELSE Put(t.parents, held, CHOOSE p \in ParentOf(t, held) : TRUE)
             pl == Restrict(t.places, DOMAIN t.places \ {held})
  <2>1. u = [t EXCEPT !.places = pl, !.pending = t.pending \union {held}, !.parents = pa]
    BY <1>1, <1>3 DEF Dislodged, IsTree, Fields
  <2>2. DOMAIN pl = DOMAIN t.places \ {held} /\ \A n \in DOMAIN pl : pl[n] = t.places[n]
    BY DEF Restrict
  <2> HIDE DEF pa, pl, u
  <2>3. IsTree(u) /\ Alike(t, u) /\ u.log = t.log /\ u.moved = t.moved
    BY <1>1, <2>1 DEF IsTree, Fields, Alike
  <2>4. u.pending = t.pending \union {held} /\ u.index = t.index /\ u.places = pl
    BY <1>1, <2>1 DEF IsTree, Fields
  <2>5. Kept(u)
    BY <1>1, <2>2, <2>3, <2>4 DEF Kept, Placed, Alike
  <2>6. Inhabited(u)
    BY <2>2, <2>4 DEF Inhabited
  <2>7. \A n, p : Holds(u, n, p) <=> Holds(t, n, p) /\ ~(n = held /\ p = place)
    BY <1>1, <1>3, <2>2, <2>4 DEF Holds
  <2> QED BY <2>3, <2>4, <2>5, <2>6, <2>7 DEF u
<1> QED BY <1>2, <1>3

LEMMA EvictKept ==
  ASSUME NEW t, Kept(t), Inhabited(t), NEW place, NEW held, Holds(t, held, place)
  PROVE  LET u == EvictPlacement(t, place, held)
         IN /\ Kept(u) /\ Alike(t, u) /\ u.index = t.index /\ Inhabited(u)
            /\ Entries(u.log) = Entries(t.log) \ {<<place[2], held, place[1]>>}
            /\ \A n, p : Holds(u, n, p) <=> Holds(t, n, p) /\ ~(n = held /\ p = place)
<1> DEFINE w == WithdrawMove(t, place[2], held, place[1])
           u == Dislodged(w, place, held)
<1>1. PICK log, moved : /\ w = With(t, log, moved) /\ Traced(t.base, log, moved) /\ Sorted(log)
                        /\ Entries(log) = Entries(t.log) \ {<<place[2], held, place[1]>>}
  BY WithdrawTraced DEF Kept
<1>2. Kept(w) /\ Alike(t, w) /\ w.log = log /\ w.index = t.index /\ w.places = t.places
  BY <1>1, WithKept
<1> HIDE DEF w
<1>3. Inhabited(w) /\ \A n, p : Holds(w, n, p) <=> Holds(t, n, p)
  BY <1>2 DEF Inhabited, Holds
<1>4. /\ Kept(u) /\ Alike(w, u) /\ u.log = w.log /\ u.index = w.index /\ Inhabited(u)
      /\ \A n, p : Holds(u, n, p) <=> Holds(w, n, p) /\ ~(n = held /\ p = place)
  BY <1>2, <1>3, DislodgedKept
<1> HIDE DEF u
<1>5. Alike(t, u)
  BY <1>2, <1>4 DEF Alike
<1>6. EvictPlacement(t, place, held) = u
  BY DEF EvictPlacement, u, w
<1> QED BY <1>1, <1>2, <1>3, <1>4, <1>5, <1>6

LEMMA TakesKept ==
  ASSUME NEW t, Kept(t), Inhabited(t), NEW place, NEW node \in t.nodes \ {Fragment}
  PROVE  LET u == Takes(t, place, node)
         IN /\ Kept(u) /\ Alike(t, u) /\ u.log = t.log /\ u.moved = t.moved /\ Inhabited(u)
            /\ DOMAIN u.index = DOMAIN t.index \union {place}
            /\ \A p \in DOMAIN u.index : u.index[p] = IF p = place THEN node ELSE t.index[p]
            /\ \A n, p : Holds(u, n, p) <=> Holds(t, n, p) \/ (n = node /\ p = place)
            /\ u.away = t.away \ {place}
<1> DEFINE ix == Put(t.index, place, node)
           pl == Put(t.places, node, {place} \union IF node \in DOMAIN t.places THEN t.places[node] ELSE {})
           u == Takes(t, place, node)
<1>1. IsTree(t)
  BY DEF Kept
<1>2. u = [t EXCEPT !.index = ix, !.places = pl, !.away = t.away \ {place}, !.pending = t.pending \ {node}]
  BY <1>1 DEF Takes, IsTree, Fields
<1>3. /\ DOMAIN pl = DOMAIN t.places \union {node} /\ DOMAIN ix = DOMAIN t.index \union {place}
      /\ \A p \in DOMAIN ix : ix[p] = IF p = place THEN node ELSE t.index[p]
      /\ \A n \in DOMAIN pl : n # node => pl[n] = t.places[n]
      /\ pl[node] = {place} \union IF node \in DOMAIN t.places THEN t.places[node] ELSE {}
  BY DEF Put
<1> HIDE DEF u, ix, pl
<1>4. IsTree(u) /\ Alike(t, u) /\ u.log = t.log /\ u.moved = t.moved
  BY <1>1, <1>2 DEF IsTree, Fields, Alike
<1>5. u.pending = t.pending \ {node} /\ u.index = ix /\ u.places = pl /\ u.away = t.away \ {place}
  BY <1>1, <1>2 DEF IsTree, Fields
<1>6. Kept(u)
  BY <1>3, <1>4, <1>5 DEF Kept, Placed, Alike
<1>7. Inhabited(u)
  BY <1>3, <1>5 DEF Inhabited
<1>8. \A n, p : Holds(u, n, p) <=> Holds(t, n, p) \/ (n = node /\ p = place)
  BY <1>3, <1>5 DEF Holds
<1> QED BY <1>3, <1>4, <1>5, <1>6, <1>7, <1>8 DEF u

(***************************************************************************)
(* The placements.  Every one is of a node that holds it, and one that the *)
(* log moved a node to is that node's.  A node is where it was born, or    *)
(* where a logged move put it; what takes the place it was born at never   *)
(* takes it from an element.  No two placements share a stamp (Unique).    *)
(***************************************************************************)
Indexed(t) == Inhabited(t) /\ \A n, p : Holds(t, n, p) <=> p \in DOMAIN t.index /\ t.index[p] = n

Lodged(t) ==
    \A e \in Entries(t.log) : <<e[3], e[1]>> \in DOMAIN t.index /\ t.index[<<e[3], e[1]>>] = e[2]

ArrivedBut(t, P) ==
    \A p \in DOMAIN t.index \ P : p = Birth(t.index[p]) \/ <<p[2], t.index[p], p[1]>> \in Entries(t.log)

BirthsHeld(t, N) ==
    \A n \in N \ {Fragment} :
        Stamped(n) /\ Birth(n) \in DOMAIN t.index /\ (IsOwner(n) => t.index[Birth(n)] = n)

Shelved(t, A, N) ==
    /\ Indexed(t) /\ Lodged(t) /\ BirthsHeld(t, N)
    /\ DOMAIN t.index \subseteq A /\ IsFiniteSet(DOMAIN t.index) /\ t.dead \subseteq DOMAIN t.index

Unique(A) ==
    /\ \A p \in A : p = <<p[1], p[2]>> /\ p[2] \in Int \X Int
    /\ \A p, q \in A : p[2] = q[2] => p = q

LEMMA EntryIs ==
  ASSUME NEW log, NEW e \in Entries(log)
  PROVE  e = <<e[1], e[2], e[3]>>
BY DEF Entries, Plain

(* The parts of a tree that the placements are about.                      *)
LEMMA ShelvedSame ==
  ASSUME NEW t, NEW u, NEW A, NEW N, Shelved(t, A, N),
         u.index = t.index, u.places = t.places, u.dead = t.dead, Entries(u.log) = Entries(t.log)
  PROVE  Shelved(u, A, N) /\ \A P : ArrivedBut(t, P) => ArrivedBut(u, P)
<1>1. Inhabited(u) /\ \A n, p : Holds(u, n, p) <=> Holds(t, n, p)
  BY DEF Shelved, Indexed, Inhabited, Holds
<1>2. Indexed(u)
  BY <1>1 DEF Shelved, Indexed
<1>3. Lodged(u) /\ BirthsHeld(u, N) /\ \A P : ArrivedBut(t, P) => ArrivedBut(u, P)
  BY DEF Shelved, Lodged, BirthsHeld, ArrivedBut
<1> QED BY <1>2, <1>3 DEF Shelved

LEMMA ClaimIs ==
  ASSUME NEW t, NEW place, NEW node
  PROVE  LET claim == Claim(t, place, node)
         IN /\ claim \in {"Fresh", "Joined", "Evicted", "Refused"}
            /\ claim = "Fresh" <=> place \notin DOMAIN t.index
            /\ claim = "Joined" => t.index[place] = node
            /\ claim = "Evicted" => t.index[place] # node /\ Outranks(place, node, t.index[place])
            /\ claim = "Refused" => t.index[place] # node /\ ~Outranks(place, node, t.index[place])
BY DEF Claim

(* A placement that changes hands.                                         *)
LEMMA TakenOver ==
  ASSUME NEW t, NEW u, NEW A, NEW N, Shelved(t, A, N), ArrivedBut(t, {}), Unique(A), NEW place \in A,
         NEW node, Inhabited(u), u.dead = t.dead,
         DOMAIN u.index = DOMAIN t.index \union {place},
         \A p \in DOMAIN u.index : u.index[p] = IF p = place THEN node ELSE t.index[p],
         \A n, p : Holds(u, n, p) <=> \/ Holds(t, n, p) /\ p # place
                                      \/ n = node /\ p = place,
         Entries(u.log) = Entries(t.log) \ {<<place[2], t.index[place], place[1]>>},
         \A n \in N \ {Fragment} : Birth(n) = place /\ IsOwner(n) => node = n
  PROVE  Shelved(u, A, N) /\ ArrivedBut(u, {place}) /\ u.index[place] = node
<1>1. Indexed(u)
  BY DEF Shelved, Indexed
<1>2. Lodged(u)
  <2> SUFFICES ASSUME NEW e \in Entries(u.log)
               PROVE  <<e[3], e[1]>> \in DOMAIN u.index /\ u.index[<<e[3], e[1]>>] = e[2]
    BY DEF Lodged
  <2>1. e \in Entries(t.log) /\ e # <<place[2], t.index[place], place[1]>> /\ e = <<e[1], e[2], e[3]>>
    BY EntryIs
  <2>2. <<e[3], e[1]>> \in DOMAIN t.index /\ t.index[<<e[3], e[1]>>] = e[2]
    BY <2>1 DEF Shelved, Lodged
  <2>3. place = <<place[1], place[2]>>
    BY DEF Unique
  <2>4. <<e[3], e[1]>> # place
    <3> SUFFICES ASSUME <<e[3], e[1]>> = place PROVE FALSE
      OBVIOUS
    <3>1. place[1] = e[3] /\ place[2] = e[1]
      OBVIOUS
    <3> QED BY <2>1, <2>2, <3>1
  <2> QED BY <2>2, <2>4
<1>3. BirthsHeld(u, N)
  BY DEF Shelved, BirthsHeld
<1>4. ArrivedBut(u, {place})
  <2> SUFFICES ASSUME NEW p \in DOMAIN u.index \ {place}
               PROVE  p = Birth(u.index[p]) \/ <<p[2], u.index[p], p[1]>> \in Entries(u.log)
    BY DEF ArrivedBut
  <2>1. p \in DOMAIN t.index /\ u.index[p] = t.index[p] /\ p # place /\ p \in A
    BY DEF Shelved
  <2>2. p = Birth(u.index[p]) \/ <<p[2], u.index[p], p[1]>> \in Entries(t.log)
    BY <2>1 DEF ArrivedBut
  <2>3. p = <<p[1], p[2]>> /\ place = <<place[1], place[2]>>
    BY <2>1 DEF Unique
  <2>4. <<p[2], u.index[p], p[1]>> # <<place[2], t.index[place], place[1]>>
    BY <2>1, <2>3
  <2> QED BY <2>2, <2>4
<1>5. DOMAIN u.index \subseteq A /\ IsFiniteSet(DOMAIN u.index) /\ u.dead \subseteq DOMAIN u.index
  BY FS_AddElement DEF Shelved
<1> QED BY <1>1, <1>2, <1>3, <1>4, <1>5 DEF Shelved

(* A tree in which a node took a placement.                                *)
Settled(t, u, A, N, place, node) ==
    /\ Kept(u) /\ Alike(t, u) /\ Shelved(u, A, N) /\ ArrivedBut(u, {place})
    /\ place \in DOMAIN u.index /\ u.index[place] = node
    /\ Claim(t, place, node) = "Fresh" =>
          /\ u.moved = t.moved /\ u.away = t.away \ {place}
          /\ \A n, p : Holds(u, n, p) <=> Holds(t, n, p) \/ (n = node /\ p = place)

LEMMA SeatedKept ==
  ASSUME NEW t, Kept(t), NEW A, NEW N, Shelved(t, A, N), ArrivedBut(t, {}), Unique(A), NEW place \in A,
         NEW node \in t.nodes \ {Fragment}, Claim(t, place, node) # "Refused"
  PROVE  Settled(t, Seated(t, place, node, Claim(t, place, node)), A, N, place, node)
<1> DEFINE claim == Claim(t, place, node)
           u == Seated(t, place, node, claim)
           held == t.index[place]
<1>1. IsTree(t) /\ Inhabited(t)
  BY DEF Kept, Shelved, Indexed
<1>2. CASE claim = "Fresh"
  <2>1. u = Takes(t, place, node) /\ place \notin DOMAIN t.index
    BY <1>2, ClaimIs DEF Seated
  <2>2. /\ Kept(u) /\ Alike(t, u) /\ u.log = t.log /\ u.moved = t.moved /\ Inhabited(u)
        /\ DOMAIN u.index = DOMAIN t.index \union {place}
        /\ \A p \in DOMAIN u.index : u.index[p] = IF p = place THEN node ELSE t.index[p]
        /\ \A n, p : Holds(u, n, p) <=> Holds(t, n, p) \/ (n = node /\ p = place)
        /\ u.away = t.away \ {place}
    BY <1>1, <2>1, TakesKept
  <2> HIDE DEF u, claim
  <2>3. \A n : ~Holds(t, n, place)
    BY <2>1 DEF Shelved, Indexed
  <2>4. Entries(u.log) = Entries(t.log) \ {<<place[2], held, place[1]>>}
    <3>1. <<place[2], held, place[1]>> \notin Entries(t.log)
      <4> DEFINE e == <<place[2], held, place[1]>>
      <4>1. <<e[3], e[1]>> = place
        BY DEF Unique
      <4> HIDE DEF e
      <4>2. e \notin Entries(t.log)
        BY <2>1, <4>1 DEF Shelved, Lodged
      <4> QED BY <4>2 DEF e
    <3> QED BY <2>2, <3>1
  <2>5. \A n \in N \ {Fragment} : Birth(n) # place
    BY <2>1 DEF Shelved, BirthsHeld
  <2>6. Shelved(u, A, N) /\ ArrivedBut(u, {place}) /\ u.index[place] = node
    <3>1. \A n, p : Holds(u, n, p) <=> \/ Holds(t, n, p) /\ p # place
                                       \/ n = node /\ p = place
      BY <2>2, <2>3
    <3>2. u.dead = t.dead
      BY <2>2 DEF Alike
    <3>3. \A n \in N \ {Fragment} : Birth(n) = place /\ IsOwner(n) => node = n
      BY <2>5
    <3>4. /\ Inhabited(u) /\ DOMAIN u.index = DOMAIN t.index \union {place}
          /\ \A p \in DOMAIN u.index : u.index[p] = IF p = place THEN node ELSE t.index[p]
      BY <2>2
    <3>5. Entries(u.log) = Entries(t.log) \ {<<place[2], t.index[place], place[1]>>}
      BY <2>4
    <3> HIDE DEF held
    <3> QED BY <3>1, <3>2, <3>3, <3>4, <3>5, TakenOver, SMTT(30)
  <2> QED BY <2>2, <2>6 DEF u, claim, Settled
<1>3. CASE claim = "Evicted"
  <2> DEFINE e == EvictPlacement(t, place, held)
  <2>1. /\ u = Takes(e, place, node) /\ place \in DOMAIN t.index
        /\ held # node /\ Outranks(place, node, held)
    BY <1>3, ClaimIs DEF Seated
  <2>2. Holds(t, held, place)
    BY <2>1 DEF Shelved, Indexed
  <2>3. /\ Kept(e) /\ Alike(t, e) /\ e.index = t.index /\ Inhabited(e)
        /\ Entries(e.log) = Entries(t.log) \ {<<place[2], held, place[1]>>}
        /\ \A n, p : Holds(e, n, p) <=> Holds(t, n, p) /\ ~(n = held /\ p = place)
    BY <1>1, <2>2, EvictKept
  <2> HIDE DEF e
  <2>4. node \in e.nodes \ {Fragment}
    BY <2>3 DEF Alike
  <2>5. /\ Kept(u) /\ Alike(e, u) /\ u.log = e.log /\ Inhabited(u)
        /\ DOMAIN u.index = DOMAIN e.index \union {place}
        /\ \A p \in DOMAIN u.index : u.index[p] = IF p = place THEN node ELSE e.index[p]
        /\ \A n, p : Holds(u, n, p) <=> Holds(e, n, p) \/ (n = node /\ p = place)
    BY <2>1, <2>3, <2>4, TakesKept
  <2> HIDE DEF u, claim
  <2>6. Alike(t, u)
    BY <2>3, <2>5 DEF Alike
  <2>7. \A n \in N \ {Fragment} : Birth(n) = place /\ IsOwner(n) => node = n
    <3> SUFFICES ASSUME NEW n \in N \ {Fragment}, Birth(n) = place, IsOwner(n) PROVE node = n
      OBVIOUS
    <3>1. Stamped(n) /\ held = n
      BY DEF Shelved, BirthsHeld, held
    <3>2. node # held => ~Outranks(Birth(n), node, n)
      BY <3>1, ElementStays
    <3> QED BY <2>1, <3>1, <3>2
  <2>8. \A n : Holds(t, n, place) => n = held
    BY DEF Shelved, Indexed, held
  <2>9. Shelved(u, A, N) /\ ArrivedBut(u, {place}) /\ u.index[place] = node
    <3>1. \A n, p : Holds(u, n, p) <=> \/ Holds(t, n, p) /\ p # place
                                       \/ n = node /\ p = place
      BY <2>3, <2>5, <2>8
    <3>2. u.dead = t.dead
      BY <2>6 DEF Alike
    <3> QED BY <2>3, <2>5, <2>7, <3>1, <3>2, TakenOver, SMTT(30)
  <2>10. place \in DOMAIN u.index
    BY <2>5
  <2> QED BY <1>3, <2>5, <2>6, <2>9, <2>10 DEF u, claim, Settled
<1>4. CASE claim = "Joined"
  <2>1. u = [t EXCEPT !.away = t.away \ {place}]
    BY <1>1, <1>4 DEF Seated, IsTree, Fields
  <2>2. place \in DOMAIN t.index /\ t.index[place] = node
    BY <1>4, ClaimIs
  <2>3. IsTree(u) /\ Alike(t, u) /\ u.log = t.log /\ u.moved = t.moved
    BY <1>1, <2>1 DEF IsTree, Fields, Alike
  <2>4. u.pending = t.pending /\ u.index = t.index /\ u.places = t.places
    BY <1>1, <2>1 DEF IsTree, Fields
  <2> HIDE DEF u, claim
  <2>5. Kept(u)
    BY <2>3, <2>4 DEF Kept, Placed, Alike
  <2>6. Shelved(u, A, N) /\ ArrivedBut(u, {})
    <3>1. u.dead = t.dead
      BY <2>3 DEF Alike
    <3> QED BY <2>3, <2>4, <3>1, ShelvedSame
  <2>7. ArrivedBut(u, {place})
    BY <2>6 DEF ArrivedBut
  <2> QED BY <1>4, <2>2, <2>3, <2>4, <2>5, <2>6, <2>7 DEF u, claim, Settled
<1> QED
  <2>1. claim \in {"Fresh", "Joined", "Evicted"}
    BY ClaimIs
  <2> QED BY <1>2, <1>3, <1>4, <2>1

(* What the fold leaves: of a node's placements, all but the live one are  *)
(* suppressed, and those deleted are not counted among them.               *)
Folded(t) == \A n \in DOMAIN t.places : t.places[n] \intersect t.away = (t.places[n] \ Live(t, n)) \ t.dead

LEMMA LiveSame ==
  ASSUME NEW t, NEW u, NEW n, u.places[n] = t.places[n], ParentOf(u, n) = ParentOf(t, n),
         u.places[n] \intersect u.dead = t.places[n] \intersect t.dead
  PROVE  Live(u, n) = Live(t, n)
BY DEF Live

LEMMA RefoldKept ==
  ASSUME NEW t, Kept(t), Indexed(t), t.nodes = DOMAIN t.base \union {Fragment}
  PROVE  LET u == RefoldMoves(t)
         IN /\ Kept(u) /\ Alike(t, u) /\ Folded(u)
            /\ u.log = t.log /\ u.index = t.index /\ u.places = t.places
<1> DEFINE u == RefoldMoves(t)
           placed == {n \in DOMAIN t.places : ParentOf(t, n) # {}}
           aw == ((t.away \ UNION {t.places[n] : n \in placed})
                     \union UNION {t.places[n] \ Live(t, n) : n \in placed}) \ t.dead
           pa == Over([n \in placed |-> CHOOSE p \in ParentOf(t, n) : TRUE], t.parents)
<1>1. IsTree(t)
  BY DEF Kept
<1>2. u = [t EXCEPT !.away = aw, !.parents = pa]
  BY <1>1, Zenon DEF RefoldMoves, IsTree, Fields
<1>3. placed = DOMAIN t.places
  <2>1. \A n \in DOMAIN t.base : ParentOf(t, n) # {}
    BY DEF ParentOf
  <2>2. DOMAIN t.places \subseteq DOMAIN t.base
    BY DEF Kept, Placed
  <2> QED BY <2>1, <2>2
<1>4. ASSUME NEW n \in DOMAIN t.places
      PROVE  t.places[n] \intersect aw = (t.places[n] \ Live(t, n)) \ t.dead
  <2> HIDE DEF placed
  <2>1. \A m \in DOMAIN t.places : \A p \in t.places[n] : p \in t.places[m] => m = n
    BY DEF Indexed, Holds
  <2>2. \A p \in t.places[n] : p \in UNION {t.places[m] \ Live(t, m) : m \in placed} <=> p \notin Live(t, n)
    BY <1>3, <2>1
  <2>3. \A p \in t.places[n] : p \in UNION {t.places[m] : m \in placed}
    BY <1>3
  <2> QED BY <2>2, <2>3
<1> HIDE DEF u, aw, pa, placed
<1>5. IsTree(u) /\ Alike(t, u) /\ u.log = t.log /\ u.moved = t.moved
  BY <1>1, <1>2 DEF IsTree, Fields, Alike
<1>6. u.pending = t.pending /\ u.index = t.index /\ u.places = t.places /\ u.away = aw
  BY <1>1, <1>2 DEF IsTree, Fields
<1>7. Kept(u)
  BY <1>5, <1>6 DEF Kept, Placed, Alike
<1>8. Folded(u)
  <2> SUFFICES ASSUME NEW n \in DOMAIN u.places
               PROVE  u.places[n] \intersect u.away = (u.places[n] \ Live(u, n)) \ u.dead
    BY DEF Folded
  <2>1. ParentOf(u, n) = ParentOf(t, n)
    BY <1>5 DEF ParentOf, Alike
  <2>2. Live(u, n) = Live(t, n)
    BY <1>5, <1>6, <2>1, LiveSame DEF Alike
  <2> QED BY <1>4, <1>5, <1>6, <2>2 DEF Alike
<1> QED BY <1>5, <1>6, <1>7, <1>8 DEF u

(* A tree as the operations leave it, but for what waits to be refolded.   *)
Filed(t, A) ==
    /\ Kept(t) /\ Shelved(t, A, t.nodes) /\ ArrivedBut(t, {})
    /\ t.nodes = DOMAIN t.base \union {Fragment}
    /\ \A n \in DOMAIN t.base : t.base[n] = Front(n)

(* An op of the log of `A`: where it places a node is one of A.            *)
GoodOp(op, A) ==
    /\ op.type \in {"XmlInsertChild", "XmlMove", "ListDelete"} /\ op.stamp \in Int \X Int
    /\ op.type # "ListDelete" => <<op.list, op.stamp>> \in A

GoodOps(s, A) == \E S : s \in Seq(S) /\ \A op \in S : GoodOp(op, A)

Buffered(t, A) == GoodOps(t.buffer, A) /\ t.clock \in Int

Sound(t, A) == Filed(t, A) /\ Folded(t) /\ Buffered(t, A)

LEMMA FragmentStamped == Stamped(Fragment)
BY DEF Stamped, Fragment

LEMMA NodesStamped ==
  ASSUME NEW t, NEW A, Filed(t, A), NEW n \in t.nodes
  PROVE  Stamped(n)
BY FragmentStamped DEF Filed, Shelved, BirthsHeld

LEMMA RefoldSound ==
  ASSUME NEW t, NEW A, Filed(t, A), Buffered(t, A)
  PROVE  Sound(RefoldMoves(t), A) /\ RefoldMoves(t).clock = t.clock
<1> DEFINE u == RefoldMoves(t)
<1>1. /\ Kept(u) /\ Alike(t, u) /\ Folded(u)
      /\ u.log = t.log /\ u.index = t.index /\ u.places = t.places
  BY RefoldKept DEF Filed, Shelved
<1> HIDE DEF u
<1>2. Shelved(u, A, t.nodes) /\ ArrivedBut(u, {})
  BY <1>1, ShelvedSame DEF Filed, Alike
<1>3. Filed(u, A)
  BY <1>1, <1>2 DEF Filed, Alike
<1>4. Buffered(u, A) /\ u.clock = t.clock
  BY <1>1 DEF Buffered, Alike
<1> QED BY <1>1, <1>3, <1>4 DEF Sound, u

(* What else of the tree changes does not matter to it.                    *)
LEMMA FiledSame ==
  ASSUME NEW t, NEW u, NEW A, Filed(t, A), Kept(u),
         u.nodes = t.nodes, u.base = t.base, u.moved = t.moved, u.log = t.log,
         u.index = t.index, u.places = t.places, u.dead = t.dead
  PROVE  Filed(u, A) /\ (Folded(t) /\ u.away = t.away => Folded(u))
<1>1. Filed(u, A)
  BY ShelvedSame DEF Filed
<1>2. ASSUME Folded(t), u.away = t.away, NEW n \in DOMAIN u.places
      PROVE  u.places[n] \intersect u.away = (u.places[n] \ Live(u, n)) \ u.dead
  <2>1. ParentOf(u, n) = ParentOf(t, n)
    BY DEF ParentOf
  <2>2. Live(u, n) = Live(t, n)
    BY <2>1, LiveSame
  <2> QED BY <1>2, <2>2 DEF Folded
<1> QED BY <1>1, <1>2 DEF Folded

(* A new node gets the parent it is created under.                         *)
LEMMA BirthKept ==
  ASSUME NEW t, Kept(t), NEW child \in t.nodes \ {Fragment}, child \notin DOMAIN t.base,
         NEW list \in DOMAIN t.base \union {Fragment}, IsOwner(list)
  PROVE  Kept([t EXCEPT !.base = Put(@, child, list)])
<1> DEFINE b == Put(t.base, child, list)
           u == [t EXCEPT !.base = b]
<1>1. IsTree(t) /\ Births(t.nodes, t.base)
  BY DEF Kept
<1>2. DOMAIN b = DOMAIN t.base \union {child} /\ \A n \in DOMAIN b : b[n] = IF n = child THEN list ELSE t.base[n]
  BY DEF Put
<1>3. b = [n \in DOMAIN b |-> b[n]]
  BY <1>2 DEF Put
<1>4. \A m : Hung(t.base, m) => Hung(b, m)
  <2>1. child # Fragment
    OBVIOUS
  <2> HIDE DEF b
  <2> QED BY <1>1, <2>1, LeafHangs DEF b
<1>5. t.log \in Seq(MoveOf(t.base)) /\ \E h : Trace(t.base, t.log, h) /\ h[Len(t.log)] = t.moved
  BY DEF Kept, Traced
<1> HIDE DEF b
<1>6. Births(t.nodes, b)
  BY <1>1, <1>2, <1>3 DEF Births
<1>7. MoveOf(t.base) \subseteq MoveOf(b)
  BY <1>2 DEF MoveOf
<1>8. t.log \in Seq(MoveOf(b))
  BY <1>5, <1>7
<1>9. Traced(b, t.log, t.moved)
  BY <1>4, <1>5, <1>8 DEF Traced, Trace
<1>10. IsTree(u) /\ u.base = b /\ u.nodes = t.nodes /\ u.log = t.log /\ u.moved = t.moved
  BY <1>1 DEF IsTree, Fields
<1>11. u.pending = t.pending /\ u.index = t.index /\ u.places = t.places
  BY <1>1 DEF IsTree, Fields
<1> HIDE DEF u
<1>12. Kept(u)
  BY <1>6, <1>9, <1>10, <1>11 DEF Kept, Placed
<1> QED BY <1>12 DEF u, b

(* A node with its first placement, made or waiting, has the rest of what  *)
(* is asked of a tree.                                                     *)
LEMMA BirthFiled ==
  ASSUME NEW t, NEW A, Filed(t, A), NEW v, Kept(v), NEW list \in t.nodes, IsOwner(list),
         NEW stamp \in Int \X Int, NEW kind, NEW child, child = XmlChildId(list, stamp, kind),
         v.nodes = t.nodes \union {child}, v.base = t.base,
         Shelved(v, A, t.nodes), ArrivedBut(v, {<<list, stamp>>}), <<list, stamp>> \in DOMAIN v.index,
         IsOwner(child) => v.index[<<list, stamp>>] = child,
         v.index[<<list, stamp>>] = child \/ ArrivedBut(v, {})
  PROVE  LET w == SetBase(v, child, list)
         IN /\ Filed(w, A) /\ w.buffer = v.buffer /\ w.clock = v.clock /\ w.dead = v.dead
            /\ w.moved = v.moved /\ w.index = v.index /\ w.places = v.places /\ w.away = v.away
            /\ w.base = IF child \in DOMAIN t.base THEN t.base ELSE Put(t.base, child, list)
<1> DEFINE w == SetBase(v, child, list)
           place == <<list, stamp>>
<1>1. t.nodes = DOMAIN t.base \union {Fragment} /\ \A n \in DOMAIN t.base : t.base[n] = Front(n)
  BY DEF Filed
<1>2. IsTree(v)
  BY DEF Kept
<1>3. child # Fragment /\ Stamped(child) /\ Front(child) = list /\ Birth(child) = place
  BY NodesStamped, ChildIs
<1> HIDE DEF w
<1>4. /\ Kept(w) /\ w.nodes = v.nodes /\ w.buffer = v.buffer /\ w.clock = v.clock /\ w.dead = v.dead
      /\ w.log = v.log /\ w.moved = v.moved
      /\ w.index = v.index /\ w.places = v.places /\ w.away = v.away
      /\ w.base = IF child \in DOMAIN t.base THEN t.base ELSE Put(t.base, child, list)
  <2>1. CASE child \in DOMAIN t.base
    <3>1. w = v
      BY <2>1 DEF SetBase, w
    <3> QED BY <2>1, <3>1
  <2>2. CASE child \notin DOMAIN t.base
    <3>1. w = [v EXCEPT !.base = Put(@, child, list)]
      BY <2>2 DEF SetBase, w
    <3>2. child \in v.nodes \ {Fragment} /\ child \notin DOMAIN v.base /\ list \in DOMAIN v.base \union {Fragment}
      BY <1>1, <1>3, <2>2
    <3>3. Kept(w)
      BY <3>1, <3>2, BirthKept
    <3>4. /\ w.nodes = v.nodes /\ w.buffer = v.buffer /\ w.clock = v.clock /\ w.dead = v.dead
          /\ w.log = v.log /\ w.moved = v.moved
      BY <1>2, <3>1 DEF IsTree, Fields
    <3>5. /\ w.index = v.index /\ w.places = v.places /\ w.away = v.away
          /\ w.base = Put(v.base, child, list)
      BY <1>2, <3>1 DEF IsTree, Fields
    <3> QED BY <2>2, <3>3, <3>4, <3>5
  <2> QED BY <2>1, <2>2
<1>5. DOMAIN w.base = DOMAIN t.base \union {child} /\ \A n \in DOMAIN w.base : w.base[n] = Front(n)
  BY <1>1, <1>3, <1>4 DEF Put
<1>6. BirthsHeld(v, t.nodes \union {child})
  BY <1>3 DEF Shelved, BirthsHeld
<1>7. ArrivedBut(v, {})
  <2> SUFFICES ASSUME v.index[place] = child PROVE ArrivedBut(v, {})
    OBVIOUS
  <2> QED BY <1>3 DEF ArrivedBut
<1>8. Shelved(v, A, v.nodes)
  BY <1>6 DEF Shelved
<1>9. Shelved(w, A, w.nodes) /\ ArrivedBut(w, {})
  BY <1>4, <1>7, <1>8, ShelvedSame
<1>10. w.nodes = DOMAIN w.base \union {Fragment}
  BY <1>1, <1>4, <1>5
<1>11. Filed(w, A)
  BY <1>4, <1>5, <1>9, <1>10 DEF Filed
<1> QED BY <1>4, <1>11 DEF w

(* A tree with one node more and nothing else of it changed.               *)
Widened(t, s, child) ==
    /\ Kept(s) /\ s.nodes = t.nodes \union {child} /\ s.base = t.base /\ s.moved = t.moved
    /\ s.log = t.log /\ s.places = t.places /\ s.index = t.index /\ s.dead = t.dead
    /\ s.away = t.away /\ s.buffer = t.buffer /\ s.clock = t.clock

LEMMA ShellIs ==
  ASSUME NEW t, Kept(t), NEW list, NEW child, child # Fragment, NEW tag
  PROVE  Widened(t, Shell(t, list, child, tag), child)
<1> DEFINE s == Shell(t, list, child, tag)
           tg == IF child \in t.nodes THEN t.tags ELSE Put(t.tags, child, tag)
           pa == Put(t.parents, child, list)
<1>1. IsTree(t) /\ Births(t.nodes, t.base) /\ Placed(t)
  BY DEF Kept
<1>2. s = [t EXCEPT !.nodes = t.nodes \union {child}, !.parents = pa, !.tags = tg]
  BY <1>1 DEF Shell, IsTree, Fields
<1> HIDE DEF s, tg, pa
<1>3. IsTree(s)
  BY <1>1, <1>2 DEF IsTree
<1>4. /\ s.nodes = t.nodes \union {child} /\ s.base = t.base /\ s.moved = t.moved
      /\ s.log = t.log /\ s.places = t.places /\ s.index = t.index
  BY <1>1, <1>2 DEF IsTree, Fields
<1>5. /\ s.dead = t.dead /\ s.away = t.away /\ s.buffer = t.buffer /\ s.clock = t.clock
      /\ s.pending = t.pending
  BY <1>1, <1>2 DEF IsTree, Fields
<1>6. Births(s.nodes, s.base)
  <2>1. IsFiniteSet(t.nodes \union {child})
    BY <1>1, FS_AddElement DEF Births
  <2> QED BY <1>1, <1>4, <2>1 DEF Births
<1>7. Kept(s)
  BY <1>1, <1>3, <1>4, <1>5, <1>6 DEF Kept, Placed
<1> QED BY <1>4, <1>5, <1>7 DEF s, Widened

(* A refused birth leaves a node that waits.                               *)
LEMMA WaitsIs ==
  ASSUME NEW s, Kept(s), NEW place, NEW child \in s.nodes \ {Fragment}
  PROVE  LET v == Born(s, place, child, "Refused")
         IN /\ Kept(v) /\ Alike(s, v) /\ v.log = s.log /\ v.moved = s.moved
            /\ v.places = s.places /\ v.index = s.index /\ v.away = s.away
<1> DEFINE v == Born(s, place, child, "Refused")
           pe == IF child \in DOMAIN s.places THEN s.pending ELSE s.pending \union {child}
<1>1. IsTree(s)
  BY DEF Kept
<1>2. v = [s EXCEPT !.pending = pe]
  BY <1>1 DEF Born, IsTree, Fields
<1>3. pe \subseteq s.nodes \ {Fragment}
  BY DEF Kept, Placed
<1> HIDE DEF pe, v
<1>4. IsTree(v) /\ Alike(s, v) /\ v.log = s.log /\ v.moved = s.moved
  BY <1>1, <1>2 DEF IsTree, Fields, Alike
<1>5. v.pending = pe /\ v.index = s.index /\ v.places = s.places /\ v.away = s.away
  BY <1>1, <1>2 DEF IsTree, Fields
<1>6. Kept(v)
  BY <1>3, <1>4, <1>5 DEF Kept, Placed, Alike
<1> QED BY <1>4, <1>5, <1>6 DEF v

(* A node at its first and only placement needs no fold.                   *)
LEMMA FreshFolded ==
  ASSUME NEW t, NEW A, Filed(t, A), Folded(t), NEW place, place \notin DOMAIN t.index,
         NEW child, child \notin t.nodes, NEW w, w.dead = t.dead, w.moved = t.moved,
         w.away = t.away \ {place}, w.base = Put(t.base, child, place[1]),
         \A n, p : Holds(w, n, p) <=> Holds(t, n, p) \/ (n = child /\ p = place),
         Inhabited(w), DOMAIN t.moved \subseteq DOMAIN t.base
  PROVE  Folded(w)
<1>1. /\ Indexed(t) /\ t.dead \subseteq DOMAIN t.index
      /\ DOMAIN t.places \subseteq t.nodes \ {Fragment} /\ t.nodes = DOMAIN t.base \union {Fragment}
  BY DEF Filed, Shelved, Kept, Placed
<1> SUFFICES ASSUME NEW n \in DOMAIN w.places
             PROVE  w.places[n] \intersect w.away = (w.places[n] \ Live(w, n)) \ w.dead
  BY DEF Folded
<1>2. CASE n = child
  <2>1. w.places[n] = {place}
    <3>1. \A p : p \in w.places[n] <=> p = place
      BY <1>1, <1>2 DEF Holds
    <3> QED BY <3>1
  <2>2. ParentOf(w, n) = {place[1]}
    <3>1. n \notin DOMAIN w.moved /\ n \in DOMAIN w.base /\ w.base[n] = place[1]
      BY <1>1, <1>2 DEF Put
    <3> QED BY <3>1 DEF ParentOf
  <2>3. Live(w, n) = {place}
    BY <1>1, <2>1, <2>2 DEF Live
  <2> QED BY <2>1, <2>3
<1>3. CASE n # child
  <2>1. n \in DOMAIN t.places /\ w.places[n] = t.places[n] /\ place \notin t.places[n]
    <3>1. \A p : p \in w.places[n] <=> Holds(t, n, p)
      BY <1>3 DEF Holds
    <3>2. n \in DOMAIN t.places
      <4>1. PICK p : p \in w.places[n]
        BY DEF Inhabited
      <4> QED BY <3>1, <4>1 DEF Holds
    <3>3. w.places[n] = t.places[n]
      BY <3>1, <3>2 DEF Holds
    <3> QED BY <1>1, <3>2, <3>3 DEF Indexed, Holds
  <2>2. ParentOf(w, n) = ParentOf(t, n)
    <3>1. n \in DOMAIN t.base /\ n \in DOMAIN w.base /\ w.base[n] = t.base[n]
      BY <1>1, <1>3, <2>1 DEF Put
    <3> QED BY <3>1 DEF ParentOf
  <2>3. Live(w, n) = Live(t, n)
    BY <2>1, <2>2, LiveSame
  <2>4. t.places[n] \intersect t.away = (t.places[n] \ Live(t, n)) \ t.dead
    BY <2>1 DEF Folded
  <2> QED BY <2>1, <2>3, <2>4
<1> QED BY <1>2, <1>3

LEMMA KeptHung ==
  ASSUME NEW t, Kept(t)
  PROVE  Hung(t.base, t.moved)
<1>1. t.log \in Seq(MoveOf(t.base)) /\ \E h : Trace(t.base, t.log, h) /\ h[Len(t.log)] = t.moved
  BY DEF Kept, Traced
<1>2. Len(t.log) \in 0 .. Len(t.log)
  BY <1>1
<1> QED BY <1>1, <1>2 DEF Trace

LEMMA InsertSound ==
  ASSUME NEW A, Unique(A), NEW t, Sound(t, A), NEW list, NEW kind, NEW tag,
         NEW stamp \in Int \X Int, <<list, stamp>> \in A
  PROVE  LET u == InsertXmlChild(t, list, kind, tag, stamp)
         IN Sound(u, A) /\ u.clock = t.clock
<1> DEFINE child == XmlChildId(list, stamp, kind)
           place == <<list, stamp>>
           claim == Claim(t, place, child)
           s == Shell(t, list, child, tag)
           v == Born(s, place, child, claim)
           w == SetBase(v, child, list)
           f == IF claim \in {"Joined", "Evicted"} THEN RefoldMoves(w) ELSE w
<1>1. InsertXmlChild(t, list, kind, tag, stamp) = IF HasList(t, list) THEN f ELSE t
  BY DEF InsertXmlChild
<1>2. CASE ~HasList(t, list)
  BY <1>1, <1>2
<1>3. CASE HasList(t, list)
  <2>1. list \in t.nodes /\ IsOwner(list) /\ Stamped(list)
    BY <1>3, NodesStamped DEF HasList, Sound, IsOwner
  <2>2. /\ child # Fragment /\ Stamped(child)
        /\ Front(child) = list /\ Last(child) = <<stamp, kind>> /\ Birth(child) = place
    BY <2>1, ChildIs
  <2>3. Filed(t, A) /\ Folded(t) /\ Buffered(t, A) /\ Kept(t) /\ Shelved(t, A, t.nodes) /\ ArrivedBut(t, {})
    BY DEF Sound, Filed
  <2>4. child = XmlChildId(list, stamp, kind) /\ place = <<list, stamp>> /\ place[1] = list
    OBVIOUS
  <2>5. child = XmlChildId(list, stamp, "element") \/ ~IsOwner(child)
    <3>1. IsOwner(child) => kind = "element"
      <4> HIDE DEF child
      <4> QED BY <2>2 DEF IsOwner
    <3> QED BY <3>1
  <2> HIDE DEF child, place
  <2>6. /\ Kept(s) /\ s.nodes = t.nodes \union {child} /\ s.base = t.base /\ s.moved = t.moved
        /\ s.log = t.log /\ s.places = t.places /\ s.index = t.index /\ s.dead = t.dead
        /\ s.away = t.away /\ s.buffer = t.buffer /\ s.clock = t.clock
    <3>1. Widened(t, s, child)
      BY <2>2, <2>3, ShellIs
    <3> QED BY <3>1 DEF Widened
  <2> HIDE DEF s
  <2>7. Shelved(s, A, t.nodes) /\ ArrivedBut(s, {}) /\ child \in s.nodes \ {Fragment}
    BY <2>2, <2>3, <2>6, ShelvedSame
  <2>8. Claim(s, place, child) = claim
    BY <2>6 DEF Claim
  <2> HIDE DEF claim
  <2>9. /\ Kept(v) /\ Alike(s, v) /\ Shelved(v, A, t.nodes) /\ ArrivedBut(v, {place})
        /\ place \in DOMAIN v.index /\ (IsOwner(child) => v.index[place] = child)
        /\ (v.index[place] = child \/ ArrivedBut(v, {}))
        /\ claim = "Fresh" =>
              /\ v.moved = t.moved /\ v.away = t.away \ {place}
              /\ \A n, p : Holds(v, n, p) <=> Holds(t, n, p) \/ (n = child /\ p = place)
        /\ claim = "Refused" => v.moved = t.moved /\ v.away = t.away /\ v.places = t.places
    <3>1. CASE claim # "Refused"
      <4>1. v = Seated(s, place, child, Claim(s, place, child)) /\ Claim(s, place, child) # "Refused"
        BY <2>8, <3>1 DEF Born
      <4> HIDE DEF v
      <4>2. place \in A
        BY <2>4
      <4>3. Settled(s, v, A, t.nodes, place, child)
        BY <2>6, <2>7, <4>1, <4>2, SeatedKept
      <4>4. \A n, p : Holds(s, n, p) <=> Holds(t, n, p)
        BY <2>6 DEF Holds
      <4> QED BY <2>6, <2>8, <3>1, <4>3, <4>4 DEF Settled
    <3>2. CASE claim = "Refused"
      <4>1. v = Born(s, place, child, "Refused")
        BY <3>2
      <4>2. /\ Kept(v) /\ Alike(s, v) /\ v.log = s.log /\ v.moved = s.moved
            /\ v.places = s.places /\ v.index = s.index /\ v.away = s.away
        BY <2>6, <2>7, <4>1, WaitsIs
      <4> HIDE DEF v
      <4>3. Shelved(v, A, t.nodes) /\ ArrivedBut(v, {})
        BY <2>7, <4>2, ShelvedSame DEF Alike
      <4>4. ArrivedBut(v, {place})
        BY <4>3 DEF ArrivedBut
      <4>5. place \in DOMAIN s.index /\ s.index[place] # child /\ ~Outranks(place, child, s.index[place])
        BY <2>8, <3>2, ClaimIs
      <4>6. ~IsOwner(child)
        BY <2>1, <2>4, <2>5, <4>5, ElementWins
      <4> QED BY <2>6, <3>2, <4>2, <4>3, <4>4, <4>5, <4>6
    <3> QED BY <3>1, <3>2
  <2>10. v.nodes = t.nodes \union {child} /\ v.base = t.base /\ v.buffer = t.buffer /\ v.clock = t.clock /\ v.dead = t.dead
    BY <2>6, <2>9 DEF Alike
  <2> HIDE DEF v
  <2>11. /\ Filed(w, A) /\ w.buffer = v.buffer /\ w.clock = v.clock /\ w.dead = v.dead
         /\ w.moved = v.moved /\ w.index = v.index /\ w.places = v.places /\ w.away = v.away
         /\ w.base = IF child \in DOMAIN t.base THEN t.base ELSE Put(t.base, child, list)
    BY <2>1, <2>3, <2>4, <2>9, <2>10, BirthFiled DEF place
  <2> HIDE DEF w
  <2>12. Buffered(w, A) /\ w.clock = t.clock
    BY <2>3, <2>10, <2>11 DEF Buffered
  <2>13. CASE claim \in {"Joined", "Evicted"}
    <3>1. Sound(RefoldMoves(w), A) /\ RefoldMoves(w).clock = w.clock
      BY <2>11, <2>12, RefoldSound
    <3> QED BY <1>1, <1>3, <2>12, <2>13, <3>1
  <2>14. CASE claim = "Fresh"
    <3>1. place \notin DOMAIN t.index
      BY <2>14, ClaimIs DEF claim
    <3>2. child \notin t.nodes
      BY <2>2, <2>3, <3>1 DEF Shelved, BirthsHeld
    <3>3. child \notin DOMAIN t.base /\ DOMAIN t.moved \subseteq DOMAIN t.base
      BY <2>3, <3>2, KeptHung DEF Hung, Moves, Filed
    <3>4. \A n, p : Holds(w, n, p) <=> Holds(t, n, p) \/ (n = child /\ p = place)
      BY <2>9, <2>11, <2>14 DEF Holds
    <3>5. Inhabited(w)
      BY <2>11 DEF Filed, Shelved, Indexed
    <3>6. w.dead = t.dead /\ w.moved = t.moved /\ w.away = t.away \ {place} /\ w.base = Put(t.base, child, place[1])
      BY <2>4, <2>9, <2>10, <2>11, <2>14, <3>3
    <3>7. Folded(w)
      BY <2>3, <3>1, <3>2, <3>3, <3>4, <3>5, <3>6, FreshFolded, SMTT(30)
    <3> QED BY <1>1, <1>3, <2>11, <2>12, <2>14, <3>7 DEF Sound
  <2>15. CASE claim = "Refused"
    <3>1. ASSUME NEW n \in DOMAIN w.places
          PROVE  w.places[n] \intersect w.away = (w.places[n] \ Live(w, n)) \ w.dead
      <4>1. w.moved = t.moved /\ w.away = t.away /\ w.places = t.places /\ w.dead = t.dead
        BY <2>9, <2>10, <2>11, <2>15
      <4>2. n \in DOMAIN t.base
        BY <2>3, <3>1, <4>1 DEF Filed, Kept, Placed
      <4>3. n \in DOMAIN w.base /\ w.base[n] = t.base[n]
        BY <2>11, <4>2 DEF Put
      <4>4. ParentOf(w, n) = ParentOf(t, n)
        BY <4>1, <4>2, <4>3 DEF ParentOf
      <4>5. Live(w, n) = Live(t, n)
        BY <4>1, <4>4, LiveSame
      <4> QED BY <2>3, <4>1, <4>5 DEF Folded
    <3>2. Folded(w)
      BY <3>1 DEF Folded
    <3> QED BY <1>1, <1>3, <2>11, <2>12, <2>15, <3>2 DEF Sound
  <2>16. claim \in {"Fresh", "Joined", "Evicted", "Refused"}
    BY ClaimIs DEF claim
  <2> QED BY <2>13, <2>14, <2>15, <2>16
<1> QED BY <1>2, <1>3

(* The move that brings a node to a placement is logged, and was not there *)
(* for another node.                                                       *)
LEMMA LoggedShelved ==
  ASSUME NEW A, Unique(A), NEW t, NEW N, Shelved(t, A, N), NEW list, NEW stamp, NEW node,
         <<list, stamp>> \in DOMAIN t.index, t.index[<<list, stamp>>] = node,
         ArrivedBut(t, {<<list, stamp>>}),
         NEW u, u.index = t.index, u.places = t.places, u.dead = t.dead,
         IF \E e \in Entries(t.log) : e[1] = stamp THEN Entries(u.log) = Entries(t.log)
         ELSE Entries(u.log) = Entries(t.log) \union {<<stamp, node, list>>}
  PROVE  Shelved(u, A, N) /\ ArrivedBut(u, {})
<1> DEFINE place == <<list, stamp>>
           new == <<stamp, node, list>>
<1>1. place \in A /\ place[1] = list /\ place[2] = stamp
  BY DEF Shelved
<1>2. new \in Entries(u.log) /\ Entries(u.log) = Entries(t.log) \union {new}
  <2>1. CASE \E e \in Entries(t.log) : e[1] = stamp
    <3>1. PICK e \in Entries(t.log) : e[1] = stamp
      BY <2>1
    <3>2. <<e[3], e[1]>> \in A /\ t.index[<<e[3], e[1]>>] = e[2] /\ e = <<e[1], e[2], e[3]>>
      BY EntryIs DEF Shelved, Lodged
    <3>3. <<e[3], e[1]>>[2] = place[2]
      BY <3>1
    <3>4. <<e[3], e[1]>> = place
      BY <1>1, <3>2, <3>3 DEF Unique
    <3>5. e[3] = list
      BY <3>4
    <3> QED BY <2>1, <3>1, <3>2, <3>4, <3>5
  <2>2. CASE ~(\E e \in Entries(t.log) : e[1] = stamp)
    BY <2>2
  <2> QED BY <2>1, <2>2
<1>3. new[1] = stamp /\ new[2] = node /\ new[3] = list
  OBVIOUS
<1>4. Lodged(u)
  <2> HIDE DEF new
  <2> QED BY <1>2, <1>3 DEF Shelved, Lodged
<1>5. ArrivedBut(u, {})
  <2> HIDE DEF new
  <2> SUFFICES ASSUME NEW p \in DOMAIN u.index
               PROVE  p = Birth(u.index[p]) \/ <<p[2], u.index[p], p[1]>> \in Entries(u.log)
    BY DEF ArrivedBut
  <2>1. CASE p = place
    BY <1>1, <1>2, <2>1 DEF new
  <2>2. CASE p # place
    BY <1>2, <2>2 DEF ArrivedBut
  <2> QED BY <2>1, <2>2
<1>6. Inhabited(u) /\ \A n, p : Holds(u, n, p) <=> Holds(t, n, p)
  BY DEF Shelved, Indexed, Inhabited, Holds
<1>7. Indexed(u)
  BY <1>6 DEF Shelved, Indexed
<1> QED BY <1>4, <1>5, <1>7 DEF Shelved, BirthsHeld

LEMMA MoveSound ==
  ASSUME NEW A, Unique(A), NEW t, Sound(t, A), NEW list, NEW node,
         NEW stamp \in Int \X Int, <<list, stamp>> \in A
  PROVE  LET u == ApplyMove(t, list, node, stamp)
         IN Sound(u, A) /\ u.clock = t.clock
<1> DEFINE place == <<list, stamp>>
           claim == Claim(t, place, node)
           u == Seated(t, place, node, claim)
           l == LogMove(u, stamp, node, list)
           v == [l EXCEPT !.pending = @ \ {node}]
           inert == node \notin DOMAIN t.places \union t.pending \/ ~HasList(t, list) \/ claim = "Refused"
<1>1. ApplyMove(t, list, node, stamp) = IF inert THEN t ELSE RefoldMoves(v)
  BY DEF ApplyMove
<1>2. CASE inert
  BY <1>1, <1>2
<1>3. CASE ~inert
  <2>1. /\ Filed(t, A) /\ Buffered(t, A) /\ Kept(t) /\ Shelved(t, A, t.nodes) /\ ArrivedBut(t, {})
        /\ t.nodes = DOMAIN t.base \union {Fragment} /\ \A n \in DOMAIN t.base : t.base[n] = Front(n)
    BY DEF Sound, Filed
  <2>2. /\ node \in t.nodes \ {Fragment} /\ node \in DOMAIN t.base
        /\ list \in DOMAIN t.base \union {Fragment} /\ IsOwner(list)
    BY <1>3, <2>1 DEF HasList, Kept, Placed, IsOwner
  <2>3. Settled(t, u, A, t.nodes, place, node)
    <3>1. claim # "Refused" /\ place \in A
      BY <1>3
    <3> HIDE DEF place
    <3> QED BY <2>1, <2>2, <3>1, SeatedKept
  <2> HIDE DEF u, claim, inert
  <2>4. /\ Kept(u) /\ Alike(t, u) /\ Shelved(u, A, t.nodes) /\ ArrivedBut(u, {place})
        /\ place \in DOMAIN u.index /\ u.index[place] = node
    BY <2>3 DEF Settled
  <2>5. PICK log, moved :
            /\ l = With(u, log, moved) /\ Traced(u.base, log, moved) /\ Sorted(log)
            /\ IF \E e \in Entries(u.log) : e[1] = stamp THEN Entries(log) = Entries(u.log)
               ELSE Entries(log) = Entries(u.log) \union {<<stamp, node, list>>}
    <3>1. node \in DOMAIN u.base /\ list \in DOMAIN u.base \union {Fragment}
      BY <2>2, <2>4 DEF Alike
    <3>2. IsTree(u) /\ Births(u.nodes, u.base) /\ Traced(u.base, u.log, u.moved) /\ Sorted(u.log)
      BY <2>4 DEF Kept
    <3> QED BY <2>2, <3>1, <3>2, LogMoveTraced
  <2>6. Kept(l) /\ Alike(u, l) /\ l.log = log /\ l.index = u.index /\ l.places = u.places
    BY <2>4, <2>5, WithKept
  <2> HIDE DEF l
  <2>7. Shelved(l, A, t.nodes) /\ ArrivedBut(l, {})
    <3>1. l.dead = u.dead
      BY <2>6 DEF Alike
    <3>2. IF \E e \in Entries(u.log) : e[1] = stamp THEN Entries(l.log) = Entries(u.log)
          ELSE Entries(l.log) = Entries(u.log) \union {<<stamp, node, list>>}
      BY <2>5, <2>6
    <3> QED BY <2>4, <2>6, <3>1, <3>2, LoggedShelved, SMTT(30)
  <2>8. IsTree(l)
    BY <2>6 DEF Kept
  <2>9. IsTree(v) /\ Alike(l, v) /\ v.log = l.log /\ v.moved = l.moved
    BY <2>8 DEF IsTree, Fields, Alike
  <2>10. v.pending = l.pending \ {node} /\ v.index = l.index /\ v.places = l.places
    BY <2>8 DEF IsTree, Fields
  <2> HIDE DEF v
  <2>11. Kept(v)
    BY <2>6, <2>9, <2>10 DEF Kept, Placed, Alike
  <2>12. Alike(t, v)
    BY <2>4, <2>6, <2>9 DEF Alike
  <2>13. Shelved(v, A, v.nodes) /\ ArrivedBut(v, {})
    <3>1. v.dead = l.dead /\ v.nodes = t.nodes
      BY <2>9, <2>12 DEF Alike
    <3> QED BY <2>7, <2>9, <2>10, <3>1, ShelvedSame
  <2>14. Filed(v, A) /\ Buffered(v, A) /\ v.clock = t.clock
    BY <2>1, <2>11, <2>12, <2>13 DEF Filed, Alike, Buffered
  <2>15. Sound(RefoldMoves(v), A) /\ RefoldMoves(v).clock = v.clock
    BY <2>14, RefoldSound
  <2> QED BY <1>1, <1>3, <2>14, <2>15 DEF inert
<1> QED BY <1>2, <1>3

LEMMA DeleteSound ==
  ASSUME NEW A, NEW t, Sound(t, A), NEW place
  PROVE  LET u == ListDelete(t, place)
         IN Sound(u, A) /\ u.clock = t.clock
<1> DEFINE u == [t EXCEPT !.dead = @ \union {place}, !.away = @ \ {place}]
<1>1. ListDelete(t, place) = IF place \notin DOMAIN t.index THEN t ELSE RefoldMoves(u)
  BY DEF ListDelete
<1>2. CASE place \notin DOMAIN t.index
  BY <1>1, <1>2
<1>3. CASE place \in DOMAIN t.index
  <2>1. /\ Filed(t, A) /\ Buffered(t, A) /\ Kept(t) /\ IsTree(t) /\ Shelved(t, A, t.nodes) /\ ArrivedBut(t, {})
    BY DEF Sound, Filed, Kept
  <2>2. /\ IsTree(u) /\ u.nodes = t.nodes /\ u.base = t.base /\ u.buffer = t.buffer /\ u.clock = t.clock
        /\ u.log = t.log /\ u.moved = t.moved
    BY <2>1 DEF IsTree, Fields
  <2>3. u.pending = t.pending /\ u.index = t.index /\ u.places = t.places /\ u.dead = t.dead \union {place}
    BY <2>1 DEF IsTree, Fields
  <2> HIDE DEF u
  <2>4. Kept(u)
    BY <2>1, <2>2, <2>3 DEF Kept, Placed
  <2>5. Inhabited(u) /\ \A n, p : Holds(u, n, p) <=> Holds(t, n, p)
    BY <2>1, <2>3 DEF Shelved, Indexed, Inhabited, Holds
  <2>6. Indexed(u)
    BY <2>1, <2>3, <2>5 DEF Shelved, Indexed
  <2>7. Lodged(u) /\ BirthsHeld(u, u.nodes) /\ ArrivedBut(u, {})
    BY <2>1, <2>2, <2>3 DEF Shelved, Lodged, BirthsHeld, ArrivedBut
  <2>8. Shelved(u, A, u.nodes)
    BY <1>3, <2>1, <2>3, <2>6, <2>7 DEF Shelved
  <2>9. Filed(u, A) /\ Buffered(u, A)
    BY <2>1, <2>2, <2>4, <2>7, <2>8 DEF Filed, Buffered
  <2>10. Sound(RefoldMoves(u), A) /\ RefoldMoves(u).clock = u.clock
    BY <2>9, RefoldSound
  <2> QED BY <1>1, <1>3, <2>2, <2>10
<1> QED BY <1>2, <1>3

(* Every op keeps the tree sound, and the clock is past the op's stamp.    *)
LEMMA ApplySound ==
  ASSUME NEW A, Unique(A), NEW t, Sound(t, A), NEW op, GoodOp(op, A)
  PROVE  LET u == ApplyNow(t, op)
         IN Sound(u, A) /\ u.clock \in Int /\ u.clock >= t.clock /\ u.clock >= op.stamp[1]
<1> DEFINE high == Max({t.clock, op.stamp[1]})
           u == [t EXCEPT !.seen = @ \union {op.id}, !.clock = high]
           x == ApplyNow(t, op)
<1>1. Kept(t) /\ IsTree(t) /\ t.clock \in Int /\ op.stamp[1] \in Int
  BY DEF Sound, Filed, Kept, Buffered, GoodOp
<1>2. high \in Int /\ high >= t.clock /\ high >= op.stamp[1]
  <2>1. \E y \in {t.clock, op.stamp[1]} : \A z \in {t.clock, op.stamp[1]} : y >= z
    BY <1>1
  <2>2. high \in {t.clock, op.stamp[1]} /\ \A z \in {t.clock, op.stamp[1]} : high >= z
    BY <2>1 DEF Max
  <2> HIDE DEF high
  <2> QED BY <1>1, <2>2
<1>3. x = ApplyKind(u, op)
  BY <1>1 DEF ApplyNow, IsTree, Fields
<1> HIDE DEF high, x
<1>4. IsTree(u) /\ u.nodes = t.nodes /\ u.base = t.base /\ u.log = t.log /\ u.moved = t.moved
  BY <1>1 DEF IsTree, Fields
<1>5. u.pending = t.pending /\ u.index = t.index /\ u.places = t.places /\ u.buffer = t.buffer /\ u.clock = high
  BY <1>1 DEF IsTree, Fields
<1>6. u.dead = t.dead /\ u.away = t.away
  BY <1>1 DEF IsTree, Fields
<1> HIDE DEF u
<1>7. Kept(u)
  BY <1>1, <1>4, <1>5 DEF Kept, Placed
<1>8. Sound(u, A)
  <2>1. Filed(u, A) /\ Folded(u)
    BY <1>4, <1>5, <1>6, <1>7, FiledSame DEF Sound
  <2> QED BY <1>2, <1>5, <2>1 DEF Sound, Buffered
<1>9. Sound(x, A) /\ x.clock = u.clock
  <2>1. CASE op.type = "XmlInsertChild"
    <3>1. x = InsertXmlChild(u, op.list, op.kind, op.tag, op.stamp)
      BY <1>3, <2>1 DEF ApplyKind
    <3>2. op.stamp \in Int \X Int /\ <<op.list, op.stamp>> \in A
      BY <2>1 DEF GoodOp
    <3> QED BY <1>8, <3>1, <3>2, InsertSound
  <2>2. CASE op.type = "XmlMove"
    <3>1. x = ApplyMove(u, op.list, op.node, op.stamp)
      BY <1>3, <2>2 DEF ApplyKind
    <3>2. op.stamp \in Int \X Int /\ <<op.list, op.stamp>> \in A
      BY <2>2 DEF GoodOp
    <3> QED BY <1>8, <3>1, <3>2, MoveSound
  <2>3. CASE op.type = "ListDelete"
    <3>1. x = ListDelete(u, <<op.list, op.at>>)
      BY <1>3, <2>3 DEF ApplyKind
    <3> QED BY <1>8, <3>1, DeleteSound
  <2> QED BY <2>1, <2>2, <2>3 DEF GoodOp
<1> QED BY <1>2, <1>5, <1>9 DEF x

(* More ops elsewhere do not disturb a tree.                               *)
LEMMA SoundGrows ==
  ASSUME NEW A, NEW B, A \subseteq B
  PROVE  /\ \A op : GoodOp(op, A) => GoodOp(op, B)
         /\ \A s : GoodOps(s, A) => GoodOps(s, B)
         /\ \A t : Sound(t, A) => Sound(t, B)
<1>1. \A op : GoodOp(op, A) => GoodOp(op, B)
  BY DEF GoodOp
<1>2. \A s : GoodOps(s, A) => GoodOps(s, B)
  BY <1>1 DEF GoodOps
<1>3. \A t, N : Shelved(t, A, N) => Shelved(t, B, N)
  BY DEF Shelved
<1> QED BY <1>1, <1>2, <1>3 DEF Sound, Filed, Buffered

-----------------------------------------------------------------------------
(***************************************************************************)
(* The buffer.                                                             *)
(***************************************************************************)
LEMMA MinIn ==
  ASSUME NEW S \in SUBSET Nat, S # {}
  PROVE  Min(S) \in S
<1>1. PICK x \in S : \A y \in S : ~(<<y, x>> \in OpToRel(<, Nat))
  BY NatLessThanWellFounded, WFMin
<1>2. \A y \in Nat : y < x => y \notin S
  BY <1>1 DEF OpToRel
<1>3. \E z \in S : \A y \in S : z =< y
  BY <1>2
<1> QED BY <1>3 DEF Min

(* A tree with another buffer.                                             *)
LEMMA BufferSound ==
  ASSUME NEW A, NEW t, Sound(t, A), NEW buffer, GoodOps(buffer, A)
  PROVE  Sound([t EXCEPT !.buffer = buffer], A) /\ [t EXCEPT !.buffer = buffer].clock = t.clock
<1> DEFINE u == [t EXCEPT !.buffer = buffer]
<1>1. IsTree(t) /\ Kept(t)
  BY DEF Sound, Filed, Kept
<1>2. /\ IsTree(u) /\ u.nodes = t.nodes /\ u.base = t.base /\ u.log = t.log /\ u.moved = t.moved
      /\ u.buffer = buffer /\ u.clock = t.clock
  BY <1>1 DEF IsTree, Fields
<1>3. u.pending = t.pending /\ u.index = t.index /\ u.places = t.places /\ u.dead = t.dead /\ u.away = t.away
  BY <1>1 DEF IsTree, Fields
<1> HIDE DEF u
<1>4. Kept(u)
  BY <1>1, <1>2, <1>3 DEF Kept, Placed
<1>5. Filed(u, A) /\ Folded(u)
  BY <1>2, <1>3, <1>4, FiledSame DEF Sound
<1>6. Sound(u, A)
  BY <1>2, <1>5 DEF Sound, Buffered
<1> QED BY <1>2, <1>6 DEF u

LEMMA DrainStepSound ==
  ASSUME NEW A, Unique(A), NEW t, Sound(t, A)
  PROVE  Sound(DrainStep(t), A) /\ DrainStep(t).clock \in Int /\ DrainStep(t).clock >= t.clock
<1> DEFINE ready == {i \in DOMAIN t.buffer : Ready(t, t.buffer[i])}
           i == Min(ready)
           rest == RemoveAt(t.buffer, i)
           u == [t EXCEPT !.buffer = rest]
<1>1. DrainStep(t) = IF ready = {} THEN t ELSE ApplyNow(u, t.buffer[i])
  <2>1. IsTree(t)
    BY DEF Sound, Filed, Kept
  <2> QED BY <2>1 DEF DrainStep, IsTree, Fields
<1>2. CASE ready = {}
  <2>1. t.clock \in Int
    BY DEF Sound, Buffered
  <2> QED BY <1>1, <1>2, <2>1
<1>3. CASE ready # {}
  <2>1. PICK S : t.buffer \in Seq(S) /\ \A op \in S : GoodOp(op, A)
    BY DEF Sound, Buffered, GoodOps
  <2>2. i \in DOMAIN t.buffer
    <3>1. ready \in SUBSET Nat /\ ready \subseteq DOMAIN t.buffer
      BY <2>1
    <3> HIDE DEF ready
    <3> QED BY <1>3, <3>1, MinIn
  <2> HIDE DEF ready, i
  <2>3. i \in 1 .. Len(t.buffer) /\ t.buffer[i] \in S /\ GoodOp(t.buffer[i], A)
    BY <2>1, <2>2
  <2>4. rest \in Seq(S)
    <3>1. SubSeq(t.buffer, 1, i - 1) \in Seq(S) /\ SubSeq(t.buffer, i + 1, Len(t.buffer)) \in Seq(S)
      BY <2>1, <2>3
    <3> QED BY <3>1 DEF RemoveAt
  <2> HIDE DEF rest
  <2>5. Sound(u, A) /\ u.clock = t.clock
    <3>1. GoodOps(rest, A)
      BY <2>1, <2>4 DEF GoodOps
    <3> QED BY <3>1, BufferSound
  <2> HIDE DEF u
  <2> QED BY <1>1, <1>3, <2>3, <2>5, ApplySound
<1> QED BY <1>2, <1>3

LEMMA DrainSound ==
  ASSUME NEW A, Unique(A), NEW t, Sound(t, A)
  PROVE  Sound(DrainBuffer(t), A) /\ DrainBuffer(t).clock \in Int /\ DrainBuffer(t).clock >= t.clock
<1> DEFINE turns == t.buffer
           n == Len(turns)
<1>1. n \in Nat /\ t.clock \in Int
  BY DEF Sound, Buffered, GoodOps
<1> HIDE DEF turns
<1>2. PICK g : /\ g[0] = t
               /\ \A i \in 1 .. n : g[i] = DrainStep(g[i - 1])
               /\ DrainAll(t, turns) = g[n]
  BY <1>1, DrainFold
<1> HIDE DEF n
<1> DEFINE S == {i \in 0 .. n : Sound(g[i], A) /\ g[i].clock \in Int /\ g[i].clock >= t.clock}
<1>3. 0 \in S
  BY <1>1, <1>2
<1>4. ASSUME NEW i \in 1 .. n, i - 1 \in S PROVE i \in S
  <2>1. Sound(g[i - 1], A) /\ g[i - 1].clock \in Int /\ g[i - 1].clock >= t.clock
    BY <1>4
  <2>2. Sound(g[i], A) /\ g[i].clock \in Int /\ g[i].clock >= g[i - 1].clock
    BY <1>2, <2>1, DrainStepSound
  <2> QED BY <1>1, <2>1, <2>2
<1>5. n \in S
  <2> HIDE DEF S
  <2>1. \A i \in 0 .. n : i \in S
    BY <1>1, <1>3, <1>4, UpTo DEF n
  <2> QED BY <1>1, <2>1 DEF n
<1> QED BY <1>2, <1>5 DEF DrainBuffer, turns

LEMMA ReceiveSound ==
  ASSUME NEW A, Unique(A), NEW t, Sound(t, A), NEW op, GoodOp(op, A)
  PROVE  Sound(Apply(t, op), A) /\ Apply(t, op).clock \in Int /\ Apply(t, op).clock >= t.clock
<1>0. t.clock \in Int
  BY DEF Sound, Buffered
<1>1. CASE Ready(t, op)
  <2> DEFINE u == ApplyNow(t, op)
  <2>1. Sound(u, A) /\ u.clock \in Int /\ u.clock >= t.clock
    BY ApplySound
  <2> HIDE DEF u
  <2>2. Sound(DrainBuffer(u), A) /\ DrainBuffer(u).clock \in Int /\ DrainBuffer(u).clock >= u.clock
    BY <2>1, DrainSound
  <2>3. Apply(t, op) = DrainBuffer(u)
    BY <1>1 DEF Apply, u
  <2> QED BY <1>0, <2>1, <2>2, <2>3
<1>2. CASE ~Ready(t, op)
  <2> DEFINE buffer == Append(t.buffer, op)
             u == [t EXCEPT !.buffer = buffer]
  <2>1. IsTree(t)
    BY DEF Sound, Filed, Kept
  <2>2. GoodOps(buffer, A)
    <3>1. PICK S : t.buffer \in Seq(S) /\ \A o \in S : GoodOp(o, A)
      BY DEF Sound, Buffered, GoodOps
    <3> DEFINE T == S \union {op}
    <3>2. t.buffer \in Seq(T) /\ op \in T /\ \A o \in T : GoodOp(o, A)
      BY <3>1, SeqMonotonic
    <3> HIDE DEF T
    <3> QED BY <3>2 DEF GoodOps
  <2>3. Apply(t, op) = u
    BY <1>2, <2>1 DEF Apply, IsTree, Fields
  <2> HIDE DEF buffer
  <2>4. Sound(u, A) /\ u.clock = t.clock
    BY <2>2, BufferSound
  <2> QED BY <1>0, <2>3, <2>4
<1> QED BY <1>1, <1>2

-----------------------------------------------------------------------------
(***************************************************************************)
(* Recordings: what an edit or an undo emits and the inverses it records.  *)
(* Each op is minted past the clock, so that no placement of its client    *)
(* has its stamp yet.                                                      *)
(***************************************************************************)
RecordingFields == {"tree", "client", "ops", "steps", "elements", "revived"}

GoodStep(s) ==
    /\ s.type \in {"ListDelete", "XmlMove", "ReviveNode"}
    /\ s.type = "ReviveNode" => Len(s.snapshot) \in Nat

GoodSteps(q) == \E S : q \in Seq(S) /\ \A s \in S : GoodStep(s)

Placements(O) == {<<op.list, op.stamp>> : op \in {o \in O : o.type # "ListDelete"}}

Reach(A, q) == A \union Placements(Range(q))

Below(c, t, A) == \A p \in A : p[2][2] = c => p[2][1] <= t.clock

GoodRecording(r, A, c) ==
    /\ r = [f \in RecordingFields |-> r[f]]
    /\ r.client = c /\ c \in Int /\ GoodSteps(r.steps)
    /\ GoodOps(r.ops, Reach(A, r.ops)) /\ Sound(r.tree, Reach(A, r.ops))
    /\ Unique(Reach(A, r.ops)) /\ Below(c, r.tree, Reach(A, r.ops))
    /\ \A p \in Reach(A, r.ops) \ A : p[2][2] = c

LEMMA RecordingGood ==
  ASSUME NEW A, Unique(A), NEW t, Sound(t, A), NEW c \in Int, Below(c, t, A), NEW elements, NEW revived
  PROVE  GoodRecording(Recording(t, c, elements, revived), A, c)
<1> DEFINE r == Recording(t, c, elements, revived)
<1>1. r.tree = t /\ r.client = c /\ r.ops = <<>> /\ r.steps = <<>>
  BY DEF Recording
<1>2. r = [f \in RecordingFields |-> r[f]]
  BY DEF Recording, RecordingFields
<1>3. GoodOps(<<>>, A) /\ GoodSteps(<<>>)
  <2> DEFINE Z == {}
  <2>1. <<>> \in Seq(Z) /\ (\A op \in Z : GoodOp(op, A)) /\ \A s \in Z : GoodStep(s)
    OBVIOUS
  <2> HIDE DEF Z
  <2> QED BY <2>1 DEF GoodOps, GoodSteps
<1>4. Reach(A, <<>>) = A
  <2>1. Range(<<>>) = {}
    BY DEF Range
  <2> QED BY <2>1 DEF Reach, Placements
<1> HIDE DEF r
<1> QED BY <1>1, <1>2, <1>3, <1>4 DEF GoodRecording, r

LEMMA SnapshotLength ==
  ASSUME NEW A, NEW t, Sound(t, A), NEW node
  PROVE  Len(Snapshot(t, node)) \in Nat
<1> DEFINE subtree == {node} \union Under(t, node)
<1>1. IsFiniteSet(t.nodes) /\ DOMAIN t.places \subseteq t.nodes
  BY DEF Sound, Filed, Kept, Placed, Births
<1>2. Under(t, node) \subseteq t.nodes
  BY <1>1 DEF Under, Shown
<1>3. IsFiniteSet(subtree)
  <2>1. IsFiniteSet(Under(t, node))
    BY <1>1, <1>2, FS_Subset
  <2>2. IsFiniteSet(Under(t, node) \union {node})
    BY <2>1, FS_AddElement
  <2>3. subtree = Under(t, node) \union {node}
    OBVIOUS
  <2> QED BY <2>2, <2>3
<1> DEFINE n == Cardinality(subtree)
<1>4. n \in Nat
  BY <1>3, FS_CardinalityType
<1>5. DOMAIN Snapshot(t, node) = 1 .. n /\ \E f : Snapshot(t, node) = [i \in 1 .. n |-> f[i]]
  <2> DEFINE Depth(x) == Cardinality(AncestorsOf(t, x))
             order == CHOOSE s \in [1..n -> subtree] :
                          IsInjective(s) /\ \A i, j \in DOMAIN s : i < j => Depth(s[i]) <= Depth(s[j])
             f == [i \in 1 .. n |->
                     [was |-> order[i], under |-> t.parents[order[i]],
                      kind |-> Last(order[i])[2], tag |-> t.tags[order[i]]]]
  <2>1. Snapshot(t, node) = f
    BY Zenon DEF Snapshot
  <2>2. DOMAIN f = 1 .. n /\ f = [i \in 1 .. n |-> f[i]]
    <3> HIDE DEF n, order
    <3> QED OBVIOUS
  <2> HIDE DEF f, n
  <2> QED BY <2>1, <2>2
<1> HIDE DEF n
<1>6. PICK f : Snapshot(t, node) = [i \in 1 .. n |-> f[i]]
  BY <1>5
<1>7. Len([i \in 1 .. n |-> f[i]]) = n
  BY <1>4
<1> QED BY <1>4, <1>6, <1>7

LEMMA InverseGood ==
  ASSUME NEW A, NEW B, NEW t, Sound(t, A), NEW op, GoodOp(op, B)
  PROVE  GoodSteps(InverseOf(t, op))
<1>1. ASSUME NEW s, GoodStep(s) PROVE GoodSteps(<<s>>)
  <2> DEFINE S == {s}
  <2>1. <<s>> \in Seq(S) /\ \A x \in S : GoodStep(x)
    BY <1>1
  <2> HIDE DEF S
  <2> QED BY <2>1 DEF GoodSteps
<1>2. GoodSteps(<<>>)
  <2> DEFINE Z == {}
  <2>1. <<>> \in Seq(Z) /\ \A s \in Z : GoodStep(s)
    OBVIOUS
  <2> HIDE DEF Z
  <2> QED BY <2>1 DEF GoodSteps
<1>3. CASE op.type = "XmlInsertChild"
  <2>1. InverseOf(t, op) = <<Delete(op.list, op.stamp)>>
    BY <1>3 DEF InverseOf
  <2>2. GoodStep(Delete(op.list, op.stamp))
    BY DEF GoodStep, Delete
  <2> QED BY <1>1, <2>1, <2>2
<1>4. CASE op.type = "ListDelete"
  <2> DEFINE place == <<op.list, op.at>>
             s == Revive(place[1], place[2], t.index[place], Snapshot(t, t.index[place]))
  <2>1. InverseOf(t, op) = ListDeleteInverse(t, place)
    BY <1>4 DEF InverseOf
  <2>2. GoodStep(s)
    <3>1. s.type = "ReviveNode" /\ s.snapshot = Snapshot(t, t.index[place])
      BY DEF Revive
    <3> HIDE DEF s
    <3> QED BY <3>1, SnapshotLength DEF GoodStep
  <2> HIDE DEF s
  <2>3. ListDeleteInverse(t, place) \in {<<>>, <<s>>}
    BY DEF ListDeleteInverse, s
  <2> QED BY <1>1, <1>2, <2>1, <2>2, <2>3
<1>5. CASE op.type = "XmlMove"
  <2> DEFINE s == Move(t.parents[op.node], op.node)
  <2>1. InverseOf(t, op) = MoveInverse(t, op.node)
    BY <1>5 DEF InverseOf
  <2>2. GoodStep(s)
    BY DEF GoodStep, Move
  <2> HIDE DEF s
  <2>3. MoveInverse(t, op.node) \in {<<>>, <<s>>}
    BY DEF MoveInverse, s
  <2> QED BY <1>1, <1>2, <2>1, <2>2, <2>3
<1> QED BY <1>3, <1>4, <1>5 DEF GoodOp

LEMMA StepsJoin ==
  ASSUME NEW p, GoodSteps(p), NEW q, GoodSteps(q)
  PROVE  GoodSteps(p \o q)
<1>1. PICK S : p \in Seq(S) /\ \A s \in S : GoodStep(s)
  BY DEF GoodSteps
<1>2. PICK T : q \in Seq(T) /\ \A s \in T : GoodStep(s)
  BY DEF GoodSteps
<1> DEFINE U == S \union T
<1>3. p \in Seq(U) /\ q \in Seq(U) /\ \A s \in U : GoodStep(s)
  BY <1>1, <1>2, SeqMonotonic
<1> HIDE DEF U
<1>4. p \o q \in Seq(U)
  BY <1>3
<1> QED BY <1>3, <1>4 DEF GoodSteps

LEMMA OpsJoin ==
  ASSUME NEW A, NEW q, GoodOps(q, A), NEW op, GoodOp(op, A)
  PROVE  GoodOps(Append(q, op), A)
<1>1. PICK S : q \in Seq(S) /\ \A o \in S : GoodOp(o, A)
  BY DEF GoodOps
<1> DEFINE T == S \union {op}
<1>2. q \in Seq(T) /\ op \in T /\ \A o \in T : GoodOp(o, A)
  BY <1>1, SeqMonotonic
<1> HIDE DEF T
<1>3. Append(q, op) \in Seq(T)
  BY <1>2
<1> QED BY <1>2, <1>3 DEF GoodOps

LEMMA ReachGrows ==
  ASSUME NEW A, NEW B, NEW q, GoodOps(q, B), NEW op
  PROVE  Reach(A, Append(q, op)) =
            Reach(A, q) \union IF op.type = "ListDelete" THEN {} ELSE {<<op.list, op.stamp>>}
<1>1. PICK S : q \in Seq(S)
  BY DEF GoodOps
<1>2. Range(Append(q, op)) = Range(q) \union {op}
  <2> DEFINE T == S \union {op}
             n == Len(q)
             x == Append(q, op)
  <2>1. q \in Seq(T) /\ op \in T
    BY <1>1, SeqMonotonic
  <2> HIDE DEF T
  <2>2. /\ n \in Nat /\ DOMAIN q = 1 .. n /\ DOMAIN x = 1 .. n + 1
        /\ x[n + 1] = op /\ \A i \in 1 .. n : x[i] = q[i]
    BY <2>1
  <2> HIDE DEF x, n
  <2>3. \A y : y \in Range(x) <=> y \in Range(q) \union {op}
    <3>1. \A i \in 1 .. n + 1 : i = n + 1 \/ i \in 1 .. n
      BY <2>2
    <3>2. n + 1 \in 1 .. n + 1 /\ \A i \in 1 .. n : i \in 1 .. n + 1
      BY <2>2
    <3> QED BY <2>2, <3>1, <3>2 DEF Range
  <2> QED BY <2>3 DEF x
<1> QED BY <1>2 DEF Reach, Placements

(* A shape that may be minted into an op.                                  *)
Mintable(shape) ==
    /\ "type" \in DOMAIN shape /\ shape.type \in {"XmlInsertChild", "XmlMove", "ListDelete"}
    /\ "list" \in DOMAIN shape

LEMMA Shapes ==
  ASSUME NEW a, NEW b, NEW c
  PROVE  /\ Mintable(Insert(a, b, c)) /\ Mintable(Move(a, b)) /\ Mintable(Delete(a, b))
         /\ Insert(a, b, c).list = a /\ Move(a, b).list = a
         /\ Insert(a, b, c).type = "XmlInsertChild" /\ Move(a, b).type = "XmlMove"
BY DEF Mintable, Insert, Move, Delete

LEMMA OpIs ==
  ASSUME NEW shape, Mintable(shape), NEW id, NEW stamp
  PROVE  LET op == Op(shape, id, stamp)
         IN op.type = shape.type /\ op.list = shape.list /\ op.stamp = stamp
<1> DEFINE head == [id |-> id, stamp |-> stamp]
<1>1. DOMAIN head = {"id", "stamp"} /\ head.stamp = stamp
  OBVIOUS
<1>2. Op(shape, id, stamp) = [x \in DOMAIN head \union DOMAIN shape |-> IF x \in DOMAIN head THEN head[x] ELSE shape[x]]
  BY DEF Op, Over
<1> HIDE DEF head
<1>3. Op(shape, id, stamp).type = shape.type /\ Op(shape, id, stamp).list = shape.list
  BY <1>1, <1>2 DEF Mintable
<1>4. Op(shape, id, stamp).stamp = stamp
  BY <1>1, <1>2
<1> QED BY <1>3, <1>4

LEMMA EmitGood ==
  ASSUME NEW A, NEW c, NEW r, GoodRecording(r, A, c), NEW shape, Mintable(shape)
  PROVE  GoodRecording(Emit(r, shape), A, c)
<1> DEFINE own == {id \in r.tree.seen : id[1] = r.client}
           stamp == <<r.tree.clock + 1, r.client>>
           op == Op(shape, <<r.client, Cardinality(own) + 1>>, stamp)
           tr == ApplyNow(r.tree, op)
           os == Append(r.ops, op)
           ss == r.steps \o InverseOf(r.tree, op)
           e == [r EXCEPT !.tree = tr, !.ops = os, !.steps = ss]
           B == Reach(A, r.ops)
           C == Reach(A, os)
<1>1. /\ r = [f \in RecordingFields |-> r[f]] /\ r.client = c /\ c \in Int
      /\ GoodOps(r.ops, B) /\ Sound(r.tree, B) /\ Unique(B) /\ Below(c, r.tree, B)
      /\ \A p \in B \ A : p[2][2] = c
  BY DEF GoodRecording
<1>2. Emit(r, shape) = e
  BY <1>1 DEF Emit, RecordingFields
<1>3. r.tree.clock \in Int /\ stamp \in Int \X Int /\ stamp[1] = r.tree.clock + 1 /\ stamp[2] = c
  BY <1>1 DEF Sound, Buffered
<1> HIDE DEF own, stamp
<1>4. op.type = shape.type /\ op.list = shape.list /\ op.stamp = stamp
  BY OpIs
<1> HIDE DEF op
<1>5. C = B \union IF op.type = "ListDelete" THEN {} ELSE {<<op.list, stamp>>}
  BY <1>1, <1>4, ReachGrows
<1>6. \A p \in B : p[2] # stamp
  <2> SUFFICES ASSUME NEW p \in B, p[2] = stamp PROVE FALSE
    OBVIOUS
  <2>1. p[2][2] = c /\ p[2][1] = r.tree.clock + 1
    BY <1>3
  <2> QED BY <1>1, <1>3, <2>1 DEF Below
<1> HIDE DEF B, C
<1>7. B \subseteq C /\ \A p \in C \ B : p = <<op.list, stamp>>
  BY <1>5
<1>8. Unique(C)
  <2>1. <<op.list, stamp>>[1] = op.list /\ <<op.list, stamp>>[2] = stamp
    OBVIOUS
  <2>2. \A p \in C : p = <<p[1], p[2]>> /\ p[2] \in Int \X Int
    BY <1>1, <1>3, <1>7 DEF Unique
  <2>3. ASSUME NEW p \in C, NEW q \in C, p[2] = q[2] PROVE p = q
    BY <1>1, <1>6, <1>7, <2>1, <2>3 DEF Unique
  <2> QED BY <2>2, <2>3 DEF Unique
<1>9. GoodOp(op, C) /\ GoodOps(r.ops, C) /\ Sound(r.tree, C)
  <2>1. GoodOp(op, C)
    BY <1>3, <1>4, <1>5 DEF GoodOp, Mintable
  <2> QED BY <1>1, <1>7, <2>1, SoundGrows
<1>10. Sound(tr, C) /\ tr.clock \in Int /\ tr.clock >= r.tree.clock /\ tr.clock >= r.tree.clock + 1
  BY <1>3, <1>4, <1>8, <1>9, ApplySound
<1>11. GoodOps(os, C)
  BY <1>9, OpsJoin
<1>12. GoodSteps(ss)
  BY <1>9, InverseGood, StepsJoin DEF GoodRecording
<1>13. Below(c, tr, C)
  <2> SUFFICES ASSUME NEW p \in C, p[2][2] = c PROVE p[2][1] <= tr.clock
    BY DEF Below
  <2> HIDE DEF tr
  <2>1. CASE p \in B
    <3>1. p[2][1] <= r.tree.clock /\ p[2] \in Int \X Int
      BY <1>1, <2>1 DEF Below, Unique
    <3> QED BY <1>3, <1>10, <3>1
  <2>2. CASE p \notin B
    <3>1. p[2] = stamp
      BY <1>7, <2>2
    <3> QED BY <1>3, <1>10, <3>1
  <2> QED BY <2>1, <2>2
<1>14. \A p \in C \ A : p[2][2] = c
  <2> SUFFICES ASSUME NEW p \in C \ A PROVE p[2][2] = c
    OBVIOUS
  <2>1. CASE p \in B
    BY <1>1, <2>1
  <2>2. CASE p \notin B
    <3>1. p[2] = stamp
      BY <1>7, <2>2
    <3> QED BY <1>3, <3>1
  <2> QED BY <2>1, <2>2
<1> HIDE DEF tr, os, ss
<1>15. e = [f \in RecordingFields |-> e[f]]
  BY <1>1
<1>16. e.tree = tr /\ e.ops = os /\ e.steps = ss /\ e.client = r.client
  BY <1>1 DEF RecordingFields
<1> HIDE DEF e
<1> QED BY <1>1, <1>2, <1>8, <1>10, <1>11, <1>12, <1>13, <1>14, <1>15, <1>16 DEF GoodRecording, C

LEMMA RebuildGood ==
  ASSUME NEW A, NEW c, NEW s, GoodRecording(s.r, A, c), NEW n
  PROVE  GoodRecording(Rebuild(s, n).r, A, c)
<1> DEFINE e == Emit(s.r, Insert(s.to[n.under], n.kind, n.tag))
<1>1. Rebuild(s, n).r = e
  BY DEF Rebuild
<1>2. Mintable(Insert(s.to[n.under], n.kind, n.tag))
  BY Shapes
<1>3. GoodRecording(e, A, c)
  BY <1>2, EmitGood
<1> QED BY <1>1, <1>3

LEMMA RebuildAllGood ==
  ASSUME NEW A, NEW c, NEW s, GoodRecording(s.r, A, c), NEW snapshot, Len(snapshot) \in Nat
  PROVE  GoodRecording(RebuildAll(s, snapshot).r, A, c)
<1> DEFINE n == Len(snapshot)
<1>1. PICK g : /\ g[0] = s
               /\ \A i \in 1 .. n : g[i] = Rebuild(g[i - 1], snapshot[i])
               /\ RebuildAll(s, snapshot) = g[n]
  BY RebuildFold
<1> HIDE DEF n
<1> DEFINE S == {i \in 0 .. n : GoodRecording(g[i].r, A, c)}
<1>2. n \in Nat
  BY DEF n
<1>3. 0 \in S
  BY <1>1, <1>2
<1>4. ASSUME NEW i \in 1 .. n, i - 1 \in S PROVE i \in S
  <2>1. GoodRecording(g[i - 1].r, A, c)
    BY <1>4
  <2>2. GoodRecording(Rebuild(g[i - 1], snapshot[i]).r, A, c)
    BY <2>1, RebuildGood
  <2> QED BY <1>1, <2>2
<1>5. n \in S
  <2> HIDE DEF S
  <2>1. \A i \in 0 .. n : i \in S
    BY <1>2, <1>3, <1>4, UpTo
  <2> QED BY <1>2, <2>1
<1> QED BY <1>1, <1>5

LEMMA EmitInverseGood ==
  ASSUME NEW A, NEW c, NEW r, GoodRecording(r, A, c), NEW step, GoodStep(step)
  PROVE  GoodRecording(EmitInverse(r, step), A, c)
<1>1. CASE step.type = "ReviveNode"
  <2> DEFINE s0 == [r |-> r, to |-> Put(<<>>, step.snapshot[1].under, step.list)]
             s == RebuildAll(s0, step.snapshot)
             d == s.r
             el == Put(d.elements, step.node, s.to[step.node])
             re == Put(d.revived, <<step.list, step.at>>, <<step.list, Last(s.to[step.node])[1]>>)
             e == [d EXCEPT !.elements = el, !.revived = re]
  <2>1. GoodRecording(d, A, c)
    <3>1. s0.r = r /\ Len(step.snapshot) \in Nat
      BY <1>1 DEF GoodStep
    <3> HIDE DEF s0
    <3> QED BY <3>1, RebuildAllGood
  <2>2. d = [f \in RecordingFields |-> d[f]]
    BY <2>1 DEF GoodRecording
  <2>3. EmitInverse(r, step) = e
    <3>1. EmitInverse(r, step) = ReviveNode(r, step)
      BY <1>1 DEF EmitInverse
    <3> HIDE DEF s0
    <3>2. ReviveNode(r, step) = [s.r EXCEPT !.elements = Put(@, step.node, s.to[step.node]),
                !.revived = Put(@, <<step.list, step.at>>, <<step.list, Last(s.to[step.node])[1]>>)]
      BY DEF ReviveNode, s0
    <3> HIDE DEF s
    <3> QED BY <2>2, <3>1, <3>2 DEF RecordingFields
  <2> HIDE DEF s0, s, d, el, re
  <2>4. e = [f \in RecordingFields |-> e[f]]
    BY <2>2
  <2>5. e.tree = d.tree /\ e.ops = d.ops /\ e.steps = d.steps /\ e.client = d.client
    BY <2>2 DEF RecordingFields
  <2> HIDE DEF e
  <2> QED BY <2>1, <2>3, <2>4, <2>5 DEF GoodRecording
<1>2. CASE step.type # "ReviveNode"
  <2>1. EmitInverse(r, step) = Emit(r, FollowRevivals(r, step))
    BY <1>2 DEF EmitInverse
  <2>2. Mintable(FollowRevivals(r, step))
    <3>1. step.type = "ListDelete" \/ step.type = "XmlMove"
      BY <1>2 DEF GoodStep
    <3> QED BY <3>1, Shapes DEF FollowRevivals
  <2> QED BY <2>1, <2>2, EmitGood
<1> QED BY <1>1, <1>2

LEMMA PlayAllGood ==
  ASSUME NEW A, NEW c, NEW t, NEW steps, NEW r, GoodRecording(r, A, c), NEW turns, GoodSteps(turns)
  PROVE  GoodRecording(PlayAll(t, steps, r, turns), A, c)
<1> DEFINE n == Len(turns)
<1>1. n \in Nat /\ \A i \in 1 .. n : GoodStep(turns[i])
  BY DEF GoodSteps
<1>2. PICK g : /\ g[0] = r
               /\ \A i \in 1 .. n : g[i] = Planned(t, steps, g[i - 1], turns[i])
               /\ PlayAll(t, steps, r, turns) = g[n]
  <2>1. Len(turns) \in Nat
    BY <1>1
  <2> QED BY <2>1, PlannedFold
<1> HIDE DEF n
<1> DEFINE S == {i \in 0 .. n : GoodRecording(g[i], A, c)}
<1>3. 0 \in S
  BY <1>1, <1>2
<1>4. ASSUME NEW i \in 1 .. n, i - 1 \in S PROVE i \in S
  <2>1. GoodRecording(EmitInverse(g[i - 1], turns[i]), A, c)
    BY <1>1, <1>4, EmitInverseGood
  <2>2. g[i] \in {g[i - 1], EmitInverse(g[i - 1], turns[i])}
    BY <1>2 DEF Planned, Replayed
  <2> QED BY <1>4, <2>1, <2>2
<1>5. n \in S
  <2> HIDE DEF S
  <2>1. \A i \in 0 .. n : i \in S
    BY <1>1, <1>3, <1>4, UpTo
  <2> QED BY <1>1, <2>1
<1> QED BY <1>2, <1>5

LEMMA ReversedGood ==
  ASSUME NEW q, GoodSteps(q)
  PROVE  GoodSteps(Reverse(q))
<1>1. PICK S : q \in Seq(S) /\ \A s \in S : GoodStep(s)
  BY DEF GoodSteps
<1>2. Len(q) \in Nat /\ \A i \in 1 .. Len(q) : (Len(q) - i) + 1 \in 1 .. Len(q)
  BY <1>1
<1>3. Reverse(q) \in Seq(S)
  <2> DEFINE n == Len(q)
             f == [i \in 1 .. n |-> q[(n - i) + 1]]
  <2>1. f \in [1 .. n -> S]
    BY <1>1, <1>2
  <2>2. n \in Nat
    BY <1>2
  <2> HIDE DEF f, n
  <2>3. f \in Seq(S)
    BY <2>1, <2>2, SeqDef
  <2> QED BY <2>3 DEF Reverse, f, n
<1> QED BY <1>1, <1>3 DEF GoodSteps

(* The buffer drained after it adds no op.                                 *)
LEMMA DrainedGood ==
  ASSUME NEW A, NEW c, NEW r, GoodRecording(r, A, c)
  PROVE  GoodRecording([r EXCEPT !.tree = DrainBuffer(r.tree)], A, c)
<1> DEFINE tr == DrainBuffer(r.tree)
           e == [r EXCEPT !.tree = tr]
           B == Reach(A, r.ops)
<1>1. /\ r = [f \in RecordingFields |-> r[f]] /\ Sound(r.tree, B) /\ Unique(B)
      /\ Below(c, r.tree, B)
  BY DEF GoodRecording
<1> HIDE DEF B
<1>2. Sound(tr, B) /\ tr.clock \in Int /\ tr.clock >= r.tree.clock
  BY <1>1, DrainSound
<1>3. Below(c, tr, B)
  <2> SUFFICES ASSUME NEW p \in B, p[2][2] = c PROVE p[2][1] <= tr.clock
    BY DEF Below
  <2> HIDE DEF tr
  <2>1. p[2][1] <= r.tree.clock /\ p[2] \in Int \X Int /\ r.tree.clock \in Int
    BY <1>1 DEF Below, Unique, Sound, Buffered
  <2> QED BY <1>2, <2>1
<1> HIDE DEF tr
<1>4. e = [f \in RecordingFields |-> e[f]]
  BY <1>1
<1>5. e.tree = tr /\ e.ops = r.ops /\ e.steps = r.steps /\ e.client = r.client
  BY <1>1 DEF RecordingFields
<1> HIDE DEF e
<1>6. GoodRecording(e, A, c)
  BY <1>1, <1>2, <1>3, <1>4, <1>5 DEF GoodRecording, B
<1> QED BY <1>6 DEF e, tr

LEMMA ReplayGood ==
  ASSUME NEW A, Unique(A), NEW c \in Int, Sound(tree[c], A), Below(c, tree[c], A),
         NEW intention, GoodSteps(intention.steps)
  PROVE  GoodRecording(Replay(c, intention), A, c)
<1> DEFINE h == history[c]
           r0 == Recording(tree[c], c, h.elements, h.revived)
           r == PlayAll(tree[c], intention.steps, r0, Reverse(intention.steps))
           tr == DrainBuffer(r.tree)
           e == [r EXCEPT !.tree = tr]
<1>1. GoodRecording(r0, A, c)
  BY RecordingGood
<1> HIDE DEF r0
<1>2. GoodRecording(r, A, c)
  BY <1>1, ReversedGood, PlayAllGood
<1>3. Replay(c, intention) = [r EXCEPT !.tree = DrainBuffer(@)]
  BY DEF Replay, r0
<1> HIDE DEF r
<1>4. r = [f \in RecordingFields |-> r[f]]
  BY <1>2 DEF GoodRecording
<1>5. Replay(c, intention) = e
  BY <1>3, <1>4 DEF RecordingFields
<1>6. GoodRecording(e, A, c)
  BY <1>2, DrainedGood
<1> QED BY <1>5, <1>6

-----------------------------------------------------------------------------
(***************************************************************************)
(* The tree every replica starts with.                                     *)
(***************************************************************************)
LEMMA EmptySound ==
  ASSUME NEW A
  PROVE  Sound(EmptyTree, A) /\ EmptyTree.clock = 0
<1> DEFINE t == EmptyTree
           none == <<>>
<1>1. /\ t.nodes = {Fragment} /\ t.base = none /\ t.moved = none /\ t.log = <<>> /\ t.places = none
      /\ t.index = none /\ t.pending = {} /\ t.buffer = <<>> /\ t.clock = 0 /\ t.dead = {}
  BY DEF EmptyTree
<1>2. IsTree(t)
  BY DEF IsTree, EmptyTree, Fields
<1>3. DOMAIN none = {} /\ none = [n \in DOMAIN none |-> none[n]]
  OBVIOUS
<1> HIDE DEF t, none
<1>4. Births(t.nodes, t.base)
  <2>1. IsFiniteSet({Fragment})
    BY FS_Singleton
  <2> QED BY <1>1, <1>3, <2>1 DEF Births
<1>5. Hung(none, none)
  BY <1>3 DEF Hung, Hangs, Moves
<1>6. Traced(t.base, t.log, t.moved)
  <2> DEFINE h == [i \in {0} |-> none]
             log == <<>>
  <2>1. log \in Seq(MoveOf(none)) /\ Len(log) = 0 /\ h[0] = none
    OBVIOUS
  <2> HIDE DEF h, log
  <2>2. Trace(none, log, h)
    BY <1>3, <1>5, <2>1 DEF Trace
  <2>3. Traced(none, log, none)
    BY <2>1, <2>2 DEF Traced
  <2> QED BY <1>1, <2>3 DEF log
<1>7. Placed(t) /\ Folded(t)
  BY <1>1, <1>3 DEF Placed, Folded
<1>8. Buffered(t, A)
  <2> DEFINE Z == {}
  <2>1. <<>> \in Seq(Z) /\ \A op \in Z : GoodOp(op, A)
    OBVIOUS
  <2> HIDE DEF Z
  <2>2. GoodOps(<<>>, A)
    BY <2>1 DEF GoodOps
  <2> QED BY <1>1, <2>2 DEF Buffered
<1>9. Sorted(<<>>) /\ Entries(<<>>) = {}
  BY DEF Sorted, Entries
<1>10. Shelved(t, A, t.nodes) /\ ArrivedBut(t, {})
  <2>1. IsFiniteSet({})
    BY FS_EmptySet
  <2>2. Indexed(t)
    BY <1>1, <1>3 DEF Indexed, Inhabited, Holds
  <2>3. Lodged(t) /\ BirthsHeld(t, t.nodes) /\ ArrivedBut(t, {})
    BY <1>1, <1>3, <1>9 DEF Lodged, BirthsHeld, ArrivedBut
  <2> QED BY <1>1, <1>3, <2>1, <2>2, <2>3 DEF Shelved
<1>11. Kept(t)
  BY <1>1, <1>2, <1>4, <1>6, <1>7, <1>9 DEF Kept
<1>12. Filed(t, A)
  BY <1>1, <1>3, <1>10, <1>11 DEF Filed
<1> QED BY <1>1, <1>7, <1>8, <1>12 DEF Sound, t

(* Where the three elements of the start are.                              *)
StartPlaces ==
    LET first == XmlChildId(Fragment, <<1, 0>>, "element")
    IN {<<Fragment, <<1, 0>>>>, <<Fragment, <<2, 0>>>>, <<first, <<3, 0>>>>}

LEMMA StartUnique == Unique(StartPlaces) /\ \A p \in StartPlaces : p[2][2] = 0
BY DEF Unique, StartPlaces

LEMMA StartSound ==
  Sound(Start, StartPlaces) /\ Start.clock \in Int
<1> DEFINE A == StartPlaces
           With1(t, list, n) == ApplyNow(t, Op(Insert(list, "element", <<0, n>>), <<0, n>>, <<n, 0>>))
           first == XmlChildId(Fragment, <<1, 0>>, "element")
<1>1. ASSUME NEW t, Sound(t, A), NEW list, NEW n \in Int, <<list, <<n, 0>>>> \in A
      PROVE  Sound(With1(t, list, n), A)
  <2> DEFINE op == Op(Insert(list, "element", <<0, n>>), <<0, n>>, <<n, 0>>)
  <2>1. <<n, 0>> \in Int \X Int
    OBVIOUS
  <2>2. op.type = "XmlInsertChild" /\ op.list = list /\ op.stamp = <<n, 0>>
    BY Shapes, OpIs
  <2> HIDE DEF op, A
  <2>3. GoodOp(op, A)
    BY <1>1, <2>1, <2>2 DEF GoodOp
  <2>4. Unique(A)
    BY StartUnique DEF A
  <2>5. Sound(ApplyNow(t, op), A)
    BY <1>1, <2>3, <2>4, ApplySound
  <2> QED BY <2>5 DEF op
<1>2. Start = With1(With1(With1(EmptyTree, Fragment, 1), Fragment, 2), first, 3)
  BY DEF Start
<1>3. <<Fragment, <<1, 0>>>> \in A /\ <<Fragment, <<2, 0>>>> \in A /\ <<first, <<3, 0>>>> \in A
  BY DEF StartPlaces
<1> HIDE DEF With1, first, A
<1>4. Sound(With1(EmptyTree, Fragment, 1), A)
  BY <1>1, <1>3, EmptySound
<1>5. Sound(With1(With1(EmptyTree, Fragment, 1), Fragment, 2), A)
  BY <1>1, <1>3, <1>4
<1>6. Sound(With1(With1(With1(EmptyTree, Fragment, 1), Fragment, 2), first, 3), A)
  BY <1>1, <1>3, <1>5
<1> QED BY <1>2, <1>6 DEF A, Sound, Buffered

-----------------------------------------------------------------------------
(***************************************************************************)
(* The invariant: every replica's tree is sound, and the ops under way and *)
(* the intentions that can be taken back are of the kinds it is sound for. *)
(***************************************************************************)
HistoryFields == {"undo", "redo", "revived", "elements"}

GoodStack(q) == \E S : q \in Seq(S) /\ \A x \in S : GoodSteps(x.steps)

GoodHistory(h) == h = [f \in HistoryFields |-> h[f]] /\ GoodStack(h.undo) /\ GoodStack(h.redo)

(* The placements that the ops published make.                             *)
Known == StartPlaces \union Placements(ops)

TreesSound ==
    /\ Unique(Known) /\ \A op \in ops : GoodOp(op, Known)
    /\ tree = [c \in Client |-> tree[c]]
    /\ \A c \in Client : Sound(tree[c], Known) /\ Below(c, tree[c], Known)
    /\ history = [c \in Client |-> history[c]] /\ \A c \in Client : GoodHistory(history[c])

LEMMA NoHistoryGood == GoodHistory(NoHistory)
<1>1. NoHistory = [f \in HistoryFields |-> NoHistory[f]] /\ NoHistory.undo = <<>> /\ NoHistory.redo = <<>>
  BY DEF NoHistory, HistoryFields
<1>2. GoodStack(<<>>)
  <2> DEFINE Z == {}
  <2>1. <<>> \in Seq(Z) /\ \A x \in Z : GoodSteps(x.steps)
    OBVIOUS
  <2> HIDE DEF Z
  <2> QED BY <2>1 DEF GoodStack
<1> QED BY <1>1, <1>2 DEF GoodHistory

LEMMA StackGrows ==
  ASSUME NEW q, GoodStack(q), NEW x, GoodSteps(x.steps)
  PROVE  GoodStack(Append(q, x))
<1>1. PICK S : q \in Seq(S) /\ \A y \in S : GoodSteps(y.steps)
  BY DEF GoodStack
<1> DEFINE T == S \union {x}
<1>2. q \in Seq(T) /\ x \in T /\ \A y \in T : GoodSteps(y.steps)
  BY <1>1, SeqMonotonic
<1> HIDE DEF T
<1>3. Append(q, x) \in Seq(T)
  BY <1>2
<1> QED BY <1>2, <1>3 DEF GoodStack

LEMMA StackTop ==
  ASSUME NEW q, GoodStack(q), q # <<>>
  PROVE  GoodSteps(Last(q).steps) /\ GoodStack(Front(q))
<1>1. PICK S : q \in Seq(S) /\ \A y \in S : GoodSteps(y.steps)
  BY DEF GoodStack
<1>2. Len(q) \in Nat /\ Len(q) >= 1
  BY <1>1
<1>3. Last(q) \in S
  BY <1>1, <1>2 DEF Last
<1>4. Front(q) \in Seq(S)
  BY <1>1, <1>2 DEF Front
<1> QED BY <1>1, <1>3, <1>4 DEF GoodStack

LEMMA TreesInit == Init => TreesSound
<1> SUFFICES ASSUME Init PROVE TreesSound
  OBVIOUS
<1>1. ops = {} /\ tree = [c \in Client |-> Start] /\ history = [c \in Client |-> NoHistory]
  BY DEF Init
<1>2. Known = StartPlaces
  BY <1>1 DEF Known, Placements
<1>3. \A c \in Client : Below(c, Start, StartPlaces)
  BY StartUnique, TreeReplicasAssumption DEF Below
<1> QED BY <1>1, <1>2, <1>3, StartUnique, StartSound, NoHistoryGood DEF TreesSound

(* What a recording adds keeps the invariant, whatever it leaves of the    *)
(* history.                                                                *)
LEMMA RecordedKeeps ==
  ASSUME TreesSound, NEW c \in Client, NEW r, GoodRecording(r, Known, c),
         NEW h, GoodHistory(h), tree' = [tree EXCEPT ![c] = r.tree], ops' = ops \union Range(r.ops),
         history' = [history EXCEPT ![c] = h]
  PROVE  TreesSound'
<1> DEFINE A == Known
           B == Reach(Known, r.ops)
<1>1. Known' = B
  BY DEF Known, Reach, Placements
<1>2. /\ GoodOps(r.ops, B) /\ Sound(r.tree, B) /\ Unique(B) /\ Below(c, r.tree, B)
      /\ \A p \in B \ A : p[2][2] = c
  BY DEF GoodRecording
<1>3. A \subseteq B
  BY DEF Reach
<1>4. /\ \A op \in ops : GoodOp(op, A)
      /\ \A d \in Client : Sound(tree[d], A) /\ Below(d, tree[d], A)
  BY DEF TreesSound
<1> HIDE DEF A, B
<1>5. \A op \in ops' : GoodOp(op, B)
  <2>1. PICK S : r.ops \in Seq(S) /\ \A op \in S : GoodOp(op, B)
    BY <1>2 DEF GoodOps
  <2>2. Range(r.ops) \subseteq S
    BY <2>1 DEF Range
  <2> QED BY <1>3, <1>4, <2>1, <2>2, SoundGrows
<1>6. ASSUME NEW d \in Client PROVE Sound(tree'[d], B) /\ Below(d, tree'[d], B)
  <2>1. CASE d = c
    <3>1. tree'[d] = r.tree
      BY <2>1 DEF TreesSound
    <3> QED BY <1>2, <2>1, <3>1
  <2>2. CASE d # c
    <3>1. tree'[d] = tree[d]
      BY <2>2 DEF TreesSound
    <3>2. Sound(tree[d], B)
      BY <1>3, <1>4, SoundGrows
    <3>3. Below(d, tree[d], B)
      BY <1>2, <1>4, <2>2 DEF Below
    <3> QED BY <3>1, <3>2, <3>3
  <2> QED BY <2>1, <2>2
<1>7. tree' = [d \in Client |-> tree'[d]]
  BY DEF TreesSound
<1>8. history' = [d \in Client |-> history'[d]] /\ \A d \in Client : GoodHistory(history'[d])
  BY DEF TreesSound
<1> QED BY <1>1, <1>2, <1>5, <1>6, <1>7, <1>8 DEF TreesSound

LEMMA EditKeeps ==
  ASSUME TreesSound, NEW c \in Client, NEW shape, Mintable(shape), Edit(c, shape)
  PROVE  TreesSound'
<1> DEFINE r == Emit(Recording(tree[c], c, <<>>, <<>>), shape)
           x == Intention(c, r.steps)
           h1 == Recorded(history[c], x)
           h == IF r.steps = <<>> \/ budget.undos = 0 THEN history[c] ELSE h1
           e == [r EXCEPT !.tree = DrainBuffer(r.tree)]
<1>1. GoodRecording(r, Known, c)
  <2>1. c \in Int /\ Unique(Known) /\ Sound(tree[c], Known) /\ Below(c, tree[c], Known)
    BY TreeReplicasAssumption DEF TreesSound
  <2>2. GoodRecording(Recording(tree[c], c, <<>>, <<>>), Known, c)
    BY <2>1, RecordingGood
  <2> QED BY <2>2, EmitGood
<1>2. /\ tree' = [tree EXCEPT ![c] = DrainBuffer(r.tree)]
      /\ ops' = ops \union Range(r.ops)
      /\ history' = [history EXCEPT ![c] = h]
  <2>1. /\ tree' = [tree EXCEPT ![c] = DrainBuffer(r.tree)]
        /\ ops' = ops \union Range(r.ops)
    BY DEF Edit
  <2>2. history' = [history EXCEPT ![c] = h]
    BY DEF Edit
  <2> QED BY <2>1, <2>2
<1> HIDE DEF r
<1>3. GoodSteps(x.steps)
  BY <1>1 DEF Intention, GoodRecording
<1> HIDE DEF x
<1>4. GoodHistory(history[c])
  BY DEF TreesSound
<1>5. GoodHistory(h1)
  <2>1. GoodStack(Append(history[c].undo, x))
    BY <1>3, <1>4, StackGrows DEF GoodHistory
  <2>2. GoodStack(<<>>)
    BY NoHistoryGood DEF GoodHistory, NoHistory
  <2>3. h1 = [f \in HistoryFields |-> h1[f]] /\ h1.undo = Append(history[c].undo, x) /\ h1.redo = <<>>
    BY <1>4 DEF GoodHistory, HistoryFields, Recorded
  <2> HIDE DEF h1
  <2> QED BY <2>1, <2>2, <2>3 DEF GoodHistory
<1>6. GoodHistory(h)
  BY <1>4, <1>5
<1> HIDE DEF h
<1>7. GoodRecording(e, Known, c)
  BY <1>1, DrainedGood
<1>8. e.tree = DrainBuffer(r.tree) /\ e.ops = r.ops
  <2>1. r = [f \in RecordingFields |-> r[f]]
    BY <1>1 DEF GoodRecording
  <2> QED BY <2>1 DEF RecordingFields
<1> HIDE DEF e
<1> QED BY <1>2, <1>6, <1>7, <1>8, RecordedKeeps

LEMMA ReplayingKeeps ==
  ASSUME TreesSound, NEW c \in Client, NEW from \in {"undo", "redo"}, Replaying(c, from)
  PROVE  TreesSound'
<1> DEFINE to == IF from = "undo" THEN "redo" ELSE "undo"
           r == Replay(c, Last(history[c][from]))
           x == Intention(c, r.steps)
           h1 == [history[c] EXCEPT ![from] = Front(@), !.elements = r.elements, !.revived = r.revived]
           h2 == [h1 EXCEPT ![to] = Append(@, x)]
<1>1. /\ history[c][from] # <<>>
      /\ tree' = [tree EXCEPT ![c] = r.tree]
      /\ ops' = ops \union Range(r.ops)
      /\ history' = [history EXCEPT ![c] = Prune(h2)]
  BY DEF Replaying
<1>2. GoodHistory(history[c]) /\ GoodStack(history[c][from])
  BY DEF TreesSound, GoodHistory
<1>3. GoodSteps(Last(history[c][from]).steps) /\ GoodStack(Front(history[c][from]))
  BY <1>1, <1>2, StackTop
<1>4. GoodRecording(r, Known, c)
  <2>1. c \in Int /\ Unique(Known) /\ Sound(tree[c], Known) /\ Below(c, tree[c], Known)
    BY TreeReplicasAssumption DEF TreesSound
  <2> QED BY <1>3, <2>1, ReplayGood
<1> HIDE DEF r
<1>5. GoodSteps(x.steps)
  BY <1>4 DEF Intention, GoodRecording
<1> HIDE DEF x
<1>6. GoodHistory(h1)
  <2>1. h1 = [f \in HistoryFields |-> h1[f]]
    BY <1>2 DEF GoodHistory
  <2>2. \A f \in {"undo", "redo"} : h1[f] = IF f = from THEN Front(history[c][from]) ELSE history[c][f]
    BY <1>2 DEF GoodHistory, HistoryFields
  <2> HIDE DEF h1
  <2> QED BY <1>2, <1>3, <2>1, <2>2 DEF GoodHistory
<1> HIDE DEF h1
<1>7. GoodHistory(h2)
  <2>1. to \in {"undo", "redo"} /\ to \in HistoryFields
    BY DEF HistoryFields
  <2>2. GoodStack(Append(h1[to], x))
    BY <1>5, <1>6, <2>1, StackGrows DEF GoodHistory
  <2> HIDE DEF to
  <2>3. h2 = [f \in HistoryFields |-> h2[f]]
    BY <1>6 DEF GoodHistory
  <2>4. \A f \in {"undo", "redo"} : h2[f] = IF f = to THEN Append(h1[to], x) ELSE h1[f]
    BY <1>6 DEF GoodHistory, HistoryFields
  <2> HIDE DEF h2
  <2> QED BY <1>6, <2>2, <2>3, <2>4 DEF GoodHistory
<1> HIDE DEF h2
<1>8. GoodHistory(Prune(h2))
  BY <1>7, NoHistoryGood DEF Prune
<1> QED BY <1>1, <1>4, <1>8, RecordedKeeps

LEMMA ReceiveKeeps ==
  ASSUME TreesSound, NEW c \in Client, NEW op \in ops, Receive(c, op)
  PROVE  TreesSound'
<1> DEFINE u == Apply(tree[c], op)
<1>1. tree' = [tree EXCEPT ![c] = u] /\ ops' = ops /\ history' = history
  BY DEF Receive, TreesSound
<1>2. Known' = Known
  BY <1>1 DEF Known
<1>3. /\ Unique(Known) /\ Sound(tree[c], Known) /\ Below(c, tree[c], Known) /\ GoodOp(op, Known)
  BY DEF TreesSound
<1>4. Sound(u, Known) /\ u.clock \in Int /\ u.clock >= tree[c].clock
  BY <1>3, ReceiveSound
<1> HIDE DEF u
<1>5. Below(c, u, Known)
  <2> SUFFICES ASSUME NEW p \in Known, p[2][2] = c PROVE p[2][1] <= u.clock
    BY DEF Below
  <2>1. p[2][1] <= tree[c].clock /\ p[2] \in Int \X Int /\ tree[c].clock \in Int
    BY <1>3 DEF Below, Unique, Sound, Buffered
  <2> QED BY <1>4, <2>1
<1> QED BY <1>1, <1>2, <1>4, <1>5 DEF TreesSound

LEMMA TwinKeeps ==
  ASSUME TreesSound, Twin
  PROVE  TreesSound'
<1>1. tree' = tree /\ history' = history
  BY DEF Twin
<1>2. PICK op, shape :
          /\ op \in ops /\ op.type # "ListDelete"
          /\ Mintable(shape) /\ shape.list = op.list /\ shape.type # "ListDelete"
          /\ ops' = ops \union {Op(shape, <<0, 8 + budget.twins>>, op.stamp)}
  BY Shapes DEF Twin
<1> DEFINE new == Op(shape, <<0, 8 + budget.twins>>, op.stamp)
<1>3. new.type = shape.type /\ new.list = op.list /\ new.stamp = op.stamp
  BY <1>2, OpIs
<1>4. ops' = ops \union {new}
  BY <1>2
<1> HIDE DEF new
<1>5. Known' = Known
  BY <1>2, <1>3, <1>4 DEF Known, Placements
<1>6. GoodOp(new, Known)
  BY <1>2, <1>3 DEF TreesSound, GoodOp, Mintable
<1> QED BY <1>1, <1>4, <1>5, <1>6 DEF TreesSound

LEMMA TreesStep == TreesSound /\ [Next]_vars => TreesSound'
<1> SUFFICES ASSUME TreesSound, [Next]_vars PROVE TreesSound'
  OBVIOUS
<1>1. ASSUME NEW c \in Client, InsertChild(c) PROVE TreesSound'
  BY <1>1, Shapes, EditKeeps DEF InsertChild
<1>2. ASSUME NEW c \in Client, MoveXml(c) PROVE TreesSound'
  BY <1>2, Shapes, EditKeeps DEF MoveXml
<1>3. ASSUME NEW c \in Client, DeleteChild(c) PROVE TreesSound'
  BY <1>3, Shapes, EditKeeps DEF DeleteChild
<1>4. ASSUME NEW c \in Client, Undo(c) \/ Redone(c) PROVE TreesSound'
  BY <1>4, ReplayingKeeps DEF Undo, Redone
<1>5. ASSUME NEW c \in Client, NEW op \in ops, Receive(c, op) PROVE TreesSound'
  BY <1>5, ReceiveKeeps
<1>6. CASE Twin
  BY <1>6, TwinKeeps
<1>7. CASE UNCHANGED vars
  BY <1>7 DEF vars, TreesSound, Known
<1> QED BY <1>1, <1>2, <1>3, <1>4, <1>5, <1>6, <1>7 DEF Next

(* Every replica's tree is whole: no node is above itself, and each is     *)
(* under the fragment, whatever is moved, taken back, undone or received,  *)
(* in whatever order (Rooted).                                             *)
THEOREM TreeRooted == Spec => []Rooted
<1>1. TreesSound => Rooted
  <2> SUFFICES ASSUME TreesSound, NEW c \in Client, NEW n \in tree[c].nodes \ {Fragment}
               PROVE  n \notin AncestorsOf(tree[c], n) /\ Fragment \in AncestorsOf(tree[c], n)
    BY DEF Rooted
  <2> DEFINE t == tree[c]
  <2>1. Kept(t) /\ t.nodes = DOMAIN t.base \union {Fragment}
    BY DEF TreesSound, Sound, Filed
  <2> HIDE DEF t
  <2>2. n \in DOMAIN t.base /\ Births(t.nodes, t.base)
    BY <2>1 DEF Kept, t
  <2>3. n \notin AncestorsOf(t, n) /\ Fragment \in AncestorsOf(t, n)
    BY <2>1, <2>2, KeptHung, HungRooted
  <2> QED BY <2>3 DEF t
<1> QED BY <1>1, TreesInit, TreesStep, PTL DEF Spec

-----------------------------------------------------------------------------
(***************************************************************************)
(* What is shown.                                                          *)
(***************************************************************************)
(* Of placements no two of which share a stamp, one is the latest.         *)
LEMMA Latest ==
  ASSUME NEW A, Unique(A), NEW S \in SUBSET A, IsFiniteSet(S), S # {}
  PROVE  \E p \in S : {x \in S : \A q \in S : x = q \/ Later(x[2], q[2])} = {p}
<1> DEFINE After(x) == {q \in S : Later(q[2], x[2])}
           N == {Cardinality(After(x)) : x \in S}
<1>1. \A x \in S : x[2] \in Int \X Int
  BY DEF Unique
<1>2. \A x, y \in S : x # y => x[2] # y[2]
  BY DEF Unique
<1>3. \A s, r \in Int \X Int : s = r \/ Later(s, r) \/ Later(r, s)
  BY DEF Later
<1>4. \A s, r, v \in Int \X Int : Later(s, r) /\ Later(r, v) => Later(s, v)
  BY DEF Later
<1>5. \A s \in Int \X Int : ~Later(s, s)
  BY DEF Later
<1>6. \A x \in S : IsFiniteSet(After(x)) /\ Cardinality(After(x)) \in Nat
  BY FS_Subset, FS_CardinalityType
<1>7. N \in SUBSET Nat /\ N # {}
  BY <1>6
<1>8. PICK x \in S : \A y \in S : ~(Cardinality(After(y)) < Cardinality(After(x)))
  <2> HIDE DEF After
  <2>1. PICK k \in N : \A j \in N : ~(<<j, k>> \in OpToRel(<, Nat))
    BY <1>7, NatLessThanWellFounded, WFMin
  <2>2. \A j \in Nat : j < k => j \notin N
    BY <1>7, <2>1 DEF OpToRel
  <2>3. PICK x \in S : k = Cardinality(After(x))
    OBVIOUS
  <2> QED BY <1>6, <2>2, <2>3
<1>9. ASSUME NEW y \in S PROVE x = y \/ Later(x[2], y[2])
  <2> SUFFICES ASSUME x # y, Later(y[2], x[2]) PROVE FALSE
    BY <1>1, <1>2, <1>3
  <2>1. After(y) \subseteq After(x) /\ y \in After(x) /\ y \notin After(y)
    BY <1>1, <1>4, <1>5
  <2> HIDE DEF After
  <2>2. Cardinality(After(y)) < Cardinality(After(x))
    BY <1>6, <2>1, FS_Subset
  <2> QED BY <1>8, <2>2
<1>10. {z \in S : \A q \in S : z = q \/ Later(z[2], q[2])} = {x}
  <2>1. ASSUME NEW z \in S, \A q \in S : z = q \/ Later(z[2], q[2]) PROVE z = x
    <3> SUFFICES ASSUME z # x PROVE FALSE
      OBVIOUS
    <3>1. Later(z[2], x[2]) /\ Later(x[2], z[2])
      BY <1>9, <2>1
    <3> QED BY <1>1, <1>4, <1>5, <3>1
  <2> QED BY <1>9, <2>1
<1> QED BY <1>10

(* Where the node's parent is, a placement of it is.                       *)
LEMMA PlacedThere ==
  ASSUME NEW A, NEW t, Filed(t, A), NEW n \in DOMAIN t.places
  PROVE  \E p \in t.places[n] : p[1] \in ParentOf(t, n)
<1>1. /\ Kept(t) /\ Indexed(t) /\ Lodged(t) /\ ArrivedBut(t, {}) /\ BirthsHeld(t, t.nodes)
      /\ n \in DOMAIN t.base /\ n \in t.nodes \ {Fragment} /\ t.base[n] = Front(n)
  BY DEF Filed, Shelved, Kept, Placed
<1>2. \A p : p \in t.places[n] <=> p \in DOMAIN t.index /\ t.index[p] = n
  BY <1>1 DEF Indexed, Holds
<1>3. /\ \A m \in DOMAIN t.moved : \E e \in Entries(t.log) : e[2] = m /\ e[3] = t.moved[m]
      /\ \A e \in Entries(t.log) : ~IsOwner(e[2]) => e[2] \in DOMAIN t.moved
  BY <1>1, MovedByLog DEF Kept
<1>4. Birth(n)[1] = Front(n)
  BY DEF Birth
<1>5. CASE n \in DOMAIN t.moved
  <2>1. PICK e \in Entries(t.log) : e[2] = n /\ e[3] = t.moved[n]
    BY <1>3, <1>5
  <2> DEFINE p == <<e[3], e[1]>>
  <2>2. p \in t.places[n]
    BY <1>1, <1>2, <2>1 DEF Lodged
  <2>3. p[1] \in ParentOf(t, n)
    BY <1>5, <2>1 DEF ParentOf
  <2> QED BY <2>2, <2>3
<1>6. CASE n \notin DOMAIN t.moved
  <2>1. ParentOf(t, n) = {Front(n)}
    BY <1>1, <1>6 DEF ParentOf
  <2>2. Birth(n) \in t.places[n]
    <3>1. CASE IsOwner(n)
      BY <1>1, <1>2, <3>1 DEF BirthsHeld
    <3>2. CASE ~IsOwner(n)
      <4>1. PICK p : p \in t.places[n]
        BY <1>1 DEF Indexed, Inhabited
      <4>2. p = Birth(n) \/ <<p[2], n, p[1]>> \in Entries(t.log)
        BY <1>1, <1>2, <4>1 DEF ArrivedBut
      <4>3. <<p[2], n, p[1]>> \notin Entries(t.log)
        <5>1. <<p[2], n, p[1]>>[2] = n
          OBVIOUS
        <5> QED BY <1>3, <1>6, <3>2, <5>1
      <4> QED BY <4>1, <4>2, <4>3
    <3> QED BY <3>1, <3>2
  <2> QED BY <1>4, <2>1, <2>2
<1> QED BY <1>5, <1>6

(* A node with a placement is shown in exactly one place, and in none once *)
(* any of its placements has been deleted, whatever moves, births and      *)
(* deletes meet, and however many ops came to share a stamp (ShownOnce).   *)
THEOREM TreeShownOnce == Spec => []ShownOnce
<1>1. TreesSound => ShownOnce
  <2> SUFFICES ASSUME TreesSound, NEW c \in Client, NEW n \in DOMAIN tree[c].places
               PROVE  LET deleted == tree[c].places[n] \intersect tree[c].dead # {}
                      IN Cardinality(tree[c].places[n] \intersect Rendered(tree[c])) = IF deleted THEN 0 ELSE 1
    BY DEF ShownOnce
  <2> DEFINE t == tree[c]
             S == t.places[n]
             here == {p \in S : p[1] \in ParentOf(t, n)}
  <2>1. Unique(Known) /\ Filed(t, Known) /\ Folded(t)
    BY DEF TreesSound, Sound
  <2> HIDE DEF t
  <2>2. /\ Indexed(t) /\ DOMAIN t.index \subseteq Known /\ IsFiniteSet(DOMAIN t.index)
        /\ n \in DOMAIN t.places
    BY <2>1 DEF Filed, Shelved, t
  <2>3. S \subseteq DOMAIN t.index
    BY <2>2 DEF Indexed, Holds
  <2>4. S \intersect t.away = (S \ Live(t, n)) \ t.dead
    BY <2>1, <2>2 DEF Folded
  <2>5. S \intersect Rendered(t) = (S \intersect Live(t, n)) \ t.dead
    BY <2>3, <2>4 DEF Rendered
  <2>6. CASE S \intersect t.dead # {}
    <3>1. Live(t, n) = {}
      BY <2>6 DEF Live
    <3>2. S \intersect Rendered(t) = {}
      BY <2>5, <3>1
    <3> QED BY <2>6, <3>2, FS_EmptySet DEF t
  <2>7. CASE S \intersect t.dead = {}
    <3>1. Live(t, n) = {p \in here : \A q \in here : p = q \/ Later(p[2], q[2])}
      BY <2>7 DEF Live
    <3>2. here \subseteq Known /\ here \subseteq S
      BY <2>2, <2>3
    <3>3. here # {}
      BY <2>1, <2>2, PlacedThere
    <3>4. IsFiniteSet(here)
      BY <2>2, <2>3, FS_Subset
    <3> HIDE DEF here
    <3>5. PICK p \in here : Live(t, n) = {p}
      BY <2>1, <3>1, <3>2, <3>3, <3>4, Latest
    <3>6. S \intersect Rendered(t) = {p}
      BY <2>5, <2>7, <3>2, <3>5
    <3>7. Cardinality({p}) = 1
      BY FS_Singleton
    <3> QED BY <2>7, <3>6, <3>7 DEF t
  <2> QED BY <2>6, <2>7
<1> QED BY <1>1, TreesInit, TreesStep, PTL DEF Spec
=============================================================================
