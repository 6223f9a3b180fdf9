-------------------------- MODULE AwarenessProofs ---------------------------
(* What the sessions of a room show of its presence and why an entry goes, *)
(* for any clients, actors, keys, schemas, grace and number of connections,*)
(* publications, losses and sweeps.                                        *)
EXTENDS Awareness, FiniteSetTheorems, TLAPS

Actors == {ActorOf[c] : c \in Client}

Shows == UNION {[S -> Value] : S \in SUBSET (Actors \X Key)}

Frame ==
    [type : {"replay"}, shown : Shows]
    \union [type : {"update"}, actor : Actors, key : Key, value : Value]
    \union [type : {"clear key"}, actor : Actors, key : Key]
    \union [type : {"clear"}, actor : Actors]

(* A session that shows v and reads the frames of q shows w in the end.    *)
Reads(v, q, w) ==
    \E t : /\ t = [i \in 0 .. Len(q) |-> t[i]]
           /\ t[0] = v /\ t[Len(q)] = w
           /\ \A i \in 1 .. Len(q) : t[i] = Shown(t[i - 1], q[i])

(* Entries of the hub, each under its client's actor.                      *)
Presence(p) ==
    /\ p = [x \in DOMAIN p |-> p[x]]
    /\ DOMAIN p \subseteq Client \X Key
    /\ IsFiniteSet(DOMAIN p)
    /\ \A x \in DOMAIN p : /\ p[x] \in [actor : Actors, value : Value, silent : Int, quiet : Int]
                           /\ p[x].actor = ActorOf[x[1]]

(* q is a part of p, with the entries it has there.                        *)
PartOf(q, p) == DOMAIN q \subseteq DOMAIN p /\ \A x \in DOMAIN q : q[x] = p[x]

(* A session that showed v shows w once it has been told that of p only q  *)
(* is left: it has lost what went and kept what is there.                  *)
Trimmed(v, w, p, q) ==
    /\ DOMAIN w \subseteq DOMAIN v /\ \A a \in DOMAIN w : w[a] = v[a]
    /\ DOMAIN v \intersect HeldIn(q) \subseteq DOMAIN w
    /\ DOMAIN w \intersect HeldIn(p) \subseteq HeldIn(q)

-----------------------------------------------------------------------------
(* A set that holds 0 and with each number below k the next holds them all.*)
LEMMA UpTo ==
  ASSUME NEW S, NEW k \in Nat, 0 \in S, \A j \in 1 .. k : j - 1 \in S => j \in S
  PROVE  \A j \in 0 .. k : j \in S
<1> DEFINE T == {j \in Nat : j <= k /\ j \notin S}
<1> SUFFICES ASSUME T # {} PROVE FALSE
  OBVIOUS
<1>1. PICK i \in T : \A y \in T : ~(<<y, i>> \in OpToRel(<, Nat))
  <2>1. T \subseteq Nat /\ T # {}
    OBVIOUS
  <2> HIDE DEF T
  <2> QED BY <2>1, NatLessThanWellFounded, WFMin
<1>2. i \in Nat /\ i <= k /\ i \notin S /\ \A y \in Nat : y < i => y \notin T
  BY <1>1 DEF OpToRel
<1>3. i \in 1 .. k /\ i - 1 \in Nat /\ i - 1 < i /\ i - 1 <= k
  BY <1>2
<1> QED BY <1>2, <1>3

Walk(h, F, a, k) ==
    /\ h = [j \in 0 .. k |-> h[j]]
    /\ h[0] = a
    /\ \A j \in 1 .. k : h[j] = F[<<j, h[j - 1]>>]

(* k steps from a can be taken one after the other.                        *)
LEMMA WalkExists ==
  ASSUME NEW A, NEW k \in Nat, NEW F \in [(1 .. k) \X A -> A], NEW a \in A
  PROVE  \E h \in [0 .. k -> A] : Walk(h, F, a, k)
<1> DEFINE S == {j \in Nat : \E h \in [0 .. j -> A] : Walk(h, F, a, j)}
<1>1. 0 \in S
  <2> DEFINE h == [j \in 0 .. 0 |-> a]
  <2>1. h \in [0 .. 0 -> A] /\ h = [j \in 0 .. 0 |-> h[j]] /\ h[0] = a
    OBVIOUS
  <2>2. Walk(h, F, a, 0)
    BY <2>1 DEF Walk
  <2> QED BY <2>1, <2>2
<1>2. ASSUME NEW j \in 1 .. k, j - 1 \in S PROVE j \in S
  <2>1. PICK h \in [0 .. (j - 1) -> A] : Walk(h, F, a, j - 1)
    BY <1>2
  <2> DEFINE g == [i \in 0 .. j |-> IF i = j THEN F[<<j, h[j - 1]>>] ELSE h[i]]
  <2>2. g \in [0 .. j -> A]
    <3>1. F[<<j, h[j - 1]>>] \in A
      BY <2>1
    <3> QED BY <2>1, <3>1
  <2>3. g = [i \in 0 .. j |-> g[i]] /\ g[0] = a
    BY <2>1 DEF Walk
  <2>4. ASSUME NEW i \in 1 .. j PROVE g[i] = F[<<i, g[i - 1]>>]
    <3>1. i - 1 \in 0 .. (j - 1) /\ g[i - 1] = h[i - 1]
      OBVIOUS
    <3>2. CASE i = j
      <4>1. g[j] = F[<<j, h[j - 1]>>]
        OBVIOUS
      <4> HIDE DEF g
      <4> QED BY <3>1, <3>2, <4>1
    <3>3. CASE i # j
      <4>1. i \in 1 .. (j - 1) /\ g[i] = h[i]
        BY <3>3
      <4>2. h[i] = F[<<i, h[i - 1]>>]
        BY <2>1, <4>1 DEF Walk
      <4> QED BY <3>1, <4>1, <4>2
    <3> QED BY <3>2, <3>3
  <2> HIDE DEF g
  <2>5. Walk(g, F, a, j)
    BY <2>3, <2>4 DEF Walk
  <2> QED BY <2>2, <2>5
<1> HIDE DEF S
<1>3. k \in S
  BY <1>1, <1>2, UpTo
<1> QED BY <1>3 DEF S

(* The order the elements of a finite set are taken in.                    *)
LEMMA Orders ==
  ASSUME NEW S, IsFiniteSet(S), NEW f \in [1 .. Cardinality(S) -> S], IsInjective(f)
  PROVE  f \in Seq(S) /\ Len(f) = Cardinality(S) /\ \A x \in S : \E i \in 1 .. Len(f) : f[i] = x
<1> DEFINE n == Cardinality(S)
           D == 1 .. n
<1>1. n \in Nat
  BY FS_CardinalityType
<1>2. IsFiniteSet(D) /\ Cardinality(D) = n
  <2>1. 1 \in Int /\ n \in Int
    BY <1>1
  <2>2. IsFiniteSet(1 .. n) /\ Cardinality(1 .. n) = IF 1 > n THEN 0 ELSE n - 1 + 1
    BY <2>1, FS_Interval
  <2> QED BY <1>1, <2>2
<1>3. f \in Injection(D, S)
  BY DEF Injection, IsInjective
<1>4. f \in Surjection(D, S)
  <2> HIDE DEF D
  <2> QED BY <1>2, <1>3, FS_Injection
<1>5. f \in Seq(S) /\ Len(f) = n
  <2> HIDE DEF n
  <2> QED BY <1>1 DEF n
<1> QED BY <1>4, <1>5 DEF Surjection

LEMMA Listed ==
  ASSUME NEW S, IsFiniteSet(S)
  PROVE  LET x == SetToSeq(S)
         IN x \in Seq(S) /\ \A e \in S : \E i \in 1 .. Len(x) : x[i] = e
<1> DEFINE n == Cardinality(S)
           Lists(f) == f \in [1 .. n -> S] /\ IsInjective(f)
           x == SetToSeq(S)
<1>1. n \in Nat /\ \E f : f \in Bijection(1 .. n, S)
  BY FS_CardinalityType DEF ExistsBijection
<1>2. PICK g : g \in Bijection(1 .. n, S)
  BY <1>1
<1> HIDE DEF n
<1>3. Lists(g)
  BY <1>2 DEF Bijection, Injection, IsInjective
<1>4. x = CHOOSE f \in [1 .. n -> S] : IsInjective(f)
  BY DEF SetToSeq, n
<1>5. Lists(x)
  BY <1>3, <1>4
<1> HIDE DEF x
<1> QED BY <1>5, Orders DEF x, n

-----------------------------------------------------------------------------
(* Reading nothing, one frame, more frames, and the first of several.      *)
LEMMA ReadsNone ==
  ASSUME NEW v
  PROVE  Reads(v, <<>>, v) /\ \A w : Reads(v, <<>>, w) => w = v
<1> DEFINE t == [i \in 0 .. 0 |-> v]
<1>1. Len(<<>>) = 0 /\ t = [i \in 0 .. 0 |-> t[i]] /\ t[0] = v
  OBVIOUS
<1>2. Reads(v, <<>>, v)
  <2> HIDE DEF t
  <2> QED BY <1>1 DEF Reads
<1>3. \A w : Reads(v, <<>>, w) => w = v
  BY <1>1 DEF Reads
<1> QED BY <1>2, <1>3

LEMMA ReadsOne ==
  ASSUME NEW v, NEW m
  PROVE  Reads(v, <<m>>, Shown(v, m))
<1> DEFINE t == [i \in 0 .. 1 |-> IF i = 0 THEN v ELSE Shown(v, m)]
<1>1. Len(<<m>>) = 1 /\ <<m>>[1] = m
  OBVIOUS
<1>2. t = [i \in 0 .. 1 |-> t[i]] /\ t[0] = v /\ t[1] = Shown(v, m)
  OBVIOUS
<1> HIDE DEF t
<1>3. \A i \in 1 .. 1 : t[i] = Shown(t[i - 1], <<m>>[i])
  BY <1>1, <1>2
<1> QED BY <1>1, <1>2, <1>3 DEF Reads

LEMMA ReadsMore ==
  ASSUME NEW v, NEW w, NEW x, NEW q \in Seq(Frame), NEW r \in Seq(Frame),
         Reads(v, q, w), Reads(w, r, x)
  PROVE  Reads(v, q \o r, x)
<1>1. PICK t : /\ t = [i \in 0 .. Len(q) |-> t[i]]
               /\ t[0] = v /\ t[Len(q)] = w
               /\ \A i \in 1 .. Len(q) : t[i] = Shown(t[i - 1], q[i])
  BY DEF Reads
<1>2. PICK u : /\ u = [i \in 0 .. Len(r) |-> u[i]]
               /\ u[0] = w /\ u[Len(r)] = x
               /\ \A i \in 1 .. Len(r) : u[i] = Shown(u[i - 1], r[i])
  BY DEF Reads
<1> DEFINE n == Len(q)
           s == [i \in 0 .. Len(q \o r) |-> IF i <= n THEN t[i] ELSE u[i - n]]
<1>3. n \in Nat /\ Len(r) \in Nat /\ Len(q \o r) = n + Len(r)
  OBVIOUS
<1>4. s = [i \in 0 .. Len(q \o r) |-> s[i]] /\ s[0] = v /\ s[Len(q \o r)] = x
  BY <1>1, <1>2, <1>3
<1>5. ASSUME NEW i \in 1 .. Len(q \o r) PROVE s[i] = Shown(s[i - 1], (q \o r)[i])
  <2>1. CASE i <= n
    <3>1. i \in 1 .. n /\ s[i] = t[i] /\ s[i - 1] = t[i - 1] /\ (q \o r)[i] = q[i]
      BY <1>3, <2>1
    <3> QED BY <1>1, <3>1
  <2>2. CASE i > n
    <3>1. i - n \in 1 .. Len(r) /\ s[i] = u[i - n] /\ (q \o r)[i] = r[i - n]
      BY <1>3, <2>2
    <3>2. s[i - 1] = u[(i - n) - 1]
      <4>1. CASE i - 1 = n
        BY <1>1, <1>2, <1>3, <4>1
      <4>2. CASE i - 1 # n
        <5>1. (i - 1) - n = (i - n) - 1 /\ i - 1 \in 0 .. Len(q \o r) /\ ~(i - 1 <= n)
          BY <1>3, <2>2, <4>2
        <5>2. s[i - 1] = u[(i - 1) - n]
          BY <5>1
        <5> QED BY <5>1, <5>2
      <4> QED BY <4>1, <4>2
    <3> QED BY <1>2, <3>1, <3>2
  <2> QED BY <1>3, <2>1, <2>2
<1> HIDE DEF s
<1> QED BY <1>4, <1>5 DEF Reads

LEMMA ReadsHead ==
  ASSUME NEW v, NEW w, NEW q \in Seq(Frame), q # <<>>, Reads(v, q, w)
  PROVE  Reads(Shown(v, Head(q)), Tail(q), w)
<1>1. PICK t : /\ t = [i \in 0 .. Len(q) |-> t[i]]
               /\ t[0] = v /\ t[Len(q)] = w
               /\ \A i \in 1 .. Len(q) : t[i] = Shown(t[i - 1], q[i])
  BY DEF Reads
<1> DEFINE n == Len(q)
           s == [i \in 0 .. (n - 1) |-> t[i + 1]]
<1>2. n \in Nat /\ n >= 1 /\ Len(Tail(q)) = n - 1 /\ Head(q) = q[1]
  OBVIOUS
<1>3. s = [i \in 0 .. (n - 1) |-> s[i]] /\ s[n - 1] = w
  BY <1>1, <1>2
<1>4. s[0] = Shown(v, Head(q))
  <2>1. t[1] = Shown(t[0], q[1])
    BY <1>1, <1>2
  <2> QED BY <1>1, <1>2, <2>1
<1>5. ASSUME NEW i \in 1 .. (n - 1) PROVE s[i] = Shown(s[i - 1], Tail(q)[i])
  <2>1. i + 1 \in 1 .. n /\ Tail(q)[i] = q[i + 1] /\ s[i] = t[i + 1] /\ s[i - 1] = t[i]
    BY <1>2
  <2>2. t[i + 1] = Shown(t[(i + 1) - 1], q[i + 1])
    BY <1>1, <2>1
  <2> QED BY <2>1, <2>2
<1> HIDE DEF s
<1> QED BY <1>2, <1>3, <1>4, <1>5 DEF Reads

-----------------------------------------------------------------------------
ClearKeys == [type : {"clear key"}, actor : Actors, key : Key]

Others(v, actor) == {a \in DOMAIN v : a[1] # actor}

LEMMA ShownEach ==
  ASSUME NEW v, NEW m
  PROVE  /\ m.type = "replay" => Shown(v, m) = Over(m.shown, v)
         /\ m.type = "update" => Shown(v, m) = Put(v, <<m.actor, m.key>>, m.value)
         /\ m.type = "clear key" => Shown(v, m) = Keep(v, DOMAIN v \ {<<m.actor, m.key>>})
  BY DEF Shown

LEMMA ShownClear ==
  ASSUME NEW v, NEW a
  PROVE  Shown(v, [type |-> "clear", actor |-> a]) = Keep(v, Others(v, a))
  BY DEF Shown, Others

LEMMA FiniteImage ==
  ASSUME NEW S, IsFiniteSet(S), NEW f, DOMAIN f = S, f = [x \in S |-> f[x]]
  PROVE  IsFiniteSet({f[x] : x \in S})
<1> DEFINE T == {f[x] : x \in S}
<1>1. f \in Surjection(S, T)
  <2>1. f \in [S -> T]
    OBVIOUS
  <2> QED BY <2>1 DEF Surjection
<1> HIDE DEF T
<1>2. IsFiniteSet(T)
  BY <1>1, FS_Surjection
<1> QED BY <1>2 DEF T

(* A list of removals takes just the keys it names off a session.          *)
LEMMA KeysRead ==
  ASSUME NEW v, NEW M \in SUBSET ClearKeys, IsFiniteSet(M)
  PROVE  /\ SetToSeq(M) \in Seq(Frame)
         /\ \E w : /\ Reads(v, SetToSeq(M), w)
                   /\ \A a : a \in DOMAIN w <=> a \in DOMAIN v /\ \A m \in M : a # <<m.actor, m.key>>
                   /\ \A a \in DOMAIN w : w[a] = v[a]
<1> DEFINE q == SetToSeq(M)
           n == Len(q)
           Rest(i) == {a \in DOMAIN v : \A j \in 1 .. i : a # <<q[j].actor, q[j].key>>}
           t == [i \in 0 .. n |-> IF i = 0 THEN v ELSE Keep(v, Rest(i))]
<1>1. q \in Seq(M) /\ \A m \in M : \E i \in 1 .. Len(q) : q[i] = m
  BY Listed
<1> HIDE DEF q
<1>2. n \in Nat /\ DOMAIN q = 1 .. n /\ \A i \in 1 .. n : q[i] \in M
  BY <1>1
<1>3. M \subseteq Frame /\ \A m \in M : m.type = "clear key"
  BY DEF ClearKeys, Frame
<1>4. q \in Seq(Frame)
  <2>1. q = [i \in 1 .. n |-> q[i]] /\ \A i \in 1 .. n : q[i] \in Frame
    <3>1. q \in Seq(M)
      BY <1>1
    <3>2. q = [i \in 1 .. n |-> q[i]]
      BY <3>1
    <3> QED BY <1>2, <1>3, <3>2
  <2>2. q \in [1 .. n -> Frame]
    BY <2>1
  <2> QED BY <1>2, <2>2
<1>5. t = [i \in 0 .. n |-> t[i]] /\ t[0] = v /\ \A i \in 1 .. n : t[i] = Keep(v, Rest(i))
  BY <1>2
<1>6. ASSUME NEW i \in 0 .. n
      PROVE  DOMAIN t[i] = Rest(i) /\ \A a \in Rest(i) : t[i][a] = v[a]
  <2>1. CASE i = 0
    <3>1. 1 .. i = {}
      BY <2>1
    <3>2. Rest(i) = DOMAIN v
      BY <3>1
    <3> HIDE DEF t, Rest
    <3> QED BY <1>5, <2>1, <3>2
  <2>2. CASE i # 0
    <3>1. i \in 1 .. n
      BY <2>2
    <3> HIDE DEF t, Rest
    <3> QED BY <1>5, <3>1 DEF Keep
  <2> QED BY <2>1, <2>2
<1>7. ASSUME NEW i \in 1 .. n PROVE t[i] = Shown(t[i - 1], q[i])
  <2>1. Shown(t[i - 1], q[i]) = Keep(t[i - 1], DOMAIN t[i - 1] \ {<<q[i].actor, q[i].key>>})
    BY <1>2, <1>3, ShownEach
  <2>2. i - 1 \in 0 .. n /\ DOMAIN t[i - 1] = Rest(i - 1) /\ \A a \in Rest(i - 1) : t[i - 1][a] = v[a]
    <3>1. i - 1 \in 0 .. n
      BY <1>2
    <3> HIDE DEF t, Rest
    <3> QED BY <3>1, <1>6
  <2>3. Rest(i) = Rest(i - 1) \ {<<q[i].actor, q[i].key>>}
    <3>1. \A j : j \in 1 .. i <=> j \in 1 .. (i - 1) \/ j = i
      OBVIOUS
    <3> QED BY <3>1
  <2>4. t[i] = Keep(v, Rest(i))
    BY <1>5
  <2> HIDE DEF t, Rest
  <2>5. \A a \in Rest(i) : t[i - 1][a] = v[a]
    BY <2>2, <2>3
  <2> QED BY <2>1, <2>2, <2>3, <2>4, <2>5 DEF Keep
<1>8. Reads(v, q, t[n])
  <2> HIDE DEF t
  <2> QED BY <1>5, <1>7 DEF Reads
<1>9. \A a : a \in Rest(n) <=> a \in DOMAIN v /\ \A m \in M : a # <<m.actor, m.key>>
  BY <1>1, <1>2
<1>10. DOMAIN t[n] = Rest(n) /\ \A a \in Rest(n) : t[n][a] = v[a]
  <2>1. n \in 0 .. n
    BY <1>2
  <2> HIDE DEF t, Rest
  <2> QED BY <2>1, <1>6
<1> HIDE DEF t, Rest
<1> QED BY <1>4, <1>8, <1>9, <1>10 DEF q

LEMMA InHeld ==
  ASSUME NEW p, NEW a
  PROVE  a \in HeldIn(p) <=> \E x \in DOMAIN p : a = <<p[x].actor, x[2]>>
  BY DEF HeldIn

LEMMA HeldFinite ==
  ASSUME NEW p, Presence(p)
  PROVE  IsFiniteSet(HeldIn(p)) /\ HeldIn(p) \subseteq Actors \X Key
<1> DEFINE f == [x \in DOMAIN p |-> <<p[x].actor, x[2]>>]
<1>1. IsFiniteSet({f[x] : x \in DOMAIN p})
  <2>1. IsFiniteSet(DOMAIN p) /\ DOMAIN f = DOMAIN p /\ f = [x \in DOMAIN p |-> f[x]]
    BY DEF Presence
  <2> HIDE DEF f
  <2> QED BY <2>1, FiniteImage
<1>2. {f[x] : x \in DOMAIN p} = HeldIn(p)
  BY DEF HeldIn
<1>3. HeldIn(p) \subseteq Actors \X Key
  BY DEF HeldIn, Presence
<1> QED BY <1>1, <1>2, <1>3

LEMMA HeldPart ==
  ASSUME NEW p, NEW q, PartOf(q, p)
  PROVE  HeldIn(q) \subseteq HeldIn(p)
  BY InHeld DEF PartOf

LEMMA PartPresence ==
  ASSUME NEW p, Presence(p), NEW S, S \subseteq DOMAIN p
  PROVE  Presence(Keep(p, S)) /\ PartOf(Keep(p, S), p) /\ DOMAIN Keep(p, S) = S
<1>1. IsFiniteSet(S)
  BY FS_Subset DEF Presence
<1>2. DOMAIN Keep(p, S) = S /\ \A x \in S : Keep(p, S)[x] = p[x]
  BY DEF Keep
<1>3. Keep(p, S) = [x \in DOMAIN Keep(p, S) |-> Keep(p, S)[x]]
  BY DEF Keep
<1> QED BY <1>1, <1>2, <1>3 DEF Presence, PartOf

LEMMA TrimmedOn ==
  ASSUME NEW v, NEW w, NEW x, NEW p, NEW q, NEW r, PartOf(q, p), PartOf(r, q),
         Trimmed(v, w, p, q), Trimmed(w, x, q, r)
  PROVE  Trimmed(v, x, p, r)
<1>1. HeldIn(r) \subseteq HeldIn(q)
  BY HeldPart
<1> QED BY <1>1 DEF Trimmed

(* The removals of an expiry.                                              *)
LEMMA ExpiredRead ==
  ASSUME NEW v, NEW p, NEW q, Presence(p), PartOf(q, p)
  PROVE  Expired(p, q) \in Seq(Frame) /\ \E w : Reads(v, Expired(p, q), w) /\ Trimmed(v, w, p, q)
<1> DEFINE H == HeldIn(p) \ HeldIn(q)
           f == [a \in H |-> [type |-> "clear key", actor |-> a[1], key |-> a[2]]]
           M == {f[a] : a \in H}
<1>1. IsFiniteSet(H) /\ H \subseteq Actors \X Key
  BY HeldFinite, FS_Subset
<1>2. IsFiniteSet(M)
  <2>1. DOMAIN f = H /\ f = [a \in H |-> f[a]]
    OBVIOUS
  <2> HIDE DEF f, H
  <2> QED BY <1>1, <2>1, FiniteImage
<1>3. M = {[type |-> "clear key", actor |-> a[1], key |-> a[2]] : a \in H}
  OBVIOUS
<1>4. M \subseteq ClearKeys
  <2>1. \A a \in H : a[1] \in Actors /\ a[2] \in Key
    <3> HIDE DEF H
    <3> QED BY <1>1
  <2>2. \A a \in H : f[a] \in ClearKeys
    <3> HIDE DEF H
    <3> QED BY <2>1 DEF ClearKeys
  <2> HIDE DEF f, H
  <2> QED BY <2>2
<1>5. Expired(p, q) = SetToSeq(M)
  BY <1>3 DEF Expired
<1>6. \A a : (\E m \in M : a = <<m.actor, m.key>>) <=> a \in H
  <2>1. \A a \in H : f[a].actor = a[1] /\ f[a].key = a[2]
    <3> HIDE DEF H
    <3> QED OBVIOUS
  <2>2. \A a \in H : a = <<a[1], a[2]>>
    <3> HIDE DEF H, f
    <3> QED BY <1>1
  <2> HIDE DEF f, H
  <2> QED BY <2>1, <2>2
<1> HIDE DEF M, f
<1>7. PICK w : /\ Reads(v, SetToSeq(M), w)
               /\ \A a : a \in DOMAIN w <=> a \in DOMAIN v /\ \A m \in M : a # <<m.actor, m.key>>
               /\ \A a \in DOMAIN w : w[a] = v[a]
  BY <1>2, <1>4, KeysRead
<1>8. \A a : a \in DOMAIN w <=> a \in DOMAIN v /\ a \notin H
  BY <1>6, <1>7
<1>9. Trimmed(v, w, p, q)
  BY <1>7, <1>8 DEF Trimmed
<1>10. SetToSeq(M) \in Seq(Frame)
  BY <1>2, <1>4, KeysRead
<1> QED BY <1>5, <1>7, <1>9, <1>10

(* The removals of a client.                                               *)
LEMMA RemovalsRead ==
  ASSUME NEW v, NEW p, NEW c \in Client, Presence(p)
  PROVE  /\ Removals(p, c) \in Seq(Frame)
         /\ \E w : Reads(v, Removals(p, c), w) /\ Trimmed(v, w, p, Cleared(p, c))
<1> DEFINE rest == Cleared(p, c)
           mine == {x \in DOMAIN p : x[1] = c}
           act == ActorOf[c]
           lost == {y \in mine : <<act, y[2]>> \notin HeldIn(rest)}
           f == [x \in lost |-> [type |-> "clear key", actor |-> act, key |-> x[2]]]
           M == {f[x] : x \in lost}
<1>1. /\ DOMAIN rest = {x \in DOMAIN p : x[1] # c}
      /\ PartOf(rest, p)
  BY PartPresence DEF Cleared
<1>2. HeldIn(rest) \subseteq HeldIn(p)
  BY <1>1, HeldPart
<1>3. act \in Actors /\ \A x \in DOMAIN p : p[x].actor = ActorOf[x[1]] /\ x \in Client \X Key
  BY DEF Presence, Actors
<1>4. \A x \in DOMAIN rest : rest[x] = p[x]
  BY <1>1 DEF PartOf
<1>5. \A a \in HeldIn(p) : a \in HeldIn(rest) \/ \E x \in mine : a = <<act, x[2]>>
  <2> SUFFICES ASSUME NEW a \in HeldIn(p) PROVE a \in HeldIn(rest) \/ \E x \in mine : a = <<act, x[2]>>
    OBVIOUS
  <2>1. PICK x \in DOMAIN p : a = <<p[x].actor, x[2]>>
    BY InHeld
  <2>2. CASE x[1] = c
    BY <1>3, <2>1, <2>2
  <2>3. CASE x[1] # c
    <3>1. x \in DOMAIN rest /\ rest[x] = p[x]
      BY <1>1, <1>4, <2>3
    <3> HIDE DEF rest
    <3>2. a = <<rest[x].actor, x[2]>>
      BY <2>1, <3>1
    <3> QED BY <3>1, <3>2, InHeld
  <2> QED BY <2>2, <2>3
<1>6. /\ Removals(p, c) = IF mine = {} THEN <<>>
                          ELSE IF \E x \in DOMAIN rest : rest[x].actor = act
                          THEN SetToSeq({[type |-> "clear key", actor |-> act, key |-> x[2]] : x \in lost})
                          ELSE <<[type |-> "clear", actor |-> act]>>
  BY DEF Removals
<1> HIDE DEF rest
<1>7. CASE mine = {}
  <2>1. HeldIn(p) = HeldIn(rest)
    BY <1>2, <1>5, <1>7
  <2>2. Trimmed(v, v, p, rest)
    BY <2>1 DEF Trimmed
  <2> QED BY <1>6, <1>7, <2>2, ReadsNone DEF rest
<1>8. CASE mine # {} /\ \E x \in DOMAIN rest : rest[x].actor = act
  <2>1. IsFiniteSet(lost)
    BY FS_Subset DEF Presence
  <2>2. IsFiniteSet(M)
    <3>1. DOMAIN f = lost /\ f = [x \in lost |-> f[x]]
      OBVIOUS
    <3> HIDE DEF f, lost
    <3> QED BY <2>1, <3>1, FiniteImage
  <2>3. M = {[type |-> "clear key", actor |-> act, key |-> x[2]] : x \in lost}
    OBVIOUS
  <2>4. M \subseteq ClearKeys
    <3>1. \A x \in lost : x[2] \in Key
      BY <1>3
    <3>2. \A x \in lost : f[x] \in ClearKeys
      <4> HIDE DEF lost, act
      <4> QED BY <1>3, <3>1 DEF ClearKeys
    <3> HIDE DEF lost, f
    <3> QED BY <3>2
  <2>5. \A a : (\E m \in M : a = <<m.actor, m.key>>) <=> \E x \in lost : a = <<act, x[2]>>
    <3>1. \A x \in lost : f[x].actor = act /\ f[x].key = x[2]
      OBVIOUS
    <3> HIDE DEF f, lost
    <3> QED BY <3>1
  <2>6. Removals(p, c) = SetToSeq(M)
    BY <1>6, <1>8, <2>3
  <2> HIDE DEF M, f
  <2>7. PICK w : /\ Reads(v, SetToSeq(M), w)
                 /\ \A a : a \in DOMAIN w <=> a \in DOMAIN v /\ \A m \in M : a # <<m.actor, m.key>>
                 /\ \A a \in DOMAIN w : w[a] = v[a]
    BY <2>2, <2>4, KeysRead
  <2>8. \A a : a \in DOMAIN w <=> a \in DOMAIN v /\ ~\E x \in lost : a = <<act, x[2]>>
    <3> HIDE DEF lost
    <3> QED BY <2>5, <2>7
  <2>9. \A a \in DOMAIN v \intersect HeldIn(rest) : a \in DOMAIN w
    BY <2>8
  <2>10. \A a \in DOMAIN w \intersect HeldIn(p) : a \in HeldIn(rest)
    <3> SUFFICES ASSUME NEW a \in DOMAIN w \intersect HeldIn(p), a \notin HeldIn(rest)
                 PROVE  FALSE
      OBVIOUS
    <3>1. PICK x \in mine : a = <<act, x[2]>>
      BY <1>5
    <3>2. x \in lost
      BY <3>1
    <3> HIDE DEF lost, mine, act
    <3> QED BY <2>8, <3>1, <3>2
  <2>11. Trimmed(v, w, p, rest)
    BY <2>7, <2>8, <2>9, <2>10 DEF Trimmed
  <2>12. SetToSeq(M) \in Seq(Frame)
    BY <2>2, <2>4, KeysRead
  <2> QED BY <2>6, <2>7, <2>11, <2>12 DEF rest
<1>9. CASE mine # {} /\ ~\E x \in DOMAIN rest : rest[x].actor = act
  <2> DEFINE m == [type |-> "clear", actor |-> act]
             w == Keep(v, Others(v, act))
  <2>1. m \in Frame /\ m.type = "clear" /\ m.actor = act
    BY <1>3 DEF Frame
  <2>2. Removals(p, c) = <<m>> /\ <<m>> \in Seq(Frame)
    BY <1>6, <1>9, <2>1
  <2>3. Shown(v, m) = w
    BY ShownClear
  <2> HIDE DEF m
  <2>4. DOMAIN w = {a \in DOMAIN v : a[1] # act} /\ \A a \in DOMAIN w : w[a] = v[a]
    BY DEF Keep, Others
  <2> HIDE DEF w
  <2>5. \A a \in DOMAIN v \intersect HeldIn(rest) : a \in DOMAIN w
    BY <1>9, <2>4, InHeld
  <2>6. \A a \in DOMAIN w \intersect HeldIn(p) : a \in HeldIn(rest)
    BY <1>5, <2>4
  <2>7. Trimmed(v, w, p, rest)
    BY <2>4, <2>5, <2>6 DEF Trimmed
  <2>8. Reads(v, <<m>>, w)
    BY <2>3, ReadsOne
  <2> QED BY <2>2, <2>7, <2>8 DEF rest
<1> QED BY <1>7, <1>8, <1>9

(* What is left of p once the first j of an order have been cleared.       *)
LeftAfter(p, order, j) == Keep(p, {x \in DOMAIN p : \A i \in 1 .. j : x[1] # order[i]})

LEMMA LeftNext ==
  ASSUME NEW p, Presence(p), NEW order, NEW j \in Nat \ {0}
  PROVE  /\ LeftAfter(p, order, 0) = p
         /\ Cleared(LeftAfter(p, order, j - 1), order[j]) = LeftAfter(p, order, j)
         /\ Presence(LeftAfter(p, order, j - 1))
         /\ PartOf(LeftAfter(p, order, j - 1), p)
         /\ PartOf(LeftAfter(p, order, j), LeftAfter(p, order, j - 1))
<1> DEFINE S(k) == {x \in DOMAIN p : \A i \in 1 .. k : x[1] # order[i]}
           q == LeftAfter(p, order, j - 1)
<1>1. LeftAfter(p, order, 0) = p
  <2>1. 1 .. 0 = {}
    OBVIOUS
  <2>2. S(0) = DOMAIN p
    BY <2>1
  <2>3. p = [x \in DOMAIN p |-> p[x]]
    BY DEF Presence
  <2> QED BY <2>2, <2>3 DEF LeftAfter, Keep
<1>2. S(j) = {x \in S(j - 1) : x[1] # order[j]}
  <2>1. \A i : i \in 1 .. j <=> i \in 1 .. (j - 1) \/ i = j
    OBVIOUS
  <2> QED BY <2>1
<1>3. S(j - 1) \subseteq DOMAIN p /\ LeftAfter(p, order, j) = Keep(p, S(j)) /\ q = Keep(p, S(j - 1))
  BY DEF LeftAfter
<1> HIDE DEF S, q
<1>4. DOMAIN q = S(j - 1) /\ \A x \in S(j - 1) : q[x] = p[x]
  BY <1>3 DEF Keep
<1>5. Cleared(q, order[j]) = [x \in S(j) |-> q[x]]
  BY <1>2, <1>4 DEF Cleared, Keep
<1>6. Cleared(q, order[j]) = Keep(p, S(j))
  BY <1>2, <1>4, <1>5 DEF Keep
<1>7. Presence(q) /\ PartOf(q, p)
  BY <1>3, PartPresence
<1>8. PartOf(Keep(p, S(j)), q)
  BY <1>2, <1>4 DEF PartOf, Keep
<1> QED BY <1>1, <1>3, <1>6, <1>7, <1>8 DEF q

(* Clearing the clients past their grace, one by one in any order.         *)
LEMMA DueRead ==
  ASSUME Presence(presence), DOMAIN stale \subseteq Client, NEW order \in SetToSeqs(Due)
  PROVE  /\ DOMAIN ClearDue(order).left = {x \in DOMAIN presence : x[1] \notin Due}
         /\ Presence(ClearDue(order).left) /\ PartOf(ClearDue(order).left, presence)
         /\ ClearDue(order).frames \in Seq(Frame)
         /\ \A v : \E w : /\ Reads(v, ClearDue(order).frames, w)
                          /\ Trimmed(v, w, presence, ClearDue(order).left)
<1> DEFINE p == presence
           n == Len(order)
           base == [left |-> p, frames |-> <<>>]
           Lefts == {Keep(p, S) : S \in SUBSET DOMAIN p}
           A == [left : Lefts, frames : Seq(Frame)]
           F == [y \in (1 .. n) \X A |-> ClearNext(y[2], order[y[1]])]
           Eq(g) == g = [k \in 0 .. n |-> IF k = 0 THEN base ELSE ClearNext(g[k - 1], order[k])]
           G == CHOOSE g : Eq(g)
<1>1. Due \subseteq Client /\ IsFiniteSet(Due)
  <2>1. Due \subseteq Client
    BY DEF Due
  <2> QED BY <2>1, AwarenessAssumption, FS_Subset
<1>2. order \in [1 .. Cardinality(Due) -> Due] /\ IsInjective(order)
  BY DEF SetToSeqs, IsInjective
<1>3. n \in Nat /\ order \in Seq(Due) /\ \A x \in Due : \E i \in 1 .. n : order[i] = x
  BY <1>1, <1>2, Orders
<1>4. \A i \in 1 .. n : order[i] \in Due /\ order[i] \in Client
  BY <1>1, <1>3
<1> HIDE DEF n
<1>5. ASSUME NEW s \in A, NEW i \in 1 .. n PROVE ClearNext(s, order[i]) \in A
  <2>1. PICK S \in SUBSET DOMAIN p : s.left = Keep(p, S)
    OBVIOUS
  <2>2. Presence(s.left) /\ DOMAIN s.left = S /\ \A x \in S : s.left[x] = p[x]
    BY <2>1, PartPresence DEF Keep
  <2>3. Cleared(s.left, order[i]) = Keep(p, {x \in S : x[1] # order[i]})
    BY <2>2 DEF Cleared, Keep
  <2>4. Cleared(s.left, order[i]) \in Lefts
    BY <2>3
  <2>5. Removals(s.left, order[i]) \in Seq(Frame)
    BY <1>4, <2>2, RemovalsRead
  <2> HIDE DEF Lefts
  <2> QED BY <2>4, <2>5 DEF ClearNext
<1>6. base \in A
  <2>1. p = Keep(p, DOMAIN p)
    BY DEF Presence, Keep
  <2> QED BY <2>1
<1> HIDE DEF A, base
<1>7. F \in [(1 .. n) \X A -> A]
  BY <1>5
<1>8. PICK h \in [0 .. n -> A] : Walk(h, F, base, n)
  <2> HIDE DEF F
  <2> QED BY <1>3, <1>6, <1>7, WalkExists
<1>9. Eq(h)
  <2>1. ASSUME NEW k \in 1 .. n PROVE h[k] = ClearNext(h[k - 1], order[k])
    <3>1. k - 1 \in 0 .. n
      BY <1>3
    <3>2. h[k - 1] \in A
      BY <1>8, <3>1
    <3>3. F[<<k, h[k - 1]>>] = ClearNext(h[k - 1], order[k])
      BY <3>2
    <3> HIDE DEF F
    <3> QED BY <1>8, <3>3 DEF Walk
  <2>2. h = [k \in 0 .. n |-> h[k]] /\ h[0] = base
    BY <1>8 DEF Walk
  <2>3. \A k \in 0 .. n : h[k] = IF k = 0 THEN base ELSE ClearNext(h[k - 1], order[k])
    <3> SUFFICES ASSUME NEW k \in 0 .. n
                 PROVE  h[k] = IF k = 0 THEN base ELSE ClearNext(h[k - 1], order[k])
      OBVIOUS
    <3>1. CASE k = 0
      BY <2>2, <3>1
    <3>2. CASE k # 0
      <4>1. k \in 1 .. n
        BY <1>3, <3>2
      <4> QED BY <2>1, <3>2, <4>1
    <3> QED BY <3>1, <3>2
  <2> QED BY <2>2, <2>3
<1>10. Eq(G)
  <2> HIDE DEF Eq
  <2> QED BY <1>9
<1>11. G[0] = base /\ \A k \in 1 .. n : G[k] = ClearNext(G[k - 1], order[k])
  <2> HIDE DEF G
  <2> QED BY <1>3, <1>10
<1>12. ClearDue(order) = G[n]
  BY Zenon DEF ClearDue, n, base
<1> HIDE DEF G, F
<1> DEFINE Good(j) == /\ G[j].left = LeftAfter(p, order, j)
                      /\ G[j].frames \in Seq(Frame)
                      /\ \A v : \E w : Reads(v, G[j].frames, w) /\ Trimmed(v, w, p, G[j].left)
           T == {j \in 0 .. n : Good(j)}
<1>13. 0 \in T
  <2>1. G[0].left = p /\ G[0].frames = <<>>
    BY <1>11 DEF base
  <2>2. LeftAfter(p, order, 0) = p
    BY LeftNext
  <2>3. \A v : Trimmed(v, v, p, p)
    BY DEF Trimmed
  <2> QED BY <1>3, <2>1, <2>2, <2>3, ReadsNone
<1>14. ASSUME NEW j \in 1 .. n, j - 1 \in T PROVE j \in T
  <2> DEFINE q == LeftAfter(p, order, j - 1)
             r == LeftAfter(p, order, j)
             c == order[j]
  <2>1. Good(j - 1) /\ j \in Nat \ {0} /\ c \in Client
    BY <1>3, <1>4, <1>14
  <2>2. Cleared(q, c) = r /\ Presence(q) /\ PartOf(q, p) /\ PartOf(r, q)
    BY <2>1, LeftNext
  <2> HIDE DEF q, r, c
  <2>3. G[j].left = r /\ G[j].frames = G[j - 1].frames \o Removals(q, c)
    <3>1. G[j] = ClearNext(G[j - 1], c)
      BY <1>11 DEF c
    <3>2. G[j - 1].left = q
      BY <2>1 DEF q
    <3> QED BY <2>2, <3>1, <3>2 DEF ClearNext
  <2>4. Removals(q, c) \in Seq(Frame)
    BY <2>1, <2>2, RemovalsRead
  <2>5. ASSUME NEW v PROVE \E w : Reads(v, G[j].frames, w) /\ Trimmed(v, w, p, r)
    <3>1. PICK u : Reads(v, G[j - 1].frames, u) /\ Trimmed(v, u, p, q)
      BY <2>1 DEF q
    <3>2. PICK w : Reads(u, Removals(q, c), w) /\ Trimmed(u, w, q, r)
      BY <2>1, <2>2, RemovalsRead
    <3>3. Reads(v, G[j].frames, w)
      BY <2>1, <2>3, <2>4, <3>1, <3>2, ReadsMore
    <3>4. Trimmed(v, w, p, r)
      BY <2>2, <3>1, <3>2, TrimmedOn
    <3> QED BY <3>3, <3>4
  <2>6. G[j].frames \in Seq(Frame)
    BY <2>1, <2>3, <2>4
  <2>7. Good(j)
    BY <2>3, <2>5, <2>6 DEF r
  <2> HIDE DEF Good
  <2> QED BY <1>3, <2>7
<1>15. Good(n)
  <2>1. n \in T
    <3> HIDE DEF T, Good
    <3>1. \A j \in 0 .. n : j \in T
      BY <1>3, <1>13, <1>14, UpTo
    <3> QED BY <1>3, <3>1
  <2> HIDE DEF Good
  <2> QED BY <2>1
<1>16. LeftAfter(p, order, n) = Keep(p, {x \in DOMAIN p : x[1] \notin Due})
  <2>1. {x \in DOMAIN p : \A i \in 1 .. n : x[1] # order[i]} = {x \in DOMAIN p : x[1] \notin Due}
    BY <1>3, <1>4
  <2> QED BY <2>1 DEF LeftAfter
<1>17. LET q == Keep(p, {x \in DOMAIN p : x[1] \notin Due})
       IN Presence(q) /\ PartOf(q, p) /\ DOMAIN q = {x \in DOMAIN p : x[1] \notin Due}
  BY PartPresence
<1> QED BY <1>12, <1>15, <1>16, <1>17

-----------------------------------------------------------------------------
(***************************************************************************)
(* The invariant of what sessions show: a session that has read all that   *)
(* is on its way to it shows the presence that is held.                    *)
(***************************************************************************)
Phases == {"off", "hello", "authed", "joined"}

Bounds ==
    [here : SUBSET Client, watch : SUBSET Client, app : Nat \X Nat,
     keys : SUBSET Key, values : SUBSET Value, dials : [Client -> Int],
     sets : [Client -> Int], drops : [Client -> Int]]

Typed ==
    /\ Presence(presence)
    /\ DOMAIN stale \subseteq Client
    /\ phase \in [Client -> Phases]
    /\ old \in [Client -> [phase : Phases, sent : Seq(Key \X Value)]]
    /\ outbox \in [Client -> Seq(Frame)]
    /\ view = [c \in Client |-> view[c]]
    /\ budget \in Bounds

(* The only client of its actor.                                           *)
Alone(c) == \A d \in Client : ActorOf[d] = ActorOf[c] => d = c

(* What a session of c shows is right when p is held; one that resumed may *)
(* show more.                                                              *)
Matches(c, w, p, res) ==
    /\ HeldIn(Cleared(p, c)) \subseteq DOMAIN w
    /\ c \notin res => DOMAIN w \subseteq HeldIn(p)
    /\ \A x \in DOMAIN p : x[1] # c /\ Alone(x[1]) => w[<<p[x].actor, x[2]>>] = p[x].value

ToldRight ==
    \A c \in Joined \intersect budget.watch :
        \E w : Reads(view[c], outbox[c], w) /\ Matches(c, w, presence, resumed)

PresenceInv == Typed /\ ToldRight

LEMMA InvAgrees ==
  ASSUME PresenceInv
  PROVE  PresenceAgrees
<1> SUFFICES ASSUME NEW c \in Client, Settled(c) PROVE HoldsPresence(c) /\ ShowsValues(c)
  BY DEF PresenceAgrees
<1>1. c \in Joined \intersect budget.watch /\ outbox[c] = <<>>
  BY DEF Settled
<1>2. PICK w : Reads(view[c], outbox[c], w) /\ Matches(c, w, presence, resumed)
  BY <1>1 DEF PresenceInv, ToldRight
<1>3. w = view[c]
  BY <1>1, <1>2, ReadsNone
<1>4. HeldBeside(c) = HeldIn(Cleared(presence, c))
  BY DEF HeldBeside, Cleared
<1>5. HoldsPresence(c)
  BY <1>2, <1>3, <1>4 DEF Matches, HoldsPresence
<1>6. ShowsValues(c)
  BY <1>2, <1>3 DEF Matches, ShowsValues, Alone
<1> QED BY <1>5, <1>6

LEMMA InCleared ==
  ASSUME NEW p, NEW c, NEW a
  PROVE  a \in HeldIn(Cleared(p, c)) <=> \E x \in DOMAIN p : x[1] # c /\ a = <<p[x].actor, x[2]>>
<1>1. DOMAIN Cleared(p, c) = {x \in DOMAIN p : x[1] # c} /\ \A x \in DOMAIN Cleared(p, c) : Cleared(p, c)[x] = p[x]
  BY DEF Cleared, Keep
<1> QED BY <1>1, InHeld

LEMMA MatchTrimmed ==
  ASSUME NEW c, NEW w, NEW u, NEW p, NEW q, NEW res, PartOf(q, p),
         Matches(c, w, p, res), Trimmed(w, u, p, q)
  PROVE  Matches(c, u, q, res)
<1>1. \A x \in DOMAIN q : x \in DOMAIN p /\ q[x] = p[x]
  BY DEF PartOf
<1>2. ASSUME NEW a \in HeldIn(Cleared(q, c)) PROVE a \in DOMAIN u
  <2>1. PICK x \in DOMAIN q : x[1] # c /\ a = <<q[x].actor, x[2]>>
    BY <1>2, InCleared
  <2>2. a \in HeldIn(q)
    BY <2>1, InHeld
  <2>3. a \in HeldIn(Cleared(p, c))
    BY <1>1, <2>1, InCleared
  <2> QED BY <2>2, <2>3 DEF Matches, Trimmed
<1>3. c \notin res => DOMAIN u \subseteq HeldIn(q)
  BY DEF Matches, Trimmed
<1>4. ASSUME NEW x \in DOMAIN q, x[1] # c, Alone(x[1])
      PROVE  u[<<q[x].actor, x[2]>>] = q[x].value
  <2>1. <<q[x].actor, x[2]>> \in HeldIn(Cleared(q, c))
    BY <1>4, InCleared
  <2>2. u[<<q[x].actor, x[2]>>] = w[<<q[x].actor, x[2]>>]
    BY <1>2, <2>1 DEF Trimmed
  <2> QED BY <1>1, <1>4, <2>2 DEF Matches
<1> QED BY <1>2, <1>3, <1>4 DEF Matches

(* An entry published and sent to the session.                             *)
LEMMA MatchUpdate ==
  ASSUME NEW c, NEW w, NEW p, NEW q, NEW res, NEW d \in Client, NEW k \in Key, NEW e,
         Presence(p), q = Put(p, <<d, k>>, e), e.actor = ActorOf[d], Matches(c, w, p, res)
  PROVE  Matches(c, Put(w, <<ActorOf[d], k>>, e.value), q, res)
<1> DEFINE y == <<d, k>>
           b == <<ActorOf[d], k>>
           u == Put(w, b, e.value)
<1>1. DOMAIN q = DOMAIN p \union {y} /\ q[y] = e /\ \A x \in DOMAIN p : x # y => q[x] = p[x]
  <2>1. q = Put(p, y, e)
    OBVIOUS
  <2> HIDE DEF y
  <2> QED BY <2>1 DEF Put
<1>2. DOMAIN u = DOMAIN w \union {b} /\ u[b] = e.value /\ \A a \in DOMAIN w : a # b => u[a] = w[a]
  <2> HIDE DEF b
  <2> QED BY DEF Put
<1>3. y[1] = d /\ y[2] = k /\ b = <<e.actor, k>>
  OBVIOUS
<1> HIDE DEF y, b, u
<1>4. ASSUME NEW a \in HeldIn(Cleared(q, c)) PROVE a \in DOMAIN u
  <2>1. PICK x \in DOMAIN q : x[1] # c /\ a = <<q[x].actor, x[2]>>
    BY <1>4, InCleared
  <2>2. CASE x = y
    BY <1>1, <1>2, <1>3, <2>1, <2>2
  <2>3. CASE x # y
    <3>1. x \in DOMAIN p /\ q[x] = p[x]
      BY <1>1, <2>3
    <3>2. a \in HeldIn(Cleared(p, c))
      BY <2>1, <3>1, InCleared
    <3> QED BY <1>2, <3>2 DEF Matches
  <2> QED BY <2>2, <2>3
<1>5. ASSUME c \notin res, NEW a \in DOMAIN u PROVE a \in HeldIn(q)
  <2>1. CASE a = b
    BY <1>1, <1>3, <2>1, InHeld
  <2>2. CASE a # b
    <3>1. a \in HeldIn(p)
      BY <1>2, <1>5, <2>2 DEF Matches
    <3>2. PICK x \in DOMAIN p : a = <<p[x].actor, x[2]>>
      BY <3>1, InHeld
    <3>3. x # y
      BY <1>3, <2>2, <3>2 DEF Presence, b
    <3> QED BY <1>1, <3>2, <3>3, InHeld
  <2> QED BY <2>1, <2>2
<1>6. ASSUME NEW x \in DOMAIN q, x[1] # c, Alone(x[1])
      PROVE  u[<<q[x].actor, x[2]>>] = q[x].value
  <2>1. CASE x = y
    BY <1>1, <1>2, <1>3, <2>1
  <2>2. CASE x # y
    <3>1. x \in DOMAIN p /\ q[x] = p[x] /\ p[x].actor = ActorOf[x[1]] /\ x \in Client \X Key
      BY <1>1, <2>2 DEF Presence
    <3>2. <<p[x].actor, x[2]>> # b
      <4> SUFFICES ASSUME <<p[x].actor, x[2]>> = b PROVE FALSE
        OBVIOUS
      <4>1. ActorOf[x[1]] = ActorOf[d] /\ x[2] = k
        BY <3>1 DEF b
      <4>2. x[1] = d
        BY <1>6, <4>1 DEF Alone
      <4> QED BY <2>2, <3>1, <4>1, <4>2 DEF y
    <3>3. <<p[x].actor, x[2]>> \in DOMAIN w
      BY <1>6, <3>1, InCleared DEF Matches
    <3>4. w[<<p[x].actor, x[2]>>] = p[x].value
      BY <1>6, <3>1 DEF Matches
    <3> QED BY <1>2, <3>1, <3>2, <3>3, <3>4
  <2> QED BY <2>1, <2>2
<1>7. Matches(c, u, q, res)
  BY <1>4, <1>5, <1>6 DEF Matches
<1> QED BY <1>7 DEF u, b

(* An entry of the session's own client, which is not sent to it.          *)
LEMMA MatchOwn ==
  ASSUME NEW w, NEW p, NEW q, NEW res, NEW d \in Client, NEW k \in Key, NEW e,
         Presence(p), q = Put(p, <<d, k>>, e), e.actor = ActorOf[d], Matches(d, w, p, res)
  PROVE  Matches(d, w, q, res)
<1> DEFINE y == <<d, k>>
<1>1. DOMAIN q = DOMAIN p \union {y} /\ q[y] = e /\ \A x \in DOMAIN p : x # y => q[x] = p[x]
  <2>1. q = Put(p, y, e)
    OBVIOUS
  <2> HIDE DEF y
  <2> QED BY <2>1 DEF Put
<1>2. y[1] = d /\ y[2] = k
  OBVIOUS
<1> HIDE DEF y
<1>3. \A x \in DOMAIN q : x[1] # d => x \in DOMAIN p /\ q[x] = p[x]
  BY <1>1, <1>2
<1>4. ASSUME NEW a \in HeldIn(Cleared(q, d)) PROVE a \in DOMAIN w
  <2>1. a \in HeldIn(Cleared(p, d))
    BY <1>3, <1>4, InCleared
  <2> QED BY <2>1 DEF Matches
<1>5. ASSUME d \notin res, NEW a \in DOMAIN w PROVE a \in HeldIn(q)
  <2>1. PICK x \in DOMAIN p : a = <<p[x].actor, x[2]>>
    BY <1>5, InHeld DEF Matches
  <2>2. x \in DOMAIN q /\ q[x].actor = p[x].actor
    BY <1>1, <1>2 DEF Presence
  <2> QED BY <2>1, <2>2, InHeld
<1> QED BY <1>3, <1>4, <1>5 DEF Matches

(* Entries that only age or are refreshed.                                 *)
LEMMA MatchAged ==
  ASSUME NEW c, NEW w, NEW p, NEW q, NEW res, DOMAIN q = DOMAIN p,
         \A x \in DOMAIN p : q[x].actor = p[x].actor /\ q[x].value = p[x].value,
         Matches(c, w, p, res)
  PROVE  Matches(c, w, q, res)
<1>1. \A a : a \in HeldIn(Cleared(q, c)) <=> a \in HeldIn(Cleared(p, c))
  BY InCleared
<1>2. \A a : a \in HeldIn(q) <=> a \in HeldIn(p)
  BY InHeld
<1> QED BY <1>1, <1>2 DEF Matches

(* The replay of a session that joins.                                     *)
LEMMA MatchReplay ==
  ASSUME NEW c, NEW v, NEW res, NEW f \in Replays, Presence(presence),
         c \notin res => DOMAIN v = {}
  PROVE  /\ f \in Shows
         /\ Matches(c, Over(f, v), presence, res)
<1> DEFINE p == presence
           u == Over(f, v)
           W(a) == {p[x].value : x \in {y \in DOMAIN p : <<p[y].actor, y[2]>> = a}}
<1>1. f \in [HeldIn(p) -> Value] /\ \A a \in HeldIn(p) : f[a] \in W(a)
  BY DEF Replays
<1>2. f \in Shows
  <2>1. HeldIn(p) \in SUBSET (Actors \X Key)
    BY HeldFinite
  <2> QED BY <1>1, <2>1 DEF Shows
<1>3. DOMAIN f = HeldIn(p)
  BY <1>1
<1>4. DOMAIN u = HeldIn(p) \union DOMAIN v /\ \A a \in HeldIn(p) : u[a] = f[a]
  BY <1>3 DEF Over
<1> HIDE DEF u
<1>5. HeldIn(Cleared(p, c)) \subseteq DOMAIN u
  <2>1. \A a : a \in HeldIn(Cleared(p, c)) => a \in HeldIn(p)
    BY InCleared, InHeld
  <2> QED BY <1>4, <2>1
<1>6. ASSUME NEW x \in DOMAIN p, Alone(x[1])
      PROVE  u[<<p[x].actor, x[2]>>] = p[x].value
  <2> DEFINE a == <<p[x].actor, x[2]>>
  <2>1. a \in HeldIn(p)
    BY InHeld
  <2>2. u[a] \in W(a)
    BY <1>1, <1>4, <2>1
  <2>3. PICK y \in DOMAIN p : <<p[y].actor, y[2]>> = a /\ u[a] = p[y].value
    BY <2>2
  <2>4. /\ x \in Client \X Key /\ y \in Client \X Key
        /\ p[x].actor = ActorOf[x[1]] /\ p[y].actor = ActorOf[y[1]]
    BY DEF Presence
  <2>5. y[1] = x[1] /\ y[2] = x[2]
    BY <1>6, <2>3, <2>4 DEF Alone
  <2>6. y = x
    BY <2>4, <2>5
  <2> QED BY <2>3, <2>6
<1>7. Matches(c, u, p, res)
  BY <1>4, <1>5, <1>6 DEF Matches
<1> QED BY <1>2, <1>7 DEF u

-----------------------------------------------------------------------------
(* A step that leaves the presence, and with it every session that was and *)
(* is joined, as it was.                                                   *)
LEMMA StillTold ==
  ASSUME PresenceInv, presence' = presence,
         \A d \in Joined' \intersect budget'.watch :
            /\ d \in Joined \intersect budget.watch
            /\ view'[d] = view[d] /\ outbox'[d] = outbox[d]
            /\ (d \in resumed)' <=> (d \in resumed)
  PROVE  ToldRight'
<1> SUFFICES ASSUME NEW d \in Joined' \intersect budget'.watch
             PROVE  \E w : Reads(view'[d], outbox'[d], w) /\ Matches(d, w, presence', resumed')
  BY DEF ToldRight
<1>1. PICK w : Reads(view[d], outbox[d], w) /\ Matches(d, w, presence, resumed)
  BY DEF PresenceInv, ToldRight
<1>2. Matches(d, w, presence, resumed')
  BY <1>1 DEF Matches
<1> QED BY <1>1, <1>2

LEMMA Spent ==
  ASSUME NEW b \in Bounds, NEW c \in Client, NEW n \in Int
  PROVE  /\ [b EXCEPT !.dials[c] = @ - 1] \in Bounds
         /\ [b EXCEPT !.sets[c] = @ - 1] \in Bounds
         /\ [b EXCEPT !.drops[c] = @ - 1] \in Bounds
         /\ [b EXCEPT !.drops[c] = @ - 1, !.sets[c] = @ - n] \in Bounds
<1>1. b.dials[c] \in Int /\ b.sets[c] \in Int /\ b.drops[c] \in Int
  BY DEF Bounds
<1>2. /\ [b.dials EXCEPT ![c] = @ - 1] \in [Client -> Int]
      /\ [b.sets EXCEPT ![c] = @ - 1] \in [Client -> Int]
      /\ [b.sets EXCEPT ![c] = @ - n] \in [Client -> Int]
      /\ [b.drops EXCEPT ![c] = @ - 1] \in [Client -> Int]
  BY <1>1 DEF Bounds
<1> QED BY <1>2 DEF Bounds

LEMMA DialKeeps ==
  ASSUME PresenceInv, NEW c \in Client, NEW fresh \in BOOLEAN, Dial(c, fresh)
  PROVE  PresenceInv'
<1> USE DEF PresenceInv, Typed, Dial
<1>1. Typed'
  <2>1. budget' \in Bounds
    BY 0 \in Int, Spent
  <2>2. phase' \in [Client -> Phases] /\ outbox' \in [Client -> Seq(Frame)]
    BY DEF Phases
  <2>3. view' = [d \in Client |-> view'[d]]
    OBVIOUS
  <2> QED BY <2>1, <2>2, <2>3
<1>2. budget'.watch = budget.watch
  BY DEF Bounds
<1>3. \A d \in Joined' : d \in Joined /\ d # c
  BY DEF Joined
<1>4. \A d \in Client : d # c => view'[d] = view[d]
  OBVIOUS
<1>5. \A d \in Joined' : d \in Client
  BY DEF Joined
<1>6. ToldRight'
  BY <1>2, <1>3, <1>4, <1>5, StillTold
<1> QED BY <1>1, <1>6

LEMMA ReturnedKeeps ==
  ASSUME NEW c, DOMAIN stale \subseteq Client, Returned(c)
  PROVE  DOMAIN stale' \subseteq Client /\ DOMAIN stale' = DOMAIN stale \ {c}
  BY DEF Returned, Keep

LEMMA AuthenticateKeeps ==
  ASSUME PresenceInv, NEW c \in Client, Authenticate(c)
  PROVE  PresenceInv'
<1> USE DEF PresenceInv, Typed, Authenticate
<1>1. Typed'
  BY ReturnedKeeps DEF Phases
<1>2. \A d \in Joined' : d \in Joined
  BY DEF Joined
<1>3. ToldRight'
  BY <1>2, StillTold
<1> QED BY <1>1, <1>3

LEMMA UnsubscribeKeeps ==
  ASSUME PresenceInv, NEW c \in Client, Unsubscribe(c)
  PROVE  PresenceInv'
<1> USE DEF PresenceInv, Typed, Unsubscribe
<1>1. Typed'
  <2>1. budget' \in Bounds
    BY 0 \in Int, Spent
  <2>2. phase' \in [Client -> Phases] /\ outbox' \in [Client -> Seq(Frame)]
    BY DEF Phases
  <2>3. view' = [d \in Client |-> view'[d]]
    OBVIOUS
  <2> QED BY <2>1, <2>2, <2>3
<1>2. budget'.watch = budget.watch
  BY DEF Bounds
<1>3. \A d \in Joined' : d \in Joined /\ d # c /\ d \in Client
  BY DEF Joined
<1>4. \A d \in Client : d # c => view'[d] = view[d] /\ outbox'[d] = outbox[d]
  OBVIOUS
<1>5. ToldRight'
  BY <1>2, <1>3, <1>4, StillTold
<1> QED BY <1>1, <1>5

LEMMA DropKeeps ==
  ASSUME PresenceInv, NEW c \in Client, NEW sent \in Seq(Key \X Value), Drop(c, sent)
  PROVE  PresenceInv'
<1> USE DEF PresenceInv, Typed, Drop
<1>1. Typed'
  <2>1. Len(sent) \in Int
    OBVIOUS
  <2>2. budget' \in Bounds
    BY <2>1, Spent
  <2>3. old' \in [Client -> [phase : Phases, sent : Seq(Key \X Value)]]
    BY DEF Phases
  <2>4. phase' \in [Client -> Phases] /\ outbox' \in [Client -> Seq(Frame)]
    BY DEF Phases
  <2> QED BY <2>2, <2>3, <2>4
<1>2. budget'.watch = budget.watch
  BY DEF Bounds
<1>3. \A d \in Joined' : d \in Joined /\ d # c /\ d \in Client
  BY DEF Joined
<1>4. \A d \in Client : d # c => outbox'[d] = outbox[d]
  OBVIOUS
<1>5. ToldRight'
  BY <1>2, <1>3, <1>4, StillTold
<1> QED BY <1>1, <1>5

LEMMA DisconnectKeeps ==
  ASSUME PresenceInv, NEW c \in Client, Disconnect(c)
  PROVE  PresenceInv'
<1> USE DEF PresenceInv, Typed, Disconnect
<1>1. Typed'
  <2>1. DOMAIN stale' \subseteq Client
    BY DEF Put
  <2>2. old' \in [Client -> [phase : Phases, sent : Seq(Key \X Value)]]
    BY DEF NoConn, Phases
  <2> QED BY <2>1, <2>2
<1>2. Joined' = Joined
  BY DEF Joined
<1>3. ToldRight'
  BY <1>2, StillTold
<1> QED BY <1>1, <1>3

LEMMA SubscribeKeeps ==
  ASSUME PresenceInv, NEW c \in Client, Subscribe(c)
  PROVE  PresenceInv'
<1> USE DEF PresenceInv
<1>1. PICK f \in Replays : outbox' = [outbox EXCEPT ![c] =
            IF c \in budget.watch THEN <<[type |-> "replay", shown |-> f]>> ELSE <<>>]
  BY DEF Subscribe
<1> DEFINE m == [type |-> "replay", shown |-> f]
<1>2. f \in Shows
  BY MatchReplay DEF Typed
<1>3. m \in Frame /\ m.type = "replay" /\ m.shown = f
  BY <1>2 DEF Frame
<1> HIDE DEF m
<1>4. outbox' = [outbox EXCEPT ![c] = IF c \in budget.watch THEN <<m>> ELSE <<>>]
  BY <1>1 DEF m
<1>5. Typed'
  <2>1. outbox' \in [Client -> Seq(Frame)]
    BY <1>3, <1>4 DEF Typed
  <2>2. phase' \in [Client -> Phases]
    BY DEF Typed, Subscribe, Phases
  <2>3. DOMAIN stale' \subseteq Client
    BY ReturnedKeeps DEF Typed, Subscribe
  <2> QED BY <2>1, <2>2, <2>3 DEF Typed, Subscribe
<1>6. ToldRight'
  <2> SUFFICES ASSUME NEW d \in Joined' \intersect budget'.watch
               PROVE  \E w : Reads(view'[d], outbox'[d], w) /\ Matches(d, w, presence', resumed')
    BY DEF ToldRight
  <2>1. view' = view /\ presence' = presence /\ budget' = budget
    BY DEF Subscribe
  <2>2. CASE d = c
    <3>1. outbox'[c] = <<m>>
      BY <1>4, <2>1, <2>2 DEF Typed
    <3>2. c \notin resumed' => DOMAIN view[c] = {}
      BY DEF Subscribe, Empty
    <3>3. Matches(c, Over(f, view[c]), presence, resumed')
      BY <3>2, MatchReplay DEF Typed
    <3>4. Shown(view[c], m) = Over(f, view[c])
      BY <1>3, ShownEach
    <3>5. Reads(view[c], <<m>>, Over(f, view[c]))
      BY <3>4, ReadsOne
    <3> QED BY <2>1, <2>2, <3>1, <3>3, <3>5
  <2>3. CASE d # c
    <3>1. d \in Joined /\ d \in Client
      BY <2>3 DEF Joined, Subscribe, Typed
    <3>2. outbox'[d] = outbox[d]
      BY <1>4, <2>3, <3>1 DEF Typed
    <3>3. d \in resumed' <=> d \in resumed
      BY <2>3 DEF Subscribe
    <3>4. PICK w : Reads(view[d], outbox[d], w) /\ Matches(d, w, presence, resumed)
      BY <2>1, <3>1 DEF ToldRight
    <3>5. Matches(d, w, presence, resumed')
      BY <3>3, <3>4 DEF Matches
    <3> QED BY <2>1, <3>2, <3>4, <3>5
  <2> QED BY <2>2, <2>3
<1> QED BY <1>5, <1>6

-----------------------------------------------------------------------------
(* What the handler of an AwarenessSet does to the entries.                *)
LEMMA ServedPresence ==
  ASSUME Typed, NEW c \in Client, NEW k \in Key, NEW v \in Value, NEW origin,
         ServeSet(c, k, v, origin)
  PROVE  \/ /\ ~Capped(c, k) /\ Broadcasts(c, k)
            /\ presence' = Put(presence, <<c, k>>,
                               [actor |-> ActorOf[c], value |-> v, silent |-> 0, quiet |-> 0])
            /\ Presence(presence)'
         \/ /\ ~(~Capped(c, k) /\ Broadcasts(c, k))
            /\ DOMAIN presence' = DOMAIN presence
            /\ \A x \in DOMAIN presence : /\ presence'[x].actor = presence[x].actor
                                          /\ presence'[x].value = presence[x].value
            /\ Presence(presence)'
<1> DEFINE p == presence
           y == <<c, k>>
           e == [actor |-> ActorOf[c], value |-> v, silent |-> 0, quiet |-> 0]
<1>1. Presence(p)
  BY DEF Typed
<1>2. CASE Capped(c, k)
  BY <1>1, <1>2 DEF ServeSet, Presence
<1>3. CASE ~Capped(c, k) /\ Broadcasts(c, k)
  <2>1. p' = Put(p, y, e)
    BY <1>3 DEF ServeSet, SetAwareness
  <2>2. /\ e \in [actor : Actors, value : Value, silent : Int, quiet : Int]
        /\ e.actor = ActorOf[c] /\ y \in Client \X Key /\ y[1] = c
    BY DEF Actors
  <2> HIDE DEF e, y
  <2>3. DOMAIN p' = DOMAIN p \union {y} /\ p' = [x \in DOMAIN p' |-> p'[x]]
        /\ \A x \in DOMAIN p' : p'[x] = IF x = y THEN e ELSE p[x]
    BY <2>1 DEF Put
  <2>4. IsFiniteSet(DOMAIN p')
    BY <1>1, <2>3, FS_AddElement DEF Presence
  <2>5. ASSUME NEW x \in DOMAIN p'
        PROVE  /\ x \in Client \X Key
               /\ p'[x] \in [actor : Actors, value : Value, silent : Int, quiet : Int]
               /\ p'[x].actor = ActorOf[x[1]]
    <3>1. CASE x = y
      BY <2>2, <2>3, <3>1
    <3>2. CASE x # y
      BY <1>1, <2>3, <3>2 DEF Presence
    <3> QED BY <3>1, <3>2
  <2>6. Presence(p')
    BY <2>3, <2>4, <2>5 DEF Presence
  <2> QED BY <1>3, <2>1, <2>6 DEF e, y
<1>4. CASE ~Capped(c, k) /\ ~Broadcasts(c, k)
  <2>1. y \in DOMAIN p /\ p' = [p EXCEPT ![y].silent = 0]
    BY <1>4 DEF ServeSet, SetAwareness, Broadcasts
  <2> HIDE DEF y
  <2>2. /\ DOMAIN p' = DOMAIN p /\ p' = [x \in DOMAIN p' |-> p'[x]]
        /\ \A x \in DOMAIN p : p'[x] = IF x = y THEN [p[x] EXCEPT !.silent = 0] ELSE p[x]
    BY <1>1, <2>1 DEF Presence
  <2>3. ASSUME NEW x \in DOMAIN p
        PROVE  /\ p'[x] \in [actor : Actors, value : Value, silent : Int, quiet : Int]
               /\ p'[x].actor = p[x].actor /\ p'[x].value = p[x].value
    <3>1. p[x] \in [actor : Actors, value : Value, silent : Int, quiet : Int]
      BY <1>1 DEF Presence
    <3> QED BY <2>2, <3>1
  <2>4. Presence(p')
    BY <1>1, <2>2, <2>3 DEF Presence
  <2> QED BY <1>4, <2>2, <2>3, <2>4
<1> QED BY <1>2, <1>3, <1>4

LEMMA ServeSetKeeps ==
  ASSUME PresenceInv, NEW c \in Client, NEW k \in Key, NEW v \in Value, NEW origin \in {{}, {c}},
         ServeSet(c, k, v, origin), phase' = phase, view' = view, resumed' = resumed,
         budget'.watch = budget.watch
  PROVE  /\ Presence(presence)' /\ DOMAIN stale' \subseteq Client
         /\ outbox' \in [Client -> Seq(Frame)]
         /\ ToldRight'
<1> DEFINE sent == ~Capped(c, k) /\ Broadcasts(c, k)
           m == [type |-> "update", actor |-> ActorOf[c], key |-> k, value |-> v]
           e == [actor |-> ActorOf[c], value |-> v, silent |-> 0, quiet |-> 0]
           frames == IF sent THEN <<m>> ELSE <<>>
           to == (Joined \intersect budget.watch) \ origin
<1>1. Typed
  BY DEF PresenceInv
<1>2. m \in Frame /\ m.type = "update" /\ <<m.actor, m.key>> = <<ActorOf[c], k>> /\ m.value = v
  BY DEF Frame, Actors
<1>3. frames \in Seq(Frame)
  <2> HIDE DEF m
  <2> QED BY <1>2
<1>4. outbox' = [d \in Client |-> IF d \in to THEN outbox[d] \o frames ELSE outbox[d]]
  BY DEF ServeSet, FanOut
<1>5. outbox' \in [Client -> Seq(Frame)]
  <2> HIDE DEF frames, to
  <2> QED BY <1>1, <1>3, <1>4 DEF Typed
<1>6. DOMAIN stale' \subseteq Client
  BY <1>1, ReturnedKeeps DEF Typed, ServeSet
<1>7. Presence(presence)'
  BY <1>1, ServedPresence
<1>8. ToldRight'
  <2> SUFFICES ASSUME NEW d \in Joined' \intersect budget'.watch
               PROVE  \E w : Reads(view'[d], outbox'[d], w) /\ Matches(d, w, presence', resumed')
    BY DEF ToldRight
  <2>1. d \in Joined \intersect budget.watch /\ d \in Client
    BY DEF Joined
  <2>2. PICK w : Reads(view[d], outbox[d], w) /\ Matches(d, w, presence, resumed)
    BY <2>1 DEF PresenceInv, ToldRight
  <2>3. CASE ~sent
    <3>1. Matches(d, w, presence', resumed)
      <4>1. /\ DOMAIN presence' = DOMAIN presence
            /\ \A x \in DOMAIN presence : /\ presence'[x].actor = presence[x].actor
                                          /\ presence'[x].value = presence[x].value
        BY <1>1, <2>3, ServedPresence
      <4> QED BY <2>2, <4>1, MatchAged
    <3>2. outbox'[d] = outbox[d] \o <<>> \/ outbox'[d] = outbox[d]
      BY <1>4, <2>1, <2>3
    <3>3. outbox[d] \in Seq(Frame)
      BY <1>1, <2>1 DEF Typed
    <3>4. outbox'[d] = outbox[d]
      BY <3>2, <3>3
    <3> QED BY <2>2, <3>1, <3>4
  <2>4. CASE sent
    <3>1. presence' = Put(presence, <<c, k>>, e) /\ e.actor = ActorOf[c] /\ e.value = v
      BY <1>1, <2>4, ServedPresence
    <3>2. Presence(presence) /\ outbox[d] \in Seq(Frame)
      BY <1>1, <2>1 DEF Typed
    <3>3. CASE d \in to
      <4> DEFINE u == Put(w, <<ActorOf[c], k>>, v)
      <4>1. outbox'[d] = outbox[d] \o <<m>>
        BY <1>4, <2>1, <2>4, <3>3
      <4>2. Shown(w, m) = u
        BY <1>2, ShownEach
      <4>3. Reads(w, <<m>>, u)
        BY <4>2, ReadsOne
      <4>4. Matches(d, u, presence', resumed)
        <5> HIDE DEF e
        <5> QED BY <2>2, <3>1, <3>2, MatchUpdate
      <4>5. <<m>> \in Seq(Frame)
        BY <1>2
      <4> HIDE DEF m, u
      <4>6. Reads(view[d], outbox[d] \o <<m>>, u)
        BY <2>2, <3>2, <4>3, <4>5, ReadsMore
      <4> QED BY <4>1, <4>4, <4>6
    <3>4. CASE d \notin to
      <4>1. d = c
        BY <2>1, <3>4
      <4>2. outbox'[d] = outbox[d]
        BY <1>4, <2>1, <3>4
      <4>3. Matches(c, w, presence', resumed)
        <5> HIDE DEF e
        <5> QED BY <2>2, <3>1, <3>2, <4>1, MatchOwn
      <4> QED BY <2>2, <4>1, <4>2, <4>3
    <3> QED BY <3>3, <3>4
  <2> QED BY <2>3, <2>4
<1> QED BY <1>5, <1>6, <1>7, <1>8

LEMMA SetKeeps ==
  ASSUME PresenceInv, NEW c \in Client, NEW k \in budget.keys, NEW v \in budget.values, Set(c, k, v)
  PROVE  PresenceInv'
<1>1. budget' = [budget EXCEPT !.sets[c] = @ - 1] /\ budget \in Bounds
  BY DEF Set, PresenceInv, Typed
<1>2. budget' \in Bounds /\ budget'.watch = budget.watch /\ k \in Key /\ v \in Value
  <2>1. budget' \in Bounds
    BY <1>1, 0 \in Int, Spent
  <2> QED BY <1>1, <2>1 DEF Bounds
<1>3. ServeSet(c, k, v, {c}) /\ phase' = phase /\ view' = view /\ resumed' = resumed /\ old' = old
  BY DEF Set
<1>4. /\ Presence(presence)' /\ DOMAIN stale' \subseteq Client
      /\ outbox' \in [Client -> Seq(Frame)]
      /\ ToldRight'
  BY <1>2, <1>3, ServeSetKeeps
<1> QED BY <1>2, <1>3, <1>4 DEF PresenceInv, Typed

LEMMA LateSetKeeps ==
  ASSUME PresenceInv, NEW c \in Client, LateSet(c)
  PROVE  PresenceInv'
<1> DEFINE q == old[c].sent
<1>1. q \in Seq(Key \X Value) /\ q # <<>>
  BY DEF LateSet, PresenceInv, Typed
<1>2. Head(q) \in Key \X Value /\ Tail(q) \in Seq(Key \X Value)
  <2> HIDE DEF q
  <2> QED BY <1>1
<1>3. Head(q)[1] \in Key /\ Head(q)[2] \in Value
  <2> HIDE DEF q
  <2> QED BY <1>2
<1>4. /\ ServeSet(c, Head(q)[1], Head(q)[2], {}) /\ phase' = phase /\ view' = view
      /\ resumed' = resumed /\ budget' = budget
  BY DEF LateSet
<1>5. /\ Presence(presence)' /\ DOMAIN stale' \subseteq Client
      /\ outbox' \in [Client -> Seq(Frame)]
      /\ ToldRight'
  <2> HIDE DEF q
  <2> QED BY <1>3, <1>4, ServeSetKeeps
<1>6. old' \in [Client -> [phase : Phases, sent : Seq(Key \X Value)]]
  <2>1. old' = [old EXCEPT ![c].sent = Tail(q)]
    BY DEF LateSet
  <2> HIDE DEF q
  <2> QED BY <1>2, <2>1 DEF PresenceInv, Typed
<1> QED BY <1>4, <1>5, <1>6 DEF PresenceInv, Typed

LEMMA TickKeeps ==
  ASSUME PresenceInv, Tick
  PROVE  PresenceInv'
<1> DEFINE p == presence
<1>1. Presence(p)
  BY DEF PresenceInv, Typed
<1>2. /\ DOMAIN p' = DOMAIN p /\ p' = [x \in DOMAIN p' |-> p'[x]]
      /\ \A x \in DOMAIN p : p'[x] = [p[x] EXCEPT !.silent = Older(@), !.quiet = Older(@)]
  BY DEF Tick
<1>3. \A n \in Int : Older(n) \in Int
  <2> SUFFICES ASSUME NEW n \in Int PROVE Older(n) \in Int
    OBVIOUS
  <2>1. \E z \in {n + 1, Forever} : \A y \in {n + 1, Forever} : z =< y
    BY AwarenessAssumption
  <2>2. Min({n + 1, Forever}) \in {n + 1, Forever}
    BY <2>1 DEF Min
  <2> QED BY <2>2, AwarenessAssumption DEF Older
<1>4. ASSUME NEW x \in DOMAIN p
      PROVE  /\ p'[x] \in [actor : Actors, value : Value, silent : Int, quiet : Int]
             /\ p'[x].actor = p[x].actor /\ p'[x].value = p[x].value
  <2>1. p[x] \in [actor : Actors, value : Value, silent : Int, quiet : Int]
    BY <1>1 DEF Presence
  <2> QED BY <1>2, <1>3, <2>1
<1>5. Presence(p')
  BY <1>1, <1>2, <1>4 DEF Presence
<1>6. Typed'
  <2>1. DOMAIN stale' = DOMAIN stale
    BY DEF Tick
  <2> QED BY <1>5, <2>1 DEF PresenceInv, Typed, Tick
<1>7. ToldRight'
  <2> SUFFICES ASSUME NEW d \in Joined' \intersect budget'.watch
               PROVE  \E w : Reads(view'[d], outbox'[d], w) /\ Matches(d, w, p', resumed')
    BY DEF ToldRight
  <2>1. d \in Joined \intersect budget.watch
    BY DEF Joined, Tick
  <2>2. PICK w : Reads(view[d], outbox[d], w) /\ Matches(d, w, p, resumed)
    BY <2>1 DEF PresenceInv, ToldRight
  <2>3. Matches(d, w, p', resumed)
    <3>1. \A x \in DOMAIN p : p'[x].actor = p[x].actor /\ p'[x].value = p[x].value
      BY <1>4
    <3>2. DOMAIN p' = DOMAIN p
      BY <1>2
    <3> QED BY <2>2, <3>1, <3>2, MatchAged
  <2> QED BY <2>2, <2>3 DEF Tick
<1> QED BY <1>6, <1>7 DEF PresenceInv

LEMMA ReceiveKeeps ==
  ASSUME PresenceInv, NEW c \in Client, Receive(c)
  PROVE  PresenceInv'
<1> DEFINE q == outbox[c]
<1>1. q \in Seq(Frame) /\ q # <<>> /\ Tail(q) \in Seq(Frame)
  BY DEF Receive, PresenceInv, Typed
<1>2. /\ outbox' = [outbox EXCEPT ![c] = Tail(q)]
      /\ view' = [view EXCEPT ![c] = Shown(view[c], Head(q))]
  BY DEF Receive
<1> HIDE DEF q
<1>3. Typed'
  BY <1>1, <1>2 DEF PresenceInv, Typed, Receive
<1>4. ToldRight'
  <2> SUFFICES ASSUME NEW d \in Joined' \intersect budget'.watch
               PROVE  \E w : Reads(view'[d], outbox'[d], w) /\ Matches(d, w, presence', resumed')
    BY DEF ToldRight
  <2>1. d \in Joined \intersect budget.watch /\ d \in Client
    BY DEF Joined, Receive
  <2>2. PICK w : Reads(view[d], outbox[d], w) /\ Matches(d, w, presence, resumed)
    BY <2>1 DEF PresenceInv, ToldRight
  <2>3. Reads(view'[d], outbox'[d], w)
    <3>1. CASE d = c
      <4>1. view'[c] = Shown(view[c], Head(q)) /\ outbox'[c] = Tail(q)
        BY <1>2 DEF PresenceInv, Typed
      <4>2. Reads(view[c], q, w)
        BY <2>2, <3>1 DEF q
      <4> QED BY <1>1, <3>1, <4>1, <4>2, ReadsHead
    <3>2. CASE d # c
      <4>1. view'[d] = view[d] /\ outbox'[d] = outbox[d]
        BY <1>2, <2>1, <3>2 DEF PresenceInv, Typed
      <4> QED BY <2>2, <4>1
    <3> QED BY <3>1, <3>2
  <2> QED BY <2>2, <2>3 DEF Receive
<1> QED BY <1>3, <1>4 DEF PresenceInv

(* What the sweep leaves of the presence.                                  *)
LEMMA SweptPresence ==
  ASSUME Typed, Sweep
  PROVE  \E frames \in Seq(Frame) :
            /\ FanOut(frames, {})
            /\ Presence(presence)' /\ PartOf(presence', presence)
            /\ \A v : \E w : Reads(v, frames, w) /\ Trimmed(v, w, presence, presence')
<1>1. PICK order \in SetToSeqs(Due) :
        LET r == ClearDue(order)
            app == ReconcileRoomApps(r.left)
        IN /\ presence' = Audible(r.left, app)
           /\ FanOut(r.frames \o Expired(r.left, Audible(r.left, app)), {})
  BY DEF Sweep
<1> DEFINE r == ClearDue(order)
           q == Audible(r.left, ReconcileRoomApps(r.left))
<1>2. /\ Presence(r.left) /\ PartOf(r.left, presence) /\ r.frames \in Seq(Frame)
      /\ \A v : \E w : Reads(v, r.frames, w) /\ Trimmed(v, w, presence, r.left)
  BY DueRead DEF Typed
<1>3. presence' = q /\ FanOut(r.frames \o Expired(r.left, q), {})
  BY <1>1
<1> HIDE DEF r
<1>4. Presence(q) /\ PartOf(q, r.left)
  BY <1>2, PartPresence DEF Audible
<1> HIDE DEF q
<1>5. Expired(r.left, q) \in Seq(Frame)
  BY <1>2, <1>4, ExpiredRead
<1>6. ASSUME NEW v
      PROVE  \E w : Reads(v, r.frames \o Expired(r.left, q), w) /\ Trimmed(v, w, presence, q)
  <2>1. PICK u : Reads(v, r.frames, u) /\ Trimmed(v, u, presence, r.left)
    BY <1>2
  <2>2. PICK w : Reads(u, Expired(r.left, q), w) /\ Trimmed(u, w, r.left, q)
    BY <1>2, <1>4, ExpiredRead
  <2>3. Reads(v, r.frames \o Expired(r.left, q), w)
    BY <1>2, <1>5, <2>1, <2>2, ReadsMore
  <2>4. Trimmed(v, w, presence, q)
    BY <1>2, <1>4, <2>1, <2>2, TrimmedOn
  <2> QED BY <2>3, <2>4
<1>7. PartOf(q, presence)
  BY <1>2, <1>4 DEF PartOf
<1>8. r.frames \o Expired(r.left, q) \in Seq(Frame)
  BY <1>2, <1>5
<1> QED BY <1>3, <1>4, <1>6, <1>7, <1>8

LEMMA SweepKeeps ==
  ASSUME PresenceInv, Sweep
  PROVE  PresenceInv'
<1>1. PICK frames \in Seq(Frame) :
            /\ FanOut(frames, {})
            /\ Presence(presence)' /\ PartOf(presence', presence)
            /\ \A v : \E w : Reads(v, frames, w) /\ Trimmed(v, w, presence, presence')
  BY SweptPresence DEF PresenceInv
<1>2. /\ phase' = phase /\ old' = old /\ view' = view /\ resumed' = resumed /\ budget' = budget
      /\ stale' = Keep(stale, DOMAIN stale \ Due)
  BY DEF Sweep
<1>3. outbox' = [d \in Client |-> IF d \in Joined \intersect budget.watch THEN outbox[d] \o frames ELSE outbox[d]]
  BY <1>1 DEF FanOut
<1>4. Typed'
  <2>1. DOMAIN stale' \subseteq Client
    BY <1>2 DEF PresenceInv, Typed, Keep
  <2>2. outbox' \in [Client -> Seq(Frame)]
    BY <1>3 DEF PresenceInv, Typed
  <2> QED BY <1>1, <1>2, <2>1, <2>2 DEF PresenceInv, Typed
<1>5. ToldRight'
  <2> SUFFICES ASSUME NEW d \in Joined' \intersect budget'.watch
               PROVE  \E w : Reads(view'[d], outbox'[d], w) /\ Matches(d, w, presence', resumed')
    BY DEF ToldRight
  <2>1. d \in Joined \intersect budget.watch /\ d \in Client
    BY <1>2 DEF Joined
  <2>2. PICK w : Reads(view[d], outbox[d], w) /\ Matches(d, w, presence, resumed)
    BY <2>1 DEF PresenceInv, ToldRight
  <2>3. PICK u : Reads(w, frames, u) /\ Trimmed(w, u, presence, presence')
    BY <1>1
  <2>4. Matches(d, u, presence', resumed)
    BY <1>1, <2>2, <2>3, MatchTrimmed
  <2>5. outbox'[d] = outbox[d] \o frames /\ outbox[d] \in Seq(Frame)
    BY <1>3, <2>1 DEF PresenceInv, Typed
  <2>6. Reads(view[d], outbox[d] \o frames, u)
    BY <2>2, <2>3, <2>5, ReadsMore
  <2> QED BY <1>2, <2>4, <2>5, <2>6
<1> QED BY <1>4, <1>5 DEF PresenceInv

LEMMA PresenceStart ==
  ASSUME Init
  PROVE  PresenceInv
<1>1. Presence(presence)
  BY FS_EmptySet DEF Init, Empty, Presence
<1>2. budget \in Budgets /\ budget \in Bounds
  BY BudgetsAssumption DEF Init, Bounds
<1>3. Typed
  BY <1>1, <1>2 DEF Init, Typed, Phases, NoConn, Empty
<1>4. ToldRight
  <2> SUFFICES ASSUME NEW c \in Joined \intersect budget.watch
               PROVE  Reads(view[c], outbox[c], view[c]) /\ Matches(c, view[c], presence, resumed)
    BY DEF ToldRight
  <2>1. c \in Client
    BY DEF Joined
  <2>2. outbox[c] = <<>> /\ view[c] = Empty /\ presence = Empty
    BY <2>1 DEF Init
  <2>3. \A a : a \notin HeldIn(Cleared(presence, c))
    BY <2>2, InCleared DEF Empty
  <2>4. Matches(c, view[c], presence, resumed)
    BY <2>2, <2>3 DEF Matches, Empty
  <2> QED BY <2>2, <2>4, ReadsNone
<1> QED BY <1>3, <1>4 DEF PresenceInv

LEMMA PresenceStep ==
  ASSUME PresenceInv, [Next]_vars
  PROVE  PresenceInv'
<1>1. CASE UNCHANGED vars
  <2>1. Typed'
    BY <1>1 DEF PresenceInv, Typed, vars
  <2>2. Joined' = Joined /\ presence' = presence
    BY <1>1 DEF Joined, vars
  <2>3. ToldRight'
    BY <1>1, <2>2, StillTold DEF vars
  <2> QED BY <2>1, <2>3 DEF PresenceInv
<1>2. ASSUME NEW c \in Client, NEW sent \in {<<>>} \union {<<s>> : s \in budget.keys \X budget.values},
             Drop(c, sent)
      PROVE  PresenceInv'
  <2>1. budget.keys \subseteq Key /\ budget.values \subseteq Value
    BY DEF PresenceInv, Typed, Bounds
  <2>2. sent \in Seq(Key \X Value)
    <3>1. CASE sent = <<>>
      BY <3>1
    <3>2. CASE sent # <<>>
      <4>1. PICK s \in budget.keys \X budget.values : sent = <<s>>
        BY <3>2
      <4>2. s \in Key \X Value
        BY <2>1
      <4> QED BY <4>1, <4>2
    <3> QED BY <3>1, <3>2
  <2> QED BY <1>2, <2>2, DropKeeps
<1> QED
  BY <1>1, <1>2, DialKeeps, AuthenticateKeeps, SubscribeKeeps, UnsubscribeKeeps, SetKeeps,
     LateSetKeeps, DisconnectKeeps, ReceiveKeeps, SweepKeeps, TickKeeps DEF Next

(* A session that has read all it was sent shows exactly the presence that *)
(* is held, with the values a joiner is replayed, whatever connections are *)
(* lost and resumed, however updates are coalesced, entries time out and   *)
(* an actor's clients leave one after the other (lib.rs, set_awareness,    *)
(* expire_silent_awareness and clear_client_awareness).                    *)
THEOREM PresenceShown == Spec => []PresenceAgrees
<1>1. Init => PresenceInv
  BY PresenceStart
<1>2. PresenceInv /\ [Next]_vars => PresenceInv'
  BY PresenceStep
<1>3. PresenceInv => PresenceAgrees
  BY InvAgrees
<1> QED BY <1>1, <1>2, <1>3, PTL DEF Spec

-----------------------------------------------------------------------------
(***************************************************************************)
(* The invariant of the grace and of the schema in force: a client in its  *)
(* grace has no connection, and whoever is in the room or holds presence   *)
(* is governed by a version of its app no older than its own.              *)
(***************************************************************************)
Apps == {Declared(c) : c \in {x \in Client : Enforcing(x)}}

GovernedBy(app, c) == app # NoApp /\ (AppOf[c] = app[1] => VersionOf[c] <= app[2])

GraceInv ==
    /\ \A c \in DOMAIN stale : c \notin Authed
    /\ \A c \in Client : old[c].sent # <<>> => old[c].phase = "joined"
    /\ roomApp \in {NoApp} \union Apps /\ governing \in {NoApp} \union Apps
    /\ \A c \in Client : Enforcing(c) /\ (c \in Sessions \/ Holds(c)) => GovernedBy(roomApp, c)

LEMMA Greatest ==
  ASSUME NEW S, S \subseteq Nat, S # {}, IsFiniteSet(S)
  PROVE  Max(S) \in S /\ \A x \in S : Max(S) >= x
<1>1. PICK n \in Nat : ExistsBijection(1 .. n, S)
  BY FS_NatBijection
<1>2. PICK f : f \in Bijection(1 .. n, S)
  BY <1>1 DEF ExistsBijection
<1>3. f \in [1 .. n -> S] /\ \A x \in S : \E i \in 1 .. n : f[i] = x
  BY <1>2 DEF Bijection, Surjection
<1> DEFINE Top(j) == \E m \in S : \A i \in 1 .. j : f[i] <= m
           T == {j \in 0 .. n : Top(j)}
<1>4. 0 \in T
  <2>1. 1 .. 0 = {} /\ 0 \in 0 .. n
    OBVIOUS
  <2>2. Top(0)
    BY <2>1
  <2> QED BY <2>1, <2>2
<1>5. ASSUME NEW j \in 1 .. n, j - 1 \in T PROVE j \in T
  <2>1. PICK m \in S : \A i \in 1 .. (j - 1) : f[i] <= m
    BY <1>5
  <2>2. f[j] \in S /\ f[j] \in Nat /\ m \in Nat
    BY <1>3
  <2>3. \A i : i \in 1 .. j => i \in 1 .. (j - 1) \/ i = j
    OBVIOUS
  <2>4. \A i \in 1 .. n : f[i] \in Nat
    BY <1>3
  <2>5. CASE f[j] <= m
    BY <2>1, <2>3, <2>5
  <2>6. CASE ~(f[j] <= m)
    <3>1. \A i \in 1 .. j : f[i] <= f[j]
      BY <2>1, <2>2, <2>3, <2>4, <2>6
    <3> QED BY <2>2, <3>1
  <2> QED BY <2>5, <2>6
<1>6. Top(n)
  <2>1. n \in T
    <3> HIDE DEF T
    <3>1. \A j \in 0 .. n : j \in T
      BY <1>4, <1>5, UpTo
    <3> QED BY <3>1
  <2> QED BY <2>1
<1>7. PICK m \in S : \A x \in S : m >= x
  BY <1>3, <1>6
<1> QED BY <1>7 DEF Max

LEMMA GreaterOfTwo ==
  ASSUME NEW a \in Nat, NEW b \in Nat
  PROVE  Max({a, b}) \in {a, b} /\ Max({a, b}) >= a /\ Max({a, b}) >= b
<1>1. \E z \in {a, b} : \A y \in {a, b} : z >= y
  OBVIOUS
<1> QED BY <1>1 DEF Max

LEMMA AppsKnown ==
  ASSUME NEW app \in Apps
  PROVE  /\ app = <<app[1], app[2]>> /\ app # NoApp /\ app[1] \in Nat /\ app[2] \in Nat /\ app[2] > 0
         /\ \E c \in Client : Enforcing(c) /\ AppOf[c] = app[1] /\ VersionOf[c] = app[2]
  BY AwarenessAssumption DEF Apps, Declared, Enforcing, NoApp

LEMMA DeclaredApp ==
  ASSUME NEW c \in Client, Enforcing(c)
  PROVE  /\ Declared(c) \in Apps /\ <<AppOf[c], VersionOf[c]>> \in Apps
         /\ GovernedBy(Declared(c), c)
         /\ VersionOf[c] \in Nat /\ VersionOf[c] > 0
<1>1. VersionOf[c] \in Nat /\ VersionOf[c] > 0 /\ AppOf[c] \in Nat
  BY AwarenessAssumption DEF Enforcing
<1>2. Declared(c) \in Apps /\ Declared(c) = <<AppOf[c], VersionOf[c]>>
  BY DEF Apps, Declared
<1>3. GovernedBy(Declared(c), c)
  BY <1>1, <1>2 DEF GovernedBy, NoApp
<1> QED BY <1>1, <1>2, <1>3

(* An app lifted to the version of one that joins still governs everyone.  *)
LEMMA LiftedApp ==
  ASSUME NEW app \in Apps, NEW c \in Client, Enforcing(c)
  PROVE  /\ Lifted(app, c) \in Apps /\ GovernedBy(Lifted(app, c), c)
         /\ \A d \in Client : GovernedBy(app, d) => GovernedBy(Lifted(app, c), d)
<1> DEFINE m == Max({app[2], VersionOf[c]})
<1>1. app[2] \in Nat /\ VersionOf[c] \in Nat /\ app = <<app[1], app[2]>>
  BY AppsKnown, DeclaredApp
<1>2. CASE app[1] = AppOf[c]
  <2>1. m \in {app[2], VersionOf[c]} /\ m >= app[2] /\ m >= VersionOf[c] /\ m \in Nat
    BY <1>1, GreaterOfTwo
  <2>2. Lifted(app, c) = <<app[1], m>>
    BY <1>2 DEF Lifted
  <2> HIDE DEF m
  <2>3. <<app[1], m>> \in Apps
    BY <1>1, <1>2, <2>1, DeclaredApp
  <2>4. <<app[1], m>> # NoApp /\ <<app[1], m>>[1] = app[1] /\ <<app[1], m>>[2] = m
    BY <2>3, AppsKnown
  <2>5. \A d \in Client : VersionOf[d] \in Nat
    BY AwarenessAssumption
  <2> QED BY <1>1, <2>1, <2>2, <2>3, <2>4, <2>5 DEF GovernedBy
<1>3. CASE app[1] # AppOf[c]
  BY <1>3, AppsKnown DEF Lifted, GovernedBy
<1> QED BY <1>2, <1>3

LEMMA Bound ==
  ASSUME GraceInv, NEW c \in Client, BindRoomApp(c)
  PROVE  /\ roomApp' \in {NoApp} \union Apps /\ governing' \in {NoApp} \union Apps
         /\ Enforcing(c) => GovernedBy(roomApp', c)
         /\ \A d \in Client : GovernedBy(roomApp, d) => GovernedBy(roomApp', d)
<1>1. CASE ~Enforcing(c)
  BY <1>1 DEF BindRoomApp, GraceInv
<1>2. CASE Enforcing(c)
  <2> DEFINE incumbent == IF roomApp # NoApp THEN roomApp ELSE governing
             bound == IF incumbent = NoApp THEN Declared(c) ELSE Lifted(incumbent, c)
  <2>1. roomApp' = bound /\ governing' = bound
    BY <1>2 DEF BindRoomApp
  <2>2. incumbent \in {NoApp} \union Apps
    BY DEF GraceInv
  <2>3. \A d \in Client : GovernedBy(roomApp, d) => incumbent = roomApp /\ incumbent # NoApp
    BY DEF GovernedBy
  <2> HIDE DEF incumbent
  <2>4. CASE incumbent = NoApp
    BY <1>2, <2>1, <2>3, <2>4, DeclaredApp
  <2>5. CASE incumbent # NoApp
    BY <1>2, <2>1, <2>2, <2>3, <2>5, LiftedApp
  <2> QED BY <2>4, <2>5
<1> QED BY <1>1, <1>2

(* What the sweep puts in force.                                           *)
LEMMA Reconciled ==
  ASSUME GraceInv, NEW p, DOMAIN p \subseteq DOMAIN presence
  PROVE  /\ ReconcileRoomApps(p) \in {NoApp} \union Apps
         /\ \A c \in Client : Enforcing(c) /\ (c \in Sessions \/ \E k \in Key : <<c, k>> \in DOMAIN p)
                => GovernedBy(ReconcileRoomApps(p), c)
<1> DEFINE present == {c \in Sessions : Enforcing(c)}
           seen == {VersionOf[c] : c \in {x \in present : AppOf[x] = roomApp[1]}}
           V == {roomApp[2]} \union seen
           app == ReconcileRoomApps(p)
<1>1. app = IF Sessions = {} /\ DOMAIN p = {} THEN NoApp
            ELSE IF roomApp # NoApp THEN <<roomApp[1], Max(V)>>
            ELSE IF present # {} THEN PickApp(present) ELSE NoApp
  BY DEF ReconcileRoomApps
<1> HIDE DEF app
<1>2. CASE Sessions = {} /\ DOMAIN p = {}
  BY <1>1, <1>2 DEF app
<1>3. CASE ~(Sessions = {} /\ DOMAIN p = {}) /\ roomApp # NoApp
  <2>1. roomApp \in Apps
    BY <1>3 DEF GraceInv
  <2>2. roomApp[2] \in Nat /\ roomApp = <<roomApp[1], roomApp[2]>>
    BY <2>1, AppsKnown
  <2>3. Sessions \subseteq Client
    BY DEF Sessions
  <2>4. IsFiniteSet(seen)
    <3> DEFINE D == {x \in present : AppOf[x] = roomApp[1]}
               f == [c \in D |-> VersionOf[c]]
    <3>1. IsFiniteSet(D)
      BY <2>3, AwarenessAssumption, FS_Subset
    <3>2. DOMAIN f = D /\ f = [c \in D |-> f[c]]
      OBVIOUS
    <3>3. {f[c] : c \in D} = seen
      OBVIOUS
    <3> HIDE DEF D, f
    <3>4. IsFiniteSet({f[c] : c \in D})
      BY <3>1, <3>2, FiniteImage
    <3> QED BY <3>3, <3>4
  <2>5. IsFiniteSet(V) /\ V # {} /\ V \subseteq Nat
    <3>1. seen \subseteq Nat
      BY <2>3, AwarenessAssumption
    <3>2. V = seen \union {roomApp[2]}
      OBVIOUS
    <3> HIDE DEF seen
    <3> QED BY <2>2, <2>4, <3>1, <3>2, FS_AddElement
  <2>6. Max(V) \in V /\ \A x \in V : Max(V) >= x
    <3> HIDE DEF V
    <3> QED BY <2>5, Greatest
  <2>7. app = <<roomApp[1], Max(V)>> /\ Max(V) \in Nat /\ Max(V) >= roomApp[2]
    BY <1>1, <1>3, <2>5, <2>6
  <2>8. app \in Apps
    <3>1. CASE Max(V) = roomApp[2]
      BY <2>1, <2>2, <2>7, <3>1
    <3>2. CASE Max(V) # roomApp[2]
      <4>1. PICK c \in present : AppOf[c] = roomApp[1] /\ VersionOf[c] = Max(V)
        BY <2>6, <3>2
      <4>2. c \in Client /\ Enforcing(c)
        BY <2>3
      <4> HIDE DEF V, present
      <4> QED BY <2>7, <4>1, <4>2, DeclaredApp
    <3> QED BY <3>1, <3>2
  <2>9. app # NoApp /\ app[1] = roomApp[1] /\ app[2] = Max(V)
    <3> HIDE DEF V
    <3> QED BY <2>7, <2>8, AppsKnown
  <2>10. ASSUME NEW c \in Client, Enforcing(c), c \in Sessions \/ \E k \in Key : <<c, k>> \in DOMAIN p
         PROVE  GovernedBy(app, c)
    <3>1. c \in Sessions \/ Holds(c)
      BY <2>10 DEF Holds
    <3>2. GovernedBy(roomApp, c)
      BY <2>10, <3>1 DEF GraceInv
    <3>3. VersionOf[c] \in Nat
      BY AwarenessAssumption
    <3> HIDE DEF V
    <3> QED BY <2>2, <2>7, <2>9, <3>2, <3>3 DEF GovernedBy
  <2> QED BY <2>8, <2>10 DEF app
<1>4. CASE ~(Sessions = {} /\ DOMAIN p = {}) /\ roomApp = NoApp
  <2>1. \A c \in Client : Enforcing(c) => c \notin Sessions /\ ~Holds(c)
    BY <1>4 DEF GraceInv, GovernedBy
  <2>2. present = {}
    BY <2>1 DEF Sessions
  <2>3. app = NoApp
    BY <1>1, <1>4, <2>2
  <2> QED BY <2>1, <2>3 DEF app, Holds
<1> QED BY <1>2, <1>3, <1>4

(* A step that moves nobody into the room, gives nobody presence and       *)
(* connects nobody in its grace, and leaves the schema in force.           *)
LEMMA StillGoverned ==
  ASSUME GraceInv, Typed, roomApp' = roomApp, governing' = governing,
         \A c \in DOMAIN stale' : c \notin Authed',
         \A c \in Client : (old[c].sent # <<>> => old[c].phase = "joined")',
         Sessions' \subseteq Sessions,
         \A c \in Client : Holds(c)' => Holds(c) \/ c \in Sessions
  PROVE  GraceInv'
<1>1. \A c \in Client : Enforcing(c) /\ (c \in Sessions' \/ Holds(c)') => GovernedBy(roomApp', c)
  BY DEF GraceInv
<1> QED BY <1>1 DEF GraceInv

LEMMA GraceStep ==
  ASSUME GraceInv, Typed, [Next]_vars
  PROVE  GraceInv'
<1> USE DEF Typed
<1>1. CASE UNCHANGED vars
  <2>1. Authed' = Authed /\ Sessions' = Sessions
    BY <1>1 DEF vars, Authed, Sessions
  <2>2. \A c \in Client : Holds(c)' <=> Holds(c)
    BY <1>1 DEF vars, Holds
  <2> QED BY <1>1, <2>1, <2>2 DEF vars, GraceInv
<1>2. ASSUME NEW c \in Client, NEW fresh \in BOOLEAN, Dial(c, fresh) PROVE GraceInv'
  <2>1. Authed' = Authed /\ Sessions' = Sessions
    BY <1>2 DEF Dial, Authed, Sessions
  <2>2. \A d \in Client : Holds(d)' <=> Holds(d)
    BY <1>2 DEF Dial, Holds
  <2>3. roomApp' = roomApp /\ governing' = governing /\ stale' = stale /\ old' = old
    BY <1>2 DEF Dial
  <2> QED BY <2>1, <2>2, <2>3, StillGoverned DEF GraceInv
<1>3. ASSUME NEW c \in Client, Authenticate(c) PROVE GraceInv'
  <2>1. Authed' \subseteq Authed \union {c} /\ Sessions' = Sessions
    BY <1>3 DEF Authenticate, Authed, Sessions
  <2>2. DOMAIN stale' = DOMAIN stale \ {c}
    BY <1>3, ReturnedKeeps DEF Authenticate
  <2>3. \A d \in Client : Holds(d)' <=> Holds(d)
    BY <1>3 DEF Authenticate, Holds
  <2>4. roomApp' = roomApp /\ governing' = governing /\ old' = old
    BY <1>3 DEF Authenticate
  <2> QED BY <2>1, <2>2, <2>3, <2>4, StillGoverned DEF GraceInv
<1>4. ASSUME NEW c \in Client, Subscribe(c) PROVE GraceInv'
  <2>1. Authed' \subseteq Authed \union {c} /\ Sessions' \subseteq Sessions \union {c}
    BY <1>4 DEF Subscribe, Authed, Sessions
  <2>2. DOMAIN stale' = DOMAIN stale \ {c}
    BY <1>4, ReturnedKeeps DEF Subscribe
  <2>3. \A d \in Client : Holds(d)' <=> Holds(d)
    BY <1>4 DEF Subscribe, Holds
  <2>4. BindRoomApp(c) /\ old' = old
    BY <1>4 DEF Subscribe
  <2>5. /\ roomApp' \in {NoApp} \union Apps /\ governing' \in {NoApp} \union Apps
        /\ Enforcing(c) => GovernedBy(roomApp', c)
        /\ \A d \in Client : GovernedBy(roomApp, d) => GovernedBy(roomApp', d)
    BY <2>4, Bound
  <2>6. \A d \in Client : Enforcing(d) /\ (d \in Sessions' \/ Holds(d)') => GovernedBy(roomApp', d)
    BY <2>1, <2>3, <2>5 DEF GraceInv
  <2> QED BY <2>1, <2>2, <2>4, <2>5, <2>6 DEF GraceInv
<1>5. ASSUME NEW c \in Client, Unsubscribe(c) PROVE GraceInv'
  <2>1. Authed' \subseteq Authed /\ Sessions' \subseteq Sessions
    BY <1>5 DEF Unsubscribe, Authed, Sessions
  <2>2. \A d \in Client : Holds(d)' <=> Holds(d)
    BY <1>5 DEF Unsubscribe, Holds
  <2>3. roomApp' = roomApp /\ governing' = governing /\ stale' = stale /\ old' = old
    BY <1>5 DEF Unsubscribe
  <2> QED BY <2>1, <2>2, <2>3, StillGoverned DEF GraceInv
<1>6. ASSUME NEW c \in Client, NEW k, NEW v, ServeSet(c, k, v, {c}) \/ ServeSet(c, k, v, {}),
             k \in Key, v \in Value, c \in Sessions,
             Authed' = Authed, Sessions' = Sessions, roomApp' = roomApp, governing' = governing,
             \A d \in Client : (old[d].sent # <<>> => old[d].phase = "joined")'
      PROVE  GraceInv'
  <2>1. DOMAIN stale' = DOMAIN stale \ {c}
    BY <1>6, ReturnedKeeps DEF ServeSet
  <2>2. DOMAIN presence' \subseteq DOMAIN presence \union {<<c, k>>}
    <3>1. \/ presence' = Put(presence, <<c, k>>,
                             [actor |-> ActorOf[c], value |-> v, silent |-> 0, quiet |-> 0])
          \/ DOMAIN presence' = DOMAIN presence
      BY <1>6, ServedPresence
    <3> QED BY <3>1 DEF Put
  <2>3. \A d \in Client : Holds(d)' => Holds(d) \/ d \in Sessions
    BY <1>6, <2>2 DEF Holds
  <2> QED BY <1>6, <2>1, <2>3, StillGoverned DEF GraceInv
<1>7. ASSUME NEW c \in Client, NEW k \in budget.keys, NEW v \in budget.values, Set(c, k, v)
      PROVE  GraceInv'
  <2>1. k \in Key /\ v \in Value
    BY DEF Bounds
  <2>2. /\ ServeSet(c, k, v, {c}) /\ c \in Sessions
        /\ Authed' = Authed /\ Sessions' = Sessions /\ roomApp' = roomApp /\ governing' = governing
        /\ old' = old
    BY <1>7 DEF Set, Sessions, Authed
  <2> QED BY <1>6, <2>1, <2>2 DEF GraceInv
<1>8. ASSUME NEW c \in Client, LateSet(c) PROVE GraceInv'
  <2> DEFINE q == old[c].sent
  <2>1. q \in Seq(Key \X Value) /\ q # <<>>
    BY <1>8 DEF LateSet
  <2>2. Head(q) \in Key \X Value
    <3> HIDE DEF q
    <3> QED BY <2>1
  <2>3. Head(q)[1] \in Key /\ Head(q)[2] \in Value
    <3> HIDE DEF q
    <3> QED BY <2>2
  <2>4. old[c].phase = "joined" /\ c \in Sessions
    BY <2>1 DEF GraceInv, Sessions
  <2>5. \A d \in Client : old'[d].phase = old[d].phase /\ (d # c => old'[d] = old[d])
    BY <1>8 DEF LateSet
  <2>6. Authed' = Authed /\ Sessions' = Sessions
    BY <1>8, <2>5 DEF LateSet, Authed, Sessions
  <2>7. \A d \in Client : (old[d].sent # <<>> => old[d].phase = "joined")'
    BY <2>4, <2>5 DEF GraceInv
  <2>8. ServeSet(c, Head(q)[1], Head(q)[2], {}) /\ roomApp' = roomApp /\ governing' = governing
    BY <1>8 DEF LateSet
  <2> HIDE DEF q
  <2> QED BY <1>6, <2>3, <2>4, <2>6, <2>7, <2>8
<1>9. ASSUME NEW c \in Client, NEW sent, Drop(c, sent) PROVE GraceInv'
  <2>1. old[c] = NoConn /\ old'[c] = [phase |-> phase[c], sent |-> sent] /\ phase'[c] = "off"
    BY <1>9 DEF Drop
  <2>2. \A d \in Client : d # c => old'[d] = old[d] /\ phase'[d] = phase[d]
    BY <1>9 DEF Drop
  <2>3. Authed' = Authed /\ Sessions' = Sessions
    BY <2>1, <2>2 DEF Authed, Sessions, NoConn
  <2>4. sent # <<>> => phase[c] = "joined"
    BY <1>9 DEF Drop
  <2>5. \A d \in Client : (old[d].sent # <<>> => old[d].phase = "joined")'
    <3> SUFFICES ASSUME NEW d \in Client, old'[d].sent # <<>> PROVE old'[d].phase = "joined"
      OBVIOUS
    <3>1. CASE d = c
      BY <2>1, <2>4, <3>1
    <3>2. CASE d # c
      <4>1. old'[d] = old[d]
        BY <2>2, <3>2
      <4> QED BY <4>1 DEF GraceInv
    <3> QED BY <3>1, <3>2
  <2>6. roomApp' = roomApp /\ governing' = governing /\ stale' = stale /\ presence' = presence
    BY <1>9 DEF Drop
  <2>7. \A d \in Client : Holds(d)' <=> Holds(d)
    BY <2>6 DEF Holds
  <2> QED BY <2>3, <2>5, <2>6, <2>7, StillGoverned DEF GraceInv
<1>10. ASSUME NEW c \in Client, Disconnect(c) PROVE GraceInv'
  <2>1. old'[c] = NoConn /\ phase' = phase /\ \A d \in Client : d # c => old'[d] = old[d]
    BY <1>10 DEF Disconnect
  <2>2. Authed' \subseteq Authed /\ Sessions' \subseteq Sessions
    <3>1. old'[c].phase = "off"
      BY <2>1 DEF NoConn
    <3>2. \A d \in Client : old'[d].phase = "off" \/ old'[d].phase = old[d].phase
      BY <2>1, <3>1
    <3> QED BY <2>1, <3>2 DEF Authed, Sessions
  <2>3. phase[c] \notin {"authed", "joined"} => c \notin Authed'
    BY <2>1 DEF Authed, NoConn
  <2>4. \A d \in DOMAIN stale' : d \in DOMAIN stale \/ (d = c /\ phase[c] \notin {"authed", "joined"})
    BY <1>10 DEF Disconnect, Put
  <2>5. \A d \in DOMAIN stale' : d \notin Authed'
    BY <2>2, <2>3, <2>4 DEF GraceInv
  <2>6. \A d \in Client : (old[d].sent # <<>> => old[d].phase = "joined")'
    <3> SUFFICES ASSUME NEW d \in Client, old'[d].sent # <<>> PROVE old'[d].phase = "joined"
      OBVIOUS
    <3>1. d # c
      BY <2>1 DEF NoConn
    <3>2. old'[d] = old[d]
      BY <2>1, <3>1
    <3> QED BY <3>2 DEF GraceInv
  <2>7. roomApp' = roomApp /\ governing' = governing /\ presence' = presence
    BY <1>10 DEF Disconnect
  <2>8. \A d \in Client : Holds(d)' <=> Holds(d)
    BY <2>7 DEF Holds
  <2> QED BY <2>2, <2>5, <2>6, <2>7, <2>8, StillGoverned
<1>11. ASSUME NEW c \in Client, Receive(c) PROVE GraceInv'
  <2>1. Authed' = Authed /\ Sessions' = Sessions
    BY <1>11 DEF Receive, Authed, Sessions
  <2>2. \A d \in Client : Holds(d)' <=> Holds(d)
    BY <1>11 DEF Receive, Holds
  <2> QED BY <1>11, <2>1, <2>2, StillGoverned DEF GraceInv, Receive
<1>12. CASE Sweep
  <2>1. PICK order \in SetToSeqs(Due) :
          /\ presence' = Audible(ClearDue(order).left, roomApp')
          /\ roomApp' = ReconcileRoomApps(ClearDue(order).left)
    BY <1>12 DEF Sweep
  <2> DEFINE left == ClearDue(order).left
  <2>2. Presence(left) /\ PartOf(left, presence)
    BY DueRead
  <2>3. DOMAIN left \subseteq DOMAIN presence /\ DOMAIN presence' \subseteq DOMAIN left
    BY <2>1, <2>2 DEF PartOf, Audible, Keep
  <2> HIDE DEF left
  <2>4. /\ roomApp' \in {NoApp} \union Apps
        /\ \A c \in Client : Enforcing(c) /\ (c \in Sessions \/ \E k \in Key : <<c, k>> \in DOMAIN left)
                => GovernedBy(roomApp', c)
    BY <2>1, <2>3, Reconciled DEF left
  <2>5. Authed' = Authed /\ Sessions' = Sessions /\ governing' = governing /\ old' = old
    BY <1>12 DEF Sweep, Authed, Sessions
  <2>6. DOMAIN stale' \subseteq DOMAIN stale
    BY <1>12 DEF Sweep, Keep
  <2>7. \A c \in Client : Holds(c)' => \E k \in Key : <<c, k>> \in DOMAIN left
    BY <2>3 DEF Holds
  <2>8. \A c \in Client : Enforcing(c) /\ (c \in Sessions' \/ Holds(c)') => GovernedBy(roomApp', c)
    BY <2>4, <2>5, <2>7
  <2> QED BY <2>4, <2>5, <2>6, <2>8 DEF GraceInv
<1>13. CASE Tick
  <2>1. Authed' = Authed /\ Sessions' = Sessions /\ DOMAIN stale' = DOMAIN stale
    BY <1>13 DEF Tick, Authed, Sessions
  <2>2. DOMAIN presence' = DOMAIN presence
    BY <1>13 DEF Tick
  <2>3. \A d \in Client : Holds(d)' <=> Holds(d)
    BY <2>2 DEF Holds
  <2>4. roomApp' = roomApp /\ governing' = governing /\ old' = old
    BY <1>13 DEF Tick
  <2> QED BY <2>1, <2>3, <2>4, StillGoverned DEF GraceInv
<1> QED BY <1>1, <1>2, <1>3, <1>4, <1>5, <1>7, <1>8, <1>9, <1>10, <1>11, <1>12, <1>13 DEF Next

LEMMA GraceStart ==
  ASSUME Init
  PROVE  GraceInv
<1>1. budget \in Budgets /\ roomApp = budget.app /\ governing = budget.app
  BY DEF Init
<1>2. roomApp \in {NoApp} \union Apps
  BY <1>1, BudgetsAssumption DEF Apps, Declared, Enforcing, NoApp
<1>3. DOMAIN stale = {} /\ DOMAIN presence = {}
  BY DEF Init, Empty
<1>4. \A c \in Client : old[c] = NoConn /\ (c \in Sessions => c \in budget.here) /\ ~Holds(c)
  BY <1>3 DEF Init, Sessions, Holds, NoConn
<1>5. \A c \in Client : Enforcing(c) /\ (c \in Sessions \/ Holds(c)) => GovernedBy(roomApp, c)
  BY <1>1, <1>4, BudgetsAssumption DEF GovernedBy, Enforcing, NoApp
<1> QED BY <1>1, <1>2, <1>3, <1>4, <1>5 DEF GraceInv, NoConn

LEMMA OnlyForCause ==
  ASSUME PresenceInv, GraceInv, [Next]_vars, NEW x \in DOMAIN presence \ DOMAIN presence'
  PROVE  \/ x[1] \in Due /\ x[1] \notin Authed
         \/ /\ roomApp' # NoApp
            /\ presence[x].silent > Ttl(roomApp'[1], roomApp'[2], x[2])
            /\ AppOf[x[1]] = roomApp'[1] => VersionOf[x[1]] <= roomApp'[2]
<1>1. Typed
  BY DEF PresenceInv
<1>2. Sweep
  <2> SUFFICES ASSUME ~Sweep PROVE FALSE
    OBVIOUS
  <2>1. ASSUME NEW c \in Client, NEW k \in Key, NEW v \in Value, NEW origin, ServeSet(c, k, v, origin)
        PROVE  FALSE
    <3>1. DOMAIN presence \subseteq DOMAIN presence'
      BY <1>1, <2>1, ServedPresence DEF Put
    <3> QED BY <3>1
  <2>2. ASSUME NEW c \in Client, NEW k \in budget.keys, NEW v \in budget.values, Set(c, k, v)
        PROVE  FALSE
    <3>1. k \in Key /\ v \in Value
      BY <1>1 DEF Typed, Bounds
    <3> QED BY <2>1, <2>2, <3>1 DEF Set
  <2>3. ASSUME NEW c \in Client, LateSet(c) PROVE FALSE
    <3> DEFINE q == old[c].sent
    <3>1. q \in Seq(Key \X Value) /\ q # <<>> /\ ServeSet(c, Head(q)[1], Head(q)[2], {})
      BY <1>1, <2>3 DEF LateSet, Typed
    <3> HIDE DEF q
    <3>2. Head(q) \in Key \X Value
      BY <3>1
    <3>3. Head(q)[1] \in Key /\ Head(q)[2] \in Value
      BY <3>2
    <3> QED BY <2>1, <3>1, <3>3
  <2>4. CASE Tick
    <3>1. DOMAIN presence' = DOMAIN presence
      BY <2>4 DEF Tick
    <3> QED BY <3>1
  <2>5. presence' # presence
    OBVIOUS
  <2> QED
    BY <2>2, <2>3, <2>4, <2>5 DEF Next, vars, Dial, Authenticate, Subscribe, Unsubscribe, Drop,
       Disconnect, Receive
<1>3. PICK order \in SetToSeqs(Due) :
        /\ presence' = Audible(ClearDue(order).left, roomApp')
        /\ roomApp' = ReconcileRoomApps(ClearDue(order).left)
  BY <1>2 DEF Sweep
<1> DEFINE left == ClearDue(order).left
<1>4. /\ DOMAIN left = {y \in DOMAIN presence : y[1] \notin Due}
      /\ PartOf(left, presence)
  BY <1>1, DueRead DEF Typed
<1> HIDE DEF left
<1>5. CASE x[1] \in Due
  <2>1. x[1] \in DOMAIN stale
    BY <1>5 DEF Due
  <2> QED BY <1>5, <2>1 DEF GraceInv
<1>6. CASE x[1] \notin Due
  <2>1. x \in DOMAIN left /\ left[x] = presence[x]
    BY <1>4, <1>6 DEF PartOf
  <2>2. roomApp' # NoApp /\ ~(left[x].silent <= Ttl(roomApp'[1], roomApp'[2], x[2]))
    BY <1>3, <2>1 DEF left, Audible, Keep
  <2>3. x \in Client \X Key /\ presence[x].silent \in Int /\ x = <<x[1], x[2]>>
    BY <1>1 DEF Typed, Presence
  <2>4. DOMAIN left \subseteq DOMAIN presence
    BY <1>4
  <2>5. /\ roomApp' \in {NoApp} \union Apps
        /\ \A c \in Client : Enforcing(c) /\ (c \in Sessions \/ \E k \in Key : <<c, k>> \in DOMAIN left)
                => GovernedBy(roomApp', c)
    BY <1>3, <2>4, Reconciled DEF left
  <2>6. roomApp' \in Apps
    BY <2>2, <2>5
  <2>7. PICK d \in Client : Enforcing(d) /\ AppOf[d] = roomApp'[1] /\ VersionOf[d] = roomApp'[2]
    BY <2>6, AppsKnown
  <2>8. Ttl(roomApp'[1], roomApp'[2], x[2]) \in Int
    <3>1. d \in {y \in Client : VersionOf[y] > 0} /\ x[2] \in Key
      BY <2>3, <2>7 DEF Enforcing
    <3>2. Ttl(AppOf[d], VersionOf[d], x[2]) \in 0 .. Never
      BY <3>1, AwarenessAssumption
    <3> QED BY <2>7, <3>2
  <2>9. presence[x].silent > Ttl(roomApp'[1], roomApp'[2], x[2])
    BY <2>1, <2>2, <2>3, <2>8
  <2>10. AppOf[x[1]] = roomApp'[1] => VersionOf[x[1]] <= roomApp'[2]
    <3>1. CASE Enforcing(x[1])
      BY <2>1, <2>3, <2>5, <3>1 DEF GovernedBy
    <3>2. CASE ~Enforcing(x[1])
      <4>1. VersionOf[x[1]] = 0
        BY <2>3, <3>2, AwarenessAssumption DEF Enforcing
      <4>2. roomApp'[2] \in Nat
        BY <2>6, AppsKnown
      <4> QED BY <4>1, <4>2
    <3> QED BY <3>1, <3>2
  <2> QED BY <2>2, <2>9, <2>10
<1> QED BY <1>5, <1>6

(* No entry goes before its time: its client had no connection when its    *)
(* grace ran out, or was silent for longer than the schema in force        *)
(* allows, and that is never an older one of its app than its own          *)
(* (registry.rs, sweep, disconnect, bind_room_app, reconcile_room_apps).   *)
THEOREM NothingEarly == Spec => DroppedForCause
<1> DEFINE Cause(x) ==
        \/ x[1] \in Due /\ x[1] \notin Authed
        \/ /\ roomApp' # NoApp
           /\ presence[x].silent > Ttl(roomApp'[1], roomApp'[2], x[2])
           /\ AppOf[x[1]] = roomApp'[1] => VersionOf[x[1]] <= roomApp'[2]
<1>1. Init => PresenceInv /\ GraceInv
  BY PresenceStart, GraceStart
<1>2. PresenceInv /\ GraceInv /\ [Next]_vars => (PresenceInv /\ GraceInv)'
  BY PresenceStep, GraceStep DEF PresenceInv
<1>3. PresenceInv /\ GraceInv /\ [Next]_vars
        => [\A x \in DOMAIN presence \ DOMAIN presence' : Cause(x)]_vars
  BY OnlyForCause
<1> QED BY <1>1, <1>2, <1>3, PTL DEF Spec, DroppedForCause
=============================================================================
