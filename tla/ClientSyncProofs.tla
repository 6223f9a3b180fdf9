-------------------------- MODULE ClientSyncProofs --------------------------
(* What the clients of a room are promised, for any clients and any number *)
(* of edits, dropped connections and compactions.                          *)
EXTENDS ClientSync, RoomHubProofs

UpFrame ==
    [type : {"subscribe"}, seq : Nat] \union [type : {"ops"}, ops : Seq(Op) \ {<<>>}]

DownFrame ==
    [type : {"ops"}, ops : Seq(Op)]
      \union [type : {"snapshot"}, seq : Nat, state : SUBSET Op]
      \union [type : {"accepted"}, through : Nat]
      \union [type : {"rejected"}, ops : Seq(Op)]

SyncTypes ==
    /\ SoundRoom(room)
    /\ bound \subseteq Client
    /\ doc \in [Client -> SUBSET Op]
    /\ cursor \in [Client -> Nat]
    /\ outbox \in [Client -> Seq(Op)]
    /\ minted \in [Client -> 0 .. MaxEdits]
    /\ up \in [Client -> Seq(UpFrame)]
    /\ down \in [Client -> Seq(DownFrame)]
    /\ stale \in [Client -> Seq(UpFrame)]

(* The ops of the frames of a queue that have a given type.                *)
Carried(q, type) == UNION {Range(f.ops) : f \in {g \in Range(q) : g.type = type}}

(* The ops a client has out: its own, none past its last edit.             *)
Own(c, ops) == \A op \in Range(ops) : op[1] = c /\ op[2] <= minted[c]

(* An acknowledgement on its way covers no edit still in the outbox, but   *)
(* those the room holds and those refused before it.                       *)
AcksFair(q, out, seen, top) ==
    \A i \in DOMAIN q : q[i].type = "accepted" =>
        /\ q[i].through <= top
        /\ \A op \in out : op[2] <= q[i].through =>
              op \in seen \/ \E j \in 1 .. i - 1 : q[j].type = "rejected" /\ op \in Range(q[j].ops)

(* A batch on its way to the server follows every edit it will be taken to *)
(* acknowledge.                                                            *)
SendsInOrder(q, out, answered, top) ==
    \A i \in DOMAIN q : q[i].type = "ops" =>
        /\ q[i].ops[Len(q[i].ops)][2] <= top
        /\ \A op \in out : op[2] <= q[i].ops[Len(q[i].ops)][2] =>
              op \in answered \/ \E j \in 1 .. i : q[j].type = "ops" /\ op \in Range(q[j].ops)

Answered(c) == room.seen \union Carried(down[c], "rejected")

EditsKept(c) ==
    /\ Own(c, outbox[c])
    /\ AcksFair(down[c], Range(outbox[c]), room.seen, minted[c])
    /\ SendsInOrder(up[c], Range(outbox[c]), Answered(c), minted[c])
    /\ c \in online => Range(outbox[c]) \subseteq Answered(c) \union Carried(up[c], "ops")
    /\ \A s \in 1 .. minted[c] : <<c, s>> \in room.seen \union Range(outbox[c]) \union rejected

EditsInv == \A c \in Client : EditsKept(c)
-----------------------------------------------------------------------------
(* The room's log is the end of its history.                               *)
HistoryInv ==
    /\ history \in Seq(Op)
    /\ Len(history) = RoomHead(room)
    /\ Range(history) = room.seen
    /\ \A i \in 1 .. Len(room.log) : room.log[i] = history[room.base + i]

(* A connection opens with one Subscribe, which names the cursor.          *)
Opening(c) ==
    /\ c \notin online => c \notin bound /\ up[c] = <<>>
    /\ c \in online /\ up[c] = <<>> => c \in bound
    /\ c \notin bound =>
          /\ down[c] = <<>>
          /\ Carried(up[c], "ops") \subseteq Range(outbox[c])
          /\ up[c] # <<>> => up[c][1].type = "subscribe" /\ up[c][1].seq = cursor[c]
    /\ \A i \in DOMAIN up[c] : up[c][i].type = "subscribe" => i = 1 /\ c \notin bound

(* A snapshot is only sent to a client with nothing of its own under way.  *)
SnapshotsAlone(c) ==
    /\ outbox[c] # <<>> => cursor[c] >= room.base
    /\ Range(outbox[c]) \subseteq doc[c]
    /\ \A i \in DOMAIN down[c] : down[c][i].type = "snapshot" =>
          i = 1 /\ cursor[c] < room.base /\ Carried(up[c], "ops") = {}

CursorAfter(at, f) ==
    IF f.type = "ops" THEN at + Len(f.ops) ELSE IF f.type = "snapshot" THEN f.seq ELSE at

DocAfter(has, f) ==
    IF f.type = "ops" THEN has \union Range(f.ops) ELSE IF f.type = "snapshot" THEN f.state ELSE has

(* The cursor and the replica a client will have after each frame of q:    *)
(* the one never passes what the other holds, which always includes        *)
(* `mine`, and in the end `due`.                                           *)
Trace(q, cur, d, hist, mine, at, has) ==
    /\ at \in [0 .. Len(q) -> Nat] /\ at[0] = cur
    /\ has \in [0 .. Len(q) -> SUBSET Op] /\ has[0] = d
    /\ \A k \in 1 .. Len(q) : at[k] = CursorAfter(at[k - 1], q[k]) /\ has[k] = DocAfter(has[k - 1], q[k])
    /\ \A k \in 0 .. Len(q) : /\ at[k] <= Len(hist)
                              /\ \A i \in 1 .. at[k] : hist[i] \in has[k]
                              /\ mine \subseteq has[k]

Safe(q, cur, d, hist, mine, due) ==
    \E at, has : Trace(q, cur, d, hist, mine, at, has) /\ due \subseteq has[Len(q)]

(* A client that has read q, and may be anywhere that leads to, reads f:   *)
(* its cursor is within the new history and covers no more than it holds.  *)
ReadsOn(q, cur, d, hist, mine, due, f, hist2, mine2, due2) ==
    \A a \in Nat, h \in SUBSET Op :
        /\ a <= Len(hist) /\ (\A i \in 1 .. a : hist[i] \in h) /\ mine \subseteq h /\ due \subseteq h
        /\ q = <<>> => a = cur /\ h = d
        => /\ CursorAfter(a, f) \in Nat /\ CursorAfter(a, f) <= Len(hist2)
           /\ DocAfter(h, f) \in SUBSET Op
           /\ \A i \in 1 .. CursorAfter(a, f) : hist2[i] \in DocAfter(h, f)
           /\ mine2 \subseteq DocAfter(h, f) /\ due2 \subseteq DocAfter(h, f)

(* A subscribed client is due the whole history.                           *)
Due(c) == IF c \in bound THEN Range(history) ELSE {}

Traced(c) == Safe(down[c], cursor[c], doc[c], history, Carried(up[c], "ops"), Due(c))

(* What a client holds or is being sent is the room's, or its own edit.    *)
Known(c) ==
    /\ \A op \in doc[c] : op \in room.seen \/ (op[1] = c /\ op[2] <= minted[c])
    /\ \A f \in Range(down[c]) : /\ f.type = "ops" => Range(f.ops) \subseteq room.seen
                                 /\ f.type = "snapshot" => f.state \subseteq room.seen

InStep(c) == Opening(c) /\ SnapshotsAlone(c) /\ Traced(c) /\ Known(c)

CursorInv == HistoryInv /\ \A c \in Client : InStep(c)
-----------------------------------------------------------------------------
(* An op is numbered by its author.                                        *)
LEMMA OpFields ==
  /\ \A op \in Op : op[1] \in Client /\ op[2] \in 1 .. MaxEdits /\ op[2] \in Nat /\ op = <<op[1], op[2]>>
  /\ \A c \in Client : \A s \in 1 .. MaxEdits : <<c, s>> \in Op
  BY ClientSyncAssumption

(* What each frame carries.                                                *)
LEMMA UpFields ==
  /\ \A f \in UpFrame :
        /\ f.type \in {"subscribe", "ops"}
        /\ f.type = "subscribe" => f.seq \in Nat
        /\ f.type = "ops" => /\ f.ops \in Seq(Op) /\ f.ops # <<>>
                             /\ f.ops[Len(f.ops)] \in Range(f.ops)
                             /\ f.ops[Len(f.ops)] \in Op
  /\ \A ops \in Seq(Op) : ops # <<>> => OpsFrame(ops) \in UpFrame
<1>1. ASSUME NEW ops \in Seq(Op), ops # <<>> PROVE ops[Len(ops)] \in Range(ops) /\ ops[Len(ops)] \in Op
  <2>1. Len(ops) \in DOMAIN ops
    BY <1>1
  <2> QED BY <2>1 DEF Range
<1>2. \A f \in UpFrame :
        /\ f.type \in {"subscribe", "ops"}
        /\ f.type = "subscribe" => f.seq \in Nat
        /\ f.type = "ops" => f.ops \in Seq(Op) /\ f.ops # <<>>
  BY DEF UpFrame
<1>3. \A ops \in Seq(Op) : ops # <<>> => OpsFrame(ops) \in UpFrame
  BY DEF UpFrame, OpsFrame
<1> QED BY <1>1, <1>2, <1>3

LEMMA DownFields ==
  /\ \A f \in DownFrame :
        /\ f.type \in {"ops", "snapshot", "accepted", "rejected"}
        /\ f.type \in {"ops", "rejected"} => f.ops \in Seq(Op) /\ Range(f.ops) \subseteq Op
        /\ f.type = "snapshot" => f.seq \in Nat /\ f.state \subseteq Op
        /\ f.type = "accepted" => f.through \in Nat
  /\ \A ops \in Seq(Op) : OpsFrame(ops) \in DownFrame
<1>1. \A f \in DownFrame :
        /\ f.type \in {"ops", "snapshot", "accepted", "rejected"}
        /\ f.type \in {"ops", "rejected"} => f.ops \in Seq(Op)
        /\ f.type = "snapshot" => f.seq \in Nat /\ f.state \subseteq Op
        /\ f.type = "accepted" => f.through \in Nat
  BY DEF DownFrame
<1>2. \A ops \in Seq(Op) : Range(ops) \subseteq Op
  BY DEF Range
<1>3. \A ops \in Seq(Op) : OpsFrame(ops) \in DownFrame
  BY DEF DownFrame, OpsFrame
<1> QED BY <1>1, <1>2, <1>3

(* What a queue carries grows by the frame that joins it, and shrinks by   *)
(* the frame that is read.                                                 *)
LEMMA CarriedMore ==
  ASSUME NEW S, NEW q \in Seq(S), NEW type, NEW f \in S
  PROVE  /\ f.type = type => Carried(Append(q, f), type) = Carried(q, type) \union Range(f.ops)
         /\ f.type # type => Carried(Append(q, f), type) = Carried(q, type)
<1>1. Range(Append(q, f)) = Range(q) \union {f}
  BY AppendFacts
<1> QED BY <1>1 DEF Carried

LEMMA CarriedLess ==
  ASSUME NEW S, NEW q \in Seq(S), NEW type, q # <<>>
  PROVE  /\ Head(q).type = type => Carried(q, type) = Carried(Tail(q), type) \union Range(Head(q).ops)
         /\ Head(q).type # type => Carried(q, type) = Carried(Tail(q), type)
<1>1. Range(q) = Range(Tail(q)) \union {Head(q)}
  <2>1. /\ Head(q) = q[1] /\ Head(q) \in Range(q) /\ Range(Tail(q)) \subseteq Range(q)
        /\ Len(q) \in Nat /\ DOMAIN q = 1 .. Len(q) /\ DOMAIN Tail(q) = 1 .. Len(q) - 1
        /\ \A i \in DOMAIN Tail(q) : Tail(q)[i] = q[i + 1]
    BY ReadFacts
  <2>2. ASSUME NEW i \in DOMAIN q PROVE q[i] \in Range(Tail(q)) \union {Head(q)}
    <3>1. CASE i = 1
      BY <2>1, <3>1
    <3>2. CASE i # 1
      <4>1. i - 1 \in DOMAIN Tail(q) /\ (i - 1) + 1 = i
        BY <2>1, <3>2
      <4>2. Tail(q)[i - 1] = q[i]
        BY <2>1, <4>1
      <4> QED BY <4>1, <4>2 DEF Range
    <3> QED BY <3>1, <3>2
  <2> QED BY <2>1, <2>2 DEF Range
<1> QED BY <1>1 DEF Carried

LEMMA SentMore ==
  /\ \A q \in Seq(UpFrame) : \A f \in UpFrame :
        f.type = "ops" => Carried(Append(q, f), "ops") = Carried(q, "ops") \union Range(f.ops)
  /\ \A q \in Seq(DownFrame) : \A f \in DownFrame :
        f.type = "rejected" => Carried(Append(q, f), "rejected") = Carried(q, "rejected") \union Range(f.ops)
<1>1. ASSUME NEW S, NEW q \in Seq(S), NEW f \in S
      PROVE  /\ f.type = "ops" => Carried(Append(q, f), "ops") = Carried(q, "ops") \union Range(f.ops)
             /\ f.type = "rejected" => Carried(Append(q, f), "rejected") = Carried(q, "rejected") \union Range(f.ops)
  <2>1. Range(Append(q, f)) = Range(q) \union {f}
    BY AppendFacts
  <2> QED BY <2>1 DEF Carried
<1> QED BY <1>1

LEMMA ReadLess ==
  /\ \A q \in Seq(UpFrame) : q # <<>> =>
        /\ Head(q).type = "ops" => Carried(q, "ops") = Carried(Tail(q), "ops") \union Range(Head(q).ops)
        /\ Head(q).type # "ops" => Carried(q, "ops") = Carried(Tail(q), "ops")
  /\ \A q \in Seq(DownFrame) : q # <<>> =>
        /\ Head(q).type = "rejected" =>
              Carried(q, "rejected") = Carried(Tail(q), "rejected") \union Range(Head(q).ops)
        /\ Head(q).type # "rejected" => Carried(q, "rejected") = Carried(Tail(q), "rejected")
  BY CarriedLess

LEMMA CarriedBy ==
  /\ \A type : Carried(<<>>, type) = {}
  /\ \A q, type : \A i \in DOMAIN q : q[i].type = type => Range(q[i].ops) \subseteq Carried(q, type)
  BY DEF Carried, Range

(* Acknowledgements stay fair while the outbox shrinks or gains a new edit *)
(* and the room grows.                                                     *)
LEMMA AcksKept ==
  ASSUME NEW q \in Seq(DownFrame), NEW out, NEW seen, NEW top \in Nat, AcksFair(q, out, seen, top),
         NEW out2, out2 \subseteq Op, \A op \in out2 : op \in out \/ op[2] > top,
         NEW seen2, seen \subseteq seen2, NEW top2 \in Nat, top <= top2
  PROVE  AcksFair(q, out2, seen2, top2)
<1> SUFFICES ASSUME NEW i \in DOMAIN q, q[i].type = "accepted"
             PROVE  /\ q[i].through <= top2
                    /\ \A op \in out2 : op[2] <= q[i].through =>
                         op \in seen2 \/ \E j \in 1 .. i - 1 : q[j].type = "rejected" /\ op \in Range(q[j].ops)
  BY DEF AcksFair
<1>1. q[i].through \in Nat
  BY DownFields
<1>2. /\ q[i].through <= top
      /\ \A op \in out : op[2] <= q[i].through =>
           op \in seen \/ \E j \in 1 .. i - 1 : q[j].type = "rejected" /\ op \in Range(q[j].ops)
  BY DEF AcksFair
<1>3. ASSUME NEW op \in out2, op[2] <= q[i].through PROVE op \in out
  BY <1>1, <1>2, <1>3, OpFields
<1> QED BY <1>1, <1>2, <1>3

LEMMA AcksAppended ==
  ASSUME NEW q \in Seq(DownFrame), NEW out, NEW seen, NEW top, AcksFair(q, out, seen, top),
         NEW f \in DownFrame,
         f.type = "accepted" =>
            /\ f.through <= top
            /\ \A op \in out : op[2] <= f.through => op \in seen \union Carried(q, "rejected")
  PROVE  AcksFair(Append(q, f), out, seen, top)
<1> DEFINE t == Append(q, f)
<1>1. /\ DOMAIN t = 1 .. Len(q) + 1 /\ Len(q) \in Nat /\ DOMAIN q = 1 .. Len(q)
      /\ \A i \in 1 .. Len(q) : t[i] = q[i]
      /\ t[Len(q) + 1] = f
  BY AppendFacts
<1> HIDE DEF t
<1>2. ASSUME NEW i \in DOMAIN t, t[i].type = "accepted"
      PROVE  /\ t[i].through <= top
             /\ \A op \in out : op[2] <= t[i].through =>
                  op \in seen \/ \E j \in 1 .. i - 1 : t[j].type = "rejected" /\ op \in Range(t[j].ops)
  <2>1. CASE i <= Len(q)
    <3>1. i \in DOMAIN q /\ t[i] = q[i] /\ \A j \in 1 .. i - 1 : t[j] = q[j]
      BY <1>1, <2>1
    <3> QED BY <1>2, <3>1 DEF AcksFair
  <2>2. CASE i = Len(q) + 1
    <3>1. t[i] = f /\ \A j \in DOMAIN q : j \in 1 .. i - 1 /\ t[j] = q[j]
      BY <1>1, <2>2
    <3>2. ASSUME NEW op \in Carried(q, "rejected")
          PROVE  \E j \in DOMAIN q : q[j].type = "rejected" /\ op \in Range(q[j].ops)
      BY DEF Carried, Range
    <3> QED BY <1>2, <3>1, <3>2
  <2> QED BY <1>1, <2>1, <2>2
<1> QED BY <1>2 DEF AcksFair, t

LEMMA AcksRead ==
  ASSUME NEW q \in Seq(DownFrame), q # <<>>, NEW out, NEW seen, NEW top, AcksFair(q, out, seen, top),
         NEW out2, out2 \subseteq out,
         Head(q).type = "rejected" => out2 \intersect Range(Head(q).ops) = {}
  PROVE  AcksFair(Tail(q), out2, seen, top)
<1> DEFINE t == Tail(q)
<1>1. /\ Head(q) = q[1] /\ Len(q) \in Nat /\ DOMAIN q = 1 .. Len(q) /\ DOMAIN t = 1 .. Len(q) - 1
      /\ \A i \in DOMAIN t : t[i] = q[i + 1] /\ i + 1 \in DOMAIN q /\ i \in Nat
  BY ReadFacts
<1> HIDE DEF t
<1>2. ASSUME NEW i \in DOMAIN t, t[i].type = "accepted"
      PROVE  /\ t[i].through <= top
             /\ \A op \in out2 : op[2] <= t[i].through =>
                  op \in seen \/ \E j \in 1 .. i - 1 : t[j].type = "rejected" /\ op \in Range(t[j].ops)
  <2>1. /\ q[i + 1].through <= top
        /\ \A op \in out : op[2] <= q[i + 1].through =>
             op \in seen \/ \E j \in 1 .. (i + 1) - 1 : q[j].type = "rejected" /\ op \in Range(q[j].ops)
    BY <1>1, <1>2 DEF AcksFair
  <2>2. ASSUME NEW op \in out2, NEW j \in 1 .. (i + 1) - 1, q[j].type = "rejected", op \in Range(q[j].ops)
        PROVE  \E k \in 1 .. i - 1 : t[k].type = "rejected" /\ op \in Range(t[k].ops)
    <3>1. j # 1
      BY <1>1, <2>2
    <3>2. j - 1 \in 1 .. i - 1 /\ j - 1 \in DOMAIN t /\ (j - 1) + 1 = j
      BY <1>1, <3>1
    <3>3. t[j - 1] = q[j]
      BY <1>1, <3>2
    <3> QED BY <2>2, <3>2, <3>3
  <2> QED BY <1>1, <2>1, <2>2
<1> QED BY <1>2 DEF AcksFair, t

(* The same of the batches on their way up.                                *)
LEMMA SendsKept ==
  ASSUME NEW q \in Seq(UpFrame), NEW out, NEW seen, NEW top \in Nat, SendsInOrder(q, out, seen, top),
         NEW out2, out2 \subseteq Op, NEW seen2, NEW top2 \in Nat, top <= top2,
         \A op \in out2 : op \in out \/ op[2] > top,
         \A op \in out2 : op \in seen => op \in seen2
  PROVE  SendsInOrder(q, out2, seen2, top2)
<1> SUFFICES ASSUME NEW i \in DOMAIN q, q[i].type = "ops"
             PROVE  /\ q[i].ops[Len(q[i].ops)][2] <= top2
                    /\ \A op \in out2 : op[2] <= q[i].ops[Len(q[i].ops)][2] =>
                         op \in seen2 \/ \E j \in 1 .. i : q[j].type = "ops" /\ op \in Range(q[j].ops)
  BY DEF SendsInOrder
<1> DEFINE last == q[i].ops[Len(q[i].ops)][2]
<1>1. last \in Nat
  <2>1. q[i] \in UpFrame
    OBVIOUS
  <2> QED BY <2>1, UpFields, OpFields
<1>2. /\ last <= top
      /\ \A op \in out : op[2] <= last =>
           op \in seen \/ \E j \in 1 .. i : q[j].type = "ops" /\ op \in Range(q[j].ops)
  BY DEF SendsInOrder
<1> HIDE DEF last
<1>3. ASSUME NEW op \in out2, op[2] <= last PROVE op \in out
  BY <1>1, <1>2, <1>3, OpFields
<1>4. /\ last <= top2
      /\ \A op \in out2 : op[2] <= last =>
           op \in seen2 \/ \E j \in 1 .. i : q[j].type = "ops" /\ op \in Range(q[j].ops)
  BY <1>1, <1>2, <1>3
<1> QED BY <1>4 DEF last

LEMMA SendsAppended ==
  ASSUME NEW q \in Seq(UpFrame), NEW out, NEW seen, NEW top, SendsInOrder(q, out, seen, top),
         NEW ops \in Seq(Op), ops # <<>>, ops[Len(ops)][2] <= top,
         out \subseteq seen \union Carried(q, "ops") \union Range(ops)
  PROVE  SendsInOrder(Append(q, OpsFrame(ops)), out, seen, top)
<1> DEFINE f == OpsFrame(ops)
           t == Append(q, f)
<1>1. f \in UpFrame /\ f.type = "ops" /\ f.ops = ops
  BY UpFields DEF OpsFrame
<1> HIDE DEF f
<1>2. /\ DOMAIN t = 1 .. Len(q) + 1 /\ Len(q) \in Nat /\ DOMAIN q = 1 .. Len(q)
      /\ \A i \in 1 .. Len(q) : t[i] = q[i]
      /\ t[Len(q) + 1] = f
  BY <1>1, AppendFacts
<1> HIDE DEF t
<1>3. ASSUME NEW i \in DOMAIN t, t[i].type = "ops"
      PROVE  /\ t[i].ops[Len(t[i].ops)][2] <= top
             /\ \A op \in out : op[2] <= t[i].ops[Len(t[i].ops)][2] =>
                  op \in seen \/ \E j \in 1 .. i : t[j].type = "ops" /\ op \in Range(t[j].ops)
  <2>1. CASE i <= Len(q)
    <3>1. i \in DOMAIN q /\ t[i] = q[i] /\ \A j \in 1 .. i : t[j] = q[j]
      BY <1>2, <2>1
    <3> QED BY <1>3, <3>1 DEF SendsInOrder
  <2>2. CASE i = Len(q) + 1
    <3>1. t[i] = f /\ i \in 1 .. i /\ \A j \in DOMAIN q : j \in 1 .. i /\ t[j] = q[j]
      BY <1>2, <2>2
    <3>2. ASSUME NEW op \in Carried(q, "ops")
          PROVE  \E j \in DOMAIN q : q[j].type = "ops" /\ op \in Range(q[j].ops)
      BY DEF Carried, Range
    <3> QED BY <1>1, <3>1, <3>2
  <2> QED BY <1>2, <2>1, <2>2
<1> QED BY <1>3 DEF SendsInOrder, t, f

LEMMA SendsRead ==
  ASSUME NEW q \in Seq(UpFrame), q # <<>>, NEW out, NEW seen, NEW top, SendsInOrder(q, out, seen, top),
         NEW seen2, seen \subseteq seen2,
         Head(q).type = "ops" => Range(Head(q).ops) \subseteq seen2
  PROVE  SendsInOrder(Tail(q), out, seen2, top)
<1> DEFINE t == Tail(q)
<1>1. /\ Head(q) = q[1] /\ Len(q) \in Nat /\ DOMAIN q = 1 .. Len(q) /\ DOMAIN t = 1 .. Len(q) - 1
      /\ \A i \in DOMAIN t : t[i] = q[i + 1] /\ i + 1 \in DOMAIN q /\ i \in Nat
  BY ReadFacts
<1> HIDE DEF t
<1>2. ASSUME NEW i \in DOMAIN t, t[i].type = "ops"
      PROVE  /\ t[i].ops[Len(t[i].ops)][2] <= top
             /\ \A op \in out : op[2] <= t[i].ops[Len(t[i].ops)][2] =>
                  op \in seen2 \/ \E j \in 1 .. i : t[j].type = "ops" /\ op \in Range(t[j].ops)
  <2>1. /\ q[i + 1].ops[Len(q[i + 1].ops)][2] <= top
        /\ \A op \in out : op[2] <= q[i + 1].ops[Len(q[i + 1].ops)][2] =>
             op \in seen \/ \E j \in 1 .. i + 1 : q[j].type = "ops" /\ op \in Range(q[j].ops)
    BY <1>1, <1>2 DEF SendsInOrder
  <2>2. ASSUME NEW op \in out, NEW j \in 1 .. i + 1, q[j].type = "ops", op \in Range(q[j].ops)
        PROVE  op \in seen2 \/ \E k \in 1 .. i : t[k].type = "ops" /\ op \in Range(t[k].ops)
    <3>1. CASE j = 1
      BY <1>1, <2>2, <3>1
    <3>2. CASE j # 1
      <4>1. j - 1 \in 1 .. i /\ j - 1 \in DOMAIN t /\ (j - 1) + 1 = j
        BY <1>1, <3>2
      <4>2. t[j - 1] = q[j]
        BY <1>1, <4>1
      <4> QED BY <2>2, <4>1, <4>2
    <3> QED BY <3>1, <3>2
  <2> QED BY <1>1, <2>1, <2>2
<1> QED BY <1>2 DEF SendsInOrder, t
-----------------------------------------------------------------------------
SyncInv == SyncTypes /\ EditsInv

(* The types of one client's state.                                        *)
LEMMA ClientFacts ==
  ASSUME SyncTypes, NEW c \in Client
  PROVE  /\ doc[c] \subseteq Op /\ cursor[c] \in Nat
         /\ outbox[c] \in Seq(Op) /\ Range(outbox[c]) \subseteq Op
         /\ minted[c] \in Nat /\ minted[c] \in 0 .. MaxEdits
         /\ up[c] \in Seq(UpFrame) /\ down[c] \in Seq(DownFrame) /\ stale[c] \in Seq(UpFrame)
<1>1. outbox[c] \in Seq(Op)
  BY DEF SyncTypes
<1>2. Range(outbox[c]) \subseteq Op
  BY <1>1 DEF Range
<1> QED BY <1>1, <1>2 DEF SyncTypes

(* A client to whom a step only sends ops keeps its edits.                 *)
LEMMA Bystander ==
  ASSUME SyncTypes, NEW d \in Client, EditsKept(d),
         outbox'[d] = outbox[d], minted'[d] = minted[d], up'[d] = up[d],
         room.seen \subseteq room'.seen, rejected \subseteq rejected',
         d \in online' => d \in online,
         \/ down'[d] = down[d]
         \/ \E ops \in Seq(Op) : down'[d] = Append(down[d], OpsFrame(ops))
  PROVE  EditsKept(d)'
<1> DEFINE out == Range(outbox[d])
<1>1. /\ minted[d] \in Nat /\ up[d] \in Seq(UpFrame) /\ down[d] \in Seq(DownFrame)
      /\ out \subseteq Op
  BY ClientFacts
<1>2. AcksFair(down[d], out, room'.seen, minted[d])
  BY <1>1, AcksKept DEF EditsKept
<1>3. /\ AcksFair(down'[d], out, room'.seen, minted[d])
      /\ Carried(down'[d], "rejected") = Carried(down[d], "rejected")
  <2>1. CASE down'[d] = down[d]
    BY <1>2, <2>1
  <2>2. ASSUME NEW ops \in Seq(Op), down'[d] = Append(down[d], OpsFrame(ops))
        PROVE  /\ AcksFair(down'[d], out, room'.seen, minted[d])
               /\ Carried(down'[d], "rejected") = Carried(down[d], "rejected")
    <3>1. OpsFrame(ops) \in DownFrame /\ OpsFrame(ops).type = "ops"
      BY DownFields DEF OpsFrame
    <3>2. AcksFair(Append(down[d], OpsFrame(ops)), out, room'.seen, minted[d])
      BY <1>1, <1>2, <3>1, AcksAppended
    <3>3. Carried(Append(down[d], OpsFrame(ops)), "rejected") = Carried(down[d], "rejected")
      BY <1>1, <3>1, CarriedMore
    <3> QED BY <2>2, <3>2, <3>3
  <2> QED BY <2>1, <2>2
<1>4. Answered(d) \subseteq Answered(d)'
  BY <1>3 DEF Answered
<1>5. SendsInOrder(up[d], out, Answered(d)', minted[d])
  <2> DEFINE a == Answered(d)
             b == Answered(d)'
  <2>1. SendsInOrder(up[d], out, a, minted[d]) /\ a \subseteq b /\ minted[d] <= minted[d]
    BY <1>1, <1>4 DEF EditsKept
  <2> HIDE DEF a, b, out
  <2>2. \A op \in out : op \in out \/ op[2] > minted[d]
    OBVIOUS
  <2>3. SendsInOrder(up[d], out, b, minted[d])
    BY <1>1, <2>1, <2>2, SendsKept
  <2> QED BY <2>3 DEF b
<1>6. Own(d, outbox[d])'
  BY DEF EditsKept, Own
<1> QED BY <1>3, <1>4, <1>5, <1>6 DEF EditsKept

(* A local edit joins the outbox and, on a live connection, the wire.      *)
LEMMA EditKeeps ==
  ASSUME SyncInv, NEW c \in Client, Edit(c)
  PROVE  SyncInv'
<1> DEFINE op == <<c, minted[c] + 1>>
           frame == OpsFrame(<<op>>)
<1>1. /\ minted[c] < MaxEdits
      /\ minted' = [minted EXCEPT ![c] = @ + 1]
      /\ doc' = [doc EXCEPT ![c] = @ \union {op}]
      /\ outbox' = [outbox EXCEPT ![c] = Append(@, op)]
      /\ up' = [up EXCEPT ![c] = IF c \in online THEN Append(@, frame) ELSE @]
      /\ UNCHANGED <<room, history, bound, cursor, rejected, online, down, stale>>
  BY DEF Edit, serverVars
<1>2. SyncTypes /\ EditsKept(c) /\ MaxEdits \in Nat
  BY ClientSyncAssumption DEF SyncInv, EditsInv
<1>3. /\ minted[c] \in Nat /\ minted[c] + 1 \in 1 .. MaxEdits
      /\ outbox[c] \in Seq(Op) /\ up[c] \in Seq(UpFrame) /\ down[c] \in Seq(DownFrame)
      /\ Range(outbox[c]) \subseteq Op
  BY <1>1, <1>2, ClientFacts
<1>4. op \in Op /\ op[1] = c /\ op[2] = minted[c] + 1
  BY <1>3, OpFields
<1>5. <<op>> \in Seq(Op) /\ <<op>> # <<>> /\ Range(<<op>>) = {op} /\ <<op>>[Len(<<op>>)] = op
  <2> HIDE DEF op
  <2> QED BY <1>4 DEF Range
<1>6. frame \in UpFrame /\ frame.type = "ops" /\ frame.ops = <<op>>
  <2> HIDE DEF op
  <2> QED BY <1>5, UpFields DEF OpsFrame
<1> HIDE DEF op, frame
<1>7. Append(outbox[c], op) \in Seq(Op) /\ Range(Append(outbox[c], op)) = Range(outbox[c]) \union {op}
  BY <1>3, <1>4, AppendFacts
<1>8. Append(up[c], frame) \in Seq(UpFrame)
  BY <1>3, <1>6, AppendFacts
<1>9. SyncTypes'
  <2>1. minted' \in [Client -> 0 .. MaxEdits]
    BY <1>1, <1>2, <1>3 DEF SyncTypes
  <2>2. doc' \in [Client -> SUBSET Op] /\ outbox' \in [Client -> Seq(Op)]
    BY <1>1, <1>2, <1>4, <1>7 DEF SyncTypes
  <2>3. up' \in [Client -> Seq(UpFrame)]
    BY <1>1, <1>2, <1>8 DEF SyncTypes
  <2> QED BY <1>1, <1>2, <2>1, <2>2, <2>3 DEF SyncTypes
<1>10. ASSUME NEW d \in Client \ {c} PROVE EditsKept(d)'
  <2>1. outbox'[d] = outbox[d] /\ minted'[d] = minted[d] /\ up'[d] = up[d]
    BY <1>1, <1>2 DEF SyncTypes
  <2>2. EditsKept(d) /\ down'[d] = down[d] /\ room'.seen = room.seen /\ online' = online /\ rejected' = rejected
    BY <1>1 DEF SyncInv, EditsInv
  <2> QED BY <1>2, <2>1, <2>2, Bystander
<1>11. EditsKept(c)'
  <2> DEFINE out == Range(outbox[c]) \union {op}
             top == minted[c] + 1
  <2>1. /\ outbox'[c] = Append(outbox[c], op) /\ minted'[c] = top
        /\ up'[c] = IF c \in online THEN Append(up[c], frame) ELSE up[c]
        /\ Answered(c)' = Answered(c) /\ down' = down /\ room' = room
    BY <1>1, <1>2 DEF SyncTypes, Answered
  <2>2. out \subseteq Op /\ top \in Nat /\ minted[c] <= top
    BY <1>3, <1>4
  <2>3. \A o \in out : o \in Range(outbox[c]) \/ o[2] > minted[c]
    BY <1>3, <1>4
  <2> HIDE DEF out, top
  <2>4. AcksFair(down[c], out, room.seen, top)
    BY <1>2, <1>3, <2>2, <2>3, AcksKept DEF EditsKept
  <2>5. SendsInOrder(up[c], out, Answered(c), top)
    BY <1>2, <1>3, <2>2, <2>3, SendsKept DEF EditsKept
  <2>6. c \in online => /\ out \subseteq Answered(c) \union Carried(up[c], "ops") \union {op}
                        /\ Carried(up'[c], "ops") = Carried(up[c], "ops") \union {op}
    <3>1. Carried(Append(up[c], frame), "ops") = Carried(up[c], "ops") \union {op}
      <4>1. Carried(Append(up[c], frame), "ops") = Carried(up[c], "ops") \union Range(frame.ops)
        BY <1>3, <1>6, SentMore
      <4> QED BY <1>5, <1>6, <4>1
    <3> QED BY <1>2, <2>1, <3>1 DEF EditsKept, out
  <2>7. SendsInOrder(up'[c], out, Answered(c), top)
    <3>1. CASE c \in online
      <4>1. <<op>>[Len(<<op>>)][2] <= top
        BY <1>4, <1>5, <1>3 DEF top
      <4>2. SendsInOrder(Append(up[c], OpsFrame(<<op>>)), out, Answered(c), top)
        BY <1>3, <1>5, <2>5, <2>6, <3>1, <4>1, SendsAppended
      <4> QED BY <2>1, <3>1, <4>2 DEF frame
    <3>2. CASE c \notin online
      BY <2>1, <2>5, <3>2
    <3> QED BY <3>1, <3>2
  <2>8. Own(c, outbox[c])'
    <3>1. \A o \in Range(outbox[c]) : o[1] = c /\ o[2] <= minted[c] /\ o[2] \in Nat
      BY <1>2, <1>3, OpFields DEF EditsKept, Own
    <3> QED BY <1>3, <1>4, <1>7, <2>1, <3>1 DEF Own, top
  <2>9. \A s \in 1 .. top : <<c, s>> \in room.seen \union out \union rejected
    <3>1. \A s \in 1 .. top : s \in 1 .. minted[c] \/ s = minted[c] + 1
      BY <1>3 DEF top
    <3> QED BY <1>2, <3>1 DEF EditsKept, out, op
  <2>10. Range(outbox'[c]) = out
    BY <1>7, <2>1 DEF out
  <2> QED BY <1>1, <2>1, <2>4, <2>6, <2>7, <2>8, <2>9, <2>10 DEF EditsKept
<1> QED BY <1>9, <1>10, <1>11 DEF SyncInv, EditsInv

(* A new connection carries all that is unacknowledged.                    *)
LEMMA ConnectKeeps ==
  ASSUME SyncInv, NEW c \in Client, Connect(c)
  PROVE  SyncInv'
<1> DEFINE sub == Subscribe(c)
           frame == OpsFrame(outbox[c])
<1>1. /\ online' = online \union {c}
      /\ up' = [up EXCEPT ![c] = IF outbox[c] = <<>> THEN <<sub>> ELSE <<sub, frame>>]
      /\ UNCHANGED <<room, bound, doc, cursor, outbox, minted, rejected, down, stale>>
  BY DEF Connect, serverVars, clientVars
<1>2. /\ SyncTypes /\ EditsKept(c) /\ minted[c] \in Nat /\ outbox[c] \in Seq(Op)
      /\ Range(outbox[c]) \subseteq Op /\ cursor[c] \in Nat
  BY ClientFacts DEF SyncInv, EditsInv
<1>3. sub \in UpFrame /\ sub.type = "subscribe"
  BY <1>2 DEF Subscribe, UpFrame
<1>4. <<sub>> \in Seq(UpFrame) /\ Carried(<<sub>>, "ops") = {}
  <2> HIDE DEF sub
  <2>1. <<sub>> \in Seq(UpFrame) /\ Range(<<sub>>) = {sub}
    BY <1>3 DEF Range
  <2> QED BY <1>3, <2>1 DEF Carried
<1>5. SendsInOrder(<<sub>>, Range(outbox[c]), Answered(c), minted[c])
  <2> HIDE DEF sub
  <2>1. DOMAIN <<sub>> = 1 .. 1 /\ <<sub>>[1] = sub
    OBVIOUS
  <2> QED BY <1>3, <2>1 DEF SendsInOrder
<1>6. outbox[c] # <<>> =>
         /\ frame \in UpFrame /\ frame.type = "ops" /\ frame.ops = outbox[c]
         /\ outbox[c][Len(outbox[c])][2] <= minted[c]
  <2> SUFFICES ASSUME outbox[c] # <<>>
               PROVE  /\ frame \in UpFrame /\ frame.type = "ops" /\ frame.ops = outbox[c]
                      /\ outbox[c][Len(outbox[c])][2] <= minted[c]
    OBVIOUS
  <2>1. frame \in UpFrame /\ frame.type = "ops" /\ frame.ops = outbox[c]
    BY <1>2, UpFields DEF OpsFrame
  <2>2. outbox[c][Len(outbox[c])] \in Range(outbox[c])
    BY <2>1, UpFields
  <2> QED BY <1>2, <2>1, <2>2 DEF EditsKept, Own
<1>7. <<sub, frame>> = Append(<<sub>>, frame)
  <2> HIDE DEF sub, frame
  <2> QED OBVIOUS
<1>8. up'[c] = IF outbox[c] = <<>> THEN <<sub>> ELSE Append(<<sub>>, frame)
  BY <1>1, <1>2, <1>7 DEF SyncTypes
<1> HIDE DEF sub
<1>9. /\ up'[c] \in Seq(UpFrame)
      /\ SendsInOrder(up'[c], Range(outbox[c]), Answered(c), minted[c])
      /\ Range(outbox[c]) \subseteq Carried(up'[c], "ops")
  <2>1. CASE outbox[c] = <<>>
    BY <1>4, <1>5, <1>8, <2>1 DEF Range
  <2>2. CASE outbox[c] # <<>>
    <3>1. SendsInOrder(Append(<<sub>>, OpsFrame(outbox[c])), Range(outbox[c]), Answered(c), minted[c])
      BY <1>2, <1>4, <1>5, <1>6, <2>2, SendsAppended
    <3> HIDE DEF frame
    <3>2. Append(<<sub>>, frame) \in Seq(UpFrame)
      BY <1>4, <1>6, <2>2, AppendFacts
    <3>3. Carried(Append(<<sub>>, frame), "ops") = Carried(<<sub>>, "ops") \union Range(outbox[c])
      <4>1. Carried(Append(<<sub>>, frame), "ops") = Carried(<<sub>>, "ops") \union Range(frame.ops)
        BY <1>4, <1>6, <2>2, SentMore
      <4> QED BY <1>6, <2>2, <4>1
    <3> QED BY <1>8, <2>2, <3>1, <3>2, <3>3 DEF frame
  <2> QED BY <2>1, <2>2
<1> HIDE DEF frame
<1>10. SyncTypes'
  <2>1. up' \in [Client -> Seq(UpFrame)]
    BY <1>1, <1>2, <1>9 DEF SyncTypes
  <2> QED BY <1>1, <1>2, <2>1 DEF SyncTypes
<1>11. ASSUME NEW d \in Client \ {c} PROVE EditsKept(d)'
  <2>1. up'[d] = up[d] /\ (d \in online' => d \in online)
    BY <1>1, <1>2 DEF SyncTypes
  <2>2. EditsKept(d) /\ down'[d] = down[d] /\ room'.seen = room.seen /\ rejected' = rejected
        /\ outbox'[d] = outbox[d] /\ minted'[d] = minted[d]
    BY <1>1 DEF SyncInv, EditsInv
  <2> QED BY <1>2, <2>1, <2>2, Bystander
<1>12. EditsKept(c)'
  <2>1. Answered(c)' = Answered(c) /\ Own(c, outbox[c])'
    BY <1>1, <1>2 DEF Answered, EditsKept, Own
  <2> QED BY <1>1, <1>2, <1>9, <2>1 DEF EditsKept
<1> QED BY <1>10, <1>11, <1>12 DEF SyncInv, EditsInv

(* A dropped connection takes every answer with it.                        *)
LEMMA DropKeeps ==
  ASSUME SyncInv, NEW c \in Client, Drop(c)
  PROVE  SyncInv'
<1>1. PICK k \in 0 .. Len(up[c]) : stale' = [stale EXCEPT ![c] = @ \o SubSeq(up[c], 1, k)]
  BY DEF Drop
<1>2. /\ online' = online \ {c} /\ bound' = bound \ {c}
      /\ down' = [down EXCEPT ![c] = <<>>]
      /\ up' = [up EXCEPT ![c] = <<>>]
      /\ UNCHANGED <<room, doc, cursor, outbox, minted, rejected>>
  BY DEF Drop, clientVars
<1>3. SyncTypes /\ EditsKept(c) /\ up[c] \in Seq(UpFrame) /\ stale[c] \in Seq(UpFrame)
  BY ClientFacts DEF SyncInv, EditsInv
<1>4. stale[c] \o SubSeq(up[c], 1, k) \in Seq(UpFrame)
  <2>1. SubSeq(up[c], 1, k) \in Seq(UpFrame)
    <3>1. 1 \in Nat \ {0} /\ k \in Nat /\ k <= Len(up[c])
      BY <1>3
    <3> QED BY <1>3, <3>1, SubSeqRange
  <2> QED BY <1>3, <2>1, ConcatRange
<1>5. SyncTypes'
  BY <1>1, <1>2, <1>3, <1>4 DEF SyncTypes
<1>6. ASSUME NEW d \in Client \ {c} PROVE EditsKept(d)'
  <2>1. up'[d] = up[d] /\ down'[d] = down[d] /\ (d \in online' => d \in online)
    BY <1>2, <1>3 DEF SyncTypes
  <2>2. EditsKept(d) /\ room'.seen = room.seen /\ rejected' = rejected
        /\ outbox'[d] = outbox[d] /\ minted'[d] = minted[d]
    BY <1>2 DEF SyncInv, EditsInv
  <2> QED BY <1>3, <2>1, <2>2, Bystander
<1>7. EditsKept(c)'
  <2>1. up'[c] = <<>> /\ down'[c] = <<>> /\ c \notin online'
    BY <1>2, <1>3 DEF SyncTypes
  <2>2. AcksFair(down'[c], Range(outbox[c]), room.seen, minted[c])
    BY <2>1 DEF AcksFair
  <2>3. SendsInOrder(up'[c], Range(outbox[c]), Answered(c)', minted[c])
    BY <2>1 DEF SendsInOrder
  <2>4. Own(c, outbox[c])'
    BY <1>2, <1>3 DEF EditsKept, Own
  <2> QED BY <1>2, <1>3, <2>1, <2>2, <2>3, <2>4 DEF EditsKept
<1> QED BY <1>5, <1>6, <1>7 DEF SyncInv, EditsInv

(* A frame from the server is read.                                        *)
LEMMA ReceiveKeeps ==
  ASSUME SyncInv, NEW c \in Client, ClientReceive(c)
  PROVE  SyncInv'
<1> DEFINE f == Head(down[c])
           out == Range(outbox[c])
<1>1. /\ down[c] # <<>>
      /\ down' = [down EXCEPT ![c] = Tail(@)]
      /\ ReceiveOps(c, f) \/ ReceiveSnapshot(c, f) \/ ReceiveAccepted(c, f) \/ ReceiveRejected(c, f)
      /\ UNCHANGED <<room, bound, online, up, stale>>
  BY DEF ClientReceive, serverVars
<1>2. /\ SyncTypes /\ EditsKept(c) /\ minted[c] \in Nat /\ outbox[c] \in Seq(Op) /\ out \subseteq Op
      /\ down[c] \in Seq(DownFrame) /\ up[c] \in Seq(UpFrame) /\ doc[c] \subseteq Op /\ cursor[c] \in Nat
  BY ClientFacts DEF SyncInv, EditsInv
<1>3. f \in DownFrame /\ Tail(down[c]) \in Seq(DownFrame) /\ f = down[c][1] /\ 1 \in DOMAIN down[c]
  <2>1. /\ f = down[c][1] /\ f \in DownFrame /\ Tail(down[c]) \in Seq(DownFrame) /\ Len(down[c]) \in Nat \ {0}
    BY <1>1, <1>2, ReadFacts
  <2> QED BY <1>2, <2>1
<1>4. /\ f.type \in {"ops", "rejected"} => f.ops \in Seq(Op) /\ Range(f.ops) \subseteq Op
      /\ f.type = "snapshot" => f.seq \in Nat /\ f.state \subseteq Op
      /\ f.type = "accepted" => f.through \in Nat
  BY <1>3, DownFields
<1> HIDE DEF f
<1>5. \E box \in Seq(Op) :
         /\ outbox' = [outbox EXCEPT ![c] = box]
         /\ Range(box) \subseteq out
         /\ out \subseteq Range(box) \union room.seen \union rejected'
         /\ f.type = "rejected" => Range(box) \intersect Range(f.ops) = {}
         /\ rejected \subseteq rejected'
  <2>1. CASE ReceiveOps(c, f) \/ ReceiveSnapshot(c, f)
    <3>1. outbox' = outbox /\ rejected' = rejected /\ f.type # "rejected"
      BY <2>1 DEF ReceiveOps, ReceiveSnapshot
    <3>2. outbox' = [outbox EXCEPT ![c] = outbox[c]]
      BY <1>2, <3>1 DEF SyncTypes
    <3> QED BY <1>2, <3>1, <3>2
  <2>2. CASE ReceiveAccepted(c, f)
    <3> DEFINE at == {i \in DOMAIN outbox[c] : outbox[c][i][2] > f.through}
               box == Picked(outbox[c], at)
    <3>1. f.type = "accepted" /\ rejected' = rejected /\ outbox' = [outbox EXCEPT ![c] = box]
      BY <1>2, <2>2 DEF ReceiveAccepted, SyncTypes
    <3>2. at \subseteq DOMAIN outbox[c]
      OBVIOUS
    <3>3. box \in Seq(Op) /\ Range(box) = {outbox[c][i] : i \in at}
      <4> HIDE DEF at
      <4> QED BY <1>2, <3>2, PickedElements
    <3>4. Range(box) \subseteq out
      BY <3>3 DEF Range
    <3>5. ASSUME NEW op \in out PROVE op \in Range(box) \union room.seen
      <4>1. PICK i \in DOMAIN outbox[c] : op = outbox[c][i]
        BY DEF Range
      <4>2. op \in Op /\ op[2] \in Nat /\ f.through \in Nat
        BY <1>2, <1>4, <3>1, OpFields
      <4>3. CASE op[2] > f.through
        BY <3>3, <4>1, <4>3
      <4>4. CASE op[2] <= f.through
        <5>1. AcksFair(down[c], out, room.seen, minted[c])
          BY <1>2 DEF EditsKept
        <5>2. op \in room.seen \/ \E j \in 1 .. 1 - 1 : down[c][j].type = "rejected" /\ op \in Range(down[c][j].ops)
          BY <1>3, <3>1, <4>4, <5>1 DEF AcksFair
        <5> QED BY <5>2
      <4> QED BY <4>2, <4>3, <4>4
    <3> QED BY <3>1, <3>3, <3>4, <3>5
  <2>3. CASE ReceiveRejected(c, f)
    <3> DEFINE at == {i \in DOMAIN outbox[c] : outbox[c][i] \notin Range(f.ops)}
               box == Picked(outbox[c], at)
    <3>1. /\ f.type = "rejected" /\ outbox' = [outbox EXCEPT ![c] = box]
          /\ rejected' = rejected \union (out \intersect Range(f.ops))
      BY <1>2, <2>3 DEF ReceiveRejected, SyncTypes
    <3>2. at \subseteq DOMAIN outbox[c]
      OBVIOUS
    <3>3. box \in Seq(Op) /\ Range(box) = {outbox[c][i] : i \in at}
      <4> HIDE DEF at
      <4> QED BY <1>2, <3>2, PickedElements
    <3>4. Range(box) = out \ Range(f.ops)
      BY <3>3 DEF Range
    <3> HIDE DEF box
    <3> QED BY <3>1, <3>3, <3>4
  <2> QED BY <1>1, <2>1, <2>2, <2>3
<1>6. PICK box \in Seq(Op) :
         /\ outbox' = [outbox EXCEPT ![c] = box]
         /\ Range(box) \subseteq out
         /\ out \subseteq Range(box) \union room.seen \union rejected'
         /\ f.type = "rejected" => Range(box) \intersect Range(f.ops) = {}
         /\ rejected \subseteq rejected'
  BY <1>5
<1>7. minted' = minted /\ doc' \in [Client -> SUBSET Op] /\ cursor' \in [Client -> Nat]
  <2>1. CASE ReceiveOps(c, f)
    <3>1. Len(f.ops) \in Nat /\ Range(f.ops) \subseteq Op
      BY <1>4, <2>1 DEF ReceiveOps
    <3> QED BY <1>2, <2>1, <3>1 DEF ReceiveOps, SyncTypes
  <2>2. CASE ReceiveSnapshot(c, f)
    BY <1>2, <1>4, <2>2 DEF ReceiveSnapshot, SyncTypes
  <2>3. CASE ReceiveAccepted(c, f) \/ ReceiveRejected(c, f)
    BY <1>2, <2>3 DEF ReceiveAccepted, ReceiveRejected, SyncTypes
  <2> QED BY <1>1, <2>1, <2>2, <2>3
<1>8. SyncTypes'
  <2>1. down' \in [Client -> Seq(DownFrame)] /\ outbox' \in [Client -> Seq(Op)]
    BY <1>1, <1>2, <1>3, <1>6 DEF SyncTypes
  <2> QED BY <1>1, <1>2, <1>7, <2>1 DEF SyncTypes
<1>9. ASSUME NEW d \in Client \ {c} PROVE EditsKept(d)'
  <2>1. outbox'[d] = outbox[d] /\ down'[d] = down[d] /\ rejected \subseteq rejected'
    BY <1>1, <1>2, <1>6 DEF SyncTypes
  <2>2. EditsKept(d) /\ room'.seen = room.seen /\ minted'[d] = minted[d] /\ up'[d] = up[d] /\ online' = online
    BY <1>1, <1>7 DEF SyncInv, EditsInv
  <2> QED BY <1>2, <2>1, <2>2, Bystander
<1>10. EditsKept(c)'
  <2>1. outbox'[c] = box /\ down'[c] = Tail(down[c]) /\ Range(box) \subseteq Op
    BY <1>1, <1>2, <1>6 DEF SyncTypes
  <2>2. AcksFair(Tail(down[c]), Range(box), room.seen, minted[c])
    BY <1>1, <1>2, <1>6, AcksRead DEF EditsKept, f
  <2>3. \A op \in Range(box) : op \in Answered(c) => op \in Answered(c)'
    <3>1. CASE f.type = "rejected"
      <4>1. Carried(down[c], "rejected") = Carried(Tail(down[c]), "rejected") \union Range(f.ops)
        BY <1>1, <1>2, <3>1, ReadLess DEF f
      <4> QED BY <1>1, <1>6, <2>1, <3>1, <4>1 DEF Answered
    <3>2. CASE f.type # "rejected"
      <4>1. Carried(down[c], "rejected") = Carried(Tail(down[c]), "rejected")
        BY <1>1, <1>2, <3>2, ReadLess DEF f
      <4> QED BY <1>1, <2>1, <4>1 DEF Answered
    <3> QED BY <3>1, <3>2
  <2>4. SendsInOrder(up[c], Range(box), Answered(c)', minted[c])
    <3> DEFINE a == Answered(c)
               b == Answered(c)'
    <3>1. SendsInOrder(up[c], out, a, minted[c]) /\ minted[c] <= minted[c]
      BY <1>2 DEF EditsKept
    <3>2. \A op \in Range(box) : op \in a => op \in b
      BY <2>3
    <3>3. \A op \in Range(box) : op \in out \/ op[2] > minted[c]
      BY <1>6
    <3> HIDE DEF a, b, out
    <3>4. SendsInOrder(up[c], Range(box), b, minted[c])
      BY <1>2, <2>1, <3>1, <3>2, <3>3, SendsKept
    <3> QED BY <3>4 DEF b
  <2>5. c \in online' => Range(box) \subseteq Answered(c)' \union Carried(up[c], "ops")
    BY <1>1, <1>2, <1>6, <2>3 DEF EditsKept
  <2>6. Own(c, outbox[c])'
    BY <1>2, <1>6, <1>7, <2>1 DEF EditsKept, Own
  <2>7. \A s \in 1 .. minted[c] : <<c, s>> \in room.seen \union Range(box) \union rejected'
    BY <1>2, <1>6 DEF EditsKept
  <2> QED BY <1>1, <1>7, <2>1, <2>2, <2>4, <2>5, <2>6, <2>7 DEF EditsKept
<1> QED BY <1>8, <1>9, <1>10 DEF SyncInv, EditsInv
-----------------------------------------------------------------------------
(* What committing a batch does to the room, and what each client is sent. *)
LEMMA BatchCommitted ==
  ASSUME SyncTypes, NEW c \in Client, NEW ops \in Seq(Op), ops # <<>>,
         NEW live \in BOOLEAN, CommitOps(c, ops, live)
  PROVE  LET fresh == Fresh(room, ops)
             ack == [type |-> "accepted", through |-> ops[Len(ops)][2]] IN
         /\ fresh \in Seq(Op) /\ Range(fresh) = Range(ops) \ room.seen
         /\ SoundRoom(room') /\ room'.seen = room.seen \union Range(ops)
         /\ room' = [base |-> room.base, log |-> room.log \o fresh, seen |-> room.seen \union Range(fresh)]
         /\ history' = history \o fresh /\ bound' = bound
         /\ ack \in DownFrame
         /\ DOMAIN down' = Client
         /\ live => down'[c] = Append(down[c], ack)
         /\ \A d \in Client : ~(live /\ d = c) =>
               /\ d \in bound /\ fresh # <<>> => down'[d] = Append(down[d], OpsFrame(fresh))
               /\ d \notin bound \/ fresh = <<>> => down'[d] = down[d]
<1> DEFINE fresh == Fresh(room, ops)
           ack == [type |-> "accepted", through |-> ops[Len(ops)][2]]
           acked == IF live THEN Queued(down, c, <<ack>>) ELSE down
           others == IF live THEN bound \ {c} ELSE bound
<1>1. fresh \in Seq(Op) /\ Range(fresh) = Range(ops) \ room.seen
  BY FreshOps
<1>2. SoundRoom(Commit(room, fresh)) /\ Commit(room, fresh).seen = room.seen \union Range(ops)
  BY CommitSound DEF SyncTypes
<1>3. room' = Commit(room, fresh) /\ history' = history \o fresh /\ bound' = bound
  BY DEF CommitOps
<1>4. room' = [base |-> room.base, log |-> room.log \o fresh, seen |-> room.seen \union Range(fresh)]
  BY <1>3, ClientSyncAssumption DEF Commit
<1>5. ack \in DownFrame
  <2>1. ops[Len(ops)] \in Op
    BY UpFields DEF OpsFrame
  <2> QED BY <2>1, OpFields DEF DownFrame
<1>6. down' = [d \in Client |-> IF d \in others /\ fresh # <<>> THEN Append(acked[d], OpsFrame(fresh)) ELSE acked[d]]
  BY DEF CommitOps, FanOut
<1>7. down[c] \in Seq(DownFrame) /\ down \in [Client -> Seq(DownFrame)]
  BY DEF SyncTypes
<1>8. down[c] \o <<ack>> = Append(down[c], ack)
  <2> HIDE DEF ack
  <2> QED BY <1>5, <1>7, AppendFacts
<1>9. \A d \in Client : acked[d] = IF live /\ d = c THEN Append(down[c], ack) ELSE down[d]
  <2> HIDE DEF ack
  <2> QED BY <1>7, <1>8 DEF Queued
<1> HIDE DEF fresh, ack, acked
<1>10. live => down'[c] = Append(down[c], ack)
  BY <1>6, <1>9
<1>11. ASSUME NEW d \in Client, ~(live /\ d = c)
       PROVE  /\ d \in bound /\ fresh # <<>> => down'[d] = Append(down[d], OpsFrame(fresh))
              /\ d \notin bound \/ fresh = <<>> => down'[d] = down[d]
  <2>1. d \in others <=> d \in bound
    BY <1>11
  <2> HIDE DEF others
  <2> QED BY <1>6, <1>9, <1>11, <2>1
<1>12. DOMAIN down' = Client
  BY <1>6
<1> QED BY <1>1, <1>2, <1>3, <1>4, <1>5, <1>10, <1>11, <1>12 DEF fresh, ack

(* Each client is sent at most one frame, and only a live author an ack.   *)
LEMMA BatchSent ==
  ASSUME SyncTypes, NEW c \in Client, NEW ops \in Seq(Op), ops # <<>>,
         NEW live \in BOOLEAN, CommitOps(c, ops, live)
  PROVE  /\ down' \in [Client -> Seq(DownFrame)] /\ SoundRoom(room') /\ bound' \subseteq Client
         /\ room.seen \subseteq room'.seen
         /\ \A d \in Client : \/ live /\ d = c
                              \/ down'[d] = down[d]
                              \/ \E o \in Seq(Op) : down'[d] = Append(down[d], OpsFrame(o))
<1> DEFINE fresh == Fresh(room, ops)
           ack == [type |-> "accepted", through |-> ops[Len(ops)][2]]
<1>1. /\ fresh \in Seq(Op) /\ SoundRoom(room') /\ bound' = bound
      /\ ack \in DownFrame /\ DOMAIN down' = Client
      /\ live => down'[c] = Append(down[c], ack)
      /\ \A d \in Client : ~(live /\ d = c) =>
            /\ d \in bound /\ fresh # <<>> => down'[d] = Append(down[d], OpsFrame(fresh))
            /\ d \notin bound \/ fresh = <<>> => down'[d] = down[d]
  BY BatchCommitted
<1> HIDE DEF fresh, ack
<1>2. OpsFrame(fresh) \in DownFrame
  BY <1>1, DownFields
<1>3. ASSUME NEW d \in Client PROVE down'[d] \in Seq(DownFrame)
  <2>1. down[d] \in Seq(DownFrame)
    BY DEF SyncTypes
  <2>2. Append(down[d], ack) \in Seq(DownFrame) /\ Append(down[d], OpsFrame(fresh)) \in Seq(DownFrame)
    BY <1>1, <1>2, <2>1, AppendFacts
  <2> QED BY <1>1, <2>1, <2>2
<1>4. down' = [d \in DOMAIN down' |-> down'[d]]
  BY DEF CommitOps, FanOut
<1>5. room.seen \subseteq room'.seen
  BY BatchCommitted
<1> QED BY <1>1, <1>3, <1>4, <1>5 DEF SyncTypes

(* Every client but a live author keeps its edits through a batch.         *)
LEMMA BatchOthers ==
  ASSUME SyncInv, NEW c \in Client, NEW ops \in Seq(Op), ops # <<>>,
         NEW live \in BOOLEAN, CommitOps(c, ops, live),
         NEW d \in Client, ~(live /\ d = c), up'[d] = up[d],
         UNCHANGED <<outbox, minted, rejected, online>>
  PROVE  EditsKept(d)'
<1>1. SyncTypes /\ EditsKept(d)
  BY DEF SyncInv, EditsInv
<1>2. /\ room.seen \subseteq room'.seen
      /\ \/ down'[d] = down[d]
         \/ \E o \in Seq(Op) : down'[d] = Append(down[d], OpsFrame(o))
  BY <1>1, BatchSent
<1> QED BY <1>1, <1>2, Bystander

(* The server reads a frame of a live connection.                          *)
LEMMA ServeKeeps ==
  ASSUME SyncInv, NEW c \in Client, ServerReceive(c)
  PROVE  SyncInv'
<1> DEFINE f == Head(up[c])
           rest == Tail(up[c])
           out == Range(outbox[c])
<1>1. /\ up[c] # <<>>
      /\ up' = [up EXCEPT ![c] = Tail(@)]
      /\ HandleSubscribe(c, f) \/ HandleOps(c, f, TRUE)
      /\ UNCHANGED <<doc, cursor, outbox, minted, rejected, online, stale>>
  BY DEF ServerReceive, clientVars
<1>2. /\ SyncTypes /\ EditsKept(c) /\ minted[c] \in Nat /\ out \subseteq Op
      /\ down[c] \in Seq(DownFrame) /\ up[c] \in Seq(UpFrame)
  BY ClientFacts DEF SyncInv, EditsInv
<1>3. /\ f \in UpFrame /\ f = up[c][1] /\ 1 \in DOMAIN up[c]
      /\ up' \in [Client -> Seq(UpFrame)] /\ up'[c] = rest
      /\ \A d \in Client \ {c} : up'[d] = up[d]
  <2>1. f \in UpFrame /\ f = up[c][1] /\ rest \in Seq(UpFrame) /\ Len(up[c]) \in Nat \ {0}
    BY <1>1, <1>2, ReadFacts
  <2>2. 1 \in DOMAIN up[c]
    BY <1>2, <2>1
  <2> QED BY <1>1, <1>2, <2>1, <2>2 DEF SyncTypes
<1>4. Own(c, outbox[c])'
  BY <1>1, <1>2 DEF EditsKept, Own
<1>5. /\ AcksFair(down[c], out, room.seen, minted[c])
      /\ SendsInOrder(up[c], out, Answered(c), minted[c])
      /\ c \in online => out \subseteq Answered(c) \union Carried(up[c], "ops")
      /\ \A s \in 1 .. minted[c] : <<c, s>> \in room.seen \union out \union rejected
  BY <1>2 DEF EditsKept
<1>6. f.type = "ops" =>
         /\ f.ops \in Seq(Op) /\ f.ops # <<>>
         /\ Carried(up[c], "ops") = Carried(rest, "ops") \union Range(f.ops)
         /\ f.ops[Len(f.ops)][2] <= minted[c]
         /\ \A op \in out : op[2] <= f.ops[Len(f.ops)][2] => op \in Answered(c) \union Range(f.ops)
  <2> SUFFICES ASSUME f.type = "ops"
               PROVE  /\ f.ops \in Seq(Op) /\ f.ops # <<>>
                      /\ Carried(up[c], "ops") = Carried(rest, "ops") \union Range(f.ops)
                      /\ f.ops[Len(f.ops)][2] <= minted[c]
                      /\ \A op \in out : op[2] <= f.ops[Len(f.ops)][2] => op \in Answered(c) \union Range(f.ops)
    OBVIOUS
  <2>1. /\ f.ops[Len(f.ops)][2] <= minted[c]
        /\ \A op \in out : op[2] <= f.ops[Len(f.ops)][2] =>
              op \in Answered(c) \/ \E j \in 1 .. 1 : up[c][j].type = "ops" /\ op \in Range(up[c][j].ops)
    BY <1>3, <1>5 DEF SendsInOrder
  <2>2. f.ops \in Seq(Op) /\ f.ops # <<>>
    BY <1>3, UpFields
  <2>3. Carried(up[c], "ops") = Carried(rest, "ops") \union Range(f.ops)
    BY <1>1, <1>2, ReadLess
  <2> HIDE DEF f, rest, out
  <2> QED BY <1>3, <2>1, <2>2, <2>3
<1>7. f.type = "subscribe" => Carried(up[c], "ops") = Carried(rest, "ops")
  BY <1>1, <1>2, ReadLess
<1>8. \A seen2 : /\ Answered(c) \subseteq seen2
                 /\ f.type = "ops" => Range(f.ops) \subseteq seen2
                 => SendsInOrder(rest, out, seen2, minted[c])
  <2> DEFINE a == Answered(c)
  <2>1. SendsInOrder(up[c], out, a, minted[c])
    BY <1>5
  <2> HIDE DEF a, out
  <2> SUFFICES ASSUME NEW seen2, a \subseteq seen2, f.type = "ops" => Range(f.ops) \subseteq seen2
               PROVE  SendsInOrder(rest, out, seen2, minted[c])
    BY DEF a
  <2> QED BY <1>1, <1>2, <2>1, SendsRead
<1> HIDE DEF f, rest
<1>9. CASE HandleSubscribe(c, f)
  <2> DEFINE a == CatchUp(room, f.seq)
             g == IF a.kind = "ops" THEN OpsFrame(a.ops)
                  ELSE [type |-> "snapshot", seq |-> a.seq, state |-> a.state]
  <2>1. /\ f.type = "subscribe" /\ bound' = bound \union {c}
        /\ down' = [down EXCEPT ![c] = Append(@, g)] /\ UNCHANGED <<room, history>>
    BY <1>9 DEF HandleSubscribe
  <2>2. f.seq \in Nat
    BY <1>3, <2>1, UpFields
  <2>3. g \in DownFrame /\ g.type \in {"ops", "snapshot"}
    <3>1. \/ a.kind = "ops" /\ a.ops \in Seq(Op)
          \/ a.kind = "snapshot" /\ a.state = room.seen /\ a.seq = Cardinality(room.seen)
      BY <1>2, <2>2, CatchUpSound DEF SyncTypes
    <3>2. room.seen \subseteq Op /\ Cardinality(room.seen) \in Nat
      BY <1>2, FS_CardinalityType DEF SyncTypes, SoundRoom, Room
    <3> HIDE DEF a
    <3>3. CASE a.kind = "ops"
      BY <3>1, <3>3, DownFields DEF OpsFrame
    <3>4. CASE a.kind = "snapshot"
      BY <3>1, <3>2, <3>4 DEF DownFrame
    <3> QED BY <3>1, <3>3, <3>4
  <2> HIDE DEF g
  <2>4. Append(down[c], g) \in Seq(DownFrame)
    BY <1>2, <2>3, AppendFacts
  <2>5. SyncTypes'
    BY <1>1, <1>2, <1>3, <2>1, <2>4 DEF SyncTypes
  <2>6. ASSUME NEW d \in Client \ {c} PROVE EditsKept(d)'
    <3>1. down'[d] = down[d] /\ EditsKept(d)
      BY <1>2, <2>1 DEF SyncTypes, SyncInv, EditsInv
    <3> QED BY <1>1, <1>2, <1>3, <2>1, <3>1, Bystander
  <2>7. EditsKept(c)'
    <3>1. down'[c] = Append(down[c], g)
      BY <1>2, <2>1 DEF SyncTypes
    <3>2. AcksFair(down'[c], out, room.seen, minted[c])
      BY <1>2, <1>5, <2>3, <3>1, AcksAppended
    <3>3. Carried(Append(down[c], g), "rejected") = Carried(down[c], "rejected")
      BY <1>2, <2>3, CarriedMore
    <3>4. Answered(c)' = Answered(c)
      BY <2>1, <3>1, <3>3 DEF Answered
    <3>5. SendsInOrder(rest, out, Answered(c), minted[c])
      BY <1>8, <2>1
    <3> QED BY <1>1, <1>3, <1>4, <1>5, <1>7, <2>1, <3>2, <3>4, <3>5 DEF EditsKept
  <2> QED BY <2>5, <2>6, <2>7 DEF SyncInv, EditsInv
<1>10. CASE f.type = "ops" /\ CommitOps(c, f.ops, TRUE)
  <2> DEFINE ack == [type |-> "accepted", through |-> f.ops[Len(f.ops)][2]]
  <2>1. /\ ack \in DownFrame /\ down'[c] = Append(down[c], ack)
        /\ room'.seen = room.seen \union Range(f.ops)
    BY <1>2, <1>6, <1>10, BatchCommitted
  <2>2. SyncTypes'
    BY <1>1, <1>2, <1>3, <1>6, <1>10, BatchSent DEF SyncTypes
  <2>3. ASSUME NEW d \in Client \ {c} PROVE EditsKept(d)'
    BY <1>1, <1>3, <1>6, <1>10, BatchOthers
  <2>4. EditsKept(c)'
    <3>1. ack.type = "accepted" /\ ack.through = f.ops[Len(f.ops)][2]
      OBVIOUS
    <3> HIDE DEF ack
    <3>2. AcksFair(down[c], out, room'.seen, minted[c])
      BY <1>2, <1>5, <2>1, AcksKept
    <3>3. \A op \in out : op[2] <= ack.through => op \in room'.seen \union Carried(down[c], "rejected")
      BY <1>6, <1>10, <2>1, <3>1 DEF Answered
    <3>4. AcksFair(down'[c], out, room'.seen, minted[c])
      BY <1>2, <1>6, <1>10, <2>1, <3>1, <3>2, <3>3, AcksAppended
    <3>5. Carried(down'[c], "rejected") = Carried(down[c], "rejected")
      BY <1>2, <2>1, <3>1, CarriedMore
    <3>6. Answered(c)' = Answered(c) \union Range(f.ops)
      BY <2>1, <3>5 DEF Answered
    <3>7. SendsInOrder(rest, out, Answered(c) \union Range(f.ops), minted[c])
      BY <1>8
    <3> HIDE DEF out
    <3>8. c \in online => out \subseteq Answered(c)' \union Carried(rest, "ops")
      BY <1>5, <1>6, <1>10, <3>6
    <3>9. \A s \in 1 .. minted[c] : <<c, s>> \in room'.seen \union out \union rejected
      BY <1>5, <2>1
    <3> QED BY <1>1, <1>3, <1>4, <3>4, <3>6, <3>7, <3>8, <3>9 DEF EditsKept, out
  <2> QED BY <2>2, <2>3, <2>4 DEF SyncInv, EditsInv
<1>11. CASE f.type = "ops" /\ RefuseOps(c, f.ops, TRUE)
  <2> DEFINE no == [type |-> "rejected", ops |-> f.ops]
  <2>1. no \in DownFrame /\ no.type = "rejected" /\ no.ops = f.ops
    BY <1>6, <1>11 DEF DownFrame
  <2>2. down' = Queued(down, c, <<no>>) /\ UNCHANGED <<room, history, bound>>
    BY <1>11 DEF RefuseOps
  <2> HIDE DEF no
  <2>3. down[c] \o <<no>> = Append(down[c], no) /\ Append(down[c], no) \in Seq(DownFrame)
    BY <1>2, <2>1, AppendFacts
  <2>4. down' = [down EXCEPT ![c] = Append(down[c], no)]
    BY <1>2, <2>2, <2>3 DEF Queued, SyncTypes
  <2>5. SyncTypes'
    BY <1>1, <1>2, <1>3, <2>2, <2>3, <2>4 DEF SyncTypes
  <2>6. ASSUME NEW d \in Client \ {c} PROVE EditsKept(d)'
    <3>1. down'[d] = down[d] /\ EditsKept(d)
      BY <1>2, <2>4 DEF SyncTypes, SyncInv, EditsInv
    <3> QED BY <1>1, <1>2, <1>3, <2>2, <3>1, Bystander
  <2>7. EditsKept(c)'
    <3>1. down'[c] = Append(down[c], no)
      BY <1>2, <2>4 DEF SyncTypes
    <3>2. AcksFair(down'[c], out, room.seen, minted[c])
      BY <1>2, <1>5, <2>1, <3>1, AcksAppended
    <3>3. Carried(Append(down[c], no), "rejected") = Carried(down[c], "rejected") \union Range(no.ops)
      BY <1>2, <2>1, SentMore
    <3>4. Answered(c)' = Answered(c) \union Range(f.ops)
      BY <2>1, <2>2, <3>1, <3>3 DEF Answered
    <3>5. SendsInOrder(rest, out, Answered(c) \union Range(f.ops), minted[c])
      BY <1>8
    <3> HIDE DEF out
    <3>6. c \in online => out \subseteq Answered(c)' \union Carried(rest, "ops")
      BY <1>5, <1>6, <1>11, <3>4
    <3> QED BY <1>1, <1>3, <1>4, <1>5, <2>2, <3>2, <3>4, <3>5, <3>6 DEF EditsKept, out
  <2> QED BY <2>5, <2>6, <2>7 DEF SyncInv, EditsInv
<1> QED BY <1>1, <1>9, <1>10, <1>11 DEF HandleOps

(* The server reads a frame of a dropped connection.                       *)
LEMMA StaleKeeps ==
  ASSUME SyncInv, NEW c \in Client, ServerReceiveStale(c)
  PROVE  SyncInv'
<1> DEFINE f == Head(stale[c])
<1>1. /\ stale[c] # <<>>
      /\ stale' = [stale EXCEPT ![c] = Tail(@)]
      /\ \/ UNCHANGED <<room, history, bound, down>>
         \/ f.type = "ops" /\ CommitOps(c, f.ops, FALSE)
      /\ UNCHANGED <<doc, cursor, outbox, minted, rejected, online, up>>
  BY DEF ServerReceiveStale, HandleOps, RefuseOps, clientVars, serverVars
<1>2. SyncTypes /\ stale[c] \in Seq(UpFrame)
  BY ClientFacts DEF SyncInv
<1>3. f \in UpFrame /\ stale' \in [Client -> Seq(UpFrame)]
  <2>1. f \in UpFrame /\ Tail(stale[c]) \in Seq(UpFrame)
    BY <1>1, <1>2, ReadFacts
  <2> QED BY <1>1, <1>2, <2>1 DEF SyncTypes
<1>4. f.type = "ops" => f.ops \in Seq(Op) /\ f.ops # <<>>
  BY <1>3, UpFields
<1> HIDE DEF f
<1>5. CASE UNCHANGED <<room, history, bound, down>>
  <2>1. SyncTypes'
    BY <1>1, <1>2, <1>3, <1>5 DEF SyncTypes
  <2>2. EditsInv'
    BY <1>1, <1>5 DEF SyncInv, EditsInv, EditsKept, Own, Answered
  <2> QED BY <2>1, <2>2 DEF SyncInv
<1>6. CASE f.type = "ops" /\ CommitOps(c, f.ops, FALSE)
  <2>1. SyncTypes'
    BY <1>1, <1>2, <1>3, <1>4, <1>6, BatchSent DEF SyncTypes
  <2>2. ASSUME NEW d \in Client PROVE EditsKept(d)'
    BY <1>1, <1>4, <1>6, BatchOthers
  <2> QED BY <2>1, <2>2 DEF SyncInv, EditsInv
<1> QED BY <1>1, <1>5, <1>6

(* The room is compacted.                                                  *)
LEMMA CompactKeeps ==
  ASSUME SyncInv, CompactRoom
  PROVE  SyncInv'
<1>1. /\ room' = Compact(room)
      /\ UNCHANGED <<history, bound, doc, cursor, outbox, minted, rejected, online, up, down, stale>>
  BY DEF CompactRoom, clientVars, wireVars
<1>2. SoundRoom(room') /\ room'.seen = room.seen
  BY <1>1, CompactSound DEF SyncInv, SyncTypes
<1>3. SyncTypes'
  BY <1>1, <1>2 DEF SyncInv, SyncTypes
<1>4. EditsInv'
  BY <1>1, <1>2 DEF SyncInv, EditsInv, EditsKept, Own, Answered
<1> QED BY <1>3, <1>4 DEF SyncInv

(* Nothing has happened yet.                                               *)
LEMMA SyncInit == Init => SyncInv
<1> SUFFICES ASSUME Init PROVE SyncInv
  OBVIOUS
<1>1. SyncTypes
  BY EmptyRoomSound, ClientSyncAssumption DEF Init, SyncTypes
<1>2. ASSUME NEW c \in Client PROVE EditsKept(c)
  <2>1. outbox[c] = <<>> /\ minted[c] = 0 /\ up[c] = <<>> /\ down[c] = <<>> /\ online = {}
    BY DEF Init
  <2>2. Own(c, outbox[c])
    BY <2>1 DEF Own, Range
  <2>3. AcksFair(down[c], Range(outbox[c]), room.seen, minted[c])
    BY <2>1 DEF AcksFair
  <2>4. SendsInOrder(up[c], Range(outbox[c]), Answered(c), minted[c])
    BY <2>1 DEF SendsInOrder
  <2> QED BY <2>1, <2>2, <2>3, <2>4 DEF EditsKept
<1> QED BY <1>1, <1>2 DEF SyncInv, EditsInv

LEMMA SyncStep == SyncInv /\ [Next]_vars => SyncInv'
<1> SUFFICES ASSUME SyncInv, [Next]_vars PROVE SyncInv'
  OBVIOUS
<1>1. CASE UNCHANGED vars
  BY <1>1 DEF vars, SyncInv, SyncTypes, EditsInv, EditsKept, Own, Answered
<1> QED
  BY <1>1, EditKeeps, ConnectKeeps, DropKeeps, ReceiveKeeps, ServeKeeps, StaleKeeps, CompactKeeps DEF Next

LEMMA SyncInvariant == Spec => []SyncInv
  BY SyncInit, SyncStep, PTL DEF Spec

(* No edit is lost, for any clients, edits, drops and compactions: what    *)
(* the outbox forgets on a cumulative Accepted is in the room or was       *)
(* refused before that acknowledgement was written, because a connection   *)
(* replays the whole outbox before anything else (client.rs, resend and    *)
(* the arm for Accepted; session.rs, handle_ops).                          *)
THEOREM EditsSafe == Spec => []NoEditLost
<1>1. SyncInv => NoEditLost
  BY DEF SyncInv, EditsInv, EditsKept, NoEditLost
<1> QED BY <1>1, SyncInvariant, PTL
-----------------------------------------------------------------------------
(* A client that is sent nothing more.                                     *)
LEMMA SafeStart ==
  ASSUME NEW cur \in Nat, NEW d, d \subseteq Op, NEW hist, cur <= Len(hist),
         \A i \in 1 .. cur : hist[i] \in d, NEW mine, mine \subseteq d, NEW due, due \subseteq d
  PROVE  Safe(<<>>, cur, d, hist, mine, due)
<1> DEFINE at == [k \in 0 .. 0 |-> cur]
           has == [k \in 0 .. 0 |-> d]
<1>1. Len(<<>>) = 0 /\ at[0] = cur /\ has[0] = d /\ at \in [0 .. 0 -> Nat] /\ has \in [0 .. 0 -> SUBSET Op]
  OBVIOUS
<1> HIDE DEF at, has
<1>2. \A k \in 0 .. 0 : k = 0
  OBVIOUS
<1>3. \A k \in 1 .. 0 : FALSE
  OBVIOUS
<1>4. Trace(<<>>, cur, d, hist, mine, at, has)
  BY <1>1, <1>2, <1>3 DEF Trace
<1> QED BY <1>1, <1>4 DEF Safe

(* What holds now, before the next frame.                                  *)
LEMMA SafeNow ==
  ASSUME NEW q \in Seq(DownFrame), NEW cur, NEW d, NEW hist, NEW mine, NEW due,
         Safe(q, cur, d, hist, mine, due)
  PROVE  /\ cur \in Nat /\ cur <= Len(hist) /\ d \subseteq Op
         /\ \A i \in 1 .. cur : hist[i] \in d
         /\ mine \subseteq d
         /\ q = <<>> => due \subseteq d
<1>1. PICK at, has : Trace(q, cur, d, hist, mine, at, has) /\ due \subseteq has[Len(q)]
  BY DEF Safe
<1>2. Len(q) \in Nat /\ 0 \in 0 .. Len(q) /\ (q = <<>> => Len(q) = 0)
  OBVIOUS
<1> QED BY <1>1, <1>2 DEF Trace

(* The history grows, and less is asked.                                   *)
LEMMA TraceGrows ==
  ASSUME NEW q \in Seq(DownFrame), NEW cur, NEW d, NEW hist \in Seq(Op), NEW mine, NEW at, NEW has,
         Trace(q, cur, d, hist, mine, at, has), NEW s \in Seq(Op), NEW mine2, mine2 \subseteq mine
  PROVE  Trace(q, cur, d, hist \o s, mine2, at, has)
<1> DEFINE h == hist \o s
<1>1. Len(hist) \in Nat /\ Len(hist) <= Len(h) /\ Len(h) \in Nat /\ \A i \in 1 .. Len(hist) : h[i] = hist[i]
  OBVIOUS
<1> HIDE DEF h
<1>2. ASSUME NEW k \in 0 .. Len(q)
      PROVE  at[k] <= Len(h) /\ (\A i \in 1 .. at[k] : h[i] \in has[k]) /\ mine \subseteq has[k]
  <2>1. at[k] \in Nat /\ at[k] <= Len(hist) /\ (\A i \in 1 .. at[k] : hist[i] \in has[k]) /\ mine \subseteq has[k]
    BY DEF Trace
  <2>2. \A i \in 1 .. at[k] : i \in 1 .. Len(hist)
    BY <1>1, <2>1
  <2> QED BY <1>1, <2>1, <2>2
<1>3. Trace(q, cur, d, h, mine2, at, has)
  BY <1>2 DEF Trace
<1> QED BY <1>3 DEF h

LEMMA SafeGrows ==
  ASSUME NEW q \in Seq(DownFrame), NEW cur, NEW d, NEW hist \in Seq(Op), NEW mine, NEW due,
         Safe(q, cur, d, hist, mine, due), NEW s \in Seq(Op),
         NEW mine2, mine2 \subseteq mine, NEW due2, due2 \subseteq due
  PROVE  Safe(q, cur, d, hist \o s, mine2, due2)
<1>1. PICK at, has : Trace(q, cur, d, hist, mine, at, has) /\ due \subseteq has[Len(q)]
  BY DEF Safe
<1>2. Trace(q, cur, d, hist \o s, mine2, at, has)
  BY <1>1, TraceGrows
<1> QED BY <1>1, <1>2 DEF Safe

(* The history grows and a frame joins the queue.                          *)
LEMMA SafeAppended ==
  ASSUME NEW q \in Seq(DownFrame), NEW cur, NEW d, NEW hist \in Seq(Op), NEW mine, NEW due,
         Safe(q, cur, d, hist, mine, due), NEW f \in DownFrame, NEW s \in Seq(Op),
         NEW mine2, mine2 \subseteq mine, NEW due2,
         ReadsOn(q, cur, d, hist, mine, due, f, hist \o s, mine2, due2)
  PROVE  Safe(Append(q, f), cur, d, hist \o s, mine2, due2)
<1>1. PICK at, has : Trace(q, cur, d, hist, mine, at, has) /\ due \subseteq has[Len(q)]
  BY DEF Safe
<1> DEFINE n == Len(q)
           t == Append(q, f)
           a == CursorAfter(at[n], f)
           h == DocAfter(has[n], f)
           hist2 == hist \o s
           at2 == [k \in 0 .. n + 1 |-> IF k = n + 1 THEN a ELSE at[k]]
           has2 == [k \in 0 .. n + 1 |-> IF k = n + 1 THEN h ELSE has[k]]
<1>2. n \in Nat /\ n \in 0 .. n /\ (q = <<>> => n = 0)
  OBVIOUS
<1>3. /\ at[n] \in Nat /\ at[n] <= Len(hist) /\ has[n] \in SUBSET Op
      /\ \A i \in 1 .. at[n] : hist[i] \in has[n]
      /\ mine \subseteq has[n] /\ due \subseteq has[n]
      /\ q = <<>> => at[n] = cur /\ has[n] = d
  BY <1>1, <1>2 DEF Trace
<1>4. /\ a \in Nat /\ a <= Len(hist2) /\ h \in SUBSET Op
      /\ \A i \in 1 .. a : hist2[i] \in h
      /\ mine2 \subseteq h /\ due2 \subseteq h
  BY <1>3 DEF ReadsOn
<1>5. /\ Len(t) = n + 1 /\ t[n + 1] = f /\ \A k \in 1 .. n : t[k] = q[k]
  BY AppendFacts
<1>6. Trace(q, cur, d, hist2, mine2, at, has)
  BY <1>1, TraceGrows
<1> HIDE DEF a, h, t, n, hist2
<1>7. /\ at2[n + 1] = a /\ has2[n + 1] = h
      /\ \A k \in 0 .. n : at2[k] = at[k] /\ has2[k] = has[k]
  BY <1>2
<1>8. /\ at2 \in [0 .. n + 1 -> Nat] /\ has2 \in [0 .. n + 1 -> SUBSET Op]
  BY <1>1, <1>2, <1>4 DEF Trace, n
<1> HIDE DEF at2, has2
<1>9. ASSUME NEW k \in 1 .. n + 1
      PROVE  at2[k] = CursorAfter(at2[k - 1], t[k]) /\ has2[k] = DocAfter(has2[k - 1], t[k])
  <2>1. CASE k = n + 1
    <3>1. k - 1 = n
      BY <1>2, <2>1
    <3> QED BY <1>2, <1>5, <1>7, <2>1, <3>1 DEF a, h
  <2>2. CASE k # n + 1
    <3>1. k \in 1 .. n /\ k - 1 \in 0 .. n /\ k \in 0 .. n
      BY <1>2, <2>2
    <3>2. at[k] = CursorAfter(at[k - 1], q[k]) /\ has[k] = DocAfter(has[k - 1], q[k])
      BY <1>1, <3>1 DEF Trace, n
    <3> QED BY <1>5, <1>7, <3>1, <3>2
  <2> QED BY <2>1, <2>2
<1>10. ASSUME NEW k \in 0 .. n + 1
       PROVE  at2[k] <= Len(hist2) /\ (\A i \in 1 .. at2[k] : hist2[i] \in has2[k]) /\ mine2 \subseteq has2[k]
  <2>1. CASE k = n + 1
    BY <1>4, <1>7, <2>1
  <2>2. CASE k # n + 1
    <3>1. k \in 0 .. n
      BY <1>2, <2>2
    <3> QED BY <1>6, <1>7, <3>1 DEF Trace, n
  <2> QED BY <2>1, <2>2
<1>11. at2[0] = cur /\ has2[0] = d
  BY <1>1, <1>2, <1>7 DEF Trace
<1>12. Trace(t, cur, d, hist2, mine2, at2, has2) /\ due2 \subseteq has2[Len(t)]
  BY <1>4, <1>5, <1>7, <1>8, <1>9, <1>10, <1>11 DEF Trace
<1> QED BY <1>12 DEF Safe, t, hist2

(* The next frame is read.                                                 *)
LEMMA SafeRead ==
  ASSUME NEW q \in Seq(DownFrame), q # <<>>, NEW cur, NEW d, NEW hist, NEW mine, NEW due,
         Safe(q, cur, d, hist, mine, due)
  PROVE  Safe(Tail(q), CursorAfter(cur, Head(q)), DocAfter(d, Head(q)), hist, mine, due)
<1>1. PICK at, has : Trace(q, cur, d, hist, mine, at, has) /\ due \subseteq has[Len(q)]
  BY DEF Safe
<1> DEFINE n == Len(q)
           t == Tail(q)
           at2 == [k \in 0 .. n - 1 |-> at[k + 1]]
           has2 == [k \in 0 .. n - 1 |-> has[k + 1]]
<1>2. /\ n \in Nat \ {0} /\ Len(t) = n - 1 /\ Head(q) = q[1]
      /\ \A k \in 1 .. n - 1 : t[k] = q[k + 1]
  BY ReadFacts
<1> HIDE DEF n, t
<1>3. \A k \in 0 .. n - 1 : k + 1 \in 0 .. n /\ k + 1 \in 1 .. n
  BY <1>2
<1>4. at2 \in [0 .. n - 1 -> Nat] /\ has2 \in [0 .. n - 1 -> SUBSET Op]
  BY <1>1, <1>3 DEF Trace, n
<1>5. \A k \in 0 .. n - 1 : at2[k] = at[k + 1] /\ has2[k] = has[k + 1]
  OBVIOUS
<1> HIDE DEF at2, has2
<1>6. 0 \in 0 .. n - 1 /\ 0 + 1 = 1 /\ 1 \in 1 .. n /\ 1 - 1 = 0 /\ n - 1 \in 0 .. n - 1 /\ (n - 1) + 1 = n
  BY <1>2
<1>7. at2[0] = CursorAfter(cur, Head(q)) /\ has2[0] = DocAfter(d, Head(q))
  <2>1. at[1] = CursorAfter(at[1 - 1], q[1]) /\ has[1] = DocAfter(has[1 - 1], q[1]) /\ at[0] = cur /\ has[0] = d
    BY <1>1, <1>6 DEF Trace, n
  <2> QED BY <1>2, <1>5, <1>6, <2>1
<1>8. ASSUME NEW k \in 1 .. n - 1
      PROVE  at2[k] = CursorAfter(at2[k - 1], t[k]) /\ has2[k] = DocAfter(has2[k - 1], t[k])
  <2>1. k \in 0 .. n - 1 /\ k - 1 \in 0 .. n - 1 /\ (k - 1) + 1 = k /\ (k + 1) - 1 = k /\ k + 1 \in 1 .. n
    BY <1>2
  <2>2. at[k + 1] = CursorAfter(at[(k + 1) - 1], q[k + 1]) /\ has[k + 1] = DocAfter(has[(k + 1) - 1], q[k + 1])
    BY <1>1, <2>1 DEF Trace, n
  <2>3. at2[k - 1] = at[k] /\ has2[k - 1] = has[k]
    BY <1>5, <2>1
  <2> QED BY <1>2, <1>5, <2>1, <2>2, <2>3
<1>9. ASSUME NEW k \in 0 .. n - 1
      PROVE  at2[k] <= Len(hist) /\ (\A i \in 1 .. at2[k] : hist[i] \in has2[k]) /\ mine \subseteq has2[k]
  BY <1>1, <1>3, <1>5 DEF Trace, n
<1>10. due \subseteq has2[n - 1]
  BY <1>1, <1>5, <1>6 DEF n
<1>11. Trace(t, CursorAfter(cur, Head(q)), DocAfter(d, Head(q)), hist, mine, at2, has2)
  BY <1>2, <1>4, <1>7, <1>8, <1>9 DEF Trace
<1> QED BY <1>2, <1>10, <1>11 DEF Safe, t

(* A client with no snapshot on its way makes an edit.                     *)
LEMMA SafeEdited ==
  ASSUME NEW q \in Seq(DownFrame), NEW cur, NEW d, NEW hist, NEW mine, NEW due,
         Safe(q, cur, d, hist, mine, due), NEW op \in Op,
         \A i \in DOMAIN q : q[i].type # "snapshot",
         NEW mine2, mine2 \subseteq mine \union {op}
  PROVE  Safe(q, cur, d \union {op}, hist, mine2, due)
<1>1. PICK at, has : Trace(q, cur, d, hist, mine, at, has) /\ due \subseteq has[Len(q)]
  BY DEF Safe
<1> DEFINE has2 == [k \in 0 .. Len(q) |-> has[k] \union {op}]
<1>2. Len(q) \in Nat /\ DOMAIN q = 1 .. Len(q) /\ 0 \in 0 .. Len(q) /\ Len(q) \in 0 .. Len(q)
  OBVIOUS
<1>3. has2 \in [0 .. Len(q) -> SUBSET Op] /\ \A k \in 0 .. Len(q) : has2[k] = has[k] \union {op}
  BY <1>1 DEF Trace
<1> HIDE DEF has2
<1>4. ASSUME NEW k \in 1 .. Len(q) PROVE has2[k] = DocAfter(has2[k - 1], q[k])
  <2>1. k \in 0 .. Len(q) /\ k - 1 \in 0 .. Len(q) /\ k \in DOMAIN q
    BY <1>2
  <2>2. has[k] = DocAfter(has[k - 1], q[k])
    BY <1>1 DEF Trace
  <2> QED BY <1>3, <2>1, <2>2 DEF DocAfter
<1>5. Trace(q, cur, d \union {op}, hist, mine2, at, has2)
  BY <1>1, <1>2, <1>3, <1>4 DEF Trace
<1> QED BY <1>1, <1>2, <1>3, <1>5 DEF Safe
-----------------------------------------------------------------------------
(* A client to whom a step sends at most what it added to the history.     *)
LEMMA InStepBystander ==
  ASSUME SyncTypes, HistoryInv, NEW d \in Client, InStep(d), NEW s \in Seq(Op),
         history' = history \o s, room'.base = room.base,
         room.seen \subseteq room'.seen, Range(s) \subseteq room'.seen,
         cursor'[d] = cursor[d], doc'[d] = doc[d], outbox'[d] = outbox[d], minted'[d] = minted[d],
         up'[d] = up[d], d \in online' <=> d \in online, d \in bound' <=> d \in bound,
         d \in bound /\ s # <<>> => down'[d] = Append(down[d], OpsFrame(s)),
         d \notin bound \/ s = <<>> => down'[d] = down[d]
  PROVE  InStep(d)'
<1> DEFINE q == down[d]
           f == OpsFrame(s)
           mine == Carried(up[d], "ops")
<1>1. /\ q \in Seq(DownFrame) /\ history \in Seq(Op)
      /\ Opening(d) /\ SnapshotsAlone(d) /\ Traced(d) /\ Known(d)
  BY ClientFacts DEF HistoryInv, InStep
<1>2. f \in DownFrame /\ f.type = "ops" /\ f.ops = s
  BY DownFields DEF OpsFrame
<1> HIDE DEF f
<1>3. /\ DOMAIN Append(q, f) = 1 .. Len(q) + 1 /\ Len(q) \in Nat /\ DOMAIN q = 1 .. Len(q)
      /\ \A i \in 1 .. Len(q) : Append(q, f)[i] = q[i]
      /\ Append(q, f)[Len(q) + 1] = f
      /\ Range(Append(q, f)) = Range(q) \union {f}
  BY <1>1, <1>2, AppendFacts
<1>4. /\ Range(down'[d]) \subseteq Range(q) \union {f}
      /\ \A i \in DOMAIN down'[d] : down'[d][i].type = "snapshot" => i \in DOMAIN q /\ down'[d][i] = q[i]
  <2>1. CASE down'[d] = q
    BY <2>1
  <2>2. CASE down'[d] = Append(q, f)
    <3>1. ASSUME NEW i \in 1 .. Len(q) + 1, Append(q, f)[i].type = "snapshot"
          PROVE  i \in DOMAIN q /\ Append(q, f)[i] = q[i]
      <4>1. i # Len(q) + 1
        BY <1>2, <1>3, <3>1
      <4>2. i \in 1 .. Len(q)
        BY <1>3, <4>1
      <4> QED BY <1>3, <4>2
    <3> QED BY <1>3, <2>2, <3>1
  <2> QED BY <2>1, <2>2 DEF f
<1>5. Opening(d)'
  BY <1>1 DEF Opening
<1>6. SnapshotsAlone(d)'
  BY <1>1, <1>4 DEF SnapshotsAlone
<1>7. Known(d)'
  BY <1>1, <1>2, <1>4 DEF Known
<1>8. Traced(d)'
  <2>1. CASE d \in bound /\ s # <<>>
    <3>1. Safe(q, cursor[d], doc[d], history, mine, Range(history))
      BY <1>1, <2>1 DEF Traced, Due
    <3>2. /\ Len(history \o s) = Len(history) + Len(s) /\ Len(history) \in Nat /\ Len(s) \in Nat
          /\ DOMAIN (history \o s) = 1 .. Len(history) + Len(s)
          /\ Range(history \o s) = Range(history) \union Range(s) /\ Range(s) \subseteq Op
      <4>1. Range(s) \subseteq Op
        BY DEF Range
      <4> QED BY <1>1, <4>1, ConcatRange
    <3>3. ASSUME NEW a \in Nat, NEW h \in SUBSET Op, a <= Len(history), mine \subseteq h, Range(history) \subseteq h
          PROVE  /\ CursorAfter(a, f) \in Nat /\ CursorAfter(a, f) <= Len(history \o s)
                 /\ DocAfter(h, f) \in SUBSET Op
                 /\ \A i \in 1 .. CursorAfter(a, f) : (history \o s)[i] \in DocAfter(h, f)
                 /\ mine \subseteq DocAfter(h, f) /\ Range(history \o s) \subseteq DocAfter(h, f)
      <4>1. CursorAfter(a, f) = a + Len(s) /\ DocAfter(h, f) = h \union Range(s)
        BY <1>2 DEF CursorAfter, DocAfter
      <4>2. a + Len(s) \in Nat /\ a + Len(s) <= Len(history) + Len(s)
        BY <3>2, <3>3
      <4>3. ASSUME NEW i \in 1 .. a + Len(s) PROVE (history \o s)[i] \in Range(history \o s)
        <5>1. i \in DOMAIN (history \o s)
          BY <3>2, <4>2
        <5> QED BY <5>1 DEF Range
      <4> QED BY <3>2, <3>3, <4>1, <4>2, <4>3
    <3> DEFINE due == Range(history)
               due2 == Range(history \o s)
    <3>4. ReadsOn(q, cursor[d], doc[d], history, mine, due, f, history \o s, mine, due2)
      BY <3>3 DEF ReadsOn
    <3> HIDE DEF mine, q
    <3>5. Safe(Append(q, f), cursor[d], doc[d], history \o s, mine, due2)
      BY <1>1, <1>2, <3>1, <3>4, SafeAppended
    <3> QED BY <2>1, <3>5 DEF Traced, Due, f, mine, q
  <2>2. CASE d \in bound /\ s = <<>>
    <3>1. history \o s = history
      BY <1>1, <2>2
    <3> QED BY <1>1, <2>2, <3>1 DEF Traced, Due
  <2>3. CASE d \notin bound
    <3>1. Safe(q, cursor[d], doc[d], history, mine, {})
      BY <1>1, <2>3 DEF Traced, Due
    <3> HIDE DEF mine, q
    <3>2. Safe(q, cursor[d], doc[d], history \o s, mine, {})
      BY <1>1, <3>1, SafeGrows
    <3> QED BY <2>3, <3>2 DEF Traced, Due, mine, q
  <2> QED BY <2>1, <2>2, <2>3
<1> QED BY <1>5, <1>6, <1>7, <1>8 DEF InStep

(* The same when nothing at all is sent.                                   *)
LEMMA InStepIdle ==
  ASSUME NEW d \in Client, InStep(d), history' = history, room' = room,
         cursor'[d] = cursor[d], doc'[d] = doc[d], outbox'[d] = outbox[d], minted'[d] = minted[d],
         up'[d] = up[d], down'[d] = down[d], d \in online' <=> d \in online, d \in bound' <=> d \in bound
  PROVE  InStep(d)'
<1>1. Opening(d)'
  BY DEF InStep, Opening
<1>2. SnapshotsAlone(d)'
  BY DEF InStep, SnapshotsAlone
<1>3. Traced(d)'
  BY DEF InStep, Traced, Due
<1>4. Known(d)'
  BY DEF InStep, Known
<1> QED BY <1>1, <1>2, <1>3, <1>4 DEF InStep

(* An author folds its own edit at once, and is due it when it connects.   *)
LEMMA EditInStep ==
  ASSUME ~SnapshotOverOutbox, SyncInv, CursorInv, NEW c \in Client, Edit(c)
  PROVE  CursorInv'
<1> DEFINE op == <<c, minted[c] + 1>>
           frame == OpsFrame(<<op>>)
<1>1. /\ minted[c] < MaxEdits /\ cursor[c] >= room.base
      /\ minted' = [minted EXCEPT ![c] = @ + 1]
      /\ doc' = [doc EXCEPT ![c] = @ \union {op}]
      /\ outbox' = [outbox EXCEPT ![c] = Append(@, op)]
      /\ up' = [up EXCEPT ![c] = IF c \in online THEN Append(@, frame) ELSE @]
      /\ UNCHANGED <<room, history, bound, cursor, online, down>>
  BY DEF Edit, serverVars
<1>2. /\ SyncTypes /\ InStep(c) /\ HistoryInv /\ MaxEdits \in Nat
      /\ Opening(c) /\ SnapshotsAlone(c) /\ Traced(c) /\ Known(c)
  BY ClientSyncAssumption DEF SyncInv, CursorInv, InStep
<1>3. /\ minted[c] \in Nat /\ minted[c] + 1 \in 1 .. MaxEdits /\ cursor[c] \in Nat /\ doc[c] \subseteq Op
      /\ outbox[c] \in Seq(Op) /\ up[c] \in Seq(UpFrame) /\ down[c] \in Seq(DownFrame)
      /\ room.base \in Nat
  BY <1>1, <1>2, ClientFacts DEF SyncTypes, SoundRoom, Room
<1>4. op \in Op /\ op[1] = c /\ op[2] = minted[c] + 1
  BY <1>3, OpFields
<1>5. <<op>> \in Seq(Op) /\ <<op>> # <<>> /\ Range(<<op>>) = {op}
  <2> HIDE DEF op
  <2> QED BY <1>4 DEF Range
<1>6. frame \in UpFrame /\ frame.type = "ops" /\ frame.ops = <<op>>
  <2> HIDE DEF op
  <2> QED BY <1>5, UpFields DEF OpsFrame
<1> HIDE DEF op, frame
<1>7. Range(Append(outbox[c], op)) = Range(outbox[c]) \union {op} /\ outbox'[c] = Append(outbox[c], op)
  BY <1>1, <1>2, <1>3, <1>4, AppendFacts DEF SyncTypes
<1>8. ASSUME NEW d \in Client \ {c} PROVE InStep(d)'
  <2>1. /\ doc'[d] = doc[d] /\ outbox'[d] = outbox[d] /\ minted'[d] = minted[d] /\ up'[d] = up[d]
        /\ InStep(d)
    BY <1>1, <1>2 DEF SyncTypes, CursorInv
  <2> QED BY <1>1, <2>1, InStepIdle
<1>9. /\ up'[c] = IF c \in online THEN Append(up[c], frame) ELSE up[c]
      /\ doc'[c] = doc[c] \union {op} /\ minted'[c] = minted[c] + 1
  BY <1>1, <1>2 DEF SyncTypes
<1>10. c \in online => Carried(Append(up[c], frame), "ops") = Carried(up[c], "ops") \union {op}
  <2>1. Carried(Append(up[c], frame), "ops") = Carried(up[c], "ops") \union Range(frame.ops)
    BY <1>3, <1>6, SentMore
  <2> QED BY <1>5, <1>6, <2>1
<1>11. /\ DOMAIN Append(up[c], frame) = 1 .. Len(up[c]) + 1 /\ Len(up[c]) \in Nat
       /\ DOMAIN up[c] = 1 .. Len(up[c])
       /\ \A i \in 1 .. Len(up[c]) : Append(up[c], frame)[i] = up[c][i]
       /\ Append(up[c], frame)[Len(up[c]) + 1] = frame
  BY <1>3, <1>6, AppendFacts
<1>12. Opening(c)'
  <2>1. CASE c \notin online
    BY <1>1, <1>2, <1>7, <1>9, <2>1 DEF Opening
  <2>2. CASE c \in online
    <3>1. up'[c] = Append(up[c], frame)
      BY <1>9, <2>2
    <3>2. up'[c] # <<>>
      <4>1. Len(Append(up[c], frame)) = Len(up[c]) + 1
        BY <1>3, <1>6, AppendFacts
      <4>2. Len(up'[c]) # 0
        BY <1>11, <3>1, <4>1
      <4> QED BY <4>2
    <3>3. ASSUME c \notin bound
          PROVE  up'[c][1].type = "subscribe" /\ up'[c][1].seq = cursor[c]
      <4>1. up[c] # <<>> /\ up[c][1].type = "subscribe" /\ up[c][1].seq = cursor[c]
        BY <1>2, <2>2, <3>3 DEF Opening
      <4>2. 1 \in 1 .. Len(up[c])
        BY <1>3, <4>1
      <4> QED BY <1>11, <3>1, <4>1, <4>2
    <3>4. ASSUME NEW i \in DOMAIN up'[c], up'[c][i].type = "subscribe"
          PROVE  i = 1 /\ c \notin bound
      <4>1. i # Len(up[c]) + 1
        BY <1>6, <1>11, <3>1, <3>4
      <4>2. i \in DOMAIN up[c] /\ up[c][i].type = "subscribe"
        BY <1>11, <3>1, <3>4, <4>1
      <4> QED BY <1>2, <4>2 DEF Opening
    <3>5. c \notin bound => down'[c] = <<>> /\ Carried(up'[c], "ops") \subseteq Range(outbox'[c])
      BY <1>1, <1>2, <1>7, <1>10, <2>2, <3>1 DEF Opening
    <3> QED BY <1>1, <2>2, <3>2, <3>3, <3>4, <3>5 DEF Opening
  <2> QED BY <2>1, <2>2
<1>13. \A i \in DOMAIN down[c] : down[c][i].type # "snapshot"
  BY <1>1, <1>2, <1>3 DEF SnapshotsAlone
<1>14. SnapshotsAlone(c)'
  BY <1>1, <1>2, <1>7, <1>9, <1>13 DEF SnapshotsAlone
<1>15. Known(c)'
  <2>1. \A o \in doc[c] : o \in room.seen \/ (o[1] = c /\ o[2] <= minted[c] + 1)
    BY <1>2, <1>3, OpFields DEF Known
  <2> QED BY <1>1, <1>2, <1>3, <1>4, <1>9, <2>1 DEF Known
<1>16. Traced(c)'
  <2> DEFINE mine == Carried(up[c], "ops")
             mine2 == Carried(up'[c], "ops")
  <2>1. mine2 \subseteq mine \union {op}
    BY <1>9, <1>10
  <2>2. Safe(down[c], cursor[c], doc[c], history, mine, Due(c))
    BY <1>2 DEF Traced
  <2> HIDE DEF mine, mine2
  <2>3. Safe(down[c], cursor[c], doc[c] \union {op}, history, mine2, Due(c))
    BY <1>3, <1>4, <1>13, <2>1, <2>2, SafeEdited
  <2>4. Due(c)' = Due(c)
    BY <1>1 DEF Due
  <2> QED BY <1>1, <1>9, <2>3, <2>4 DEF Traced, mine2
<1>17. HistoryInv'
  BY <1>1, <1>2 DEF HistoryInv
<1>18. InStep(c)'
  BY <1>12, <1>14, <1>15, <1>16 DEF InStep
<1> QED BY <1>8, <1>17, <1>18 DEF CursorInv

(* A connection opens with the cursor and the outbox.                      *)
LEMMA ConnectInStep ==
  ASSUME SyncInv, CursorInv, NEW c \in Client, Connect(c)
  PROVE  CursorInv'
<1> DEFINE sub == Subscribe(c)
           frame == OpsFrame(outbox[c])
<1>1. /\ c \notin online /\ online' = online \union {c}
      /\ up' = [up EXCEPT ![c] = IF outbox[c] = <<>> THEN <<sub>> ELSE <<sub, frame>>]
      /\ UNCHANGED <<room, history, bound, doc, cursor, outbox, minted, down>>
  BY DEF Connect, serverVars, clientVars
<1>2. /\ SyncTypes /\ HistoryInv /\ Opening(c) /\ SnapshotsAlone(c) /\ Traced(c) /\ Known(c)
  BY DEF SyncInv, CursorInv, InStep
<1>3. /\ outbox[c] \in Seq(Op) /\ cursor[c] \in Nat /\ doc[c] \subseteq Op
      /\ c \notin bound /\ down[c] = <<>> /\ down[c] \in Seq(DownFrame)
  BY <1>1, <1>2, ClientFacts DEF Opening
<1>4. sub \in UpFrame /\ sub.type = "subscribe" /\ sub.seq = cursor[c]
  BY <1>3 DEF Subscribe, UpFrame
<1>5. frame.type = "ops" /\ frame.ops = outbox[c]
  BY DEF OpsFrame
<1> HIDE DEF sub, frame
<1>6. up'[c] = IF outbox[c] = <<>> THEN <<sub>> ELSE <<sub, frame>>
  BY <1>1, <1>2 DEF SyncTypes
<1>7. /\ up'[c] # <<>> /\ up'[c][1] = sub
      /\ \A i \in DOMAIN up'[c] : i = 1 \/ up'[c][i] = frame
      /\ Range(up'[c]) \subseteq {sub, frame}
  <2>1. CASE outbox[c] = <<>>
    BY <1>6, <2>1 DEF Range
  <2>2. CASE outbox[c] # <<>>
    BY <1>6, <2>2 DEF Range
  <2> QED BY <2>1, <2>2
<1>8. Carried(up'[c], "ops") \subseteq Range(outbox[c])
  BY <1>4, <1>5, <1>7 DEF Carried
<1>9. Opening(c)'
  BY <1>1, <1>3, <1>4, <1>5, <1>7, <1>8 DEF Opening
<1>10. SnapshotsAlone(c)' /\ Known(c)'
  BY <1>1, <1>2, <1>3 DEF SnapshotsAlone, Known
<1>11. Traced(c)'
  <2>1. Safe(down[c], cursor[c], doc[c], history, Carried(up[c], "ops"), Due(c))
    BY <1>2 DEF Traced
  <2>2. cursor[c] <= Len(history) /\ \A i \in 1 .. cursor[c] : history[i] \in doc[c]
    <3>1. down[c] \in Seq(DownFrame)
      BY <1>3
    <3> QED BY <2>1, <3>1, SafeNow
  <2>3. Carried(up'[c], "ops") \subseteq doc[c]
    BY <1>2, <1>8 DEF SnapshotsAlone
  <2>4. Safe(<<>>, cursor[c], doc[c], history, Carried(up'[c], "ops"), {})
    BY <1>3, <2>2, <2>3, SafeStart
  <2> QED BY <1>1, <1>3, <2>4 DEF Traced, Due
<1>12. ASSUME NEW d \in Client \ {c} PROVE InStep(d)'
  <2>1. up'[d] = up[d] /\ InStep(d) /\ (d \in online' <=> d \in online)
    BY <1>1, <1>2 DEF SyncTypes, CursorInv
  <2> QED BY <1>1, <2>1, InStepIdle
<1>13. HistoryInv'
  BY <1>1, <1>2 DEF HistoryInv
<1>14. InStep(c)'
  BY <1>9, <1>10, <1>11 DEF InStep
<1> QED BY <1>12, <1>13, <1>14 DEF CursorInv

LEMMA DropInStep ==
  ASSUME SyncInv, CursorInv, NEW c \in Client, Drop(c)
  PROVE  CursorInv'
<1>1. /\ online' = online \ {c} /\ bound' = bound \ {c}
      /\ down' = [down EXCEPT ![c] = <<>>]
      /\ up' = [up EXCEPT ![c] = <<>>]
      /\ UNCHANGED <<room, history, doc, cursor, outbox, minted>>
  BY DEF Drop, clientVars
<1>2. /\ SyncTypes /\ HistoryInv /\ SnapshotsAlone(c) /\ Traced(c) /\ Known(c)
      /\ cursor[c] \in Nat /\ doc[c] \subseteq Op /\ down[c] \in Seq(DownFrame)
  BY ClientFacts DEF SyncInv, CursorInv, InStep
<1>3. up'[c] = <<>> /\ down'[c] = <<>> /\ c \notin bound' /\ c \notin online'
  BY <1>1, <1>2 DEF SyncTypes
<1>4. Carried(<<>>, "ops") = {} /\ Range(<<>>) = {}
  BY CarriedBy DEF Range
<1>5. Opening(c)'
  BY <1>3, <1>4 DEF Opening
<1>6. SnapshotsAlone(c)'
  BY <1>1, <1>2, <1>3 DEF SnapshotsAlone
<1>7. Known(c)'
  BY <1>1, <1>2, <1>3, <1>4 DEF Known
<1>8. Traced(c)'
  <2>1. Safe(down[c], cursor[c], doc[c], history, Carried(up[c], "ops"), Due(c))
    BY <1>2 DEF Traced
  <2>2. cursor[c] <= Len(history) /\ \A i \in 1 .. cursor[c] : history[i] \in doc[c]
    BY <1>2, <2>1, SafeNow
  <2>3. Safe(<<>>, cursor[c], doc[c], history, {}, {})
    BY <1>2, <2>2, SafeStart
  <2> QED BY <1>1, <1>3, <1>4, <2>3 DEF Traced, Due
<1>9. ASSUME NEW d \in Client \ {c} PROVE InStep(d)'
  <2>1. up'[d] = up[d] /\ down'[d] = down[d] /\ InStep(d)
        /\ (d \in online' <=> d \in online) /\ (d \in bound' <=> d \in bound)
    BY <1>1, <1>2 DEF SyncTypes, CursorInv
  <2> QED BY <1>1, <2>1, InStepIdle
<1>10. HistoryInv'
  BY <1>1, <1>2 DEF HistoryInv
<1>11. InStep(c)'
  BY <1>5, <1>6, <1>7, <1>8 DEF InStep
<1> QED BY <1>9, <1>10, <1>11 DEF CursorInv

(* A client reads what it was sent.                                        *)
LEMMA ReceiveReads ==
  ASSUME SyncTypes, NEW c \in Client, ClientReceive(c)
  PROVE  /\ Head(down[c]) \in DownFrame
         /\ cursor' = [cursor EXCEPT ![c] = CursorAfter(cursor[c], Head(down[c]))]
         /\ doc' = [doc EXCEPT ![c] = DocAfter(doc[c], Head(down[c]))]
         /\ \A d \in Client : d # c => outbox'[d] = outbox[d]
         /\ Range(outbox'[c]) \subseteq Range(outbox[c])
         /\ outbox'[c] \in Seq(Op)
<1> DEFINE f == Head(down[c])
<1>1. /\ down[c] # <<>>
      /\ ReceiveOps(c, f) \/ ReceiveSnapshot(c, f) \/ ReceiveAccepted(c, f) \/ ReceiveRejected(c, f)
  BY DEF ClientReceive
<1>2. /\ outbox[c] \in Seq(Op) /\ down[c] \in Seq(DownFrame)
      /\ cursor = [cursor EXCEPT ![c] = cursor[c]] /\ doc = [doc EXCEPT ![c] = doc[c]]
  BY DEF SyncTypes
<1>3. f \in DownFrame
  BY <1>1, <1>2, ReadFacts
<1> HIDE DEF f
<1>4. CASE ReceiveOps(c, f)
  <2>1. f.type = "ops" /\ outbox' = outbox
        /\ doc' = [doc EXCEPT ![c] = @ \union Range(f.ops)] /\ cursor' = [cursor EXCEPT ![c] = @ + Len(f.ops)]
    BY <1>4 DEF ReceiveOps
  <2>2. CursorAfter(cursor[c], f) = cursor[c] + Len(f.ops) /\ DocAfter(doc[c], f) = doc[c] \union Range(f.ops)
    BY <2>1 DEF CursorAfter, DocAfter
  <2> QED BY <1>2, <1>3, <2>1, <2>2 DEF f
<1>5. CASE ReceiveSnapshot(c, f)
  <2>1. f.type = "snapshot" /\ outbox' = outbox
        /\ doc' = [doc EXCEPT ![c] = f.state] /\ cursor' = [cursor EXCEPT ![c] = f.seq]
    BY <1>5 DEF ReceiveSnapshot
  <2>2. CursorAfter(cursor[c], f) = f.seq /\ DocAfter(doc[c], f) = f.state
    BY <2>1 DEF CursorAfter, DocAfter
  <2> QED BY <1>2, <1>3, <2>1, <2>2 DEF f
<1>6. ASSUME f.type \in {"accepted", "rejected"}, UNCHANGED <<doc, cursor>>,
             NEW at, at \subseteq DOMAIN outbox[c], outbox' = [outbox EXCEPT ![c] = Picked(outbox[c], at)]
      PROVE  /\ cursor' = [cursor EXCEPT ![c] = CursorAfter(cursor[c], f)]
             /\ doc' = [doc EXCEPT ![c] = DocAfter(doc[c], f)]
             /\ \A d \in Client : d # c => outbox'[d] = outbox[d]
             /\ Range(outbox'[c]) \subseteq Range(outbox[c])
             /\ outbox'[c] \in Seq(Op)
  <2>1. CursorAfter(cursor[c], f) = cursor[c] /\ DocAfter(doc[c], f) = doc[c]
    BY <1>6 DEF CursorAfter, DocAfter
  <2>2. Picked(outbox[c], at) \in Seq(Op) /\ Range(Picked(outbox[c], at)) = {outbox[c][i] : i \in at}
    BY <1>2, <1>6, PickedElements
  <2>3. Range(Picked(outbox[c], at)) \subseteq Range(outbox[c])
    BY <1>6, <2>2 DEF Range
  <2> QED BY <1>2, <1>6, <2>1, <2>2, <2>3 DEF SyncTypes
<1>7. CASE ReceiveAccepted(c, f)
  <2> DEFINE at == {i \in DOMAIN outbox[c] : outbox[c][i][2] > f.through}
  <2>1. f.type \in {"accepted", "rejected"} /\ UNCHANGED <<doc, cursor>>
        /\ outbox' = [outbox EXCEPT ![c] = Picked(outbox[c], at)] /\ at \subseteq DOMAIN outbox[c]
    BY <1>7 DEF ReceiveAccepted, SyncTypes
  <2> HIDE DEF at
  <2> QED BY <1>3, <1>6, <2>1 DEF f
<1>8. CASE ReceiveRejected(c, f)
  <2> DEFINE at == {i \in DOMAIN outbox[c] : outbox[c][i] \notin Range(f.ops)}
  <2>1. f.type \in {"accepted", "rejected"} /\ UNCHANGED <<doc, cursor>>
        /\ outbox' = [outbox EXCEPT ![c] = Picked(outbox[c], at)] /\ at \subseteq DOMAIN outbox[c]
    BY <1>8 DEF ReceiveRejected, SyncTypes
  <2> HIDE DEF at
  <2> QED BY <1>3, <1>6, <2>1 DEF f
<1> QED BY <1>1, <1>4, <1>5, <1>7, <1>8

LEMMA ReceiveInStep ==
  ASSUME SyncInv, CursorInv, NEW c \in Client, ClientReceive(c)
  PROVE  CursorInv'
<1> DEFINE f == Head(down[c])
           q == down[c]
<1>1. /\ q # <<>> /\ down' = [down EXCEPT ![c] = Tail(@)] /\ minted' = minted
      /\ UNCHANGED <<room, history, bound, online, up>>
  BY DEF ClientReceive, serverVars, ReceiveOps, ReceiveSnapshot, ReceiveAccepted, ReceiveRejected
<1>2. /\ SyncTypes /\ HistoryInv /\ Opening(c) /\ SnapshotsAlone(c) /\ Traced(c) /\ Known(c)
      /\ q \in Seq(DownFrame) /\ cursor[c] \in Nat /\ doc[c] \subseteq Op /\ outbox[c] \in Seq(Op)
      /\ room.base \in Nat
  BY ClientFacts DEF SyncInv, CursorInv, InStep, SyncTypes, SoundRoom, Room
<1>3. /\ f \in DownFrame
      /\ cursor' = [cursor EXCEPT ![c] = CursorAfter(cursor[c], f)]
      /\ doc' = [doc EXCEPT ![c] = DocAfter(doc[c], f)]
      /\ \A d \in Client : d # c => outbox'[d] = outbox[d]
      /\ Range(outbox'[c]) \subseteq Range(outbox[c])
      /\ outbox'[c] \in Seq(Op)
  BY <1>2, ReceiveReads
<1>4. /\ f = q[1] /\ 1 \in DOMAIN q /\ f \in Range(q)
      /\ \A i \in DOMAIN Tail(q) : i + 1 \in DOMAIN q /\ i \in Nat /\ i # 0 /\ Tail(q)[i] = q[i + 1]
      /\ Range(Tail(q)) \subseteq Range(q)
  <2>1. /\ f = q[1] /\ f \in Range(q) /\ Len(q) \in Nat \ {0}
        /\ \A i \in DOMAIN Tail(q) : i + 1 \in DOMAIN q /\ i \in Nat /\ Tail(q)[i] = q[i + 1]
        /\ Range(Tail(q)) \subseteq Range(q)
    BY <1>1, <1>2, ReadFacts
  <2>2. DOMAIN Tail(q) \subseteq Nat \ {0}
    BY <1>1, <1>2
  <2> QED BY <1>2, <2>1, <2>2
<1>5. /\ cursor'[c] = CursorAfter(cursor[c], f) /\ doc'[c] = DocAfter(doc[c], f) /\ down'[c] = Tail(q)
      /\ \A d \in Client : d # c => cursor'[d] = cursor[d] /\ doc'[d] = doc[d] /\ down'[d] = down[d]
  BY <1>1, <1>2, <1>3 DEF SyncTypes
<1> HIDE DEF f
<1>6. ASSUME NEW d \in Client \ {c} PROVE InStep(d)'
  <2>1. InStep(d) /\ outbox'[d] = outbox[d] /\ cursor'[d] = cursor[d] /\ doc'[d] = doc[d] /\ down'[d] = down[d]
    BY <1>3, <1>5 DEF CursorInv
  <2> QED BY <1>1, <2>1, InStepIdle
<1>7. c \in bound
  BY <1>1, <1>2 DEF Opening
<1>8. Opening(c)'
  BY <1>1, <1>2, <1>7 DEF Opening
<1>9. outbox[c] = <<>> => outbox'[c] = <<>> /\ Range(outbox'[c]) = {}
  <2>1. ASSUME outbox[c] = <<>> PROVE outbox'[c] = <<>> /\ Range(outbox'[c]) = {}
    <3>1. Range(outbox[c]) = {}
      BY <2>1 DEF Range
    <3>2. Range(outbox'[c]) = {}
      BY <1>3, <3>1
    <3>3. DOMAIN outbox'[c] = {}
      BY <3>2 DEF Range
    <3>4. \A s \in Seq(Op) : DOMAIN s = {} => s = <<>>
      OBVIOUS
    <3> QED BY <1>3, <3>2, <3>3, <3>4
  <2> QED BY <2>1
<1>10. SnapshotsAlone(c)'
  <2>1. \A i \in DOMAIN Tail(q) : Tail(q)[i].type # "snapshot"
    BY <1>2, <1>4 DEF SnapshotsAlone
  <2>2. CASE f.type = "snapshot"
    <3>1. cursor[c] < room.base
      BY <1>2, <1>4, <2>2 DEF SnapshotsAlone
    <3>2. outbox[c] = <<>>
      BY <1>2, <3>1 DEF SnapshotsAlone
    <3> QED BY <1>1, <1>5, <1>9, <2>1, <3>2 DEF SnapshotsAlone
  <2>3. CASE f.type # "snapshot"
    <3>1. cursor'[c] >= cursor[c] /\ doc[c] \subseteq doc'[c] /\ cursor'[c] \in Nat
      <4>1. CASE f.type = "ops"
        <5>1. Len(f.ops) \in Nat
          BY <1>3, <4>1, DownFields
        <5>2. CursorAfter(cursor[c], f) = cursor[c] + Len(f.ops) /\ DocAfter(doc[c], f) = doc[c] \union Range(f.ops)
          BY <4>1 DEF CursorAfter, DocAfter
        <5> QED BY <1>2, <1>5, <5>1, <5>2
      <4>2. CASE f.type # "ops"
        BY <1>2, <1>5, <2>3, <4>2 DEF CursorAfter, DocAfter
      <4> QED BY <4>1, <4>2
    <3>2. outbox'[c] # <<>> => cursor'[c] >= room.base
      BY <1>2, <1>9, <3>1 DEF SnapshotsAlone
    <3>3. Range(outbox'[c]) \subseteq doc'[c]
      BY <1>2, <1>3, <3>1 DEF SnapshotsAlone
    <3> QED BY <1>1, <1>5, <2>1, <3>2, <3>3 DEF SnapshotsAlone
  <2> QED BY <2>2, <2>3
<1>11. Known(c)'
  <2>1. /\ f.type = "ops" => Range(f.ops) \subseteq room.seen
        /\ f.type = "snapshot" => f.state \subseteq room.seen
    BY <1>2, <1>4 DEF Known
  <2>2. \A op \in DocAfter(doc[c], f) : op \in doc[c] \/ op \in room.seen
    BY <2>1 DEF DocAfter
  <2>3. \A op \in doc'[c] : op \in room.seen \/ (op[1] = c /\ op[2] <= minted[c])
    BY <1>2, <1>5, <2>2 DEF Known
  <2>4. \A g \in Range(down'[c]) : g \in Range(q)
    BY <1>4, <1>5
  <2> QED BY <1>1, <1>2, <2>3, <2>4 DEF Known
<1>12. Traced(c)'
  <2>1. Safe(q, cursor[c], doc[c], history, Carried(up[c], "ops"), Due(c))
    BY <1>2 DEF Traced
  <2>2. Safe(Tail(q), CursorAfter(cursor[c], Head(q)), DocAfter(doc[c], Head(q)), history, Carried(up[c], "ops"), Due(c))
    BY <1>1, <1>2, <2>1, SafeRead
  <2> QED BY <1>1, <1>5, <2>2 DEF Traced, Due, f
<1>13. HistoryInv'
  BY <1>1, <1>2 DEF HistoryInv
<1>14. InStep(c)'
  BY <1>8, <1>10, <1>11, <1>12 DEF InStep
<1> QED BY <1>6, <1>13, <1>14 DEF CursorInv

(* Compacting moves the floor and touches no replica: no edit is under way *)
(* then.                                                                   *)
LEMMA CompactInStep ==
  ASSUME ~SnapshotOverOutbox, SyncInv, CursorInv, CompactRoom
  PROVE  CursorInv'
<1>1. /\ room' = Compact(room) /\ \A c \in Client : outbox[c] = <<>>
      /\ UNCHANGED <<history, bound, doc, cursor, outbox, minted, online, up, down>>
  BY DEF CompactRoom, clientVars, wireVars
<1>2. SyncTypes /\ HistoryInv /\ SoundRoom(room) /\ room.base \in Nat /\ room.log \in Seq(Op)
  BY DEF SyncInv, CursorInv, SyncTypes, SoundRoom, Room
<1>3. RoomHead(room') = RoomHead(room)
  BY <1>1, <1>2, CompactSound
<1>4. room'.base = RoomHead(room) /\ room'.log = <<>> /\ room'.seen = room.seen
  BY <1>1 DEF Compact
<1>5. room.base <= room'.base /\ room'.base \in Nat
  BY <1>2, <1>4 DEF RoomHead
<1>6. HistoryInv'
  BY <1>1, <1>2, <1>3, <1>4 DEF HistoryInv
<1>7. ASSUME NEW c \in Client PROVE InStep(c)'
  <2>1. Opening(c) /\ SnapshotsAlone(c) /\ Traced(c) /\ Known(c) /\ cursor[c] \in Nat
    BY <1>2, ClientFacts DEF CursorInv, InStep
  <2>2. Opening(c)'
    BY <1>1, <2>1 DEF Opening
  <2>3. SnapshotsAlone(c)'
    BY <1>1, <1>2, <1>5, <2>1 DEF SnapshotsAlone
  <2>4. Traced(c)'
    BY <1>1, <2>1 DEF Traced, Due
  <2>5. Known(c)'
    BY <1>1, <1>4, <2>1 DEF Known
  <2> QED BY <2>2, <2>3, <2>4, <2>5 DEF InStep
<1> QED BY <1>6, <1>7 DEF CursorInv

(* A commit appends the same ops to the log and to the history.            *)
LEMMA HistoryGrows ==
  ASSUME SyncTypes, HistoryInv, NEW s \in Seq(Op), history' = history \o s,
         room' = [base |-> room.base, log |-> room.log \o s, seen |-> room.seen \union Range(s)]
  PROVE  HistoryInv'
<1> DEFINE log == room.log
           base == room.base
<1>1. /\ base \in Nat /\ log \in Seq(Op) /\ history \in Seq(Op)
      /\ Len(history) = base + Len(log) /\ Range(history) = room.seen
      /\ \A i \in 1 .. Len(log) : log[i] = history[base + i]
  BY DEF SyncTypes, SoundRoom, Room, HistoryInv, RoomHead
<1>2. room'.base = base /\ room'.log = log \o s /\ room'.seen = room.seen \union Range(s)
  OBVIOUS
<1> HIDE DEF log, base
<1>3. /\ history \o s \in Seq(Op) /\ Len(history \o s) = Len(history) + Len(s)
      /\ Range(history \o s) = Range(history) \union Range(s)
      /\ Len(log \o s) = Len(log) + Len(s) /\ Len(log) \in Nat /\ Len(s) \in Nat
  <2>1. ASSUME NEW h \in Seq(Op)
        PROVE  h \o s \in Seq(Op) /\ Len(h \o s) = Len(h) + Len(s) /\ Range(h \o s) = Range(h) \union Range(s)
    BY ConcatRange
  <2>2. Len(log \o s) = Len(log) + Len(s) /\ Len(log) \in Nat /\ Len(s) \in Nat
    BY <1>1
  <2> QED BY <1>1, <2>1, <2>2
<1>4. ASSUME NEW i \in 1 .. Len(log) + Len(s) PROVE (log \o s)[i] = (history \o s)[base + i]
  <2>1. CASE i <= Len(log)
    <3>1. i \in 1 .. Len(log) /\ base + i \in 1 .. Len(history)
      BY <1>1, <1>3, <2>1
    <3> QED BY <1>1, <3>1
  <2>2. CASE i > Len(log)
    <3>1. i - Len(log) \in 1 .. Len(s) /\ base + i - Len(history) = i - Len(log)
      BY <1>1, <1>3, <2>2
    <3>2. (log \o s)[i] = s[i - Len(log)]
      BY <1>1, <1>3, <2>2
    <3>3. (history \o s)[base + i] = s[base + i - Len(history)]
      BY <1>1, <1>3, <2>2
    <3> QED BY <3>1, <3>2, <3>3
  <2>3. i \in Nat /\ Len(log) \in Nat
    BY <1>3
  <2>4. i <= Len(log) \/ i > Len(log)
    BY <2>3
  <2> QED BY <2>1, <2>2, <2>4
<1>5. RoomHead(room') = base + Len(log \o s)
  BY <1>2 DEF RoomHead
<1>6. Len(history \o s) = base + Len(log \o s)
  BY <1>1, <1>3
<1>7. \A i \in 1 .. Len(room'.log) : room'.log[i] = history'[room'.base + i]
  BY <1>2, <1>3, <1>4
<1>8. history' \in Seq(Op) /\ Len(history') = RoomHead(room') /\ Range(history') = room'.seen
  BY <1>1, <1>2, <1>3, <1>5, <1>6
<1> QED BY <1>7, <1>8 DEF HistoryInv

(* A batch reaches every client but a live author in step.                 *)
LEMMA BatchInStep ==
  ASSUME SyncInv, CursorInv, NEW c \in Client, NEW ops \in Seq(Op), ops # <<>>,
         NEW live \in BOOLEAN, CommitOps(c, ops, live),
         NEW d \in Client, ~(live /\ d = c), up'[d] = up[d],
         UNCHANGED <<doc, cursor, outbox, minted, online>>
  PROVE  InStep(d)'
<1> DEFINE fresh == Fresh(room, ops)
<1>1. SyncTypes /\ HistoryInv /\ InStep(d)
  BY DEF SyncInv, CursorInv
<1>2. /\ fresh \in Seq(Op) /\ history' = history \o fresh
      /\ room' = [base |-> room.base, log |-> room.log \o fresh, seen |-> room.seen \union Range(fresh)]
  <2>1. fresh \in Seq(Op)
    BY FreshOps
  <2>2. room' = Commit(room, fresh) /\ history' = history \o fresh
    BY DEF CommitOps
  <2> HIDE DEF fresh
  <2>3. Commit(room, fresh) = [base |-> room.base, log |-> room.log \o fresh, seen |-> room.seen \union Range(fresh)]
    BY ClientSyncAssumption DEF Commit
  <2> QED BY <2>1, <2>2, <2>3
<1>3. /\ bound' = bound
      /\ \A e \in Client : ~(live /\ e = c) =>
            /\ e \in bound /\ fresh # <<>> => down'[e] = Append(down[e], OpsFrame(fresh))
            /\ e \notin bound \/ fresh = <<>> => down'[e] = down[e]
  BY <1>1, BatchCommitted
<1> HIDE DEF fresh
<1>4. room'.base = room.base /\ room.seen \subseteq room'.seen /\ Range(fresh) \subseteq room'.seen
  BY <1>2
<1>5. /\ d \in bound /\ fresh # <<>> => down'[d] = Append(down[d], OpsFrame(fresh))
      /\ d \notin bound \/ fresh = <<>> => down'[d] = down[d]
  BY <1>3
<1> QED BY <1>1, <1>2, <1>3, <1>4, <1>5, InStepBystander

(* A frame of a dropped connection makes no difference to the readers.     *)
LEMMA StaleInStep ==
  ASSUME SyncInv, CursorInv, NEW c \in Client, ServerReceiveStale(c)
  PROVE  CursorInv'
<1> DEFINE f == Head(stale[c])
<1>1. /\ stale[c] # <<>>
      /\ \/ UNCHANGED <<room, history, bound, down>>
         \/ f.type = "ops" /\ CommitOps(c, f.ops, FALSE)
      /\ UNCHANGED <<doc, cursor, outbox, minted, online, up>>
  BY DEF ServerReceiveStale, HandleOps, RefuseOps, clientVars, serverVars
<1>2. SyncTypes /\ HistoryInv /\ stale[c] \in Seq(UpFrame)
  BY ClientFacts DEF SyncInv, CursorInv
<1>3. f.type = "ops" => f.ops \in Seq(Op) /\ f.ops # <<>>
  <2>1. f \in UpFrame
    BY <1>1, <1>2, ReadFacts
  <2> HIDE DEF f
  <2> QED BY <2>1, UpFields
<1> HIDE DEF f
<1>4. CASE UNCHANGED <<room, history, bound, down>>
  BY <1>1, <1>2, <1>4, InStepIdle DEF HistoryInv, CursorInv
<1>5. CASE f.type = "ops" /\ CommitOps(c, f.ops, FALSE)
  <2>1. HistoryInv'
    <3> DEFINE fresh == Fresh(room, f.ops)
    <3>1. /\ fresh \in Seq(Op) /\ history' = history \o fresh
          /\ room' = [base |-> room.base, log |-> room.log \o fresh, seen |-> room.seen \union Range(fresh)]
      BY <1>2, <1>3, <1>5, BatchCommitted
    <3> HIDE DEF fresh
    <3> QED BY <1>2, <3>1, HistoryGrows
  <2>2. ASSUME NEW d \in Client PROVE InStep(d)'
    BY <1>1, <1>3, <1>5, BatchInStep
  <2> QED BY <2>1, <2>2 DEF CursorInv
<1> QED BY <1>1, <1>4, <1>5

(* What a subscription is answered with brings the client to the head: the *)
(* tail of the log past its cursor, or the whole room.                     *)
LEMMA SubscribeInStep ==
  ASSUME SyncInv, CursorInv, NEW c \in Client, ServerReceive(c),
         HandleSubscribe(c, Head(up[c]))
  PROVE  InStep(c)'
<1> DEFINE f == Head(up[c])
           answer == CatchUp(room, f.seq)
           g == IF answer.kind = "ops" THEN OpsFrame(answer.ops)
                ELSE [type |-> "snapshot", seq |-> answer.seq, state |-> answer.state]
           rest == Tail(up[c])
<1>1. /\ up[c] # <<>> /\ up' = [up EXCEPT ![c] = Tail(@)]
      /\ f.type = "subscribe" /\ bound' = bound \union {c}
      /\ down' = [down EXCEPT ![c] = Append(@, g)]
      /\ UNCHANGED <<room, history, doc, cursor, outbox, minted, online>>
  BY DEF ServerReceive, HandleSubscribe, clientVars
<1>2. /\ SyncTypes /\ HistoryInv /\ Opening(c) /\ SnapshotsAlone(c) /\ Traced(c) /\ Known(c)
      /\ up[c] \in Seq(UpFrame) /\ down[c] \in Seq(DownFrame)
      /\ cursor[c] \in Nat /\ doc[c] \subseteq Op /\ outbox[c] \in Seq(Op) /\ c \in online
  BY <1>1, ClientFacts DEF SyncInv, CursorInv, InStep, Opening
<1>3. /\ f = up[c][1] /\ 1 \in DOMAIN up[c] /\ f \in Range(up[c]) /\ f \in UpFrame
      /\ \A i \in DOMAIN rest : i + 1 \in DOMAIN up[c] /\ i \in Nat /\ i # 0 /\ rest[i] = up[c][i + 1]
      /\ Range(rest) \subseteq Range(up[c])
  <2>1. /\ f = up[c][1] /\ f \in Range(up[c]) /\ f \in UpFrame /\ Len(up[c]) \in Nat \ {0}
        /\ \A i \in DOMAIN rest : i + 1 \in DOMAIN up[c] /\ i \in Nat /\ rest[i] = up[c][i + 1]
        /\ Range(rest) \subseteq Range(up[c])
    BY <1>1, <1>2, ReadFacts
  <2>2. DOMAIN rest \subseteq Nat \ {0}
    BY <1>1, <1>2
  <2> QED BY <1>2, <2>1, <2>2
<1>4. /\ c \notin bound /\ down[c] = <<>> /\ f.seq = cursor[c]
      /\ Carried(up[c], "ops") \subseteq Range(outbox[c])
  <2>1. c \notin bound
    BY <1>1, <1>2, <1>3 DEF Opening
  <2> QED BY <1>1, <1>2, <1>3, <2>1 DEF Opening
<1>5. up'[c] = rest /\ down'[c] = Append(<<>>, g) /\ c \in bound'
  BY <1>1, <1>2, <1>4 DEF SyncTypes
<1>6. Opening(c)'
  <2>1. ASSUME NEW i \in DOMAIN rest PROVE rest[i].type # "subscribe"
    <3>1. i + 1 \in DOMAIN up[c] /\ i + 1 # 1 /\ rest[i] = up[c][i + 1]
      BY <1>3
    <3> QED BY <1>2, <3>1 DEF Opening
  <2> QED BY <1>1, <1>2, <1>5, <2>1 DEF Opening
<1>7. Carried(rest, "ops") \subseteq Carried(up[c], "ops")
  BY <1>3 DEF Carried
<1>8. /\ room.base \in Nat /\ room.log \in Seq(Op) /\ room.seen \subseteq Op
      /\ Len(room.log) \in Nat /\ Len(history) = room.base + Len(room.log)
      /\ Len(history) = Cardinality(room.seen) /\ Len(history) \in Nat
      /\ history \in Seq(Op) /\ Range(history) = room.seen
      /\ \A i \in 1 .. Len(room.log) : room.log[i] = history[room.base + i]
  BY <1>2 DEF HistoryInv, SyncTypes, SoundRoom, Room, RoomHead
<1>9. cursor[c] <= Len(history) /\ \A i \in 1 .. cursor[c] : history[i] \in doc[c]
  <2>1. Safe(down[c], cursor[c], doc[c], history, Carried(up[c], "ops"), Due(c))
    BY <1>2 DEF Traced
  <2>2. down[c] \in Seq(DownFrame)
    BY <1>2
  <2> QED BY <2>1, <2>2, SafeNow
<1>10. Carried(rest, "ops") \subseteq doc[c]
  BY <1>2, <1>4, <1>7 DEF SnapshotsAlone
<1>11. ASSUME NEW k \in Nat, NEW h \in SUBSET Op, g \in DownFrame,
              k = CursorAfter(cursor[c], g), h = DocAfter(doc[c], g),
              k <= Len(history), \A i \in 1 .. k : history[i] \in h,
              Carried(rest, "ops") \subseteq h, Range(history) \subseteq h
       PROVE  Traced(c)'
  <2> DEFINE mine == Carried(rest, "ops")
             cur == cursor[c]
             had == doc[c]
             due == Range(history)
  <2>1. cur \in Nat /\ had \subseteq Op /\ cur <= Len(history) /\ (\A i \in 1 .. cur : history[i] \in had)
        /\ mine \subseteq had
    BY <1>2, <1>9, <1>10
  <2>2. k = CursorAfter(cur, g) /\ h = DocAfter(had, g) /\ mine \subseteq h /\ due \subseteq h
    BY <1>11
  <2>3. history \o <<>> = history /\ <<>> \in Seq(Op) /\ <<>> \in Seq(DownFrame) /\ history \in Seq(Op)
    BY <1>8
  <2> HIDE DEF mine, cur, had, due, g
  <2>4. Safe(<<>>, cur, had, history, mine, {})
    BY <2>1, SafeStart
  <2>5. ReadsOn(<<>>, cur, had, history, mine, {}, g, history, mine, due)
    BY <1>11, <2>2 DEF ReadsOn
  <2>6. Safe(Append(<<>>, g), cur, had, history \o <<>>, mine, due)
    BY <1>11, <2>3, <2>4, <2>5, SafeAppended
  <2>7. Safe(Append(<<>>, g), cur, had, history, mine, due)
    BY <2>3, <2>6
  <2> QED BY <1>1, <1>5, <2>7 DEF Traced, Due, mine, cur, had, due
<1>12. CASE cursor[c] < room.base
  <2>1. answer = [kind |-> "snapshot", seq |-> RoomHead(room), state |-> room.seen]
    BY <1>4, <1>12 DEF CatchUp
  <2>2. /\ g = [type |-> "snapshot", seq |-> Len(history), state |-> room.seen]
    BY <1>8, <2>1 DEF RoomHead
  <2>3. g \in DownFrame /\ g.type = "snapshot" /\ g.seq = Len(history) /\ g.state = room.seen
    BY <1>8, <2>2 DEF DownFrame
  <2> HIDE DEF g
  <2>4. outbox[c] = <<>> /\ Range(outbox[c]) = {} /\ Carried(rest, "ops") = {}
    <3>1. outbox[c] = <<>>
      BY <1>2, <1>8, <1>12 DEF SnapshotsAlone
    <3>2. Range(outbox[c]) = {}
      BY <3>1 DEF Range
    <3> QED BY <1>4, <1>7, <3>1, <3>2
  <2>5. DOMAIN Append(<<>>, g) = {1} /\ Range(Append(<<>>, g)) = {g}
    BY <2>3 DEF Range
  <2>6. SnapshotsAlone(c)'
    BY <1>1, <1>2, <1>5, <1>12, <2>4, <2>5 DEF SnapshotsAlone
  <2>7. Known(c)'
    BY <1>1, <1>2, <1>5, <2>3, <2>5 DEF Known
  <2>8. CursorAfter(cursor[c], g) = Len(history) /\ DocAfter(doc[c], g) = Range(history)
    BY <1>8, <2>3 DEF CursorAfter, DocAfter
  <2>9. \A i \in 1 .. Len(history) : history[i] \in Range(history)
    BY <1>8 DEF Range
  <2>10. Range(history) \in SUBSET Op
    BY <1>8
  <2>11. Traced(c)'
    BY <1>8, <1>11, <2>3, <2>4, <2>8, <2>9, <2>10
  <2> QED BY <1>6, <2>6, <2>7, <2>11 DEF InStep
<1>13. CASE cursor[c] >= room.base
  <2> DEFINE from == cursor[c] - room.base + 1
             ops == SubSeq(room.log, from, Len(room.log))
  <2>1. answer = [kind |-> "ops", ops |-> ops]
    <3>1. answer = CatchUp(room, cursor[c]) /\ ~(cursor[c] < room.base)
      BY <1>2, <1>4, <1>8, <1>13
    <3>2. CatchUp(room, cursor[c]) = [kind |-> "ops", ops |-> ops]
      BY <3>1 DEF CatchUp
    <3> QED BY <3>1, <3>2
  <2>2. from \in Nat \ {0} /\ from - 1 = cursor[c] - room.base /\ from <= Len(room.log) + 1
    BY <1>2, <1>8, <1>9, <1>13
  <2> HIDE DEF from
  <2>3. /\ ops \in Seq(Op) /\ Len(ops) = Len(room.log) - from + 1
        /\ \A k \in 1 .. Len(ops) : ops[k] = room.log[from + k - 1]
        /\ Range(ops) \subseteq Range(room.log)
    <3>1. ASSUME NEW l \in Seq(Op), from <= Len(l) + 1
          PROVE  LET o == SubSeq(l, from, Len(l)) IN
                 /\ o \in Seq(Op) /\ Len(o) = Len(l) - from + 1
                 /\ \A k \in 1 .. Len(o) : o[k] = l[from + k - 1]
                 /\ Range(o) \subseteq Range(l)
      <4>1. Len(l) \in Nat /\ Len(l) <= Len(l)
        OBVIOUS
      <4>2. /\ SubSeq(l, from, Len(l)) \in Seq(Op)
            /\ Len(SubSeq(l, from, Len(l))) = IF from <= Len(l) THEN Len(l) - from + 1 ELSE 0
            /\ \A k \in 1 .. Len(SubSeq(l, from, Len(l))) : SubSeq(l, from, Len(l))[k] = l[from + k - 1]
            /\ Range(SubSeq(l, from, Len(l))) \subseteq Range(l)
        BY <2>2, <4>1, SubSeqRange
      <4>3. (IF from <= Len(l) THEN Len(l) - from + 1 ELSE 0) = Len(l) - from + 1
        BY <2>2, <3>1, <4>1
      <4> QED BY <4>2, <4>3
    <3> QED BY <1>8, <2>2, <3>1
  <2>4. Len(ops) = Len(history) - cursor[c] /\ Len(ops) \in Nat
    <3> DEFINE n == Len(history)
               l == Len(room.log)
               b == room.base
               u == cursor[c]
    <3>1. n \in Nat /\ l \in Nat /\ b \in Nat /\ u \in Nat /\ n = b + l /\ u <= n
      BY <1>2, <1>8, <1>9
    <3>2. Len(ops) = l - from + 1 /\ from - 1 = u - b /\ from \in Nat
      BY <2>2, <2>3
    <3> HIDE DEF n, l, b, u, ops
    <3>3. Len(ops) = n - u /\ n - u \in Nat
      BY <3>1, <3>2
    <3> QED BY <3>3 DEF n, u
  <2>5. g = OpsFrame(ops)
    <3> HIDE DEF answer, ops
    <3>1. answer.kind = "ops" /\ answer.ops = ops
      BY <2>1
    <3> QED BY <3>1
  <2> HIDE DEF ops
  <2>6. g \in DownFrame /\ g.type = "ops" /\ g.ops = ops
    BY <2>3, <2>5, DownFields DEF OpsFrame
  <2> HIDE DEF g
  <2>7. DOMAIN Append(<<>>, g) = {1} /\ Range(Append(<<>>, g)) = {g} /\ Append(<<>>, g)[1] = g
    BY <2>6 DEF Range
  <2>8. SnapshotsAlone(c)'
    BY <1>1, <1>2, <1>5, <2>6, <2>7 DEF SnapshotsAlone
  <2>9. Range(ops) \subseteq room.seen
    BY <1>2, <2>3 DEF SyncTypes, SoundRoom
  <2>10. Known(c)'
    BY <1>1, <1>2, <1>5, <2>6, <2>7, <2>9 DEF Known
  <2>11. CursorAfter(cursor[c], g) = Len(history) /\ DocAfter(doc[c], g) = doc[c] \union Range(ops)
    BY <1>2, <1>8, <2>4, <2>6 DEF CursorAfter, DocAfter
  <2>12. ASSUME NEW i \in 1 .. Len(history) PROVE history[i] \in doc[c] \union Range(ops)
    <3>1. CASE i <= cursor[c]
      BY <1>2, <1>9, <3>1
    <3>2. CASE i > cursor[c]
      <4> DEFINE n == Len(history)
                 l == Len(room.log)
                 b == room.base
                 u == cursor[c]
                 k == i - u
      <4>1. /\ n \in Nat /\ l \in Nat /\ b \in Nat /\ u \in Nat /\ n = b + l /\ u <= n
            /\ i \in 1 .. n /\ i > u /\ u >= b /\ Len(ops) = n - u /\ from - 1 = u - b /\ from \in Nat
        BY <1>2, <1>8, <1>9, <1>13, <2>2, <2>4, <3>2
      <4> HIDE DEF n, l, b, u
      <4>2. /\ k \in 1 .. Len(ops) /\ from + k - 1 = i - b /\ i - b \in 1 .. l /\ b + (i - b) = i
        BY <4>1
      <4> HIDE DEF k
      <4>3. ops[k] = room.log[i - b]
        BY <2>3, <4>2
      <4>4. room.log[i - b] = history[b + (i - b)]
        BY <1>8, <4>2 DEF b, l
      <4>5. k \in DOMAIN ops
        BY <2>3, <4>2
      <4> QED BY <4>2, <4>3, <4>4, <4>5 DEF Range
    <3> QED BY <1>2, <3>1, <3>2
  <2>13. Range(history) \subseteq doc[c] \union Range(ops) /\ doc[c] \union Range(ops) \in SUBSET Op
    BY <1>2, <1>8, <2>9, <2>12 DEF Range
  <2>14. Traced(c)'
    <3> DEFINE h == doc[c] \union Range(ops)
    <3>1. /\ h \in SUBSET Op /\ h = DocAfter(doc[c], g) /\ Range(history) \subseteq h
          /\ \A i \in 1 .. Len(history) : history[i] \in h
          /\ Carried(rest, "ops") \subseteq h
      BY <1>10, <2>11, <2>12, <2>13
    <3>2. Len(history) \in Nat /\ Len(history) <= Len(history) /\ Len(history) = CursorAfter(cursor[c], g)
      BY <1>8, <2>11
    <3> HIDE DEF h, rest
    <3> QED BY <1>11, <2>6, <3>1, <3>2
  <2> QED BY <1>6, <2>8, <2>10, <2>14 DEF InStep
<1> QED BY <1>2, <1>8, <1>12, <1>13

(* The author of a batch is sent only its answer: what the batch added it  *)
(* already holds.                                                          *)
LEMMA AuthorInStep ==
  ASSUME SyncTypes, HistoryInv, NEW c \in Client, InStep(c), up[c] # <<>>, Head(up[c]).type = "ops",
         NEW s \in Seq(Op), Range(s) \subseteq Range(Head(up[c]).ops),
         NEW g \in DownFrame, g.type \in {"accepted", "rejected"},
         history' = history \o s, room'.base = room.base, room.seen \subseteq room'.seen,
         cursor'[c] = cursor[c], doc'[c] = doc[c], outbox'[c] = outbox[c], minted'[c] = minted[c],
         up'[c] = Tail(up[c]), down'[c] = Append(down[c], g),
         c \in online' <=> c \in online, c \in bound' <=> c \in bound
  PROVE  InStep(c)'
<1> DEFINE f == Head(up[c])
           rest == Tail(up[c])
           q == down[c]
           mine == Carried(up[c], "ops")
           mine2 == Carried(rest, "ops")
<1>1. /\ q \in Seq(DownFrame) /\ up[c] \in Seq(UpFrame) /\ history \in Seq(Op)
      /\ Opening(c) /\ SnapshotsAlone(c) /\ Traced(c) /\ Known(c)
  BY ClientFacts DEF HistoryInv, InStep
<1>2. /\ f = up[c][1] /\ f \in Range(up[c])
      /\ \A i \in DOMAIN rest : i + 1 \in DOMAIN up[c] /\ i \in Nat /\ rest[i] = up[c][i + 1]
      /\ Range(rest) \subseteq Range(up[c])
  BY <1>1, ReadFacts
<1>3. c \in bound /\ c \in online
  BY <1>1, <1>2 DEF Opening
<1>4. mine2 \subseteq mine /\ Range(f.ops) \subseteq mine
  BY <1>2 DEF Carried
<1>5. /\ DOMAIN Append(q, g) = 1 .. Len(q) + 1 /\ Len(q) \in Nat /\ DOMAIN q = 1 .. Len(q)
      /\ \A i \in 1 .. Len(q) : Append(q, g)[i] = q[i]
      /\ Append(q, g)[Len(q) + 1] = g
      /\ Range(Append(q, g)) = Range(q) \union {g}
  BY <1>1, AppendFacts
<1>6. Opening(c)'
  <2>1. ASSUME NEW i \in DOMAIN rest PROVE rest[i].type # "subscribe"
    BY <1>1, <1>2, <1>3 DEF Opening
  <2> QED BY <1>3, <2>1 DEF Opening
<1>7. SnapshotsAlone(c)'
  <2>1. ASSUME NEW i \in DOMAIN Append(q, g), Append(q, g)[i].type = "snapshot"
        PROVE  i = 1 /\ cursor[c] < room.base /\ mine2 = {}
    <3>1. i # Len(q) + 1
      BY <1>5, <2>1
    <3>2. i \in DOMAIN q /\ q[i].type = "snapshot"
      BY <1>5, <2>1, <3>1
    <3> QED BY <1>1, <1>4, <3>2 DEF SnapshotsAlone
  <2> QED BY <1>1, <2>1 DEF SnapshotsAlone
<1>8. Known(c)'
  BY <1>1, <1>5 DEF Known
<1>9. Traced(c)'
  <2> DEFINE due == Range(history)
             due2 == Range(history \o s)
             cur == cursor[c]
             had == doc[c]
  <2>1. Safe(q, cur, had, history, mine, due)
    BY <1>1, <1>3 DEF Traced, Due
  <2>2. due2 = due \union Range(s) /\ Len(history \o s) = Len(history) + Len(s)
        /\ Len(history) \in Nat /\ Len(s) \in Nat
        /\ \A i \in 1 .. Len(history) : (history \o s)[i] = history[i]
    <3>1. ASSUME NEW h \in Seq(Op)
          PROVE  Range(h \o s) = Range(h) \union Range(s) /\ Len(h \o s) = Len(h) + Len(s) /\ Len(h) \in Nat
                 /\ \A i \in 1 .. Len(h) : (h \o s)[i] = h[i]
      BY ConcatRange
    <3> QED BY <1>1, <3>1
  <2>3. Range(s) \subseteq mine
    BY <1>4
  <2> HIDE DEF mine, mine2, due, due2, q, cur, had
  <2>4. ASSUME NEW a \in Nat, NEW h \in SUBSET Op, a <= Len(history), \A i \in 1 .. a : history[i] \in h,
               mine \subseteq h, due \subseteq h
        PROVE  /\ CursorAfter(a, g) \in Nat /\ CursorAfter(a, g) <= Len(history \o s)
               /\ DocAfter(h, g) \in SUBSET Op
               /\ \A i \in 1 .. CursorAfter(a, g) : (history \o s)[i] \in DocAfter(h, g)
               /\ mine2 \subseteq DocAfter(h, g) /\ due2 \subseteq DocAfter(h, g)
    <3>1. CursorAfter(a, g) = a /\ DocAfter(h, g) = h
      BY DEF CursorAfter, DocAfter
    <3>2. \A i \in 1 .. a : i \in 1 .. Len(history)
      BY <2>2, <2>4
    <3> QED BY <1>4, <2>2, <2>3, <2>4, <3>1, <3>2
  <2>5. ReadsOn(q, cur, had, history, mine, due, g, history \o s, mine2, due2)
    BY <2>4 DEF ReadsOn
  <2>6. Safe(Append(q, g), cur, had, history \o s, mine2, due2)
    BY <1>1, <1>4, <2>1, <2>5, SafeAppended DEF q
  <2> QED BY <1>3, <2>6 DEF Traced, Due, mine2, due2, q, cur, had
<1> QED BY <1>6, <1>7, <1>8, <1>9 DEF InStep

(* The server reads a frame of a live connection.                          *)
LEMMA ServeInStep ==
  ASSUME SyncInv, CursorInv, NEW c \in Client, ServerReceive(c)
  PROVE  CursorInv'
<1> DEFINE f == Head(up[c])
<1>1. /\ up[c] # <<>> /\ up' = [up EXCEPT ![c] = Tail(@)]
      /\ HandleSubscribe(c, f) \/ HandleOps(c, f, TRUE)
      /\ UNCHANGED <<doc, cursor, outbox, minted, online>>
  BY DEF ServerReceive, clientVars
<1>2. SyncTypes /\ HistoryInv /\ InStep(c) /\ up[c] \in Seq(UpFrame) /\ down[c] \in Seq(DownFrame)
  BY ClientFacts DEF SyncInv, CursorInv
<1>3. f.type = "ops" => f.ops \in Seq(Op) /\ f.ops # <<>>
  <2>1. f \in UpFrame
    BY <1>1, <1>2, ReadFacts
  <2> HIDE DEF f
  <2> QED BY <2>1, UpFields
<1>4. up'[c] = Tail(up[c]) /\ \A d \in Client : d # c => up'[d] = up[d]
  BY <1>1, <1>2 DEF SyncTypes
<1>5. CASE HandleSubscribe(c, f)
  <2>1. UNCHANGED <<room, history>> /\ bound' = bound \union {c}
        /\ \A d \in Client : d # c => down'[d] = down[d]
    BY <1>2, <1>5 DEF HandleSubscribe, SyncTypes
  <2>2. ASSUME NEW d \in Client \ {c} PROVE InStep(d)'
    <3>1. InStep(d) /\ up'[d] = up[d] /\ down'[d] = down[d] /\ (d \in bound' <=> d \in bound)
      BY <1>4, <2>1 DEF CursorInv
    <3> QED BY <1>1, <2>1, <3>1, InStepIdle
  <2>3. InStep(c)'
    BY <1>5, SubscribeInStep
  <2>4. HistoryInv'
    BY <1>2, <2>1 DEF HistoryInv
  <2> QED BY <2>2, <2>3, <2>4 DEF CursorInv
<1>6. CASE f.type = "ops" /\ CommitOps(c, f.ops, TRUE)
  <2> DEFINE fresh == Fresh(room, f.ops)
             ack == [type |-> "accepted", through |-> f.ops[Len(f.ops)][2]]
  <2> HIDE DEF f
  <2>1. /\ fresh \in Seq(Op) /\ history' = history \o fresh
        /\ room' = [base |-> room.base, log |-> room.log \o fresh, seen |-> room.seen \union Range(fresh)]
    BY <1>2, <1>3, <1>6, BatchCommitted
  <2>2. ack \in DownFrame /\ down'[c] = Append(down[c], ack) /\ bound' = bound
    BY <1>2, <1>3, <1>6, BatchCommitted
  <2>3. Range(fresh) = Range(f.ops) \ room.seen
    BY <1>3, <1>6, FreshOps
  <2>4. ack.type = "accepted"
    OBVIOUS
  <2> HIDE DEF fresh, ack
  <2>5. HistoryInv'
    BY <1>2, <2>1, HistoryGrows
  <2>6. ASSUME NEW d \in Client \ {c} PROVE InStep(d)'
    BY <1>1, <1>3, <1>4, <1>6, BatchInStep
  <2>7. room'.base = room.base /\ room.seen \subseteq room'.seen
    BY <2>1
  <2>8. InStep(c)'
    BY <1>1, <1>2, <1>4, <1>6, <2>1, <2>2, <2>3, <2>4, <2>7, AuthorInStep DEF f
  <2> QED BY <2>5, <2>6, <2>8 DEF CursorInv
<1>7. CASE f.type = "ops" /\ RefuseOps(c, f.ops, TRUE)
  <2> DEFINE no == [type |-> "rejected", ops |-> f.ops]
  <2> HIDE DEF f
  <2>1. no \in DownFrame /\ no.type = "rejected"
    BY <1>3, <1>7 DEF DownFrame
  <2>2. down' = Queued(down, c, <<no>>) /\ UNCHANGED <<room, history, bound>>
    BY <1>7 DEF RefuseOps
  <2> HIDE DEF no
  <2>3. down[c] \o <<no>> = Append(down[c], no)
    BY <1>2, <2>1, AppendFacts
  <2>4. down'[c] = Append(down[c], no) /\ \A d \in Client : d # c => down'[d] = down[d]
    BY <1>2, <2>2, <2>3 DEF Queued, SyncTypes
  <2>5. ASSUME NEW d \in Client \ {c} PROVE InStep(d)'
    <3>1. InStep(d) /\ up'[d] = up[d] /\ down'[d] = down[d]
      BY <1>4, <2>4 DEF CursorInv
    <3> QED BY <1>1, <2>2, <3>1, InStepIdle
  <2>6. InStep(c)'
    <3> DEFINE s == <<>>
    <3>1. s \in Seq(Op) /\ Range(s) = {} /\ history' = history \o s
      BY <1>2, <2>2 DEF Range, HistoryInv
    <3> HIDE DEF s
    <3> QED BY <1>1, <1>2, <1>4, <1>7, <2>1, <2>2, <2>4, <3>1, AuthorInStep DEF f
  <2>7. HistoryInv'
    BY <1>2, <2>2 DEF HistoryInv
  <2> QED BY <2>5, <2>6, <2>7 DEF CursorInv
<1> QED BY <1>1, <1>5, <1>6, <1>7 DEF HandleOps

LEMMA CursorInit == Init => CursorInv
<1> SUFFICES ASSUME Init PROVE CursorInv
  OBVIOUS
<1>1. HistoryInv
  BY DEF Init, HistoryInv, EmptyRoom, RoomHead, Range
<1>2. ASSUME NEW c \in Client PROVE InStep(c)
  <2>1. /\ outbox[c] = <<>> /\ up[c] = <<>> /\ down[c] = <<>> /\ doc[c] = {} /\ cursor[c] = 0
        /\ online = {} /\ bound = {} /\ history = <<>>
    BY DEF Init
  <2>2. Range(<<>>) = {} /\ Carried(<<>>, "ops") = {}
    BY CarriedBy DEF Range
  <2>3. Opening(c) /\ SnapshotsAlone(c) /\ Known(c)
    BY <2>1, <2>2 DEF Opening, SnapshotsAlone, Known
  <2>4. Safe(<<>>, 0, {}, <<>>, {}, {})
    <3>1. 0 \in Nat /\ {} \subseteq Op /\ 0 <= Len(<<>>) /\ \A i \in 1 .. 0 : FALSE
      OBVIOUS
    <3> QED BY <3>1, SafeStart
  <2>5. Traced(c)
    BY <2>1, <2>2, <2>4 DEF Traced, Due
  <2> QED BY <2>3, <2>5 DEF InStep
<1> QED BY <1>1, <1>2 DEF CursorInv

LEMMA CursorStep ==
  ASSUME ~SnapshotOverOutbox, SyncInv, CursorInv, [Next]_vars
  PROVE  CursorInv'
<1>1. CASE UNCHANGED vars
  BY <1>1, InStepIdle DEF vars, CursorInv, HistoryInv
<1> QED
  BY <1>1, EditInStep, ConnectInStep, DropInStep, ReceiveInStep, ServeInStep, StaleInStep, CompactInStep
  DEF Next

LEMMA CursorInvariant ==
  ASSUME ~SnapshotOverOutbox
  PROVE  Spec => [](SyncInv /\ CursorInv)
<1>1. Init => SyncInv /\ CursorInv
  BY SyncInit, CursorInit
<1>2. SyncInv /\ CursorInv /\ [Next]_vars => (SyncInv /\ CursorInv)'
  BY SyncStep, CursorStep
<1> QED BY <1>1, <1>2, PTL DEF Spec

(* The resume cursor counts frames and never passes an op the replica      *)
(* lacks, for any clients and any number of edits, drops and compactions,  *)
(* as long as no snapshot catches up a client with edits under way         *)
(* (client.rs, the arms that count Ops and take a Snapshot; session.rs     *)
(* fans out to every channel but the author's).                            *)
THEOREM CursorSafe ==
  ASSUME ~SnapshotOverOutbox
  PROVE  Spec => []CursorNeverSkips
<1>1. ASSUME SyncInv, CursorInv PROVE CursorNeverSkips
  <2>1. ASSUME NEW c \in Client
        PROVE  cursor[c] <= Len(history) /\ \A i \in 1 .. cursor[c] : history[i] \in doc[c]
    <3>1. down[c] \in Seq(DownFrame)
      BY <1>1, ClientFacts DEF SyncInv
    <3>2. Safe(down[c], cursor[c], doc[c], history, Carried(up[c], "ops"), Due(c))
      BY <1>1 DEF CursorInv, InStep, Traced
    <3> QED BY <3>1, <3>2, SafeNow
  <2> QED BY <2>1 DEF CursorNeverSkips
<1> QED BY <1>1, CursorInvariant, PTL

(* Under the same condition a subscribed client with nothing under way     *)
(* holds the room, and beyond it only edits the server refused             *)
(* (session.rs handle_ops and its fan-out, client.rs receive).             *)
THEOREM QuietAgrees ==
  ASSUME ~SnapshotOverOutbox
  PROVE  Spec => []Converged
<1>1. ASSUME SyncInv, CursorInv PROVE Converged
  <2>1. ASSUME NEW c \in Client, Quiet(c)
        PROVE  room.seen \subseteq doc[c] /\ doc[c] \ room.seen \subseteq rejected
    <3>1. down[c] \in Seq(DownFrame) /\ doc[c] \subseteq Op /\ minted[c] \in 0 .. MaxEdits
      BY <1>1, ClientFacts DEF SyncInv, SyncTypes
    <3>2. Safe(down[c], cursor[c], doc[c], history, Carried(up[c], "ops"), Due(c))
      BY <1>1 DEF CursorInv, InStep, Traced
    <3>3. down[c] = <<>> => Due(c) \subseteq doc[c]
      <4> DEFINE q == down[c]
                 d == doc[c]
                 due == Due(c)
                 cur == cursor[c]
                 mine == Carried(up[c], "ops")
      <4>1. q \in Seq(DownFrame) /\ Safe(q, cur, d, history, mine, due)
        BY <3>1, <3>2
      <4> HIDE DEF q, d, due, cur, mine
      <4>2. mine \subseteq d /\ (q = <<>> => due \subseteq d)
        BY <4>1, SafeNow
      <4> QED BY <4>2 DEF q, d, due
    <3>4. Due(c) = room.seen /\ down[c] = <<>> /\ outbox[c] = <<>>
      BY <1>1, <2>1 DEF Quiet, Due, CursorInv, HistoryInv
    <3>5. ASSUME NEW op \in doc[c], op \notin room.seen PROVE op \in rejected
      <4>1. op[1] = c /\ op[2] <= minted[c]
        BY <1>1, <3>5 DEF CursorInv, InStep, Known
      <4>2. op = <<c, op[2]>> /\ op[2] \in 1 .. minted[c]
        BY <3>1, <4>1, OpFields
      <4>3. <<c, op[2]>> \in room.seen \union Range(outbox[c]) \union rejected
        BY <1>1, <4>2 DEF SyncInv, EditsInv, EditsKept
      <4>4. Range(outbox[c]) = {}
        BY <3>4 DEF Range
      <4> QED BY <3>5, <4>2, <4>3, <4>4
    <3> QED BY <3>3, <3>4, <3>5
  <2> QED BY <2>1 DEF Converged
<1> QED BY <1>1, CursorInvariant, PTL
=============================================================================
