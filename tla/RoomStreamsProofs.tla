------------------------- MODULE RoomStreamsProofs -------------------------
(* The streams of a room and their files, for any ops, branches, versions, *)
(* crashes and restarts: what the hub holds in memory is what loading the  *)
(* files gives, and both are what the streams' histories say.              *)
EXTENDS RoomStreams, RoomHubProofs

(* A write that fails is one the code can undo: it is not the second write *)
(* of an append to a branch, nor one in the middle of a delete; a crash    *)
(* leaves whole records; a new branch has a clean name.                    *)
CleanFaults == ~Tears /\ ~Reuse /\ "ingest_branch" \notin FailIn /\ "delete" \notin FailIn

IsMem(m) ==
    m \in [room : {m.room}, versions : {m.versions}, ordinal : {m.ordinal},
           branches : {m.branches}, tails : {m.tails}, bases : {m.bases},
           active : {m.active}, trees : {m.trees}]

IsDisk(d) ==
    d \in [log : {d.log}, snap : {d.snap}, versions : {d.versions}, branches : {d.branches},
           blog : {d.blog}, bbase : {d.bbase}, active : {d.active}]

IsPointer(r) == r \in [fork : {r.fork}, head : {r.head}, published : {r.published}]

IsMap(f) == f = [x \in DOMAIN f |-> f[x]]

(* The files of main, and of the other streams, as the store writes them.  *)
SaneMain(snap, log) ==
    /\ log \in Seq(Op)
    /\ snap = {} \/ \E st \in SUBSET Op : snap = {[base |-> Cardinality(st), state |-> st]}

SaneStreams(branches, blog, bbase) ==
    /\ IsMap(branches) /\ DOMAIN branches \subseteq Branch
    /\ \A b \in DOMAIN branches : IsPointer(branches[b])
    /\ blog \in [Branch -> Seq(Op)]
    /\ IsMap(bbase)

Sane(d) == IsDisk(d) /\ SaneMain(d.snap, d.log) /\ SaneStreams(d.branches, d.blog, d.bbase)

Floor(snap) == IF snap = {} THEN {} ELSE (CHOOSE s \in snap : TRUE).state

(* The room in memory holds the ops of the snapshot and of the log.        *)
MainAgrees(room, snap, log) == SoundRoom(room) /\ room.seen = Floor(snap) \union Range(log)

TailOf(branches, blog, b) == IF branches[b].published THEN <<>> ELSE blog[b]

(* The pointer a restart gives a branch: its head follows its tail.        *)
Patched(r, tail) == IF tail = <<>> THEN r ELSE [r EXCEPT !.head = r.fork + Len(tail)]

StreamsAgree(m, branches, blog, bbase, active) ==
    /\ m.tails \in [Branch -> Seq(Op)]
    /\ IsMap(m.branches) /\ DOMAIN m.branches = DOMAIN branches
    /\ \A b \in DOMAIN branches :
          /\ m.branches[b] = Patched(branches[b], TailOf(branches, blog, b))
          /\ m.tails[b] = TailOf(branches, blog, b)
    /\ IsMap(m.bases) /\ DOMAIN m.bases = DOMAIN bbase \intersect DOMAIN branches
    /\ \A b \in DOMAIN m.bases : m.bases[b] = bbase[b]
    /\ m.active = IF active \in DOMAIN branches THEN active ELSE Main

Agree(m, d) ==
    /\ IsMem(m)
    /\ MainAgrees(m.room, d.snap, d.log)
    /\ m.versions = d.versions
    /\ StreamsAgree(m, d.branches, d.blog, d.bbase, d.active)

Kept == Sane(disk) /\ Agree(mem, disk)

-----------------------------------------------------------------------------
(* What loading the files gives.                                           *)
LEMMA Decoded ==
  ASSUME NEW log \in Seq(Op)
  PROVE  DecodeRecords(log) = log
  BY StreamAssumption DEF DecodeRecords

LEMMA PatchedPointer ==
  ASSUME NEW r, IsPointer(r), NEW tail
  PROVE  /\ IsPointer(Patched(r, tail))
         /\ Patched(r, tail).published = r.published
         /\ Patched(r, tail).fork = r.fork
         /\ Patched(Patched(r, tail), tail) = Patched(r, tail)
  BY DEF IsPointer, Patched

LEMMA OneSnapshot ==
  ASSUME NEW snap, NEW st, snap = {[base |-> Cardinality(st), state |-> st]}
  PROVE  /\ snap # {}
         /\ (CHOOSE s \in snap : TRUE).state = st
         /\ (CHOOSE s \in snap : TRUE).base = Cardinality(st)
<1> DEFINE x == [base |-> Cardinality(st), state |-> st]
<1>1. x.state = st /\ x.base = Cardinality(st)
  OBVIOUS
<1> HIDE DEF x
<1>2. (CHOOSE s \in {x} : TRUE) = x
  OBVIOUS
<1>3. snap = {x}
  BY DEF x
<1> QED BY <1>1, <1>2, <1>3

LEMMA FloorFacts ==
  ASSUME NEW snap, NEW log, SaneMain(snap, log)
  PROVE  Floor(snap) \subseteq Op /\ IsFiniteSet(Floor(snap))
<1>1. CASE snap = {}
  BY <1>1, FS_EmptySet DEF Floor
<1>2. ASSUME NEW st \in SUBSET Op, snap = {[base |-> Cardinality(st), state |-> st]} 
      PROVE  Floor(snap) = st
  BY <1>2, OneSnapshot DEF Floor
<1>3. \A st \in SUBSET Op : IsFiniteSet(st)
  BY StreamAssumption, FS_Subset
<1> QED BY <1>1, <1>2, <1>3 DEF SaneMain

(* Replay: the snapshot, then what the log has beyond it.                  *)
LEMMA LoadedRoom ==
  ASSUME NEW d, Sane(d)
  PROVE  \E r : /\ r.seen = Floor(d.snap)
                /\ LoadRoom(d) = [base |-> Cardinality(Floor(d.snap)), log |-> Fresh(r, d.log),
                                  seen |-> Floor(d.snap) \union Range(Fresh(r, d.log))]
<1> DEFINE r == IF d.snap = {} THEN EmptyRoom
                ELSE InstallSnapshot((CHOOSE s \in d.snap : TRUE).state, (CHOOSE s \in d.snap : TRUE).base)
           fresh == Fresh(r, d.log)
           F == Floor(d.snap)
<1>1. d.log \in Seq(Op) /\ DecodeRecords(d.log) = d.log
  BY Decoded DEF Sane, SaneMain
<1>2. r = [base |-> Cardinality(F), log |-> <<>>, seen |-> F]
  <2>1. CASE d.snap = {}
    BY <2>1, FS_EmptySet DEF Floor, EmptyRoom
  <2>2. ASSUME NEW st \in SUBSET Op, d.snap = {[base |-> Cardinality(st), state |-> st]}
        PROVE  r = [base |-> Cardinality(F), log |-> <<>>, seen |-> F]
    <3>1. F = st /\ r = InstallSnapshot(st, Cardinality(st))
      BY <2>2, OneSnapshot DEF Floor
    <3> HIDE DEF F, r
    <3> QED BY <3>1 DEF InstallSnapshot
  <2> QED BY <2>1, <2>2 DEF Sane, SaneMain
<1>3. LoadRoom(d) = [r EXCEPT !.log = fresh, !.seen = @ \union Range(fresh)]
  BY <1>1 DEF LoadRoom
<1> HIDE DEF fresh, r, F
<1>4. r.seen = F /\ LoadRoom(d) = [base |-> Cardinality(F), log |-> fresh, seen |-> F \union Range(fresh)]
  BY <1>2, <1>3
<1> QED BY <1>4 DEF fresh, F

LEMMA LoadRoomAgrees ==
  ASSUME NEW d, Sane(d)
  PROVE  MainAgrees(LoadRoom(d), d.snap, d.log)
<1> DEFINE F == Floor(d.snap)
<1>0. PICK r : /\ r.seen = F
               /\ LoadRoom(d) = [base |-> Cardinality(F), log |-> Fresh(r, d.log),
                                 seen |-> F \union Range(Fresh(r, d.log))]
  BY LoadedRoom
<1> DEFINE fresh == Fresh(r, d.log)
<1>1. d.log \in Seq(Op)
  BY DEF Sane, SaneMain
<1>2. F \subseteq Op /\ IsFiniteSet(F)
  BY FloorFacts DEF Sane
<1>5. /\ fresh \in Seq(Op) /\ Range(fresh) = Range(d.log) \ F
      /\ IsFiniteSet(Range(fresh)) /\ Len(fresh) = Cardinality(Range(fresh))
  BY <1>0, <1>1, FreshOps
<1>6. LoadRoom(d) = [base |-> Cardinality(F), log |-> fresh, seen |-> F \union Range(fresh)]
  BY <1>0
<1> HIDE DEF fresh
<1>7. F \union Range(fresh) = F \union Range(d.log)
  BY <1>5
<1>8. Cardinality(F \union Range(fresh)) = Cardinality(F) + Len(fresh) /\ IsFiniteSet(F \union Range(fresh))
  <2>1. F \intersect Range(fresh) = {}
    BY <1>5
  <2>2. /\ IsFiniteSet(F \union Range(fresh))
        /\ Cardinality(F \union Range(fresh))
             = Cardinality(F) + Cardinality(Range(fresh)) - Cardinality(F \intersect Range(fresh))
    BY <1>2, <1>5, FS_Union
  <2>3. Cardinality(F) \in Nat /\ Cardinality(Range(fresh)) \in Nat
    BY <1>2, <1>5, FS_CardinalityType
  <2>4. Cardinality(F \intersect Range(fresh)) = 0
    BY <2>1, FS_EmptySet
  <2> DEFINE x == Cardinality(F)
             y == Cardinality(Range(fresh))
             z == Cardinality(F \union Range(fresh))
  <2>5. z = x + y - 0 /\ x \in Nat /\ y \in Nat /\ y = Len(fresh)
    BY <1>5, <2>2, <2>3, <2>4
  <2>6. z = x + y
    <3> HIDE DEF x, y, z
    <3> QED BY <2>5
  <2> QED BY <2>2, <2>5, <2>6
<1>9. Range(fresh) \subseteq Op /\ Cardinality(F) \in Nat
  <2> DEFINE l == d.log
  <2>1. Range(l) \subseteq Op
    <3>1. l \in Seq(Op)
      BY <1>1
    <3> HIDE DEF l
    <3> QED BY <3>1 DEF Range
  <2> QED BY <1>2, <1>5, <2>1, FS_CardinalityType
<1> HIDE DEF F
<1> QED BY <1>2, <1>5, <1>6, <1>7, <1>8, <1>9 DEF MainAgrees, SoundRoom, Room, RoomHead, F

LEMMA LoadAgrees ==
  ASSUME NEW d, Sane(d)
  PROVE  Agree(InstallRoom(d), d)
<1> DEFINE m == InstallRoom(d)
<1>1. LoadTails(d) \in [Branch -> Seq(Op)]
      /\ \A b \in DOMAIN d.branches : LoadTails(d)[b] = TailOf(d.branches, d.blog, b)
  <2>1. \A b \in Branch : d.blog[b] \in Seq(Op) /\ DecodeRecords(d.blog[b]) = d.blog[b]
    BY Decoded DEF Sane, SaneStreams
  <2>2. DOMAIN d.branches \subseteq Branch
    BY DEF Sane, SaneStreams
  <2> QED BY <2>1, <2>2 DEF LoadTails, TailOf
<1>2. /\ m.room = LoadRoom(d) /\ m.versions = d.versions /\ m.tails = LoadTails(d)
      /\ m.bases = Restrict(d.bbase, DOMAIN d.bbase \intersect DOMAIN d.branches)
      /\ m.active = IF d.active \in DOMAIN d.branches THEN d.active ELSE Main
      /\ m.branches = [b \in DOMAIN d.branches |->
            IF LoadTails(d)[b] = <<>> THEN d.branches[b]
            ELSE [d.branches[b] EXCEPT !.head = d.branches[b].fork + Len(LoadTails(d)[b])]]
  BY DEF InstallRoom
<1>3. IsMem(m)
  BY DEF InstallRoom, IsMem
<1> HIDE DEF m
<1>4. MainAgrees(m.room, d.snap, d.log)
  BY <1>2, LoadRoomAgrees
<1>5. StreamsAgree(m, d.branches, d.blog, d.bbase, d.active)
  <2>1. \A b \in DOMAIN d.branches : m.branches[b] = Patched(d.branches[b], TailOf(d.branches, d.blog, b))
    BY <1>1, <1>2 DEF Patched
  <2>2. IsMap(m.branches) /\ DOMAIN m.branches = DOMAIN d.branches
    BY <1>2 DEF IsMap
  <2>3. /\ IsMap(m.bases) /\ DOMAIN m.bases = DOMAIN d.bbase \intersect DOMAIN d.branches
        /\ \A b \in DOMAIN m.bases : m.bases[b] = d.bbase[b]
    BY <1>2 DEF Restrict, IsMap
  <2> QED BY <1>1, <1>2, <2>1, <2>2, <2>3 DEF StreamsAgree
<1> QED BY <1>2, <1>3, <1>4, <1>5 DEF Agree, m

(* A restart brings back what memory held.                                 *)
LEMMA AgreeInvisible ==
  ASSUME Kept
  PROVE  RestartInvisible
<1> DEFINE m == InstallRoom(disk)
<1>1. Agree(m, disk) /\ Agree(mem, disk)
  BY LoadAgrees DEF Kept
<1> HIDE DEF m
<1>2. m.room.seen = mem.room.seen /\ RoomHead(m.room) = RoomHead(mem.room)
  BY <1>1 DEF Agree, MainAgrees, SoundRoom
<1>3. m.versions = mem.versions /\ m.active = mem.active
  BY <1>1 DEF Agree, StreamsAgree
<1>4. m.branches = mem.branches /\ m.bases = mem.bases
  BY <1>1 DEF Agree, StreamsAgree, IsMap
<1>5. \A b \in DOMAIN mem.branches : m.tails[b] = mem.tails[b]
  BY <1>1 DEF Agree, StreamsAgree
<1> QED BY <1>2, <1>3, <1>4, <1>5 DEF RestartInvisible, m

-----------------------------------------------------------------------------
(* An operation as a plan of writes.  What each write leaves on disk can   *)
(* be loaded; and if writes may fail here, what is left in memory agrees   *)
(* with what is left on disk.                                              *)
GoodWrite(w, kind) ==
    /\ Sane(w.disk)
    /\ \A left \in w.torn : Sane(left.disk)
    /\ kind \in FailIn => Sane(w.kept.disk) /\ Agree(w.undone, w.kept.disk)

GoodWrites(p, kind) == \E W : p.writes \in Seq(W) /\ \A w \in W : GoodWrite(w, kind)

Settles(p, kind) == GoodWrites(p, kind) /\ Sane(p.disk) /\ Agree(p.mem, p.disk)

LEMMA StartSettles ==
  ASSUME Kept, NEW m, Agree(m, disk), NEW kind
  PROVE  Settles(Start(m), kind) /\ Start(m).mem = m /\ Start(m).disk = disk /\ Start(m).hist = hist
<1>1. /\ Start(m).mem = m /\ Start(m).disk = disk /\ Start(m).hist = hist
      /\ Start(m).writes = <<>>
  BY DEF Start
<1>2. <<>> \in Seq({}) /\ \A w \in {} : GoodWrite(w, kind)
  OBVIOUS
<1>3. GoodWrites(Start(m), kind)
  <2>1. PICK W : W = {}
    OBVIOUS
  <2>2. Start(m).writes \in Seq(W) /\ \A w \in W : GoodWrite(w, kind)
    BY <1>1, <1>2, <2>1
  <2> HIDE DEF Start
  <2> QED BY <2>2 DEF GoodWrites
<1> QED BY <1>1, <1>3 DEF Settles, Kept

LEMMA WriteOrGood ==
  ASSUME NEW p, NEW kind, GoodWrites(p, kind), NEW m, NEW d, Sane(d), NEW h, NEW kept, NEW undone,
         kind \in FailIn => Sane(kept.disk) /\ Agree(undone, kept.disk)
  PROVE  LET q == WriteOr(p, m, d, h, kept, undone)
         IN GoodWrites(q, kind) /\ q.mem = m /\ q.disk = d /\ q.hist = h
<1> DEFINE w == [disk |-> d, hist |-> h, torn |-> {}, kept |-> kept, undone |-> undone]
           q == WriteOr(p, m, d, h, kept, undone)
<1>1. q.writes = Append(p.writes, w) /\ q.mem = m /\ q.disk = d /\ q.hist = h
  BY DEF WriteOr
<1>2. GoodWrite(w, kind)
  BY DEF GoodWrite
<1>3. PICK W : p.writes \in Seq(W) /\ \A x \in W : GoodWrite(x, kind)
  BY DEF GoodWrites
<1> HIDE DEF w, q
<1>4. Append(p.writes, w) \in Seq(W \union {w})
  <2> DEFINE ws == p.writes
  <2>1. ws \in Seq(W)
    BY <1>3
  <2> HIDE DEF ws
  <2>2. ws \in Seq(W \union {w})
    BY <2>1
  <2>3. Append(ws, w) \in Seq(W \union {w})
    BY <2>2
  <2> QED BY <2>3 DEF ws
<1>5. GoodWrites(q, kind)
  BY <1>1, <1>2, <1>3, <1>4 DEF GoodWrites
<1> QED BY <1>1, <1>5 DEF q

LEMMA WriteFileGood ==
  ASSUME NEW p, NEW kind, GoodWrites(p, kind), NEW m, NEW d, Sane(d), NEW h, NEW undone,
         kind \in FailIn => Sane(p.disk) /\ Agree(undone, p.disk)
  PROVE  LET q == WriteFile(p, m, d, h, undone)
         IN GoodWrites(q, kind) /\ q.mem = m /\ q.disk = d /\ q.hist = h
<1> DEFINE kept == [disk |-> p.disk, hist |-> p.hist]
<1>1. kept.disk = p.disk
  OBVIOUS
<1>2. WriteFile(p, m, d, h, undone) = WriteOr(p, m, d, h, kept, undone)
  BY DEF WriteFile
<1> HIDE DEF kept
<1> QED BY <1>1, <1>2, WriteOrGood

(* What the operation comes to: done, cut short by a crash or by a failure.*)
LEMMA PerformKeeps ==
  ASSUME NEW p, NEW kind, Settles(p, kind), Perform(kind, p)
  PROVE  Kept'
<1>0. PICK W : p.writes \in Seq(W) /\ \A x \in W : GoodWrite(x, kind)
  BY DEF Settles, GoodWrites
<1>1. \A i \in DOMAIN p.writes : GoodWrite(p.writes[i], kind)
  <2> DEFINE ws == p.writes
  <2>1. ws \in Seq(W)
    BY <1>0
  <2> HIDE DEF ws
  <2>2. \A i \in DOMAIN ws : ws[i] \in W
    BY <2>1
  <2> QED BY <1>0, <2>2 DEF ws
<1>2. CASE mem' = p.mem /\ disk' = p.disk
  BY <1>2 DEF Settles, Kept
<1>3. ASSUME NEW d, Sane(d), disk' = d, mem' = InstallRoom(d) PROVE Kept'
  BY <1>3, LoadAgrees DEF Kept
<1>4. ASSUME NEW i \in DOMAIN p.writes,
             \E left \in p.writes[i].torn \union
                  (IF i < Len(p.writes) THEN {[disk |-> p.writes[i].disk, hist |-> p.writes[i].hist]} ELSE {}) :
                disk' = left.disk /\ mem' = InstallRoom(left.disk)
      PROVE  Kept'
  <2> DEFINE w == p.writes[i]
  <2>1. GoodWrite(w, kind)
    BY <1>1
  <2>2. PICK left \in w.torn \union {[disk |-> w.disk, hist |-> w.hist]} :
           disk' = left.disk /\ mem' = InstallRoom(left.disk)
    BY <1>4
  <2> HIDE DEF w
  <2>3. Sane(left.disk)
    BY <2>1, <2>2 DEF GoodWrite
  <2> QED BY <1>3, <2>2, <2>3
<1>5. ASSUME kind \in FailIn, NEW i \in DOMAIN p.writes,
             disk' = p.writes[i].kept.disk, mem' = p.writes[i].undone
      PROVE  Kept'
  BY <1>1, <1>5 DEF GoodWrite, Kept
<1> QED BY <1>2, <1>4, <1>5 DEF Perform

-----------------------------------------------------------------------------
(* The registry file is rewritten whole from memory: it stays in step.     *)
LEMMA RegistryRewritten ==
  ASSUME NEW m, NEW branches, NEW blog, NEW bbase, NEW active,
         SaneStreams(branches, blog, bbase), StreamsAgree(m, branches, blog, bbase, active)
  PROVE  /\ SaneStreams(m.branches, blog, bbase)
         /\ StreamsAgree(m, m.branches, blog, bbase, active)
<1>1. /\ DOMAIN m.branches = DOMAIN branches /\ IsMap(m.branches) /\ DOMAIN branches \subseteq Branch
      /\ \A b \in DOMAIN branches : /\ IsPointer(branches[b])
                                    /\ m.branches[b] = Patched(branches[b], TailOf(branches, blog, b))
  BY DEF SaneStreams, StreamsAgree
<1>2. ASSUME NEW b \in DOMAIN branches
      PROVE  /\ IsPointer(m.branches[b])
             /\ TailOf(m.branches, blog, b) = TailOf(branches, blog, b)
             /\ Patched(m.branches[b], TailOf(branches, blog, b)) = m.branches[b]
  <2>1. PICK t : t = TailOf(branches, blog, b)
    OBVIOUS
  <2>2. IsPointer(branches[b]) /\ m.branches[b] = Patched(branches[b], t)
    BY <1>1, <2>1
  <2>3. PICK r : r = branches[b]
    OBVIOUS
  <2>4. IsPointer(r) /\ m.branches[b] = Patched(r, t)
    BY <2>2, <2>3
  <2>5. IsPointer(m.branches[b]) /\ m.branches[b].published = branches[b].published
        /\ Patched(m.branches[b], t) = m.branches[b]
    BY <2>3, <2>4, PatchedPointer
  <2> QED BY <2>1, <2>5 DEF TailOf
<1> QED BY <1>1, <1>2 DEF SaneStreams, StreamsAgree

(* A pointer is added under a name that nothing is left under.             *)
LEMMA PointerAdded ==
  ASSUME NEW m, NEW branches, NEW blog, NEW bbase, NEW active,
         SaneStreams(branches, blog, bbase), StreamsAgree(m, branches, blog, bbase, active),
         NEW b \in Branch \ DOMAIN branches, m.tails[b] = <<>>, blog[b] = <<>>, active # b,
         NEW r, IsPointer(r), ~r.published,
         NEW k, k.tails = m.tails, k.branches = Put(m.branches, b, r), k.active = m.active,
         NEW base,
         \/ k.bases = m.bases /\ b \notin DOMAIN bbase /\ base = bbase
         \/ \E st : k.bases = Put(m.bases, b, st) /\ base = Put(bbase, b, st)
  PROVE  /\ SaneStreams(k.branches, blog, base)
         /\ StreamsAgree(k, k.branches, blog, base, active)
<1>1. SaneStreams(m.branches, blog, bbase) /\ StreamsAgree(m, m.branches, blog, bbase, active)
      /\ DOMAIN m.branches = DOMAIN branches
  <2>1. SaneStreams(m.branches, blog, bbase) /\ StreamsAgree(m, m.branches, blog, bbase, active)
    BY RegistryRewritten
  <2> QED BY <2>1 DEF StreamsAgree
<1>2. /\ IsMap(k.branches) /\ DOMAIN k.branches = DOMAIN m.branches \union {b}
      /\ k.branches[b] = r /\ \A x \in DOMAIN m.branches : x # b /\ k.branches[x] = m.branches[x]
  BY <1>1 DEF Put, IsMap
<1>3. /\ IsMap(base) /\ IsMap(k.bases)
      /\ DOMAIN k.bases = DOMAIN base \intersect DOMAIN k.branches
      /\ \A x \in DOMAIN k.bases : k.bases[x] = base[x]
  <2>1. /\ IsMap(bbase) /\ IsMap(m.bases) /\ DOMAIN m.bases = DOMAIN bbase \intersect DOMAIN m.branches
        /\ \A x \in DOMAIN m.bases : m.bases[x] = bbase[x]
    BY <1>1 DEF SaneStreams, StreamsAgree
  <2>2. CASE k.bases = m.bases /\ b \notin DOMAIN bbase /\ base = bbase
    BY <1>2, <2>1, <2>2
  <2>3. ASSUME NEW st, k.bases = Put(m.bases, b, st), base = Put(bbase, b, st)
        PROVE  /\ IsMap(base) /\ IsMap(k.bases)
               /\ DOMAIN k.bases = DOMAIN base \intersect DOMAIN k.branches
               /\ \A x \in DOMAIN k.bases : k.bases[x] = base[x]
    <3>1. /\ IsMap(base) /\ DOMAIN base = DOMAIN bbase \union {b}
          /\ \A x \in DOMAIN base : base[x] = IF x = b THEN st ELSE bbase[x]
      BY <2>3 DEF Put, IsMap
    <3>2. /\ IsMap(k.bases) /\ DOMAIN k.bases = DOMAIN m.bases \union {b}
          /\ \A x \in DOMAIN k.bases : k.bases[x] = IF x = b THEN st ELSE m.bases[x]
      BY <2>3 DEF Put, IsMap
    <3>3. DOMAIN k.bases = DOMAIN base \intersect DOMAIN k.branches
      BY <1>2, <2>1, <3>1, <3>2
    <3> QED BY <2>1, <3>1, <3>2, <3>3
  <2> QED BY <2>2, <2>3
<1>4. SaneStreams(k.branches, blog, base)
  BY <1>1, <1>2, <1>3 DEF SaneStreams
<1>5. k.active = IF active \in DOMAIN k.branches THEN active ELSE Main
  BY <1>1, <1>2 DEF StreamsAgree
<1>6. ASSUME NEW x \in DOMAIN k.branches
      PROVE  /\ k.branches[x] = Patched(k.branches[x], TailOf(k.branches, blog, x))
             /\ k.tails[x] = TailOf(k.branches, blog, x)
  <2>1. CASE x = b
    BY <1>2, <2>1 DEF TailOf, Patched
  <2>2. CASE x # b
    <3>1. x \in DOMAIN m.branches /\ k.branches[x] = m.branches[x]
      BY <1>2, <2>2
    <3>2. TailOf(k.branches, blog, x) = TailOf(m.branches, blog, x)
      BY <3>1 DEF TailOf
    <3> QED BY <1>1, <3>1, <3>2 DEF StreamsAgree
  <2> QED BY <2>1, <2>2
<1>7. k.tails \in [Branch -> Seq(Op)]
  BY <1>1 DEF StreamsAgree
<1> QED BY <1>2, <1>3, <1>4, <1>5, <1>6, <1>7 DEF StreamsAgree

(* The active HEAD moves to a branch that is there, or back to main.       *)
LEMMA ActiveMoved ==
  ASSUME NEW m, NEW branches, NEW blog, NEW bbase, NEW active,
         SaneStreams(branches, blog, bbase), StreamsAgree(m, branches, blog, bbase, active),
         NEW b \in DOMAIN branches \union {Main},
         NEW k, k.tails = m.tails, k.branches = m.branches, k.bases = m.bases, k.active = b
  PROVE  StreamsAgree(k, branches, blog, bbase, b)
<1>1. Main \notin DOMAIN branches
  BY StreamAssumption DEF SaneStreams
<1> QED BY <1>1 DEF StreamsAgree

(* Fresh ops join a branch's tail and its head follows.                    *)
TailGrows(k, m, b, new) ==
    /\ k.tails = [m.tails EXCEPT ![b] = m.tails[b] \o new]
    /\ k.bases = m.bases
    /\ k.active = m.active
    /\ k.branches = [m.branches EXCEPT ![b].head = m.branches[b].fork + Len(k.tails[b])]

LogGrows(log, blog, b, new) == log = [blog EXCEPT ![b] = blog[b] \o new]

LEMMA TailGrown ==
  ASSUME NEW m, NEW branches, NEW blog, NEW bbase, NEW active,
         SaneStreams(branches, blog, bbase), StreamsAgree(m, branches, blog, bbase, active),
         NEW b \in DOMAIN branches, ~m.branches[b].published,
         NEW new \in Seq(Op), new # <<>>,
         NEW k, TailGrows(k, m, b, new), NEW log, LogGrows(log, blog, b, new)
  PROVE  /\ SaneStreams(k.branches, log, bbase)
         /\ StreamsAgree(k, k.branches, log, bbase, active)
<1> DEFINE tail == m.tails[b] \o new
<1>1. SaneStreams(m.branches, blog, bbase) /\ StreamsAgree(m, m.branches, blog, bbase, active)
      /\ DOMAIN m.branches = DOMAIN branches
  <2>1. SaneStreams(m.branches, blog, bbase) /\ StreamsAgree(m, m.branches, blog, bbase, active)
    BY RegistryRewritten
  <2> QED BY <2>1 DEF StreamsAgree
<1>2. b \in Branch /\ b \in DOMAIN m.branches /\ IsPointer(m.branches[b])
  BY <1>1 DEF SaneStreams
<1>3. blog[b] = m.tails[b] /\ m.tails[b] \in Seq(Op)
  BY <1>1, <1>2 DEF StreamsAgree, TailOf
<1>4. /\ k.tails \in [Branch -> Seq(Op)] /\ k.tails[b] = tail /\ tail \in Seq(Op)
      /\ \A x \in Branch : x # b => k.tails[x] = m.tails[x]
  <2> DEFINE t == m.tails[b]
  <2>1. t \in Seq(Op)
    BY <1>3
  <2> HIDE DEF t
  <2>2. t \o new \in Seq(Op)
    BY <2>1, ConcatRange
  <2> HIDE DEF tail
  <2> QED BY <1>1, <1>2, <2>2 DEF StreamsAgree, TailGrows, t, tail
<1>5. tail # <<>>
  <2> DEFINE t == m.tails[b]
  <2>1. t \in Seq(Op)
    BY <1>3
  <2> HIDE DEF t
  <2>2. Len(t \o new) = Len(t) + Len(new) /\ Len(t) \in Nat /\ Len(new) \in Nat \ {0}
    BY <2>1, ConcatRange
  <2>3. t \o new # <<>>
    BY <2>2
  <2> QED BY <2>3 DEF t
<1>6. /\ log \in [Branch -> Seq(Op)] /\ log[b] = tail /\ \A x \in Branch : x # b => log[x] = blog[x]
  <2> HIDE DEF tail
  <2> QED BY <1>1, <1>2, <1>3, <1>4 DEF SaneStreams, LogGrows, tail
<1> HIDE DEF tail
<1>7. /\ IsMap(k.branches) /\ DOMAIN k.branches = DOMAIN m.branches
      /\ \A x \in DOMAIN m.branches : x # b => k.branches[x] = m.branches[x]
      /\ k.branches[b] = [m.branches[b] EXCEPT !.head = m.branches[b].fork + Len(tail)]
  BY <1>1, <1>2, <1>4 DEF StreamsAgree, TailGrows, IsMap
<1>8. IsPointer(k.branches[b]) /\ ~k.branches[b].published /\ Patched(k.branches[b], tail) = k.branches[b]
  <2>1. PICK r : r = m.branches[b]
    OBVIOUS
  <2>2. k.branches[b] = Patched(r, tail) /\ IsPointer(r) /\ ~r.published
    BY <1>2, <1>5, <1>7, <2>1 DEF Patched
  <2> QED BY <2>2, PatchedPointer
<1>9. SaneStreams(k.branches, log, bbase)
  BY <1>1, <1>6, <1>7, <1>8 DEF SaneStreams
<1>10. ASSUME NEW x \in DOMAIN k.branches
       PROVE  /\ k.branches[x] = Patched(k.branches[x], TailOf(k.branches, log, x))
              /\ k.tails[x] = TailOf(k.branches, log, x)
  <2>1. CASE x = b
    BY <1>4, <1>6, <1>8, <2>1 DEF TailOf
  <2>2. CASE x # b
    <3>1. x \in DOMAIN m.branches /\ x \in Branch /\ k.branches[x] = m.branches[x]
      BY <1>1, <1>7, <2>2 DEF SaneStreams
    <3>2. TailOf(k.branches, log, x) = TailOf(m.branches, blog, x)
      BY <1>6, <2>2, <3>1 DEF TailOf
    <3> QED BY <1>1, <1>4, <2>2, <3>1, <3>2 DEF StreamsAgree
  <2> QED BY <2>1, <2>2
<1>11. StreamsAgree(k, k.branches, log, bbase, active)
  BY <1>1, <1>4, <1>7, <1>10 DEF StreamsAgree, TailGrows
<1> QED BY <1>9, <1>11

(* A branch is published: it has a base, and whatever is in its log file   *)
(* is no longer read.                                                      *)
SameElsewhere(log, blog, b) ==
    log \in [Branch -> Seq(Op)] /\ \A x \in Branch \ {b} : log[x] = blog[x]

Repointed(k, m, b, r, st) ==
    /\ k.tails = [m.tails EXCEPT ![b] = <<>>]
    /\ k.branches = Put(m.branches, b, r)
    /\ k.bases = Put(m.bases, b, st)
    /\ k.active = m.active

LEMMA Published ==
  ASSUME NEW m, NEW branches, NEW blog, NEW bbase, NEW active,
         SaneStreams(branches, blog, bbase), StreamsAgree(m, branches, blog, bbase, active),
         NEW b \in Branch, b \in DOMAIN branches \/ active # b,
         NEW r, IsPointer(r), r.published, NEW st,
         NEW k, Repointed(k, m, b, r, st),
         NEW log, SameElsewhere(log, blog, b), NEW base, base = Put(bbase, b, st)
  PROVE  /\ SaneStreams(k.branches, log, base)
         /\ StreamsAgree(k, k.branches, log, base, active)
<1>0. log \in [Branch -> Seq(Op)] /\ \A x \in Branch \ {b} : log[x] = blog[x]
  BY DEF SameElsewhere
<1>r. /\ k.tails = [m.tails EXCEPT ![b] = <<>>] /\ k.branches = Put(m.branches, b, r)
      /\ k.bases = Put(m.bases, b, st) /\ k.active = m.active
  BY DEF Repointed
<1>1. SaneStreams(m.branches, blog, bbase) /\ StreamsAgree(m, m.branches, blog, bbase, active)
      /\ DOMAIN m.branches = DOMAIN branches
  <2>1. SaneStreams(m.branches, blog, bbase) /\ StreamsAgree(m, m.branches, blog, bbase, active)
    BY RegistryRewritten
  <2> QED BY <2>1 DEF StreamsAgree
<1>2. /\ IsMap(k.branches) /\ DOMAIN k.branches = DOMAIN m.branches \union {b}
      /\ k.branches[b] = r /\ \A x \in DOMAIN m.branches : x # b => k.branches[x] = m.branches[x]
  BY <1>1, <1>r DEF Put, IsMap
<1>3. /\ IsMap(base) /\ IsMap(k.bases)
      /\ DOMAIN k.bases = DOMAIN base \intersect DOMAIN k.branches
      /\ \A x \in DOMAIN k.bases : k.bases[x] = base[x]
  <2>1. /\ IsMap(bbase) /\ IsMap(m.bases) /\ DOMAIN m.bases = DOMAIN bbase \intersect DOMAIN m.branches
        /\ \A x \in DOMAIN m.bases : m.bases[x] = bbase[x]
    BY <1>1 DEF SaneStreams, StreamsAgree
  <2>2. /\ IsMap(base) /\ DOMAIN base = DOMAIN bbase \union {b}
        /\ \A x \in DOMAIN base : base[x] = IF x = b THEN st ELSE bbase[x]
    BY DEF Put, IsMap
  <2>3. /\ IsMap(k.bases) /\ DOMAIN k.bases = DOMAIN m.bases \union {b}
        /\ \A x \in DOMAIN k.bases : k.bases[x] = IF x = b THEN st ELSE m.bases[x]
    BY <1>r DEF Put, IsMap
  <2>4. DOMAIN k.bases = DOMAIN base \intersect DOMAIN k.branches
    BY <1>2, <2>1, <2>2, <2>3
  <2> QED BY <2>1, <2>2, <2>3, <2>4
<1>4. SaneStreams(k.branches, log, base)
  BY <1>0, <1>1, <1>2, <1>3 DEF SaneStreams
<1>5. k.active = IF active \in DOMAIN k.branches THEN active ELSE Main
  BY <1>1, <1>2, <1>r DEF StreamsAgree
<1>6. k.tails \in [Branch -> Seq(Op)] /\ k.tails[b] = <<>> /\ \A x \in Branch \ {b} : k.tails[x] = m.tails[x]
  BY <1>1, <1>r DEF StreamsAgree
<1>7. ASSUME NEW x \in DOMAIN k.branches
      PROVE  /\ k.branches[x] = Patched(k.branches[x], TailOf(k.branches, log, x))
             /\ k.tails[x] = TailOf(k.branches, log, x)
  <2>1. CASE x = b
    BY <1>2, <1>6, <2>1 DEF TailOf, Patched
  <2>2. CASE x # b
    <3>1. x \in DOMAIN m.branches /\ x \in Branch \ {b} /\ k.branches[x] = m.branches[x]
      BY <1>1, <1>2, <2>2 DEF SaneStreams
    <3>2. TailOf(k.branches, log, x) = TailOf(m.branches, blog, x)
      BY <1>0, <3>1 DEF TailOf
    <3> QED BY <1>1, <1>6, <3>1, <3>2 DEF StreamsAgree
  <2> QED BY <2>1, <2>2
<1>8. StreamsAgree(k, k.branches, log, base, active)
  BY <1>2, <1>3, <1>5, <1>6, <1>7 DEF StreamsAgree
<1> QED BY <1>4, <1>8

(* A branch is gone, with its tail, its base and the HEAD on it.           *)
LEMMA Deleted ==
  ASSUME NEW m, NEW branches, NEW blog, NEW bbase, NEW active,
         SaneStreams(branches, blog, bbase), StreamsAgree(m, branches, blog, bbase, active),
         NEW b \in Branch, m.active # b, active # b,
         NEW k, k.tails = [m.tails EXCEPT ![b] = <<>>], k.branches = Drop(m.branches, b),
         k.bases = Drop(m.bases, b), k.active = m.active
  PROVE  StreamsAgree(k, k.branches, [blog EXCEPT ![b] = <<>>], Drop(bbase, b), active)
<1>1. SaneStreams(m.branches, blog, bbase) /\ StreamsAgree(m, m.branches, blog, bbase, active)
      /\ DOMAIN m.branches = DOMAIN branches
  <2>1. SaneStreams(m.branches, blog, bbase) /\ StreamsAgree(m, m.branches, blog, bbase, active)
    BY RegistryRewritten
  <2> QED BY <2>1 DEF StreamsAgree
<1>2. /\ IsMap(k.branches) /\ DOMAIN k.branches = DOMAIN m.branches \ {b}
      /\ \A x \in DOMAIN k.branches : k.branches[x] = m.branches[x]
  BY <1>1 DEF Drop, Restrict, IsMap
<1>3. /\ IsMap(k.bases) /\ DOMAIN k.bases = DOMAIN m.bases \ {b}
      /\ \A x \in DOMAIN k.bases : k.bases[x] = m.bases[x]
  BY <1>1 DEF Drop, Restrict, IsMap
<1>4. /\ DOMAIN Drop(bbase, b) = DOMAIN bbase \ {b}
      /\ \A x \in DOMAIN Drop(bbase, b) : Drop(bbase, b)[x] = bbase[x]
  BY DEF Drop, Restrict
<1>5. k.tails \in [Branch -> Seq(Op)] /\ \A x \in Branch \ {b} : k.tails[x] = m.tails[x]
  BY <1>1 DEF StreamsAgree
<1>6. k.active = IF active \in DOMAIN k.branches THEN active ELSE Main
  BY <1>1, <1>2 DEF StreamsAgree
<1>7. /\ DOMAIN k.bases = DOMAIN Drop(bbase, b) \intersect DOMAIN k.branches
      /\ \A x \in DOMAIN k.bases : k.bases[x] = Drop(bbase, b)[x]
  <2>1. DOMAIN m.bases = DOMAIN bbase \intersect DOMAIN m.branches /\ \A x \in DOMAIN m.bases : m.bases[x] = bbase[x]
    BY <1>1 DEF StreamsAgree
  <2> QED BY <1>2, <1>3, <1>4, <2>1
<1> DEFINE log == [blog EXCEPT ![b] = <<>>]
<1>8. \A x \in Branch \ {b} : log[x] = blog[x]
  BY <1>1 DEF SaneStreams
<1> HIDE DEF log
<1>9. ASSUME NEW x \in DOMAIN k.branches
      PROVE  /\ k.branches[x] = Patched(k.branches[x], TailOf(k.branches, log, x))
             /\ k.tails[x] = TailOf(k.branches, log, x)
  <2>1. x \in DOMAIN m.branches /\ x \in Branch \ {b} /\ k.branches[x] = m.branches[x]
    BY <1>1, <1>2 DEF SaneStreams
  <2>2. TailOf(k.branches, log, x) = TailOf(m.branches, blog, x)
    BY <1>8, <2>1 DEF TailOf
  <2> QED BY <1>1, <1>5, <2>1, <2>2 DEF StreamsAgree
<1>10. StreamsAgree(k, k.branches, log, Drop(bbase, b), active)
  BY <1>2, <1>3, <1>5, <1>6, <1>7, <1>9 DEF StreamsAgree
<1> QED BY <1>10 DEF log

-----------------------------------------------------------------------------
SameStreams(k, m) ==
    k.tails = m.tails /\ k.branches = m.branches /\ k.bases = m.bases /\ k.active = m.active

(* Nothing on disk tells the ordinal counter or the cached trees.          *)
LEMMA CachesFree ==
  ASSUME NEW m, NEW d, Agree(m, d), NEW k, IsMem(k), SameStreams(k, m),
         k.room = m.room, k.versions = m.versions
  PROVE  Agree(k, d)
  BY DEF Agree, SameStreams, StreamsAgree

(* The versions file is rewritten whole.                                   *)
LEMMA VersionsRewritten ==
  ASSUME NEW m, NEW d, Sane(d), Agree(m, d), NEW k, IsMem(k), SameStreams(k, m), k.room = m.room
  PROVE  LET e == [d EXCEPT !.versions = k.versions]
         IN Sane(e) /\ Agree(k, e)
<1> DEFINE e == [d EXCEPT !.versions = k.versions]
<1>1. /\ IsDisk(e) /\ e.versions = k.versions /\ e.log = d.log /\ e.snap = d.snap /\ e.branches = d.branches
      /\ e.blog = d.blog /\ e.bbase = d.bbase /\ e.active = d.active
  BY DEF Sane, IsDisk
<1> HIDE DEF e
<1>2. Sane(e) /\ Agree(k, e)
  BY <1>1 DEF Agree, SameStreams, StreamsAgree, Sane
<1> QED BY <1>2 DEF e

(* The files an append leaves, whole or in part.                           *)
AppendFile(d, s, piece) ==
    IF s = Main THEN [d EXCEPT !.log = d.log \o piece] ELSE [d EXCEPT !.blog[s] = d.blog[s] \o piece]

LEMMA AppendSane ==
  ASSUME NEW d, Sane(d), NEW s \in Stream, NEW piece \in Seq(Op)
  PROVE  LET e == AppendFile(d, s, piece)
         IN /\ Sane(e)
            /\ e.log = IF s = Main THEN d.log \o piece ELSE d.log
            /\ e.blog = IF s = Main THEN d.blog ELSE [d.blog EXCEPT ![s] = d.blog[s] \o piece]
            /\ e.snap = d.snap /\ e.versions = d.versions /\ e.branches = d.branches
            /\ e.bbase = d.bbase /\ e.active = d.active
<1> DEFINE e == AppendFile(d, s, piece)
           l == d.log
           t == d.blog[s]
<1>0. Main \notin Branch
  BY StreamAssumption
<1>1. CASE s = Main
  <2>1. /\ IsDisk(e) /\ e.log = d.log \o piece /\ e.blog = d.blog /\ e.snap = d.snap
        /\ e.versions = d.versions /\ e.branches = d.branches
        /\ e.bbase = d.bbase /\ e.active = d.active
    BY <1>1 DEF AppendFile, Sane, IsDisk
  <2>2. l \in Seq(Op)
    BY DEF Sane, SaneMain
  <2> HIDE DEF l
  <2>3. l \o piece \in Seq(Op)
    BY <2>2, ConcatRange
  <2> HIDE DEF e
  <2>4. Sane(e)
    BY <2>1, <2>3 DEF Sane, SaneMain, l
  <2> QED BY <1>1, <2>1, <2>4 DEF e
<1>2. CASE s # Main
  <2>1. s \in Branch /\ d.blog \in [Branch -> Seq(Op)]
    BY <1>2 DEF Stream, Sane, SaneStreams
  <2>2. /\ IsDisk(e) /\ e.log = d.log /\ e.blog = [d.blog EXCEPT ![s] = d.blog[s] \o piece] /\ e.snap = d.snap
        /\ e.versions = d.versions /\ e.branches = d.branches
        /\ e.bbase = d.bbase /\ e.active = d.active
    BY <1>2 DEF AppendFile, Sane, IsDisk
  <2>3. t \in Seq(Op)
    BY <2>1
  <2> HIDE DEF t
  <2>4. t \o piece \in Seq(Op)
    BY <2>3, ConcatRange
  <2> HIDE DEF e
  <2>5. e.blog \in [Branch -> Seq(Op)]
    BY <2>1, <2>2, <2>4 DEF t
  <2>6. Sane(e)
    BY <2>2, <2>5 DEF Sane, SaneStreams
  <2> QED BY <1>2, <2>2, <2>6 DEF e
<1> QED BY <1>1, <1>2

AppendPast(h, s, piece) == [h EXCEPT !.stream[s] = h.stream[s] \o piece]

(* The write that an append is, with what a crash in it may leave.         *)
AppendWrite(p, s, ops) ==
    [disk |-> AppendFile(p.disk, s, ops), hist |-> AppendPast(p.hist, s, ops),
     torn |-> {[disk |-> AppendFile(p.disk, s, x.file), hist |-> AppendPast(p.hist, s, x.kept)] :
                  x \in AppendPieces(ops)},
     kept |-> [disk |-> p.disk, hist |-> p.hist], undone |-> p.mem]

IsPlan(p) == \E W : p.writes \in Seq(W)

LEMMA LogAppendForm ==
  ASSUME NEW p, IsPlan(p), NEW m, NEW s, NEW ops
  PROVE  LET q == LogAppend(p, m, s, ops)
         IN /\ q.writes = Append(p.writes, AppendWrite(p, s, ops))
            /\ q.mem = m /\ q.disk = AppendFile(p.disk, s, ops) /\ q.hist = AppendPast(p.hist, s, ops)
<1> DEFINE crashes == {[disk |-> AppendFile(p.disk, s, x.file), hist |-> AppendPast(p.hist, s, x.kept)] :
                          x \in AppendPieces(ops)}
           w == [disk |-> AppendFile(p.disk, s, ops), hist |-> AppendPast(p.hist, s, ops), torn |-> {},
                 kept |-> [disk |-> p.disk, hist |-> p.hist], undone |-> p.mem]
           v == AppendWrite(p, s, ops)
           r == [writes |-> Append(p.writes, w), mem |-> m, disk |-> AppendFile(p.disk, s, ops),
                 hist |-> AppendPast(p.hist, s, ops)]
           q == LogAppend(p, m, s, ops)
<1>0. PICK W : p.writes \in Seq(W)
  BY DEF IsPlan
<1>1. q = [r EXCEPT !.writes[Len(r.writes)].torn = crashes]
  BY DEF LogAppend, WriteFile, WriteOr, AppendFile, AppendPast
<1>2. v = [w EXCEPT !.torn = crashes]
  <2>1. v = [disk |-> AppendFile(p.disk, s, ops), hist |-> AppendPast(p.hist, s, ops), torn |-> crashes,
             kept |-> [disk |-> p.disk, hist |-> p.hist], undone |-> p.mem]
    BY DEF AppendWrite
  <2> HIDE DEF crashes, v
  <2> QED BY <2>1
<1> HIDE DEF crashes, v, w
<1>3. [Append(p.writes, w) EXCEPT ![Len(Append(p.writes, w))].torn = crashes] = Append(p.writes, v)
  <2> DEFINE ws == p.writes
             X == W \union {v, w}
  <2>1. ws \in Seq(W)
    BY <1>0
  <2> HIDE DEF ws
  <2>2. ws \in Seq(X) /\ v \in X /\ w \in X
    BY <2>1
  <2> HIDE DEF X
  <2>3. /\ Append(ws, w) \in Seq(X) /\ Len(Append(ws, w)) = Len(ws) + 1 /\ Len(ws) \in Nat
        /\ \A i \in 1 .. Len(ws) : Append(ws, w)[i] = ws[i]
        /\ Append(ws, w)[Len(ws) + 1] = w
    BY <2>2, AppendFacts
  <2>4. /\ Append(ws, v) \in Seq(X) /\ Len(Append(ws, v)) = Len(ws) + 1
        /\ \A i \in 1 .. Len(ws) : Append(ws, v)[i] = ws[i]
        /\ Append(ws, v)[Len(ws) + 1] = v
    BY <2>2, AppendFacts
  <2> DEFINE a == Append(ws, w)
             c == [a EXCEPT ![Len(a)].torn = crashes]
             n == Len(ws)
  <2>5. /\ DOMAIN c = 1 .. n + 1 /\ c = [i \in 1 .. n + 1 |-> c[i]]
        /\ \A i \in 1 .. n : c[i] = ws[i]
        /\ c[n + 1] = v
    <3>1. /\ DOMAIN a = 1 .. n + 1 /\ Len(a) = n + 1 /\ n \in Nat /\ a[n + 1] = w
          /\ \A i \in 1 .. n : a[i] = ws[i]
      BY <2>3
    <3> HIDE DEF a, n
    <3>2. c = [i \in 1 .. n + 1 |-> IF i = n + 1 THEN [a[i] EXCEPT !.torn = crashes] ELSE a[i]]
      BY <3>1
    <3>3. n + 1 \in 1 .. n + 1 /\ \A i \in 1 .. n : i \in 1 .. n + 1 /\ i # n + 1
      BY <3>1
    <3> HIDE DEF c
    <3>4. c[n + 1] = [a[n + 1] EXCEPT !.torn = crashes]
      BY <3>2, <3>3
    <3>5. \A i \in 1 .. n : c[i] = ws[i]
      BY <3>1, <3>2, <3>3
    <3> QED BY <1>2, <3>1, <3>2, <3>4, <3>5
  <2> DEFINE f == Append(ws, v)
  <2>6. /\ DOMAIN f = 1 .. n + 1 /\ f = [i \in 1 .. n + 1 |-> f[i]]
    <3>1. f \in Seq(X) /\ Len(f) = n + 1
      BY <2>4
    <3> HIDE DEF f, n
    <3> QED BY <3>1
  <2>7. c = f
    <3>1. /\ DOMAIN f = 1 .. n + 1 /\ f = [i \in 1 .. n + 1 |-> f[i]] /\ f[n + 1] = v
          /\ n \in Nat /\ \A i \in 1 .. n : f[i] = ws[i]
      BY <2>3, <2>4, <2>6
    <3> HIDE DEF f, c, n
    <3>2. ASSUME NEW i \in 1 .. n + 1 PROVE c[i] = f[i]
      <4>1. CASE i = n + 1
        BY <2>5, <3>1, <4>1
      <4>2. CASE i # n + 1
        <5>1. i \in 1 .. n
          BY <3>1, <4>2
        <5> QED BY <2>5, <3>1, <5>1
      <4> QED BY <4>1, <4>2
    <3> QED BY <2>5, <3>1, <3>2
  <2> QED BY <2>7 DEF ws
<1>4. q.writes = Append(p.writes, v) /\ q.mem = m /\ q.disk = AppendFile(p.disk, s, ops)
      /\ q.hist = AppendPast(p.hist, s, ops)
  <2>1. r.writes = Append(p.writes, w)
    OBVIOUS
  <2>2. q.writes = [r.writes EXCEPT ![Len(r.writes)].torn = crashes]
    BY <1>1
  <2> QED BY <1>1, <1>3, <2>1, <2>2
<1> QED BY <1>4 DEF v

(* What is left of an append that a crash cuts short, with whole records.  *)
LEMMA PiecesWhole ==
  ASSUME ~Tears, NEW ops \in Seq(Op), NEW x \in AppendPieces(ops)
  PROVE  \E k \in 0 .. Len(ops) : x.file = SubSeq(ops, 1, k) /\ x.kept = SubSeq(ops, 1, k)
<1>1. PICK k \in 0 .. (Len(ops) - 1) : x = [kept |-> SubSeq(ops, 1, k), file |-> SubSeq(ops, 1, k)]
  BY DEF AppendPieces
<1>2. k \in 0 .. Len(ops)
  BY <1>1
<1> QED BY <1>1, <1>2

LEMMA LogAppendGood ==
  ASSUME ~Tears, NEW p, NEW kind, GoodWrites(p, kind), Sane(p.disk), kind \in FailIn => Agree(p.mem, p.disk),
         NEW m, NEW s \in Stream, NEW ops \in Seq(Op)
  PROVE  LET q == LogAppend(p, m, s, ops)
         IN GoodWrites(q, kind) /\ q.mem = m /\ q.disk = AppendFile(p.disk, s, ops)
<1> DEFINE v == AppendWrite(p, s, ops)
           q == LogAppend(p, m, s, ops)
           d == p.disk
<1>1. PICK W : p.writes \in Seq(W) /\ \A x \in W : GoodWrite(x, kind)
  BY DEF GoodWrites
<1>2. q.writes = Append(p.writes, v) /\ q.mem = m /\ q.disk = AppendFile(d, s, ops)
  <2>1. IsPlan(p)
    BY <1>1 DEF IsPlan
  <2> HIDE DEF v
  <2>2. LET z == LogAppend(p, m, s, ops)
        IN /\ z.writes = Append(p.writes, AppendWrite(p, s, ops))
           /\ z.mem = m /\ z.disk = AppendFile(p.disk, s, ops) /\ z.hist = AppendPast(p.hist, s, ops)
    BY <2>1, LogAppendForm
  <2> QED BY <2>2 DEF v
<1>3. Sane(d) /\ (kind \in FailIn => Agree(p.mem, d))
  OBVIOUS
<1>4. /\ v.disk = AppendFile(d, s, ops) /\ v.kept.disk = d /\ v.undone = p.mem
      /\ v.torn = {[disk |-> AppendFile(d, s, x.file), hist |-> AppendPast(p.hist, s, x.kept)] :
                   x \in AppendPieces(ops)}
  BY DEF AppendWrite
<1> HIDE DEF d, v, q
<1>5. \A piece \in Seq(Op) : Sane(AppendFile(d, s, piece))
  BY <1>3, AppendSane
<1>6. \A left \in v.torn : Sane(left.disk)
  <2>1. ASSUME NEW x \in AppendPieces(ops) PROVE Sane(AppendFile(d, s, x.file))
    <3>1. PICK k \in 0 .. Len(ops) : x.file = SubSeq(ops, 1, k)
      BY PiecesWhole
    <3>2. SubSeq(ops, 1, k) \in Seq(Op)
      BY SubSeqRange
    <3> QED BY <1>5, <3>1, <3>2
  <2> QED BY <1>4, <2>1
<1>7. GoodWrite(v, kind)
  BY <1>3, <1>4, <1>5, <1>6 DEF GoodWrite
<1>8. GoodWrites(q, kind)
  <2>1. PICK V : V = W \union {v}
    OBVIOUS
  <2>2. Append(p.writes, v) \in Seq(V)
    <3> DEFINE ws == p.writes
    <3>1. ws \in Seq(V) /\ v \in V
      BY <1>1, <2>1
    <3> HIDE DEF ws
    <3> QED BY <3>1, AppendFacts DEF ws
  <2> QED BY <1>1, <1>2, <1>7, <2>1, <2>2 DEF GoodWrites
<1> QED BY <1>2, <1>8 DEF q, d

(* Compaction leaves files that load to the same room at every write.      *)
LEMMA CompactionSettles ==
  ASSUME NEW p, NEW kind, GoodWrites(p, kind), Sane(p.disk), Agree(p.mem, p.disk)
  PROVE  Settles(Compaction(p), kind) /\ Compaction(p).hist = p.hist
<1> DEFINE m == [p.mem EXCEPT !.room = Compact(p.mem.room)]
           d == p.disk
           r == p.mem.room
           snapped == [d EXCEPT !.snap = {[base |-> m.room.base, state |-> m.room.seen]}]
           cut == [snapped EXCEPT !.log = <<>>]
           q == WriteFile(p, m, snapped, p.hist, m)
           w == WriteFile(q, m, cut, p.hist, m)
<1>1. Compaction(p) = w
  BY DEF Compaction
<1>2. /\ IsMem(m) /\ m.room = Compact(r) /\ m.versions = p.mem.versions /\ SameStreams(m, p.mem)
  BY DEF Agree, IsMem, SameStreams
<1>3. SoundRoom(r) /\ r.seen = Floor(d.snap) \union Range(d.log)
  BY DEF Agree, MainAgrees
<1>4. SoundRoom(Compact(r)) /\ Compact(r).seen = r.seen
  <2> HIDE DEF r
  <2> QED BY <1>3, CompactSound
<1>5. Compact(r).base = Cardinality(r.seen) /\ r.seen \in SUBSET Op
  BY <1>3 DEF Compact, SoundRoom, Room
<1>6. /\ IsDisk(snapped) /\ snapped.snap = {[base |-> Cardinality(r.seen), state |-> r.seen]}
      /\ snapped.log = d.log /\ snapped.versions = d.versions /\ snapped.branches = d.branches
      /\ snapped.blog = d.blog /\ snapped.bbase = d.bbase /\ snapped.active = d.active
  <2>1. m.room.base = Cardinality(r.seen) /\ m.room.seen = r.seen
    BY <1>2, <1>4, <1>5
  <2> HIDE DEF m, r
  <2> QED BY <2>1 DEF Sane, IsDisk
<1>7. Floor(snapped.snap) = r.seen
  <2> HIDE DEF snapped, r
  <2> QED BY <1>6, OneSnapshot DEF Floor
<1> HIDE DEF snapped
<1>8. /\ IsDisk(cut) /\ cut.snap = snapped.snap
      /\ cut.log = <<>> /\ cut.versions = d.versions /\ cut.branches = d.branches
      /\ cut.blog = d.blog /\ cut.bbase = d.bbase /\ cut.active = d.active
  BY <1>6 DEF IsDisk
<1> HIDE DEF cut, m
<1>9. Sane(snapped) /\ Sane(cut)
  <2>1. SaneMain(snapped.snap, snapped.log)
    BY <1>5, <1>6 DEF SaneMain, Sane
  <2>2. SaneMain(cut.snap, cut.log)
    BY <1>8, <2>1 DEF SaneMain
  <2> QED BY <1>6, <1>8, <2>1, <2>2 DEF Sane
<1>10. Range(<<>>) = {}
  BY DEF Range
<1>11. Agree(m, d) /\ Agree(m, snapped) /\ Agree(m, cut)
  <2>1. MainAgrees(m.room, d.snap, d.log)
    BY <1>2, <1>3, <1>4 DEF MainAgrees
  <2>2. MainAgrees(m.room, snapped.snap, snapped.log)
    BY <1>2, <1>3, <1>4, <1>6, <1>7 DEF MainAgrees
  <2>3. MainAgrees(m.room, cut.snap, cut.log)
    BY <1>2, <1>4, <1>7, <1>8, <1>10 DEF MainAgrees
  <2>4. m.versions = d.versions /\ StreamsAgree(m, d.branches, d.blog, d.bbase, d.active)
    BY <1>2 DEF Agree, SameStreams, StreamsAgree
  <2> QED BY <1>2, <1>6, <1>8, <2>1, <2>2, <2>3, <2>4 DEF Agree
<1>12. GoodWrites(q, kind) /\ q.mem = m /\ q.disk = snapped /\ q.hist = p.hist
  <2> HIDE DEF d
  <2>1. Agree(m, p.disk)
    BY <1>11 DEF d
  <2> QED BY <1>9, <2>1, WriteFileGood
<1> HIDE DEF q
<1>13. GoodWrites(w, kind) /\ w.mem = m /\ w.disk = cut /\ w.hist = p.hist
  BY <1>9, <1>11, <1>12, WriteFileGood
<1> HIDE DEF w
<1> QED BY <1>1, <1>9, <1>11, <1>13 DEF Settles

SameFiles(e, d) ==
    e.branches = d.branches /\ e.blog = d.blog /\ e.bbase = d.bbase /\ e.active = d.active

(* A capture touches nothing but the versions and the counter.             *)
LEMMA CaptureSettles ==
  ASSUME NEW p, NEW kind, Settles(p, kind), NEW name, NEW origin, NEW seq, NEW state, NEW past
  PROVE  LET q == CaptureVersion(p, name, origin, seq, state, past)
         IN Settles(q, kind) /\ SameStreams(q.mem, p.mem) /\ SameFiles(q.disk, p.disk)
<1> DEFINE spent == [p.mem EXCEPT !.ordinal = p.mem.ordinal + 1]
           v == [seq |-> seq, origin |-> origin, ordinal |-> p.mem.ordinal, state |-> state]
           m == [spent EXCEPT !.versions = Put(spent.versions, name, v)]
           d == [p.disk EXCEPT !.versions = m.versions]
           h == [p.hist EXCEPT !.version = Put(p.hist.version, name, past)]
           w == WriteFile(p, m, d, h, spent)
           q == CaptureVersion(p, name, origin, seq, state, past)
<1>1. q = IF name \in DOMAIN p.mem.versions THEN p ELSE w
  BY DEF CaptureVersion
<1>2. CASE name \in DOMAIN p.mem.versions
  BY <1>1, <1>2 DEF SameStreams, SameFiles
<1>3. CASE name \notin DOMAIN p.mem.versions
  <2>1. /\ IsMem(spent) /\ SameStreams(spent, p.mem) /\ spent.room = p.mem.room
        /\ spent.versions = p.mem.versions
    BY DEF Settles, Agree, IsMem, SameStreams
  <2> HIDE DEF spent, v
  <2>2. IsMem(m) /\ SameStreams(m, spent) /\ m.room = spent.room
    BY <2>1 DEF IsMem, SameStreams
  <2>3. SameStreams(m, p.mem) /\ m.room = p.mem.room
    BY <2>1, <2>2 DEF SameStreams
  <2> HIDE DEF m
  <2>4. Agree(spent, p.disk)
    BY <2>1, CachesFree DEF Settles
  <2>5. Sane(d) /\ Agree(m, d)
    BY <2>2, <2>3, VersionsRewritten DEF Settles
  <2>6. SameFiles(d, p.disk)
    BY DEF SameFiles, Settles, Sane, IsDisk
  <2> HIDE DEF d
  <2>7. GoodWrites(w, kind) /\ w.mem = m /\ w.disk = d
    <3> HIDE DEF h
    <3> QED BY <2>4, <2>5, WriteFileGood DEF Settles
  <2> HIDE DEF w
  <2> QED BY <1>1, <1>3, <2>3, <2>5, <2>6, <2>7 DEF Settles
<1> QED BY <1>2, <1>3

LEMMA CaptureMainSettles ==
  ASSUME NEW p, NEW kind, Settles(p, kind), NEW name, NEW origin
  PROVE  LET q == CaptureMain(p, name, origin)
         IN Settles(q, kind) /\ SameStreams(q.mem, p.mem) /\ SameFiles(q.disk, p.disk)
<1>1. CASE Held(p.mem)
  BY <1>1, CaptureSettles DEF CaptureMain
<1>2. CASE ~Held(p.mem)
  BY <1>2 DEF CaptureMain, SameStreams, SameFiles
<1> QED BY <1>1, <1>2

LEMMA RetainSettles ==
  ASSUME NEW p, NEW kind, Settles(p, kind)
  PROVE  Settles(RetainByOrigin(p), kind)
<1> DEFINE doomed == Evicted(p.mem.versions)
           m == [p.mem EXCEPT !.versions = Restrict(p.mem.versions, DOMAIN p.mem.versions \ doomed)]
           d == [p.disk EXCEPT !.versions = m.versions]
           h == [p.hist EXCEPT !.version = Restrict(p.hist.version, DOMAIN p.hist.version \ doomed)]
           w == WriteFile(p, m, d, h, p.mem)
<1>1. RetainByOrigin(p) = IF doomed = {} THEN p ELSE w
  BY DEF RetainByOrigin
<1>2. IsMem(m) /\ SameStreams(m, p.mem) /\ m.room = p.mem.room
  BY DEF Settles, Agree, IsMem, SameStreams
<1> HIDE DEF m, doomed
<1>3. Sane(d) /\ Agree(m, d)
  BY <1>2, VersionsRewritten DEF Settles
<1> HIDE DEF d, h
<1>4. GoodWrites(w, kind) /\ w.mem = m /\ w.disk = d
  BY <1>3, WriteFileGood DEF Settles
<1> HIDE DEF w
<1> QED BY <1>1, <1>3, <1>4 DEF Settles

-----------------------------------------------------------------------------
(* The operations, one by one.                                             *)
LEMMA BatchSeq ==
  ASSUME NEW s, NEW ops \in Batches(s)
  PROVE  ops \in Seq(Op)
<1>1. PICK n \in 0 .. MaxBatch : ops \in [1 .. n -> {o \in Op : Author[o] = s}]
  BY DEF Batches, BoundedSeq, SeqOf
<1>2. n \in Nat /\ ops \in [1 .. n -> Op]
  BY <1>1, StreamAssumption
<1> QED BY <1>2

(* The room with the fresh ops of a batch.                                 *)
Grown(fresh) ==
    [mem EXCEPT !.room.log = mem.room.log \o fresh, !.room.seen = mem.room.seen \union Range(fresh)]

LEMMA IngestSettles ==
  ASSUME Kept, CleanFaults, NEW ops \in Seq(Op)
  PROVE  LET fresh == Fresh(mem.room, ops)
         IN Settles(LogAppend(Start(mem), Grown(fresh), Main, fresh), "ingest")
<1> DEFINE r == mem.room
           fresh == Fresh(r, ops)
           grown == Grown(fresh)
           next == [base |-> r.base, log |-> r.log \o fresh, seen |-> r.seen \union Range(fresh)]
           s == Start(mem)
           p == LogAppend(s, grown, Main, fresh)
           kind == "ingest"
<1>2. SoundRoom(r) /\ r.seen = Floor(disk.snap) \union Range(disk.log) /\ r \in Room /\ IsMem(mem) /\ ~Tears
  BY DEF Kept, Agree, MainAgrees, SoundRoom, CleanFaults
<1>3. fresh \in Seq(Op)
  BY FreshOps
<1>4. SoundRoom(next)
  <2> HIDE DEF r
  <2> QED BY <1>2, GrownSound
<1>5. IsMem(grown) /\ grown.room = next /\ grown.versions = mem.versions /\ SameStreams(grown, mem)
  <2> HIDE DEF fresh
  <2> QED BY <1>2 DEF IsMem, Room, SameStreams, Grown
<1>6. next.seen = r.seen \union Range(fresh)
  OBVIOUS
<1> HIDE DEF fresh, next, grown
<1>7. Settles(s, kind) /\ s.mem = mem /\ s.disk = disk
  BY StartSettles DEF Kept
<1> HIDE DEF s, kind
<1>8. GoodWrites(p, kind) /\ p.mem = grown /\ p.disk = AppendFile(s.disk, Main, fresh)
  <2>1. Main \in Stream
    BY DEF Stream
  <2>2. GoodWrites(s, kind) /\ Sane(s.disk) /\ Agree(s.mem, s.disk)
    BY <1>7 DEF Settles
  <2> QED BY <1>2, <1>3, <2>1, <2>2, LogAppendGood
<1>9. /\ Sane(p.disk) /\ p.disk.log = disk.log \o fresh /\ p.disk.blog = disk.blog
      /\ p.disk.snap = disk.snap /\ p.disk.versions = disk.versions /\ p.disk.branches = disk.branches
      /\ p.disk.bbase = disk.bbase /\ p.disk.active = disk.active
  <2>1. Main \in Stream
    BY DEF Stream
  <2> HIDE DEF p
  <2>2. Sane(disk) /\ p.disk = AppendFile(disk, Main, fresh)
    BY <1>7, <1>8 DEF Kept
  <2>3. Sane(AppendFile(disk, Main, fresh))
    BY <1>3, <2>1, <2>2, AppendSane
  <2>4. p.disk = [disk EXCEPT !.log = disk.log \o fresh]
    BY <2>2 DEF AppendFile
  <2>5. IsDisk(disk)
    BY DEF Kept, Sane
  <2> QED BY <2>2, <2>3, <2>4, <2>5 DEF IsDisk
<1> HIDE DEF p
<1>10. Agree(p.mem, p.disk)
  <2> DEFINE l == disk.log
  <2>1. l \in Seq(Op)
    BY DEF Kept, Sane, SaneMain
  <2> HIDE DEF l
  <2>2. Range(l \o fresh) = Range(l) \union Range(fresh)
    BY <1>3, <2>1, ConcatRange
  <2>3. MainAgrees(grown.room, p.disk.snap, p.disk.log)
    BY <1>2, <1>4, <1>5, <1>6, <1>9, <2>2 DEF MainAgrees, l
  <2>4. StreamsAgree(grown, p.disk.branches, p.disk.blog, p.disk.bbase, p.disk.active)
    BY <1>5, <1>9 DEF Kept, Agree, StreamsAgree, SameStreams
  <2> QED BY <1>5, <1>8, <1>9, <2>3, <2>4 DEF Agree, Kept
<1> QED BY <1>8, <1>9, <1>10 DEF Settles, p, s, kind, grown, fresh

LEMMA IngestKeeps ==
  ASSUME Kept, CleanFaults, NEW ops \in Batches(Main), IngestOps(ops)
  PROVE  Kept'
<1> DEFINE fresh == Fresh(mem.room, ops)
           p == LogAppend(Start(mem), Grown(fresh), Main, fresh)
           kind == "ingest"
<1>1. ops \in Seq(Op)
  BY BatchSeq
<1>2. Settles(p, kind)
  BY <1>1, IngestSettles
<1>3. Perform(kind, p) \/ Perform(kind, Compaction(p))
  BY DEF IngestOps, Grown
<1> HIDE DEF p, kind
<1>4. Settles(Compaction(p), kind)
  BY <1>2, CompactionSettles DEF Settles
<1> QED BY <1>2, <1>3, <1>4, PerformKeeps

LEMMA IngestBranchKeeps ==
  ASSUME Kept, CleanFaults, NEW b \in Branch, NEW ops \in Batches(b), IngestBranch(b, ops)
  PROVE  Kept'
<1> DEFINE fresh == Fresh([EmptyRoom EXCEPT !.seen = Range(mem.tails[b])], ops)
           grown == [mem EXCEPT !.tails[b] = mem.tails[b] \o fresh]
           s == Start(mem)
           p == LogAppend(s, grown, b, fresh)
           m == [grown EXCEPT !.branches[b].head = mem.branches[b].fork + Len(grown.tails[b])]
           d == [p.disk EXCEPT !.branches = m.branches]
           q == WriteFile(p, m, d, p.hist, p.mem)
           kind == "ingest_branch"
<1>1. ops \in Seq(Op)
  BY BatchSeq
<1>2. fresh \in Seq(Op)
  BY <1>1, FreshOps
<1>3. Perform(kind, q) /\ fresh # <<>> /\ b \in DOMAIN mem.branches /\ ~mem.branches[b].published
  BY DEF IngestBranch, WriteBranches
<1> HIDE DEF fresh
<1>4. /\ IsMem(mem) /\ mem.tails \in [Branch -> Seq(Op)] /\ kind \notin FailIn /\ ~Tears
      /\ SaneStreams(disk.branches, disk.blog, disk.bbase)
      /\ StreamsAgree(mem, disk.branches, disk.blog, disk.bbase, disk.active)
      /\ DOMAIN mem.branches = DOMAIN disk.branches
  BY DEF Kept, Sane, Agree, StreamsAgree, CleanFaults
<1>5. /\ IsMem(grown) /\ grown.tails = [mem.tails EXCEPT ![b] = mem.tails[b] \o fresh]
      /\ grown.branches = mem.branches /\ grown.bases = mem.bases /\ grown.active = mem.active
      /\ grown.room = mem.room /\ grown.versions = mem.versions
  BY <1>4 DEF IsMem
<1> HIDE DEF grown
<1>6. /\ IsMem(m) /\ m.tails = grown.tails /\ m.bases = mem.bases /\ m.active = mem.active
      /\ m.room = mem.room /\ m.versions = mem.versions
      /\ m.branches = [mem.branches EXCEPT ![b].head = mem.branches[b].fork + Len(m.tails[b])]
  BY <1>5 DEF IsMem
<1> HIDE DEF m
<1>7. Settles(s, kind) /\ s.mem = mem /\ s.disk = disk
  BY StartSettles DEF Kept
<1> HIDE DEF s, kind
<1>8. GoodWrites(p, kind) /\ p.mem = grown /\ p.disk = AppendFile(s.disk, b, fresh)
  <2>1. b \in Stream
    BY DEF Stream
  <2>2. GoodWrites(s, kind) /\ Sane(s.disk) /\ Agree(s.mem, s.disk)
    BY <1>7 DEF Settles
  <2> QED BY <1>2, <1>4, <2>1, <2>2, LogAppendGood
<1>9. /\ Sane(p.disk) /\ p.disk.log = disk.log /\ p.disk.blog = [disk.blog EXCEPT ![b] = disk.blog[b] \o fresh]
      /\ p.disk.snap = disk.snap /\ p.disk.versions = disk.versions /\ p.disk.branches = disk.branches
      /\ p.disk.bbase = disk.bbase /\ p.disk.active = disk.active
  <2>1. b \in Stream /\ b # Main
    BY StreamAssumption DEF Stream
  <2> HIDE DEF p
  <2> QED BY <1>2, <1>7, <1>8, <2>1, AppendSane DEF Kept
<1> HIDE DEF p
<1>10. /\ SaneStreams(m.branches, p.disk.blog, disk.bbase)
       /\ StreamsAgree(m, m.branches, p.disk.blog, disk.bbase, disk.active)
  <2> DEFINE br == disk.branches
             bl == disk.blog
             bb == disk.bbase
             ac == disk.active
             lg == p.disk.blog
  <2>1. SaneStreams(br, bl, bb) /\ StreamsAgree(mem, br, bl, bb, ac) /\ b \in DOMAIN br
    BY <1>3, <1>4
  <2>2. TailGrows(m, mem, b, fresh) /\ LogGrows(lg, bl, b, fresh)
    BY <1>5, <1>6, <1>9 DEF TailGrows, LogGrows
  <2> HIDE DEF br, bl, bb, ac, lg
  <2>3. SaneStreams(m.branches, lg, bb) /\ StreamsAgree(m, m.branches, lg, bb, ac)
    BY <1>2, <1>3, <2>1, <2>2, TailGrown
  <2> QED BY <2>3 DEF br, bl, bb, ac, lg
<1>11. /\ IsDisk(d) /\ d.branches = m.branches /\ d.log = disk.log /\ d.snap = disk.snap
       /\ d.blog = p.disk.blog /\ d.versions = disk.versions /\ d.bbase = disk.bbase /\ d.active = disk.active
  BY <1>9 DEF Sane, IsDisk
<1> HIDE DEF d
<1>12. Sane(d) /\ Agree(m, d)
  BY <1>6, <1>10, <1>11 DEF Sane, Agree, Kept
<1>13. GoodWrites(q, kind) /\ q.mem = m /\ q.disk = d
  BY <1>4, <1>8, <1>12, WriteFileGood
<1> HIDE DEF q
<1>14. Settles(q, kind)
  BY <1>12, <1>13 DEF Settles
<1> QED BY <1>3, <1>14, PerformKeeps

LEMMA CompactKeeps ==
  ASSUME Kept, CompactRoom
  PROVE  Kept'
<1>1. Settles(Start(mem), "compact")
  BY StartSettles DEF Kept
<1>2. Settles(Compaction(Start(mem)), "compact")
  BY <1>1, CompactionSettles DEF Settles
<1> QED BY <1>2, PerformKeeps DEF CompactRoom

LEMMA ImportKeeps ==
  ASSUME Kept, NEW state \in SUBSET Op, ImportRoom(state)
  PROVE  Kept'
<1> DEFINE room == InstallSnapshot(state, Cardinality(state))
           m == [mem EXCEPT !.room = room, !.trees = Empty]
           p == Start(m)
           d == [disk EXCEPT !.snap = {[base |-> room.base, state |-> state]}]
           h == [hist EXCEPT !.stream[Main] = SetToSeq(state)]
           q == WriteFile(p, p.mem, d, h, mem)
<1>1. Perform("import", q) /\ mem.room = EmptyRoom
  BY DEF ImportRoom, Held
<1>2. IsFiniteSet(state)
  BY StreamAssumption, FS_Subset
<1>3. SoundRoom(room) /\ room.seen = state /\ room.base = Cardinality(state)
  BY <1>2, InstallSound DEF InstallSnapshot
<1> HIDE DEF room
<1>4. IsMem(m) /\ m.room = room /\ m.versions = mem.versions /\ SameStreams(m, mem)
  BY DEF Kept, Agree, IsMem, SameStreams
<1>5. /\ IsDisk(d) /\ d.snap = {[base |-> Cardinality(state), state |-> state]} /\ d.log = disk.log
      /\ d.versions = disk.versions /\ d.branches = disk.branches /\ d.blog = disk.blog
      /\ d.bbase = disk.bbase /\ d.active = disk.active
  BY <1>3 DEF Kept, Sane, IsDisk
<1> HIDE DEF d, m, h
<1>6. Floor(d.snap) = state
  BY <1>5, OneSnapshot DEF Floor
<1>7. disk.log \in Seq(Op) /\ Range(disk.log) = {}
  BY <1>1 DEF Kept, Agree, MainAgrees, EmptyRoom, Sane, SaneMain
<1>8. Sane(d)
  BY <1>5 DEF Sane, SaneMain, Kept
<1>9. Agree(m, d)
  <2>1. MainAgrees(m.room, d.snap, d.log)
    BY <1>3, <1>4, <1>5, <1>6, <1>7 DEF MainAgrees
  <2> QED BY <1>4, <1>5, <2>1 DEF Agree, Kept, StreamsAgree, SameStreams
<1>10. p.mem = m /\ p.disk = disk /\ p.writes = <<>>
  BY DEF Start
<1>11. GoodWrites(p, "import")
  <2>1. PICK W : W = {}
    OBVIOUS
  <2>2. p.writes \in Seq(W) /\ \A w \in W : GoodWrite(w, "import")
    BY <1>10, <2>1
  <2> HIDE DEF p
  <2> QED BY <2>2 DEF GoodWrites
<1> HIDE DEF p
<1>12. GoodWrites(q, "import") /\ q.mem = p.mem /\ q.disk = d
  BY <1>8, <1>10, <1>11, WriteFileGood DEF Kept
<1> HIDE DEF q
<1>13. Settles(q, "import")
  BY <1>8, <1>9, <1>10, <1>12 DEF Settles
<1> QED BY <1>1, <1>13, PerformKeeps

(* An operation that writes the versions file alone.                       *)
LEMMA VersionsKeep ==
  ASSUME Kept, NEW m, IsMem(m), SameStreams(m, mem), m.room = mem.room, NEW h, NEW kind,
         Perform(kind, WriteFile(Start(mem), m, [disk EXCEPT !.versions = m.versions], h, mem))
  PROVE  Kept'
<1> DEFINE d == [disk EXCEPT !.versions = m.versions]
           s == Start(mem)
           q == WriteFile(s, m, d, h, mem)
<1>1. Perform(kind, q)
  OBVIOUS
<1>2. Sane(d) /\ Agree(m, d)
  BY VersionsRewritten DEF Kept
<1>3. Settles(s, kind) /\ s.disk = disk
  BY StartSettles DEF Kept
<1> HIDE DEF d, s
<1>4. GoodWrites(q, kind) /\ q.mem = m /\ q.disk = d
  BY <1>2, <1>3, WriteFileGood DEF Settles, Kept
<1> HIDE DEF q
<1>5. Settles(q, kind)
  BY <1>2, <1>4 DEF Settles
<1> QED BY <1>1, <1>5, PerformKeeps

LEMMA CreateVersionKeeps ==
  ASSUME Kept, NEW name, CreateVersion(name)
  PROVE  Kept'
<1> DEFINE s == Start(mem)
           none == {}
           kind == "version"
           q == CaptureMain(s, name, none)
<1>1. Perform(kind, q)
  BY DEF CreateVersion
<1>2. Settles(s, kind)
  BY StartSettles DEF Kept
<1> HIDE DEF s, none, kind
<1>3. Settles(q, kind)
  BY <1>2, CaptureMainSettles
<1> HIDE DEF q
<1> QED BY <1>1, <1>3, PerformKeeps

LEMMA AutoVersionKeeps ==
  ASSUME Kept, NEW tick, AutoVersion(tick)
  PROVE  Kept'
<1> DEFINE s == Start(mem)
           name == <<"auto", tick>>
           origin == {Trigger}
           kind == "version"
           c == CaptureMain(s, name, origin)
           p == IF Keep = 0 THEN s ELSE c
           q == RetainByOrigin(p)
<1>1. Perform(kind, q)
  BY DEF AutoVersion
<1>2. Settles(s, kind)
  BY StartSettles DEF Kept
<1> HIDE DEF s, name, origin, kind
<1>3. Settles(c, kind)
  BY <1>2, CaptureMainSettles
<1> HIDE DEF c
<1>4. Settles(p, kind)
  BY <1>2, <1>3
<1> HIDE DEF p
<1>5. Settles(q, kind)
  BY <1>4, RetainSettles
<1> HIDE DEF q
<1> QED BY <1>1, <1>5, PerformKeeps

LEMMA RenameVersionKeeps ==
  ASSUME Kept, NEW from, NEW to, RenameVersion(from, to)
  PROVE  Kept'
<1> DEFINE v == [mem.versions[from] EXCEPT !.origin = {}]
           m == [mem EXCEPT !.versions = Put(Drop(mem.versions, from), to, v)]
           h == [hist EXCEPT !.version = Put(Drop(hist.version, from), to, hist.version[from])]
           kind == "version"
<1>1. Perform(kind, WriteFile(Start(mem), m, [disk EXCEPT !.versions = m.versions], h, mem))
  BY DEF RenameVersion
<1> HIDE DEF v, h, kind
<1>2. IsMem(m) /\ SameStreams(m, mem) /\ m.room = mem.room
  BY DEF Kept, Agree, IsMem, SameStreams
<1> HIDE DEF m
<1> QED BY <1>1, <1>2, VersionsKeep

LEMMA DeleteVersionKeeps ==
  ASSUME Kept, NEW name, DeleteVersion(name)
  PROVE  Kept'
<1> DEFINE m == [mem EXCEPT !.versions = Drop(mem.versions, name)]
           h == [hist EXCEPT !.version = Drop(hist.version, name)]
           kind == "version"
<1>1. Perform(kind, WriteFile(Start(mem), m, [disk EXCEPT !.versions = m.versions], h, mem))
  BY DEF DeleteVersion
<1> HIDE DEF h, kind
<1>2. IsMem(m) /\ SameStreams(m, mem) /\ m.room = mem.room
  BY DEF Kept, Agree, IsMem, SameStreams
<1> HIDE DEF m
<1> QED BY <1>1, <1>2, VersionsKeep

-----------------------------------------------------------------------------
(* A name nothing is left under, in a hub and in its files.                *)
CleanName(m, d, b) ==
    /\ b \in Branch /\ b \notin DOMAIN m.branches
    /\ m.tails[b] = <<>> /\ d.blog[b] = <<>> /\ b \notin DOMAIN d.bbase /\ d.active # b

LEMMA PutDrop ==
  ASSUME NEW f, IsMap(f), NEW k, k \notin DOMAIN f, NEW v
  PROVE  Drop(Put(f, k, v), k) = f
  BY DEF Drop, Put, Restrict, IsMap

LEMMA PutBack ==
  ASSUME NEW f, IsMap(f), NEW k \in DOMAIN f, NEW v
  PROVE  Put(Put(f, k, v), k, f[k]) = f
  BY DEF Put, IsMap

LEMMA ForkBranchKeeps ==
  ASSUME Kept, CleanFaults, NEW new \in Branch, NEW from, ForkBranch(new, from)
  PROVE  Kept'
<1> DEFINE at == StreamHead(mem, from)
           r == NewFork(at)
           k == [mem EXCEPT !.branches = Put(mem.branches, new, r)]
           m == [k EXCEPT !.trees = Drop(k.trees, new)]
           h == [hist EXCEPT !.stream[new] = SubSeq(hist.stream[from], 1, at)]
           s == Start(mem)
           d == [s.disk EXCEPT !.branches = m.branches]
           q == WriteFile(s, m, d, h, s.mem)
           kind == "fork"
           br == disk.branches
           bl == disk.blog
           bb == disk.bbase
           ac == disk.active
<1>1. Perform(kind, q) /\ new \notin DOMAIN mem.branches /\ Clean(new)
  BY DEF ForkBranch, WriteBranches, ForgetTree, CleanFaults
<1>2. IsPointer(r) /\ ~r.published
  BY DEF NewFork, IsPointer
<1> HIDE DEF h, r
<1>3. /\ IsMem(m) /\ m.branches = Put(mem.branches, new, r) /\ m.tails = mem.tails /\ m.bases = mem.bases
      /\ m.active = mem.active /\ m.room = mem.room /\ m.versions = mem.versions
  <2>1. /\ IsMem(k) /\ k.branches = Put(mem.branches, new, r) /\ k.tails = mem.tails /\ k.bases = mem.bases
        /\ k.active = mem.active /\ k.room = mem.room /\ k.versions = mem.versions
    BY DEF Kept, Agree, IsMem
  <2> HIDE DEF k
  <2> QED BY <2>1 DEF IsMem
<1> HIDE DEF m
<1>4. Settles(s, kind) /\ s.mem = mem /\ s.disk = disk
  BY StartSettles DEF Kept
<1> HIDE DEF s, kind
<1>5. /\ SaneStreams(br, bl, bb) /\ StreamsAgree(mem, br, bl, bb, ac) /\ new \in Branch \ DOMAIN br
      /\ mem.tails[new] = <<>> /\ bl[new] = <<>> /\ ac # new /\ new \notin DOMAIN bb
  BY <1>1 DEF Kept, Sane, Agree, StreamsAgree, Clean
<1>6. /\ IsDisk(d) /\ d.branches = m.branches /\ d.blog = bl /\ d.bbase = bb /\ d.active = ac
      /\ d.log = disk.log /\ d.snap = disk.snap /\ d.versions = disk.versions
  BY <1>4 DEF Kept, Sane, IsDisk
<1> HIDE DEF br, bl, bb, ac, d
<1>7. SaneStreams(m.branches, bl, bb) /\ StreamsAgree(m, m.branches, bl, bb, ac)
  BY <1>2, <1>3, <1>5, PointerAdded
<1>8. Sane(d) /\ Agree(m, d)
  BY <1>3, <1>6, <1>7 DEF Sane, Agree, Kept
<1>9. GoodWrites(q, kind) /\ q.mem = m /\ q.disk = d
  BY <1>4, <1>8, WriteFileGood DEF Settles
<1> HIDE DEF q
<1>10. Settles(q, kind)
  BY <1>8, <1>9 DEF Settles
<1> QED BY <1>1, <1>10, PerformKeeps

(* A fork from a version: the base, then the pointer, which takes the base *)
(* away again when it cannot be written.                                   *)
LEMMA ForkFromVersionSettles ==
  ASSUME NEW p, NEW kind, Settles(p, kind), NEW new, CleanName(p.mem, p.disk, new), NEW version
  PROVE  LET w == ForkFromVersion(p, new, version)
         IN Settles(w, kind) /\ new \in DOMAIN w.disk.branches
<1> DEFINE v == p.mem.versions[version]
           st == v.state
           r == NewFork(v.seq)
           based == [p.mem EXCEPT !.bases = Put(p.mem.bases, new, st), !.trees = Drop(p.mem.trees, new)]
           e == [p.disk EXCEPT !.bbase = Put(p.disk.bbase, new, st)]
           q == WriteFile(p, based, e, p.hist, p.mem)
           m == [based EXCEPT !.branches = Put(based.branches, new, r)]
           undone == [based EXCEPT !.bases = Drop(based.bases, new)]
           d == [q.disk EXCEPT !.branches = m.branches]
           h == [p.hist EXCEPT !.stream[new] = p.hist.version[version]]
           kept == [disk |-> [q.disk EXCEPT !.bbase = Drop(q.disk.bbase, new)], hist |-> p.hist]
           w == WriteOr(q, m, d, h, kept, undone)
           br == p.disk.branches
           bl == p.disk.blog
           bb == p.disk.bbase
           ac == p.disk.active
           k == p.mem
<1>1. ForkFromVersion(p, new, version) = w
  BY DEF ForkFromVersion
<1>2. IsPointer(r) /\ ~r.published
  BY DEF NewFork, IsPointer
<1>3. /\ SaneStreams(br, bl, bb) /\ StreamsAgree(k, br, bl, bb, ac) /\ new \in Branch \ DOMAIN br
      /\ k.tails[new] = <<>> /\ bl[new] = <<>> /\ ac # new /\ new \notin DOMAIN bb
      /\ IsMap(bb) /\ IsMap(k.bases) /\ new \notin DOMAIN k.bases
      /\ IsMem(k) /\ GoodWrites(p, kind) /\ Sane(p.disk) /\ Agree(k, p.disk) /\ IsDisk(p.disk)
  BY DEF Settles, Sane, Agree, SaneStreams, StreamsAgree, CleanName
<1> HIDE DEF st, r, h
<1>4. /\ IsMem(based) /\ based.bases = Put(k.bases, new, st) /\ based.branches = k.branches /\ based.tails = k.tails
      /\ based.active = k.active /\ based.room = k.room /\ based.versions = k.versions
  BY <1>3 DEF IsMem
<1>5. /\ IsDisk(e) /\ e.bbase = Put(bb, new, st) /\ e.branches = br /\ e.blog = bl /\ e.active = ac
      /\ e.log = p.disk.log /\ e.snap = p.disk.snap /\ e.versions = p.disk.versions
  BY <1>3 DEF IsDisk
<1> HIDE DEF based, e
<1>6. /\ IsMem(m) /\ m.branches = Put(k.branches, new, r) /\ m.bases = Put(k.bases, new, st) /\ m.tails = k.tails
      /\ m.active = k.active /\ m.room = k.room /\ m.versions = k.versions
  BY <1>4 DEF IsMem
<1>7. /\ IsMem(undone) /\ undone.bases = Drop(Put(k.bases, new, st), new) /\ undone.branches = k.branches
      /\ undone.tails = k.tails /\ undone.active = k.active /\ undone.room = k.room /\ undone.versions = k.versions
  BY <1>4 DEF IsMem
<1> HIDE DEF m, undone
<1>8. Sane(e)
  <2>1. SaneStreams(br, bl, e.bbase)
    BY <1>3, <1>5 DEF SaneStreams, IsMap, Put
  <2> QED BY <1>3, <1>5, <2>1 DEF Sane
<1>9. GoodWrites(q, kind) /\ q.disk = e /\ q.mem = based
  <2> HIDE DEF br, bl, bb, ac
  <2> QED BY <1>3, <1>8, WriteFileGood
<1> HIDE DEF q
<1>10. /\ IsDisk(d) /\ d.bbase = Put(bb, new, st) /\ d.branches = m.branches /\ d.blog = bl /\ d.active = ac
       /\ d.log = p.disk.log /\ d.snap = p.disk.snap /\ d.versions = p.disk.versions
  BY <1>5, <1>9 DEF IsDisk
<1>11. kept.disk = p.disk
  <2>1. kept.disk = [e EXCEPT !.bbase = Drop(e.bbase, new)]
    BY <1>9
  <2>2. Drop(Put(bb, new, st), new) = bb
    BY <1>3, PutDrop
  <2>3. kept.disk = [e EXCEPT !.bbase = bb]
    BY <1>5, <2>1, <2>2
  <2> HIDE DEF kept
  <2> QED BY <1>3, <1>5, <2>3 DEF IsDisk
<1> HIDE DEF kept, d
<1>12. Agree(undone, p.disk)
  <2>1. undone.bases = k.bases
    BY <1>3, <1>7, PutDrop
  <2>2. SameStreams(undone, k)
    BY <1>7, <2>1 DEF SameStreams
  <2> HIDE DEF k
  <2> QED BY <1>3, <1>7, <2>2, CachesFree
<1>13. SaneStreams(m.branches, bl, d.bbase) /\ StreamsAgree(m, m.branches, bl, d.bbase, ac)
  <2> DEFINE db == d.bbase
  <2>1. db = Put(bb, new, st) /\ m.bases = Put(k.bases, new, st)
    BY <1>6, <1>10
  <2>2. \E x : m.bases = Put(k.bases, new, x) /\ db = Put(bb, new, x)
    BY <2>1
  <2> HIDE DEF db, br, bl, bb, ac, k
  <2>3. SaneStreams(m.branches, bl, db) /\ StreamsAgree(m, m.branches, bl, db, ac)
    BY <1>2, <1>3, <1>6, <2>2, PointerAdded
  <2> QED BY <2>3 DEF db
<1>14. Sane(d) /\ Agree(m, d)
  BY <1>3, <1>6, <1>10, <1>13 DEF Sane, Agree
<1>15. GoodWrites(w, kind) /\ w.mem = m /\ w.disk = d
  BY <1>3, <1>9, <1>11, <1>12, <1>14, WriteOrGood
<1>16. new \in DOMAIN m.branches
  BY <1>6 DEF Put
<1> HIDE DEF w
<1> QED BY <1>1, <1>10, <1>14, <1>15, <1>16 DEF Settles

LEMMA ForkBranchFromVersionKeeps ==
  ASSUME Kept, CleanFaults, NEW new \in Branch, NEW version, ForkBranchFromVersion(new, version)
  PROVE  Kept'
<1> DEFINE s == Start(mem)
           kind == "fork_version"
           q == ForkFromVersion(s, new, version)
<1>1. Perform(kind, q) /\ CleanName(mem, disk, new)
  BY DEF ForkBranchFromVersion, Clean, CleanName, CleanFaults
<1>2. Settles(s, kind) /\ s.mem = mem /\ s.disk = disk
  BY StartSettles DEF Kept
<1> HIDE DEF s, kind
<1>3. Settles(q, kind)
  BY <1>1, <1>2, ForkFromVersionSettles
<1> HIDE DEF q
<1> QED BY <1>1, <1>3, PerformKeeps

LEMMA SetActiveSettles ==
  ASSUME NEW p, NEW kind, Settles(p, kind), NEW b \in DOMAIN p.disk.branches \union {Main}
  PROVE  Settles(SetActiveBranch(p, b), kind)
<1> DEFINE m == [p.mem EXCEPT !.active = b]
           d == [p.disk EXCEPT !.active = b]
           w == WriteFile(p, m, d, p.hist, p.mem)
           br == p.disk.branches
           bl == p.disk.blog
           bb == p.disk.bbase
           ac == p.disk.active
           k == p.mem
<1>1. SetActiveBranch(p, b) = IF p.mem.active = b THEN p ELSE w
  BY DEF SetActiveBranch
<1>2. /\ IsMem(m) /\ m.branches = k.branches /\ m.bases = k.bases /\ m.tails = k.tails
      /\ m.active = b /\ m.room = k.room /\ m.versions = k.versions
  BY DEF Settles, Agree, IsMem
<1>3. /\ IsDisk(d) /\ d.bbase = bb /\ d.branches = br /\ d.blog = bl /\ d.active = b
      /\ d.log = p.disk.log /\ d.snap = p.disk.snap /\ d.versions = p.disk.versions
  BY DEF Settles, Sane, IsDisk
<1>4. SaneStreams(br, bl, bb) /\ StreamsAgree(k, br, bl, bb, ac) /\ b \in DOMAIN br \union {Main}
  BY DEF Settles, Sane, Agree
<1> HIDE DEF m, d
<1>5. StreamsAgree(m, br, bl, bb, b)
  <2> HIDE DEF br, bl, bb, ac, k
  <2> QED BY <1>2, <1>4, ActiveMoved
<1>6. Sane(d) /\ Agree(m, d)
  BY <1>2, <1>3, <1>5 DEF Settles, Sane, Agree
<1>7. GoodWrites(w, kind) /\ w.mem = m /\ w.disk = d
  <2> HIDE DEF br, bl, bb, ac, k
  <2> QED BY <1>6, WriteFileGood DEF Settles
<1> HIDE DEF w
<1> QED BY <1>1, <1>6, <1>7 DEF Settles

LEMMA RestoreAsBranchKeeps ==
  ASSUME Kept, CleanFaults, NEW new \in Branch, NEW version, RestoreAsBranch(version, new)
  PROVE  Kept'
<1> DEFINE s == Start(mem)
           kind == "restore"
           none == {}
           name == <<"restore", new, RoomHead(mem.room)>>
           f == ForkFromVersion(s, new, version)
           c == CaptureMain(f, name, none)
           q == SetActiveBranch(c, new)
<1>1. Perform(kind, q) /\ CleanName(mem, disk, new)
  BY DEF RestoreAsBranch, Clean, CleanName, CleanFaults
<1>2. Settles(s, kind) /\ s.mem = mem /\ s.disk = disk
  BY StartSettles DEF Kept
<1> HIDE DEF s, kind, name, none
<1>3. Settles(f, kind) /\ new \in DOMAIN f.disk.branches
  BY <1>1, <1>2, ForkFromVersionSettles
<1> HIDE DEF f
<1>4. Settles(c, kind) /\ SameFiles(c.disk, f.disk)
  BY <1>3, CaptureMainSettles
<1> HIDE DEF c
<1>5. new \in DOMAIN c.disk.branches
  BY <1>3, <1>4 DEF SameFiles
<1>6. Settles(q, kind)
  BY <1>4, <1>5, SetActiveSettles
<1> HIDE DEF q
<1> QED BY <1>1, <1>6, PerformKeeps

(* The base is replaced, then the pointer, then the log file of what the   *)
(* name held before goes; a pointer that cannot be written restores the    *)
(* base, on disk and in memory.                                            *)
LEMMA RepointSettles ==
  ASSUME NEW p, NEW kind, Settles(p, kind), NEW b \in Branch,
         b \in DOMAIN p.mem.branches \/ CleanName(p.mem, p.disk, b),
         NEW seq, NEW state, NEW past
  PROVE  Settles(RepointPublished(p, b, seq, state, past), kind)
<1> DEFINE h == [p.hist EXCEPT !.stream[b] = past]
           h0 == IF b \in DOMAIN p.mem.branches THEN h ELSE p.hist
           based == [p.mem EXCEPT !.bases = Put(p.mem.bases, b, state), !.trees = Drop(p.mem.trees, b)]
           e == [p.disk EXCEPT !.bbase = Put(p.disk.bbase, b, state)]
           q == WriteFile(p, based, e, h0, p.mem)
           Restored(bases) == IF b \in DOMAIN p.mem.bases THEN Put(bases, b, p.mem.bases[b]) ELSE Drop(bases, b)
           r == [fork |-> seq, head |-> seq, published |-> TRUE]
           pointed == [based EXCEPT !.branches = Put(based.branches, b, r)]
           d == [q.disk EXCEPT !.branches = pointed.branches]
           kept == [disk |-> [q.disk EXCEPT !.bbase = Restored(q.disk.bbase)], hist |-> p.hist]
           undone == [based EXCEPT !.bases = Restored(based.bases)]
           w == WriteOr(q, pointed, d, h, kept, undone)
           m == [pointed EXCEPT !.tails[b] = <<>>]
           g == [w.disk EXCEPT !.blog[b] = <<>>]
           z == WriteFile(w, m, g, h, m)
           br == p.disk.branches
           bl == p.disk.blog
           bb == p.disk.bbase
           ac == p.disk.active
           k == p.mem
<1>1. RepointPublished(p, b, seq, state, past) = z
  BY DEF RepointPublished
<1>2. IsPointer(r) /\ r.published
  BY DEF IsPointer
<1>3. /\ SaneStreams(br, bl, bb) /\ StreamsAgree(k, br, bl, bb, ac)
      /\ b \in DOMAIN br \/ ac # b
      /\ IsMap(bb) /\ IsMap(k.bases)
      /\ b \in DOMAIN k.bases <=> b \in DOMAIN bb
      /\ b \in DOMAIN k.bases => k.bases[b] = bb[b]
      /\ bl \in [Branch -> Seq(Op)]
      /\ IsMem(k) /\ GoodWrites(p, kind) /\ Sane(p.disk) /\ Agree(k, p.disk) /\ IsDisk(p.disk)
  BY DEF Settles, Sane, Agree, SaneStreams, StreamsAgree, CleanName
<1> HIDE DEF r, h
<1>4. /\ IsMem(based) /\ based.bases = Put(k.bases, b, state) /\ based.branches = k.branches /\ based.tails = k.tails
      /\ based.active = k.active /\ based.room = k.room /\ based.versions = k.versions
  BY <1>3 DEF IsMem
<1>5. /\ IsDisk(e) /\ e.bbase = Put(bb, b, state) /\ e.branches = br /\ e.blog = bl /\ e.active = ac
      /\ e.log = p.disk.log /\ e.snap = p.disk.snap /\ e.versions = p.disk.versions
  BY <1>3 DEF IsDisk
<1>6. Restored(Put(bb, b, state)) = bb /\ Restored(Put(k.bases, b, state)) = k.bases
  <2>1. CASE b \in DOMAIN k.bases
    <3>1. b \in DOMAIN bb /\ k.bases[b] = bb[b]
      BY <1>3, <2>1
    <3>2. Put(Put(bb, b, state), b, bb[b]) = bb /\ Put(Put(k.bases, b, state), b, k.bases[b]) = k.bases
      BY <1>3, <2>1, <3>1, PutBack
    <3> QED BY <2>1, <3>1, <3>2
  <2>2. CASE b \notin DOMAIN k.bases
    <3>1. Drop(Put(bb, b, state), b) = bb /\ Drop(Put(k.bases, b, state), b) = k.bases
      BY <1>3, <2>2, PutDrop
    <3> QED BY <2>2, <3>1
  <2> QED BY <2>1, <2>2
<1> HIDE DEF based, e, Restored
<1>7. /\ IsMem(pointed) /\ pointed.branches = Put(k.branches, b, r) /\ pointed.bases = Put(k.bases, b, state)
      /\ pointed.tails = k.tails /\ pointed.active = k.active /\ pointed.room = k.room
      /\ pointed.versions = k.versions
  BY <1>4 DEF IsMem
<1>8. /\ IsMem(undone) /\ undone.bases = k.bases /\ undone.branches = k.branches
      /\ undone.tails = k.tails /\ undone.active = k.active /\ undone.room = k.room /\ undone.versions = k.versions
  BY <1>4, <1>6 DEF IsMem
<1> HIDE DEF pointed, undone
<1>9. /\ IsMem(m) /\ m.branches = Put(k.branches, b, r) /\ m.bases = Put(k.bases, b, state)
      /\ m.tails = [k.tails EXCEPT ![b] = <<>>] /\ m.active = k.active /\ m.room = k.room
      /\ m.versions = k.versions
  BY <1>7 DEF IsMem
<1> HIDE DEF m
<1>10. Sane(e)
  <2>1. SaneStreams(br, bl, e.bbase)
    BY <1>3, <1>5 DEF SaneStreams, IsMap, Put
  <2> QED BY <1>3, <1>5, <2>1 DEF Sane
<1>11. GoodWrites(q, kind) /\ q.disk = e
  <2> HIDE DEF br, bl, bb, ac, h0
  <2> QED BY <1>3, <1>10, WriteFileGood
<1> HIDE DEF q
<1>12. /\ IsDisk(d) /\ d.bbase = Put(bb, b, state) /\ d.branches = m.branches /\ d.blog = bl /\ d.active = ac
       /\ d.log = p.disk.log /\ d.snap = p.disk.snap /\ d.versions = p.disk.versions
  BY <1>5, <1>7, <1>9, <1>11 DEF IsDisk
<1>13. kept.disk = p.disk
  <2>1. kept.disk = [e EXCEPT !.bbase = Restored(e.bbase)]
    BY <1>11
  <2>2. Restored(e.bbase) = bb
    BY <1>5, <1>6
  <2>3. kept.disk = [e EXCEPT !.bbase = bb]
    BY <2>1, <2>2
  <2>4. kept.disk = [p.disk EXCEPT !.bbase = p.disk.bbase]
    <3> HIDE DEF kept
    <3> QED BY <2>3 DEF e
  <2> DEFINE x == p.disk
  <2>5. [x EXCEPT !.bbase = x.bbase] = x
    <3>1. IsDisk(x)
      BY <1>3
    <3> HIDE DEF x
    <3> QED BY <3>1 DEF IsDisk
  <2> QED BY <2>4, <2>5
<1> HIDE DEF kept, d
<1>14. Agree(undone, p.disk)
  <2>1. SameStreams(undone, k)
    BY <1>8 DEF SameStreams
  <2> HIDE DEF k
  <2> QED BY <1>3, <1>8, <2>1, CachesFree
<1> DEFINE cleared == [bl EXCEPT ![b] = <<>>]
           nb == Put(bb, b, state)
<1>15. SameElsewhere(cleared, bl, b) /\ SameElsewhere(bl, bl, b)
  BY <1>3 DEF SameElsewhere
<1> HIDE DEF cleared
<1>16. /\ SaneStreams(m.branches, bl, nb) /\ StreamsAgree(m, m.branches, bl, nb, ac)
       /\ SaneStreams(m.branches, cleared, nb) /\ StreamsAgree(m, m.branches, cleared, nb, ac)
  <2>1. nb = Put(bb, b, state) /\ Repointed(m, k, b, r, state)
    BY <1>9 DEF Repointed
  <2> HIDE DEF br, bl, bb, ac, k, nb
  <2>2. SaneStreams(m.branches, bl, nb) /\ StreamsAgree(m, m.branches, bl, nb, ac)
    BY <1>2, <1>3, <1>15, <2>1, Published
  <2>3. SaneStreams(m.branches, cleared, nb) /\ StreamsAgree(m, m.branches, cleared, nb, ac)
    BY <1>2, <1>3, <1>15, <2>1, Published
  <2> QED BY <2>2, <2>3
<1>17. Sane(d) /\ Agree(m, d)
  BY <1>3, <1>9, <1>12, <1>16 DEF Sane, Agree
<1>18. GoodWrites(w, kind) /\ w.disk = d
  BY <1>3, <1>11, <1>13, <1>14, <1>17, WriteOrGood
<1> HIDE DEF w
<1>19. /\ IsDisk(g) /\ g.bbase = Put(bb, b, state) /\ g.branches = m.branches /\ g.blog = cleared /\ g.active = ac
       /\ g.log = p.disk.log /\ g.snap = p.disk.snap /\ g.versions = p.disk.versions
  BY <1>12, <1>18 DEF IsDisk, cleared
<1> HIDE DEF g
<1>20. Sane(g) /\ Agree(m, g)
  BY <1>3, <1>9, <1>16, <1>19 DEF Sane, Agree
<1>21. GoodWrites(z, kind) /\ z.mem = m /\ z.disk = g
  BY <1>17, <1>18, <1>20, WriteFileGood
<1> HIDE DEF z
<1> QED BY <1>1, <1>20, <1>21 DEF Settles

(* Reading a stream changes the cached trees only.                         *)
LEMMA ReadAgrees ==
  ASSUME Kept, NEW b
  PROVE  Agree(ReadTree(mem, b), disk) /\ SameStreams(ReadTree(mem, b), mem)
<1> DEFINE t == IF StreamTree(mem, b) = {} THEN Drop(mem.trees, b)
                ELSE Put(mem.trees, b, CHOOSE x \in StreamTree(mem, b) : TRUE)
           k == ReadTree(mem, b)
<1>1. k = [mem EXCEPT !.trees = t]
  BY DEF ReadTree
<1> HIDE DEF t, k
<1>2. IsMem(mem) /\ Agree(mem, disk)
  BY DEF Kept, Agree
<1>3. IsMem(k) /\ SameStreams(k, mem) /\ k.room = mem.room /\ k.versions = mem.versions
  BY <1>1, <1>2 DEF IsMem, SameStreams
<1>4. Agree(k, disk)
  BY <1>2, <1>3, CachesFree
<1> QED BY <1>3, <1>4 DEF k

LEMMA PublishKeeps ==
  ASSUME Kept, CleanFaults, NEW b \in Branch, Publish(b)
  PROVE  Kept'
<1> DEFINE source == mem.active
           read == IF source = Main THEN mem ELSE ReadTree(mem, source)
           seq == StreamHead(mem, source)
           past == hist.stream[source]
           kind == IF b \in DOMAIN mem.branches /\ ~mem.branches[b].published
                   THEN "publish_over" ELSE "publish"
           name == <<"publish", b, source, seq>>
           none == {}
           s == Start(read)
<1>1. PICK state \in Materialized(mem, source) :
         Perform(kind, RepointPublished(CaptureVersion(s, name, none, seq, state, past), b, seq, state, past))
  BY DEF Publish
<1>2. b \in DOMAIN mem.branches \/ CleanName(mem, disk, b)
  BY DEF Publish, Clean, CleanName, CleanFaults
<1>3. Agree(read, disk) /\ SameStreams(read, mem)
  BY ReadAgrees DEF Kept, SameStreams
<1> DEFINE c == CaptureVersion(s, name, none, seq, state, past)
           q == RepointPublished(c, b, seq, state, past)
<1>4. Perform(kind, q)
  BY <1>1
<1> HIDE DEF source, read, seq, past, kind, name, none
<1>5. Settles(s, kind) /\ s.mem = read /\ s.disk = disk
  BY <1>3, StartSettles
<1> HIDE DEF s
<1>6. Settles(c, kind) /\ SameStreams(c.mem, s.mem) /\ SameFiles(c.disk, s.disk)
  BY <1>5, CaptureSettles
<1> HIDE DEF c
<1>7. b \in DOMAIN c.mem.branches \/ CleanName(c.mem, c.disk, b)
  BY <1>2, <1>3, <1>5, <1>6 DEF SameStreams, SameFiles, CleanName
<1>8. Settles(q, kind)
  BY <1>6, <1>7, RepointSettles
<1> HIDE DEF q
<1> QED BY <1>4, <1>8, PerformKeeps

LEMMA DeleteBranchKeeps ==
  ASSUME Kept, CleanFaults, NEW b \in Branch, DeleteBranch(b)
  PROVE  Kept'
<1> DEFINE gone == [mem EXCEPT !.branches = Drop(mem.branches, b)]
           m == [gone EXCEPT !.tails[b] = <<>>, !.bases = Drop(gone.bases, b), !.trees = Drop(gone.trees, b)]
           h == [hist EXCEPT !.stream[b] = <<>>]
           s == Start(mem)
           d1 == [s.disk EXCEPT !.branches = gone.branches]
           p == WriteFile(s, gone, d1, h, s.mem)
           d2 == [p.disk EXCEPT !.blog[b] = <<>>]
           q == WriteFile(p, m, d2, h, m)
           d3 == [q.disk EXCEPT !.bbase = Drop(q.disk.bbase, b)]
           r == WriteFile(q, m, d3, h, m)
           m4 == [r.mem EXCEPT !.active = Main]
           d4 == [r.disk EXCEPT !.active = Main]
           w == WriteFile(r, m4, d4, r.hist, r.mem)
           kind == "delete"
           br == disk.branches
           bl == disk.blog
           bb == disk.bbase
           ac == disk.active
           cleared == [bl EXCEPT ![b] = <<>>]
<1>1. Perform(kind, IF mem.active = b THEN SetActiveBranch(r, Main) ELSE r) /\ b \in DOMAIN mem.branches
  BY DEF DeleteBranch, WriteBranches
<1>2. /\ SaneStreams(br, bl, bb) /\ StreamsAgree(mem, br, bl, bb, ac) /\ b \in DOMAIN br
      /\ bl \in [Branch -> Seq(Op)] /\ IsMap(bb) /\ IsMap(mem.branches) /\ DOMAIN mem.branches = DOMAIN br
      /\ mem.active = IF ac \in DOMAIN br THEN ac ELSE Main
      /\ IsMem(mem) /\ Sane(disk) /\ IsDisk(disk) /\ kind \notin FailIn /\ b # Main
  BY <1>1, StreamAssumption DEF Kept, Sane, Agree, SaneStreams, StreamsAgree, CleanFaults
<1>3. Settles(s, kind) /\ s.mem = mem /\ s.disk = disk
  BY StartSettles DEF Kept
<1> HIDE DEF s, h, kind
<1>4. /\ IsMem(gone) /\ gone.branches = Drop(mem.branches, b) /\ gone.bases = mem.bases /\ gone.tails = mem.tails
      /\ gone.active = mem.active /\ gone.room = mem.room /\ gone.versions = mem.versions
  BY <1>2 DEF IsMem
<1> HIDE DEF gone
<1>5. /\ IsMem(m) /\ m.branches = Drop(mem.branches, b) /\ m.bases = Drop(mem.bases, b)
      /\ m.tails = [mem.tails EXCEPT ![b] = <<>>]
      /\ m.active = mem.active /\ m.room = mem.room /\ m.versions = mem.versions
  BY <1>4 DEF IsMem
<1> HIDE DEF m
<1>6. /\ IsDisk(d1) /\ d1.branches = m.branches /\ d1.blog = bl /\ d1.bbase = bb /\ d1.active = ac
      /\ d1.log = disk.log /\ d1.snap = disk.snap /\ d1.versions = disk.versions
  BY <1>2, <1>3, <1>4, <1>5 DEF IsDisk
<1> HIDE DEF d1
<1>7. cleared \in [Branch -> Seq(Op)]
  BY <1>2
<1>8. SaneStreams(m.branches, bl, bb) /\ SaneStreams(m.branches, cleared, bb)
      /\ SaneStreams(m.branches, cleared, Drop(bb, b))
  <2>1. SaneStreams(mem.branches, bl, bb)
    <3> HIDE DEF br, bl, bb, ac
    <3> QED BY <1>2, RegistryRewritten
  <2>2. /\ IsMap(m.branches) /\ DOMAIN m.branches \subseteq DOMAIN mem.branches
        /\ \A x \in DOMAIN m.branches : m.branches[x] = mem.branches[x]
    BY <1>5 DEF Drop, Restrict, IsMap
  <2>3. IsMap(Drop(bb, b))
    BY DEF Drop, Restrict, IsMap
  <2> HIDE DEF cleared, br, bl, bb, ac
  <2> QED BY <1>7, <2>1, <2>2, <2>3 DEF SaneStreams
<1>9. Sane(d1)
  BY <1>2, <1>6, <1>8 DEF Sane
<1>10. GoodWrites(p, kind) /\ p.disk = d1
  <2> HIDE DEF br, bl, bb, ac
  <2> QED BY <1>2, <1>3, <1>9, WriteFileGood DEF Settles
<1> HIDE DEF p
<1>11. /\ IsDisk(d2) /\ d2.branches = m.branches /\ d2.blog = cleared /\ d2.bbase = bb /\ d2.active = ac
       /\ d2.log = disk.log /\ d2.snap = disk.snap /\ d2.versions = disk.versions
  BY <1>6, <1>10 DEF IsDisk
<1> HIDE DEF d2
<1>12. Sane(d2)
  BY <1>2, <1>8, <1>11 DEF Sane
<1>13. GoodWrites(q, kind) /\ q.disk = d2
  BY <1>2, <1>10, <1>12, WriteFileGood
<1> HIDE DEF q
<1>14. /\ IsDisk(d3) /\ d3.branches = m.branches /\ d3.blog = cleared /\ d3.bbase = Drop(bb, b) /\ d3.active = ac
       /\ d3.log = disk.log /\ d3.snap = disk.snap /\ d3.versions = disk.versions
  BY <1>11, <1>13 DEF IsDisk
<1> HIDE DEF d3
<1>15. Sane(d3)
  BY <1>2, <1>8, <1>14 DEF Sane
<1>16. GoodWrites(r, kind) /\ r.disk = d3 /\ r.mem = m
  BY <1>2, <1>13, <1>15, WriteFileGood
<1> HIDE DEF r
<1>17. CASE mem.active # b
  <2>1. ac # b
    BY <1>2, <1>17
  <2>2. StreamsAgree(m, m.branches, cleared, Drop(bb, b), ac)
    <3> HIDE DEF br, bl, bb, ac
    <3>1. StreamsAgree(m, m.branches, [bl EXCEPT ![b] = <<>>], Drop(bb, b), ac)
      BY <1>2, <1>5, <1>17, <2>1, Deleted
    <3> QED BY <3>1
  <2>3. Agree(m, d3)
    BY <1>5, <1>14, <2>2 DEF Agree, Kept
  <2>4. Settles(r, kind)
    BY <1>15, <1>16, <2>3 DEF Settles
  <2> QED BY <1>1, <1>17, <2>4, PerformKeeps
<1>18. CASE mem.active = b
  <2>1. SetActiveBranch(r, Main) = w
    BY <1>2, <1>5, <1>16, <1>18 DEF SetActiveBranch
  <2>2. /\ IsMem(m4) /\ m4.branches = m.branches /\ m4.bases = m.bases /\ m4.tails = m.tails
        /\ m4.active = Main /\ m4.room = m.room /\ m4.versions = m.versions
    BY <1>5, <1>16 DEF IsMem
  <2>3. /\ IsDisk(d4) /\ d4.branches = m.branches /\ d4.blog = cleared /\ d4.bbase = Drop(bb, b) /\ d4.active = Main
        /\ d4.log = disk.log /\ d4.snap = disk.snap /\ d4.versions = disk.versions
    BY <1>14, <1>16 DEF IsDisk
  <2> HIDE DEF m4, d4
  <2> DEFINE x == [mem EXCEPT !.active = Main]
  <2>4. x.tails = mem.tails /\ x.branches = mem.branches /\ x.bases = mem.bases /\ x.active = Main
    BY <1>2 DEF IsMem
  <2> HIDE DEF x
  <2>5. StreamsAgree(x, br, bl, bb, Main)
    <3> HIDE DEF br, bl, bb, ac
    <3> QED BY <1>2, <2>4, ActiveMoved
  <2>6. StreamsAgree(m4, m4.branches, cleared, Drop(bb, b), Main)
    <3> HIDE DEF br, bl, bb, ac
    <3>1. /\ m4.tails = [x.tails EXCEPT ![b] = <<>>] /\ m4.branches = Drop(x.branches, b)
          /\ m4.bases = Drop(x.bases, b) /\ m4.active = x.active /\ x.active # b /\ Main # b
      BY <1>2, <1>5, <2>2, <2>4
    <3>2. PICK n : n = Main
      OBVIOUS
    <3>3. StreamsAgree(x, br, bl, bb, n) /\ n # b
      BY <1>2, <2>5, <3>2
    <3>4. StreamsAgree(m4, m4.branches, [bl EXCEPT ![b] = <<>>], Drop(bb, b), n)
      BY <1>2, <3>1, <3>3, Deleted
    <3> QED BY <3>2, <3>4
  <2>7. Sane(d4) /\ Agree(m4, d4)
    BY <1>2, <1>5, <1>8, <2>2, <2>3, <2>6 DEF Sane, Agree, Kept
  <2>8. GoodWrites(w, kind) /\ w.mem = m4 /\ w.disk = d4
    BY <1>2, <1>16, <2>7, WriteFileGood
  <2> HIDE DEF w
  <2>9. Settles(w, kind)
    BY <2>7, <2>8 DEF Settles
  <2> QED BY <1>1, <1>18, <2>1, <2>9, PerformKeeps
<1> QED BY <1>17, <1>18

-----------------------------------------------------------------------------
LEMMA InitKept ==
  ASSUME Init
  PROVE  Kept
<1>1. IsMap(Empty) /\ DOMAIN Empty = {}
  BY DEF Empty, Restrict, IsMap
<1>2. SaneMain(disk.snap, disk.log) /\ Floor(disk.snap) = {} /\ Range(disk.log) = {} /\ IsDisk(disk)
  BY DEF Init, SaneMain, Floor, Range, IsDisk
<1>3. SaneStreams(disk.branches, disk.blog, disk.bbase)
  BY <1>1 DEF Init, SaneStreams
<1>4. SoundRoom(mem.room) /\ mem.room.seen = {}
  <2>1. mem.room = EmptyRoom
    BY DEF Init
  <2> QED BY <2>1, EmptyRoomSound DEF EmptyRoom
<1>5. IsMem(mem) /\ mem.versions = disk.versions
  BY DEF Init, IsMem
<1>6. StreamsAgree(mem, disk.branches, disk.blog, disk.bbase, disk.active)
  BY <1>1 DEF Init, StreamsAgree
<1> QED BY <1>2, <1>3, <1>4, <1>5, <1>6 DEF Kept, Sane, Agree, MainAgrees

LEMMA NextKeeps ==
  ASSUME Kept, CleanFaults, [Next]_vars
  PROVE  Kept'
<1>1. CASE UNCHANGED vars
  BY <1>1 DEF vars, Kept
<1>2. CASE Restart
  <2>1. disk' = disk /\ mem' = InstallRoom(disk) /\ Agree(InstallRoom(disk), disk)
    BY <1>2, LoadAgrees DEF Restart, Kept
  <2> QED BY <2>1 DEF Kept
<1>3. ASSUME NEW b, ReadStream(b) PROVE Kept'
  <2>1. disk' = disk /\ mem' = ReadTree(mem, b) /\ Agree(ReadTree(mem, b), disk)
    BY <1>3, ReadAgrees DEF ReadStream
  <2> QED BY <2>1 DEF Kept
<1>4. CASE \E ops \in Batches(Main) : IngestOps(ops)
  BY <1>4, IngestKeeps
<1>5. CASE \E b \in Branch : \E ops \in Batches(b) : IngestBranch(b, ops)
  BY <1>5, IngestBranchKeeps
<1>6. CASE \E state \in SUBSET {o \in Op : Author[o] = Main} \ {{}} : ImportRoom(state)
  BY <1>6, ImportKeeps
<1>7. CASE \E b \in Branch : \/ \E s \in ForkFrom : ForkBranch(b, s)
                             \/ \E v \in DOMAIN mem.versions : \/ ForkBranchFromVersion(b, v)
                                                               \/ RestoreAsBranch(v, b)
                             \/ Publish(b)
                             \/ DeleteBranch(b)
  BY <1>7, ForkBranchKeeps, ForkBranchFromVersionKeeps, RestoreAsBranchKeeps, PublishKeeps, DeleteBranchKeeps
<1>8. CASE \/ CompactRoom
           \/ \E n \in Name : CreateVersion(n)
           \/ \E t \in Tick : AutoVersion(t)
           \/ \E v \in DOMAIN mem.versions : DeleteVersion(v) \/ \E n \in Name : RenameVersion(v, n)
  BY <1>8, CompactKeeps, CreateVersionKeeps, AutoVersionKeeps, DeleteVersionKeeps, RenameVersionKeeps
<1> QED BY <1>1, <1>2, <1>3, <1>4, <1>5, <1>6, <1>7, <1>8 DEF Next

(* A hub that is restarted at any moment comes back with the room, the     *)
(* versions, the branches with their tails and bases, and the active HEAD  *)
(* it had: whatever crash falls between two writes of an operation, and    *)
(* whatever write fails that the code undoes.                              *)
THEOREM RestartSafe ==
  ASSUME CleanFaults
  PROVE  Spec => []RestartInvisible
<1>1. Init => Kept
  BY InitKept
<1>2. Kept /\ [Next]_vars => Kept'
  BY NextKeeps
<1>3. Kept => RestartInvisible
  BY AgreeInvisible
<1> QED BY <1>1, <1>2, <1>3, PTL DEF Spec

-----------------------------------------------------------------------------
(***************************************************************************)
(* The history.  The same plans are gone through once more, against what   *)
(* the history variable says: every file holds a part of the history that  *)
(* loading puts together again, whatever write came last.                  *)
(***************************************************************************)

(* Sequences that agree everywhere are equal.                              *)
LEMMA SameElements ==
  ASSUME NEW S, NEW s \in Seq(S), NEW t \in Seq(S), Len(s) = Len(t), \A i \in 1 .. Len(s) : s[i] = t[i]
  PROVE  s = t
  OBVIOUS

(* A sequence cut in two at n.                                             *)
LEMMA CutFacts ==
  ASSUME NEW S, NEW s \in Seq(S), NEW n \in 0 .. Len(s)
  PROVE  /\ n \in Nat /\ Len(s) \in Nat
         /\ SubSeq(s, 1, n) \in Seq(S) /\ Len(SubSeq(s, 1, n)) = n
         /\ \A i \in 1 .. n : SubSeq(s, 1, n)[i] = s[i]
         /\ After(s, n) \in Seq(S) /\ Len(After(s, n)) = Len(s) - n
         /\ \A i \in 1 .. Len(s) - n : After(s, n)[i] = s[n + i]
         /\ Range(s) = Range(SubSeq(s, 1, n)) \union Range(After(s, n))
<1>1. n \in Nat /\ Len(s) \in Nat /\ n <= Len(s) /\ n + 1 \in Nat \ {0}
  OBVIOUS
<1>2. /\ SubSeq(s, 1, n) \in Seq(S) /\ Len(SubSeq(s, 1, n)) = n
      /\ \A i \in 1 .. n : SubSeq(s, 1, n)[i] = s[i]
  BY <1>1
<1>3. /\ After(s, n) \in Seq(S) /\ Len(After(s, n)) = Len(s) - n
      /\ \A i \in 1 .. Len(s) - n : After(s, n)[i] = s[n + i]
  <2> DEFINE j == Len(s)
             i0 == n + 1
  <2>1. i0 \in Nat \ {0} /\ j \in Nat /\ j <= Len(s) /\ After(s, n) = SubSeq(s, i0, j)
    BY <1>1 DEF After
  <2>2. /\ SubSeq(s, i0, j) \in Seq(S)
        /\ Len(SubSeq(s, i0, j)) = IF i0 <= j THEN j - i0 + 1 ELSE 0
        /\ \A k \in 1 .. Len(SubSeq(s, i0, j)) : SubSeq(s, i0, j)[k] = s[i0 + k - 1]
    <3> HIDE DEF i0, j
    <3> QED BY <2>1, SubSeqRange
  <2>3. (IF i0 <= j THEN j - i0 + 1 ELSE 0) = Len(s) - n
    BY <1>1
  <2>4. \A k \in 1 .. Len(s) - n : i0 + k - 1 = n + k
    BY <1>1
  <2> HIDE DEF i0, j
  <2> QED BY <2>1, <2>2, <2>3, <2>4
<1>4. Range(s) = Range(SubSeq(s, 1, n)) \union Range(After(s, n))
  <2> DEFINE p == SubSeq(s, 1, n)
             a == After(s, n)
  <2>1. DOMAIN p = 1 .. n /\ DOMAIN a = 1 .. Len(s) - n /\ DOMAIN s = 1 .. Len(s)
    BY <1>2, <1>3
  <2>2. \A i \in DOMAIN p : p[i] \in Range(s)
    BY <1>1, <1>2, <2>1 DEF Range
  <2>3. \A i \in DOMAIN a : a[i] \in Range(s)
    <3>1. \A i \in 1 .. Len(s) - n : n + i \in 1 .. Len(s)
      BY <1>1
    <3>2. \A i \in DOMAIN a : a[i] = s[n + i] /\ n + i \in DOMAIN s
      BY <1>3, <2>1, <3>1
    <3> HIDE DEF a
    <3> QED BY <3>2 DEF Range
  <2>4. ASSUME NEW i \in DOMAIN s PROVE s[i] \in Range(p) \union Range(a)
    <3>1. CASE i <= n
      BY <1>2, <2>1, <3>1 DEF Range
    <3>2. CASE i > n
      <4>1. i - n \in DOMAIN a /\ a[i - n] = s[n + (i - n)] /\ n + (i - n) = i
        BY <1>1, <1>3, <2>1, <3>2
      <4> QED BY <4>1 DEF Range
    <3> QED BY <1>1, <3>1, <3>2
  <2> HIDE DEF p, a
  <2>5. Range(s) \subseteq Range(p) \union Range(a)
    BY <2>4 DEF Range
  <2>6. Range(p) \subseteq Range(s) /\ Range(a) \subseteq Range(s)
    BY <2>2, <2>3 DEF Range
  <2> QED BY <2>5, <2>6 DEF p, a
<1> QED BY <1>1, <1>2, <1>3, <1>4

LEMMA ConcatElements ==
  ASSUME NEW S, NEW s \in Seq(S), NEW t \in Seq(S)
  PROVE  /\ s \o t \in Seq(S) /\ Len(s \o t) = Len(s) + Len(t) /\ Len(s) \in Nat /\ Len(t) \in Nat
         /\ \A i \in 1 .. Len(s) : (s \o t)[i] = s[i]
         /\ \A i \in 1 .. Len(t) : (s \o t)[Len(s) + i] = t[i]
  OBVIOUS

(* What is appended joins the second part.                                 *)
LEMMA CutGrown ==
  ASSUME NEW S, NEW s \in Seq(S), NEW t \in Seq(S), NEW n \in 0 .. Len(s)
  PROVE  /\ n \in 0 .. Len(s \o t)
         /\ SubSeq(s \o t, 1, n) = SubSeq(s, 1, n)
         /\ After(s \o t, n) = After(s, n) \o t
<1> DEFINE u == s \o t
<1>1. /\ u \in Seq(S) /\ Len(u) = Len(s) + Len(t) /\ Len(s) \in Nat /\ Len(t) \in Nat
      /\ \A i \in 1 .. Len(s) : u[i] = s[i]
      /\ \A i \in 1 .. Len(t) : u[Len(s) + i] = t[i]
  BY ConcatElements
<1> HIDE DEF u
<1>2. n \in Nat /\ n <= Len(s) /\ n \in 0 .. Len(u)
  BY <1>1
<1>3. /\ SubSeq(s, 1, n) \in Seq(S) /\ Len(SubSeq(s, 1, n)) = n
      /\ \A i \in 1 .. n : SubSeq(s, 1, n)[i] = s[i]
      /\ After(s, n) \in Seq(S) /\ Len(After(s, n)) = Len(s) - n
      /\ \A i \in 1 .. Len(s) - n : After(s, n)[i] = s[n + i]
  BY CutFacts
<1>4. /\ SubSeq(u, 1, n) \in Seq(S) /\ Len(SubSeq(u, 1, n)) = n
      /\ \A i \in 1 .. n : SubSeq(u, 1, n)[i] = u[i]
      /\ After(u, n) \in Seq(S) /\ Len(After(u, n)) = Len(u) - n
      /\ \A i \in 1 .. Len(u) - n : After(u, n)[i] = u[n + i]
  BY <1>1, <1>2, CutFacts
<1>5. SubSeq(u, 1, n) = SubSeq(s, 1, n)
  <2> DEFINE x == SubSeq(u, 1, n)
             y == SubSeq(s, 1, n)
  <2>1. x \in Seq(S) /\ y \in Seq(S) /\ Len(x) = Len(y) /\ Len(x) = n
    BY <1>3, <1>4
  <2>2. \A i \in 1 .. n : x[i] = y[i]
    BY <1>1, <1>2, <1>3, <1>4
  <2> HIDE DEF x, y
  <2>3. x = y
    BY <2>1, <2>2, SameElements
  <2> QED BY <2>3 DEF x, y
<1>6. After(u, n) = After(s, n) \o t
  <2> DEFINE x == After(u, n)
             a == After(s, n)
             y == a \o t
  <2>1. a \in Seq(S) /\ Len(a) = Len(s) - n
    BY <1>3
  <2> HIDE DEF a
  <2>2. /\ y \in Seq(S) /\ Len(y) = Len(a) + Len(t)
        /\ \A i \in 1 .. Len(a) : y[i] = a[i]
        /\ \A i \in 1 .. Len(t) : y[Len(a) + i] = t[i]
    BY <2>1
  <2> HIDE DEF x, y
  <2>3. x \in Seq(S) /\ Len(x) = Len(y)
    BY <1>1, <1>2, <1>4, <2>1, <2>2 DEF x
  <2>4. ASSUME NEW i \in 1 .. Len(x) PROVE x[i] = y[i]
    <3>1. i \in Nat /\ i <= Len(s) - n + Len(t) /\ x[i] = u[n + i]
      BY <1>1, <1>2, <1>4, <2>1, <2>2, <2>3 DEF x
    <3>2. CASE i <= Len(s) - n
      <4>1. i \in 1 .. Len(s) - n /\ n + i \in 1 .. Len(s)
        BY <1>1, <1>2, <3>1, <3>2
      <4> QED BY <1>1, <1>3, <2>1, <2>2, <3>1, <4>1 DEF a
    <3>3. CASE i > Len(s) - n
      <4> DEFINE k == i - (Len(s) - n)
      <4>1. k \in 1 .. Len(t) /\ n + i = Len(s) + k /\ i = (Len(s) - n) + k
        BY <1>1, <1>2, <3>1, <3>3
      <4> HIDE DEF k
      <4> QED BY <1>1, <2>1, <2>2, <3>1, <4>1
    <3> QED BY <1>1, <1>2, <3>1, <3>2, <3>3
  <2>5. x = y
    BY <2>2, <2>3, <2>4, SameElements
  <2> QED BY <2>5 DEF x, y, a
<1> QED BY <1>2, <1>5, <1>6 DEF u

(* The part between two cuts.                                              *)
LEMMA CutTwice ==
  ASSUME NEW S, NEW s \in Seq(S), NEW m \in 0 .. Len(s), NEW n \in m .. Len(s)
  PROVE  /\ n - m \in 0 .. Len(After(s, m))
         /\ After(After(s, m), n - m) = After(s, n)
         /\ SubSeq(s, m + 1, n) \in Seq(S)
         /\ SubSeq(s, m + 1, n) \o After(s, n) = After(s, m)
         /\ \A k \in m .. n : SubSeq(After(s, m), k - m + 1, n - m) = SubSeq(s, k + 1, n)
<1> DEFINE a == After(s, m)
           c == After(s, n)
<1>1. m \in Nat /\ n \in Nat /\ m <= n /\ n <= Len(s) /\ Len(s) \in Nat /\ n \in 0 .. Len(s)
  OBVIOUS
<1>2. a \in Seq(S) /\ Len(a) = Len(s) - m /\ \A i \in 1 .. Len(s) - m : a[i] = s[m + i]
  BY CutFacts
<1>3. c \in Seq(S) /\ Len(c) = Len(s) - n /\ \A i \in 1 .. Len(s) - n : c[i] = s[n + i]
  BY <1>1, CutFacts
<1> HIDE DEF a, c
<1>4. n - m \in 0 .. Len(a)
  BY <1>1, <1>2
<1>5. After(a, n - m) = c
  <2> DEFINE d == n - m
             x == After(a, d)
  <2>1. d \in 0 .. Len(a) /\ d \in Nat
    BY <1>1, <1>4
  <2> HIDE DEF d
  <2>2. x \in Seq(S) /\ Len(x) = Len(a) - d /\ \A i \in 1 .. Len(a) - d : x[i] = a[d + i]
    BY <1>2, <2>1, CutFacts
  <2> HIDE DEF x
  <2>3. Len(x) = Len(c) /\ Len(x) = Len(s) - n
    BY <1>1, <1>2, <1>3, <2>2 DEF d
  <2>4. \A i \in 1 .. Len(s) - n : d + i \in 1 .. Len(s) - m /\ m + (d + i) = n + i
    BY <1>1 DEF d
  <2>5. \A i \in 1 .. Len(x) : x[i] = c[i]
    BY <1>2, <1>3, <2>2, <2>3, <2>4
  <2>6. x = c
    BY <1>3, <2>2, <2>3, <2>5, SameElements
  <2> QED BY <2>6 DEF x, d
<1>6. ASSUME NEW k \in m .. n
      PROVE  /\ SubSeq(s, k + 1, n) \in Seq(S) /\ Len(SubSeq(s, k + 1, n)) = n - k
             /\ \A i \in 1 .. n - k : SubSeq(s, k + 1, n)[i] = s[k + i]
             /\ SubSeq(a, k - m + 1, n - m) = SubSeq(s, k + 1, n)
  <2> DEFINE k1 == k + 1
             x == SubSeq(s, k1, n)
             i1 == k - m + 1
             d == n - m
             y == SubSeq(a, i1, d)
  <2>1. k \in Nat /\ k <= n /\ m <= k /\ k1 \in Nat \ {0} /\ i1 \in Nat \ {0} /\ d \in Nat /\ d <= Len(a)
    BY <1>1, <1>2
  <2>2. /\ x \in Seq(S) /\ Len(x) = (IF k1 <= n THEN n - k1 + 1 ELSE 0)
        /\ \A i \in 1 .. Len(x) : x[i] = s[k1 + i - 1]
    <3> HIDE DEF k1
    <3> QED BY <1>1, <2>1, SubSeqRange
  <2>3. /\ y \in Seq(S) /\ Len(y) = (IF i1 <= d THEN d - i1 + 1 ELSE 0)
        /\ \A i \in 1 .. Len(y) : y[i] = a[i1 + i - 1]
    <3> HIDE DEF i1, d
    <3> QED BY <1>2, <2>1, SubSeqRange
  <2> HIDE DEF x, y
  <2>4. Len(x) = n - k /\ Len(y) = n - k
    BY <1>1, <2>1, <2>2, <2>3
  <2>5. \A i \in 1 .. n - k : /\ k1 + i - 1 = k + i /\ i1 + i - 1 \in 1 .. Len(s) - m
                              /\ m + (i1 + i - 1) = k + i
    BY <1>1, <2>1
  <2> HIDE DEF k1, i1, d
  <2>6. \A i \in 1 .. n - k : x[i] = s[k + i] /\ y[i] = s[k + i]
    BY <1>2, <2>2, <2>3, <2>4, <2>5
  <2>7. x = y
    BY <2>2, <2>3, <2>4, <2>6, SameElements
  <2> QED BY <2>2, <2>4, <2>6, <2>7 DEF x, y, k1, i1, d
<1>7. SubSeq(s, m + 1, n) \in Seq(S) /\ SubSeq(s, m + 1, n) \o c = a
  <2> DEFINE p == SubSeq(s, m + 1, n)
             x == p \o c
  <2>1. p \in Seq(S) /\ Len(p) = n - m /\ \A i \in 1 .. n - m : p[i] = s[m + i]
    <3>1. m \in m .. n
      BY <1>1
    <3> QED BY <1>6, <3>1
  <2> HIDE DEF p
  <2>2. /\ x \in Seq(S) /\ Len(x) = Len(p) + Len(c)
        /\ \A i \in 1 .. Len(p) : x[i] = p[i]
        /\ \A i \in 1 .. Len(c) : x[Len(p) + i] = c[i]
    <3>1. p \in Seq(S) /\ c \in Seq(S)
      BY <1>3, <2>1
    <3> QED BY <3>1, ConcatElements
  <2> HIDE DEF x
  <2>3. Len(x) = Len(a)
    BY <1>1, <1>2, <1>3, <2>1, <2>2
  <2>4. ASSUME NEW i \in 1 .. Len(a) PROVE x[i] = a[i]
    <3>1. i \in Nat /\ i <= Len(s) - m /\ a[i] = s[m + i]
      BY <1>1, <1>2
    <3>2. CASE i <= n - m
      <4>1. i \in 1 .. n - m
        BY <1>1, <3>1, <3>2
      <4> QED BY <2>1, <2>2, <3>1, <4>1
    <3>3. CASE i > n - m
      <4> DEFINE k == i - (n - m)
      <4>1. k \in 1 .. Len(s) - n /\ n + k = m + i /\ i = (n - m) + k
        BY <1>1, <3>1, <3>3
      <4> HIDE DEF k
      <4> QED BY <1>3, <2>1, <2>2, <3>1, <4>1
    <3> QED BY <1>1, <3>1, <3>2, <3>3
  <2>5. x = a
    BY <1>2, <2>2, <2>3, <2>4, SameElements
  <2> QED BY <2>1, <2>5 DEF p, x
<1>8. \A k \in m .. n : SubSeq(a, k - m + 1, n - m) = SubSeq(s, k + 1, n)
  BY <1>6
<1> QED BY <1>4, <1>5, <1>7, <1>8 DEF a, c

-----------------------------------------------------------------------------
(* What files and memory say about the history.                            *)

(* Two things lose the history, which the runs leave out too: a fork of a  *)
(* branch, which reads main's log as its base, and a crash in a publish    *)
(* onto a writable branch, which leaves the base without its pointer.      *)
Tracked == ForkFrom = {Main} /\ "publish_over" \notin CrashIn

(* The shapes of the records involved.                                     *)
IsPast(h) == h \in [stream : {h.stream}, version : {h.version}] /\ h.stream \in [Stream -> Seq(Op)]

IsVersion(v) ==
    v \in [seq : {v.seq}, origin : {v.origin}, ordinal : {v.ordinal}, state : {v.state}]

IsTree(t) == t \in [key : {t.key}, tailLen : {t.tailLen}, doc : {t.doc}]

(* The snapshot holds the first ops of the stream's history, the log all   *)
(* the later ones and perhaps some of those.                               *)
MainTold(snap, log, past) ==
    LET n == Cardinality(Floor(snap))
    IN /\ IsInjective(past)
       /\ n \in 0 .. Len(past)
       /\ Floor(snap) = Range(SubSeq(past, 1, n))
       /\ \E k \in 0 .. n : log = After(past, k)

TailTold(r, log, past) ==
    /\ r.fork \in 0 .. Len(past)
    /\ log = After(past, r.fork)
    /\ log = <<>> => r.head = r.fork

(* A branch starts from a base of its own, or from main where it forked.   *)
BaseTold(r, bases, b, past, main) ==
    IF b \in DOMAIN bases THEN bases[b] = Range(SubSeq(past, 1, r.fork))
    ELSE r.fork <= Len(main) /\ SubSeq(past, 1, r.fork) = SubSeq(main, 1, r.fork)

BranchTold(r, log, bases, b, past, main) ==
    IF r.published THEN b \in DOMAIN bases /\ bases[b] = Range(past)
    ELSE TailTold(r, log, past) /\ BaseTold(r, bases, b, past, main)

StreamsTold(branches, blog, bbase, stream) ==
    \A b \in DOMAIN branches : BranchTold(branches[b], blog[b], bbase, b, stream[b], stream[Main])

VersionTold(v, past) ==
    /\ IsVersion(v) /\ past \in Seq(Op)
    /\ v.state = Range(past) /\ v.seq = Len(past)
    /\ v.ordinal \in Nat

Below(versions, n) == n \in Nat /\ \A k \in DOMAIN versions : versions[k].ordinal < n

Distinct(versions) ==
    \A n, k \in DOMAIN versions : versions[n].ordinal = versions[k].ordinal => n = k

VersionsTold(versions, past) ==
    /\ DOMAIN versions = DOMAIN past
    /\ \A n \in DOMAIN versions : VersionTold(versions[n], past[n])
    /\ Distinct(versions)
    /\ \E n : Below(versions, n)

(* The active HEAD is on no published branch.                              *)
ActiveTold(active, branches) == active \in DOMAIN branches => ~branches[active].published

(* What the files hold is what the history says.                           *)
FilesTell(d, h) ==
    /\ IsPast(h)
    /\ MainTold(d.snap, d.log, h.stream[Main])
    /\ StreamsTold(d.branches, d.blog, d.bbase, h.stream)
    /\ VersionsTold(d.versions, h.version)
    /\ ActiveTold(d.active, d.branches)

TreeTold(t, r, tail, past) ==
    /\ IsTree(t)
    /\ t.tailLen \in 0 .. Len(tail)
    /\ t.doc = IF r.published THEN Range(past) ELSE Range(SubSeq(past, 1, r.fork + t.tailLen))

TreesTold(trees, branches, tails, stream) ==
    \A b \in DOMAIN trees :
        b \in DOMAIN branches /\ TreeTold(trees[b], branches[b], tails[b], stream[b])

RoomTold(room, past) == room.base \in 0 .. Len(past) /\ room.log = After(past, room.base)

(* What files do not tell: the retained log, the counter and the trees.    *)
HubTells(m, h) ==
    /\ RoomTold(m.room, h.stream[Main])
    /\ Below(m.versions, m.ordinal)
    /\ TreesTold(m.trees, m.branches, m.tails, h.stream)

-----------------------------------------------------------------------------
(* Picking all positions after a.                                          *)
LEMMA PickedTail ==
  ASSUME NEW S, NEW s \in Seq(S), NEW a \in 0 .. Len(s)
  PROVE  Picked(s, a + 1 .. Len(s)) = After(s, a)
<1> DEFINE at == a + 1 .. Len(s)
           N == Cardinality(at)
           Rank(i) == Cardinality({j \in at : j <= i})
           x == Picked(s, at)
           y == After(s, a)
<1>1. a \in Nat /\ Len(s) \in Nat /\ a <= Len(s) /\ at \subseteq DOMAIN s /\ a + 1 \in Int /\ Len(s) \in Int
  OBVIOUS
<1>2. N = Len(s) - a
  <2>1. N = IF a + 1 > Len(s) THEN 0 ELSE Len(s) - (a + 1) + 1
    BY <1>1, FS_Interval
  <2> HIDE DEF N
  <2> QED BY <1>1, <2>1
<1>3. \A i \in at : Rank(i) = i - a
  <2> TAKE i \in at
  <2>1. {j \in at : j <= i} = a + 1 .. i /\ i \in Int /\ a + 1 <= i
    BY <1>1
  <2>2. Cardinality(a + 1 .. i) = IF a + 1 > i THEN 0 ELSE i - (a + 1) + 1
    BY <1>1, <2>1, FS_Interval
  <2> DEFINE c == Cardinality(a + 1 .. i)
  <2>3. Rank(i) = c
    BY <2>1
  <2> HIDE DEF c, Rank
  <2>4. c = IF a + 1 > i THEN 0 ELSE i - (a + 1) + 1
    BY <2>2 DEF c
  <2> QED BY <1>1, <2>1, <2>3, <2>4
<1>4. x = [k \in 1 .. N |-> s[CHOOSE i \in at : Rank(i) = k]]
  BY DEF Picked
<1> HIDE DEF N, Rank
<1>5. ASSUME NEW k \in 1 .. Len(s) - a PROVE (CHOOSE i \in at : Rank(i) = k) = a + k
  <2>1. a + k \in at /\ k = (a + k) - a /\ \A i \in at : i - a = k => i = a + k
    BY <1>1
  <2>2. \A i \in at : Rank(i) = k <=> i = a + k
    BY <1>3, <2>1
  <2> HIDE DEF at
  <2> QED BY <2>1, <2>2
<1>6. x \in Seq(S) /\ Len(x) = N
  <2> HIDE DEF at, x
  <2> QED BY <1>1, PickedElements DEF N, x
<1>7. y \in Seq(S) /\ Len(y) = Len(s) - a /\ \A i \in 1 .. Len(s) - a : y[i] = s[a + i]
  BY CutFacts
<1> HIDE DEF y, at
<1>8. \A k \in 1 .. Len(s) - a : x[k] = s[a + k]
  BY <1>2, <1>4, <1>5
<1> HIDE DEF x
<1>9. x = y
  BY <1>2, <1>6, <1>7, <1>8, SameElements
<1> QED BY <1>9 DEF x, y, at

(* Replaying a log over a snapshot that overlaps it gives what is beyond.  *)
LEMMA FreshSuffix ==
  ASSUME NEW past \in Seq(Op), IsInjective(past), NEW n \in 0 .. Len(past), NEW k \in 0 .. n,
         NEW r, r.seen = Range(SubSeq(past, 1, n))
  PROVE  Fresh(r, After(past, k)) = After(past, n)
<1> DEFINE ops == After(past, k)
           at == {i \in FirstNamed(ops) : ops[i] \notin r.seen}
           a == n - k
<1>1. /\ n \in Nat /\ k \in Nat /\ k <= n /\ n <= Len(past) /\ Len(past) \in Nat
      /\ k \in 0 .. Len(past) /\ n \in k .. Len(past) /\ DOMAIN past = 1 .. Len(past)
  OBVIOUS
<1>2. ops \in Seq(Op) /\ Len(ops) = Len(past) - k /\ \A i \in 1 .. Len(past) - k : ops[i] = past[k + i]
  <2>1. k \in 0 .. Len(past)
    BY <1>1
  <2> QED BY <2>1, CutFacts
<1>3. After(ops, a) = After(past, n) /\ a \in 0 .. Len(ops)
  <2>1. k \in 0 .. Len(past) /\ n \in k .. Len(past)
    BY <1>1
  <2>2. n - k \in 0 .. Len(After(past, k)) /\ After(After(past, k), n - k) = After(past, n)
    BY <2>1, CutTwice
  <2> QED BY <2>2
<1> HIDE DEF ops
<1>4. DOMAIN ops = 1 .. Len(past) - k
  BY <1>1, <1>2
<1>5. \A i, j \in 1 .. Len(past) - k : ops[i] = ops[j] => i = j
  <2>1. \A i \in 1 .. Len(past) - k : k + i \in DOMAIN past /\ ops[i] = past[k + i]
    BY <1>1, <1>2
  <2>2. \A i, j \in 1 .. Len(past) - k : k + i = k + j => i = j
    BY <1>1
  <2> QED BY <2>1, <2>2 DEF IsInjective
<1>6. FirstNamed(ops) = 1 .. Len(past) - k
  <2>1. \A i \in 1 .. Len(past) - k : \A j \in 1 .. i - 1 : j \in 1 .. Len(past) - k /\ j # i
    BY <1>1
  <2>2. \A i \in 1 .. Len(past) - k : \A j \in 1 .. i - 1 : ops[j] # ops[i]
    BY <1>5, <2>1
  <2> QED BY <1>4, <2>2 DEF FirstNamed
<1>7. \A i \in 1 .. Len(past) - k : ops[i] \in r.seen <=> i <= a
  <2> TAKE i \in 1 .. Len(past) - k
  <2> DEFINE p == SubSeq(past, 1, n)
  <2>1. p \in Seq(Op) /\ Len(p) = n /\ \A j \in 1 .. n : p[j] = past[j]
    BY CutFacts
  <2>2. DOMAIN p = 1 .. n
    BY <1>1, <2>1
  <2> HIDE DEF p
  <2>3. ops[i] = past[k + i] /\ k + i \in DOMAIN past /\ i \in Nat
    BY <1>1, <1>2
  <2>4. CASE i <= a
    <3>1. k + i \in 1 .. n
      BY <1>1, <2>4
    <3>2. ops[i] \in Range(p)
      BY <2>1, <2>2, <2>3, <3>1 DEF Range
    <3> QED BY <2>4, <3>2 DEF p
  <2>5. CASE ~(i <= a)
    <3>1. \A j \in 1 .. n : j # k + i /\ j \in DOMAIN past
      BY <1>1, <2>3, <2>5
    <3>2. \A j \in 1 .. n : p[j] # ops[i]
      BY <2>1, <2>3, <3>1 DEF IsInjective
    <3>3. ops[i] \notin Range(p)
      BY <2>2, <3>2 DEF Range
    <3> QED BY <2>5, <3>3 DEF p
  <2> QED BY <2>4, <2>5
<1>8. at = a + 1 .. Len(ops)
  <2>1. \A i \in 1 .. Len(past) - k : ~(i <= a) <=> i \in a + 1 .. Len(past) - k
    BY <1>1
  <2>2. \A i \in a + 1 .. Len(past) - k : i \in 1 .. Len(past) - k
    BY <1>1
  <2> HIDE DEF a
  <2> QED BY <1>2, <1>6, <1>7, <2>1, <2>2
<1> HIDE DEF at, a
<1>9. Picked(ops, a + 1 .. Len(ops)) = After(ops, a)
  BY <1>2, <1>3, PickedTail
<1>10. Fresh(r, ops) = Picked(ops, at)
  BY DEF Fresh, at
<1> QED BY <1>3, <1>8, <1>9, <1>10 DEF ops

LEMMA MaxFacts ==
  ASSUME NEW S, S \subseteq Nat, S # {}, NEW B \in Nat, \A x \in S : x <= B
  PROVE  Max(S) \in S /\ \A x \in S : x <= Max(S)
<1> DEFINE T == {y \in Nat : \E x \in S : y = B - x}
<1>1. T \subseteq Nat /\ T # {}
  <2>1. \A x \in S : B - x \in Nat
    OBVIOUS
  <2> QED BY <2>1
<1>2. PICK y \in T : \A z \in T : ~(<<z, y>> \in OpToRel(<, Nat))
  <2> HIDE DEF T
  <2> QED BY <1>1, NatLessThanWellFounded, WFMin
<1>3. \A z \in T : ~(z < y)
  BY <1>1, <1>2 DEF OpToRel
<1>4. PICK x \in S : y = B - x
  OBVIOUS
<1>5. \A z \in S : x >= z
  <2> TAKE z \in S
  <2>1. B - z \in T /\ z \in Nat /\ x \in Nat /\ z <= B /\ x <= B
    OBVIOUS
  <2>2. ~(B - z < B - x)
    BY <1>3, <1>4, <2>1
  <2> QED BY <2>1, <2>2
<1>6. Max(S) \in S /\ \A z \in S : Max(S) >= z
  BY <1>5 DEF Max
<1>7. \A m \in Nat : \A z \in Nat : m >= z => z <= m
  OBVIOUS
<1> QED BY <1>6, <1>7

(* The counter a restart computes is above every version on disk.          *)
LEMMA OrdinalTold ==
  ASSUME NEW versions, NEW past, VersionsTold(versions, past)
  PROVE  Below(versions, NextOrdinal(versions))
<1> DEFINE S == {0} \union {versions[n].ordinal + 1 : n \in DOMAIN versions}
<1>1. PICK B : Below(versions, B)
  BY DEF VersionsTold
<1>2. \A n \in DOMAIN versions : versions[n].ordinal \in Nat /\ versions[n].ordinal < B
  BY <1>1 DEF VersionsTold, VersionTold, Below
<1>3. B \in Nat
  BY <1>1 DEF Below
<1>4. S \subseteq Nat /\ S # {} /\ \A x \in S : x <= B
  <2>1. \A n \in DOMAIN versions : versions[n].ordinal + 1 \in Nat /\ versions[n].ordinal + 1 <= B
    BY <1>2, <1>3
  <2> QED BY <1>3, <2>1
<1>5. \A n \in DOMAIN versions : versions[n].ordinal + 1 \in S
  OBVIOUS
<1> HIDE DEF S
<1>6. Max(S) \in S /\ \A x \in S : x <= Max(S)
  BY <1>3, <1>4, MaxFacts
<1>7. NextOrdinal(versions) = Max(S)
  BY DEF NextOrdinal, S
<1>8. Max(S) \in Nat
  BY <1>4, <1>6
<1>9. \A n \in DOMAIN versions : versions[n].ordinal < Max(S)
  <2> TAKE n \in DOMAIN versions
  <2> DEFINE o == versions[n].ordinal
             x == Max(S)
  <2>1. o + 1 <= x /\ o \in Nat /\ x \in Nat
    BY <1>2, <1>5, <1>6, <1>8
  <2> HIDE DEF o, x
  <2>2. o < x
    BY <2>1
  <2> QED BY <2>2 DEF o, x
<1> QED BY <1>7, <1>8, <1>9 DEF Below

LEMMA LoadTells ==
  ASSUME NEW d, Sane(d), NEW h, FilesTell(d, h)
  PROVE  HubTells(InstallRoom(d), h)
<1> DEFINE m == InstallRoom(d)
           past == h.stream[Main]
           F == Floor(d.snap)
<1>1. /\ m.room = LoadRoom(d) /\ m.versions = d.versions /\ m.ordinal = NextOrdinal(d.versions) /\ m.trees = Empty
  BY DEF InstallRoom
<1>2. past \in Seq(Op) /\ MainTold(d.snap, d.log, past) /\ VersionsTold(d.versions, h.version)
  BY DEF FilesTell, IsPast, Stream
<1>3. PICK r : /\ r.seen = F
               /\ LoadRoom(d) = [base |-> Cardinality(F), log |-> Fresh(r, d.log),
                                 seen |-> F \union Range(Fresh(r, d.log))]
  BY LoadedRoom
<1> HIDE DEF m, past
<1> DEFINE n == Cardinality(F)
<1>4. IsInjective(past) /\ n \in 0 .. Len(past) /\ F = Range(SubSeq(past, 1, n)) 
  BY <1>2 DEF MainTold
<1>5. PICK k \in 0 .. n : d.log = After(past, k)
  BY <1>2 DEF MainTold
<1>6. LoadRoom(d).base = n /\ LoadRoom(d).log = Fresh(r, d.log)
  BY <1>3
<1> HIDE DEF n, F
<1>7. Fresh(r, After(past, k)) = After(past, n)
  BY <1>2, <1>3, <1>4, FreshSuffix
<1>8. RoomTold(m.room, past)
  BY <1>1, <1>4, <1>5, <1>6, <1>7 DEF RoomTold
<1>9. Below(m.versions, m.ordinal)
  BY <1>1, <1>2, OrdinalTold
<1>10. TreesTold(m.trees, m.branches, m.tails, h.stream)
  BY <1>1 DEF TreesTold, Empty, Restrict
<1> QED BY <1>8, <1>9, <1>10 DEF HubTells, m, past

LEMMA MinPair ==
  ASSUME NEW x \in Nat, NEW y \in Nat
  PROVE  Min({x, y}) = IF x <= y THEN x ELSE y
  BY DEF Min

LEMMA EmptyCut ==
  ASSUME NEW S, NEW s \in Seq(S), NEW i \in Nat \ {0}, NEW j \in Int, j < i
  PROVE  SubSeq(s, i, j) = <<>>
  OBVIOUS

LEMMA WholeCut ==
  ASSUME NEW s \in Seq(Op)
  PROVE  Len(s) \in 0 .. Len(s) /\ Len(s) \in Nat /\ SubSeq(s, 1, Len(s)) = s /\ After(s, Len(s)) = <<>>
<1> DEFINE i == Len(s) + 1
           j == Len(s)
<1>1. Len(s) \in Nat /\ SubSeq(s, 1, Len(s)) = s
  OBVIOUS
<1>2. i \in Nat \ {0} /\ j \in Int /\ j < i
  BY <1>1
<1>3. SubSeq(s, i, j) = <<>>
  <2> HIDE DEF i, j
  <2> QED BY <1>2, EmptyCut
<1> QED BY <1>1, <1>3 DEF After

(* Sequences with the same beginning have the same parts in it.            *)
LEMMA SamePart ==
  ASSUME NEW S, NEW s \in Seq(S), NEW t \in Seq(S), NEW n \in 0 .. Len(s), n <= Len(t),
         SubSeq(s, 1, n) = SubSeq(t, 1, n), NEW c \in 0 .. n
  PROVE  SubSeq(s, c + 1, n) = SubSeq(t, c + 1, n)
<1> DEFINE i0 == c + 1
           x == SubSeq(s, i0, n)
           y == SubSeq(t, i0, n)
<1>1. /\ n \in Nat /\ c \in Nat /\ c <= n /\ n <= Len(s) /\ Len(s) \in Nat /\ Len(t) \in Nat
      /\ i0 \in Nat \ {0} /\ n \in 0 .. Len(t)
  OBVIOUS
<1>2. \A i \in 1 .. n : s[i] = t[i]
  <2>1. \A i \in 1 .. n : SubSeq(s, 1, n)[i] = s[i]
    BY CutFacts
  <2>2. \A i \in 1 .. n : SubSeq(t, 1, n)[i] = t[i]
    BY <1>1, CutFacts
  <2> QED BY <2>1, <2>2
<1>3. /\ x \in Seq(S) /\ Len(x) = (IF i0 <= n THEN n - i0 + 1 ELSE 0)
      /\ \A i \in 1 .. Len(x) : x[i] = s[i0 + i - 1]
  <2> HIDE DEF i0
  <2> QED BY <1>1, SubSeqRange
<1>4. /\ y \in Seq(S) /\ Len(y) = (IF i0 <= n THEN n - i0 + 1 ELSE 0)
      /\ \A i \in 1 .. Len(y) : y[i] = t[i0 + i - 1]
  <2> HIDE DEF i0
  <2> QED BY <1>1, SubSeqRange
<1> HIDE DEF x, y
<1>5. \A i \in 1 .. Len(x) : i0 + i - 1 \in 1 .. n
  BY <1>1, <1>3
<1>6. \A i \in 1 .. Len(x) : x[i] = y[i]
  <2> HIDE DEF i0
  <2> QED BY <1>2, <1>3, <1>4, <1>5
<1>7. x = y
  BY <1>3, <1>4, <1>6, SameElements
<1> QED BY <1>7 DEF x, y

(* All that the hub holds, against the history.                            *)
BranchHeld(r, tail) ==
    /\ tail \in Seq(Op)
    /\ IF r.published THEN tail = <<>> ELSE r.head = r.fork + Len(tail)

HubTold(m, h) ==
    /\ IsPast(h)
    /\ m.room.seen = Range(h.stream[Main])
    /\ RoomTold(m.room, h.stream[Main])
    /\ DOMAIN m.branches \subseteq Branch
    /\ StreamsTold(m.branches, m.tails, m.bases, h.stream)
    /\ \A b \in DOMAIN m.branches : BranchHeld(m.branches[b], m.tails[b])
    /\ VersionsTold(m.versions, h.version)
    /\ Below(m.versions, m.ordinal)
    /\ ActiveTold(m.active, m.branches)
    /\ TreesTold(m.trees, m.branches, m.tails, h.stream)

LEMMA MainSeen ==
  ASSUME NEW snap, NEW log, NEW past \in Seq(Op), MainTold(snap, log, past)
  PROVE  Floor(snap) \union Range(log) = Range(past)
<1> DEFINE n == Cardinality(Floor(snap))
<1>1. n \in 0 .. Len(past) /\ Floor(snap) = Range(SubSeq(past, 1, n))
  BY DEF MainTold
<1>2. PICK k \in 0 .. n : log = After(past, k)
  BY DEF MainTold
<1> HIDE DEF n
<1>3. k \in 0 .. Len(past) /\ n \in k .. Len(past)
  BY <1>1
<1>4. Range(past) = Range(SubSeq(past, 1, n)) \union Range(After(past, n))
  BY <1>1, CutFacts
<1>5. Range(past) = Range(SubSeq(past, 1, k)) \union Range(After(past, k)) /\ After(past, k) \in Seq(Op)
  BY <1>3, CutFacts
<1> DEFINE a == After(past, k)
           d == n - k
<1>6. d \in 0 .. Len(a) /\ After(a, d) = After(past, n)
  BY <1>3, CutTwice
<1> HIDE DEF d
<1>7. Range(a) = Range(SubSeq(a, 1, d)) \union Range(After(a, d))
  <2>1. a \in Seq(Op)
    BY <1>5
  <2> HIDE DEF a
  <2> QED BY <1>6, <2>1, CutFacts
<1> QED BY <1>1, <1>2, <1>4, <1>5, <1>6, <1>7

LEMMA HubIsTold ==
  ASSUME NEW d, Sane(d), NEW m, Agree(m, d), NEW h, FilesTell(d, h), HubTells(m, h)
  PROVE  HubTold(m, h)
<1>1. /\ IsPast(h) /\ MainTold(d.snap, d.log, h.stream[Main])
      /\ StreamsTold(d.branches, d.blog, d.bbase, h.stream)
      /\ VersionsTold(d.versions, h.version) /\ ActiveTold(d.active, d.branches)
  BY DEF FilesTell
<1>2. RoomTold(m.room, h.stream[Main]) /\ Below(m.versions, m.ordinal)
      /\ TreesTold(m.trees, m.branches, m.tails, h.stream)
  BY DEF HubTells
<1>3. h.stream[Main] \in Seq(Op)
  BY <1>1 DEF IsPast, Stream
<1>4. m.room.seen = Range(h.stream[Main])
  BY <1>1, <1>3, MainSeen DEF Agree, MainAgrees
<1>5. /\ DOMAIN m.branches = DOMAIN d.branches /\ DOMAIN d.branches \subseteq Branch
      /\ m.tails \in [Branch -> Seq(Op)] /\ m.versions = d.versions
      /\ m.active = IF d.active \in DOMAIN d.branches THEN d.active ELSE Main
      /\ DOMAIN m.bases = DOMAIN d.bbase \intersect DOMAIN d.branches
      /\ \A b \in DOMAIN m.bases : m.bases[b] = d.bbase[b]
      /\ Main \notin Branch
  BY StreamAssumption DEF Agree, StreamsAgree, Sane, SaneStreams
<1>6. ASSUME NEW b \in DOMAIN m.branches
      PROVE  /\ m.branches[b].published = d.branches[b].published
             /\ m.branches[b].fork = d.branches[b].fork
             /\ m.tails[b] = IF d.branches[b].published THEN <<>> ELSE d.blog[b]
             /\ m.tails[b] \in Seq(Op)
             /\ m.branches[b].head = IF m.tails[b] = <<>> THEN d.branches[b].head
                                     ELSE d.branches[b].fork + Len(m.tails[b])
  <2>1. /\ m.tails[b] = TailOf(d.branches, d.blog, b)
        /\ m.branches[b] = Patched(d.branches[b], TailOf(d.branches, d.blog, b))
        /\ IsPointer(d.branches[b]) /\ b \in Branch
    BY <1>5 DEF Agree, StreamsAgree, Sane, SaneStreams
  <2>2. PICK r : r = d.branches[b]
    OBVIOUS
  <2>3. PICK t : t = m.tails[b]
    OBVIOUS
  <2>4. m.branches[b] = Patched(r, t) /\ IsPointer(r)
    BY <2>1, <2>2, <2>3
  <2>5. /\ m.branches[b].published = r.published /\ m.branches[b].fork = r.fork
        /\ m.branches[b].head = IF t = <<>> THEN r.head ELSE r.fork + Len(t)
    BY <2>4 DEF Patched, IsPointer
  <2> QED BY <1>5, <2>1, <2>2, <2>3, <2>5 DEF TailOf
<1>7. ASSUME NEW b \in DOMAIN m.branches
      PROVE  /\ BranchTold(m.branches[b], m.tails[b], m.bases, b, h.stream[b], h.stream[Main])
             /\ BranchHeld(m.branches[b], m.tails[b])
  <2>1. BranchTold(d.branches[b], d.blog[b], d.bbase, b, h.stream[b], h.stream[Main])
    BY <1>1, <1>5 DEF StreamsTold
  <2>2. b \in DOMAIN m.bases <=> b \in DOMAIN d.bbase
    BY <1>5
  <2>3. b \in DOMAIN m.bases => m.bases[b] = d.bbase[b]
    BY <1>5
  <2>4. CASE d.branches[b].published
    BY <1>6, <2>1, <2>2, <2>3, <2>4 DEF BranchTold, BranchHeld
  <2>5. CASE ~d.branches[b].published
    <3>1. TailTold(d.branches[b], d.blog[b], h.stream[b]) /\ m.tails[b] = d.blog[b] /\ ~m.branches[b].published
      BY <1>6, <2>1, <2>5 DEF BranchTold
    <3>2. h.stream[b] \in Seq(Op) /\ b \in Branch
      BY <1>1, <1>5 DEF IsPast, Stream
    <3>3. m.branches[b].head = m.branches[b].fork + Len(m.tails[b])
      <4>1. CASE m.tails[b] = <<>>
        <5>1. m.branches[b].head = d.branches[b].fork
          BY <1>6, <3>1, <4>1 DEF TailTold
        <5>2. Len(m.tails[b]) = 0 /\ m.branches[b].fork \in Nat
          BY <1>6, <3>1, <4>1 DEF TailTold
        <5> QED BY <1>6, <5>1, <5>2
      <4>2. CASE m.tails[b] # <<>>
        BY <1>6, <4>2
      <4> QED BY <4>1, <4>2
    <3>4. TailTold(m.branches[b], m.tails[b], h.stream[b])
      <4>1. m.tails[b] = <<>> => m.branches[b].head = m.branches[b].fork
        BY <1>6, <3>1 DEF TailTold
      <4> QED BY <1>6, <3>1, <4>1 DEF TailTold
    <3>5. BaseTold(m.branches[b], m.bases, b, h.stream[b], h.stream[Main])
      <4>1. BaseTold(d.branches[b], d.bbase, b, h.stream[b], h.stream[Main])
        BY <2>1, <2>5 DEF BranchTold
      <4> QED BY <1>6, <2>2, <2>3, <4>1 DEF BaseTold
    <3> QED BY <1>6, <3>1, <3>3, <3>4, <3>5 DEF BranchTold, BranchHeld
  <2> QED BY <2>4, <2>5
<1>8. ActiveTold(m.active, m.branches)
  BY <1>1, <1>5, <1>6 DEF ActiveTold
<1> QED BY <1>1, <1>2, <1>4, <1>5, <1>7, <1>8 DEF HubTold, StreamsTold

-----------------------------------------------------------------------------
(* A hub that agrees with the history serves it.                           *)

LEMMA RoomServes ==
  ASSUME NEW r, NEW past \in Seq(Op), RoomTold(r, past), r.seen = Range(past)
  PROVE  /\ RoomHead(r) = Len(past) /\ r.base \in Nat /\ r.base <= Len(past) /\ r.log \in Seq(Op)
         /\ \A c \in 0 .. Len(past) : Completes(CatchUp(r, c), past, c)
<1> DEFINE a == r.base
           N == Len(past)
<1>1. a \in 0 .. N /\ r.log = After(past, a)
  BY DEF RoomTold
<1> HIDE DEF a
<1>2. After(past, a) \in Seq(Op) /\ Len(After(past, a)) = N - a /\ N \in Nat
  BY <1>1, CutFacts
<1>3. RoomHead(r) = N
  <2>1. RoomHead(r) = a + (N - a)
    BY <1>1, <1>2 DEF RoomHead, a
  <2> QED BY <1>1, <1>2, <2>1
<1>4. ASSUME NEW c \in 0 .. N PROVE Completes(CatchUp(r, c), past, c)
  <2>1. CASE c < a
    BY <1>3, <2>1 DEF CatchUp, Completes, a
  <2>2. CASE ~(c < a)
    <3>1. CatchUp(r, c) = [kind |-> "ops", ops |-> After(r.log, c - a)]
      BY <2>2 DEF CatchUp, After, a
    <3>2. c \in a .. N
      BY <1>1, <1>2, <2>2
    <3>3. After(After(past, a), c - a) = After(past, c)
      BY <1>1, <3>2, CutTwice
    <3> HIDE DEF N
    <3> QED BY <1>1, <3>1, <3>3 DEF Completes
  <2> QED BY <2>1, <2>2
<1> QED BY <1>1, <1>2, <1>3, <1>4 DEF a

(* What a live fork serves a reader at c.                                  *)
LEMMA ForkServes ==
  ASSUME NEW main \in Seq(Op), NEW past \in Seq(Op), NEW a \in 0 .. Len(main), NEW f \in 0 .. Len(past),
         f <= Len(main), SubSeq(past, 1, f) = SubSeq(main, 1, f),
         NEW c \in 0 .. Len(past), f <= c \/ a <= c
  PROVE  SubSeq(After(main, a), Monus(c, a) + 1, f - a) \o After(After(past, f), Monus(c, f)) = After(past, c)
<1>1. /\ a \in Nat /\ f \in Nat /\ c \in Nat /\ Len(main) \in Nat /\ Len(past) \in Nat
      /\ a <= Len(main) /\ f <= Len(past) /\ c <= Len(past)
  OBVIOUS
<1>2. After(main, a) \in Seq(Op) /\ After(past, c) \in Seq(Op)
  BY CutFacts
<1>3. CASE f <= c
  <2>1. c \in f .. Len(past) /\ Monus(c, f) = c - f
    BY <1>1, <1>3 DEF Monus
  <2>2. After(After(past, f), c - f) = After(past, c)
    BY <2>1, CutTwice
  <2> DEFINE i == Monus(c, a) + 1
             j == f - a
             l == After(main, a)
             p == After(past, c)
  <2>3. i \in Nat \ {0} /\ j \in Int /\ j < i
    BY <1>1, <1>3 DEF Monus
  <2>4. SubSeq(l, i, j) = <<>>
    <3> HIDE DEF i, j, l
    <3> QED BY <1>2, <2>3, EmptyCut DEF l
  <2>5. <<>> \o p = p
    <3> HIDE DEF p
    <3> QED BY <1>2 DEF p
  <2> QED BY <2>1, <2>2, <2>4, <2>5
<1>4. CASE ~(f <= c)
  <2>1. a <= c /\ c < f /\ Monus(c, f) = 0 /\ Monus(c, a) = c - a /\ f \in a .. Len(main) /\ c \in a .. f
        /\ c \in 0 .. f /\ f \in c .. Len(past) /\ f \in 0 .. Len(main)
    BY <1>1, <1>4 DEF Monus
  <2>2. SubSeq(After(main, a), c - a + 1, f - a) = SubSeq(main, c + 1, f)
    BY <2>1, CutTwice
  <2>3. SubSeq(past, c + 1, f) = SubSeq(main, c + 1, f)
    BY <2>1, SamePart
  <2>4. SubSeq(past, c + 1, f) \o After(past, f) = After(past, c)
    BY <2>1, CutTwice
  <2>5. After(After(past, f), 0) = After(past, f)
    <3>1. f \in f .. Len(past) /\ f - f = 0
      BY <1>1
    <3>2. After(After(past, f), f - f) = After(past, f)
      BY <3>1, CutTwice
    <3> QED BY <3>1, <3>2
  <2> QED BY <2>1, <2>2, <2>3, <2>4, <2>5
<1> QED BY <1>3, <1>4

(* A branch's tail, its base and its head, cut from its history.           *)
LEMMA TailParts ==
  ASSUME NEW past \in Seq(Op), NEW f \in 0 .. Len(past), NEW c \in 0 .. Len(past)
  PROVE  /\ f \in Nat /\ f <= Len(past) /\ f + Len(After(past, f)) = Len(past)
         /\ Range(SubSeq(past, 1, f)) \union Range(After(past, f)) = Range(past)
         /\ c >= f => After(After(past, f), Monus(c, f)) = After(past, c)
<1>1. /\ f \in Nat /\ c \in Nat /\ Len(past) \in Nat /\ f <= Len(past) /\ c <= Len(past)
  OBVIOUS
<1>2. Len(After(past, f)) = Len(past) - f /\ Range(past) = Range(SubSeq(past, 1, f)) \union Range(After(past, f))
  BY CutFacts
<1>3. ASSUME c >= f PROVE After(After(past, f), Monus(c, f)) = After(past, c)
  <2>1. c \in f .. Len(past) /\ Monus(c, f) = c - f
    BY <1>1, <1>3 DEF Monus
  <2>2. After(After(past, f), c - f) = After(past, c)
    BY <2>1, CutTwice
  <2> QED BY <2>1, <2>2
<1> QED BY <1>1, <1>2, <1>3

LEMMA BranchServes ==
  ASSUME NEW m, NEW h, HubTold(m, h), NEW b \in DOMAIN m.branches, ~m.branches[b].published
  PROVE  /\ m.branches[b].head = Len(h.stream[b])
         /\ \A c \in 0 .. Len(h.stream[b]) :
               LET u == CatchUpBranch(m, b, c)
               IN \/ u.kind # "unavailable" /\ Completes(u, h.stream[b], c)
                  \/ /\ u.kind = "unavailable" /\ b \notin DOMAIN m.bases
                     /\ c < m.room.base /\ c < m.branches[b].fork
<1> DEFINE past == h.stream[b]
           main == h.stream[Main]
           f == m.branches[b].fork
           tail == m.tails[b]
           r == m.room
           a == r.base
<1>1. past \in Seq(Op) /\ main \in Seq(Op)
  BY DEF HubTold, IsPast, Stream
<1>2. /\ BranchTold(m.branches[b], tail, m.bases, b, past, main) /\ BranchHeld(m.branches[b], tail)
      /\ RoomTold(r, main) /\ r.seen = Range(main)
  BY DEF HubTold, StreamsTold
<1>3. f \in 0 .. Len(past) /\ tail = After(past, f) /\ m.branches[b].head = f + Len(tail)
  BY <1>2 DEF BranchTold, TailTold, BranchHeld
<1>4. BaseTold(m.branches[b], m.bases, b, past, main)
  BY <1>2 DEF BranchTold
<1>5. a \in 0 .. Len(main) /\ r.log = After(main, a) /\ RoomHead(r) = Len(main) /\ Len(main) \in Nat
  <2>1. RoomHead(r) = Len(main)
    <3> HIDE DEF r, main
    <3> QED BY <1>1, <1>2, RoomServes
  <2> QED BY <1>1, <1>2, <2>1 DEF RoomTold
<1> HIDE DEF f, past, main, tail, r, a
<1>6. ASSUME NEW c \in 0 .. Len(past)
      PROVE  LET u == CatchUpBranch(m, b, c)
             IN \/ u.kind # "unavailable" /\ Completes(u, past, c)
                \/ u.kind = "unavailable" /\ b \notin DOMAIN m.bases /\ c < a /\ c < f
  <2>1. /\ f \in Nat /\ f <= Len(past) /\ f + Len(tail) = Len(past)
        /\ Range(SubSeq(past, 1, f)) \union Range(tail) = Range(past)
        /\ c >= f => After(tail, Monus(c, f)) = After(past, c)
    BY <1>1, <1>3, TailParts
  <2>2. c \in Nat /\ a \in Nat /\ a <= Len(main)
    BY <1>1, <1>5
  <2>3. CASE b \in DOMAIN m.bases /\ c < f
    <3>1. m.bases[b] = Range(SubSeq(past, 1, f))
      BY <1>4, <2>3 DEF BaseTold, f
    <3>2. CatchUpBranch(m, b, c) = [kind |-> "snapshot", seq |-> f + Len(tail),
                                    state |-> m.bases[b] \union Range(tail)]
      <4>1. ~(c >= f)
        BY <2>1, <2>2, <2>3
      <4> QED BY <2>3, <4>1 DEF CatchUpBranch, f, tail
    <3> QED BY <2>1, <3>1, <3>2 DEF Completes
  <2>4. CASE b \in DOMAIN m.bases /\ ~(c < f)
    <3>0. c >= f
      BY <2>1, <2>2, <2>4
    <3>1. CatchUpBranch(m, b, c) = [kind |-> "ops", ops |-> After(tail, Monus(c, f))]
      BY <2>4, <3>0 DEF CatchUpBranch, f, tail
    <3> QED BY <2>1, <3>0, <3>1 DEF Completes
  <2>5. CASE b \notin DOMAIN m.bases
    <3>1. f <= Len(main) /\ SubSeq(past, 1, f) = SubSeq(main, 1, f)
      BY <1>4, <2>5 DEF BaseTold, f
    <3>2. BaseEnd(m, b) = f
      <4>1. BaseEnd(m, b) = Min({f, Len(main)})
        BY <1>5 DEF BaseEnd, f, r
      <4> QED BY <1>5, <2>1, <3>1, <4>1, MinPair
    <3>3. Min({f, a}) = IF f <= a THEN f ELSE a
      BY <2>1, <2>2, MinPair
    <3>4. CASE Min({f, a}) > c
      <4>1. c < a /\ c < f
        BY <2>1, <2>2, <3>3, <3>4
      <4>2. CatchUpBranch(m, b, c).kind = "unavailable"
        BY <2>5, <3>2, <3>4 DEF CatchUpBranch, r, a
      <4> QED BY <2>5, <4>1, <4>2
    <3>5. CASE ~(Min({f, a}) > c)
      <4>1. f <= c \/ a <= c
        BY <2>1, <2>2, <3>3, <3>5
      <4>2. CatchUpBranch(m, b, c) =
              [kind |-> "ops", ops |-> SubSeq(r.log, Monus(c, a) + 1, f - a) \o After(tail, Monus(c, f))]
        BY <2>5, <3>2, <3>5 DEF CatchUpBranch, r, a, f, tail
      <4>3. SubSeq(After(main, a), Monus(c, a) + 1, f - a) \o After(After(past, f), Monus(c, f)) = After(past, c)
        BY <1>1, <1>3, <1>5, <3>1, <4>1, ForkServes
      <4> DEFINE u == CatchUpBranch(m, b, c)
      <4>4. u.kind = "ops" /\ u.ops = After(past, c)
        <5>1. SubSeq(r.log, Monus(c, a) + 1, f - a) \o After(tail, Monus(c, f)) = After(past, c)
          BY <1>3, <1>5, <4>3
        <5>2. u = [kind |-> "ops", ops |-> After(past, c)]
          BY <4>2, <5>1
        <5> HIDE DEF u
        <5> QED BY <5>2
      <4> HIDE DEF u
      <4>5. u.kind # "unavailable" /\ Completes(u, past, c)
        BY <4>4 DEF Completes
      <4> QED BY <4>5 DEF u
    <3> QED BY <3>4, <3>5
  <2> QED BY <2>3, <2>4, <2>5
<1>7. m.branches[b].head = Len(past)
  <2>1. 0 \in 0 .. Len(past)
    BY <1>1
  <2> QED BY <1>1, <1>3, <2>1, TailParts
<1> QED BY <1>6, <1>7 DEF past, f, a, r

(* A branch folded whole is its history, or cannot be had.                 *)
LEMMA FoldTold ==
  ASSUME NEW m, NEW h, HubTold(m, h), NEW b \in DOMAIN m.branches
  PROVE  /\ FoldStream(m, b) = {Range(h.stream[b])} \/ FoldStream(m, b) = {}
         /\ m.branches[b].published => b \in DOMAIN m.bases
         /\ b \in DOMAIN m.bases \/ m.room.base = 0 \/ m.branches[b].fork = 0
              => FoldStream(m, b) = {Range(h.stream[b])}
<1> DEFINE past == h.stream[b]
           main == h.stream[Main]
           tail == m.tails[b]
<1>1. past \in Seq(Op) /\ main \in Seq(Op)
  BY DEF HubTold, IsPast, Stream
<1>2. /\ BranchTold(m.branches[b], tail, m.bases, b, past, main) /\ BranchHeld(m.branches[b], tail)
  BY DEF HubTold, StreamsTold
<1>3. CASE m.branches[b].published
  <2>1. b \in DOMAIN m.bases /\ m.bases[b] = Range(past) /\ tail = <<>>
    BY <1>2, <1>3 DEF BranchTold, BranchHeld
  <2>2. FoldStream(m, b) = {m.bases[b] \union Range(tail)}
    BY <2>1 DEF FoldStream
  <2>3. Range(<<>>) = {}
    BY DEF Range
  <2> QED BY <2>1, <2>2, <2>3
<1>4. CASE ~m.branches[b].published
  <2>1. m.branches[b].fork \in 0 .. Len(past) /\ tail = After(past, m.branches[b].fork)
        /\ BaseTold(m.branches[b], m.bases, b, past, main)
    BY <1>2, <1>4 DEF BranchTold, TailTold
  <2>2. CASE b \in DOMAIN m.bases
    <3>1. FoldStream(m, b) = {m.bases[b] \union Range(tail)}
      BY <2>2 DEF FoldStream
    <3> DEFINE f == m.branches[b].fork
    <3>2. m.bases[b] = Range(SubSeq(past, 1, f))
      BY <2>1, <2>2 DEF BaseTold
    <3>3. Range(past) = Range(SubSeq(past, 1, f)) \union Range(After(past, f))
      <4>1. f \in 0 .. Len(past)
        BY <2>1
      <4> HIDE DEF f
      <4> QED BY <1>1, <4>1, CutFacts
    <3> QED BY <1>4, <2>1, <3>1, <3>2, <3>3
  <2>3. CASE b \notin DOMAIN m.bases
    <3> DEFINE u == CatchUpBranch(m, b, 0)
    <3>1. 0 \in 0 .. Len(past)
      BY <1>1
    <3>2. \/ u.kind # "unavailable" /\ Completes(u, past, 0)
          \/ u.kind = "unavailable" /\ 0 < m.room.base /\ 0 < m.branches[b].fork
      BY <1>4, <3>1, BranchServes
    <3>3. u.kind # "snapshot" /\ u.kind \in {"ops", "unavailable"}
      BY <2>3 DEF CatchUpBranch
    <3>4. FoldStream(m, b) = IF u.kind = "ops" THEN {Range(u.ops)} ELSE {}
      BY <2>3 DEF FoldStream
    <3> HIDE DEF u
    <3>5. After(past, 0) = past
      BY <1>1 DEF After
    <3>6. CASE u.kind = "ops"
      BY <1>4, <3>2, <3>4, <3>5, <3>6 DEF Completes
    <3>7. CASE u.kind = "unavailable"
      BY <1>4, <2>3, <3>2, <3>4, <3>7
    <3> QED BY <3>3, <3>6, <3>7
  <2> QED BY <2>2, <2>3
<1> QED BY <1>3, <1>4

LEMMA TreeServes ==
  ASSUME NEW m, NEW h, HubTold(m, h), NEW b \in DOMAIN m.branches
  PROVE  /\ {t.doc : t \in StreamTree(m, b)} = FoldStream(m, b)
         /\ \A t \in StreamTree(m, b) : TreeTold(t, m.branches[b], m.tails[b], h.stream[b])
<1> DEFINE past == h.stream[b]
           main == h.stream[Main]
           tail == m.tails[b]
           p == m.branches[b]
           key == TreeKey(m, b)
           T == StreamTree(m, b)
           closed == \E s \in key.shared : s[1] > 0 /\ s[2] > 0
           old == m.trees[b]
           extends == b \in DOMAIN m.trees /\ old.key = key /\ old.tailLen <= Len(tail)
           next == [old EXCEPT !.doc = old.doc \union Range(After(tail, old.tailLen)), !.tailLen = Len(tail)]
<1>1. past \in Seq(Op) /\ main \in Seq(Op)
  BY DEF HubTold, IsPast, Stream
<1>2. /\ BranchTold(p, tail, m.bases, b, past, main) /\ BranchHeld(p, tail)
      /\ RoomTold(m.room, main) /\ m.room.seen = Range(main) /\ tail \in Seq(Op)
      /\ b \in DOMAIN m.trees => TreeTold(old, p, tail, past)
  BY DEF HubTold, StreamsTold, BranchHeld, TreesTold
<1>3. T = IF closed THEN {} ELSE IF extends THEN {next}
          ELSE {[key |-> key, tailLen |-> Len(tail), doc |-> d] : d \in FoldStream(m, b)}
  BY DEF StreamTree
<1>4. key.shared = {<<m.room.base, BaseEnd(m, b)>> : x \in {b} \ DOMAIN m.bases}
  BY DEF TreeKey
<1>5. /\ FoldStream(m, b) = {Range(past)} \/ FoldStream(m, b) = {}
      /\ p.published => b \in DOMAIN m.bases
      /\ b \in DOMAIN m.bases \/ m.room.base = 0 \/ p.fork = 0 => FoldStream(m, b) = {Range(past)}
  BY FoldTold
<1>6. Len(tail) \in 0 .. Len(tail) /\ Len(tail) \in Nat
  BY <1>2
<1> HIDE DEF key, T
<1>7. CASE closed
  <2>1. b \notin DOMAIN m.bases /\ m.room.base > 0 /\ BaseEnd(m, b) > 0
    BY <1>4, <1>7
  <2>2. FoldStream(m, b) = {}
    <3> DEFINE e == BaseEnd(m, b)
               a == m.room.base
    <3>1. a \in Nat
      BY <1>1, <1>2, RoomServes
    <3>2. e \in Nat
      <4>1. RoomHead(m.room) \in Nat /\ p.fork \in Nat
        <5>1. RoomHead(m.room) = Len(main)
          BY <1>1, <1>2, RoomServes
        <5> QED BY <1>1, <1>2, <1>5, <2>1, <5>1 DEF BranchTold, TailTold
      <4> QED BY <4>1, MinPair DEF BaseEnd
    <3>3. Min({e, a}) > 0
      <4> HIDE DEF e, a
      <4>1. e > 0 /\ a > 0
        BY <2>1 DEF e, a
      <4> QED BY <3>1, <3>2, <4>1, MinPair
    <3>4. CatchUpBranch(m, b, 0).kind = "unavailable"
      BY <2>1, <3>3 DEF CatchUpBranch
    <3> QED BY <2>1, <3>4 DEF FoldStream
  <2> QED BY <1>3, <1>7, <2>2 DEF T
<1>8. CASE ~closed /\ extends
  <2>1. FoldStream(m, b) = {Range(past)}
    <3>1. CASE b \in DOMAIN m.bases
      BY <1>5, <3>1
    <3>2. CASE b \notin DOMAIN m.bases
      <4>1. ~(m.room.base > 0 /\ BaseEnd(m, b) > 0)
        <5>1. <<m.room.base, BaseEnd(m, b)>> \in key.shared
          BY <1>4, <3>2
        <5> QED BY <1>8, <5>1
      <4>2. m.room.base \in Nat /\ RoomHead(m.room) = Len(main) /\ Len(main) \in Nat
        BY <1>1, <1>2, RoomServes
      <4>3. p.fork \in Nat /\ p.fork <= Len(main)
        BY <1>1, <1>2, <1>5, <3>2 DEF BranchTold, TailTold, BaseTold
      <4>4. BaseEnd(m, b) = p.fork
        <5> DEFINE f == p.fork
                   n == Len(main)
        <5>1. BaseEnd(m, b) = Min({f, n}) /\ f \in Nat /\ n \in Nat /\ f <= n
          BY <4>2, <4>3 DEF BaseEnd
        <5> HIDE DEF f, n
        <5>2. BaseEnd(m, b) = f
          BY <5>1, MinPair
        <5> QED BY <5>2 DEF f
      <4>5. m.room.base = 0 \/ p.fork = 0
        BY <4>1, <4>2, <4>3, <4>4
      <4> QED BY <1>5, <4>5
    <3> QED BY <3>1, <3>2
  <2>2. IsTree(old) /\ old.tailLen \in 0 .. Len(tail)
        /\ old.doc = IF p.published THEN Range(past) ELSE Range(SubSeq(past, 1, p.fork + old.tailLen))
    BY <1>2, <1>8 DEF TreeTold
  <2>3. IsTree(next) /\ next.tailLen = Len(tail) /\ next.doc = old.doc \union Range(After(tail, old.tailLen))
    BY <2>2 DEF IsTree
  <2>4. next.doc = Range(past)
    <3> HIDE DEF next, old
    <3>1. CASE p.published
      <4>1. tail = <<>> /\ old.tailLen = 0
        BY <1>2, <2>2, <3>1 DEF BranchHeld
      <4>2. After(<<>>, 0) = <<>> /\ Range(<<>>) = {}
        BY DEF After, Range
      <4> QED BY <2>2, <2>3, <3>1, <4>1, <4>2
    <3>2. CASE ~p.published
      <4> DEFINE f == p.fork
                 n == old.tailLen
                 g == f + n
      <4>1. f \in 0 .. Len(past) /\ tail = After(past, f)
        BY <1>2, <3>2 DEF BranchTold, TailTold
      <4>2. n \in 0 .. Len(tail) /\ old.doc = Range(SubSeq(past, 1, g))
        BY <2>2, <3>2
      <4> HIDE DEF f, n
      <4>3. Len(tail) = Len(past) - f /\ f \in Nat /\ Len(past) \in Nat
        BY <1>1, <4>1, CutFacts
      <4>4. n \in Nat /\ n <= Len(past) - f
        BY <4>2, <4>3
      <4>5. g \in f .. Len(past) /\ g - f = n /\ g \in 0 .. Len(past)
        BY <4>3, <4>4
      <4> HIDE DEF g
      <4>6. After(After(past, f), g - f) = After(past, g)
        BY <1>1, <4>1, <4>5, CutTwice
      <4>7. Range(past) = Range(SubSeq(past, 1, g)) \union Range(After(past, g))
        BY <1>1, <4>5, CutFacts
      <4>8. After(tail, n) = After(past, g)
        BY <4>1, <4>5, <4>6
      <4>9. next.doc = old.doc \union Range(After(tail, n))
        BY <2>3 DEF n
      <4> QED BY <4>2, <4>7, <4>8, <4>9
    <3> QED BY <3>1, <3>2
  <2> HIDE DEF next
  <2>5. TreeTold(next, p, tail, past)
    <3>1. CASE p.published
      BY <1>6, <2>3, <2>4, <3>1 DEF TreeTold
    <3>2. CASE ~p.published
      <4> DEFINE f == p.fork
      <4>1. f \in 0 .. Len(past) /\ tail = After(past, f)
        BY <1>2, <3>2 DEF BranchTold, TailTold
      <4> HIDE DEF f
      <4>2. Len(tail) = Len(past) - f /\ f \in Nat /\ Len(past) \in Nat
        BY <1>1, <4>1, CutFacts
      <4>3. f + Len(tail) = Len(past)
        BY <4>2
      <4>4. SubSeq(past, 1, Len(past)) = past
        BY <1>1
      <4>5. next.doc = Range(SubSeq(past, 1, f + next.tailLen))
        BY <2>3, <2>4, <4>3, <4>4
      <4> QED BY <1>6, <2>3, <3>2, <4>5 DEF TreeTold, f
    <3> QED BY <3>1, <3>2
  <2> QED BY <1>3, <1>8, <2>1, <2>4, <2>5 DEF T
<1>9. CASE ~closed /\ ~extends
  <2> DEFINE Tree(d) == [key |-> key, tailLen |-> Len(tail), doc |-> d]
  <2>1. T = {Tree(d) : d \in FoldStream(m, b)}
    BY <1>3, <1>9
  <2>2. \A d : Tree(d).doc = d /\ IsTree(Tree(d)) /\ Tree(d).tailLen = Len(tail)
    BY DEF IsTree
  <2> HIDE DEF Tree
  <2>3. {t.doc : t \in T} = FoldStream(m, b)
    BY <2>1, <2>2
  <2>4. ASSUME NEW t \in T PROVE TreeTold(t, p, tail, past)
    <3>1. IsTree(t) /\ t.tailLen = Len(tail) /\ t.doc = Range(past)
      BY <1>5, <2>1, <2>2
    <3>2. CASE p.published
      BY <1>6, <3>1, <3>2 DEF TreeTold
    <3>3. CASE ~p.published
      <4> DEFINE f == p.fork
      <4>1. f \in 0 .. Len(past) /\ tail = After(past, f)
        BY <1>2, <3>3 DEF BranchTold, TailTold
      <4> HIDE DEF f
      <4>2. Len(tail) = Len(past) - f /\ f \in Nat /\ Len(past) \in Nat
        BY <1>1, <4>1, CutFacts
      <4>3. f + Len(tail) = Len(past)
        BY <4>2
      <4>4. SubSeq(past, 1, Len(past)) = past
        BY <1>1
      <4>5. t.doc = Range(SubSeq(past, 1, f + t.tailLen))
        BY <3>1, <4>3, <4>4
      <4> QED BY <1>6, <3>1, <3>3, <4>5 DEF TreeTold, f
    <3> QED BY <3>2, <3>3
  <2> QED BY <2>3, <2>4 DEF T
<1> QED BY <1>7, <1>8, <1>9

LEMMA TellsServes ==
  ASSUME NEW h, HubTold(mem, h), h = hist
  PROVE  ServesHistory /\ VersionsFaithful
<1>1. \A b \in DOMAIN mem.branches : b # Main
  BY StreamAssumption DEF HubTold
<1>2. ASSUME NEW b \in DOMAIN mem.branches
      PROVE  Materialized(mem, b) = FoldStream(mem, b)
  BY <1>1, TreeServes DEF Materialized
<1>3. ASSUME NEW s \in {Main} \union DOMAIN mem.branches, s # Main, mem.branches[s].published
      PROVE  s \in DOMAIN mem.bases /\ FoldStream(mem, s) = {Range(h.stream[s])}
  <2>1. s \in DOMAIN mem.branches
    BY <1>3
  <2> QED BY <1>3, <2>1, FoldTold
<1>4. ASSUME NEW s \in {Main} \union DOMAIN mem.branches, ~(s # Main /\ mem.branches[s].published)
      PROVE  /\ StreamHead(mem, s) = Len(h.stream[s])
             /\ \A c \in 0 .. Len(h.stream[s]) :
                   LET u == CatchUpStream(mem, s, c)
                   IN Completes(u, h.stream[s], c) \/ (u.kind = "unavailable" /\ c < mem.room.base)
  <2>1. CASE s = Main
    <3> DEFINE past == h.stream[Main]
               r == mem.room
    <3>1. past \in Seq(Op) /\ RoomTold(r, past) /\ r.seen = Range(past)
      BY DEF HubTold, IsPast, Stream
    <3> HIDE DEF past, r
    <3>2. RoomHead(r) = Len(past) /\ \A c \in 0 .. Len(past) : Completes(CatchUp(r, c), past, c)
      BY <3>1, RoomServes
    <3> QED BY <2>1, <3>2 DEF StreamHead, CatchUpStream, past, r
  <2>2. CASE s # Main
    <3>1. s \in DOMAIN mem.branches /\ ~mem.branches[s].published
      BY <1>4, <2>2
    <3>2. mem.branches[s].head = Len(h.stream[s])
      BY <3>1, BranchServes
    <3>3. ASSUME NEW c \in 0 .. Len(h.stream[s])
          PROVE  LET u == CatchUpBranch(mem, s, c)
                 IN Completes(u, h.stream[s], c) \/ (u.kind = "unavailable" /\ c < mem.room.base)
      BY <3>1, BranchServes
    <3> QED BY <2>2, <3>2, <3>3 DEF StreamHead, CatchUpStream
  <2> QED BY <2>1, <2>2
<1>5. ServesHistory
  BY <1>2, <1>3, <1>4 DEF ServesHistory
<1>6. VersionsFaithful
  BY DEF VersionsFaithful, HubTold, VersionsTold, VersionTold, Below, Distinct
<1> QED BY <1>5, <1>6

-----------------------------------------------------------------------------
(* Plans, against the history.                                             *)

Told == FilesTell(disk, hist) /\ HubTells(mem, hist)

(* The same plan, read against the history: what each write leaves on disk *)
(* is what the history then says.                                          *)
TellsWrite(w, kind) ==
    /\ kind \in CrashIn => /\ FilesTell(w.disk, w.hist)
                           /\ \A left \in w.torn : FilesTell(left.disk, left.hist)
    /\ kind \in FailIn => FilesTell(w.kept.disk, w.kept.hist) /\ HubTells(w.undone, w.kept.hist)

TellsWrites(p, kind) == \E W : p.writes \in Seq(W) /\ \A w \in W : TellsWrite(w, kind)

Tells(p, kind) == TellsWrites(p, kind) /\ FilesTell(p.disk, p.hist) /\ HubTells(p.mem, p.hist)

LEMMA StartTells ==
  ASSUME NEW m, NEW kind
  PROVE  /\ TellsWrites(Start(m), kind) /\ Start(m).mem = m /\ Start(m).disk = disk /\ Start(m).hist = hist
         /\ FilesTell(disk, hist) /\ HubTells(m, hist) => Tells(Start(m), kind)
<1>1. /\ Start(m).mem = m /\ Start(m).disk = disk /\ Start(m).hist = hist
      /\ Start(m).writes = <<>>
  BY DEF Start
<1>2. PICK W : W = {}
  OBVIOUS
<1>3. Start(m).writes \in Seq(W) /\ \A w \in W : TellsWrite(w, kind)
  BY <1>1, <1>2
<1> HIDE DEF Start
<1>4. TellsWrites(Start(m), kind)
  BY <1>3 DEF TellsWrites
<1> QED BY <1>1, <1>4 DEF Tells

LEMMA WriteAdded ==
  ASSUME NEW p, NEW kind, TellsWrites(p, kind), NEW w, TellsWrite(w, kind), NEW q, q.writes = Append(p.writes, w)
  PROVE  TellsWrites(q, kind)
<1>1. PICK W : p.writes \in Seq(W) /\ \A x \in W : TellsWrite(x, kind)
  BY DEF TellsWrites
<1>2. Append(p.writes, w) \in Seq(W \union {w})
  <2> DEFINE ws == p.writes
  <2>1. ws \in Seq(W)
    BY <1>1
  <2> HIDE DEF ws
  <2>2. ws \in Seq(W \union {w})
    BY <2>1
  <2>3. Append(ws, w) \in Seq(W \union {w})
    BY <2>2
  <2> QED BY <2>3 DEF ws
<1>3. PICK V : V = W \union {w}
  OBVIOUS
<1> QED BY <1>1, <1>2, <1>3 DEF TellsWrites

LEMMA WriteOrTells ==
  ASSUME NEW p, NEW kind, TellsWrites(p, kind), NEW m, NEW d, NEW h, kind \in CrashIn => FilesTell(d, h),
         NEW kept, NEW undone,
         kind \in FailIn => FilesTell(kept.disk, kept.hist) /\ HubTells(undone, kept.hist)
  PROVE  LET q == WriteOr(p, m, d, h, kept, undone)
         IN TellsWrites(q, kind) /\ q.mem = m /\ q.disk = d /\ q.hist = h
<1> DEFINE w == [disk |-> d, hist |-> h, torn |-> {}, kept |-> kept, undone |-> undone]
           q == WriteOr(p, m, d, h, kept, undone)
<1>1. q.writes = Append(p.writes, w) /\ q.mem = m /\ q.disk = d /\ q.hist = h
  BY DEF WriteOr
<1>2. TellsWrite(w, kind)
  BY DEF TellsWrite
<1> HIDE DEF w, q
<1>3. TellsWrites(q, kind)
  BY <1>1, <1>2, WriteAdded
<1> QED BY <1>1, <1>3 DEF q

LEMMA WriteFileTells ==
  ASSUME NEW p, NEW kind, TellsWrites(p, kind), NEW m, NEW d, NEW h, kind \in CrashIn => FilesTell(d, h),
         NEW undone, kind \in FailIn => FilesTell(p.disk, p.hist) /\ HubTells(undone, p.hist)
  PROVE  LET q == WriteFile(p, m, d, h, undone)
         IN TellsWrites(q, kind) /\ q.mem = m /\ q.disk = d /\ q.hist = h
<1> DEFINE kept == [disk |-> p.disk, hist |-> p.hist]
<1>1. kept.disk = p.disk /\ kept.hist = p.hist
  OBVIOUS
<1>2. WriteFile(p, m, d, h, undone) = WriteOr(p, m, d, h, kept, undone)
  BY DEF WriteFile
<1> HIDE DEF kept
<1> QED BY <1>1, <1>2, WriteOrTells

LEMMA PerformTells ==
  ASSUME NEW p, NEW kind, Tells(p, kind), Perform(kind, p), Sane(disk)'
  PROVE  Told'
<1>0. PICK W : p.writes \in Seq(W) /\ \A x \in W : TellsWrite(x, kind)
  BY DEF Tells, TellsWrites
<1>1. \A i \in DOMAIN p.writes : TellsWrite(p.writes[i], kind)
  <2> DEFINE ws == p.writes
  <2>1. ws \in Seq(W)
    BY <1>0
  <2> HIDE DEF ws
  <2>2. \A i \in DOMAIN ws : ws[i] \in W
    BY <2>1
  <2> QED BY <1>0, <2>2 DEF ws
<1>2. CASE mem' = p.mem /\ disk' = p.disk /\ hist' = p.hist
  BY <1>2 DEF Tells, Told
<1>3. ASSUME NEW d, NEW h, FilesTell(d, h), disk' = d, hist' = h, mem' = InstallRoom(d) PROVE Told'
  <2>1. Sane(d)
    BY <1>3
  <2> QED BY <1>3, <2>1, LoadTells DEF Told
<1>4. ASSUME kind \in CrashIn, NEW i \in DOMAIN p.writes,
             \E left \in p.writes[i].torn \union
                  (IF i < Len(p.writes) THEN {[disk |-> p.writes[i].disk, hist |-> p.writes[i].hist]} ELSE {}) :
                disk' = left.disk /\ hist' = left.hist /\ mem' = InstallRoom(left.disk)
      PROVE  Told'
  <2> DEFINE w == p.writes[i]
  <2>1. TellsWrite(w, kind)
    BY <1>1
  <2>2. PICK left \in w.torn \union {[disk |-> w.disk, hist |-> w.hist]} :
           disk' = left.disk /\ hist' = left.hist /\ mem' = InstallRoom(left.disk)
    BY <1>4
  <2> HIDE DEF w
  <2>3. FilesTell(left.disk, left.hist)
    BY <1>4, <2>1, <2>2 DEF TellsWrite
  <2> QED BY <1>3, <2>2, <2>3
<1>5. ASSUME kind \in FailIn, NEW i \in DOMAIN p.writes,
             disk' = p.writes[i].kept.disk, hist' = p.writes[i].kept.hist, mem' = p.writes[i].undone
      PROVE  Told'
  BY <1>1, <1>5 DEF TellsWrite, Told
<1> QED BY <1>2, <1>4, <1>5 DEF Perform

(* One stream's history changes.                                           *)
Rewritten(k, h, s, x) ==
    /\ IsPast(k)
    /\ k.version = h.version
    /\ k.stream[s] = x
    /\ \A t \in Stream \ {s} : k.stream[t] = h.stream[t]

LEMMA PastRewritten ==
  ASSUME NEW h, IsPast(h), NEW s \in Stream, NEW x \in Seq(Op)
  PROVE  Rewritten([h EXCEPT !.stream[s] = x], h, s, x)
<1> DEFINE k == [h EXCEPT !.stream[s] = x]
<1>1. k.stream = [h.stream EXCEPT ![s] = x] /\ k.version = h.version
      /\ k \in [stream : {k.stream}, version : {k.version}]
  BY DEF IsPast
<1> HIDE DEF k
<1>2. Rewritten(k, h, s, x)
  BY <1>1 DEF IsPast, Rewritten
<1> QED BY <1>2 DEF k

LEMMA VersionPast ==
  ASSUME NEW h, IsPast(h), NEW v
  PROVE  LET k == [h EXCEPT !.version = v]
         IN IsPast(k) /\ k.stream = h.stream /\ k.version = v
<1> DEFINE k == [h EXCEPT !.version = v]
<1>1. k.stream = h.stream /\ k.version = v
      /\ k \in [stream : {k.stream}, version : {k.version}]
  BY DEF IsPast
<1> HIDE DEF k
<1>2. IsPast(k)
  BY <1>1 DEF IsPast
<1> QED BY <1>1, <1>2 DEF k

(* A version is added, with an ordinal of its own.                         *)
LEMMA VersionPut ==
  ASSUME NEW vs, NEW past, VersionsTold(vs, past), NEW n, Below(vs, n), NEW name, NEW v, NEW x, VersionTold(v, x),
         \A k \in DOMAIN vs : k # name => vs[k].ordinal # v.ordinal,
         NEW l \in Nat, n <= l, v.ordinal < l
  PROVE  VersionsTold(Put(vs, name, v), Put(past, name, x)) /\ Below(Put(vs, name, v), l)
<1> DEFINE ws == Put(vs, name, v)
           qs == Put(past, name, x)
<1>1. /\ DOMAIN ws = DOMAIN vs \union {name} /\ DOMAIN qs = DOMAIN past \union {name}
      /\ ws[name] = v /\ qs[name] = x
      /\ \A k \in DOMAIN vs : k # name => ws[k] = vs[k]
      /\ \A k \in DOMAIN past : k # name => qs[k] = past[k]
  BY DEF Put
<1> HIDE DEF ws, qs
<1>2. DOMAIN vs = DOMAIN past /\ Distinct(vs) /\ \A k \in DOMAIN vs : VersionTold(vs[k], past[k])
  BY DEF VersionsTold
<1>3. \A k \in DOMAIN ws : VersionTold(ws[k], qs[k])
  BY <1>1, <1>2
<1>4. \A k \in DOMAIN vs : vs[k].ordinal < l
  <2> TAKE k \in DOMAIN vs
  <2> DEFINE o == vs[k].ordinal
  <2>1. o \in Nat /\ o < n /\ n \in Nat
    BY <1>2 DEF VersionTold, Below
  <2> HIDE DEF o
  <2>2. o < l
    BY <2>1
  <2> QED BY <2>2 DEF o
<1>5. Below(ws, l)
  BY <1>1, <1>4 DEF Below
<1>6. Distinct(ws)
  BY <1>1, <1>2 DEF Distinct
<1>7. VersionsTold(ws, qs)
  BY <1>1, <1>2, <1>3, <1>5, <1>6 DEF VersionsTold
<1> QED BY <1>5, <1>7 DEF ws, qs

(* Versions are dropped.                                                   *)
LEMMA VersionsCut ==
  ASSUME NEW vs, NEW past, VersionsTold(vs, past), NEW n, Below(vs, n), NEW X
  PROVE  /\ VersionsTold(Restrict(vs, DOMAIN vs \ X), Restrict(past, DOMAIN past \ X))
         /\ Below(Restrict(vs, DOMAIN vs \ X), n)
<1> DEFINE ws == Restrict(vs, DOMAIN vs \ X)
           qs == Restrict(past, DOMAIN past \ X)
<1>1. /\ DOMAIN ws = DOMAIN vs \ X /\ DOMAIN qs = DOMAIN past \ X
      /\ \A k \in DOMAIN ws : ws[k] = vs[k]
      /\ \A k \in DOMAIN qs : qs[k] = past[k]
  BY DEF Restrict
<1> HIDE DEF ws, qs
<1>2. DOMAIN vs = DOMAIN past /\ Distinct(vs) /\ \A k \in DOMAIN vs : VersionTold(vs[k], past[k])
  BY DEF VersionsTold
<1>3. Below(ws, n)
  BY <1>1 DEF Below
<1>4. Distinct(ws)
  BY <1>1, <1>2 DEF Distinct
<1>5. VersionsTold(ws, qs)
  BY <1>1, <1>2, <1>3, <1>4 DEF VersionsTold
<1> QED BY <1>3, <1>5 DEF ws, qs

SameHub(k, m) == k.room = m.room /\ k.trees = m.trees /\ k.branches = m.branches /\ k.tails = m.tails

(* A write of the versions file.                                           *)
LEMMA VersionsTell ==
  ASSUME NEW p, NEW kind, Tells(p, kind), Sane(p.disk), NEW m, SameHub(m, p.mem), NEW d, NEW h, NEW x, NEW undone,
         d = [p.disk EXCEPT !.versions = m.versions], h = [p.hist EXCEPT !.version = x],
         VersionsTold(m.versions, x), Below(m.versions, m.ordinal),
         kind \in FailIn => HubTells(undone, p.hist)
  PROVE  LET q == WriteFile(p, m, d, h, undone)
         IN Tells(q, kind) /\ q.hist.stream = p.hist.stream /\ q.mem = m
<1> DEFINE q == WriteFile(p, m, d, h, undone)
           g == p.hist
<1>1. FilesTell(p.disk, g) /\ HubTells(p.mem, g) /\ TellsWrites(p, kind)
  BY DEF Tells
<1>2. /\ d.versions = m.versions /\ d.log = p.disk.log /\ d.snap = p.disk.snap /\ d.branches = p.disk.branches
      /\ d.blog = p.disk.blog /\ d.bbase = p.disk.bbase /\ d.active = p.disk.active
  BY DEF Sane, IsDisk
<1>3. IsPast(h) /\ h.stream = g.stream /\ h.version = x
  <2>1. IsPast(g) /\ h = [g EXCEPT !.version = x]
    BY <1>1 DEF FilesTell
  <2> DEFINE e == [g EXCEPT !.version = x]
  <2>2. IsPast(e) /\ e.stream = g.stream /\ e.version = x
    <3> HIDE DEF g
    <3> QED BY <2>1, VersionPast
  <2> QED BY <2>1, <2>2
<1>4. FilesTell(d, h)
  BY <1>1, <1>2, <1>3 DEF FilesTell
<1>5. HubTells(m, h)
  BY <1>1, <1>3 DEF HubTells, SameHub
<1>6. TellsWrites(q, kind) /\ q.mem = m /\ q.disk = d /\ q.hist = h
  <2> HIDE DEF g
  <2> QED BY <1>1, <1>4, WriteFileTells DEF g
<1> HIDE DEF q
<1> QED BY <1>3, <1>4, <1>5, <1>6 DEF Tells, q

LEMMA CaptureTells ==
  ASSUME NEW p, NEW kind, Settles(p, kind), Tells(p, kind), NEW name, NEW origin,
         NEW past \in Seq(Op), NEW seq, seq = Len(past), NEW state, state = Range(past)
  PROVE  LET q == CaptureVersion(p, name, origin, seq, state, past)
         IN Tells(q, kind) /\ q.hist.stream = p.hist.stream
<1> DEFINE k == p.mem
           spent == [k EXCEPT !.ordinal = k.ordinal + 1]
           v == [seq |-> seq, origin |-> origin, ordinal |-> k.ordinal, state |-> state]
           m == [spent EXCEPT !.versions = Put(spent.versions, name, v)]
           d == [p.disk EXCEPT !.versions = m.versions]
           x == Put(p.hist.version, name, past)
           h == [p.hist EXCEPT !.version = x]
           w == WriteFile(p, m, d, h, spent)
           q == CaptureVersion(p, name, origin, seq, state, past)
<1>1. q = IF name \in DOMAIN k.versions THEN p ELSE w
  BY DEF CaptureVersion
<1>2. CASE name \in DOMAIN k.versions
  BY <1>1, <1>2
<1>3. CASE name \notin DOMAIN k.versions
  <2>0. /\ IsMem(k) /\ k.versions = p.disk.versions /\ Sane(p.disk) /\ HubTells(k, p.hist)
        /\ VersionsTold(k.versions, p.hist.version) /\ Below(k.versions, k.ordinal)
    BY DEF Settles, Agree, Tells, FilesTell, HubTells
  <2>1. /\ IsMem(spent) /\ SameHub(spent, k) /\ spent.versions = k.versions /\ spent.ordinal = k.ordinal + 1
    BY <2>0 DEF IsMem, SameHub
  <2>2. VersionTold(v, past) /\ v.ordinal = k.ordinal
    BY <2>0 DEF VersionTold, IsVersion, Below
  <2> HIDE DEF spent, v
  <2>3. /\ SameHub(m, spent) /\ m.versions = Put(k.versions, name, v) /\ m.ordinal = k.ordinal + 1
    BY <2>1 DEF IsMem, SameHub
  <2> HIDE DEF m
  <2>4. SameHub(m, k)
    BY <2>1, <2>3 DEF SameHub
  <2>5. VersionsTold(m.versions, x) /\ Below(m.versions, m.ordinal)
    <3> DEFINE n == k.ordinal
               l == n + 1
               vs == k.versions
               ps == p.hist.version
    <3>1. n \in Nat /\ VersionsTold(vs, ps) /\ Below(vs, n) /\ v.ordinal = n
      BY <2>0, <2>2 DEF Below
    <3>2. \A y \in DOMAIN vs : y # name => vs[y].ordinal # v.ordinal
      <4> TAKE y \in DOMAIN vs
      <4>1. vs[y].ordinal < n /\ vs[y].ordinal \in Nat
        BY <3>1 DEF Below, VersionsTold, VersionTold
      <4> DEFINE o == vs[y].ordinal
      <4>2. o < n /\ o \in Nat
        BY <4>1
      <4> HIDE DEF o, n, vs
      <4>3. o # n
        BY <3>1, <4>2
      <4> QED BY <3>1, <4>3 DEF o
    <3> HIDE DEF n, vs, ps
    <3>3. l \in Nat /\ n <= l /\ n < l
      BY <3>1
    <3> HIDE DEF l
    <3>4. VersionsTold(Put(vs, name, v), Put(ps, name, past)) /\ Below(Put(vs, name, v), l)
      BY <2>2, <3>1, <3>2, <3>3, VersionPut
    <3> QED BY <2>3, <3>4 DEF n, vs, ps, l
  <2>6. HubTells(spent, p.hist)
    <3>1. Below(k.versions, k.ordinal + 1)
      <4> DEFINE n == k.ordinal
      <4>1. n \in Nat
        BY <2>0 DEF Below
      <4>2. \A y \in DOMAIN k.versions : k.versions[y].ordinal \in Nat /\ k.versions[y].ordinal < n
        BY <2>0 DEF Below, VersionsTold, VersionTold
      <4> HIDE DEF n
      <4>3. n + 1 \in Nat /\ \A o \in Nat : o < n => o < n + 1
        BY <4>1
      <4>4. Below(k.versions, n + 1)
        BY <4>2, <4>3 DEF Below
      <4> QED BY <4>4 DEF n
    <3> QED BY <2>0, <2>1, <3>1 DEF HubTells, SameHub
  <2> HIDE DEF x, k
  <2>7. SameHub(m, p.mem)
    BY <2>4 DEF k
  <2>8. Tells(w, kind) /\ w.hist.stream = p.hist.stream
    BY <2>0, <2>5, <2>6, <2>7, VersionsTell
  <2>9. CaptureVersion(p, name, origin, seq, state, past) = w
    <3> HIDE DEF w
    <3> QED BY <1>1, <1>3
  <2> HIDE DEF w
  <2> QED BY <2>8, <2>9
<1> QED BY <1>2, <1>3

LEMMA CaptureMainTells ==
  ASSUME NEW p, NEW kind, Settles(p, kind), Tells(p, kind), NEW name, NEW origin
  PROVE  LET q == CaptureMain(p, name, origin)
         IN Tells(q, kind) /\ q.hist.stream = p.hist.stream
<1> DEFINE past == p.hist.stream[Main]
           r == p.mem.room
           seq == RoomHead(r)
           state == r.seen
<1>1. /\ past \in Seq(Op) /\ MainTold(p.disk.snap, p.disk.log, past) /\ RoomTold(r, past)
      /\ state = Floor(p.disk.snap) \union Range(p.disk.log)
  BY DEF Settles, Agree, MainAgrees, Tells, FilesTell, HubTells, IsPast, Stream
<1>2. state = Range(past)
  BY <1>1, MainSeen
<1>3. seq = Len(past)
  <2>1. r.seen = Range(past)
    BY <1>2
  <2> HIDE DEF r, past
  <2> QED BY <1>1, <2>1, RoomServes
<1>4. CaptureMain(p, name, origin) = IF Held(p.mem) THEN CaptureVersion(p, name, origin, seq, state, past) ELSE p
  BY DEF CaptureMain
<1> HIDE DEF past, seq, state
<1>5. LET q == CaptureVersion(p, name, origin, seq, state, past)
      IN Tells(q, kind) /\ q.hist.stream = p.hist.stream
  <2>1. past \in Seq(Op)
    BY <1>1
  <2> QED BY <1>2, <1>3, <2>1, CaptureTells
<1> QED BY <1>4, <1>5

LEMMA RetainTells ==
  ASSUME NEW p, NEW kind, Settles(p, kind), Tells(p, kind)
  PROVE  Tells(RetainByOrigin(p), kind)
<1> DEFINE k == p.mem
           doomed == Evicted(k.versions)
           m == [k EXCEPT !.versions = Restrict(k.versions, DOMAIN k.versions \ doomed)]
           d == [p.disk EXCEPT !.versions = m.versions]
           x == Restrict(p.hist.version, DOMAIN p.hist.version \ doomed)
           h == [p.hist EXCEPT !.version = x]
           w == WriteFile(p, m, d, h, k)
<1>1. RetainByOrigin(p) = IF doomed = {} THEN p ELSE w
  BY DEF RetainByOrigin
<1>2. /\ IsMem(k) /\ k.versions = p.disk.versions /\ Sane(p.disk) /\ HubTells(k, p.hist)
      /\ VersionsTold(k.versions, p.hist.version) /\ Below(k.versions, k.ordinal)
  BY DEF Settles, Agree, Tells, FilesTell, HubTells
<1> HIDE DEF doomed
<1>3. /\ SameHub(m, k) /\ m.versions = Restrict(k.versions, DOMAIN k.versions \ doomed) /\ m.ordinal = k.ordinal
  BY <1>2 DEF IsMem, SameHub
<1> HIDE DEF m
<1>4. VersionsTold(m.versions, x) /\ Below(m.versions, m.ordinal)
  <2> DEFINE n == k.ordinal
             vs == k.versions
             ps == p.hist.version
  <2>1. VersionsTold(vs, ps) /\ Below(vs, n)
    BY <1>2
  <2> HIDE DEF n, vs, ps
  <2>2. /\ VersionsTold(Restrict(vs, DOMAIN vs \ doomed), Restrict(ps, DOMAIN ps \ doomed))
        /\ Below(Restrict(vs, DOMAIN vs \ doomed), n)
    BY <2>1, VersionsCut
  <2> QED BY <1>3, <2>2 DEF n, vs, ps
<1> HIDE DEF x, k
<1>5. SameHub(m, p.mem) /\ HubTells(k, p.hist)
  BY <1>2, <1>3 DEF k
<1>6. Tells(w, kind)
  BY <1>2, <1>4, <1>5, VersionsTell
<1> QED BY <1>1, <1>6

(* The registry as memory has it tells the same.                           *)
LEMMA RegistryTold ==
  ASSUME NEW m, NEW br, NEW bl, NEW bb, NEW ac, NEW st,
         SaneStreams(br, bl, bb), StreamsAgree(m, br, bl, bb, ac), StreamsTold(br, bl, bb, st)
  PROVE  /\ StreamsTold(m.branches, bl, bb, st) /\ DOMAIN m.branches = DOMAIN br
         /\ \A b \in DOMAIN br : /\ m.branches[b].published = br[b].published
                                 /\ m.branches[b].fork = br[b].fork
<1>1. DOMAIN m.branches = DOMAIN br
  BY DEF StreamsAgree
<1>2. ASSUME NEW b \in DOMAIN br
      PROVE  /\ m.branches[b].published = br[b].published /\ m.branches[b].fork = br[b].fork
             /\ br[b].published \/ bl[b] # <<>> \/ m.branches[b].head = br[b].head
  <2>1. m.branches[b] = Patched(br[b], TailOf(br, bl, b)) /\ IsPointer(br[b])
    BY DEF StreamsAgree, SaneStreams
  <2>2. PICK r : r = br[b]
    OBVIOUS
  <2>3. PICK t : t = TailOf(br, bl, b)
    OBVIOUS
  <2>4. m.branches[b] = Patched(r, t) /\ IsPointer(r)
    BY <2>1, <2>2, <2>3
  <2>5. /\ m.branches[b].published = r.published /\ m.branches[b].fork = r.fork
        /\ t # <<>> \/ m.branches[b].head = r.head
    BY <2>4 DEF Patched, IsPointer
  <2> QED BY <2>2, <2>3, <2>5 DEF TailOf
<1>3. ASSUME NEW b \in DOMAIN br
      PROVE  BranchTold(m.branches[b], bl[b], bb, b, st[b], st[Main])
  <2>1. BranchTold(br[b], bl[b], bb, b, st[b], st[Main])
    BY DEF StreamsTold
  <2> QED BY <1>2, <2>1 DEF BranchTold, TailTold, BaseTold
<1> QED BY <1>1, <1>2, <1>3 DEF StreamsTold

SameBranch(x, br2, bl2, bb2, st2, br, bl, bb, st) ==
    /\ x \in DOMAIN br /\ br2[x] = br[x] /\ bl2[x] = bl[x] /\ st2[x] = st[x]
    /\ x \in DOMAIN bb2 <=> x \in DOMAIN bb
    /\ x \in DOMAIN bb => bb2[x] = bb[x]

(* One branch changes, the others and main do not.                         *)
LEMMA OthersTold ==
  ASSUME NEW br, NEW bl, NEW bb, NEW st, StreamsTold(br, bl, bb, st),
         NEW br2, NEW bl2, NEW bb2, NEW st2, st2[Main] = st[Main], NEW b,
         \A x \in DOMAIN br2 \ {b} : SameBranch(x, br2, bl2, bb2, st2, br, bl, bb, st),
         b \in DOMAIN br2 => BranchTold(br2[b], bl2[b], bb2, b, st2[b], st2[Main])
  PROVE  StreamsTold(br2, bl2, bb2, st2)
<1>1. ASSUME NEW x \in DOMAIN br2, x # b
      PROVE  BranchTold(br2[x], bl2[x], bb2, x, st2[x], st2[Main])
  <2>1. SameBranch(x, br2, bl2, bb2, st2, br, bl, bb, st)
    BY <1>1
  <2>2. BranchTold(br[x], bl[x], bb, x, st[x], st[Main])
    BY <2>1 DEF SameBranch, StreamsTold
  <2> QED BY <2>1, <2>2 DEF SameBranch, BranchTold, TailTold, BaseTold
<1> QED BY <1>1 DEF StreamsTold

LEMMA TreeDropped ==
  ASSUME NEW trees, NEW br, NEW tails, NEW st, TreesTold(trees, br, tails, st), NEW b,
         NEW br2, NEW tails2, NEW st2,
         \A x \in DOMAIN br \ {b} : x \in DOMAIN br2 /\ br2[x] = br[x] /\ tails2[x] = tails[x] /\ st2[x] = st[x]
  PROVE  TreesTold(Drop(trees, b), br2, tails2, st2)
<1> DEFINE t == Drop(trees, b)
<1>1. DOMAIN t = DOMAIN trees \ {b} /\ \A x \in DOMAIN t : t[x] = trees[x]
  BY DEF Drop, Restrict
<1> HIDE DEF t
<1>2. \A x \in DOMAIN t : x \in DOMAIN br2 /\ TreeTold(t[x], br2[x], tails2[x], st2[x])
  BY <1>1 DEF TreesTold
<1> QED BY <1>2 DEF TreesTold, t

LEMMA ConcatInjective ==
  ASSUME NEW s \in Seq(Op), IsInjective(s), NEW t \in Seq(Op), IsInjective(t), Range(s) \intersect Range(t) = {}
  PROVE  IsInjective(s \o t)
<1> DEFINE u == s \o t
<1>1. /\ u \in Seq(Op) /\ Len(u) = Len(s) + Len(t) /\ Len(s) \in Nat /\ Len(t) \in Nat
      /\ \A i \in 1 .. Len(s) : u[i] = s[i]
      /\ \A i \in 1 .. Len(t) : u[Len(s) + i] = t[i]
  BY ConcatElements
<1>2. DOMAIN s = 1 .. Len(s) /\ DOMAIN t = 1 .. Len(t)
  OBVIOUS
<1> HIDE DEF u
<1>3. DOMAIN u = 1 .. Len(s) + Len(t)
  BY <1>1
<1>4. ASSUME NEW i \in DOMAIN u
      PROVE  \/ i \in DOMAIN s /\ u[i] = s[i]
             \/ \E k \in DOMAIN t : i = Len(s) + k /\ u[i] = t[k]
  <2>1. CASE i <= Len(s)
    BY <1>1, <1>2, <1>3, <2>1
  <2>2. CASE ~(i <= Len(s))
    <3>1. i - Len(s) \in 1 .. Len(t) /\ i = Len(s) + (i - Len(s))
      BY <1>1, <1>3, <2>2
    <3>2. PICK k \in 1 .. Len(t) : i = Len(s) + k
      BY <3>1
    <3> QED BY <1>1, <1>2, <3>2
  <2> QED BY <2>1, <2>2
<1>5. \A i \in DOMAIN s : s[i] \in Range(s)
  BY DEF Range
<1>6. \A i \in DOMAIN t : t[i] \in Range(t)
  BY DEF Range
<1>7. ASSUME NEW i \in DOMAIN u, NEW j \in DOMAIN u, u[i] = u[j] PROVE i = j
  <2>1. CASE i \in DOMAIN s /\ u[i] = s[i] /\ j \in DOMAIN s /\ u[j] = s[j]
    BY <1>7, <2>1 DEF IsInjective
  <2>2. CASE /\ \E k \in DOMAIN t : i = Len(s) + k /\ u[i] = t[k]
             /\ \E k \in DOMAIN t : j = Len(s) + k /\ u[j] = t[k]
    BY <1>7, <2>2 DEF IsInjective
  <2>3. CASE i \in DOMAIN s /\ u[i] = s[i] /\ \E k \in DOMAIN t : u[j] = t[k]
    BY <1>5, <1>6, <1>7, <2>3
  <2>4. CASE j \in DOMAIN s /\ u[j] = s[j] /\ \E k \in DOMAIN t : u[i] = t[k]
    BY <1>5, <1>6, <1>7, <2>4
  <2> QED BY <1>4, <2>1, <2>2, <2>3, <2>4
<1> QED BY <1>7 DEF IsInjective, u

(* No op is twice among the fresh ones.                                    *)
LEMMA FreshInjective ==
  ASSUME NEW r, NEW ops \in Seq(Op)
  PROVE  IsInjective(Fresh(r, ops))
<1> DEFINE f == Fresh(r, ops)
           T == Range(f)
           n == Len(f)
<1>1. f \in Seq(Op) /\ IsFiniteSet(T) /\ n = Cardinality(T)
  BY FreshOps
<1> HIDE DEF f
<1>2. n \in Nat /\ DOMAIN f = 1 .. n /\ f \in [1 .. n -> T]
  <2>1. n \in Nat /\ f \in [1 .. n -> Op] /\ DOMAIN f = 1 .. n
    BY <1>1
  <2>2. \A i \in DOMAIN f : f[i] \in T
    BY DEF Range
  <2> HIDE DEF n, T
  <2> QED BY <2>1, <2>2
<1> HIDE DEF n
<1>3. IsFiniteSet(1 .. n) /\ Cardinality(1 .. n) = n
  <2>1. 1 \in Int /\ n \in Int
    BY <1>2
  <2>2. IsFiniteSet(1 .. n) /\ Cardinality(1 .. n) = IF 1 > n THEN 0 ELSE n - 1 + 1
    BY <2>1, FS_Interval
  <2> QED BY <1>2, <2>2
<1>4. f \in Surjection(1 .. n, T)
  BY <1>2 DEF Surjection, Range
<1> DEFINE D == 1 .. n
<1> HIDE DEF T, D
<1>5. Cardinality(T) = Cardinality(D) <=> f \in Injection(D, T)
  <2>1. IsFiniteSet(D) /\ f \in Surjection(D, T)
    BY <1>3, <1>4 DEF D
  <2> QED BY <2>1, FS_Surjection
<1>6. Cardinality(D) = n
  BY <1>3 DEF D
<1>7. IsInjective(f)
  BY <1>1, <1>5, <1>6 DEF Injection
<1> QED BY <1>7 DEF f

LEMMA PieceInjective ==
  ASSUME NEW s \in Seq(Op), IsInjective(s), NEW k \in 0 .. Len(s)
  PROVE  /\ SubSeq(s, 1, k) \in Seq(Op) /\ IsInjective(SubSeq(s, 1, k))
         /\ Range(SubSeq(s, 1, k)) \subseteq Range(s)
<1> DEFINE p == SubSeq(s, 1, k)
<1>1. /\ k \in Nat /\ Len(s) \in Nat /\ p \in Seq(Op) /\ Len(p) = k /\ \A i \in 1 .. k : p[i] = s[i]
      /\ Range(s) = Range(p) \union Range(After(s, k))
  BY CutFacts
<1> HIDE DEF p
<1>2. DOMAIN p = 1 .. k /\ DOMAIN s = 1 .. Len(s) /\ 1 .. k \subseteq 1 .. Len(s)
  BY <1>1
<1>3. IsInjective(p)
  BY <1>1, <1>2 DEF IsInjective
<1> QED BY <1>1, <1>3 DEF p

LEMMA MainGrown ==
  ASSUME NEW snap, NEW log, NEW past \in Seq(Op), MainTold(snap, log, past),
         NEW piece \in Seq(Op), IsInjective(piece), Range(past) \intersect Range(piece) = {}
  PROVE  MainTold(snap, log \o piece, past \o piece)
<1> DEFINE n == Cardinality(Floor(snap))
           p2 == past \o piece
<1>1. n \in 0 .. Len(past) /\ Floor(snap) = Range(SubSeq(past, 1, n)) /\ IsInjective(past)
  BY DEF MainTold
<1>2. PICK k \in 0 .. n : log = After(past, k)
  BY DEF MainTold
<1>3. IsInjective(p2)
  BY <1>1, ConcatInjective
<1> HIDE DEF n
<1>4. n \in 0 .. Len(p2) /\ SubSeq(p2, 1, n) = SubSeq(past, 1, n)
  BY <1>1, CutGrown
<1>5. k \in 0 .. Len(past)
  BY <1>1
<1>6. After(p2, k) = log \o piece
  BY <1>2, <1>5, CutGrown
<1> HIDE DEF p2
<1>7. \E j \in 0 .. n : log \o piece = After(p2, j)
  BY <1>6
<1> QED BY <1>1, <1>3, <1>4, <1>7 DEF MainTold, n, p2

(* Branches that share main's log keep what they share as main grows.      *)
LEMMA SharedKept ==
  ASSUME NEW br, NEW bl, NEW bb, NEW h, IsPast(h), DOMAIN br \subseteq Branch, StreamsTold(br, bl, bb, h.stream),
         NEW piece \in Seq(Op), NEW k, Rewritten(k, h, Main, h.stream[Main] \o piece)
  PROVE  StreamsTold(br, bl, bb, k.stream)
<1> DEFINE main == h.stream[Main]
<1>1. main \in Seq(Op) /\ Main \notin Branch
  BY StreamAssumption DEF IsPast, Stream
<1>2. ASSUME NEW b \in DOMAIN br
      PROVE  BranchTold(br[b], bl[b], bb, b, k.stream[b], k.stream[Main])
  <2>1. k.stream[b] = h.stream[b] /\ k.stream[Main] = main \o piece /\ h.stream[b] \in Seq(Op)
    BY <1>1 DEF Rewritten, Stream, IsPast
  <2>2. BranchTold(br[b], bl[b], bb, b, h.stream[b], main)
    BY DEF StreamsTold
  <2> HIDE DEF main
  <2>3. ASSUME ~br[b].published, b \notin DOMAIN bb
        PROVE  /\ br[b].fork <= Len(main \o piece)
               /\ SubSeq(main \o piece, 1, br[b].fork) = SubSeq(main, 1, br[b].fork)
    <3> DEFINE f == br[b].fork
    <3>1. f \in 0 .. Len(h.stream[b]) /\ f <= Len(main)
      BY <2>2, <2>3 DEF BranchTold, TailTold, BaseTold
    <3> HIDE DEF f
    <3>2. f \in 0 .. Len(main)
      BY <1>1, <2>1, <3>1
    <3>3. f \in 0 .. Len(main \o piece) /\ SubSeq(main \o piece, 1, f) = SubSeq(main, 1, f)
      BY <1>1, <3>2, CutGrown
    <3>4. f <= Len(main \o piece)
      BY <3>3
    <3> QED BY <3>3, <3>4 DEF f
  <2> QED BY <2>1, <2>2, <2>3 DEF BranchTold, BaseTold
<1> QED BY <1>2 DEF StreamsTold

LEMMA LogAppendTells ==
  ASSUME ~Tears, NEW p, NEW kind, TellsWrites(p, kind), NEW m, NEW s, NEW ops \in Seq(Op),
         \A k \in 0 .. Len(ops) : FilesTell(AppendFile(p.disk, s, SubSeq(ops, 1, k)),
                                            AppendPast(p.hist, s, SubSeq(ops, 1, k))),
         kind \in FailIn => FilesTell(p.disk, p.hist) /\ HubTells(p.mem, p.hist)
  PROVE  LET q == LogAppend(p, m, s, ops)
         IN /\ TellsWrites(q, kind) /\ FilesTell(q.disk, q.hist)
            /\ q.mem = m /\ q.disk = AppendFile(p.disk, s, ops) /\ q.hist = AppendPast(p.hist, s, ops)
<1> DEFINE q == LogAppend(p, m, s, ops)
           v == AppendWrite(p, s, ops)
<1>1. PICK W : p.writes \in Seq(W) /\ \A x \in W : TellsWrite(x, kind)
  BY DEF TellsWrites
<1>2. /\ q.writes = Append(p.writes, v)
      /\ q.mem = m /\ q.disk = AppendFile(p.disk, s, ops) /\ q.hist = AppendPast(p.hist, s, ops)
  <2>1. IsPlan(p)
    BY <1>1 DEF IsPlan
  <2> HIDE DEF v
  <2>2. LET z == LogAppend(p, m, s, ops)
        IN /\ z.writes = Append(p.writes, AppendWrite(p, s, ops))
           /\ z.mem = m /\ z.disk = AppendFile(p.disk, s, ops) /\ z.hist = AppendPast(p.hist, s, ops)
    BY <2>1, LogAppendForm
  <2> QED BY <2>2 DEF v
<1>3. FilesTell(AppendFile(p.disk, s, ops), AppendPast(p.hist, s, ops))
  <2>1. Len(ops) \in 0 .. Len(ops) /\ SubSeq(ops, 1, Len(ops)) = ops
    OBVIOUS
  <2> QED BY <2>1
<1>4. /\ v.disk = AppendFile(p.disk, s, ops) /\ v.hist = AppendPast(p.hist, s, ops)
      /\ v.kept.disk = p.disk /\ v.kept.hist = p.hist /\ v.undone = p.mem
  BY DEF AppendWrite
<1>5. \A left \in v.torn : FilesTell(left.disk, left.hist)
  <2>1. ASSUME NEW x \in AppendPieces(ops)
        PROVE  FilesTell(AppendFile(p.disk, s, x.file), AppendPast(p.hist, s, x.kept))
    BY PiecesWhole
  <2>2. v.torn = {[disk |-> AppendFile(p.disk, s, x.file), hist |-> AppendPast(p.hist, s, x.kept)] :
                  x \in AppendPieces(ops)}
    BY DEF AppendWrite
  <2> HIDE DEF v
  <2> QED BY <2>1, <2>2
<1> HIDE DEF v, q
<1>6. TellsWrite(v, kind)
  BY <1>3, <1>4, <1>5 DEF TellsWrite
<1>7. TellsWrites(q, kind)
  BY <1>2, <1>6, WriteAdded
<1> QED BY <1>2, <1>3, <1>7 DEF q

(* Main with a piece of a batch appended.                                  *)
LEMMA MainAppendTells ==
  ASSUME NEW d, Sane(d), NEW h, FilesTell(d, h), NEW piece \in Seq(Op), IsInjective(piece),
         Range(h.stream[Main]) \intersect Range(piece) = {}
  PROVE  /\ FilesTell(AppendFile(d, Main, piece), AppendPast(h, Main, piece))
         /\ Rewritten(AppendPast(h, Main, piece), h, Main, h.stream[Main] \o piece)
<1> DEFINE e == AppendFile(d, Main, piece)
           k == AppendPast(h, Main, piece)
           past == h.stream[Main]
<1>1. Main \in Stream /\ past \in Seq(Op) /\ IsPast(h)
  BY DEF Stream, FilesTell, IsPast
<1>2. /\ e.log = d.log \o piece /\ e.blog = d.blog
      /\ e.snap = d.snap /\ e.versions = d.versions /\ e.branches = d.branches
      /\ e.bbase = d.bbase /\ e.active = d.active
  BY DEF AppendFile, Sane, IsDisk
<1> HIDE DEF past
<1>3. past \o piece \in Seq(Op)
  BY <1>1, ConcatRange
<1>4. Rewritten(k, h, Main, past \o piece)
  <2>1. k = [h EXCEPT !.stream[Main] = past \o piece]
    BY DEF AppendPast, past
  <2> HIDE DEF k
  <2> DEFINE x == past \o piece
  <2>2. x \in Seq(Op) /\ k = [h EXCEPT !.stream[Main] = x]
    BY <1>3, <2>1
  <2> HIDE DEF x
  <2>3. Rewritten([h EXCEPT !.stream[Main] = x], h, Main, x)
    BY <1>1, <2>2, PastRewritten
  <2> QED BY <2>2, <2>3 DEF x
<1> HIDE DEF e, k
<1>5. MainTold(e.snap, e.log, k.stream[Main])
  <2> DEFINE log == d.log
             snap == d.snap
  <2>1. MainTold(snap, log, past) /\ Range(past) \intersect Range(piece) = {}
    BY DEF FilesTell, past
  <2> HIDE DEF log, snap
  <2>2. MainTold(snap, log \o piece, past \o piece)
    BY <1>1, <2>1, MainGrown
  <2> QED BY <1>2, <1>4, <2>2 DEF Rewritten, log, snap
<1>6. StreamsTold(e.branches, e.blog, e.bbase, k.stream)
  <2> DEFINE br == d.branches
             bl == d.blog
             bb == d.bbase
  <2>1. /\ DOMAIN br \subseteq Branch
        /\ StreamsTold(br, bl, bb, h.stream)
        /\ Rewritten(k, h, Main, h.stream[Main] \o piece)
    BY <1>4 DEF Sane, SaneStreams, FilesTell, past
  <2> HIDE DEF br, bl, bb
  <2>2. StreamsTold(br, bl, bb, k.stream)
    BY <1>1, <2>1, SharedKept
  <2> QED BY <1>2, <2>2 DEF br, bl, bb
<1>7. FilesTell(e, k)
  BY <1>2, <1>4, <1>5, <1>6 DEF FilesTell, Rewritten
<1> QED BY <1>4, <1>7 DEF e, k, past

LEMMA CompactionTells ==
  ASSUME NEW p, NEW kind, TellsWrites(p, kind), FilesTell(p.disk, p.hist), HubTells(p.mem, p.hist),
         Sane(p.disk), Agree(p.mem, p.disk)
  PROVE  Tells(Compaction(p), kind)
<1> DEFINE m == [p.mem EXCEPT !.room = Compact(p.mem.room)]
           d == p.disk
           h == p.hist
           r == p.mem.room
           past == h.stream[Main]
           snapped == [d EXCEPT !.snap = {[base |-> m.room.base, state |-> m.room.seen]}]
           cut == [snapped EXCEPT !.log = <<>>]
           q == WriteFile(p, m, snapped, h, m)
           w == WriteFile(q, m, cut, h, m)
<1>1. Compaction(p) = w
  BY DEF Compaction
<1>2. /\ m.room = Compact(r) /\ m.versions = p.mem.versions /\ m.ordinal = p.mem.ordinal
      /\ m.trees = p.mem.trees /\ m.branches = p.mem.branches /\ m.tails = p.mem.tails
  BY DEF Agree, IsMem
<1>3. /\ past \in Seq(Op) /\ RoomTold(r, past) /\ SoundRoom(r)
      /\ r.seen = Floor(d.snap) \union Range(d.log) /\ MainTold(d.snap, d.log, past)
  BY DEF FilesTell, HubTells, IsPast, Stream, Agree, MainAgrees
<1>4. r.seen = Range(past)
  BY <1>3, MainSeen
<1>5. RoomHead(r) = Len(past) /\ Len(past) \in Nat
  <2> HIDE DEF r, past
  <2> QED BY <1>3, <1>4, RoomServes
<1>6. Cardinality(r.seen) = Len(past)
  BY <1>3, <1>5 DEF SoundRoom
<1>7. m.room.base = Len(past) /\ m.room.seen = r.seen /\ m.room.log = <<>>
  BY <1>2, <1>5 DEF Compact
<1> HIDE DEF m
<1>8. /\ snapped.snap = {[base |-> Len(past), state |-> r.seen]} /\ IsDisk(snapped)
      /\ snapped.log = d.log /\ snapped.versions = d.versions /\ snapped.branches = d.branches
      /\ snapped.blog = d.blog /\ snapped.bbase = d.bbase /\ snapped.active = d.active
  <2>1. m.room.base = Len(past) /\ m.room.seen = r.seen
    BY <1>7
  <2> HIDE DEF r, past, h
  <2> QED BY <2>1 DEF Sane, IsDisk
<1> HIDE DEF r, past
<1>9. Floor(snapped.snap) = r.seen
  <2>1. Len(past) = Cardinality(r.seen)
    BY <1>6
  <2> HIDE DEF snapped
  <2> QED BY <1>8, <2>1, OneSnapshot DEF Floor
<1> HIDE DEF snapped
<1>10. /\ cut.snap = snapped.snap /\ cut.log = <<>> /\ cut.versions = d.versions /\ cut.branches = d.branches
       /\ cut.blog = d.blog /\ cut.bbase = d.bbase /\ cut.active = d.active
  BY <1>8 DEF IsDisk
<1> HIDE DEF cut
<1>11. /\ SubSeq(past, 1, Len(past)) = past /\ After(past, Len(past)) = <<>>
       /\ Len(past) \in 0 .. Len(past)
  BY <1>3, WholeCut
<1>12. MainTold(snapped.snap, snapped.log, past) /\ MainTold(cut.snap, cut.log, past)
  <2> DEFINE n == Len(past)
  <2>1. IsInjective(past) /\ \E k \in 0 .. n : d.log = After(past, k)
    <3>0. PICK n0 \in 0 .. n : \E k \in 0 .. n0 : d.log = After(past, k)
      BY <1>3 DEF MainTold
    <3>1. PICK k \in 0 .. n0 : d.log = After(past, k)
      BY <3>0
    <3>2. k \in 0 .. n
      BY <1>5, <3>0, <3>1
    <3> QED BY <1>3, <3>1, <3>2 DEF MainTold
  <2>2. Cardinality(Floor(snapped.snap)) = n /\ Floor(snapped.snap) = Range(SubSeq(past, 1, n))
    BY <1>4, <1>6, <1>9, <1>11
  <2>3. n \in 0 .. n
    BY <1>11
  <2>4. \E k \in 0 .. n : cut.log = After(past, k)
    BY <1>10, <1>11
  <2> HIDE DEF n
  <2> QED BY <1>8, <1>10, <1>11, <2>1, <2>2, <2>3, <2>4 DEF MainTold, n
<1>13. FilesTell(snapped, h) /\ FilesTell(cut, h)
  BY <1>8, <1>10, <1>12 DEF FilesTell, past
<1>14. HubTells(m, h)
  <2>1. RoomTold(m.room, past)
    BY <1>7, <1>11 DEF RoomTold
  <2> QED BY <1>2, <2>1 DEF HubTells, past
<1>15. TellsWrites(q, kind) /\ q.mem = m /\ q.disk = snapped /\ q.hist = h
  <2> HIDE DEF d
  <2>1. FilesTell(p.disk, p.hist) /\ HubTells(m, p.hist) /\ FilesTell(snapped, h)
    BY <1>13, <1>14
  <2> HIDE DEF h
  <2> QED BY <2>1, WriteFileTells DEF h
<1> HIDE DEF q
<1>16. TellsWrites(w, kind) /\ w.mem = m /\ w.disk = cut /\ w.hist = h
  <2> HIDE DEF h
  <2> QED BY <1>13, <1>14, <1>15, WriteFileTells
<1> HIDE DEF w
<1> QED BY <1>1, <1>13, <1>14, <1>16 DEF Tells

-----------------------------------------------------------------------------
(* The operations once more, one by one.                                   *)

LEMMA CompactTells ==
  ASSUME Kept, Told, Kept', CompactRoom
  PROVE  Told'
<1> DEFINE s == Start(mem)
           kind == "compact"
<1>1. Tells(s, kind) /\ s.mem = mem /\ s.disk = disk /\ s.hist = hist
  BY StartTells DEF Told
<1>2. Perform(kind, Compaction(s)) /\ Sane(disk) /\ Agree(mem, disk)
  BY DEF CompactRoom, Kept
<1> HIDE DEF s, kind
<1>3. Tells(Compaction(s), kind)
  BY <1>1, <1>2, CompactionTells DEF Tells
<1> QED BY <1>2, <1>3, PerformTells DEF Kept

LEMMA CreateVersionTells ==
  ASSUME Kept, Told, Kept', NEW name, CreateVersion(name)
  PROVE  Told'
<1> DEFINE s == Start(mem)
           none == {}
           kind == "version"
           q == CaptureMain(s, name, none)
<1>1. Perform(kind, q)
  BY DEF CreateVersion
<1>2. Settles(s, kind) /\ Tells(s, kind)
  BY StartSettles, StartTells DEF Kept, Told
<1> HIDE DEF s, none, kind
<1>3. Tells(q, kind)
  BY <1>2, CaptureMainTells
<1> HIDE DEF q
<1> QED BY <1>1, <1>3, PerformTells DEF Kept

LEMMA AutoVersionTells ==
  ASSUME Kept, Told, Kept', NEW tick, AutoVersion(tick)
  PROVE  Told'
<1> DEFINE s == Start(mem)
           name == <<"auto", tick>>
           origin == {Trigger}
           kind == "version"
           c == CaptureMain(s, name, origin)
           p == IF Keep = 0 THEN s ELSE c
           q == RetainByOrigin(p)
<1>1. Perform(kind, q)
  BY DEF AutoVersion
<1>2. Settles(s, kind) /\ Tells(s, kind)
  BY StartSettles, StartTells DEF Kept, Told
<1> HIDE DEF s, name, origin, kind
<1>3. Settles(c, kind) /\ Tells(c, kind)
  BY <1>2, CaptureMainSettles, CaptureMainTells
<1> HIDE DEF c
<1>4. Settles(p, kind) /\ Tells(p, kind)
  BY <1>2, <1>3
<1> HIDE DEF p
<1>5. Tells(q, kind)
  BY <1>4, RetainTells
<1> HIDE DEF q
<1> QED BY <1>1, <1>5, PerformTells DEF Kept

(* An operation that writes the versions file alone.                       *)
LEMMA VersionsPerformed ==
  ASSUME Kept, Told, Kept', NEW m, SameHub(m, mem), NEW x,
         VersionsTold(m.versions, x), Below(m.versions, m.ordinal), NEW kind,
         Perform(kind, WriteFile(Start(mem), m, [disk EXCEPT !.versions = m.versions],
                                 [hist EXCEPT !.version = x], mem))
  PROVE  Told'
<1> DEFINE d == [disk EXCEPT !.versions = m.versions]
           h == [hist EXCEPT !.version = x]
           s == Start(mem)
           q == WriteFile(s, m, d, h, mem)
<1>1. Perform(kind, q)
  OBVIOUS
<1>2. Tells(s, kind) /\ s.mem = mem /\ s.disk = disk /\ s.hist = hist
  BY StartTells DEF Told
<1>3. d = [s.disk EXCEPT !.versions = m.versions] /\ h = [s.hist EXCEPT !.version = x]
  BY <1>2
<1> HIDE DEF d, h, s
<1>4. Tells(q, kind)
  <2>1. Sane(s.disk) /\ SameHub(m, s.mem) /\ HubTells(mem, s.hist)
    BY <1>2 DEF Kept, Told
  <2> QED BY <1>2, <1>3, <2>1, VersionsTell
<1> HIDE DEF q
<1> QED BY <1>1, <1>4, PerformTells DEF Kept

LEMMA RenameVersionTells ==
  ASSUME Kept, Told, Kept', NEW from, NEW to, RenameVersion(from, to)
  PROVE  Told'
<1> DEFINE vs == mem.versions
           o == mem.ordinal
           past == hist.version
           v == [vs[from] EXCEPT !.origin = {}]
           X == {from}
           cut == Restrict(vs, DOMAIN vs \ X)
           kept == Restrict(past, DOMAIN past \ X)
           y == past[from]
           x == Put(kept, to, y)
           m == [mem EXCEPT !.versions = Put(cut, to, v)]
           kind == "version"
<1>1. /\ Perform(kind, WriteFile(Start(mem), m, [disk EXCEPT !.versions = m.versions],
                                 [hist EXCEPT !.version = x], mem))
      /\ from \in DOMAIN vs /\ to \notin DOMAIN vs
  BY DEF RenameVersion, Drop
<1>2. VersionsTold(vs, past) /\ Below(vs, o) /\ o \in Nat
  BY DEF Kept, Agree, Told, FilesTell, HubTells, Below
<1>3. m.versions = Put(cut, to, v) /\ m.ordinal = o /\ SameHub(m, mem)
  <2> HIDE DEF cut, v
  <2> QED BY DEF Kept, Agree, IsMem, SameHub
<1> HIDE DEF m
<1>4. VersionTold(vs[from], y) /\ \A k, n \in DOMAIN vs : vs[n].ordinal = vs[k].ordinal => n = k
  BY <1>1, <1>2 DEF VersionsTold, Distinct
<1>5. VersionTold(v, y) /\ v.ordinal = vs[from].ordinal /\ v.ordinal < o
  <2> DEFINE u == vs[from]
  <2>1. VersionTold(u, y) /\ u.ordinal < o
    BY <1>1, <1>2, <1>4 DEF Below
  <2> HIDE DEF u, y
  <2>2. v = [u EXCEPT !.origin = {}]
    BY DEF u
  <2>3. v.seq = u.seq /\ v.ordinal = u.ordinal /\ v.state = u.state /\ IsVersion(v)
    BY <2>1, <2>2 DEF VersionTold, IsVersion
  <2> HIDE DEF v
  <2> QED BY <2>1, <2>3 DEF VersionTold, u
<1>6. DOMAIN cut = DOMAIN vs \ {from} /\ \A k \in DOMAIN cut : cut[k] = vs[k]
  BY DEF Restrict
<1> HIDE DEF v, y, vs, past, o
<1>7. VersionsTold(cut, kept) /\ Below(cut, o)
  <2> HIDE DEF X
  <2> QED BY <1>2, VersionsCut
<1> HIDE DEF cut, kept
<1>8. \A k \in DOMAIN cut : k # to => cut[k].ordinal # v.ordinal
  BY <1>1, <1>4, <1>5, <1>6
<1>9. VersionsTold(Put(cut, to, v), x) /\ Below(Put(cut, to, v), o)
  <2>1. o <= o
    BY <1>2
  <2> QED BY <1>2, <1>5, <1>7, <1>8, <2>1, VersionPut
<1>10. VersionsTold(m.versions, x) /\ Below(m.versions, m.ordinal)
  BY <1>3, <1>9
<1> HIDE DEF x, kind
<1> QED BY <1>1, <1>3, <1>10, VersionsPerformed

LEMMA DeleteVersionTells ==
  ASSUME Kept, Told, Kept', NEW name, DeleteVersion(name)
  PROVE  Told'
<1> DEFINE vs == mem.versions
           o == mem.ordinal
           past == hist.version
           X == {name}
           cut == Restrict(vs, DOMAIN vs \ X)
           x == Restrict(past, DOMAIN past \ X)
           m == [mem EXCEPT !.versions = cut]
           kind == "version"
<1>1. Perform(kind, WriteFile(Start(mem), m, [disk EXCEPT !.versions = m.versions],
                              [hist EXCEPT !.version = x], mem))
  BY DEF DeleteVersion, Drop
<1>2. VersionsTold(vs, past) /\ Below(vs, o)
  BY DEF Kept, Agree, Told, FilesTell, HubTells
<1>3. m.versions = cut /\ m.ordinal = o /\ SameHub(m, mem)
  <2> HIDE DEF cut
  <2> QED BY DEF Kept, Agree, IsMem, SameHub
<1> HIDE DEF m, vs, past, o, X
<1>4. VersionsTold(cut, x) /\ Below(cut, o)
  BY <1>2, VersionsCut
<1>5. VersionsTold(m.versions, x) /\ Below(m.versions, m.ordinal)
  BY <1>3, <1>4
<1> HIDE DEF x, kind
<1> QED BY <1>1, <1>3, <1>5, VersionsPerformed

LEMMA RestartTells ==
  ASSUME Kept, Told, Restart
  PROVE  Told'
<1>1. disk' = disk /\ hist' = hist /\ mem' = InstallRoom(disk)
  BY DEF Restart
<1>2. HubTells(InstallRoom(disk), hist)
  BY LoadTells DEF Kept, Told
<1> QED BY <1>1, <1>2 DEF Told

(* What a read caches is told.                                             *)
LEMMA ReadTells ==
  ASSUME Kept, Told, NEW b \in DOMAIN mem.branches
  PROVE  HubTells(ReadTree(mem, b), hist)
<1> DEFINE T == StreamTree(mem, b)
           y == CHOOSE t \in T : TRUE
           ts == IF T = {} THEN Drop(mem.trees, b) ELSE Put(mem.trees, b, y)
           k == ReadTree(mem, b)
<1>1. k = [mem EXCEPT !.trees = ts]
  BY DEF ReadTree
<1>2. HubTold(mem, hist)
  BY HubIsTold DEF Kept, Told
<1>3. \A t \in T : TreeTold(t, mem.branches[b], mem.tails[b], hist.stream[b])
  BY <1>2, TreeServes
<1> HIDE DEF T
<1>4. TreesTold(mem.trees, mem.branches, mem.tails, hist.stream)
  BY <1>2 DEF HubTold
<1>5. TreesTold(ts, mem.branches, mem.tails, hist.stream)
  <2>1. CASE T = {}
    BY <1>4, <2>1 DEF TreesTold, Drop, Restrict
  <2>2. CASE T # {}
    <3>1. y \in T
      BY <2>2
    <3> HIDE DEF y
    <3>2. ts = Put(mem.trees, b, y)
      BY <2>2
    <3> QED BY <1>3, <1>4, <3>1, <3>2 DEF TreesTold, Put
  <2> QED BY <2>1, <2>2
<1> HIDE DEF ts, k
<1>6. /\ k.trees = ts /\ k.room = mem.room /\ k.versions = mem.versions /\ k.ordinal = mem.ordinal
      /\ k.branches = mem.branches /\ k.tails = mem.tails
  BY <1>1 DEF Kept, Agree, IsMem
<1> QED BY <1>5, <1>6 DEF HubTells, Told, k

(* Trees are folded from branches, so main may change under them.          *)
LEMMA TreesKept ==
  ASSUME NEW trees, NEW br, NEW tails, NEW h, TreesTold(trees, br, tails, h.stream), DOMAIN br \subseteq Branch,
         NEW k, NEW x, Rewritten(k, h, Main, x)
  PROVE  TreesTold(trees, br, tails, k.stream)
  BY StreamAssumption DEF TreesTold, Rewritten, Stream

LEMMA IngestPlanTells ==
  ASSUME Kept, Told, CleanFaults, NEW ops \in Seq(Op)
  PROVE  LET fresh == Fresh(mem.room, ops)
         IN Tells(LogAppend(Start(mem), Grown(fresh), Main, fresh), "ingest")
<1> DEFINE r == mem.room
           fresh == Fresh(r, ops)
           grown == Grown(fresh)
           s == Start(mem)
           p == LogAppend(s, grown, Main, fresh)
           past == hist.stream[Main]
           kind == "ingest"
<1>1. HubTold(mem, hist) /\ FilesTell(disk, hist) /\ HubTells(mem, hist) /\ Sane(disk) /\ ~Tears /\ IsMem(mem)
      /\ r \in Room
  BY HubIsTold DEF Kept, Told, Agree, MainAgrees, SoundRoom, CleanFaults
<1>2. fresh \in Seq(Op) /\ Range(fresh) = Range(ops) \ r.seen /\ IsInjective(fresh)
  <2> HIDE DEF r
  <2> QED BY FreshOps, FreshInjective
<1>3. /\ grown.room.base = r.base /\ grown.room.log = r.log \o fresh
      /\ grown.versions = mem.versions /\ grown.ordinal = mem.ordinal /\ grown.trees = mem.trees
      /\ grown.branches = mem.branches /\ grown.tails = mem.tails
  <2> HIDE DEF fresh
  <2> QED BY <1>1 DEF IsMem, Room, Grown
<1> HIDE DEF fresh, grown
<1>4. past \in Seq(Op) /\ RoomTold(r, past) /\ r.seen = Range(past)
  BY <1>1 DEF HubTold, IsPast, Stream
<1>5. TellsWrites(s, kind) /\ s.mem = mem /\ s.disk = disk /\ s.hist = hist
  BY StartTells
<1> HIDE DEF s, kind
<1>6. ASSUME NEW k \in 0 .. Len(fresh)
      PROVE  /\ FilesTell(AppendFile(disk, Main, SubSeq(fresh, 1, k)), AppendPast(hist, Main, SubSeq(fresh, 1, k)))
             /\ Rewritten(AppendPast(hist, Main, SubSeq(fresh, 1, k)), hist, Main, past \o SubSeq(fresh, 1, k))
  <2> DEFINE piece == SubSeq(fresh, 1, k)
  <2>1. piece \in Seq(Op) /\ IsInjective(piece) /\ Range(piece) \subseteq Range(fresh)
    BY <1>2, PieceInjective
  <2> HIDE DEF piece
  <2>2. Range(hist.stream[Main]) \intersect Range(piece) = {}
    BY <1>2, <1>4, <2>1
  <2>3. /\ FilesTell(AppendFile(disk, Main, piece), AppendPast(hist, Main, piece))
        /\ Rewritten(AppendPast(hist, Main, piece), hist, Main, hist.stream[Main] \o piece)
    BY <1>1, <2>1, <2>2, MainAppendTells
  <2> QED BY <2>3 DEF piece
<1>7. /\ TellsWrites(p, kind) /\ FilesTell(p.disk, p.hist)
      /\ p.mem = grown /\ p.disk = AppendFile(s.disk, Main, fresh) /\ p.hist = AppendPast(s.hist, Main, fresh)
  <2>1. \A k \in 0 .. Len(fresh) : FilesTell(AppendFile(s.disk, Main, SubSeq(fresh, 1, k)),
                                             AppendPast(s.hist, Main, SubSeq(fresh, 1, k)))
    BY <1>5, <1>6
  <2>2. FilesTell(s.disk, s.hist) /\ HubTells(s.mem, s.hist)
    BY <1>1, <1>5
  <2> QED BY <1>1, <1>2, <1>5, <2>1, <2>2, LogAppendTells
<1> HIDE DEF p
<1>8. Rewritten(p.hist, hist, Main, past \o fresh)
  <2>1. Len(fresh) \in 0 .. Len(fresh) /\ SubSeq(fresh, 1, Len(fresh)) = fresh
    BY <1>2
  <2> QED BY <1>5, <1>6, <1>7, <2>1
<1>9. HubTells(grown, p.hist)
  <2>1. RoomTold(grown.room, past \o fresh)
    <3> DEFINE n == r.base
               x == past
    <3>1. n \in 0 .. Len(x) /\ r.log = After(x, n) /\ x \in Seq(Op)
      BY <1>4 DEF RoomTold
    <3> HIDE DEF n, x
    <3>2. n \in 0 .. Len(x \o fresh) /\ After(x \o fresh, n) = After(x, n) \o fresh
      BY <1>2, <3>1, CutGrown
    <3> QED BY <1>3, <3>1, <3>2 DEF RoomTold, n, x
  <2>2. RoomTold(grown.room, p.hist.stream[Main])
    BY <1>8, <2>1 DEF Rewritten
  <2>3. TreesTold(mem.trees, mem.branches, mem.tails, p.hist.stream)
    <3> DEFINE t == mem.trees
               b == mem.branches
               l == mem.tails
               y == past \o fresh
               k == p.hist
    <3>1. TreesTold(t, b, l, hist.stream) /\ DOMAIN b \subseteq Branch /\ Rewritten(k, hist, Main, y)
      BY <1>1, <1>8 DEF HubTold
    <3> HIDE DEF t, b, l, y, k
    <3>2. TreesTold(t, b, l, k.stream)
      BY <3>1, TreesKept
    <3> QED BY <3>2 DEF t, b, l, k
  <2> QED BY <1>1, <1>3, <2>2, <2>3 DEF HubTells
<1>10. Tells(p, kind)
  BY <1>7, <1>9 DEF Tells
<1> QED BY <1>10 DEF p, s, grown, fresh, kind

LEMMA IngestTells ==
  ASSUME Kept, Told, Kept', CleanFaults, NEW ops \in Batches(Main), IngestOps(ops)
  PROVE  Told'
<1> DEFINE fresh == Fresh(mem.room, ops)
           p == LogAppend(Start(mem), Grown(fresh), Main, fresh)
           kind == "ingest"
<1>1. ops \in Seq(Op)
  BY BatchSeq
<1>2. Settles(p, kind) /\ Tells(p, kind)
  BY <1>1, IngestSettles, IngestPlanTells
<1>3. Perform(kind, p) \/ Perform(kind, Compaction(p))
  BY DEF IngestOps, Grown
<1> HIDE DEF p, kind
<1>4. Tells(Compaction(p), kind)
  BY <1>2, CompactionTells DEF Settles, Tells
<1> QED BY <1>2, <1>3, <1>4, PerformTells DEF Kept

(* A set listed in some order.                                             *)
LEMMA Listed ==
  ASSUME NEW state, state \subseteq Op, IsFiniteSet(state)
  PROVE  LET x == SetToSeq(state)
         IN x \in Seq(Op) /\ IsInjective(x) /\ Range(x) = state /\ Len(x) = Cardinality(state)
<1> DEFINE n == Cardinality(state)
           Lists(f) == f \in [1 .. n -> state] /\ IsInjective(f)
           x == SetToSeq(state)
<1>1. n \in Nat /\ \E f : f \in Bijection(1 .. n, state)
  BY FS_CardinalityType DEF ExistsBijection
<1>2. PICK g : g \in Bijection(1 .. n, state)
  BY <1>1
<1> HIDE DEF n
<1>3. Lists(g)
  BY <1>2 DEF Bijection, Injection, IsInjective
<1>4. x = CHOOSE f \in [1 .. n -> state] : IsInjective(f)
  BY DEF SetToSeq, n
<1>5. Lists(x)
  BY <1>3, <1>4
<1> HIDE DEF x
<1>6. x \in Seq(Op) /\ Len(x) = n /\ DOMAIN x = 1 .. n /\ Range(x) \subseteq state
  BY <1>1, <1>5 DEF Range
<1>7. IsFiniteSet(1 .. n) /\ Cardinality(1 .. n) = n
  <2>1. 1 \in Int /\ n \in Int
    BY <1>1
  <2>2. IsFiniteSet(1 .. n) /\ Cardinality(1 .. n) = IF 1 > n THEN 0 ELSE n - 1 + 1
    BY <2>1, FS_Interval
  <2> QED BY <1>1, <2>2
<1> DEFINE D == 1 .. n
<1>8. x \in Injection(D, state) /\ Cardinality(D) = Cardinality(state) /\ IsFiniteSet(D)
  BY <1>5, <1>6, <1>7 DEF Injection, IsInjective, n
<1> HIDE DEF D
<1>9. x \in Surjection(D, state)
  BY <1>8, FS_Injection
<1>10. Range(x) = state
  BY <1>6, <1>9 DEF Surjection, Range, D
<1> QED BY <1>5, <1>6, <1>10 DEF x, n

LEMMA ImportTells ==
  ASSUME Kept, Told, Kept', NEW state \in SUBSET Op, ImportRoom(state)
  PROVE  Told'
<1> DEFINE room == InstallSnapshot(state, Cardinality(state))
           m == [mem EXCEPT !.room = room, !.trees = Empty]
           p == Start(m)
           d == [disk EXCEPT !.snap = {[base |-> room.base, state |-> state]}]
           x == SetToSeq(state)
           h == [hist EXCEPT !.stream[Main] = x]
           q == WriteFile(p, p.mem, d, h, mem)
           kind == "import"
           past == hist.stream[Main]
<1>1. Perform(kind, q) /\ mem.room.seen = {}
  BY DEF ImportRoom, Held, EmptyRoom
<1>2. IsFiniteSet(state) /\ state \subseteq Op
  BY StreamAssumption, FS_Subset
<1>3. room.base = Cardinality(state) /\ room.log = <<>>
  BY DEF InstallSnapshot
<1>4. x \in Seq(Op) /\ IsInjective(x) /\ Range(x) = state /\ Len(x) = Cardinality(state)
  BY <1>2, Listed
<1> HIDE DEF room, x
<1>5. /\ m.room = room /\ m.trees = Empty /\ m.versions = mem.versions /\ m.ordinal = mem.ordinal
      /\ m.branches = mem.branches /\ m.tails = mem.tails
  BY DEF Kept, Agree, IsMem
<1>6. /\ d.snap = {[base |-> Cardinality(state), state |-> state]} /\ d.log = disk.log
      /\ d.versions = disk.versions /\ d.branches = disk.branches /\ d.blog = disk.blog
      /\ d.bbase = disk.bbase /\ d.active = disk.active
  BY <1>3 DEF Kept, Sane, IsDisk
<1>7. Floor(d.snap) = state
  <2> HIDE DEF d
  <2> QED BY <1>6, OneSnapshot DEF Floor
<1>8. /\ past \in Seq(Op) /\ past = <<>> /\ disk.log \in Seq(Op) /\ disk.log = <<>>
      /\ FilesTell(disk, hist) /\ HubTells(mem, hist) /\ IsPast(hist)
  <2>1. HubTold(mem, hist)
    BY HubIsTold DEF Kept, Told
  <2>2. past \in Seq(Op) /\ Range(past) = {}
    BY <1>1, <2>1 DEF HubTold, IsPast, Stream
  <2>3. disk.log \in Seq(Op) /\ Range(disk.log) = {}
    BY <1>1 DEF Kept, Agree, MainAgrees, Sane, SaneMain
  <2>4. ASSUME NEW y \in Seq(Op), Range(y) = {} PROVE y = <<>>
    <3>1. Len(y) \in Nat /\ DOMAIN y = 1 .. Len(y)
      OBVIOUS
    <3>2. DOMAIN y = {}
      BY <2>4 DEF Range
    <3>3. Len(y) = 0
      BY <3>1, <3>2
    <3> QED BY <3>3
  <2> QED BY <2>2, <2>3, <2>4 DEF Told, FilesTell
<1> HIDE DEF d, m, past
<1>9. Rewritten(h, hist, Main, x)
  <2>1. Main \in Stream
    BY DEF Stream
  <2> QED BY <1>4, <1>8, <2>1, PastRewritten
<1> HIDE DEF h
<1>10. /\ SubSeq(x, 1, Len(x)) = x /\ After(x, Len(x)) = <<>> /\ Len(x) \in 0 .. Len(x)
  BY <1>4, WholeCut
<1>11. MainTold(d.snap, d.log, x)
  BY <1>4, <1>6, <1>7, <1>8, <1>10 DEF MainTold
<1>12. StreamsTold(d.branches, d.blog, d.bbase, h.stream)
  <2> DEFINE br == disk.branches
             bl == disk.blog
             bb == disk.bbase
  <2>1. hist.stream[Main] \o x = x
    BY <1>4, <1>8 DEF past
  <2>2. StreamsTold(br, bl, bb, hist.stream) /\ DOMAIN br \subseteq Branch
        /\ Rewritten(h, hist, Main, hist.stream[Main] \o x)
    BY <1>8, <1>9, <2>1 DEF FilesTell, Kept, Sane, SaneStreams
  <2> HIDE DEF br, bl, bb
  <2>3. StreamsTold(br, bl, bb, h.stream)
    BY <1>4, <1>8, <2>2, SharedKept
  <2> QED BY <1>6, <2>3 DEF br, bl, bb
<1>13. FilesTell(d, h)
  BY <1>6, <1>8, <1>9, <1>11, <1>12 DEF FilesTell, Rewritten
<1>14. HubTells(m, h)
  <2>1. RoomTold(m.room, h.stream[Main])
    BY <1>3, <1>4, <1>5, <1>9, <1>10 DEF RoomTold, Rewritten
  <2>2. TreesTold(m.trees, m.branches, m.tails, h.stream)
    BY <1>5 DEF TreesTold, Empty, Restrict
  <2> QED BY <1>5, <1>8, <2>1, <2>2 DEF HubTells
<1>15. TellsWrites(p, kind) /\ p.mem = m /\ p.disk = disk /\ p.hist = hist
  BY StartTells
<1> HIDE DEF p, kind
<1>16. TellsWrites(q, kind) /\ q.mem = p.mem /\ q.disk = d /\ q.hist = h
  BY <1>8, <1>13, <1>15, WriteFileTells
<1> HIDE DEF q
<1>17. Tells(q, kind)
  BY <1>13, <1>14, <1>15, <1>16 DEF Tells
<1> QED BY <1>1, <1>17, PerformTells DEF Kept

(* The registry with one branch's head moved.                              *)
HeadMoved(br2, br, b) ==
    /\ DOMAIN br2 = DOMAIN br /\ \A x \in DOMAIN br \ {b} : br2[x] = br[x]
    /\ br2[b].fork = br[b].fork /\ br2[b].published = br[b].published

(* A branch's tail grows with its history.                                 *)
LEMMA TailTells ==
  ASSUME NEW br, NEW bl \in [Branch -> Seq(Op)], NEW bb, NEW h, IsPast(h), DOMAIN br \subseteq Branch,
         StreamsTold(br, bl, bb, h.stream), NEW b \in DOMAIN br, ~br[b].published, NEW piece \in Seq(Op),
         NEW k, Rewritten(k, h, b, h.stream[b] \o piece), NEW bl2, LogGrows(bl2, bl, b, piece),
         NEW br2, HeadMoved(br2, br, b), br2[b].head = br[b].head \/ piece # <<>>
  PROVE  StreamsTold(br2, bl2, bb, k.stream)
<1> DEFINE past == h.stream[b]
           f == br[b].fork
           log == bl[b]
<1>1. /\ past \in Seq(Op) /\ b \in Branch /\ Main \notin Branch /\ Main \in Stream /\ log \in Seq(Op)
      /\ \A x \in Branch : x \in Stream
  BY StreamAssumption DEF IsPast, Stream
<1>2. BranchTold(br[b], bl[b], bb, b, past, h.stream[Main])
  BY DEF StreamsTold
<1>3. f \in 0 .. Len(past) /\ log = After(past, f) /\ (log = <<>> => br[b].head = f)
  BY <1>2 DEF BranchTold, TailTold
<1>4. /\ k.stream[Main] = h.stream[Main] /\ k.stream[b] = past \o piece
      /\ \A x \in DOMAIN br \ {b} : k.stream[x] = h.stream[x]
  BY <1>1 DEF Rewritten
<1>5. bl2[b] = log \o piece /\ \A x \in DOMAIN br \ {b} : bl2[x] = bl[x]
  BY DEF LogGrows
<1> HIDE DEF past, f, log
<1>6. /\ f \in 0 .. Len(past \o piece)
      /\ SubSeq(past \o piece, 1, f) = SubSeq(past, 1, f)
      /\ After(past \o piece, f) = After(past, f) \o piece
  BY <1>1, <1>3, CutGrown
<1>7. log \o piece = <<>> => log = <<>> /\ piece = <<>>
  <2>1. log \o piece \in Seq(Op) /\ Len(log \o piece) = Len(log) + Len(piece)
    BY <1>1, ConcatRange
  <2>2. Len(log) \in Nat /\ Len(piece) \in Nat
    BY <1>1
  <2>3. log \o piece = <<>> => Len(log) = 0 /\ Len(piece) = 0
    BY <2>1, <2>2
  <2> QED BY <1>1, <2>3
<1>8. BranchTold(br2[b], bl2[b], bb, b, k.stream[b], k.stream[Main])
  <2> DEFINE new == past \o piece
             nlog == log \o piece
  <2>0. k.stream[b] = new /\ bl2[b] = nlog
    BY <1>4, <1>5
  <2>1. TailTold(br2[b], nlog, new)
    <3>1. nlog = <<>> => br2[b].head = f
      BY <1>3, <1>7
    <3>2. f \in 0 .. Len(new) /\ nlog = After(new, f) /\ br2[b].fork = f
      BY <1>3, <1>6 DEF HeadMoved, f
    <3> HIDE DEF new, nlog
    <3> QED BY <3>1, <3>2 DEF TailTold
  <2>2. BaseTold(br2[b], bb, b, new, h.stream[Main])
    <3>1. SubSeq(new, 1, f) = SubSeq(past, 1, f) /\ br2[b].fork = f /\ br[b].fork = f
      BY <1>6 DEF HeadMoved, f
    <3> HIDE DEF new
    <3>2. BaseTold(br[b], bb, b, past, h.stream[Main])
      BY <1>2 DEF BranchTold
    <3> QED BY <3>1, <3>2 DEF BaseTold
  <2> HIDE DEF new, nlog
  <2> QED BY <1>4, <2>0, <2>1, <2>2 DEF BranchTold, HeadMoved
<1>9. \A x \in DOMAIN br2 \ {b} : SameBranch(x, br2, bl2, bb, k.stream, br, bl, bb, h.stream)
  BY <1>4, <1>5 DEF SameBranch, HeadMoved
<1> DEFINE st == h.stream
           st2 == k.stream
<1>10. /\ st2[Main] = st[Main] /\ BranchTold(br2[b], bl2[b], bb, b, st2[b], st2[Main])
       /\ \A x \in DOMAIN br2 \ {b} : SameBranch(x, br2, bl2, bb, st2, br, bl, bb, st)
       /\ StreamsTold(br, bl, bb, st)
  BY <1>4, <1>8, <1>9
<1> HIDE DEF st, st2
<1>11. StreamsTold(br2, bl2, bb, st2)
  BY <1>10, OthersTold
<1> QED BY <1>11 DEF st2

(* A tree folded from the beginning of a tail stays what it was.           *)
LEMMA TreesGrown ==
  ASSUME NEW trees, NEW br, NEW tails \in [Branch -> Seq(Op)], NEW h, IsPast(h), DOMAIN br \subseteq Branch,
         TreesTold(trees, br, tails, h.stream), NEW b \in DOMAIN br, ~br[b].published,
         TailTold(br[b], tails[b], h.stream[b]), NEW piece \in Seq(Op),
         NEW k, Rewritten(k, h, b, h.stream[b] \o piece), NEW tails2, LogGrows(tails2, tails, b, piece),
         NEW br2, HeadMoved(br2, br, b)
  PROVE  TreesTold(trees, br2, tails2, k.stream)
<1> DEFINE past == h.stream[b]
           f == br[b].fork
           tail == tails[b]
<1>1. past \in Seq(Op) /\ b \in Branch /\ tail \in Seq(Op) /\ \A x \in Branch : x \in Stream
  BY DEF IsPast, Stream
<1>2. k.stream[b] = past \o piece /\ \A x \in DOMAIN br \ {b} : k.stream[x] = h.stream[x]
  BY <1>1 DEF Rewritten
<1>3. tails2[b] = tail \o piece /\ \A x \in DOMAIN br \ {b} : tails2[x] = tails[x]
  BY DEF LogGrows
<1>4. f \in 0 .. Len(past) /\ tail = After(past, f) /\ br2[b].fork = f
  BY DEF TailTold, HeadMoved
<1>5. ASSUME NEW x \in DOMAIN trees, x # b
      PROVE  x \in DOMAIN br2 /\ TreeTold(trees[x], br2[x], tails2[x], k.stream[x])
  BY <1>2, <1>3, <1>5 DEF TreesTold, HeadMoved
<1>6. ASSUME b \in DOMAIN trees
      PROVE  TreeTold(trees[b], br2[b], tails2[b], k.stream[b])
  <2> DEFINE t == trees[b]
             l == t.tailLen
             n == f + l
  <2>1. IsTree(t) /\ l \in 0 .. Len(tail) /\ t.doc = Range(SubSeq(past, 1, n))
    BY <1>6 DEF TreesTold, TreeTold
  <2> HIDE DEF past, f, tail, t, l
  <2>2. Len(tail) = Len(past) - f /\ Len(past) \in Nat /\ f \in Nat
    BY <1>1, <1>4, CutFacts
  <2>3. n \in 0 .. Len(past) /\ l \in Nat
    BY <1>4, <2>1, <2>2
  <2>4. SubSeq(past \o piece, 1, n) = SubSeq(past, 1, n)
    <3> HIDE DEF n
    <3> QED BY <1>1, <2>3, CutGrown
  <2>5. l \in 0 .. Len(tail \o piece)
    <3>1. Len(tail \o piece) = Len(tail) + Len(piece) /\ Len(tail) \in Nat /\ Len(piece) \in Nat
      BY <1>1, ConcatRange
    <3> QED BY <2>1, <2>3, <3>1
  <2>6. ~br2[b].published
    BY DEF HeadMoved
  <2> QED BY <1>2, <1>3, <1>4, <2>1, <2>4, <2>5, <2>6 DEF TreeTold, t, l
<1> QED BY <1>5, <1>6 DEF TreesTold, HeadMoved

(* A branch with a piece of a batch appended.                              *)
LEMMA BranchAppendTells ==
  ASSUME NEW d, Sane(d), NEW h, FilesTell(d, h), NEW b \in DOMAIN d.branches, ~d.branches[b].published,
         NEW piece \in Seq(Op)
  PROVE  /\ FilesTell(AppendFile(d, b, piece), AppendPast(h, b, piece))
         /\ Rewritten(AppendPast(h, b, piece), h, b, h.stream[b] \o piece)
<1> DEFINE e == AppendFile(d, b, piece)
           k == AppendPast(h, b, piece)
           x == h.stream[b] \o piece
           br == d.branches
           bl == d.blog
           bb == d.bbase
<1>1. /\ b \in Branch /\ b \in Stream /\ b # Main /\ Main \in Stream /\ IsPast(h) /\ h.stream[b] \in Seq(Op)
      /\ DOMAIN br \subseteq Branch /\ bl \in [Branch -> Seq(Op)] /\ StreamsTold(br, bl, bb, h.stream)
  BY StreamAssumption DEF Stream, FilesTell, IsPast, Sane, SaneStreams
<1>2. /\ e.blog = [d.blog EXCEPT ![b] = d.blog[b] \o piece] /\ e.log = d.log
      /\ e.snap = d.snap /\ e.versions = d.versions /\ e.branches = d.branches
      /\ e.bbase = d.bbase /\ e.active = d.active
  BY <1>1 DEF AppendFile, Sane, IsDisk
<1>3. Rewritten(k, h, b, x)
  <2>1. x \in Seq(Op) /\ k = [h EXCEPT !.stream[b] = x]
    BY <1>1, ConcatRange DEF AppendPast
  <2> HIDE DEF x, k
  <2> QED BY <1>1, <2>1, PastRewritten
<1> HIDE DEF e, k
<1>4. StreamsTold(br, e.blog, bb, k.stream)
  <2> DEFINE bl2 == e.blog
  <2>1. LogGrows(bl2, bl, b, piece) /\ HeadMoved(br, br, b) /\ br[b].head = br[b].head /\ ~br[b].published
        /\ b \in DOMAIN br /\ Rewritten(k, h, b, h.stream[b] \o piece)
    BY <1>2, <1>3 DEF LogGrows, HeadMoved
  <2> HIDE DEF br, bl, bb, bl2
  <2>2. StreamsTold(br, bl2, bb, k.stream)
    BY <1>1, <2>1, TailTells
  <2> QED BY <2>2 DEF bl2
<1>5. k.stream[Main] = h.stream[Main] /\ k.version = h.version /\ IsPast(k)
  BY <1>1, <1>3 DEF Rewritten
<1>6. FilesTell(e, k)
  BY <1>2, <1>4, <1>5 DEF FilesTell
<1> QED BY <1>3, <1>6 DEF e, k, x

LEMMA IngestBranchTells ==
  ASSUME Kept, Told, Kept', CleanFaults, NEW b \in Branch, NEW ops \in Batches(b), IngestBranch(b, ops)
  PROVE  Told'
<1> DEFINE fresh == Fresh([EmptyRoom EXCEPT !.seen = Range(mem.tails[b])], ops)
           grown == [mem EXCEPT !.tails[b] = mem.tails[b] \o fresh]
           s == Start(mem)
           p == LogAppend(s, grown, b, fresh)
           m == [grown EXCEPT !.branches[b].head = mem.branches[b].fork + Len(grown.tails[b])]
           d == [p.disk EXCEPT !.branches = m.branches]
           q == WriteFile(p, m, d, p.hist, p.mem)
           kind == "ingest_branch"
<1>1. ops \in Seq(Op)
  BY BatchSeq
<1>2. fresh \in Seq(Op)
  BY <1>1, FreshOps
<1>3. Perform(kind, q) /\ fresh # <<>> /\ b \in DOMAIN mem.branches /\ ~mem.branches[b].published
  BY DEF IngestBranch, WriteBranches
<1> HIDE DEF fresh
<1>4. /\ IsMem(mem) /\ mem.tails \in [Branch -> Seq(Op)] /\ kind \notin FailIn /\ ~Tears
      /\ SaneStreams(disk.branches, disk.blog, disk.bbase) /\ Sane(disk) /\ IsDisk(disk)
      /\ StreamsAgree(mem, disk.branches, disk.blog, disk.bbase, disk.active)
      /\ DOMAIN mem.branches = DOMAIN disk.branches /\ disk.blog \in [Branch -> Seq(Op)]
      /\ DOMAIN mem.branches \subseteq Branch /\ b # Main /\ Main \in Stream /\ IsPast(hist)
      /\ FilesTell(disk, hist) /\ HubTells(mem, hist) /\ HubTold(mem, hist)
      /\ \A x \in DOMAIN mem.branches : IsPointer(mem.branches[x])
  <2>1. HubTold(mem, hist)
    BY HubIsTold DEF Kept, Told
  <2>2. ASSUME NEW x \in DOMAIN mem.branches PROVE IsPointer(mem.branches[x])
    <3>1. /\ x \in DOMAIN disk.branches /\ IsPointer(disk.branches[x])
          /\ mem.branches[x] = Patched(disk.branches[x], TailOf(disk.branches, disk.blog, x))
      BY DEF Kept, Sane, SaneStreams, Agree, StreamsAgree
    <3> QED BY <3>1, PatchedPointer
  <2> QED BY <2>1, <2>2, StreamAssumption
          DEF Kept, Sane, Agree, SaneStreams, StreamsAgree, CleanFaults, Told, FilesTell, Stream
<1>5. /\ IsMem(grown) /\ grown.tails = [mem.tails EXCEPT ![b] = mem.tails[b] \o fresh]
      /\ grown.branches = mem.branches
      /\ grown.room = mem.room /\ grown.versions = mem.versions /\ grown.ordinal = mem.ordinal
      /\ grown.trees = mem.trees
  BY <1>4 DEF IsMem
<1> HIDE DEF grown
<1>6. /\ m.tails = grown.tails /\ m.room = mem.room /\ m.versions = mem.versions
      /\ m.ordinal = mem.ordinal /\ m.trees = mem.trees
      /\ m.branches = [mem.branches EXCEPT ![b].head = mem.branches[b].fork + Len(m.tails[b])]
  BY <1>5 DEF IsMem
<1> HIDE DEF m
<1>7. TellsWrites(s, kind) /\ s.mem = mem /\ s.disk = disk /\ s.hist = hist
  BY StartTells
<1> HIDE DEF s, kind
<1>8. ASSUME NEW k \in 0 .. Len(fresh)
      PROVE  /\ FilesTell(AppendFile(disk, b, SubSeq(fresh, 1, k)), AppendPast(hist, b, SubSeq(fresh, 1, k)))
             /\ Rewritten(AppendPast(hist, b, SubSeq(fresh, 1, k)), hist, b, hist.stream[b] \o SubSeq(fresh, 1, k))
  <2> DEFINE piece == SubSeq(fresh, 1, k)
  <2>1. piece \in Seq(Op)
    BY <1>2, CutFacts
  <2>2. b \in DOMAIN disk.branches /\ ~disk.branches[b].published
    <3>1. mem.branches[b].published = disk.branches[b].published
      <4>1. /\ b \in DOMAIN disk.branches /\ IsPointer(disk.branches[b])
            /\ mem.branches[b] = Patched(disk.branches[b], TailOf(disk.branches, disk.blog, b))
        BY <1>3 DEF Kept, Sane, SaneStreams, Agree, StreamsAgree
      <4> QED BY <4>1, PatchedPointer
    <3> QED BY <1>3, <1>4, <3>1
  <2> HIDE DEF piece
  <2>3. /\ FilesTell(AppendFile(disk, b, piece), AppendPast(hist, b, piece))
        /\ Rewritten(AppendPast(hist, b, piece), hist, b, hist.stream[b] \o piece)
    BY <1>4, <2>1, <2>2, BranchAppendTells
  <2> QED BY <2>3 DEF piece
<1>9. /\ TellsWrites(p, kind) /\ FilesTell(p.disk, p.hist)
      /\ p.mem = grown /\ p.disk = AppendFile(s.disk, b, fresh) /\ p.hist = AppendPast(s.hist, b, fresh)
  <2>1. \A k \in 0 .. Len(fresh) : FilesTell(AppendFile(s.disk, b, SubSeq(fresh, 1, k)),
                                             AppendPast(s.hist, b, SubSeq(fresh, 1, k)))
    BY <1>7, <1>8
  <2> QED BY <1>2, <1>4, <1>7, <2>1, LogAppendTells
<1> HIDE DEF p
<1>10. Rewritten(p.hist, hist, b, hist.stream[b] \o fresh)
  <2>1. Len(fresh) \in 0 .. Len(fresh) /\ SubSeq(fresh, 1, Len(fresh)) = fresh
    BY <1>2
  <2> QED BY <1>7, <1>8, <1>9, <2>1
<1>11. /\ p.disk.blog = [disk.blog EXCEPT ![b] = disk.blog[b] \o fresh] /\ p.disk.log = disk.log
       /\ p.disk.snap = disk.snap /\ p.disk.versions = disk.versions /\ p.disk.bbase = disk.bbase
       /\ p.disk.active = disk.active /\ IsDisk(p.disk)
  BY <1>4, <1>7, <1>9 DEF AppendFile, IsDisk
<1>12. /\ d.branches = m.branches /\ d.log = disk.log /\ d.snap = disk.snap
       /\ d.blog = p.disk.blog /\ d.versions = disk.versions /\ d.bbase = disk.bbase /\ d.active = disk.active
  BY <1>11 DEF IsDisk
<1> HIDE DEF d
<1>13. /\ HeadMoved(m.branches, mem.branches, b) /\ LogGrows(p.disk.blog, disk.blog, b, fresh)
       /\ LogGrows(m.tails, mem.tails, b, fresh)
  <2>1. IsPointer(mem.branches[b])
    BY <1>3, <1>4
  <2>2. /\ DOMAIN m.branches = DOMAIN mem.branches
        /\ \A x \in DOMAIN mem.branches \ {b} : m.branches[x] = mem.branches[x]
        /\ m.branches[b] = [mem.branches[b] EXCEPT !.head = mem.branches[b].fork + Len(m.tails[b])]
    BY <1>3, <1>6
  <2>3. m.branches[b].fork = mem.branches[b].fork /\ m.branches[b].published = mem.branches[b].published
    BY <2>1, <2>2 DEF IsPointer
  <2> QED BY <1>5, <1>6, <1>11, <2>2, <2>3 DEF HeadMoved, LogGrows
<1>14. StreamsTold(mem.branches, disk.blog, disk.bbase, hist.stream)
  <2> DEFINE br == disk.branches
             bl == disk.blog
             bb == disk.bbase
             ac == disk.active
             st == hist.stream
  <2>1. SaneStreams(br, bl, bb) /\ StreamsAgree(mem, br, bl, bb, ac) /\ StreamsTold(br, bl, bb, st)
    BY <1>4 DEF FilesTell
  <2> HIDE DEF br, bl, bb, ac, st
  <2>2. StreamsTold(mem.branches, bl, bb, st)
    BY <2>1, RegistryTold
  <2> QED BY <2>2 DEF bl, bb, st
<1>15. StreamsTold(d.branches, d.blog, d.bbase, p.hist.stream)
  <2> DEFINE br == mem.branches
             bl == disk.blog
             bb == disk.bbase
             k == p.hist
             br2 == m.branches
             bl2 == p.disk.blog
  <2>1. /\ bl \in [Branch -> Seq(Op)] /\ IsPast(hist) /\ DOMAIN br \subseteq Branch
        /\ StreamsTold(br, bl, bb, hist.stream) /\ b \in DOMAIN br /\ ~br[b].published
        /\ Rewritten(k, hist, b, hist.stream[b] \o fresh) /\ LogGrows(bl2, bl, b, fresh)
        /\ HeadMoved(br2, br, b)
    BY <1>3, <1>4, <1>10, <1>13, <1>14
  <2> HIDE DEF br, bl, bb, k, br2, bl2
  <2>2. StreamsTold(br2, bl2, bb, k.stream)
    BY <1>2, <1>3, <2>1, TailTells
  <2> QED BY <1>12, <2>2 DEF br2, bl2, bb, k
<1>16. FilesTell(d, p.hist)
  <2>1. p.hist.stream[Main] = hist.stream[Main] /\ p.hist.version = hist.version /\ IsPast(p.hist)
    BY <1>4, <1>10 DEF Rewritten
  <2>2. ActiveTold(d.active, d.branches)
    <3> DEFINE x == disk.active
    <3>1. ASSUME x \in DOMAIN mem.branches PROVE ~mem.branches[x].published
      BY <1>4, <3>1 DEF HubTold, ActiveTold, StreamsAgree
    <3>2. ASSUME x \in DOMAIN mem.branches PROVE ~m.branches[x].published
      <4>1. CASE x = b
        BY <1>3, <1>13, <4>1 DEF HeadMoved
      <4>2. CASE x # b
        BY <1>13, <3>1, <3>2, <4>2 DEF HeadMoved
      <4> QED BY <4>1, <4>2
    <3>3. DOMAIN m.branches = DOMAIN mem.branches
      BY <1>13 DEF HeadMoved
    <3> QED BY <1>12, <3>2, <3>3 DEF ActiveTold
  <2> QED BY <1>4, <1>12, <1>15, <2>1, <2>2 DEF FilesTell
<1>17. HubTells(m, p.hist)
  <2>1. p.hist.stream[Main] = hist.stream[Main]
    BY <1>4, <1>10 DEF Rewritten
  <2>2. TreesTold(m.trees, m.branches, m.tails, p.hist.stream)
    <3> DEFINE t == mem.trees
               br == mem.branches
               l == mem.tails
               k == p.hist
               br2 == m.branches
               l2 == m.tails
    <3>1. /\ l \in [Branch -> Seq(Op)] /\ IsPast(hist) /\ DOMAIN br \subseteq Branch
          /\ TreesTold(t, br, l, hist.stream) /\ b \in DOMAIN br /\ ~br[b].published
          /\ Rewritten(k, hist, b, hist.stream[b] \o fresh) /\ LogGrows(l2, l, b, fresh)
          /\ HeadMoved(br2, br, b)
      BY <1>3, <1>4, <1>10, <1>13 DEF HubTells
    <3>2. TailTold(br[b], l[b], hist.stream[b])
      BY <1>3, <1>4 DEF HubTold, StreamsTold, BranchTold
    <3> HIDE DEF t, br, l, k, br2, l2
    <3>3. TreesTold(t, br2, l2, k.stream)
      BY <1>2, <3>1, <3>2, TreesGrown
    <3> QED BY <1>6, <3>3 DEF t, br2, l2, k
  <2> QED BY <1>4, <1>6, <2>1, <2>2 DEF HubTells
<1> DEFINE h == p.hist
<1>18. TellsWrites(q, kind) /\ q.mem = m /\ q.disk = d /\ q.hist = h
  <2>1. FilesTell(d, h)
    BY <1>16
  <2>2. q = WriteFile(p, m, d, h, p.mem)
    OBVIOUS
  <2> HIDE DEF h, q
  <2> QED BY <1>4, <1>9, <2>1, <2>2, WriteFileTells
<1> HIDE DEF q
<1>19. Tells(q, kind)
  BY <1>16, <1>17, <1>18 DEF Tells
<1> QED BY <1>3, <1>19, PerformTells DEF Kept

SameBases(bb2, bb, X) ==
    \A x \in X : (x \in DOMAIN bb2 <=> x \in DOMAIN bb) /\ (x \in DOMAIN bb => bb2[x] = bb[x])

(* A pointer joins the registry, or replaces one.                          *)
LEMMA PointerTold ==
  ASSUME NEW br, NEW bl, NEW bb, NEW h, IsPast(h), DOMAIN br \subseteq Branch, StreamsTold(br, bl, bb, h.stream),
         NEW b \in Branch, NEW k, NEW past, Rewritten(k, h, b, past), NEW r, NEW br2, br2 = Put(br, b, r),
         NEW bl2, \A x \in Branch \ {b} : bl2[x] = bl[x], NEW bb2, SameBases(bb2, bb, Branch \ {b}),
         BranchTold(r, bl2[b], bb2, b, past, h.stream[Main])
  PROVE  StreamsTold(br2, bl2, bb2, k.stream)
<1>1. Main \in Stream /\ Main # b /\ \A x \in Branch : x \in Stream
  BY StreamAssumption DEF Stream
<1>2. DOMAIN br2 = DOMAIN br \union {b} /\ br2[b] = r /\ \A x \in DOMAIN br2 \ {b} : br2[x] = br[x]
  BY DEF Put
<1>3. k.stream[Main] = h.stream[Main] /\ k.stream[b] = past
  BY <1>1 DEF Rewritten
<1> DEFINE st == h.stream
           st2 == k.stream
<1>4. \A x \in DOMAIN br2 \ {b} : SameBranch(x, br2, bl2, bb2, st2, br, bl, bb, st)
  BY <1>1, <1>2 DEF SameBranch, SameBases, Rewritten
<1>5. /\ BranchTold(br2[b], bl2[b], bb2, b, st2[b], st2[Main]) /\ st2[Main] = st[Main]
      /\ StreamsTold(br, bl, bb, st)
  BY <1>2, <1>3
<1> HIDE DEF st, st2
<1>6. StreamsTold(br2, bl2, bb2, st2)
  BY <1>4, <1>5, OthersTold
<1> QED BY <1>6 DEF st2

(* What plans start from, of the registry in memory.                       *)
LEMMA PlanTold ==
  ASSUME NEW d, Sane(d), NEW m, Agree(m, d), NEW h, FilesTell(d, h)
  PROVE  /\ StreamsTold(m.branches, d.blog, d.bbase, h.stream)
         /\ DOMAIN m.branches = DOMAIN d.branches /\ DOMAIN m.branches \subseteq Branch
         /\ ActiveTold(d.active, m.branches)
         /\ VersionsTold(m.versions, h.version)
         /\ IsPast(h) /\ h.stream[Main] \in Seq(Op)
<1> DEFINE br == d.branches
           bl == d.blog
           bb == d.bbase
           ac == d.active
           st == h.stream
<1>1. /\ SaneStreams(br, bl, bb) /\ StreamsAgree(m, br, bl, bb, ac) /\ StreamsTold(br, bl, bb, st)
      /\ ActiveTold(ac, br) /\ VersionsTold(m.versions, h.version) /\ IsPast(h) /\ DOMAIN br \subseteq Branch
  BY DEF FilesTell, Sane, SaneStreams, Agree
<1>2. h.stream[Main] \in Seq(Op)
  BY <1>1 DEF IsPast, Stream
<1> HIDE DEF br, bl, bb, ac, st
<1>3. /\ StreamsTold(m.branches, bl, bb, st) /\ DOMAIN m.branches = DOMAIN br
      /\ \A b \in DOMAIN br : m.branches[b].published = br[b].published
  BY <1>1, RegistryTold
<1>4. ActiveTold(ac, m.branches)
  BY <1>1, <1>3 DEF ActiveTold
<1> QED BY <1>1, <1>2, <1>3, <1>4 DEF br, bl, bb, ac, st

LEMMA ForkBranchTells ==
  ASSUME Kept, Told, Kept', CleanFaults, NEW new \in Branch, ForkBranch(new, Main)
  PROVE  Told'
<1> DEFINE at == StreamHead(mem, Main)
           r == NewFork(at)
           k == [mem EXCEPT !.branches = Put(mem.branches, new, r)]
           m == [k EXCEPT !.trees = Drop(k.trees, new)]
           main == hist.stream[Main]
           past == SubSeq(main, 1, at)
           h == [hist EXCEPT !.stream[new] = past]
           s == Start(mem)
           d == [s.disk EXCEPT !.branches = m.branches]
           q == WriteFile(s, m, d, h, s.mem)
           kind == "fork"
<1>1. Perform(kind, q) /\ new \notin DOMAIN mem.branches /\ Clean(new)
  BY DEF ForkBranch, WriteBranches, ForgetTree, CleanFaults
<1>2. /\ Sane(disk) /\ Agree(mem, disk) /\ FilesTell(disk, hist) /\ HubTells(mem, hist) /\ HubTold(mem, hist)
      /\ IsMem(mem) /\ IsDisk(disk)
  BY HubIsTold DEF Kept, Told, Agree, Sane
<1>3. /\ StreamsTold(mem.branches, disk.blog, disk.bbase, hist.stream)
      /\ DOMAIN mem.branches \subseteq Branch /\ ActiveTold(disk.active, mem.branches)
      /\ IsPast(hist) /\ main \in Seq(Op)
  BY <1>2, PlanTold
<1>4. at = Len(main)
  <2> DEFINE room == mem.room
  <2>1. RoomTold(room, main) /\ room.seen = Range(main)
    BY <1>2 DEF HubTold
  <2> HIDE DEF room, main
  <2>2. RoomHead(room) = Len(main)
    BY <1>3, <2>1, RoomServes
  <2> QED BY <2>2 DEF StreamHead, room
<1>5. past = main
  BY <1>3, <1>4
<1>6. Rewritten(h, hist, new, main)
  <2>1. new \in Stream
    BY DEF Stream
  <2>2. h = [hist EXCEPT !.stream[new] = main]
    BY <1>5
  <2> HIDE DEF h, main
  <2> QED BY <1>3, <2>1, <2>2, PastRewritten
<1> HIDE DEF h, past
<1>7. ~r.published /\ r.fork = Len(main) /\ r.head = r.fork
  BY <1>4 DEF NewFork
<1> HIDE DEF r
<1>8. /\ m.branches = Put(mem.branches, new, r) /\ m.tails = mem.tails /\ m.trees = Drop(mem.trees, new)
      /\ m.room = mem.room /\ m.versions = mem.versions /\ m.ordinal = mem.ordinal
  <2>1. /\ IsMem(k) /\ k.branches = Put(mem.branches, new, r) /\ k.tails = mem.tails /\ k.trees = mem.trees
        /\ k.room = mem.room /\ k.versions = mem.versions /\ k.ordinal = mem.ordinal
    BY <1>2 DEF IsMem
  <2> HIDE DEF k
  <2> QED BY <2>1 DEF IsMem
<1> HIDE DEF m
<1>9. TellsWrites(s, kind) /\ s.mem = mem /\ s.disk = disk /\ s.hist = hist
  BY StartTells
<1> HIDE DEF s, kind
<1>10. /\ d.branches = m.branches /\ d.blog = disk.blog /\ d.bbase = disk.bbase /\ d.active = disk.active
       /\ d.log = disk.log /\ d.snap = disk.snap /\ d.versions = disk.versions
  BY <1>2, <1>9 DEF IsDisk
<1> HIDE DEF d
<1>11. new \notin DOMAIN disk.bbase /\ disk.blog[new] = <<>> /\ disk.active # new
  BY <1>1 DEF Clean
<1>12. BranchTold(r, disk.blog[new], disk.bbase, new, main, main)
  <2> HIDE DEF main
  <2>1. Len(main) \in 0 .. Len(main) /\ Len(main) <= Len(main) /\ After(main, Len(main)) = <<>>
    BY <1>3, WholeCut
  <2> QED BY <1>7, <1>11, <2>1 DEF BranchTold, TailTold, BaseTold
<1>13. StreamsTold(d.branches, d.blog, d.bbase, h.stream)
  <2> DEFINE br == mem.branches
             br2 == m.branches
             bl == disk.blog
             bb == disk.bbase
  <2>1. /\ StreamsTold(br, bl, bb, hist.stream) /\ DOMAIN br \subseteq Branch /\ br2 = Put(br, new, r)
        /\ SameBases(bb, bb, Branch \ {new}) /\ BranchTold(r, bl[new], bb, new, main, hist.stream[Main])
        /\ \A x \in Branch \ {new} : bl[x] = bl[x]
    BY <1>3, <1>8, <1>12 DEF SameBases
  <2> HIDE DEF br, br2, bl, bb, main
  <2>2. StreamsTold(br2, bl, bb, h.stream)
    BY <1>3, <1>6, <2>1, PointerTold
  <2> QED BY <1>10, <2>2 DEF br2, bl, bb
<1>14. h.stream[Main] = main /\ h.version = hist.version /\ IsPast(h)
       /\ \A x \in DOMAIN mem.branches \ {new} : h.stream[x] = hist.stream[x]
  BY <1>3, <1>6, StreamAssumption DEF Rewritten, Stream
<1>15. FilesTell(d, h)
  <2>1. ActiveTold(d.active, d.branches)
    BY <1>3, <1>8, <1>10, <1>11 DEF ActiveTold, Put
  <2> QED BY <1>2, <1>10, <1>13, <1>14, <2>1 DEF FilesTell
<1>16. HubTells(m, h)
  <2> DEFINE trees == mem.trees
             br == mem.branches
             br2 == m.branches
             tails == mem.tails
             st == hist.stream
             st2 == h.stream
  <2>1. /\ TreesTold(trees, br, tails, st)
        /\ \A x \in DOMAIN br \ {new} : x \in DOMAIN br2 /\ br2[x] = br[x] /\ tails[x] = tails[x] /\ st2[x] = st[x]
    BY <1>2, <1>8, <1>14 DEF HubTells, Put
  <2> HIDE DEF trees, br, br2, tails, st, st2
  <2>2. TreesTold(Drop(trees, new), br2, tails, st2)
    BY <2>1, TreeDropped
  <2>3. TreesTold(m.trees, m.branches, m.tails, h.stream)
    BY <1>8, <2>2 DEF trees, br2, tails, st2
  <2> QED BY <1>2, <1>8, <1>14, <2>3 DEF HubTells
<1>17. TellsWrites(q, kind) /\ q.mem = m /\ q.disk = d /\ q.hist = h
  <2>1. FilesTell(s.disk, s.hist) /\ HubTells(s.mem, s.hist)
    BY <1>2, <1>9
  <2> QED BY <1>9, <1>15, <2>1, WriteFileTells
<1> HIDE DEF q
<1>18. Tells(q, kind)
  BY <1>15, <1>16, <1>17 DEF Tells
<1> QED BY <1>1, <1>18, PerformTells DEF Kept

LEMMA SetActiveTells ==
  ASSUME NEW p, NEW kind, IsMem(p.mem), IsDisk(p.disk), Tells(p, kind), NEW b, ActiveTold(b, p.disk.branches)
  PROVE  Tells(SetActiveBranch(p, b), kind)
<1> DEFINE m == [p.mem EXCEPT !.active = b]
           d == [p.disk EXCEPT !.active = b]
           h == p.hist
           w == WriteFile(p, m, d, h, p.mem)
<1>1. SetActiveBranch(p, b) = IF p.mem.active = b THEN p ELSE w
  BY DEF SetActiveBranch
<1>2. /\ m.branches = p.mem.branches /\ m.tails = p.mem.tails /\ m.trees = p.mem.trees
      /\ m.room = p.mem.room /\ m.versions = p.mem.versions /\ m.ordinal = p.mem.ordinal
  BY DEF IsMem
<1>3. /\ d.bbase = p.disk.bbase /\ d.branches = p.disk.branches /\ d.blog = p.disk.blog /\ d.active = b
      /\ d.log = p.disk.log /\ d.snap = p.disk.snap /\ d.versions = p.disk.versions
  BY DEF IsDisk
<1> HIDE DEF m, d
<1>4. FilesTell(d, h) /\ HubTells(m, h)
  BY <1>2, <1>3 DEF Tells, FilesTell, HubTells
<1>5. TellsWrites(w, kind) /\ w.mem = m /\ w.disk = d /\ w.hist = h
  <2>1. FilesTell(p.disk, p.hist) /\ HubTells(p.mem, p.hist) /\ TellsWrites(p, kind)
    BY DEF Tells
  <2> HIDE DEF h
  <2> QED BY <1>4, <2>1, WriteFileTells
<1> HIDE DEF w
<1> QED BY <1>1, <1>4, <1>5 DEF Tells

LEMMA ForkFromVersionTells ==
  ASSUME NEW p, NEW kind, Settles(p, kind), Tells(p, kind), NEW new, CleanName(p.mem, p.disk, new),
         NEW version \in DOMAIN p.mem.versions
  PROVE  LET w == ForkFromVersion(p, new, version)
         IN Tells(w, kind) /\ ActiveTold(new, w.disk.branches)
<1> DEFINE v == p.mem.versions[version]
           st == v.state
           r == NewFork(v.seq)
           past == p.hist.version[version]
           main == p.hist.stream[Main]
           based == [p.mem EXCEPT !.bases = Put(p.mem.bases, new, st), !.trees = Drop(p.mem.trees, new)]
           e == [p.disk EXCEPT !.bbase = Put(p.disk.bbase, new, st)]
           q == WriteFile(p, based, e, p.hist, p.mem)
           m == [based EXCEPT !.branches = Put(based.branches, new, r)]
           undone == [based EXCEPT !.bases = Drop(based.bases, new)]
           d == [q.disk EXCEPT !.branches = m.branches]
           h == [p.hist EXCEPT !.stream[new] = past]
           kept == [disk |-> [q.disk EXCEPT !.bbase = Drop(q.disk.bbase, new)], hist |-> p.hist]
           w == WriteOr(q, m, d, h, kept, undone)
           bb == p.disk.bbase
           k == p.mem
           g == p.hist
<1>1. ForkFromVersion(p, new, version) = w
  BY DEF ForkFromVersion
<1>2. /\ Sane(p.disk) /\ Agree(k, p.disk) /\ FilesTell(p.disk, g) /\ HubTells(k, g) /\ TellsWrites(p, kind)
      /\ IsMem(k) /\ IsDisk(p.disk) /\ IsMap(bb)
  BY DEF Settles, Tells, Agree, Sane, SaneStreams
<1>3. /\ StreamsTold(k.branches, p.disk.blog, bb, g.stream) /\ DOMAIN k.branches \subseteq Branch
      /\ DOMAIN k.branches = DOMAIN p.disk.branches /\ ActiveTold(p.disk.active, k.branches)
      /\ VersionsTold(k.versions, g.version) /\ IsPast(g)
  BY <1>2, PlanTold
<1>4. /\ new \in Branch /\ new \in Stream /\ new # Main /\ new \notin DOMAIN k.branches
      /\ p.disk.blog[new] = <<>> /\ new \notin DOMAIN bb /\ p.disk.active # new
  BY StreamAssumption DEF CleanName, Stream
<1>5. past \in Seq(Op) /\ st = Range(past) /\ v.seq = Len(past)
  BY <1>3 DEF VersionsTold, VersionTold
<1>6. ~r.published /\ r.fork = Len(past) /\ r.head = r.fork
  BY <1>5 DEF NewFork
<1> HIDE DEF st, r, past
<1>7. Rewritten(h, g, new, past)
  <2> HIDE DEF g
  <2>1. h = [g EXCEPT !.stream[new] = past]
    BY DEF g
  <2> HIDE DEF h
  <2> QED BY <1>3, <1>4, <1>5, <2>1, PastRewritten
<1> HIDE DEF h
<1>8. /\ IsMem(based) /\ based.branches = k.branches /\ based.tails = k.tails /\ based.trees = Drop(k.trees, new)
      /\ based.room = k.room /\ based.versions = k.versions /\ based.ordinal = k.ordinal
  BY <1>2 DEF IsMem
<1>9. /\ IsDisk(e) /\ e.bbase = Put(bb, new, st) /\ e.branches = p.disk.branches /\ e.blog = p.disk.blog
      /\ e.active = p.disk.active /\ e.log = p.disk.log /\ e.snap = p.disk.snap /\ e.versions = p.disk.versions
  BY <1>2 DEF IsDisk
<1> HIDE DEF based, e
<1>10. /\ m.branches = Put(k.branches, new, r) /\ m.tails = k.tails /\ m.trees = Drop(k.trees, new)
       /\ m.room = k.room /\ m.versions = k.versions /\ m.ordinal = k.ordinal
  BY <1>8 DEF IsMem
<1>11. /\ undone.branches = k.branches /\ undone.tails = k.tails /\ undone.trees = Drop(k.trees, new)
       /\ undone.room = k.room /\ undone.versions = k.versions /\ undone.ordinal = k.ordinal
  BY <1>8 DEF IsMem
<1> HIDE DEF m, undone
<1>12. SameBases(e.bbase, bb, Branch \ {new}) /\ new \in DOMAIN e.bbase /\ e.bbase[new] = st
  BY <1>9 DEF SameBases, Put
<1>13. FilesTell(e, g)
  <2> DEFINE br == p.disk.branches
             bl == p.disk.blog
             bb2 == e.bbase
             z == g.stream
  <2>1. /\ StreamsTold(br, bl, bb, z) /\ z[Main] = z[Main] /\ new \notin DOMAIN br
        /\ \A x \in DOMAIN br \ {new} : SameBranch(x, br, bl, bb2, z, br, bl, bb, z)
    BY <1>2, <1>3, <1>4, <1>12 DEF FilesTell, SameBranch, SameBases
  <2> HIDE DEF br, bl, bb2, z, bb
  <2>2. StreamsTold(br, bl, bb2, z)
    BY <2>1, OthersTold
  <2> QED BY <1>2, <1>9, <2>2 DEF FilesTell, br, bl, bb2, z
<1>14. TellsWrites(q, kind) /\ q.disk = e /\ q.mem = based /\ q.hist = g
  <2> HIDE DEF k, g
  <2>1. FilesTell(p.disk, p.hist) /\ HubTells(p.mem, p.hist)
    BY DEF Tells
  <2>2. q = WriteFile(p, based, e, g, p.mem)
    BY DEF g
  <2> HIDE DEF q
  <2> QED BY <1>2, <1>13, <2>1, <2>2, WriteFileTells
<1> HIDE DEF q
<1>15. /\ d.bbase = e.bbase /\ d.branches = m.branches /\ d.blog = p.disk.blog /\ d.active = p.disk.active
       /\ d.log = p.disk.log /\ d.snap = p.disk.snap /\ d.versions = p.disk.versions
  BY <1>9, <1>14 DEF IsDisk
<1>16. kept.disk = p.disk /\ kept.hist = g
  <2>1. kept.disk = [e EXCEPT !.bbase = Drop(e.bbase, new)]
    BY <1>14
  <2>2. Drop(Put(bb, new, st), new) = bb
    BY <1>2, <1>4, PutDrop
  <2>3. kept.disk = [e EXCEPT !.bbase = bb]
    BY <1>9, <2>1, <2>2
  <2>4. kept.hist = g
    OBVIOUS
  <2> HIDE DEF kept
  <2> QED BY <1>2, <1>9, <2>3, <2>4 DEF IsDisk
<1> HIDE DEF kept, d
<1>17. /\ h.stream[Main] = main /\ h.version = g.version /\ IsPast(h)
       /\ \A x \in DOMAIN k.branches \ {new} : h.stream[x] = g.stream[x]
  BY <1>3, <1>4, <1>7 DEF Rewritten, Stream
<1>18. BranchTold(r, p.disk.blog[new], e.bbase, new, past, main)
  <2>1. Len(past) \in 0 .. Len(past) /\ After(past, Len(past)) = <<>> /\ SubSeq(past, 1, Len(past)) = past
    BY <1>5, WholeCut
  <2> QED BY <1>4, <1>5, <1>6, <1>12, <2>1 DEF BranchTold, TailTold, BaseTold
<1>19. StreamsTold(d.branches, d.blog, d.bbase, h.stream)
  <2> DEFINE br == k.branches
             br2 == m.branches
             bl == p.disk.blog
             bb2 == e.bbase
  <2>1. /\ StreamsTold(br, bl, bb, g.stream) /\ DOMAIN br \subseteq Branch /\ br2 = Put(br, new, r)
        /\ SameBases(bb2, bb, Branch \ {new}) /\ BranchTold(r, bl[new], bb2, new, past, g.stream[Main])
        /\ \A x \in Branch \ {new} : bl[x] = bl[x]
    BY <1>3, <1>10, <1>12, <1>18
  <2> HIDE DEF br, br2, bl, bb, bb2, g
  <2>2. StreamsTold(br2, bl, bb2, h.stream)
    BY <1>3, <1>4, <1>7, <2>1, PointerTold
  <2> QED BY <1>15, <2>2 DEF br2, bl, bb2
<1>20. FilesTell(d, h)
  <2>1. ActiveTold(d.active, d.branches)
    BY <1>3, <1>4, <1>10, <1>15 DEF ActiveTold, Put
  <2> QED BY <1>2, <1>15, <1>17, <1>19, <2>1 DEF FilesTell
<1>21. HubTells(m, h) /\ HubTells(undone, g)
  <2> DEFINE trees == k.trees
             br == k.branches
             br2 == m.branches
             tails == k.tails
             z == g.stream
             z2 == h.stream
  <2>1. /\ TreesTold(trees, br, tails, z)
        /\ \A x \in DOMAIN br \ {new} : x \in DOMAIN br2 /\ br2[x] = br[x] /\ tails[x] = tails[x] /\ z2[x] = z[x]
    BY <1>2, <1>10, <1>17 DEF HubTells, Put
  <2> HIDE DEF trees, br, br2, tails, z, z2
  <2>2. TreesTold(Drop(trees, new), br2, tails, z2)
    BY <2>1, TreeDropped
  <2>3. TreesTold(Drop(trees, new), br, tails, z)
    BY <2>1, TreeDropped
  <2>4. TreesTold(m.trees, m.branches, m.tails, h.stream)
    BY <1>10, <2>2 DEF trees, br2, tails, z2
  <2>5. TreesTold(undone.trees, undone.branches, undone.tails, g.stream)
    BY <1>11, <2>3 DEF trees, br, tails, z
  <2> QED BY <1>2, <1>10, <1>11, <1>17, <2>4, <2>5 DEF HubTells
<1>22. TellsWrites(w, kind) /\ w.mem = m /\ w.disk = d /\ w.hist = h
  <2>1. FilesTell(kept.disk, kept.hist) /\ HubTells(undone, kept.hist)
    BY <1>2, <1>16, <1>21
  <2> HIDE DEF k, g
  <2> QED BY <1>14, <1>20, <2>1, WriteOrTells
<1> HIDE DEF w
<1>23. ActiveTold(new, w.disk.branches)
  BY <1>6, <1>10, <1>15, <1>22 DEF ActiveTold, Put
<1> QED BY <1>1, <1>20, <1>21, <1>22, <1>23 DEF Tells

LEMMA ForkBranchFromVersionTells ==
  ASSUME Kept, Told, Kept', CleanFaults, NEW new \in Branch, NEW version, ForkBranchFromVersion(new, version)
  PROVE  Told'
<1> DEFINE s == Start(mem)
           kind == "fork_version"
           q == ForkFromVersion(s, new, version)
<1>1. Perform(kind, q) /\ CleanName(mem, disk, new) /\ version \in DOMAIN mem.versions
  BY DEF ForkBranchFromVersion, Clean, CleanName, CleanFaults
<1>2. Settles(s, kind) /\ Tells(s, kind) /\ s.mem = mem /\ s.disk = disk
  BY StartSettles, StartTells DEF Kept, Told
<1> HIDE DEF s, kind
<1>3. Tells(q, kind)
  BY <1>1, <1>2, ForkFromVersionTells
<1> HIDE DEF q
<1> QED BY <1>1, <1>3, PerformTells DEF Kept

LEMMA RestoreAsBranchTells ==
  ASSUME Kept, Told, Kept', CleanFaults, NEW new \in Branch, NEW version, RestoreAsBranch(version, new)
  PROVE  Told'
<1> DEFINE s == Start(mem)
           kind == "restore"
           none == {}
           name == <<"restore", new, RoomHead(mem.room)>>
           f == ForkFromVersion(s, new, version)
           c == CaptureMain(f, name, none)
           q == SetActiveBranch(c, new)
<1>1. Perform(kind, q) /\ CleanName(mem, disk, new) /\ version \in DOMAIN mem.versions
  BY DEF RestoreAsBranch, Clean, CleanName, CleanFaults
<1>2. Settles(s, kind) /\ Tells(s, kind) /\ s.mem = mem /\ s.disk = disk
  BY StartSettles, StartTells DEF Kept, Told
<1> HIDE DEF s, kind, name, none
<1>3. Settles(f, kind) /\ Tells(f, kind) /\ ActiveTold(new, f.disk.branches)
  BY <1>1, <1>2, ForkFromVersionSettles, ForkFromVersionTells
<1> HIDE DEF f
<1>4. Settles(c, kind) /\ SameFiles(c.disk, f.disk) /\ Tells(c, kind)
  BY <1>3, CaptureMainSettles, CaptureMainTells
<1> HIDE DEF c
<1>5. ActiveTold(new, c.disk.branches)
  BY <1>3, <1>4 DEF SameFiles
<1>6. IsMem(c.mem) /\ IsDisk(c.disk)
  BY <1>4 DEF Settles, Agree, Sane
<1>7. Tells(q, kind)
  BY <1>4, <1>5, <1>6, SetActiveTells
<1> HIDE DEF q
<1> QED BY <1>1, <1>7, PerformTells DEF Kept

(* The base is replaced under a published branch, or waits for its pointer;*)
(* the pointer, and the end of what the name held before, follow.          *)
LEMMA RepointTells ==
  ASSUME NEW p, NEW kind, Settles(p, kind), Tells(p, kind), NEW b \in Branch,
         b \in DOMAIN p.mem.branches \/ CleanName(p.mem, p.disk, b), p.disk.active # b,
         b \in DOMAIN p.mem.branches /\ ~p.mem.branches[b].published => kind \notin CrashIn,
         NEW past \in Seq(Op), NEW state, state = Range(past), NEW seq
  PROVE  Tells(RepointPublished(p, b, seq, state, past), kind)
<1> DEFINE h == [p.hist EXCEPT !.stream[b] = past]
           live == b \in DOMAIN p.mem.branches
           h0 == IF live THEN h ELSE p.hist
           based == [p.mem EXCEPT !.bases = Put(p.mem.bases, b, state), !.trees = Drop(p.mem.trees, b)]
           e == [p.disk EXCEPT !.bbase = Put(p.disk.bbase, b, state)]
           q == WriteFile(p, based, e, h0, p.mem)
           Restored(bases) == IF b \in DOMAIN p.mem.bases THEN Put(bases, b, p.mem.bases[b]) ELSE Drop(bases, b)
           r == [fork |-> seq, head |-> seq, published |-> TRUE]
           pointed == [based EXCEPT !.branches = Put(based.branches, b, r)]
           d == [q.disk EXCEPT !.branches = pointed.branches]
           kept == [disk |-> [q.disk EXCEPT !.bbase = Restored(q.disk.bbase)], hist |-> p.hist]
           undone == [based EXCEPT !.bases = Restored(based.bases)]
           w == WriteOr(q, pointed, d, h, kept, undone)
           m == [pointed EXCEPT !.tails[b] = <<>>]
           c == [w.disk EXCEPT !.blog[b] = <<>>]
           z == WriteFile(w, m, c, h, m)
           bb == p.disk.bbase
           k == p.mem
           g == p.hist
           main == g.stream[Main]
<1>1. RepointPublished(p, b, seq, state, past) = z
  BY DEF RepointPublished
<1>2. /\ Sane(p.disk) /\ Agree(k, p.disk) /\ FilesTell(p.disk, g) /\ HubTells(k, g) /\ TellsWrites(p, kind)
      /\ IsMem(k) /\ IsDisk(p.disk) /\ IsMap(bb) /\ k.tails \in [Branch -> Seq(Op)]
      /\ p.disk.blog \in [Branch -> Seq(Op)]
      /\ b \in DOMAIN k.bases <=> b \in DOMAIN bb
      /\ b \in DOMAIN k.bases => k.bases[b] = bb[b]
  BY DEF Settles, Tells, Agree, Sane, SaneStreams, StreamsAgree, CleanName
<1>3. /\ StreamsTold(k.branches, p.disk.blog, bb, g.stream) /\ DOMAIN k.branches \subseteq Branch
      /\ DOMAIN k.branches = DOMAIN p.disk.branches /\ ActiveTold(p.disk.active, k.branches)
      /\ IsPast(g)
  BY <1>2, PlanTold
<1>4. b \in Stream /\ b # Main /\ r.published
  BY StreamAssumption DEF Stream
<1>5. Rewritten(h, g, b, past)
  <2> HIDE DEF g
  <2>1. h = [g EXCEPT !.stream[b] = past]
    BY DEF g
  <2> HIDE DEF h
  <2> QED BY <1>3, <1>4, <2>1, PastRewritten
<1> HIDE DEF h, r
<1>6. /\ IsMem(based) /\ based.branches = k.branches /\ based.tails = k.tails /\ based.trees = Drop(k.trees, b)
      /\ based.room = k.room /\ based.versions = k.versions /\ based.ordinal = k.ordinal
  BY <1>2 DEF IsMem
<1>7. /\ IsDisk(e) /\ e.bbase = Put(bb, b, state) /\ e.branches = p.disk.branches /\ e.blog = p.disk.blog
      /\ e.active = p.disk.active /\ e.log = p.disk.log /\ e.snap = p.disk.snap /\ e.versions = p.disk.versions
  BY <1>2 DEF IsDisk
<1>8. Restored(Put(bb, b, state)) = bb
  <2>1. CASE b \in DOMAIN k.bases
    <3>1. b \in DOMAIN bb /\ k.bases[b] = bb[b]
      BY <1>2, <2>1
    <3>2. Put(Put(bb, b, state), b, bb[b]) = bb
      BY <1>2, <3>1, PutBack
    <3> QED BY <2>1, <3>1, <3>2
  <2>2. CASE b \notin DOMAIN k.bases
    <3>1. Drop(Put(bb, b, state), b) = bb
      BY <1>2, <2>2, PutDrop
    <3> QED BY <2>2, <3>1
  <2> QED BY <2>1, <2>2
<1> HIDE DEF based, e, Restored
<1>9. /\ IsMem(pointed) /\ pointed.branches = Put(k.branches, b, r) /\ pointed.tails = k.tails
      /\ pointed.trees = Drop(k.trees, b) /\ pointed.room = k.room /\ pointed.versions = k.versions
      /\ pointed.ordinal = k.ordinal
  BY <1>6 DEF IsMem
<1>10. /\ undone.branches = k.branches /\ undone.tails = k.tails /\ undone.trees = Drop(k.trees, b)
       /\ undone.room = k.room /\ undone.versions = k.versions /\ undone.ordinal = k.ordinal
  BY <1>6 DEF IsMem
<1> HIDE DEF pointed, undone
<1>11. /\ m.branches = Put(k.branches, b, r) /\ m.tails = [k.tails EXCEPT ![b] = <<>>]
       /\ m.trees = Drop(k.trees, b) /\ m.room = k.room /\ m.versions = k.versions /\ m.ordinal = k.ordinal
  BY <1>9 DEF IsMem
<1> HIDE DEF m
<1>12. SameBases(e.bbase, bb, Branch \ {b}) /\ b \in DOMAIN e.bbase /\ e.bbase[b] = state
  BY <1>7 DEF SameBases, Put
<1>13. /\ h.stream[Main] = main /\ h.version = g.version /\ IsPast(h) /\ h.stream[b] = past
       /\ \A x \in DOMAIN k.branches \ {b} : h.stream[x] = g.stream[x]
  BY <1>3, <1>4, <1>5 DEF Rewritten, Stream
<1>14. kind \in CrashIn => FilesTell(e, h0)
  <2> DEFINE br == p.disk.branches
             bl == p.disk.blog
             bb2 == e.bbase
             x1 == g.stream
             x2 == h0.stream
  <2>1. StreamsTold(br, bl, bb, x1) /\ DOMAIN br = DOMAIN k.branches
    BY <1>2, <1>3 DEF FilesTell
  <2>2. /\ x2[Main] = x1[Main] /\ h0.version = g.version /\ IsPast(h0)
        /\ \A x \in DOMAIN br \ {b} : x2[x] = x1[x]
    BY <1>3, <1>13, <2>1
  <2>3. \A x \in DOMAIN br \ {b} : SameBranch(x, br, bl, bb2, x2, br, bl, bb, x1)
    BY <1>3, <1>12, <2>1, <2>2 DEF SameBranch, SameBases
  <2>4. ASSUME kind \in CrashIn, b \in DOMAIN br
        PROVE  BranchTold(br[b], bl[b], bb2, b, x2[b], x2[Main])
    <3>1. k.branches[b].published = br[b].published
      <4>1. IsPointer(br[b]) /\ k.branches[b] = Patched(br[b], TailOf(br, bl, b))
        BY <1>2, <2>4 DEF Sane, SaneStreams, Agree, StreamsAgree
      <4> HIDE DEF br
      <4> QED BY <4>1, PatchedPointer
    <3>2. br[b].published /\ live
      BY <1>3, <2>1, <2>4, <3>1
    <3>3. x2[b] = past
      BY <1>13, <3>2
    <3> QED BY <1>12, <3>2, <3>3 DEF BranchTold
  <2>5. h0.stream = x2
    OBVIOUS
  <2> HIDE DEF br, bl, bb2, bb, x1, x2, h0
  <2>6. ASSUME kind \in CrashIn PROVE StreamsTold(br, bl, bb2, x2)
    BY <2>1, <2>2, <2>3, <2>4, <2>6, OthersTold
  <2>7. h0.stream[Main] = main
    BY <2>2, <2>5 DEF x1
  <2> QED BY <1>2, <1>7, <2>2, <2>5, <2>6, <2>7 DEF FilesTell, br, bl, bb2
<1>15. TellsWrites(q, kind) /\ q.disk = e /\ q.mem = based /\ q.hist = h0
  <2> HIDE DEF k, g, h0
  <2>1. FilesTell(p.disk, p.hist) /\ HubTells(p.mem, p.hist)
    BY DEF Tells
  <2> QED BY <1>2, <1>14, <2>1, WriteFileTells
<1> HIDE DEF q, h0
<1>16. /\ d.bbase = e.bbase /\ d.branches = m.branches /\ d.blog = p.disk.blog /\ d.active = p.disk.active
       /\ d.log = p.disk.log /\ d.snap = p.disk.snap /\ d.versions = p.disk.versions /\ IsDisk(d)
  BY <1>7, <1>9, <1>11, <1>15 DEF IsDisk
<1>17. kept.disk = p.disk /\ kept.hist = g
  <2>1. kept.disk = [e EXCEPT !.bbase = Restored(e.bbase)]
    BY <1>15
  <2>2. Restored(e.bbase) = bb
    BY <1>7, <1>8
  <2>3. kept.disk = [e EXCEPT !.bbase = bb]
    BY <2>1, <2>2
  <2>4. kept.hist = g
    OBVIOUS
  <2> HIDE DEF kept
  <2> DEFINE x == p.disk
             v == x.bbase
  <2>5. kept.disk = [e EXCEPT !.bbase = v] /\ e = [x EXCEPT !.bbase = Put(x.bbase, b, state)] /\ IsDisk(x)
    BY <1>2, <2>3 DEF e
  <2>6. kept.disk = x
    <3> HIDE DEF x
    <3> QED BY <2>5 DEF IsDisk
  <2> QED BY <2>4, <2>6
<1> HIDE DEF kept, d
<1>18. ASSUME NEW bl2, \A x \in Branch \ {b} : bl2[x] = p.disk.blog[x]
       PROVE  StreamsTold(m.branches, bl2, e.bbase, h.stream)
  <2> DEFINE br == k.branches
             br2 == m.branches
             bl == p.disk.blog
             bb2 == e.bbase
  <2>1. BranchTold(r, bl2[b], bb2, b, past, main)
    BY <1>4, <1>12 DEF BranchTold
  <2>2. /\ StreamsTold(br, bl, bb, g.stream) /\ DOMAIN br \subseteq Branch /\ br2 = Put(br, b, r)
        /\ SameBases(bb2, bb, Branch \ {b}) /\ BranchTold(r, bl2[b], bb2, b, past, g.stream[Main])
        /\ \A x \in Branch \ {b} : bl2[x] = bl[x]
    BY <1>3, <1>11, <1>12, <1>18, <2>1
  <2> HIDE DEF br, br2, bl, bb, bb2, g
  <2>3. StreamsTold(br2, bl2, bb2, h.stream)
    BY <1>3, <1>5, <2>2, PointerTold
  <2> QED BY <2>3 DEF br2, bb2
<1>19. ActiveTold(p.disk.active, m.branches)
  BY <1>3, <1>11 DEF ActiveTold, Put
<1>20. FilesTell(d, h)
  <2>1. StreamsTold(m.branches, d.blog, e.bbase, h.stream)
    BY <1>16, <1>18
  <2> QED BY <1>2, <1>13, <1>16, <1>19, <2>1 DEF FilesTell
<1>21. HubTells(m, h) /\ HubTells(undone, g)
  <2> DEFINE trees == k.trees
             br == k.branches
             br2 == m.branches
             tails == k.tails
             tails2 == m.tails
             z1 == g.stream
             z2 == h.stream
  <2>1. /\ TreesTold(trees, br, tails, z1)
        /\ \A x \in DOMAIN br \ {b} : x \in DOMAIN br2 /\ br2[x] = br[x] /\ tails2[x] = tails[x] /\ z2[x] = z1[x]
        /\ \A x \in DOMAIN br \ {b} : x \in DOMAIN br /\ br[x] = br[x] /\ tails[x] = tails[x] /\ z1[x] = z1[x]
    BY <1>2, <1>3, <1>11, <1>13 DEF HubTells, Put
  <2> HIDE DEF trees, br, br2, tails, tails2, z1, z2
  <2>2. TreesTold(Drop(trees, b), br2, tails2, z2)
    BY <2>1, TreeDropped
  <2>3. TreesTold(Drop(trees, b), br, tails, z1)
    BY <2>1, TreeDropped
  <2>4. TreesTold(m.trees, m.branches, m.tails, h.stream)
    BY <1>11, <2>2 DEF trees, br2, tails2, z2
  <2>5. TreesTold(undone.trees, undone.branches, undone.tails, g.stream)
    BY <1>10, <2>3 DEF trees, br, tails, z1
  <2> QED BY <1>2, <1>10, <1>11, <1>13, <2>4, <2>5 DEF HubTells
<1>22. TellsWrites(w, kind) /\ w.disk = d /\ w.hist = h
  <2>1. FilesTell(kept.disk, kept.hist) /\ HubTells(undone, kept.hist)
    BY <1>2, <1>17, <1>21
  <2> HIDE DEF k, g
  <2> QED BY <1>15, <1>20, <2>1, WriteOrTells
<1> HIDE DEF w
<1>23. /\ c.bbase = e.bbase /\ c.branches = m.branches /\ c.active = p.disk.active
       /\ c.log = p.disk.log /\ c.snap = p.disk.snap /\ c.versions = p.disk.versions
       /\ \A x \in Branch \ {b} : c.blog[x] = p.disk.blog[x]
  BY <1>2, <1>16, <1>22 DEF IsDisk
<1> HIDE DEF c
<1>24. FilesTell(c, h)
  <2>1. StreamsTold(m.branches, c.blog, e.bbase, h.stream)
    BY <1>18, <1>23
  <2> QED BY <1>2, <1>13, <1>19, <1>23, <2>1 DEF FilesTell
<1>25. TellsWrites(z, kind) /\ z.mem = m /\ z.disk = c /\ z.hist = h
  <2>1. FilesTell(w.disk, w.hist) /\ HubTells(m, w.hist)
    BY <1>20, <1>21, <1>22
  <2> QED BY <1>22, <1>24, <2>1, WriteFileTells
<1> HIDE DEF z
<1> QED BY <1>1, <1>21, <1>24, <1>25 DEF Tells

(* What is published is the whole history of the active branch.            *)
LEMMA SourceTold ==
  ASSUME Kept, Told, NEW state \in Materialized(mem, mem.active)
  PROVE  LET past == hist.stream[mem.active]
         IN past \in Seq(Op) /\ state = Range(past) /\ StreamHead(mem, mem.active) = Len(past)
<1> DEFINE source == mem.active
           past == hist.stream[source]
<1>1. HubTold(mem, hist)
  BY HubIsTold DEF Kept, Told
<1>2. source \in DOMAIN mem.branches \union {Main} /\ DOMAIN mem.branches \subseteq Branch /\ Main \notin Branch
  BY <1>1, StreamAssumption DEF Kept, Agree, StreamsAgree, HubTold
<1>3. past \in Seq(Op)
  BY <1>1, <1>2 DEF HubTold, IsPast, Stream
<1>4. CASE source = Main
  <2> DEFINE room == mem.room
  <2>1. RoomTold(room, past) /\ room.seen = Range(past)
    BY <1>1, <1>4 DEF HubTold
  <2>2. state = room.seen /\ StreamHead(mem, source) = RoomHead(room)
    BY <1>4 DEF Materialized, StreamHead
  <2> HIDE DEF room, past
  <2>3. RoomHead(room) = Len(past)
    BY <1>3, <2>1, RoomServes
  <2> QED BY <1>3, <2>1, <2>2, <2>3 DEF past
<1>5. CASE source # Main
  <2>1. source \in DOMAIN mem.branches /\ ~mem.branches[source].published
    BY <1>1, <1>2, <1>5 DEF HubTold, ActiveTold
  <2>2. state \in {t.doc : t \in StreamTree(mem, source)} /\ StreamHead(mem, source) = mem.branches[source].head
    BY <1>5 DEF Materialized, StreamHead
  <2>3. {t.doc : t \in StreamTree(mem, source)} = FoldStream(mem, source)
    BY <1>1, <2>1, TreeServes
  <2>4. FoldStream(mem, source) = {Range(past)} \/ FoldStream(mem, source) = {}
    BY <1>1, <2>1, FoldTold
  <2>5. mem.branches[source].head = Len(past)
    BY <1>1, <2>1, BranchServes
  <2> QED BY <1>3, <2>2, <2>3, <2>4, <2>5
<1> QED BY <1>4, <1>5

LEMMA PublishTells ==
  ASSUME Kept, Told, Kept', CleanFaults, Tracked, NEW b \in Branch, Publish(b)
  PROVE  Told'
<1> DEFINE source == mem.active
           read == IF source = Main THEN mem ELSE ReadTree(mem, source)
           seq == StreamHead(mem, source)
           past == hist.stream[source]
           kind == IF b \in DOMAIN mem.branches /\ ~mem.branches[b].published
                   THEN "publish_over" ELSE "publish"
           name == <<"publish", b, source, seq>>
           none == {}
           s == Start(read)
<1>1. PICK state \in Materialized(mem, source) :
         Perform(kind, RepointPublished(CaptureVersion(s, name, none, seq, state, past), b, seq, state, past))
  BY DEF Publish
<1>2. (b \in DOMAIN mem.branches \/ CleanName(mem, disk, b)) /\ source # b
  BY DEF Publish, Clean, CleanName, CleanFaults
<1>3. disk.active # b
  BY <1>2 DEF Kept, Agree, StreamsAgree, CleanName
<1>4. b \in DOMAIN mem.branches /\ ~mem.branches[b].published => kind \notin CrashIn
  BY DEF Tracked
<1>5. Agree(read, disk) /\ SameStreams(read, mem)
  BY ReadAgrees DEF Kept, SameStreams
<1>6. HubTells(read, hist)
  <2>1. source \in DOMAIN mem.branches \union {Main}
    BY DEF Kept, Agree, StreamsAgree
  <2> QED BY <2>1, ReadTells DEF Told
<1>7. past \in Seq(Op) /\ state = Range(past) /\ seq = Len(past)
  BY <1>1, SourceTold
<1> DEFINE c == CaptureVersion(s, name, none, seq, state, past)
           q == RepointPublished(c, b, seq, state, past)
<1>8. Perform(kind, q)
  BY <1>1
<1> HIDE DEF source, read, seq, past, kind, name, none
<1>9. Settles(s, kind) /\ Tells(s, kind) /\ s.mem = read /\ s.disk = disk
  BY <1>5, <1>6, StartSettles, StartTells DEF Told
<1> HIDE DEF s
<1>10. Settles(c, kind) /\ Tells(c, kind) /\ SameStreams(c.mem, s.mem) /\ SameFiles(c.disk, s.disk)
  BY <1>7, <1>9, CaptureSettles, CaptureTells
<1> HIDE DEF c
<1>11. /\ b \in DOMAIN c.mem.branches \/ CleanName(c.mem, c.disk, b)
       /\ c.disk.active # b
       /\ b \in DOMAIN c.mem.branches /\ ~c.mem.branches[b].published => kind \notin CrashIn
  BY <1>2, <1>3, <1>4, <1>5, <1>9, <1>10 DEF SameStreams, SameFiles, CleanName
<1>12. Tells(q, kind)
  BY <1>7, <1>10, <1>11, RepointTells
<1> HIDE DEF q
<1> QED BY <1>8, <1>12, PerformTells DEF Kept

LEMMA DeleteBranchTells ==
  ASSUME Kept, Told, Kept', CleanFaults, NEW b \in Branch, DeleteBranch(b)
  PROVE  Told'
<1> DEFINE gone == [mem EXCEPT !.branches = Drop(mem.branches, b)]
           m == [gone EXCEPT !.tails[b] = <<>>, !.bases = Drop(gone.bases, b), !.trees = Drop(gone.trees, b)]
           none == <<>>
           h == [hist EXCEPT !.stream[b] = none]
           s == Start(mem)
           d1 == [s.disk EXCEPT !.branches = gone.branches]
           p == WriteFile(s, gone, d1, h, s.mem)
           d2 == [p.disk EXCEPT !.blog[b] = <<>>]
           q == WriteFile(p, m, d2, h, m)
           d3 == [q.disk EXCEPT !.bbase = Drop(q.disk.bbase, b)]
           r == WriteFile(q, m, d3, h, m)
           kind == "delete"
           bl == disk.blog
           bb == disk.bbase
           main == hist.stream[Main]
<1>1. Perform(kind, IF mem.active = b THEN SetActiveBranch(r, Main) ELSE r) /\ b \in DOMAIN mem.branches
  BY DEF DeleteBranch, WriteBranches
<1>2. /\ Sane(disk) /\ Agree(mem, disk) /\ FilesTell(disk, hist) /\ HubTells(mem, hist)
      /\ IsMem(mem) /\ IsDisk(disk) /\ kind \notin FailIn /\ bl \in [Branch -> Seq(Op)]
      /\ mem.tails \in [Branch -> Seq(Op)]
  BY DEF Kept, Told, Sane, SaneStreams, Agree, StreamsAgree, CleanFaults
<1>3. /\ StreamsTold(mem.branches, bl, bb, hist.stream)
      /\ DOMAIN mem.branches \subseteq Branch /\ ActiveTold(disk.active, mem.branches)
      /\ IsPast(hist)
  BY <1>2, PlanTold
<1>4. b \in Stream /\ b # Main /\ Main \in Stream /\ Main \notin Branch /\ none \in Seq(Op)
      /\ \A x \in Branch : x \in Stream
  BY StreamAssumption DEF Stream
<1> HIDE DEF none
<1>5. Rewritten(h, hist, b, none)
  BY <1>3, <1>4, PastRewritten
<1>6. TellsWrites(s, kind) /\ s.mem = mem /\ s.disk = disk /\ s.hist = hist
  BY StartTells
<1> HIDE DEF s, h, kind
<1>7. /\ IsMem(gone) /\ gone.branches = Drop(mem.branches, b) /\ gone.tails = mem.tails
      /\ gone.trees = mem.trees /\ gone.room = mem.room /\ gone.versions = mem.versions
      /\ gone.ordinal = mem.ordinal
  BY <1>2 DEF IsMem
<1> HIDE DEF gone
<1>8. /\ IsMem(m) /\ m.branches = Drop(mem.branches, b) /\ m.trees = Drop(mem.trees, b)
      /\ m.tails = [mem.tails EXCEPT ![b] = <<>>]
      /\ m.room = mem.room /\ m.versions = mem.versions /\ m.ordinal = mem.ordinal
  BY <1>7 DEF IsMem
<1> HIDE DEF m
<1>9. /\ h.stream[Main] = main /\ h.version = hist.version /\ IsPast(h)
      /\ \A x \in DOMAIN mem.branches \ {b} : h.stream[x] = hist.stream[x]
  BY <1>3, <1>4, <1>5 DEF Rewritten
<1>10. /\ DOMAIN m.branches = DOMAIN mem.branches \ {b}
       /\ \A x \in DOMAIN m.branches : m.branches[x] = mem.branches[x]
  BY <1>8 DEF Drop, Restrict
<1>11. HubTells(m, h)
  <2> DEFINE trees == mem.trees
             br == mem.branches
             br2 == m.branches
             tails == mem.tails
             tails2 == m.tails
             z1 == hist.stream
             z2 == h.stream
  <2>1. /\ TreesTold(trees, br, tails, z1)
        /\ \A x \in DOMAIN br \ {b} : x \in DOMAIN br2 /\ br2[x] = br[x] /\ tails2[x] = tails[x] /\ z2[x] = z1[x]
    BY <1>2, <1>3, <1>8, <1>9, <1>10 DEF HubTells
  <2> HIDE DEF trees, br, br2, tails, tails2, z1, z2
  <2>2. TreesTold(Drop(trees, b), br2, tails2, z2)
    BY <2>1, TreeDropped
  <2>3. TreesTold(m.trees, m.branches, m.tails, h.stream)
    BY <1>8, <2>2 DEF trees, br2, tails2, z2
  <2> QED BY <1>2, <1>8, <1>9, <2>3 DEF HubTells
<1>12. ASSUME NEW e, e.branches = m.branches, \A x \in Branch \ {b} : e.blog[x] = bl[x],
              SameBases(e.bbase, bb, Branch \ {b}), e.active = disk.active,
              e.log = disk.log, e.snap = disk.snap, e.versions = disk.versions
       PROVE  FilesTell(e, h)
  <2> DEFINE br == mem.branches
             br2 == e.branches
             bl2 == e.blog
             bb2 == e.bbase
             z1 == hist.stream
             z2 == h.stream
  <2>1. /\ StreamsTold(br, bl, bb, z1) /\ z2[Main] = z1[Main] /\ b \notin DOMAIN br2
        /\ \A x \in DOMAIN br2 \ {b} : SameBranch(x, br2, bl2, bb2, z2, br, bl, bb, z1)
    BY <1>3, <1>9, <1>10, <1>12 DEF SameBranch, SameBases
  <2> HIDE DEF br, br2, bl, bb, bl2, bb2, z1, z2
  <2>2. StreamsTold(br2, bl2, bb2, z2)
    BY <2>1, OthersTold
  <2>3. ActiveTold(e.active, e.branches)
    BY <1>3, <1>10, <1>12 DEF ActiveTold
  <2> QED BY <1>2, <1>9, <1>12, <2>2, <2>3 DEF FilesTell, br2, bl2, bb2, z2
<1>13. /\ IsDisk(d1) /\ d1.branches = m.branches /\ d1.blog = bl /\ d1.bbase = bb /\ d1.active = disk.active
       /\ d1.log = disk.log /\ d1.snap = disk.snap /\ d1.versions = disk.versions
  BY <1>2, <1>6, <1>7, <1>8 DEF IsDisk
<1> HIDE DEF d1
<1>14. FilesTell(d1, h)
  BY <1>12, <1>13 DEF SameBases
<1>15. TellsWrites(p, kind) /\ p.disk = d1
  BY <1>2, <1>6, <1>14, WriteFileTells
<1> HIDE DEF p
<1>16. /\ IsDisk(d2) /\ d2.branches = m.branches /\ d2.bbase = bb /\ d2.active = disk.active
       /\ d2.log = disk.log /\ d2.snap = disk.snap /\ d2.versions = disk.versions
       /\ \A x \in Branch \ {b} : d2.blog[x] = bl[x]
  BY <1>2, <1>13, <1>15 DEF IsDisk
<1> HIDE DEF d2
<1>17. FilesTell(d2, h)
  BY <1>12, <1>16 DEF SameBases
<1>18. TellsWrites(q, kind) /\ q.disk = d2
  BY <1>2, <1>15, <1>17, WriteFileTells
<1> HIDE DEF q
<1>19. /\ IsDisk(d3) /\ d3.branches = m.branches /\ d3.bbase = Drop(bb, b) /\ d3.active = disk.active
       /\ d3.log = disk.log /\ d3.snap = disk.snap /\ d3.versions = disk.versions
       /\ \A x \in Branch \ {b} : d3.blog[x] = bl[x]
  BY <1>16, <1>18 DEF IsDisk
<1> HIDE DEF d3
<1>20. FilesTell(d3, h)
  <2>1. SameBases(d3.bbase, bb, Branch \ {b})
    BY <1>19 DEF SameBases, Drop, Restrict
  <2> QED BY <1>12, <1>19, <2>1
<1>21. TellsWrites(r, kind) /\ r.disk = d3 /\ r.mem = m /\ r.hist = h
  BY <1>2, <1>18, <1>20, WriteFileTells
<1> HIDE DEF r
<1>22. Tells(r, kind) /\ IsMem(r.mem) /\ IsDisk(r.disk) /\ ActiveTold(Main, r.disk.branches)
  BY <1>3, <1>4, <1>8, <1>10, <1>11, <1>19, <1>20, <1>21 DEF Tells, ActiveTold
<1>23. Tells(SetActiveBranch(r, Main), kind)
  BY <1>22, SetActiveTells
<1>24. Perform(kind, SetActiveBranch(r, Main)) \/ Perform(kind, r)
  BY <1>1
<1> QED BY <1>22, <1>23, <1>24, PerformTells DEF Kept

LEMMA InitTold ==
  ASSUME Init
  PROVE  Told
<1>1. IsMap(Empty) /\ DOMAIN Empty = {}
  BY DEF Empty, Restrict, IsMap
<1>2. /\ IsPast(hist) /\ hist.stream[Main] = <<>> /\ hist.version = Empty
      /\ disk.snap = {} /\ disk.log = <<>> /\ disk.branches = Empty /\ disk.versions = Empty
      /\ mem.room.base = 0 /\ mem.room.log = <<>> /\ mem.versions = Empty /\ mem.ordinal = 0 /\ mem.trees = Empty
  BY DEF Init, IsPast, Stream, EmptyRoom
<1>3. /\ 0 \in 0 .. Len(<<>>) /\ SubSeq(<<>>, 1, 0) = <<>> /\ After(<<>>, 0) = <<>> /\ Range(<<>>) = {}
      /\ IsInjective(<<>>) /\ Cardinality({}) = 0
  BY FS_EmptySet DEF After, Range, IsInjective
<1>4. MainTold({}, <<>>, <<>>)
  BY <1>3 DEF MainTold, Floor
<1>5. VersionsTold(Empty, Empty) /\ Below(Empty, 0)
  BY <1>1 DEF VersionsTold, Below, Distinct
<1>6. FilesTell(disk, hist)
  BY <1>1, <1>2, <1>4, <1>5 DEF FilesTell, StreamsTold, ActiveTold
<1>7. HubTells(mem, hist)
  BY <1>1, <1>2, <1>3, <1>5 DEF HubTells, RoomTold, TreesTold
<1> QED BY <1>6, <1>7 DEF Told

LEMMA NextTells ==
  ASSUME Kept, Told, Kept', CleanFaults, Tracked, [Next]_vars
  PROVE  Told'
<1>1. CASE UNCHANGED vars
  BY <1>1 DEF vars, Told
<1>2. CASE Restart
  BY <1>2, RestartTells
<1>3. ASSUME NEW b, ReadStream(b) PROVE Told'
  <2>1. disk' = disk /\ hist' = hist /\ mem' = ReadTree(mem, b) /\ HubTells(ReadTree(mem, b), hist)
    BY <1>3, ReadTells DEF ReadStream
  <2> QED BY <2>1 DEF Told
<1>4. CASE \E ops \in Batches(Main) : IngestOps(ops)
  BY <1>4, IngestTells
<1>5. CASE \E b \in Branch : \E ops \in Batches(b) : IngestBranch(b, ops)
  BY <1>5, IngestBranchTells
<1>6. CASE \E state \in SUBSET {o \in Op : Author[o] = Main} \ {{}} : ImportRoom(state)
  BY <1>6, ImportTells
<1>7. CASE \E b \in Branch : \/ \E s \in ForkFrom : ForkBranch(b, s)
                             \/ \E v \in DOMAIN mem.versions : \/ ForkBranchFromVersion(b, v)
                                                               \/ RestoreAsBranch(v, b)
                             \/ Publish(b)
                             \/ DeleteBranch(b)
  <2>1. \A s \in ForkFrom : s = Main
    BY DEF Tracked
  <2> QED BY <1>7, <2>1, ForkBranchTells, ForkBranchFromVersionTells, RestoreAsBranchTells, PublishTells,
             DeleteBranchTells
<1>8. CASE \/ CompactRoom
           \/ \E n \in Name : CreateVersion(n)
           \/ \E t \in Tick : AutoVersion(t)
           \/ \E v \in DOMAIN mem.versions : DeleteVersion(v) \/ \E n \in Name : RenameVersion(v, n)
  BY <1>8, CompactTells, CreateVersionTells, AutoVersionTells, DeleteVersionTells, RenameVersionTells
<1> QED BY <1>1, <1>2, <1>3, <1>4, <1>5, <1>6, <1>7, <1>8 DEF Next

(* Kept and Told together are inductive, and imply both properties.        *)
LEMMA ToldAlways ==
  ASSUME CleanFaults, Tracked
  PROVE  Spec => [](ServesHistory /\ VersionsFaithful)
<1>1. Init => Kept /\ Told
  BY InitKept, InitTold
<1>2. Kept /\ Told /\ [Next]_vars => Kept' /\ Told'
  BY NextKeeps, NextTells
<1>3. Kept /\ Told => ServesHistory /\ VersionsFaithful
  BY HubIsTold, TellsServes DEF Kept, Told
<1> QED BY <1>1, <1>2, <1>3, PTL DEF Spec

(* Whatever was compacted, imported, captured, restored, published and     *)
(* deleted, and whatever crash or undone failure fell between two writes:  *)
(* a reader of any stream at any cursor is served exactly the ops it lacks,*)
(* or is refused below the compaction floor; a published branch reads as   *)
(* the state last published; a cached tree answers like a fresh fold.      *)
THEOREM HistoryServed ==
  ASSUME CleanFaults, Tracked
  PROVE  Spec => []ServesHistory
<1>1. Spec => [](ServesHistory /\ VersionsFaithful)
  BY ToldAlways
<1> QED BY <1>1, PTL

(* A named version holds the ops its stream had when it was captured, at   *)
(* the sequence it had, through renames, evictions, restarts and failed    *)
(* writes; and no two captures ever share an ordinal.                      *)
THEOREM VersionsSafe ==
  ASSUME CleanFaults, Tracked
  PROVE  Spec => []VersionsFaithful
<1>1. Spec => [](ServesHistory /\ VersionsFaithful)
  BY ToldAlways
<1> QED BY <1>1, PTL
=============================================================================
