----------------------------- MODULE Awareness ------------------------------
(***************************************************************************)
(* The ephemeral presence of one room: what the hub retains per client     *)
(* (crates/server/src/lib.rs), how the registry fans it out, times it out  *)
(* and gives a departed client a grace (crates/server/src/registry.rs,     *)
(* session.rs), and what each client session shows of it                   *)
(* (crates/core/src/client.rs).                                            *)
(*                                                                         *)
(* An actor may hold presence through several clients, and a client may    *)
(* be back on a new connection while the server has not yet noticed that   *)
(* the old one is dead.  Time is kept as ages: each is counted up to the   *)
(* point past which no rule distinguishes it.                              *)
(***************************************************************************)
EXTENDS Integers, Sequences, FiniteSets, SequencesExt, FiniteSetsExt, Functions

CONSTANTS
    Client, Key, Value,
    ActorOf,             \* [Client -> actor], who a client authenticates as
    AppOf, VersionOf,    \* the app a client declares and its schema version, 0 for a relay
    Ttl(_, _, _),        \* an app's version and a key to its time to live, or Never
    Throttle(_, _, _),   \* the coalesce window of a key, 0 for none
    Grace,               \* ticks a departed client's presence is kept
    MaxKeys,             \* keys one client may hold
    Forever,             \* an age past every window
    Budgets              \* bounds: who is in the room at first and which app bound
                         \* it, whose sessions are watched, the keys and values
                         \* published, and how often each client may dial, publish,
                         \* and lose or leave its connection

Never == Forever

ASSUME AwarenessAssumption ==
    /\ Forever \in Nat /\ Grace \in 1..Forever
    /\ IsFiniteSet(Client)
    /\ AppOf \in [Client -> Nat] /\ VersionOf \in [Client -> Nat]
    /\ \A c \in {x \in Client : VersionOf[x] > 0}, k \in Key :
        /\ Ttl(AppOf[c], VersionOf[c], k) \in 0..Never
        /\ Throttle(AppOf[c], VersionOf[c], k) \in 0..Forever

(* The app that governs at first is that of a client with a schema, at no  *)
(* lower a version than those of its clients in the room.                  *)
ASSUME BudgetsAssumption ==
    \A b \in Budgets :
        /\ b \in [here : SUBSET Client, watch : SUBSET Client, app : Nat \X Nat,
                   keys : SUBSET Key, values : SUBSET Value, dials : [Client -> Nat],
                   sets : [Client -> Nat], drops : [Client -> Nat]]
        /\ b.app # <<0, 0>> => \E c \in Client : VersionOf[c] > 0 /\ b.app = <<AppOf[c], VersionOf[c]>>
        /\ \A c \in b.here : VersionOf[c] > 0 =>
              b.app # <<0, 0>> /\ (AppOf[c] = b.app[1] => VersionOf[c] <= b.app[2])

VARIABLES
    presence,   \* the hub's entries: <<client, key>> to the actor, value and ages
    stale,      \* departed clients to the ticks left of their grace
    roomApp,    \* the app and version that govern the room while it is live
    governing,  \* the hub's own record of them
    phase,      \* [Client -> how far the connection's handshake is]
    old,        \* [Client -> the connection it left and the server still holds]
    outbox,     \* [Client -> frames queued to its connection]
    view,       \* [Client -> what its session shows: <<actor, key>> to a value]
    resumed,    \* clients whose connection resumed a session that showed something
    budget      \* what is left of the bounds

vars == <<presence, stale, roomApp, governing, phase, old, outbox, view, resumed, budget>>

NoApp == <<0, 0>>
NoConn == [phase |-> "off", sent |-> <<>>]
Empty == [x \in {} |-> x]

(* f with x at e, and f over what it leaves of g.                          *)
Put(f, x, e) == [y \in DOMAIN f \union {x} |-> IF y = x THEN e ELSE f[y]]
Over(f, g) == [y \in DOMAIN f \union DOMAIN g |-> IF y \in DOMAIN f THEN f[y] ELSE g[y]]

Declared(c) == <<AppOf[c], VersionOf[c]>>
Enforcing(c) == VersionOf[c] > 0

Init ==
    /\ budget \in Budgets
    /\ presence = Empty /\ stale = Empty
    /\ roomApp = budget.app /\ governing = budget.app
    /\ phase = [c \in Client |-> IF c \in budget.here THEN "joined" ELSE "off"]
    /\ old = [c \in Client |-> NoConn]
    /\ outbox = [c \in Client |-> <<>>]
    /\ view = [c \in Client |-> Empty]
    /\ resumed = {}

Authed == {c \in Client : phase[c] \in {"authed", "joined"} \/ old[c].phase \in {"authed", "joined"}}
Joined == {c \in Client : phase[c] = "joined"}
Holds(c) == \E k \in Key : <<c, k>> \in DOMAIN presence
Older(age) == Min({age + 1, Forever})

-----------------------------------------------------------------------------
(***************************************************************************)
(* The hub's entries.                                                      *)
(***************************************************************************)
ThrottleNow(k) == IF roomApp = NoApp THEN 0 ELSE Throttle(roomApp[1], roomApp[2], k)

Broadcasts(c, k) ==
    <<c, k>> \in DOMAIN presence => presence[<<c, k>>].quiet >= ThrottleNow(k)

(* Mutant of SetAwareness: a coalesced update becomes the stored value.    *)
SetAwarenessCoalesced(c, k, v) ==
    presence' = Put(presence, <<c, k>>,
                    [actor |-> ActorOf[c], value |-> v, silent |-> 0,
                     quiet |-> IF Broadcasts(c, k) THEN 0 ELSE presence[<<c, k>>].quiet])

(* An update inside the coalesce window only refreshes the entry's last    *)
(* sight.                                                                  *)
SetAwareness(c, k, v) ==
    presence' = IF Broadcasts(c, k)
        THEN Put(presence, <<c, k>>, [actor |-> ActorOf[c], value |-> v, silent |-> 0, quiet |-> 0])
        ELSE [presence EXCEPT ![<<c, k>>].silent = 0]

(* A new key past the cap is neither stored nor sent.                      *)
Capped(c, k) ==
    /\ <<c, k>> \notin DOMAIN presence
    /\ Cardinality({j \in Key : <<c, j>> \in DOMAIN presence}) >= MaxKeys

HeldIn(p) == {<<p[x].actor, x[2]>> : x \in DOMAIN p}

Keep(p, kept) == [x \in kept |-> p[x]]

(* clear_client_awareness: all of a client's entries go; the actor's       *)
(* presence is cleared as a whole unless another of its clients is still   *)
(* here, and then only the keys no other client holds.                     *)
Cleared(p, c) == Keep(p, {x \in DOMAIN p : x[1] # c})

Removals(p, c) ==
    LET rest == Cleared(p, c)
        mine == {x \in DOMAIN p : x[1] = c}
    IN IF mine = {} THEN <<>>
       ELSE IF \E x \in DOMAIN rest : rest[x].actor = ActorOf[c]
       THEN SetToSeq({[type |-> "clear key", actor |-> ActorOf[c], key |-> x[2]] :
                        x \in {y \in mine : <<ActorOf[c], y[2]>> \notin HeldIn(rest)}})
       ELSE <<[type |-> "clear", actor |-> ActorOf[c]]>>

(* Mutant of Expired: a removal is sent though a sibling holds the key.    *)
ExpiredAlways(p, q) ==
    SetToSeq({[type |-> "clear key", actor |-> p[x].actor, key |-> x[2]] : x \in DOMAIN p \ DOMAIN q})

(* expire_silent_awareness: a removal per key no surviving client holds.   *)
Audible(p, app) ==
    Keep(p, {x \in DOMAIN p : app = NoApp \/ p[x].silent <= Ttl(app[1], app[2], x[2])})

Expired(p, q) ==
    SetToSeq({[type |-> "clear key", actor |-> a[1], key |-> a[2]] : a \in HeldIn(p) \ HeldIn(q)})

-----------------------------------------------------------------------------
(***************************************************************************)
(* Which app's schema governs the room: the first to bind it, at the       *)
(* highest version seen while the room is live.                            *)
(***************************************************************************)
Lifted(app, c) == IF app[1] = AppOf[c] THEN <<app[1], Max({app[2], VersionOf[c]})>> ELSE app

BindRoomApp(c) ==
    IF Enforcing(c)
    THEN LET incumbent == IF roomApp # NoApp THEN roomApp ELSE governing
             bound == IF incumbent = NoApp THEN Declared(c) ELSE Lifted(incumbent, c)
         IN roomApp' = bound /\ governing' = bound
    ELSE UNCHANGED <<roomApp, governing>>

Sessions == {c \in Client : phase[c] = "joined" \/ old[c].phase = "joined"}

PickApp(present) ==
    LET apps == {AppOf[c] : c \in present}
        app == Min(apps)
    IN <<app, Max({VersionOf[c] : c \in {x \in present : AppOf[x] = app}})>>

(* Mutant of ReconcileRoomApps: the version follows who is present.        *)
ReconcileLowering(p) ==
    LET present == {c \in Sessions : Enforcing(c)} IN
    IF Sessions = {} /\ DOMAIN p = {} THEN NoApp
    ELSE IF present = {} THEN roomApp
    ELSE PickApp(present)

(* A room without subscriber or presence loses its live binding; the       *)
(* version of one that has either is never lowered.                        *)
ReconcileRoomApps(p) ==
    LET present == {c \in Sessions : Enforcing(c)} IN
    IF Sessions = {} /\ DOMAIN p = {} THEN NoApp
    ELSE IF roomApp # NoApp
    THEN <<roomApp[1], Max({roomApp[2]} \union {VersionOf[c] : c \in {x \in present : AppOf[x] = roomApp[1]}})>>
    ELSE IF present # {} THEN PickApp(present) ELSE NoApp

-----------------------------------------------------------------------------
(***************************************************************************)
(* Connections.  A dropped one stays with the server, what its client had  *)
(* sent on it unread, until the server notices.                            *)
(***************************************************************************)
FanOut(frames, skipped) ==
    outbox' = [c \in Client |-> IF c \in (Joined \intersect budget.watch) \ skipped THEN outbox[c] \o frames ELSE outbox[c]]

Dial(c, fresh) ==
    /\ phase[c] = "off"
    /\ budget.dials[c] > 0
    /\ phase' = [phase EXCEPT ![c] = "hello"]
    /\ view' = IF fresh THEN [view EXCEPT ![c] = Empty] ELSE view
    /\ budget' = [budget EXCEPT !.dials[c] = @ - 1]
    /\ UNCHANGED <<presence, stale, roomApp, governing, old, outbox, resumed>>

(* A client that is back within its grace keeps its presence.              *)
Returned(c) == stale' = Keep(stale, DOMAIN stale \ {c})

Authenticate(c) ==
    /\ phase[c] = "hello"
    /\ phase' = [phase EXCEPT ![c] = "authed"]
    /\ Returned(c)
    /\ UNCHANGED <<presence, roomApp, governing, old, outbox, view, resumed, budget>>

(* The entries are replayed in no particular order, so where two clients   *)
(* of one actor hold a key either value may be the last.                   *)
Replays ==
    LET values == [a \in HeldIn(presence) |->
            {presence[x].value : x \in {y \in DOMAIN presence : <<presence[y].actor, y[2]>> = a}}]
    IN {f \in [HeldIn(presence) -> Value] : \A a \in HeldIn(presence) : f[a] \in values[a]}

Subscribe(c) ==
    /\ phase[c] = "authed"
    /\ phase' = [phase EXCEPT ![c] = "joined"]
    /\ \E f \in Replays : outbox' = [outbox EXCEPT ![c] =
            IF c \in budget.watch THEN <<[type |-> "replay", shown |-> f]>> ELSE <<>>]
    /\ resumed' = IF view[c] = Empty THEN resumed \ {c} ELSE resumed \union {c}
    /\ BindRoomApp(c)
    /\ Returned(c)
    /\ UNCHANGED <<presence, old, view, budget>>

(* The client gives the channel up; its presence stays.                    *)
Unsubscribe(c) ==
    /\ phase[c] = "joined"
    /\ budget.drops[c] > 0
    /\ phase' = [phase EXCEPT ![c] = "authed"]
    /\ outbox' = [outbox EXCEPT ![c] = <<>>]
    /\ view' = [view EXCEPT ![c] = Empty]
    /\ budget' = [budget EXCEPT !.drops[c] = @ - 1]
    /\ UNCHANGED <<presence, stale, roomApp, governing, old, resumed>>

(* The handler of an AwarenessSet; the connection it arrived on is not     *)
(* told.                                                                   *)
ServeSet(c, k, v, origin) ==
    /\ IF Capped(c, k) THEN UNCHANGED presence ELSE SetAwareness(c, k, v)
    /\ FanOut(IF ~Capped(c, k) /\ Broadcasts(c, k)
                 THEN <<[type |-> "update", actor |-> ActorOf[c], key |-> k, value |-> v]>> ELSE <<>>,
              origin)
    /\ Returned(c)

Set(c, k, v) ==
    /\ phase[c] = "joined"
    /\ budget.sets[c] > 0
    /\ ServeSet(c, k, v, {c})
    /\ budget' = [budget EXCEPT !.sets[c] = @ - 1]
    /\ UNCHANGED <<roomApp, governing, phase, old, view, resumed>>

Drop(c, sent) ==
    /\ phase[c] # "off"
    /\ old[c] = NoConn
    /\ budget.drops[c] > 0
    /\ sent # <<>> => phase[c] = "joined" /\ budget.sets[c] > 0
    /\ old' = [old EXCEPT ![c] = [phase |-> phase[c], sent |-> sent]]
    /\ phase' = [phase EXCEPT ![c] = "off"]
    /\ outbox' = [outbox EXCEPT ![c] = <<>>]
    /\ budget' = [budget EXCEPT !.drops[c] = @ - 1, !.sets[c] = @ - Len(sent)]
    /\ UNCHANGED <<presence, stale, roomApp, governing, view, resumed>>

(* The server reads on what came on a connection its client has left.      *)
LateSet(c) ==
    /\ old[c].sent # <<>>
    /\ ServeSet(c, Head(old[c].sent)[1], Head(old[c].sent)[2], {})
    /\ old' = [old EXCEPT ![c].sent = Tail(@)]
    /\ UNCHANGED <<roomApp, governing, phase, view, resumed, budget>>

(* Mutant of Disconnect: the closing connection counts as holding the      *)
(* presence, so no grace ever starts.                                      *)
DisconnectHeld(c) ==
    /\ old[c] # NoConn
    /\ old' = [old EXCEPT ![c] = NoConn]
    /\ stale' = IF c \notin Authed /\ Holds(c) THEN Put(stale, c, Grace) ELSE stale
    /\ UNCHANGED <<presence, roomApp, governing, phase, outbox, view, resumed, budget>>

(* The grace starts unless another connection of the client is in force.   *)
Disconnect(c) ==
    /\ old[c] # NoConn
    /\ old' = [old EXCEPT ![c] = NoConn]
    /\ stale' = IF /\ old[c].phase \in {"authed", "joined"}
                   /\ phase[c] \notin {"authed", "joined"}
                   /\ Holds(c)
                 THEN Put(stale, c, Grace) ELSE stale
    /\ UNCHANGED <<presence, roomApp, governing, phase, outbox, view, resumed, budget>>

-----------------------------------------------------------------------------
(***************************************************************************)
(* The sweep: the clients past their grace are cleared one by one, the     *)
(* room's binding is reconciled, and the silent entries expire under it.   *)
(***************************************************************************)
Due == {c \in DOMAIN stale : stale[c] = 0}

ClearNext(s, c) == [left |-> Cleared(s.left, c), frames |-> s.frames \o Removals(s.left, c)]

ClearDue(order) ==
    LET after[n \in 0..Len(order)] ==
            IF n = 0 THEN [left |-> presence, frames |-> <<>>] ELSE ClearNext(after[n - 1], order[n])
    IN after[Len(order)]

(* The room is held, so the hub keeps its record of the governing app.     *)
Sweep ==
    \E order \in SetToSeqs(Due) : \E cleared \in {ClearDue(order)} :
    \E app \in {ReconcileRoomApps(cleared.left)} : \E audible \in {Audible(cleared.left, app)} :
        /\ presence' = audible
        /\ stale' = Keep(stale, DOMAIN stale \ Due)
        /\ roomApp' = app
        /\ FanOut(cleared.frames \o Expired(cleared.left, audible), {})
        /\ UNCHANGED <<governing, phase, old, view, resumed, budget>>

Tick ==
    /\ presence' = [x \in DOMAIN presence |->
            [presence[x] EXCEPT !.silent = Older(@), !.quiet = Older(@)]]
    /\ stale' = [c \in DOMAIN stale |-> Max({stale[c] - 1, 0})]
    /\ UNCHANGED <<roomApp, governing, phase, old, outbox, view, resumed, budget>>

-----------------------------------------------------------------------------
(***************************************************************************)
(* What a client session shows.                                            *)
(***************************************************************************)
Shown(v, m) ==
    CASE m.type = "replay" -> Over(m.shown, v)
      [] m.type = "update" -> Put(v, <<m.actor, m.key>>, m.value)
      [] m.type = "clear key" -> Keep(v, DOMAIN v \ {<<m.actor, m.key>>})
      [] m.type = "clear" -> Keep(v, {a \in DOMAIN v : a[1] # m.actor})

Receive(c) ==
    /\ outbox[c] # <<>>
    /\ view' = [view EXCEPT ![c] = Shown(@, Head(outbox[c]))]
    /\ outbox' = [outbox EXCEPT ![c] = Tail(@)]
    /\ UNCHANGED <<presence, stale, roomApp, governing, phase, old, resumed, budget>>

Next ==
    \/ \E c \in Client :
        \/ \E fresh \in BOOLEAN : Dial(c, fresh)
        \/ Authenticate(c) \/ Subscribe(c) \/ Unsubscribe(c)
        \/ \E k \in budget.keys, v \in budget.values : Set(c, k, v)
        \/ \E sent \in {<<>>} \union {<<s>> : s \in budget.keys \X budget.values} : Drop(c, sent)
        \/ LateSet(c) \/ Disconnect(c) \/ Receive(c)
    \/ Sweep \/ Tick

(* Time passes, the sweep is an interval of the runtime's loop, and what   *)
(* is queued to a live connection is delivered.                            *)
Spec ==
    /\ Init /\ [][Next]_vars
    /\ WF_vars(Tick) /\ WF_vars(Sweep)
    /\ WF_vars(\E c \in Client : Receive(c))

-----------------------------------------------------------------------------
(* The keys of each actor that clients other than c hold.                  *)
HeldBeside(c) == HeldIn(Keep(presence, {x \in DOMAIN presence : x[1] # c}))

Settled(c) == c \in Joined \intersect budget.watch /\ outbox[c] = <<>>

(* A session that has read all it was sent shows the presence others hold, *)
(* and nothing that is not held, whichever of an actor's clients came,     *)
(* fell silent or left (lib.rs, expire_silent_awareness and                *)
(* clear_client_awareness).  One that resumed with entries on show may     *)
(* keep what was cleared while it was away.                                *)
HoldsPresence(c) ==
    /\ HeldBeside(c) \subseteq DOMAIN view[c]
    /\ c \notin resumed => DOMAIN view[c] \subseteq HeldIn(presence)

(* It shows each with the value a joiner is replayed (lib.rs,              *)
(* set_awareness): a throttled update changes neither.  Of an actor with   *)
(* several clients the last to arrive shows, and this is not claimed.      *)
ShowsValues(c) ==
    \A x \in DOMAIN presence :
        x[1] # c /\ (\A d \in Client : ActorOf[d] = ActorOf[x[1]] => d = x[1]) =>
            view[c][<<presence[x].actor, x[2]>>] = presence[x].value

(* Whatever came, fell silent or left, a session up to date shows what the *)
(* hub holds and what a session joining now would show.                    *)
PresenceAgrees == \A c \in Client : Settled(c) => HoldsPresence(c) /\ ShowsValues(c)

(* An entry goes when its client has been away for the whole grace, or     *)
(* silent for longer than the schema in force allows, and that is never an *)
(* older one of its app than its own, even where only clients of an older  *)
(* version remain (registry.rs, sweep and reconcile_room_apps).            *)
DroppedForCause ==
    [][\A x \in DOMAIN presence \ DOMAIN presence' :
        \/ x[1] \in Due /\ x[1] \notin Authed
        \/ /\ roomApp' # NoApp
           /\ presence[x].silent > Ttl(roomApp'[1], roomApp'[2], x[2])
           /\ AppOf[x[1]] = roomApp'[1] => VersionOf[x[1]] <= roomApp'[2]]_vars

(* The presence of a client that is gone and stays away is gone from every *)
(* session that watches the room, unless another client of its actor holds *)
(* it (registry.rs, disconnect and sweep).                                 *)
Forgotten(c) ==
    \A d \in Joined \ resumed : \A a \in DOMAIN view[d] : a[1] = ActorOf[c] => a \in HeldBeside(c)

GhostsGo == \A c \in Client : c \notin Authed ~> (c \in Authed \/ Forgotten(c))
=============================================================================
