----------------------------- MODULE Membership -----------------------------
(***************************************************************************)
(* Who each node of a cluster thinks is a member, is alive, and may hold   *)
(* rooms (crates/server/src/membership.rs, gossip.rs, placement.rs).  A    *)
(* node dials one peer per gossip round, pushes its view and merges the    *)
(* view it gets back.  Missed rounds turn a member Suspect, then Dead,     *)
(* then reaped; a member that hears it is doubted raises its incarnation.  *)
(* Rooms are placed on adopted members only: the configured ones, and      *)
(* those that enough adopted members have themselves dialed.               *)
(*                                                                         *)
(* A round is three steps (push, answer, merge), with anything in between. *)
(***************************************************************************)
EXTENDS Integers, FiniteSets, Functions, SequencesExt

CONSTANTS
    Node,            \* node ids, which are their dial addresses
    Seeds,           \* the peers each node is configured with
    Acquainted,      \* <<n, m>>: n has dialed m, and told everyone, to begin with
    Unit,            \* the host of each node: one trust unit
    Identified,      \* the nodes whose dial proves who answered
    Weight,          \* the room's rendezvous order over all nodes, best first
    ReplicationFactor,
    SuspectAfter,    \* failed probes before Suspect
    DeadAfter,       \* failed probes before Dead
    ReapAfter,       \* sweeps a member stays Dead before it is reaped
    Verifiers,       \* adopted trust units that must have dialed a member
    IndirectProbes,  \* relays asked when a direct probe fails
    Prompt,          \* whether gossip outruns the reap and tombstone clocks
    Mortal,          \* the nodes that may crash
    MaxRounds,       \* bound on the gossip rounds under way at once
    MaxFaults        \* bound on crashes and lost exchanges

ASSUME MembershipAssumption ==
    /\ IsFiniteSet(Node)
    /\ Seeds \in [Node -> SUBSET Node]
    /\ Acquainted \subseteq Node \X Identified
    /\ Identified \subseteq Node
    /\ Range(Weight) = Node
    /\ Prompt \in BOOLEAN
    /\ {SuspectAfter, DeadAfter, ReapAfter, Verifiers, IndirectProbes, MaxFaults} \subseteq Nat

VARIABLES
    view,     \* each node's membership
    up,       \* the nodes that run
    round,    \* the gossip round each node has under way
    linked,   \* history: <<n, m>> when n dialed m and learned who it is
    faults    \* crashes and lost exchanges so far

vars == <<view, up, round, linked, faults>>

(* MemberState, in the order in which one overrides another.               *)
Alive == 0
Suspect == 1
Dead == 2

Heard(incarnation, state) ==
    [incarnation |-> incarnation, state |-> state, failed |-> 0, deadTicks |-> 0]

(* Membership::new: the configured members are alive and adopted.          *)
Configured(n) ==
    LET members == {n} \union Seeds[n]
    IN [live |-> [m \in members |-> Heard(0, Alive)],
        configured |-> members,
        verifiers |-> [m \in Node |-> {}],
        reaped |-> {},
        relayDown |-> {}]

Roster(v) == DOMAIN v.live

IsLive(v, n, m) ==
    n = m \/ (m \notin v.relayDown /\ (m \in Roster(v) => v.live[m].state # Dead))

(* What a node says of each member it knows, with its own links marked.    *)
KnownLiveness(v, n) ==
    [m \in Roster(v) |-> [incarnation |-> v.live[m].incarnation,
                          state |-> IF m = n THEN Alive ELSE v.live[m].state,
                          verified |-> n \in v.verifiers[m]]]

-----------------------------------------------------------------------------
(***************************************************************************)
(* Adoption and placement.                                                 *)
(***************************************************************************)

Solitary(n) == Seeds[n] \ {n} = {}

AdoptionBar(n) == IF Solitary(n) THEN 1 ELSE Verifiers

(* The hosts of the adopted members that dialed m, but m's own.            *)
VerifierUnits(v, m, adopted) ==
    {Unit[k] : k \in v.verifiers[m] \intersect adopted} \ {Unit[m]}

(* Derived from scratch: adopting a member makes its own links count.      *)
Adopted(v, n) ==
    LET Grow[k \in 0..Cardinality(Node)] ==
            IF k = 0 THEN v.configured
            ELSE LET sofar == Grow[k - 1]
                 IN sofar \union
                    {m \in Roster(v) :
                       Cardinality(VerifierUnits(v, m, sofar)) >= AdoptionBar(n)}
    IN Grow[Cardinality(Node)]

(* A node configured with peers that has adopted none places nothing.      *)
Ring(v, n) ==
    LET adopted == Adopted(v, n)
        stranded == ~Solitary(n) /\ Cardinality(adopted) = 1
    IN IF stranded THEN {} ELSE adopted

(* The room's replicas: the heaviest members of the ring.                  *)
ReplicasFor(v, n) ==
    LET ranked == SelectSeq(Weight, LAMBDA m : m \in Ring(v, n))
    IN SubSeq(ranked, 1, IF Len(ranked) < ReplicationFactor THEN Len(ranked)
                         ELSE ReplicationFactor)

(* The first live replica, as a set of at most one node.                   *)
EffectivePrimary(v, n) ==
    LET live == SelectSeq(ReplicasFor(v, n), LAMBDA m : IsLive(v, n, m))
    IN IF live = <<>> THEN {} ELSE {Head(live)}

-----------------------------------------------------------------------------
(***************************************************************************)
(* Updates of one node's view.                                             *)
(***************************************************************************)

(* A direct link is evidence about a member of the roster, not about self. *)
CanBeVerified(v, n, m) == m # n /\ m \in Roster(v)

NoteVerified(v, n, m) ==
    IF CanBeVerified(v, n, m) /\ m \in Identified
    THEN [v EXCEPT !.verifiers[m] = @ \union {n}] ELSE v

NoteReachable(v, n, m) ==
    IF m # n /\ m \in Roster(v)
    THEN [v EXCEPT !.live[m].failed = 0, !.live[m].state = Alive, !.live[m].deadTicks = 0]
    ELSE v

NoteUnreachable(v, n, m) ==
    LET failed == v.live[m].failed + 1
    IN IF m = n \/ m \notin Roster(v) \/ v.live[m].state = Dead THEN v
       ELSE [v EXCEPT !.live[m].failed = failed,
                      !.live[m].state = CASE failed >= DeadAfter -> Dead
                                          [] failed >= SuspectAfter /\ failed < DeadAfter -> Suspect
                                          [] OTHER -> @]

(* Mutant of RefuteIfStale: answers only news above its own incarnation.   *)
RefuteIfStaleLate(me, said) ==
    IF said.incarnation > me.incarnation THEN Heard(said.incarnation + 1, Alive) ELSE me

(* A node that hears it is doubted, or of a later self, outbids it.        *)
RefuteIfStale(me, said) ==
    IF \/ said.incarnation > me.incarnation
       \/ said.incarnation = me.incarnation /\ said.state # Alive
    THEN [me EXCEPT !.incarnation = said.incarnation + 1, !.state = Alive, !.failed = 0]
    ELSE me

(* A later incarnation wins; at the same one the worse state does.         *)
Fresher(known, said) ==
    IF said.incarnation > known.incarnation THEN Heard(said.incarnation, said.state)
    ELSE IF said.incarnation = known.incarnation /\ said.state > known.state
         THEN [known EXCEPT !.state = said.state]
         ELSE known

(* A tombstoned member comes back only with news that it is alive.         *)
Admits(v, m, said) == m \in v.reaped => said.state = Alive

(* Mutant of MergeLiveness: takes the claims for whoever they are about.   *)
MergeLivenessRelayed(v, n, sender, said) ==
    LET heard == {m \in DOMAIN said \ {n} : Admits(v, m, said[m])}
        live == [m \in Roster(v) \union heard |->
                    IF m \notin Roster(v) THEN Heard(said[m].incarnation, said[m].state)
                    ELSE IF m \in heard THEN Fresher(v.live[m], said[m]) ELSE v.live[m]]
    IN [v EXCEPT !.live = live, !.reaped = @ \ heard,
                 !.verifiers = [m \in Node |-> @[m] \union (IF m \in heard THEN {sender} ELSE {})]]

(* Merge what sender says.  A claim to have dialed a member is recorded    *)
(* against the sender, if both are on the roster once the news is merged.  *)
MergeLiveness(v, n, sender, said) ==
    LET heard == {m \in DOMAIN said \ {n} : Admits(v, m, said[m])}
        live == [m \in Roster(v) \union heard |->
                    IF m = n THEN IF n \in DOMAIN said THEN RefuteIfStale(v.live[n], said[n])
                                  ELSE v.live[n]
                    ELSE IF m \notin Roster(v) THEN Heard(said[m].incarnation, said[m].state)
                    ELSE IF m \in heard THEN Fresher(v.live[m], said[m]) ELSE v.live[m]]
        merged == [v EXCEPT !.live = live, !.reaped = @ \ heard]
        claimed == {m \in DOMAIN said \ {sender} :
                      said[m].verified /\ sender \in Identified /\ CanBeVerified(merged, n, m)}
    IN IF CanBeVerified(merged, n, sender)
       THEN [merged EXCEPT !.verifiers =
                [m \in Node |-> IF m \in claimed THEN @[m] \union {sender} ELSE @[m]]]
       ELSE merged

(* A reaped member leaves every table, and its word with it.               *)
Reap(v, gone) ==
    [v EXCEPT !.reaped = @ \union gone,
              !.live = Restrict(@, DOMAIN @ \ gone),
              !.configured = @ \ gone,
              !.relayDown = @ \ gone,
              !.verifiers = [m \in Node |-> IF m \in gone THEN {} ELSE @[m] \ gone]]

-----------------------------------------------------------------------------
(***************************************************************************)
(* Actions.                                                                *)
(***************************************************************************)

Idle == [stage |-> "idle"]

(* A cluster that has just started, or one that has run undisturbed.       *)
Init ==
    /\ view = [n \in Node |->
          [Configured(n) EXCEPT !.verifiers =
             [m \in Node |-> {k \in ({n} \union Seeds[n]) \ {m} :
                                <<k, m>> \in Acquainted /\ m \in Seeds[n] \ {n}}]]]
    /\ up = Node
    /\ round = [n \in Node |-> Idle]
    /\ linked = Acquainted
    /\ faults = 0

(* The gossip loop snapshots the view and dials a random known peer.       *)
StartRound(n, peer) ==
    /\ n \in up
    /\ round[n] = Idle
    /\ Cardinality({k \in Node : round[k] # Idle}) < MaxRounds
    /\ peer \in Roster(view[n]) \ {n}
    /\ round' = [round EXCEPT ![n] = [stage |-> "push", peer |-> peer,
                                      sent |-> KnownLiveness(view[n], n)]]
    /\ UNCHANGED <<view, up, linked, faults>>

(* The peer takes news of members it knows, lets the dialer introduce      *)
(* itself and nobody else, and answers with its merged view.               *)
ApplyGossip(n) ==
    LET peer == round[n].peer
        known == Roster(view[peer]) \union {n}
        said == Restrict(round[n].sent, DOMAIN round[n].sent \intersect known)
        merged == MergeLiveness(view[peer], peer, n, said)
    IN /\ round[n].stage = "push"
       /\ peer \in up
       /\ view' = [view EXCEPT ![peer] = merged]
       /\ round' = [round EXCEPT ![n] = [stage |-> "pull", peer |-> peer, sent |-> @.sent,
                                         reply |-> KnownLiveness(merged, peer)]]
       /\ UNCHANGED <<up, linked, faults>>

(* A direct success: the peer is alive and verified, then its view merges. *)
FinishRound(n) ==
    LET peer == round[n].peer
        noted == NoteVerified(NoteReachable(view[n], n, peer), n, peer)
    IN /\ round[n].stage = "pull"
       /\ view' = [view EXCEPT ![n] = MergeLiveness(noted, n, peer, round[n].reply)]
       /\ linked' = linked \union {<<n, peer>>}
       /\ round' = [round EXCEPT ![n] = Idle]
       /\ UNCHANGED <<up, faults>>

(* Some relay that answered knows the peer and holds it live.              *)
ProbeOutcome(asked, answering, peer) ==
    \E r \in asked \intersect answering :
        peer \in Roster(view[r]) /\ IsLive(view[r], r, peer)

(* The direct exchange failed at either half: ask relays, then count it.   *)
(* An exchange lost between running nodes is a fault.                      *)
FailRound(n) ==
    LET peer == round[n].peer
        eligible == {r \in DOMAIN round[n].sent \ {n, peer} : round[n].sent[r].state # Dead}
        enough == IF Cardinality(eligible) < IndirectProbes THEN Cardinality(eligible)
                  ELSE IndirectProbes
    IN /\ round[n] # Idle
       /\ \E asked \in SUBSET eligible : \E answering \in SUBSET (asked \intersect up) :
             LET lost == peer \in up \/ answering # asked \intersect up
             IN /\ Cardinality(asked) = enough
                /\ lost => faults < MaxFaults
                /\ faults' = IF lost THEN faults + 1 ELSE faults
                /\ view' = [view EXCEPT ![n] =
                              IF ProbeOutcome(asked, answering, peer)
                              THEN NoteReachable(@, n, peer) ELSE NoteUnreachable(@, n, peer)]
       /\ round' = [round EXCEPT ![n] = Idle]
       /\ UNCHANGED <<up, linked>>

(* Frames under way and the views of running nodes other than m itself.    *)
Spoken(m) ==
    {view[k].live : k \in up \ {m}} \union
    UNION {{round[k].sent} : k \in {j \in up \ {m} : round[j] # Idle}} \union
    UNION {{round[k].reply} : k \in {j \in up : round[j].stage = "pull" /\ round[j].peer # m}}

(* The reap clock is thirty sweeps, the tombstone's three hundred, and a   *)
(* gossip round one: by then a member that runs has been heard from, all   *)
(* have heard of one that does not, and later nobody speaks of it.         *)
AllHeardDead(m) ==
    m \notin up /\ \A said \in Spoken(m) : m \in DOMAIN said => said[m].state = Dead
NobodySpeaks(m) == \A said \in Spoken(m) : m \notin DOMAIN said

(* One sweep: tombstones age and are pruned, the dead age and are reaped.  *)
Sweep(n) ==
    LET v == view[n]
        pruned == {m \in v.reaped : Prompt => NobodySpeaks(m)}
        aged == {m \in Roster(v) \ {n} : v.live[m].state = Dead}
        gone == {m \in aged : v.live[m].deadTicks + 1 >= ReapAfter /\ (Prompt => AllHeardDead(m))}
        ticked == [v EXCEPT !.reaped = @ \ pruned,
                            !.live = [m \in Roster(v) |->
                               IF m \in aged /\ v.live[m].deadTicks + 1 < ReapAfter
                               THEN [v.live[m] EXCEPT !.deadTicks = @ + 1] ELSE v.live[m]]]
    IN /\ n \in up
       /\ view' = [view EXCEPT ![n] = Reap(ticked, gone)]
       /\ UNCHANGED <<up, round, linked, faults>>

(* The replication link to a configured peer: a dial that fails, or a      *)
(* socket that drops, marks it down; one that opens clears the mark.       *)
RelayDown(n, m) ==
    /\ n \in up
    /\ m \in Seeds[n] \ ({n} \union view[n].relayDown)
    /\ m \in up => faults < MaxFaults
    /\ faults' = IF m \in up THEN faults + 1 ELSE faults
    /\ view' = [view EXCEPT ![n].relayDown = @ \union {m}]
    /\ UNCHANGED <<up, round, linked>>

RelayUp(n, m) ==
    /\ {n, m} \subseteq up
    /\ m \in view[n].relayDown
    /\ view' = [view EXCEPT ![n].relayDown = @ \ {m}]
    /\ UNCHANGED <<up, round, linked, faults>>

(* A node's membership lives in memory: a restart is configured anew.      *)
Crash(n) ==
    /\ n \in up \intersect Mortal
    /\ faults < MaxFaults
    /\ faults' = faults + 1
    /\ up' = up \ {n}
    /\ view' = [view EXCEPT ![n] = Configured(n)]
    /\ round' = [round EXCEPT ![n] = Idle]
    /\ UNCHANGED linked

Restart(n) ==
    /\ n \notin up
    /\ up' = up \union {n}
    /\ UNCHANGED <<view, round, linked, faults>>

Next ==
    \E n \in Node :
        \/ \E m \in Node : StartRound(n, m) \/ RelayDown(n, m) \/ RelayUp(n, m)
        \/ ApplyGossip(n)
        \/ FinishRound(n)
        \/ FailRound(n)
        \/ Sweep(n)
        \/ Crash(n)
        \/ Restart(n)

(* A round under way ends: answered, or timed out on a peer that is gone.  *)
EndRound(n) ==
    \/ ApplyGossip(n)
    \/ FinishRound(n)
    \/ round[n] # Idle /\ round[n].peer \notin up /\ FailRound(n)

(* The dialer of each replication link finds out where it stands.          *)
Redial(n) == \E m \in Node : RelayUp(n, m) \/ (m \notin up /\ RelayDown(n, m))

(* Rounds end by themselves or time out; the random choice of peers        *)
(* reaches each of them again and again; redials never stop.               *)
(* Nothing is lost, and nobody crashes or restarts, out of fairness.       *)
Fairness ==
    \A n \in Node :
        /\ WF_vars(EndRound(n))
        /\ WF_vars(Redial(n))
        /\ \A m \in Node \ {n} : SF_vars(StartRound(n, m))

Spec == Init /\ [][Next]_vars /\ Fairness

-----------------------------------------------------------------------------
(***************************************************************************)
(* Properties.                                                             *)
(***************************************************************************)

(* Every voucher a node counts is first-hand: the voucher dialed the       *)
(* member itself and learned who answered, whoever passed on its name; and *)
(* so a member that is not configured is placed on the word of as many     *)
(* trust units, other than its own, as adoption asks for.                  *)
AdoptedFirstHand ==
    \A n \in up :
        LET adopted == Adopted(view[n], n)
        IN \A m \in adopted \ view[n].configured :
              LET links == {k \in adopted : <<k, m>> \in linked}
              IN Cardinality({Unit[k] : k \in links} \ {Unit[m]}) >= AdoptionBar(n)

(* Once the faults are over, every running node settles on the same leader *)
(* and that leader runs: a crashed member is given up by all, one falsely  *)
(* given up, or restarted and long reaped, is taken back by all.           *)
OneLeader == <>[](\E l \in up : \A n \in up : EffectivePrimary(view[n], n) = {l})

(* A member that is gone is in time held live by no running node: the      *)
(* liveness of every member, one learned after boot too, converges.        *)
GoneIsNoticed ==
    \A m \in Node : <>[](m \notin up) =>
        <>[](\A n \in up : m \in Roster(view[n]) => ~IsLive(view[n], n, m))

=============================================================================
