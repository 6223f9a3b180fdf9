-------------------------- MODULE MembershipProofs --------------------------
(* Placement rests on first-hand evidence, for any cluster, any trust      *)
(* units and any number of rounds, losses, crashes and reaps.              *)
EXTENDS Membership, FiniteSetTheorems, TLAPS

Fields == {"live", "configured", "verifiers", "reaped", "relayDown"}

IsView(v) == DOMAIN v = Fields /\ v = [f \in DOMAIN v |-> v[f]]

(* A view as the node keeps it: its tables are about nodes of the cluster. *)
Shaped(v) ==
    /\ IsView(v)
    /\ DOMAIN v.live \subseteq Node
    /\ v.verifiers \in [Node -> SUBSET Node]

(* Every voucher recorded in a view has dialed the member it vouches for.  *)
Vouched(v, links) == \A m \in Node : \A k \in v.verifiers[m] : <<k, m>> \in links

Sound(v, links) == Shaped(v) /\ Vouched(v, links)

(* Whoever says it has dialed a member, has.                               *)
Truthful(said, n, links) ==
    DOMAIN said \subseteq Node /\ \A m \in DOMAIN said : said[m].verified => <<n, m>> \in links

RoundTruthful(r, n, links) ==
    /\ r # Idle => r.peer \in Node /\ Truthful(r.sent, n, links)
    /\ r.stage = "pull" => Truthful(r.reply, r.peer, links)

FirstHand ==
    /\ view = [n \in Node |-> view[n]]
    /\ round = [n \in Node |-> round[n]]
    /\ linked \subseteq Node \X Node
    /\ up \subseteq Node
    /\ \A n \in Node : Sound(view[n], linked)
    /\ \A n \in Node : RoundTruthful(round[n], n, linked)
-----------------------------------------------------------------------------
(***************************************************************************)
(* What each update of a view does to the vouchers in it.                  *)
(***************************************************************************)
(* An update that keeps the vouchers, or drops some.                       *)
LEMMA SoundWith ==
  ASSUME NEW v, NEW links, Sound(v, links), NEW w, IsView(w), DOMAIN w.live \subseteq Node,
         w.verifiers \in [Node -> SUBSET Node],
         \A m \in Node : \A k \in w.verifiers[m] : k \in v.verifiers[m] \/ <<k, m>> \in links
  PROVE  Sound(w, links)
  BY DEF Sound, Shaped, Vouched

LEMMA SoundMore ==
  ASSUME NEW v, NEW links, Sound(v, links), NEW more, links \subseteq more
  PROVE  Sound(v, more)
  BY DEF Sound, Vouched

LEMMA TruthfulMore ==
  ASSUME NEW said, NEW n, NEW links, Truthful(said, n, links), NEW more, links \subseteq more
  PROVE  Truthful(said, n, more)
  BY DEF Truthful

LEMMA ConfiguredSound ==
  ASSUME NEW n \in Node, NEW links
  PROVE  Sound(Configured(n), links)
<1>1. IsView(Configured(n))
  BY DEF Configured, IsView, Fields
<1>2. DOMAIN Configured(n).live \subseteq Node
  BY MembershipAssumption DEF Configured
<1>3. Configured(n).verifiers = [m \in Node |-> {}]
  BY DEF Configured
<1> QED BY <1>1, <1>2, <1>3 DEF Sound, Shaped, Vouched

LEMMA NoteReachableSound ==
  ASSUME NEW v, NEW links, Sound(v, links), NEW n, NEW m
  PROVE  Sound(NoteReachable(v, n, m), links)
<1> DEFINE w == [v EXCEPT !.live[m].failed = 0, !.live[m].state = Alive, !.live[m].deadTicks = 0]
<1>1. Shaped(v) /\ IsView(v)
  BY DEF Sound, Shaped
<1>2. IsView(w)
  BY <1>1, Zenon DEF IsView
<1>3. w.verifiers = v.verifiers
  BY <1>1, Zenon DEF IsView, Fields
<1>4. DOMAIN w.live = DOMAIN v.live
  BY <1>1, Zenon DEF IsView, Fields
<1> HIDE DEF w
<1>5. Sound(w, links)
  BY <1>1, <1>2, <1>3, <1>4, SoundWith DEF Shaped
<1> QED BY <1>5 DEF NoteReachable, w

LEMMA NoteUnreachableSound ==
  ASSUME NEW v, NEW links, Sound(v, links), NEW n, NEW m
  PROVE  Sound(NoteUnreachable(v, n, m), links)
<1> DEFINE failed == v.live[m].failed + 1
           counted == [v EXCEPT !.live[m].failed = failed]
           state == CASE failed >= DeadAfter -> Dead
                      [] failed >= SuspectAfter /\ failed < DeadAfter -> Suspect
                      [] OTHER -> counted.live[m].state
           w == [v EXCEPT !.live[m].failed = failed, !.live[m].state = state]
<1>1. NoteUnreachable(v, n, m) = v \/ NoteUnreachable(v, n, m) = w
  BY Zenon DEF NoteUnreachable
<1> HIDE DEF state
<1>2. Shaped(v) /\ IsView(v)
  BY DEF Sound, Shaped
<1>3. IsView(w)
  BY <1>2, Zenon DEF IsView
<1>4. w.verifiers = v.verifiers
  BY <1>2, Zenon DEF IsView, Fields
<1>5. DOMAIN w.live = DOMAIN v.live
  BY <1>2, Zenon DEF IsView, Fields
<1> HIDE DEF w
<1>6. Sound(w, links)
  BY <1>2, <1>3, <1>4, <1>5, SoundWith DEF Shaped
<1> QED BY <1>1, <1>6

(* A node vouches for a peer it has just dialed.                           *)
LEMMA NoteVerifiedSound ==
  ASSUME NEW v, NEW links, Sound(v, links), NEW n \in Node, NEW m \in Node, <<n, m>> \in links
  PROVE  Sound(NoteVerified(v, n, m), links)
<1> DEFINE w == [v EXCEPT !.verifiers[m] = @ \union {n}]
<1>1. Shaped(v) /\ IsView(v)
  BY DEF Sound, Shaped
<1>2. IsView(w)
  BY <1>1, Zenon DEF IsView
<1>3. w.verifiers = [v.verifiers EXCEPT ![m] = @ \union {n}]
  BY <1>1, Zenon DEF IsView, Fields
<1>4. w.live = v.live
  BY <1>1, Zenon DEF IsView, Fields
<1> HIDE DEF w
<1>5. w.verifiers \in [Node -> SUBSET Node]
  BY <1>1, <1>3 DEF Shaped
<1>6. \A x \in Node : \A k \in w.verifiers[x] : k \in v.verifiers[x] \/ <<k, x>> \in links
  BY <1>1, <1>3 DEF Shaped
<1>7. DOMAIN w.live \subseteq Node
  BY <1>1, <1>4 DEF Shaped
<1>8. Sound(w, links)
  BY <1>2, <1>5, <1>6, <1>7, SoundWith
<1> QED BY <1>8 DEF NoteVerified, w

(* What a node says of itself is what its view records.                    *)
LEMMA SaysTruth ==
  ASSUME NEW v, NEW links, Sound(v, links), NEW n \in Node
  PROVE  Truthful(KnownLiveness(v, n), n, links)
<1>1. DOMAIN KnownLiveness(v, n) = DOMAIN v.live
  BY DEF KnownLiveness, Roster
<1>2. \A m \in DOMAIN v.live : KnownLiveness(v, n)[m].verified = (n \in v.verifiers[m])
  BY DEF KnownLiveness, Roster
<1> QED BY <1>1, <1>2 DEF Truthful, Sound, Shaped, Vouched

(* Only the sender's own claims are recorded, and against the sender.      *)
LEMMA MergeSound ==
  ASSUME NEW v, NEW links, Sound(v, links), NEW n \in Node, NEW sender \in Node,
         NEW said, Truthful(said, sender, links)
  PROVE  Sound(MergeLiveness(v, n, sender, said), links)
<1> DEFINE heard == {m \in DOMAIN said \ {n} : Admits(v, m, said[m])}
           live == [m \in Roster(v) \union heard |->
                    IF m = n THEN IF n \in DOMAIN said THEN RefuteIfStale(v.live[n], said[n])
                                  ELSE v.live[n]
                    ELSE IF m \notin Roster(v) THEN Heard(said[m].incarnation, said[m].state)
                    ELSE IF m \in heard THEN Fresher(v.live[m], said[m]) ELSE v.live[m]]
           merged == [v EXCEPT !.live = live, !.reaped = @ \ heard]
           claimed == {m \in DOMAIN said \ {sender} :
                      said[m].verified /\ sender \in Identified /\ CanBeVerified(merged, n, m)}
           w == [merged EXCEPT !.verifiers =
                   [m \in Node |-> IF m \in claimed THEN @[m] \union {sender} ELSE @[m]]]
<1>1. MergeLiveness(v, n, sender, said) = IF CanBeVerified(merged, n, sender) THEN w ELSE merged
  BY DEF MergeLiveness
<1>2. Shaped(v) /\ IsView(v) /\ DOMAIN said \subseteq Node /\ DOMAIN v.live \subseteq Node
  BY DEF Sound, Shaped, Truthful
<1>3. \A m \in claimed : <<sender, m>> \in links
  BY DEF Truthful
<1>4. DOMAIN live \subseteq Node
  BY <1>2 DEF Roster
<1> HIDE DEF live, claimed
<1>5. IsView(merged) /\ merged.verifiers = v.verifiers /\ merged.live = live
  <2>1. IsView(merged)
    BY <1>2, Zenon DEF IsView
  <2>2. merged.verifiers = v.verifiers
    BY <1>2, Zenon DEF IsView, Fields
  <2>3. merged.live = live
    BY <1>2, Zenon DEF IsView, Fields
  <2> QED BY <2>1, <2>2, <2>3
<1> HIDE DEF merged, heard
<1>6. Sound(merged, links)
  BY <1>2, <1>4, <1>5, SoundWith DEF Shaped
<1>7. /\ IsView(w) /\ w.live = merged.live
      /\ w.verifiers = [m \in Node |-> IF m \in claimed THEN merged.verifiers[m] \union {sender}
                                       ELSE merged.verifiers[m]]
  <2>1. IsView(w)
    BY <1>5, Zenon DEF IsView
  <2>2. w.live = merged.live
    BY <1>5, Zenon DEF IsView, Fields
  <2>3. w.verifiers = [m \in Node |-> IF m \in claimed THEN merged.verifiers[m] \union {sender}
                                      ELSE merged.verifiers[m]]
    BY <1>5, Zenon DEF IsView, Fields
  <2> QED BY <2>1, <2>2, <2>3
<1> HIDE DEF w
<1>8. w.verifiers \in [Node -> SUBSET Node]
  BY <1>2, <1>5, <1>7 DEF Shaped
<1>9. \A m \in Node : \A k \in w.verifiers[m] : k \in merged.verifiers[m] \/ <<k, m>> \in links
  BY <1>3, <1>7
<1>10. Sound(w, links)
  BY <1>4, <1>5, <1>6, <1>7, <1>8, <1>9, SoundWith
<1> QED BY <1>1, <1>6, <1>10

(* A reaped member's word goes with it.                                    *)
LEMMA ReapSound ==
  ASSUME NEW v, NEW links, Sound(v, links), NEW gone
  PROVE  Sound(Reap(v, gone), links)
<1> DEFINE w == Reap(v, gone)
<1>1. Shaped(v) /\ IsView(v) /\ DOMAIN v.live \subseteq Node /\ v.verifiers \in [Node -> SUBSET Node]
  BY DEF Sound, Shaped
<1>2. IsView(w)
  BY <1>1, Zenon DEF IsView, Reap
<1>3. w.live = Restrict(v.live, DOMAIN v.live \ gone)
  BY <1>1, Zenon DEF IsView, Fields, Reap
<1>4. w.verifiers = [m \in Node |-> IF m \in gone THEN {} ELSE v.verifiers[m] \ gone]
  BY <1>1, Zenon DEF IsView, Fields, Reap
<1>5. DOMAIN w.live \subseteq Node
  BY <1>1, <1>3 DEF Restrict
<1> HIDE DEF w
<1>6. w.verifiers \in [Node -> SUBSET Node] /\ \A m \in Node : \A k \in w.verifiers[m] : k \in v.verifiers[m]
  BY <1>1, <1>4
<1>7. Sound(w, links)
  BY <1>2, <1>5, <1>6, SoundWith
<1> QED BY <1>7 DEF w

(* Ageing touches no voucher.                                              *)
LEMMA AgedSound ==
  ASSUME NEW v, NEW links, Sound(v, links), NEW reaped, NEW live, DOMAIN live = DOMAIN v.live
  PROVE  Sound([v EXCEPT !.reaped = reaped, !.live = live], links)
<1> DEFINE w == [v EXCEPT !.reaped = reaped, !.live = live]
<1>1. Shaped(v) /\ IsView(v)
  BY DEF Sound, Shaped
<1>2. IsView(w)
  BY <1>1, Zenon DEF IsView
<1>3. w.verifiers = v.verifiers
  BY <1>1, Zenon DEF IsView, Fields
<1>4. w.live = live
  BY <1>1, Zenon DEF IsView, Fields
<1> HIDE DEF w
<1>5. Sound(w, links)
  BY <1>1, <1>2, <1>3, <1>4, SoundWith DEF Shaped
<1> QED BY <1>5 DEF w

LEMMA RelaySound ==
  ASSUME NEW v, NEW links, Sound(v, links), NEW down
  PROVE  Sound([v EXCEPT !.relayDown = down], links)
<1> DEFINE w == [v EXCEPT !.relayDown = down]
<1>1. Shaped(v) /\ IsView(v)
  BY DEF Sound, Shaped
<1>2. IsView(w)
  BY <1>1, Zenon DEF IsView
<1>3. w.verifiers = v.verifiers /\ w.live = v.live
  BY <1>1, Zenon DEF IsView, Fields
<1> HIDE DEF w
<1>4. Sound(w, links)
  BY <1>1, <1>2, <1>3, SoundWith DEF Shaped
<1> QED BY <1>4 DEF w
-----------------------------------------------------------------------------
(***************************************************************************)
(* Each step keeps the vouchers first-hand.                                *)
(***************************************************************************)
(* The idle round says nothing.                                            *)
LEMMA IdleTruthful ==
  ASSUME NEW n, NEW links
  PROVE  RoundTruthful(Idle, n, links)
<1>1. Idle.stage # "pull"
  BY DEF Idle
<1> QED BY <1>1, Zenon DEF RoundTruthful

LEMMA FirstHandInit == Init => FirstHand
<1> SUFFICES ASSUME Init PROVE FirstHand
  OBVIOUS
<1>1. ASSUME NEW n \in Node PROVE Sound(view[n], linked)
  <2> DEFINE vs == [m \in Node |-> {k \in ({n} \union Seeds[n]) \ {m} :
                                      <<k, m>> \in Acquainted /\ m \in Seeds[n] \ {n}}]
             w == [Configured(n) EXCEPT !.verifiers = vs]
  <2>1. view[n] = w
    BY DEF Init
  <2>2. Sound(Configured(n), linked) /\ IsView(Configured(n)) /\ DOMAIN Configured(n).live \subseteq Node
    BY ConfiguredSound DEF Sound, Shaped
  <2>3. vs \in [Node -> SUBSET Node] /\ \A m \in Node : \A k \in vs[m] : <<k, m>> \in linked
    BY MembershipAssumption DEF Init
  <2> HIDE DEF vs
  <2>4. IsView(w)
    BY <2>2, Zenon DEF IsView
  <2>5. w.verifiers = vs
    BY <2>2, Zenon DEF IsView, Fields
  <2>6. w.live = Configured(n).live
    BY <2>2, Zenon DEF IsView, Fields
  <2> HIDE DEF w
  <2>7. Sound(w, linked)
    BY <2>2, <2>3, <2>4, <2>5, <2>6, SoundWith
  <2> QED BY <2>1, <2>7
<1>2. ASSUME NEW n \in Node PROVE RoundTruthful(round[n], n, linked)
  BY IdleTruthful DEF Init
<1>3. linked \subseteq Node \X Node /\ up \subseteq Node
  BY MembershipAssumption DEF Init
<1>4. view = [n \in Node |-> view[n]] /\ round = [n \in Node |-> round[n]]
  BY DEF Init
<1> QED BY <1>1, <1>2, <1>3, <1>4 DEF FirstHand

(* One view changes, soundly, and no round does.                           *)
LEMMA OneView ==
  ASSUME FirstHand, NEW n \in Node, NEW w, view' = [view EXCEPT ![n] = w], Sound(w, linked),
         UNCHANGED linked, up' \subseteq Node,
         round' = round \/ \E r : RoundTruthful(r, n, linked) /\ round' = [round EXCEPT ![n] = r]
  PROVE  FirstHand'
<1>1. view' = [k \in Node |-> view'[k]] /\ \A k \in Node : view'[k] = IF k = n THEN w ELSE view[k]
  BY DEF FirstHand
<1>2. round' = [k \in Node |-> round'[k]] /\ \A k \in Node : RoundTruthful(round'[k], k, linked)
  <2>1. CASE round' = round
    BY <2>1 DEF FirstHand
  <2>2. CASE \E r : RoundTruthful(r, n, linked) /\ round' = [round EXCEPT ![n] = r]
    BY <2>2 DEF FirstHand
  <2> QED BY <2>1, <2>2
<1>3. \A k \in Node : Sound(view'[k], linked)
  BY <1>1 DEF FirstHand
<1> QED BY <1>1, <1>2, <1>3 DEF FirstHand

LEMMA StartRoundKeeps ==
  ASSUME FirstHand, NEW n \in Node, NEW peer \in Node, StartRound(n, peer)
  PROVE  FirstHand'
<1> DEFINE sent == KnownLiveness(view[n], n)
           r == [stage |-> "push", peer |-> peer, sent |-> sent]
<1>1. round' = [round EXCEPT ![n] = r] /\ UNCHANGED <<view, up, linked>>
  BY DEF StartRound
<1>2. Truthful(sent, n, linked)
  BY SaysTruth DEF FirstHand
<1>3. RoundTruthful(r, n, linked)
  <2> HIDE DEF sent
  <2>1. r.stage = "push" /\ r.peer = peer /\ r.sent = sent
    OBVIOUS
  <2> HIDE DEF r
  <2> QED BY <1>2, <2>1 DEF RoundTruthful
<1> HIDE DEF r
<1>4. round' = [k \in Node |-> round'[k]] /\ \A k \in Node : RoundTruthful(round'[k], k, linked)
  BY <1>1, <1>3 DEF FirstHand
<1> QED BY <1>1, <1>4 DEF FirstHand

LEMMA ApplyGossipKeeps ==
  ASSUME FirstHand, NEW n \in Node, ApplyGossip(n)
  PROVE  FirstHand'
<1> DEFINE peer == round[n].peer
           known == Roster(view[peer]) \union {n}
           said == Restrict(round[n].sent, DOMAIN round[n].sent \intersect known)
           merged == MergeLiveness(view[peer], peer, n, said)
           r == [stage |-> "pull", peer |-> peer, sent |-> round[n].sent,
                 reply |-> KnownLiveness(merged, peer)]
<1>1. /\ round[n].stage = "push"
      /\ view' = [view EXCEPT ![peer] = merged]
      /\ round' = [round EXCEPT ![n] = [stage |-> "pull", peer |-> peer, sent |-> @.sent,
                                        reply |-> KnownLiveness(merged, peer)]]
      /\ UNCHANGED <<up, linked>>
  BY DEF ApplyGossip
<1>2. round[n] # Idle /\ RoundTruthful(round[n], n, linked)
  BY <1>1 DEF FirstHand, Idle
<1>3. peer \in Node /\ Truthful(round[n].sent, n, linked)
  BY <1>2 DEF RoundTruthful
<1>4. round' = [round EXCEPT ![n] = r]
  BY <1>1 DEF FirstHand
<1>5. Truthful(said, n, linked)
  <2> DEFINE sent == round[n].sent
             both == DOMAIN sent \intersect known
  <2>1. DOMAIN said = both /\ \A m \in both : said[m] = sent[m]
    BY DEF Restrict
  <2>2. both \subseteq DOMAIN sent
    OBVIOUS
  <2> HIDE DEF said, both, sent
  <2>3. Truthful(sent, n, linked)
    BY <1>3 DEF sent
  <2> QED BY <2>1, <2>2, <2>3 DEF Truthful
<1> HIDE DEF said
<1>6. Sound(merged, linked)
  <2>1. Sound(view[peer], linked)
    BY <1>3 DEF FirstHand
  <2> QED BY <1>3, <1>5, <2>1, MergeSound
<1> HIDE DEF merged, peer
<1>7. Truthful(KnownLiveness(merged, peer), peer, linked)
  BY <1>3, <1>6, SaysTruth
<1>8. RoundTruthful(r, n, linked)
  <2> DEFINE sent == round[n].sent
             reply == KnownLiveness(merged, peer)
  <2>1. r.stage = "pull" /\ r.peer = peer /\ r.sent = sent /\ r.reply = reply
    OBVIOUS
  <2> HIDE DEF r, reply, sent
  <2>2. Truthful(sent, n, linked) /\ Truthful(reply, peer, linked)
    BY <1>3, <1>7 DEF sent, reply
  <2> QED BY <1>3, <2>1, <2>2 DEF RoundTruthful
<1> HIDE DEF r
<1>9. view' = [k \in Node |-> view'[k]] /\ \A k \in Node : Sound(view'[k], linked)
  BY <1>1, <1>3, <1>6 DEF FirstHand
<1>10. round' = [k \in Node |-> round'[k]] /\ \A k \in Node : RoundTruthful(round'[k], k, linked)
  BY <1>4, <1>8 DEF FirstHand
<1> QED BY <1>1, <1>9, <1>10 DEF FirstHand

(* A direct success is what makes a voucher, and it is recorded as a link. *)
LEMMA FinishRoundKeeps ==
  ASSUME FirstHand, NEW n \in Node, FinishRound(n)
  PROVE  FirstHand'
<1> DEFINE peer == round[n].peer
           more == linked \union {<<n, peer>>}
           noted == NoteVerified(NoteReachable(view[n], n, peer), n, peer)
           merged == MergeLiveness(noted, n, peer, round[n].reply)
<1>1. /\ round[n].stage = "pull"
      /\ view' = [view EXCEPT ![n] = merged]
      /\ linked' = more
      /\ round' = [round EXCEPT ![n] = Idle]
      /\ UNCHANGED up
  BY DEF FinishRound
<1>2. round[n] # Idle /\ RoundTruthful(round[n], n, linked)
  BY <1>1 DEF FirstHand, Idle
<1>3. peer \in Node /\ Truthful(round[n].reply, peer, linked)
  BY <1>1, <1>2 DEF RoundTruthful
<1> HIDE DEF peer
<1>4. linked \subseteq more /\ <<n, peer>> \in more /\ more \subseteq Node \X Node
  BY <1>3 DEF FirstHand
<1> HIDE DEF more
<1>5. \A k \in Node : Sound(view[k], more)
  BY <1>4, SoundMore DEF FirstHand
<1>6. Sound(noted, more)
  <2>1. Sound(NoteReachable(view[n], n, peer), more)
    BY <1>5, NoteReachableSound
  <2> QED BY <1>3, <1>4, <2>1, NoteVerifiedSound
<1>7. Sound(merged, more)
  <2> DEFINE reply == round[n].reply
  <2>1. Truthful(reply, peer, more)
    BY <1>3, <1>4, TruthfulMore
  <2> HIDE DEF noted, reply
  <2>2. Sound(MergeLiveness(noted, n, peer, reply), more)
    BY <1>3, <1>6, <2>1, MergeSound
  <2> QED BY <2>2 DEF reply
<1> HIDE DEF merged
<1>8. view' = [k \in Node |-> view'[k]] /\ \A k \in Node : Sound(view'[k], more)
  BY <1>1, <1>5, <1>7 DEF FirstHand
<1>9. ASSUME NEW k \in Node PROVE RoundTruthful(round[k], k, more)
  <2> DEFINE r == round[k]
  <2>1. RoundTruthful(r, k, linked)
    BY DEF FirstHand
  <2> HIDE DEF r
  <2>2. RoundTruthful(r, k, more)
    BY <1>4, <2>1, TruthfulMore DEF RoundTruthful
  <2> QED BY <2>2 DEF r
<1>10. round' = [k \in Node |-> round'[k]] /\ \A k \in Node : RoundTruthful(round'[k], k, more)
  BY <1>1, <1>9, IdleTruthful DEF FirstHand
<1> QED BY <1>1, <1>4, <1>8, <1>10 DEF FirstHand

LEMMA FailRoundKeeps ==
  ASSUME FirstHand, NEW n \in Node, FailRound(n)
  PROVE  FirstHand'
<1> DEFINE peer == round[n].peer
<1>1. /\ round' = [round EXCEPT ![n] = Idle] /\ UNCHANGED <<up, linked>>
      /\ \/ view' = [view EXCEPT ![n] = NoteReachable(@, n, peer)]
         \/ view' = [view EXCEPT ![n] = NoteUnreachable(@, n, peer)]
  BY Zenon DEF FailRound
<1>2. PICK w : Sound(w, linked) /\ view' = [view EXCEPT ![n] = w]
  <2>1. Sound(NoteReachable(view[n], n, peer), linked) /\ Sound(NoteUnreachable(view[n], n, peer), linked)
    BY NoteReachableSound, NoteUnreachableSound DEF FirstHand
  <2>2. \/ view' = [view EXCEPT ![n] = NoteReachable(view[n], n, peer)]
        \/ view' = [view EXCEPT ![n] = NoteUnreachable(view[n], n, peer)]
    BY <1>1
  <2> QED BY <2>1, <2>2
<1>3. \E r : RoundTruthful(r, n, linked) /\ round' = [round EXCEPT ![n] = r]
  BY <1>1, IdleTruthful
<1>4. up' \subseteq Node
  BY <1>1 DEF FirstHand
<1> QED BY <1>1, <1>2, <1>3, <1>4, OneView

LEMMA SweepKeeps ==
  ASSUME FirstHand, NEW n \in Node, Sweep(n)
  PROVE  FirstHand'
<1> DEFINE v == view[n]
           pruned == {m \in v.reaped : Prompt => NobodySpeaks(m)}
           aged == {m \in Roster(v) \ {n} : v.live[m].state = Dead}
           gone == {m \in aged : v.live[m].deadTicks + 1 >= ReapAfter /\ (Prompt => AllHeardDead(m))}
           reaped == v.reaped \ pruned
           live == [m \in Roster(v) |->
                       IF m \in aged /\ v.live[m].deadTicks + 1 < ReapAfter
                       THEN [v.live[m] EXCEPT !.deadTicks = @ + 1] ELSE v.live[m]]
           ticked == [v EXCEPT !.reaped = reaped, !.live = live]
<1>1. /\ view' = [view EXCEPT ![n] = Reap(ticked, gone)]
      /\ UNCHANGED <<up, round, linked>>
  BY DEF Sweep
<1>2. Sound(v, linked)
  BY DEF FirstHand
<1>3. DOMAIN live = DOMAIN v.live
  BY DEF Roster
<1> HIDE DEF live, gone, reaped, v
<1>4. Sound(ticked, linked)
  BY <1>2, <1>3, AgedSound
<1> HIDE DEF ticked
<1>5. Sound(Reap(ticked, gone), linked)
  BY <1>4, ReapSound
<1>6. up' \subseteq Node
  BY <1>1 DEF FirstHand
<1> QED BY <1>1, <1>5, <1>6, OneView

LEMMA RelayKeeps ==
  ASSUME FirstHand, NEW n \in Node, NEW m \in Node, RelayDown(n, m) \/ RelayUp(n, m)
  PROVE  FirstHand'
<1>1. /\ UNCHANGED <<up, round, linked>>
      /\ \E down : view' = [view EXCEPT ![n].relayDown = down]
  <2>1. CASE RelayDown(n, m)
    BY <2>1 DEF RelayDown
  <2>2. CASE RelayUp(n, m)
    BY <2>2 DEF RelayUp
  <2> QED BY <2>1, <2>2
<1>2. PICK down : view' = [view EXCEPT ![n].relayDown = down]
  BY <1>1
<1>3. view' = [view EXCEPT ![n] = [view[n] EXCEPT !.relayDown = down]]
  BY <1>2
<1> DEFINE w == [view[n] EXCEPT !.relayDown = down]
<1>4. Sound(w, linked)
  BY RelaySound DEF FirstHand
<1>5. up' \subseteq Node
  BY <1>1 DEF FirstHand
<1> HIDE DEF w
<1>6. view' = [view EXCEPT ![n] = w]
  BY <1>3 DEF w
<1> QED BY <1>1, <1>4, <1>5, <1>6, OneView

LEMMA CrashKeeps ==
  ASSUME FirstHand, NEW n \in Node, Crash(n)
  PROVE  FirstHand'
<1>1. /\ view' = [view EXCEPT ![n] = Configured(n)] /\ round' = [round EXCEPT ![n] = Idle]
      /\ up' = up \ {n} /\ linked' = linked
  BY DEF Crash
<1>2. \E r : RoundTruthful(r, n, linked) /\ round' = [round EXCEPT ![n] = r]
  BY <1>1, IdleTruthful
<1>3. Sound(Configured(n), linked) /\ up' \subseteq Node
  BY <1>1, ConfiguredSound DEF FirstHand
<1> QED BY <1>1, <1>2, <1>3, OneView

LEMMA FirstHandStep == FirstHand /\ [Next]_vars => FirstHand'
<1> SUFFICES ASSUME FirstHand, [Next]_vars PROVE FirstHand'
  OBVIOUS
<1>1. CASE UNCHANGED vars
  BY <1>1 DEF vars, FirstHand
<1>2. CASE Next
  <2>1. PICK n \in Node :
          \/ \E m \in Node : StartRound(n, m) \/ RelayDown(n, m) \/ RelayUp(n, m)
          \/ ApplyGossip(n) \/ FinishRound(n) \/ FailRound(n) \/ Sweep(n) \/ Crash(n) \/ Restart(n)
    BY <1>2 DEF Next
  <2>2. ASSUME Restart(n) PROVE FirstHand'
    BY <2>2 DEF Restart, FirstHand
  <2> QED BY <2>1, <2>2, StartRoundKeeps, RelayKeeps, ApplyGossipKeeps, FinishRoundKeeps, FailRoundKeeps,
             SweepKeeps, CrashKeeps
<1> QED BY <1>1, <1>2
-----------------------------------------------------------------------------
(***************************************************************************)
(* Adoption.                                                               *)
(***************************************************************************)
Admitted(v, n, sofar) ==
    sofar \union {m \in Roster(v) : Cardinality(VerifierUnits(v, m, sofar)) >= AdoptionBar(n)}

(* g runs the adoption rule k times.                                       *)
Rounds(g, v, n, k) ==
    g = [j \in 0 .. k |-> IF j = 0 THEN v.configured ELSE Admitted(v, n, g[j - 1])]

(* The rule can be run as often as one likes.                              *)
LEMMA RoundsExist ==
  ASSUME NEW v, NEW n, NEW k \in Nat
  PROVE  \E g : Rounds(g, v, n, k)
<1> DEFINE T == {i \in Nat : ~ \E g : Rounds(g, v, n, i)}
<1> SUFFICES ASSUME T # {} PROVE FALSE
  OBVIOUS
<1>1. PICK i \in T : \A y \in T : ~(<<y, i>> \in OpToRel(<, Nat))
  <2>1. T \subseteq Nat /\ T # {}
    OBVIOUS
  <2> HIDE DEF T
  <2> QED BY <2>1, NatLessThanWellFounded, WFMin
<1>2. i \in Nat /\ \A y \in Nat : y < i => y \notin T
  BY <1>1 DEF OpToRel
<1>3. CASE i = 0
  <2> DEFINE g == [j \in 0 .. 0 |-> v.configured]
  <2>1. Rounds(g, v, n, 0)
    <3>1. \A j \in 0 .. 0 : j = 0
      OBVIOUS
    <3> QED BY <3>1 DEF Rounds
  <2> QED BY <1>1, <1>3, <2>1
<1>4. CASE i # 0
  <2>1. i - 1 \in Nat /\ i - 1 < i
    BY <1>2, <1>4
  <2>2. PICK g : Rounds(g, v, n, i - 1)
    BY <1>2, <2>1
  <2> DEFINE h == [j \in 0 .. i |-> IF j = i THEN Admitted(v, n, g[i - 1]) ELSE g[j]]
  <2>3. ASSUME NEW j \in 0 .. i PROVE h[j] = IF j = 0 THEN v.configured ELSE Admitted(v, n, h[j - 1])
    <3>1. CASE j = i
      <4>1. i - 1 \in 0 .. i /\ i - 1 # i /\ h[i - 1] = g[i - 1]
        BY <1>2, <1>4
      <4>2. h[i] = Admitted(v, n, g[i - 1])
        BY <1>2
      <4> QED BY <1>4, <3>1, <4>1, <4>2
    <3>2. CASE j # i
      <4>1. j \in 0 .. i - 1 /\ h[j] = g[j]
        BY <1>2, <3>2
      <4>2. g[j] = IF j = 0 THEN v.configured ELSE Admitted(v, n, g[j - 1])
        BY <2>2, <4>1 DEF Rounds
      <4>3. j # 0 => j - 1 \in 0 .. i /\ j - 1 # i /\ h[j - 1] = g[j - 1]
        BY <1>2, <4>1
      <4> HIDE DEF h
      <4> QED BY <4>1, <4>2, <4>3
    <3> QED BY <3>1, <3>2
  <2>4. h = [j \in 0 .. i |-> h[j]]
    OBVIOUS
  <2> HIDE DEF h
  <2>5. Rounds(h, v, n, i)
    BY <2>3, <2>4 DEF Rounds
  <2> QED BY <1>1, <2>5
<1> QED BY <1>3, <1>4

(* A member adopted that was not configured met the bar, at the latest by  *)
(* the word of the members adopted in the end.                             *)
LEMMA AdoptedMetTheBar ==
  ASSUME NEW v, NEW n, NEW m \in Adopted(v, n) \ v.configured
  PROVE  /\ m \in Roster(v)
         /\ \E sofar \in SUBSET Adopted(v, n) :
               Cardinality(VerifierUnits(v, m, sofar)) >= AdoptionBar(n)
<1> DEFINE N == Cardinality(Node)
           G == CHOOSE g : Rounds(g, v, n, N)
<1>1. N \in Nat
  BY MembershipAssumption, FS_CardinalityType
<1>2. Adopted(v, n) = G[N]
  BY Zenon DEF Adopted, Rounds, Admitted
<1>3. Rounds(G, v, n, N)
  BY <1>1, RoundsExist
<1> HIDE DEF G, N
<1>4. /\ G[0] = v.configured
      /\ \A j \in 1 .. N : j - 1 \in 0 .. N /\ G[j] = Admitted(v, n, G[j - 1])
  BY <1>1, <1>3 DEF Rounds
<1> DEFINE T == {j \in Nat : j <= N /\ m \in G[j]}
<1>5. T \subseteq Nat /\ T # {}
  BY <1>1, <1>2
<1>6. PICK i \in T : \A y \in T : ~(<<y, i>> \in OpToRel(<, Nat))
  <2> HIDE DEF T
  <2> QED BY <1>5, NatLessThanWellFounded, WFMin
<1>7. i \in Nat /\ i <= N /\ m \in G[i] /\ \A y \in Nat : y < i => y \notin T
  BY <1>6 DEF OpToRel
<1>8. i \in 1 .. N /\ m \notin G[i - 1]
  <2>1. i # 0
    BY <1>2, <1>4, <1>7
  <2>2. i - 1 \in Nat /\ i - 1 < i /\ i - 1 <= N
    BY <1>1, <1>7, <2>1
  <2> QED BY <1>1, <1>7, <2>1, <2>2
<1>9. m \in Roster(v) /\ Cardinality(VerifierUnits(v, m, G[i - 1])) >= AdoptionBar(n)
  <2>1. m \in Admitted(v, n, G[i - 1])
    BY <1>4, <1>7, <1>8
  <2> QED BY <1>8, <2>1 DEF Admitted
<1>10. G[i - 1] \subseteq G[N]
  <2> DEFINE U == {j \in Nat : j <= N /\ i - 1 <= j /\ ~(G[i - 1] \subseteq G[j])}
  <2> SUFFICES ASSUME U # {} PROVE FALSE
    BY <1>1, <1>8
  <2>1. U \subseteq Nat
    OBVIOUS
  <2>2. PICK j \in U : \A y \in U : ~(<<y, j>> \in OpToRel(<, Nat))
    <3> HIDE DEF U
    <3> QED BY <2>1, NatLessThanWellFounded, WFMin
  <2>3. j \in Nat /\ j <= N /\ i - 1 <= j /\ ~(G[i - 1] \subseteq G[j]) /\ \A y \in Nat : y < j => y \notin U
    BY <2>2 DEF OpToRel
  <2>4. j # i - 1
    BY <2>3
  <2>5. j - 1 \in Nat /\ j - 1 < j /\ j - 1 <= N /\ i - 1 <= j - 1 /\ j \in 1 .. N
    BY <1>1, <1>8, <2>3, <2>4
  <2>6. G[i - 1] \subseteq G[j - 1]
    BY <2>3, <2>5
  <2>7. G[j - 1] \subseteq G[j]
    BY <1>4, <2>5 DEF Admitted
  <2> QED BY <2>3, <2>6, <2>7
<1> QED BY <1>2, <1>9, <1>10

(* A member that placement counts and nobody configured was dialed by      *)
(* enough adopted members themselves, for any cluster, topology and        *)
(* threshold (membership.rs: note_verified, merge_liveness, adopted).      *)
THEOREM FirstHandPlacement == Spec => []AdoptedFirstHand
<1>1. ASSUME FirstHand PROVE AdoptedFirstHand
  <2>1. ASSUME NEW n \in up, NEW m \in Adopted(view[n], n) \ view[n].configured
        PROVE  Cardinality({Unit[k] : k \in {k \in Adopted(view[n], n) : <<k, m>> \in linked}} \ {Unit[m]})
                  >= AdoptionBar(n)
    <3> DEFINE v == view[n]
               adopted == Adopted(v, n)
               links == {k \in adopted : <<k, m>> \in linked}
               units == {Unit[k] : k \in links} \ {Unit[m]}
    <3>1. Sound(v, linked) /\ linked \subseteq Node \X Node
      BY <1>1 DEF FirstHand
    <3>2. m \in Roster(v) /\ \E sofar \in SUBSET adopted : Cardinality(VerifierUnits(v, m, sofar)) >= AdoptionBar(n)
      BY AdoptedMetTheBar
    <3>3. PICK sofar \in SUBSET adopted : Cardinality(VerifierUnits(v, m, sofar)) >= AdoptionBar(n)
      BY <3>2
    <3>4. m \in Node
      BY <3>1, <3>2 DEF Sound, Shaped, Roster
    <3>5. v.verifiers[m] \intersect sofar \subseteq links
      BY <3>1, <3>4 DEF Sound, Vouched
    <3> HIDE DEF adopted, v
    <3>6. VerifierUnits(v, m, sofar) \subseteq units
      BY <3>5 DEF VerifierUnits
    <3>7. IsFiniteSet(units)
      <4>1. links \subseteq Node
        BY <3>1
      <4>2. IsFiniteSet(links)
        BY <4>1, MembershipAssumption, FS_Subset
      <4> HIDE DEF links
      <4> DEFINE host == [k \in links |-> Unit[k]]
      <4>3. host \in Surjection(links, {Unit[k] : k \in links})
        BY DEF Surjection
      <4>4. IsFiniteSet({Unit[k] : k \in links})
        BY <4>2, <4>3, FS_Surjection
      <4> QED BY <4>4, FS_Subset
    <3>8. Cardinality(VerifierUnits(v, m, sofar)) <= Cardinality(units) /\ Cardinality(units) \in Nat
          /\ Cardinality(VerifierUnits(v, m, sofar)) \in Nat
      <4> HIDE DEF units
      <4> QED BY <3>6, <3>7, FS_Subset, FS_CardinalityType
    <3>9. AdoptionBar(n) \in Nat
      BY MembershipAssumption DEF AdoptionBar
    <3>10. Cardinality(units) >= AdoptionBar(n)
      <4> HIDE DEF units
      <4> QED BY <3>3, <3>8, <3>9
    <3> QED BY <3>10 DEF adopted, v
  <2> QED BY <2>1 DEF AdoptedFirstHand
<1> QED BY <1>1, FirstHandInit, FirstHandStep, PTL DEF Spec
=============================================================================
