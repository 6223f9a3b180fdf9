---------------------------- MODULE MCAwareness -----------------------------
(***************************************************************************)
(* A small instance of Awareness for TLC.  Clients 1 and 2 are two tabs of *)
(* one actor, the first on the newer schema version; client 3 is another   *)
(* actor's and of another app.                                             *)
(***************************************************************************)
EXTENDS Awareness

MCActorOf == [c \in Client |-> IF c = 3 THEN "B" ELSE "A"]
MCAppOf == [c \in Client |-> IF c = 3 THEN 2 ELSE 1]
MCVersionOf == [c \in Client |-> IF c = 1 THEN 2 ELSE 1]

(* The newer version lets a cursor be silent for longer.  A name is held   *)
(* for the session and not throttled.                                      *)
MCTtl(app, version, k) == IF k = "cursor" THEN version - 1 ELSE Forever
MCThrottle(app, version, k) == IF k = "cursor" THEN 1 ELSE 0

(* Both tabs publish and are lost, one after the other or at once.         *)
Tabs == [here |-> {1, 2, 3}, app |-> <<1, 2>>, watch |-> {3},
         keys |-> {"cursor", "name"}, values |-> {1},
         dials |-> <<0, 0, 0>>, sets |-> <<2, 1, 0>>, drops |-> <<1, 1, 0>>]

(* A client comes back on a new connection while the old one lingers.      *)
Returning == [here |-> {1, 3}, app |-> <<1, 2>>, watch |-> {3},
              keys |-> {"cursor", "name"}, values |-> {1},
              dials |-> <<2, 0, 0>>, sets |-> <<2, 0, 0>>, drops |-> <<2, 0, 0>>]

(* A client publishes past the cap and is lost.                            *)
Capping == [here |-> {1, 3}, app |-> <<1, 2>>, watch |-> {3}, keys |-> Key, values |-> {1},
            dials |-> <<0, 0, 0>>, sets |-> <<3, 0, 0>>, drops |-> <<1, 0, 0>>]

(* A session joins, leaves and resumes while a client of another app,      *)
(* which bound the room first, publishes and goes.                         *)
Joining == [here |-> {3}, app |-> <<2, 1>>, watch |-> {1},
            keys |-> {"cursor", "name"}, values |-> {1, 2},
            dials |-> <<2, 0, 0>>, sets |-> <<0, 0, 2>>, drops |-> <<1, 0, 1>>]

MCBudgets == {Tabs, Returning, Capping, Joining}
=============================================================================
