---------------------------- MODULE MCDelegation ----------------------------
EXTENDS Delegation

T(from, subject, cap, effect, scope) ==
    [subject |-> subject, cap |-> cap, effect |-> effect, scope |-> scope, grantor |-> from]

MCPage == <<"page">>
MCPlaces == {<<"a", "page">>, <<"b", "page">>}
Owns(from, to) == T(from, Actor(to), "own", "allow", AtPath(<<>>))
Reads(from, subject, effect, scope) == T(from, subject, "read", effect, scope)

(* Owners are made from the creator downward.                              *)
Downward ==
    {Owns(1, 2), Owns(1, 3), Owns(2, 3), Owns(3, 4),
     Reads(3, Class("anyone"), "allow", AtElement(MCPage)),
     Reads(2, Actor(4), "deny", AtPath(<<>>)),
     Reads(3, Actor(1), "deny", AtElement(MCPage)),
     T(1, Actor(3), "own", "deny", AtElement(MCPage)),
     Reads(1, Class("authenticated"), "allow", AtPath(<<"a">>))}

(* An owner is revoked by its seniors, any other tuple by anybody.         *)
Senior(who, t) == \E p \in 2..4 : t.subject = Actor(p) /\ who < p

DownwardRevocations == {<<who, t>> \in (1..4) \X Downward : IsOwn(t) => Senior(who, t)}

(* The last of a line of owners revokes the first.                         *)
Line == {Owns(1, 2), Owns(2, 3), Owns(3, 4)}

LineRevocations == {<<4, Owns(2, 3)>>}
=============================================================================
