---------------------------- MODULE MCClientSync ----------------------------
(***************************************************************************)
(* Small instances of ClientSync for TLC.                                  *)
(***************************************************************************)
EXTENDS ClientSync

CONSTANTS c1, c2

Ops == Client \X (1..MaxEdits)
OnlySecond == {c2}
Nobody == {}
=============================================================================
