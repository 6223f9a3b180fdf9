--------------------------- MODULE MCRoomStreams ---------------------------
(***************************************************************************)
(* Small instances of RoomStreams for TLC.                                 *)
(***************************************************************************)
EXTENDS RoomStreams

CONSTANTS a, b, x, draft

(* Ops a and b are written on main, x on the draft branch.                 *)
Authors == [o \in Op |-> IF o = x THEN draft ELSE Main]
MainOnly == {Main}

AllKinds == {"ingest", "ingest_branch", "compact", "import", "version", "fork",
             "fork_version", "restore", "publish", "publish_over", "delete"}

(* A crash inside a publish onto a writable branch gives that branch the   *)
(* published base: left to the README.                                     *)
Crashes == AllKinds \ {"publish_over"}

(* A write that fails after the operation's first effect in memory: the    *)
(* branch head that trails its tail, the half-deleted branch.              *)
CleanFailures == AllKinds \ {"ingest_branch", "delete"}
NoKinds == {}
AppendKinds == {"ingest", "ingest_branch"}
ForkVersionKind == {"fork_version"}

(* Main's ops are interchangeable.                                         *)
Symmetry == Permutations({a, b})
=============================================================================
