---------------------------- MODULE MCLocalHistory ----------------------------
(***************************************************************************)
(* TLC instance of LocalHistory: spooled commands, a tag op, an imported   *)
(* command and one of another host; connections are interchangeable.       *)
(***************************************************************************)
EXTENDS LocalHistory, TLC

AnyConn == Permutations(Conns)
===============================================================================
