---------------------------- MODULE MCEnrolment ----------------------------
(***************************************************************************)
(* TLC instance of Enrolment: machines are interchangeable, and once the   *)
(* last wrap of the History Key was deleted, which is for good, no         *)
(* property says anything, so that such a state is not followed.           *)
(***************************************************************************)
EXTENDS Enrolment, TLC

AnyMachine == Permutations(Machine) \cup Permutations(Token)

FollowHeld == ~emptied
============================================================================
