---------------------------- MODULE MCRemoteCache -----------------------------
(***************************************************************************)
(* TLC instance of RemoteCache: the servers are interchangeable.  Once     *)
(* records of two servers have met, the properties of the cache claim      *)
(* nothing any more, so such a state is followed to the end of its cycle   *)
(* only.                                                                   *)
(***************************************************************************)
EXTENDS RemoteCache, TLC

AnyServer == Permutations(Servers)
FollowMixes == mixed => pc # "idle"
===============================================================================
