---------------------------- MODULE MCServerShutdown ----------------------------
(* Instances of ServerShutdown for TLC. *)
EXTENDS ServerShutdown, TLC

CONSTANTS t1, k1, k2, k3, f

\* Two tasks with one id and two with one target.
MCId == t1 :> t1 @@ k1 :> k1 @@ k2 :> k2 @@ k3 :> k1
MCTarget == k1 :> f @@ k2 :> f @@ k3 :> None
=================================================================================
