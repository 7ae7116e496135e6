---------------------------- MODULE MCProxyRegistry ----------------------------
(* Instances of ProxyRegistry for TLC. *)
EXTENDS ProxyRegistry, TLC

CONSTANTS s1, t1

\* One server with a terminal.
HostOne == t1 :> s1

\* Both are announced once, or both twice.
Once == s1 :> 1 @@ t1 :> 1
Twice == s1 :> 2 @@ t1 :> 2
================================================================================
