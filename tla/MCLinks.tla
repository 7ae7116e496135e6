-------------------------------- MODULE MCLinks --------------------------------
(***************************************************************************)
(* The forwarder and the connector as two of several systems that a        *)
(* behaviour may be about: what a run says of them, and what is proved.    *)
(***************************************************************************)
EXTENDS MCSystem

CONSTANTS
  Output, Keys, Cap,    \* Forwarder
  Entered, MaxTyped     \* Connect

VARIABLES
  queue,                                      \* a thread's work queue
  fwd, copier, ctrl, pair, srv, tty,          \* Forwarder
  connector, reader, instance, command, loc, rem    \* Connect

Forward == INSTANCE Forwarder WITH work <- queue
Connector == INSTANCE Connect WITH
  Typed <- Entered, k <- connector, l <- reader, i <- instance, r <- command

(* Forwarder: the terminal shows the server's bytes once and in order, a   *)
(* clean exit has shown all of them, and the user is told of every other   *)
(* end (forwarder.cpp:50, forwarder.cpp:183).  Connect: every message      *)
(* finds its reader in the state that awaits it, though three threads      *)
(* share one connection one after the other; a connector that reports an   *)
(* id has a connection that both servers agreed to (connectbase.cpp:256).  *)
LinksSafe ==
  /\ system = "forward" =>
       Forward!IInv /\ Forward!InOrder /\ Forward!CleanIsWhole /\ Forward!Told
  /\ system = "connector" =>
       Connector!IInv /\ Connector!Phases /\ Connector!FinishedIsConnected
================================================================================
