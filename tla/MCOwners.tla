-------------------------------- MODULE MCOwners --------------------------------
(***************************************************************************)
(* Clients and the terminals they own as one of several systems that a     *)
(* behaviour may be about: what a run says of them, and what is proved.    *)
(***************************************************************************)
EXTENDS MCSystem

CONSTANTS
  Peers,         \* the readers, each of which stands for a peer's connection
  Clients, TakeOwnership, MaxAnnounces,
  Distance,      \* each client's number of servers in between
  Shells,        \* the terminals
  NoClient

VARIABLES
  known, ignored, order, ownerclients, lq, owned, holder, leaving, stray, announces

Owning == INSTANCE Ownership WITH
  Readers <- Peers, Hops <- Distance, Terms <- Shells, None <- NoClient, terms <- owned, owner <- holder

(* Ownership: a terminal's owner is there, or nobody takes ownership       *)
(* (listener.cpp, registerClient and handleChangeOwner).                   *)
OwnerPresent == system = "owners" => Owning!IInv /\ Owning!OwnerPresent
=================================================================================
