------------------------------ MODULE MCClients ------------------------------
(* Instance of Clients for TLC: two clients one after the other, two callers. *)
EXTENDS Clients

==============================================================================
