------------------------------- MODULE MCCache -------------------------------
(***************************************************************************)
(* Instances of Cache for TLC.                                             *)
(***************************************************************************)
EXTENDS Cache

CONSTANTS p1, p2

TwoClients == {p1, p2}
=============================================================================
