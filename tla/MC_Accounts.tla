----------------------------- MODULE MC_Accounts -----------------------------
(***************************************************************************)
(* One user: rows of two users have nothing to do with each other.         *)
(***************************************************************************)
EXTENDS Accounts, TLC

CONSTANTS guest, host, admin

\* Host and admin, which people grant, are interchangeable, and so are clients.
Symmetry == Permutations({host, admin}) \cup Permutations(Clients)
=============================================================================
