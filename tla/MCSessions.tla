----------------------------- MODULE MCSessions -----------------------------
(***************************************************************************)
(* Small instances of Sessions for TLC.  Nothing in Sessions tells one     *)
(* session id or one client from another.                                  *)
(***************************************************************************)
EXTENDS Sessions, TLC

Ids == Permutations(SessionIds)
IdsAndClients == Permutations(SessionIds) \union Permutations(Clients)
=============================================================================
