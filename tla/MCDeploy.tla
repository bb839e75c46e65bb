------------------------------ MODULE MCDeploy ------------------------------
(***************************************************************************)
(* A small instance of Deploy for TLC: one replica of the old release, one *)
(* of the next, and one of a release that has edited the first migration.  *)
(***************************************************************************)
EXTENDS Deploy

MCFiles == [r \in {"old", "new", "edited"} |->
              CASE r = "old" -> <<"a">>
                [] r = "new" -> <<"a", "b">>
                [] r = "edited" -> <<"A", "b">>]
=============================================================================
