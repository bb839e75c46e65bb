------------------------------- MODULE MCTxn -------------------------------
(***************************************************************************)
(* Small instances of Txn for TLC.  A payment confirmation and the expiry  *)
(* job write the subscription before the wallet, the refill job the wallet *)
(* before the subscription.  A sign-in writes a session row of its own,    *)
(* which nobody waits for, asks for a second connection, and revokes the   *)
(* user's oldest sessions, as the user's other sign-ins do.                *)
(***************************************************************************)
EXTENDS Txn

MCRows == {"wallet", "subscription", "oldest"}

MCScript ==
  [r \in Requests |->
     CASE r = "confirm" -> <<"subscription", "wallet">>
       [] r = "expire" -> <<"subscription", "wallet">>
       [] r = "refill" -> <<"wallet", "subscription">>
       [] r \in {"login", "login2"} -> <<Conn, "oldest">>]
=============================================================================
