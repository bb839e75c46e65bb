-------------------------- MODULE TwoBucketWallet --------------------------
(***************************************************************************)
(* What the billing module promises about a user's credits, with none of   *)
(* its machinery: an allowance that comes and goes with the plan, and      *)
(* purchased credits that only use can consume.                            *)
(***************************************************************************)
EXTENDS Integers

CONSTANT Users

VARIABLES allowance, purchased, used

vars == <<allowance, purchased, used>>

Init == /\ allowance = [u \in Users |-> 0]
        /\ purchased = [u \in Users |-> 0]
        /\ used = [u \in Users |-> 0]

OthersKeep(f, u) == \A v \in Users \ {u} : f'[v] = f[v]

Only(u) == OthersKeep(allowance, u) /\ OthersKeep(purchased, u) /\ OthersKeep(used, u)

(* What leaves the wallet is what was used, and purchased credits are      *)
(* touched only once the allowance is gone.                                *)
Use(u) ==
  /\ allowance'[u] \in Nat /\ purchased'[u] \in Nat
  /\ allowance'[u] <= allowance[u] /\ purchased'[u] <= purchased[u]
  /\ used'[u] - used[u] = (allowance[u] - allowance'[u]) + (purchased[u] - purchased'[u])
  /\ purchased'[u] < purchased[u] => allowance'[u] = 0

(* A purchase, a bonus or a refund; and with a plan, its month's allowance.*)
Receive(u) ==
  /\ purchased'[u] >= purchased[u]
  /\ allowance'[u] = allowance[u] \/ allowance'[u] > 0
  /\ used'[u] = used[u]

(* The plan ended.                                                         *)
Lapse(u) ==
  /\ allowance'[u] = 0
  /\ purchased'[u] = purchased[u] /\ used'[u] = used[u]

Next == \E u \in Users : Only(u) /\ (Use(u) \/ Receive(u) \/ Lapse(u))

Spec == Init /\ [][Next]_vars
=============================================================================
