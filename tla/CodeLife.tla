------------------------------ MODULE CodeLife ------------------------------
(***************************************************************************)
(* What the table of one-time codes promises, without transactions, clocks *)
(* or quotas: a code is sent once, is good for one use and for MaxTries    *)
(* guesses, and never works again once it has been used or replaced.       *)
(***************************************************************************)
EXTENDS Naturals

CONSTANTS Codes, MaxTries

VARIABLES fate, tries

vars == <<fate, tries>>

Init == /\ fate = [k \in Codes |-> "none"]
        /\ tries = [k \in Codes |-> 0]

Unvoided(k) == fate'[k] = fate[k] \/ (fate[k] = "live" /\ fate'[k] = "void")

(* A new code; codes that still work may stop working.                     *)
Send(k) ==
  /\ fate[k] = "none" /\ fate'[k] = "live"
  /\ \A j \in Codes \ {k} : Unvoided(j)
  /\ UNCHANGED tries

(* One guess at a code that works, counted whether it is right or wrong.   *)
Guess(k) ==
  /\ fate[k] = "live" /\ tries[k] < MaxTries
  /\ fate'[k] \in {"live", "used"}
  /\ tries' = [tries EXCEPT ![k] = @ + 1]
  /\ \A j \in Codes \ {k} : fate'[j] = fate[j]

Void == (\A k \in Codes : Unvoided(k)) /\ UNCHANGED tries

Next == /\ fate' \in [Codes -> {"none", "live", "used", "void"}]
        /\ Void \/ \E k \in Codes : Send(k) \/ Guess(k)

Spec == Init /\ [][Next]_vars
=============================================================================
