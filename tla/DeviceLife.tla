----------------------------- MODULE DeviceLife -----------------------------
(***************************************************************************)
(* What the session store promises, with none of its machinery: a sign-in  *)
(* on a device is in until it is out, and once out it never comes back.    *)
(* One sign-in may put others out; refreshing tokens changes nothing.      *)
(***************************************************************************)
CONSTANT SignIns

VARIABLE life

Init == life = [f \in SignIns |-> "new"]

Keeps(f) == life'[f] = life[f] \/ (life[f] = "in" /\ life'[f] = "out")

(* A device signs in; it may be turned away at once.                       *)
SignIn(f) ==
  /\ life[f] = "new" /\ life'[f] \in {"in", "out"}
  /\ \A g \in SignIns \ {f} : Keeps(g)

SignOut == \A f \in SignIns : Keeps(f)

Next == /\ life' \in [SignIns -> {"new", "in", "out"}]
        /\ SignOut \/ \E f \in SignIns : SignIn(f)

Spec == Init /\ [][Next]_life
=============================================================================
