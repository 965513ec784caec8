----------------------------- MODULE PaymentBook -----------------------------
(***************************************************************************)
(* What the escrow promises about one customer payment, whoever performs   *)
(* the steps: the money is held, then taken by the provider, and only      *)
(* then released in the books -- never released without having been taken, *)
(* and never un-released.  The settlement worker (module Settlement) is    *)
(* shown to implement this specification.                                  *)
(***************************************************************************)

CONSTANT Payments      \* the payments customers have authorised

VARIABLE phase         \* phase[p]: how far payment p has come

Init == phase = [p \in Payments |-> "held"]

\* The provider takes the held money.
Take(p) ==
  /\ phase[p] = "held"
  /\ phase' = [phase EXCEPT ![p] = "taken"]

\* The platform records the release: escrow row and ledger entry together.
Release(p) ==
  /\ phase[p] = "taken"
  /\ phase' = [phase EXCEPT ![p] = "released"]

Next == \E p \in Payments : Take(p) \/ Release(p)

Spec == Init /\ [][Next]_phase
=============================================================================
