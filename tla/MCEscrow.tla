------------------------------ MODULE MCEscrow ------------------------------
(***************************************************************************)
(* Two scenes that share no state: the gateway, the provider and the       *)
(* worker around the orders of one contract, and the screens of a user     *)
(* with two contracts, one of them funded.                                 *)
(***************************************************************************)
EXTENDS EscrowFunding, EscrowScreens

CONSTANTS c1, c2

VARIABLE scene
all == <<vars, screens, scene>>

Funding(A)  == scene = "funding" /\ A /\ UNCHANGED <<screens, scene>>
OnScreen(A) == scene = "screens" /\ A /\ UNCHANGED <<vars, scene>>

OneFunded == [c \in Contracts |-> IF c = c1 THEN <<"AUTHORIZED">> ELSE <<>>]

MCInit == Init /\ ScreenInit /\ rows = OneFunded /\ scene \in {"funding", "screens"}

MCFairness ==
  /\ \A f \in Fibers : WF_all(Funding(RequestStep(f)))
  /\ \A p \in Payments, s \in {"authorized", "failed"} :
       SF_all(\E f \in Fibers : Funding(<<s, p>> \in hooks /\ Hook(f, <<s, p>>)))
  /\ \A i \in CallSlots : WF_all(OnScreen(CallStep(i)))
  /\ \A p \in Polls : WF_all(OnScreen(Tick(p)))

MCSpec == MCInit /\ [][Funding(Next) \/ OnScreen(ScreenNext)]_all /\ MCFairness
=============================================================================
