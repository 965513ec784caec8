-------------------------------- MODULE MCPayout --------------------------------
(***************************************************************************)
(* Instances for TLC, in two scenes that share no state: payouts, whose    *)
(* calls of the port are single steps, and two users inside the port,      *)
(* whose calls are made of attempts.  Rows of different contracts never    *)
(* meet in a statement, so one contract shows every interleaving on a row. *)
(***************************************************************************)
EXTENDS Payout, PaymentApi

VARIABLE scene

SomethingFails == {"send", "write", "notice", "announce"}

Quiet == /\ live = TRUE /\ orders = 0 /\ payment = "authorized" /\ payouts = {}
         /\ use = [u \in Users |-> NoUse]

MCInit == Init /\ \/ scene = "payouts" /\ Quiet
                  \/ scene = "port" /\ ApiInit

Paying  == scene = "payouts" /\ Next /\ UNCHANGED <<api, scene>>
Calling == scene = "port" /\ ApiNext /\ UNCHANGED <<vars, scene>>

MCSpec ==
  /\ MCInit /\ [][Paying \/ Calling]_<<vars, api, scene>>
  /\ \A s \in Sweeps : WF_vars(scene = "payouts" /\ SweepStep(s))
===============================================================================
