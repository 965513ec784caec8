------------------------------ MODULE MCSettlement ------------------------------
(***************************************************************************)
(* Instances of Settlement for TLC.  All of them settle one contract: no   *)
(* statement of the worker reads or writes the rows of two.                *)
(***************************************************************************)
EXTENDS Settlement, TLC

CONSTANTS w1, w2, r1, r2, c1

OneContract == {c1}
OneOrder == {1}
TwoOrders == {1, 2}
OrderOfC1 == [o \in Orders |-> c1]
RequestForC1 == [r \in Requests |-> c1]

NoFaults == {}
PublishFails == {"publish"}
ProviderAndDatabaseFail == {"capture", "commit", "decline"}

\* Workers and requests are interchangeable; used for invariants only.
Interchangeable == Permutations(Workers) \cup Permutations(Requests)
===============================================================================
