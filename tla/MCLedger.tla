-------------------------------- MODULE MCLedger --------------------------------
(***************************************************************************)
(* Instances for TLC, in two scenes that share no state: sessions that     *)
(* append and requests that seal, interchangeable for what is checked; and *)
(* one chain across the migration of V009, with the checks made of it.     *)
(***************************************************************************)
EXTENDS Ledger, ChainAudit, TLC

VARIABLE scene

NoFaults == {}
EverythingFails == AllFaults

Interchangeable == Permutations(Sessions) \cup Permutations(Sealers)

\* One object with its members set in two orders, at both of its levels, and with both
\* zeros, two arrays of the same numbers, and a payload that has no canonical form.
KeyA  == <<97>>
KeyAA == <<97, 97>>
KeyB  == <<98>>
SomePayloads ==
  {Obj(<<Member(KeyB, Obj(<<Member(KeyB, Num(1)), Member(KeyAA, MinusZero)>>)),
         Member(KeyAA, Num(1))>>),
   Obj(<<Member(KeyAA, Num(1)),
         Member(KeyB, Obj(<<Member(KeyAA, Num(0)), Member(KeyB, Num(1))>>))>>),
   Obj(<<Member(KeyA, Arr(<<Num(1), Num(2)>>))>>),
   Obj(<<Member(KeyA, Arr(<<Num(1), Arr(<<Num(2)>>)>>))>>),
   Obj(<<Member(KeyA, Unanchorable)>>)}

MCInit == Init /\ AuditInit /\ scene \in {"append", "audit"}

Appending == scene = "append" /\ Next /\ UNCHANGED <<audit, scene>>
Auditing  == /\ scene = "audit" /\ chain = {}
             /\ AuditNext /\ UNCHANGED <<vars, scene>>

MCSpec == MCInit /\ [][Appending \/ Auditing]_<<vars, audit, scene>>
===============================================================================
