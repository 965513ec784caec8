------------------------------ MODULE LedgerProofs ------------------------------
(***************************************************************************)
(* Proofs about modules Ledger, Merkle, Canonical and ChainAudit: for any  *)
(* number of sessions, appends and failures, what is in the chain; for     *)
(* requests that overlap, the signature of its root; for any list of       *)
(* leaves, what its root and the proofs under it say; for any JSON values, *)
(* when their canonical texts are equal; and for any chain and any changes *)
(* to it, what verifying it tells.                                         *)
(***************************************************************************)
EXTENDS Ledger, ChainAudit, Integers, WellFoundedInduction, FiniteSetTheorems, SequenceTheorems, TLAPS

\* Entries a session has inserted and not committed exist in these steps only.
Inserted == {"unlock", "stage", "open", "commit"}

\* The sequence is ahead of every id in use.
IdsDrawn ==
  /\ \A e \in chain : e.id <= lastId
  /\ \A s \in Sessions : tail[s] <= lastId /\ \A e \in draft[s] : e.id <= lastId

\* What a session links to is GENESIS or committed.
TailCommitted ==
  \A s \in Sessions :
    /\ tail[s] = 0 \/ \E d \in chain : d.id = tail[s]
    /\ \A e \in draft[s] : e.prev = 0 \/ \E d \in chain : d.id = e.prev /\ d.id < e.id

\* A call is served by one session, and until it ends nothing of it is committed.
CallsApart ==
  /\ \A s \in Sessions : call[s] <= calls /\ (pc[s] = "idle" <=> call[s] = 0)
  /\ \A s, t \in Sessions : call[s] = call[t] /\ call[s] # 0 => s = t
  /\ \A e \in chain : e.call <= calls /\ \A s \in Sessions : e.call = call[s] => e.call = 0

\* The open transaction holds the entry of its call, and its event if it has one.
DraftOfCall ==
  \A s \in Sessions :
    /\ \A d, e \in draft[s] : d = e
    /\ \A e \in draft[s] : e.call = call[s]
    /\ pc[s] \notin Inserted => draft[s] = {} /\ staged[s] = {}
    /\ pc[s] \in Inserted => draft[s] # {}
    /\ staged[s] \subseteq {call[s]}

\* A session reads and inserts under the lock, and one that appends through the
\* outbox commits after it has staged.
StepsInOrder ==
  \A s \in Sessions :
    /\ pc[s] \in {"read", "insert", "unlock"} => depth[s] > 0
    /\ pc[s] = "open" => mode[s] = "appendWith"
    /\ pc[s] = "commit" /\ mode[s] \in {"outbox", "fallback"} => call[s] \in staged[s]

IInv ==
  /\ TypeOK
  /\ IdsDrawn
  /\ TailCommitted
  /\ CallsApart
  /\ DraftOfCall
  /\ StepsInOrder
  /\ CallAppendsOnce
  /\ LinkedToCommitted

\* A call ends, or falls back on appending by hand, with nothing committed.
LEMMA ThrowPreserves ==
  ASSUME IInv, NEW s \in Sessions, pc[s] # "idle", Finish(s) \/ Throw(s),
         lastId' \in {lastId, lastId + 1}, failures' \in 0..MaxFaults,
         depth' \in {depth, [depth EXCEPT ![s] = 0]}, UNCHANGED <<chain, outbox, calls, seal>>
  PROVE  IInv'
PROOF
  <1>1. TypeOK'
    <2>1. chain' \in SUBSET Entry /\ draft' \in [Sessions -> SUBSET Entry]
      BY ConstantsAssumption, SMTT(30) DEF Finish, Throw, Goto, IInv, TypeOK
    <2>2. outbox' \in SUBSET (1..MaxCalls)
      BY DEF IInv, TypeOK
    <2>3. /\ staged' \in [Sessions -> SUBSET (1..MaxCalls)]
          /\ call' \in [Sessions -> 0..MaxCalls] /\ tail' \in [Sessions -> Nat]
      BY ConstantsAssumption, SMTT(30) DEF Finish, Throw, Goto, IInv, TypeOK
    <2>4. /\ pc' \in [Sessions -> {"idle", "lock", "read", "insert", "unlock", "stage", "open", "commit"}]
          /\ mode' \in [Sessions -> Modes \cup {None}]
          /\ depth' \in [Sessions -> Nat]
      BY SMTT(30) DEF Finish, Throw, Goto, IInv, TypeOK, Modes
    <2> QED BY <2>1, <2>2, <2>3, <2>4 DEF IInv, TypeOK, seal
  <1>2. IdsDrawn'
    BY SMTT(30) DEF Finish, Throw, Goto, IInv, TypeOK, IdsDrawn, Inserted, Entry, Modes, seal
  <1>3. TailCommitted'
    BY SMTT(30) DEF Finish, Throw, Goto, IInv, TypeOK, TailCommitted, IdsDrawn, Inserted, Entry, Modes, seal
  <1>4. CallsApart'
    BY SMTT(30) DEF Finish, Throw, Goto, IInv, TypeOK, CallsApart, DraftOfCall, Inserted, Entry, Modes, seal
  <1>5. DraftOfCall'
    BY SMTT(30) DEF Finish, Throw, Goto, IInv, TypeOK, DraftOfCall, CallsApart, StepsInOrder, Inserted, Entry, Modes, seal
  <1>6. StepsInOrder'
    BY SMTT(30) DEF Finish, Throw, Goto, IInv, TypeOK, StepsInOrder, DraftOfCall, Inserted, Entry, Modes, seal
  <1>7. CallAppendsOnce'
    BY SMTT(30) DEF Finish, Throw, Goto, IInv, TypeOK, CallAppendsOnce, CallsApart, DraftOfCall, Inserted, Entry, Modes, seal
  <1>8. LinkedToCommitted'
    BY SMTT(30) DEF Finish, Throw, Goto, IInv, TypeOK, LinkedToCommitted, TailCommitted, IdsDrawn, Inserted, Entry, Modes, seal
  <1> QED BY <1>1, <1>2, <1>3, <1>4, <1>5, <1>6, <1>7, <1>8 DEF IInv

\* A call ends with its transaction committed.
LEMMA CommitPreserves ==
  ASSUME IInv, NEW s \in Sessions, pc[s] = "commit", Finish(s),
         chain' = chain \cup draft[s], outbox' = outbox \cup staged[s],
         failures' \in 0..MaxFaults,
         depth' \in {depth, [depth EXCEPT ![s] = 0]}, UNCHANGED <<lastId, calls, seal>>
  PROVE  IInv'
PROOF
  <1>1. TypeOK'
    <2>1. chain' \in SUBSET Entry /\ draft' \in [Sessions -> SUBSET Entry]
      BY ConstantsAssumption, SMTT(30) DEF Finish, Goto, IInv, TypeOK
    <2>2. outbox' \in SUBSET (1..MaxCalls)
      <3>1. staged[s] \subseteq 1..MaxCalls /\ outbox \subseteq 1..MaxCalls
        BY DEF IInv, TypeOK
      <3> QED BY <3>1
    <2>3. /\ staged' \in [Sessions -> SUBSET (1..MaxCalls)]
          /\ call' \in [Sessions -> 0..MaxCalls] /\ tail' \in [Sessions -> Nat]
      BY ConstantsAssumption, SMTT(30) DEF Finish, Goto, IInv, TypeOK
    <2>4. /\ pc' \in [Sessions -> {"idle", "lock", "read", "insert", "unlock", "stage", "open", "commit"}]
          /\ mode' \in [Sessions -> Modes \cup {None}]
          /\ depth' \in [Sessions -> Nat]
      BY SMTT(30) DEF Finish, Goto, IInv, TypeOK, Modes
    <2> QED BY <2>1, <2>2, <2>3, <2>4 DEF IInv, TypeOK, seal
  <1>2. IdsDrawn'
    BY SMTT(30) DEF Finish, Goto, IInv, TypeOK, IdsDrawn, Inserted, Entry, Modes, seal
  <1>3. TailCommitted'
    BY SMTT(30) DEF Finish, Goto, IInv, TypeOK, TailCommitted, IdsDrawn, Inserted, Entry, Modes, seal
  <1>4. CallsApart'
    BY SMTT(30) DEF Finish, Goto, IInv, TypeOK, CallsApart, DraftOfCall, Inserted, Entry, Modes, seal
  <1>5. DraftOfCall'
    BY SMTT(30) DEF Finish, Goto, IInv, TypeOK, DraftOfCall, CallsApart, StepsInOrder, Inserted, Entry, Modes, seal
  <1>6. StepsInOrder'
    BY SMTT(30) DEF Finish, Goto, IInv, TypeOK, StepsInOrder, DraftOfCall, Inserted, Entry, Modes, seal
  <1>7. CallAppendsOnce'
    BY SMTT(30) DEF Finish, Goto, IInv, TypeOK, CallAppendsOnce, CallsApart, DraftOfCall, Inserted, Entry, Modes, seal
  <1>8. LinkedToCommitted'
    BY SMTT(30) DEF Finish, Goto, IInv, TypeOK, LinkedToCommitted, TailCommitted, IdsDrawn, Inserted, Entry, Modes, seal
  <1> QED BY <1>1, <1>2, <1>3, <1>4, <1>5, <1>6, <1>7, <1>8 DEF IInv

\* A call gets a session, its lock and the tail.
LEMMA BeginPreserves ==
  ASSUME IInv, NEW s \in Sessions, Call(s) \/ Lock(s) \/ ReadTail(s) \/ Reap(s)
  PROVE  IInv'
PROOF
  <1> USE ConstantsAssumption
      DEF IInv, TypeOK, IdsDrawn, TailCommitted, CallsApart, DraftOfCall, StepsInOrder,
          CallAppendsOnce, LinkedToCommitted, Inserted, Entry, Modes, Goto, seal
  <1>1. CASE Call(s)
    BY <1>1 DEF Call
  <1>2. CASE Lock(s)
    BY <1>2 DEF Lock
  <1>3. CASE ReadTail(s)
    BY <1>3 DEF ReadTail, Ids
  <1>4. CASE Reap(s)
    BY <1>4 DEF Reap
  <1> QED BY <1>1, <1>2, <1>3, <1>4

\* The root is sealed and signed beside the appends.
LEMMA SealPreserves ==
  ASSUME IInv, NEW a \in Sealers, ReadChain(a) \/ StoreRoot(a) \/ GetRoot(a) \/ StoreSignature(a)
  PROVE  IInv'
PROOF
  <1> USE ConstantsAssumption
      DEF IInv, TypeOK, IdsDrawn, TailCommitted, CallsApart, DraftOfCall, StepsInOrder,
          CallAppendsOnce, LinkedToCommitted, Inserted, Entry, Modes, Goto, seal
  <1>1. CASE ReadChain(a)
    BY <1>1 DEF ReadChain, SealerGoto, appending, session
  <1>2. CASE StoreRoot(a)
    BY <1>2 DEF StoreRoot, SealerGoto, appending, session
  <1>3. CASE GetRoot(a)
    BY <1>3 DEF GetRoot, SealerGoto, appending, session
  <1>4. CASE StoreSignature(a)
    BY <1>4 DEF StoreSignature, SealerGoto, appending, session
  <1> QED BY <1>1, <1>2, <1>3, <1>4

\* The statements of the transaction, some of which may throw.
LEMMA WritePreserves ==
  ASSUME IInv, NEW s \in Sessions,
         Insert(s) \/ Unlock(s) \/ Stage(s) \/ Proceed(s) \/ Commit(s) \/ Disconnect(s)
  PROVE  IInv'
PROOF
  <1>1. ASSUME pc[s] # "idle", \E op \in Faults : Fails(op), Finish(s) \/ Throw(s),
               lastId' \in {lastId, lastId + 1}, depth' \in {depth, [depth EXCEPT ![s] = 0]},
               UNCHANGED <<chain, outbox, calls, seal>>
        PROVE  IInv'
    <2>1. failures' \in 0..MaxFaults
      BY <1>1, ConstantsAssumption DEF Fails, IInv, TypeOK
    <2> QED BY <1>1, <2>1, ThrowPreserves
  <1>2. depth \in [Sessions -> Nat] /\ failures \in 0..MaxFaults /\ lastId \in Nat
    BY DEF IInv, TypeOK
  <1>3. CASE Insert(s)
    <2> DEFINE new == [id |-> lastId + 1, prev |-> tail[s], call |-> call[s]]
    <2>1. CASE Fails("insert") /\ Throw(s)
      BY <1>1, <1>2, <1>3, <2>1 DEF Insert, Fails
    <2>2. CASE /\ draft' = [draft EXCEPT ![s] = @ \cup {new}]
               /\ Goto(s, "unlock")
               /\ UNCHANGED <<mode, call, tail, staged, failures>>
      <3> USE <1>3, <2>2, ConstantsAssumption
      <3>0. new \in Entry /\ pc[s] = "insert" /\ draft[s] = {} /\ draft'[s] = {new}
        BY DEF Insert, IInv, TypeOK, Entry, DraftOfCall, Inserted
      <3>1. TypeOK'
        BY <3>0 DEF Insert, Goto, IInv, TypeOK, CallsApart, StepsInOrder, Inserted, Entry, Modes, seal
      <3>2. IdsDrawn'
        BY <3>0 DEF Insert, Goto, IInv, TypeOK, IdsDrawn, Inserted, Entry, Modes, seal
      <3>3. TailCommitted'
        BY <3>0 DEF Insert, Goto, IInv, TypeOK, TailCommitted, IdsDrawn, Inserted, Entry, Modes, seal
      <3>4. CallsApart'
        BY <3>0 DEF Insert, Goto, IInv, TypeOK, CallsApart, DraftOfCall, Inserted, Entry, Modes, seal
      <3>5. DraftOfCall'
        <4>1. \A t \in Sessions \ {s} : draft'[t] = draft[t] /\ pc'[t] = pc[t]
          BY DEF Goto, IInv, TypeOK
        <4>2. pc'[s] = "unlock" /\ staged[s] = {} /\ new.call = call[s]
          BY <3>0 DEF Goto, IInv, TypeOK, DraftOfCall, Inserted
        <4> QED BY <3>0, <4>1, <4>2 DEF IInv, DraftOfCall, Inserted
      <3>6. StepsInOrder'
        BY <3>0 DEF Insert, Goto, IInv, TypeOK, StepsInOrder, DraftOfCall, Inserted, Entry, Modes, seal
      <3>7. CallAppendsOnce'
        BY <3>0 DEF Insert, Goto, IInv, TypeOK, CallAppendsOnce, CallsApart, DraftOfCall, Inserted, Entry, Modes, seal
      <3>8. LinkedToCommitted'
        BY <3>0 DEF Insert, Goto, IInv, TypeOK, LinkedToCommitted, TailCommitted, IdsDrawn, Inserted, Entry, Modes, seal
      <3> QED BY <3>1, <3>2, <3>3, <3>4, <3>5, <3>6, <3>7, <3>8 DEF IInv
    <2> QED BY <1>3, <2>1, <2>2 DEF Insert
  <1>4. CASE Unlock(s)
    <2> USE <1>4
    <2>0. PICK step \in {"commit", "open", "stage"} :
            /\ pc' = [pc EXCEPT ![s] = step]
            /\ step = "open" => mode[s] = "appendWith"
            /\ step = "commit" => mode[s] = "append"
      BY DEF Unlock, Goto
    <2>1. TypeOK'
      BY <2>0 DEF Unlock, IInv, TypeOK, CallsApart, StepsInOrder, Inserted, Entry, Modes, seal
    <2>2. IdsDrawn'
      BY <2>0 DEF Unlock, IInv, TypeOK, IdsDrawn, Inserted, Entry, Modes, seal
    <2>3. TailCommitted'
      BY <2>0 DEF Unlock, IInv, TypeOK, TailCommitted, IdsDrawn, Inserted, Entry, Modes, seal
    <2>4. CallsApart'
      BY <2>0 DEF Unlock, IInv, TypeOK, CallsApart, DraftOfCall, Inserted, Entry, Modes, seal
    <2>5. DraftOfCall'
      BY <2>0 DEF Unlock, IInv, TypeOK, DraftOfCall, CallsApart, StepsInOrder, Inserted, Entry, Modes, seal
    <2>6. StepsInOrder'
      BY <2>0 DEF Unlock, IInv, TypeOK, StepsInOrder, DraftOfCall, Inserted, Entry, Modes, seal
    <2>7. CallAppendsOnce'
      BY <2>0 DEF Unlock, IInv, TypeOK, CallAppendsOnce, CallsApart, DraftOfCall, Inserted, Entry, Modes, seal
    <2>8. LinkedToCommitted'
      BY <2>0 DEF Unlock, IInv, TypeOK, LinkedToCommitted, TailCommitted, IdsDrawn, Inserted, Entry, Modes, seal
    <2> QED BY <2>1, <2>2, <2>3, <2>4, <2>5, <2>6, <2>7, <2>8 DEF IInv
  <1>5. CASE Stage(s)
    <2>1. CASE Fails("stage") /\ Throw(s)
      BY <1>1, <1>2, <1>5, <2>1 DEF Stage, Fails
    <2>2. CASE /\ staged' = [staged EXCEPT ![s] = @ \cup {call[s]}]
               /\ Goto(s, "commit")
               /\ UNCHANGED <<mode, call, tail, draft, failures>>
      <3> USE <1>5, <2>2, ConstantsAssumption
      <3>0. pc[s] = "stage" /\ call[s] \in 1..MaxCalls /\ staged'[s] = {call[s]}
        BY DEF Stage, IInv, TypeOK, CallsApart, DraftOfCall
      <3>1. TypeOK'
        BY <3>0 DEF Stage, Goto, IInv, TypeOK, CallsApart, StepsInOrder, Inserted, Entry, Modes, seal
      <3>2. IdsDrawn'
        BY <3>0 DEF Stage, Goto, IInv, TypeOK, IdsDrawn, Inserted, Entry, Modes, seal
      <3>3. TailCommitted'
        BY <3>0 DEF Stage, Goto, IInv, TypeOK, TailCommitted, IdsDrawn, Inserted, Entry, Modes, seal
      <3>4. CallsApart'
        BY <3>0 DEF Stage, Goto, IInv, TypeOK, CallsApart, DraftOfCall, Inserted, Entry, Modes, seal
      <3>5. DraftOfCall'
        BY <3>0 DEF Stage, Goto, IInv, TypeOK, DraftOfCall, CallsApart, StepsInOrder, Inserted, Entry, Modes, seal
      <3>6. StepsInOrder'
        BY <3>0 DEF Stage, Goto, IInv, TypeOK, StepsInOrder, DraftOfCall, Inserted, Entry, Modes, seal
      <3>7. CallAppendsOnce'
        BY <3>0 DEF Stage, Goto, IInv, TypeOK, CallAppendsOnce, CallsApart, DraftOfCall, Inserted, Entry, Modes, seal
      <3>8. LinkedToCommitted'
        BY <3>0 DEF Stage, Goto, IInv, TypeOK, LinkedToCommitted, TailCommitted, IdsDrawn, Inserted, Entry, Modes, seal
      <3> QED BY <3>1, <3>2, <3>3, <3>4, <3>5, <3>6, <3>7, <3>8 DEF IInv
    <2> QED BY <1>5, <2>1, <2>2 DEF Stage
  <1>6. CASE Proceed(s)
    <2>1. CASE Fails("stage") /\ Throw(s)
      BY <1>1, <1>2, <1>6, <2>1 DEF Proceed, Fails
    <2>2. CASE Goto(s, "commit") /\ UNCHANGED <<mode, call, tail, draft, staged, failures>>
      <3> USE <1>6, <2>2
      <3>1. TypeOK'
        BY SMT DEF Proceed, Goto, IInv, TypeOK, CallsApart, StepsInOrder, Inserted, Entry, Modes, seal
      <3>2. IdsDrawn'
        BY SMT DEF Proceed, Goto, IInv, TypeOK, IdsDrawn, Inserted, Entry, Modes, seal
      <3>3. TailCommitted'
        BY SMT DEF Proceed, Goto, IInv, TypeOK, TailCommitted, IdsDrawn, Inserted, Entry, Modes, seal
      <3>4. CallsApart'
        BY SMT DEF Proceed, Goto, IInv, TypeOK, CallsApart, DraftOfCall, Inserted, Entry, Modes, seal
      <3>5. DraftOfCall'
        BY SMT DEF Proceed, Goto, IInv, TypeOK, DraftOfCall, CallsApart, StepsInOrder, Inserted, Entry, Modes, seal
      <3>6. StepsInOrder'
        BY SMT DEF Proceed, Goto, IInv, TypeOK, StepsInOrder, DraftOfCall, Inserted, Entry, Modes, seal
      <3>7. CallAppendsOnce'
        BY SMT DEF Proceed, Goto, IInv, TypeOK, CallAppendsOnce, CallsApart, DraftOfCall, Inserted, Entry, Modes, seal
      <3>8. LinkedToCommitted'
        BY SMT DEF Proceed, Goto, IInv, TypeOK, LinkedToCommitted, TailCommitted, IdsDrawn, Inserted, Entry, Modes, seal
      <3> QED BY <3>1, <3>2, <3>3, <3>4, <3>5, <3>6, <3>7, <3>8 DEF IInv
    <2> QED BY <1>6, <2>1, <2>2 DEF Proceed
  <1>7. CASE Commit(s)
    BY <1>2, <1>7, CommitPreserves DEF Commit
  <1>8. CASE Disconnect(s)
    <2>1. /\ failures' \in 0..MaxFaults /\ depth' \in {depth, [depth EXCEPT ![s] = 0]}
          /\ Finish(s) /\ pc[s] # "idle" /\ UNCHANGED <<lastId, calls, seal>>
      BY <1>2, <1>8, ConstantsAssumption DEF Disconnect, Fails
    <2>2. CASE UNCHANGED <<chain, outbox>>
      BY <1>2, <2>1, <2>2, ThrowPreserves
    <2>3. CASE pc[s] = "commit" /\ chain' = chain \cup draft[s] /\ outbox' = outbox \cup staged[s]
      BY <2>1, <2>3, CommitPreserves
    <2> QED BY <1>8, <2>2, <2>3 DEF Disconnect
  <1> QED BY <1>3, <1>4, <1>5, <1>6, <1>7, <1>8

\* The chain, the outbox and the open transactions agree in every reachable state.
THEOREM Invariance == Spec => []IInv
PROOF
  <1> USE ConstantsAssumption
      DEF IInv, TypeOK, IdsDrawn, TailCommitted, CallsApart, DraftOfCall, StepsInOrder,
          CallAppendsOnce, LinkedToCommitted, Inserted
  <1>1. Init => IInv
    <2> SUFFICES ASSUME Init PROVE IInv
      OBVIOUS
    <2>1. PICK n \in Histories : chain = History(n) /\ lastId = n
      BY DEF Init
    <2>2. /\ n \in Nat /\ chain \in SUBSET Entry
          /\ \A e \in chain : e.id \in 1..n /\ e.prev = e.id - 1 /\ e.call = 0
          /\ \A i \in 1..n : \E e \in chain : e.id = i
          /\ \A d, e \in chain : d.id = e.id => d = e
      <3>1. n \in Nat
        BY <2>1
      <3>2. \A e \in chain : \E i \in 1..n : e = [id |-> i, prev |-> i - 1, call |-> 0]
        BY <2>1 DEF History
      <3>3. \A i \in 1..n : [id |-> i, prev |-> i - 1, call |-> 0] \in chain
        BY <2>1 DEF History
      <3>4. \A i \in 1..n : [id |-> i, prev |-> i - 1, call |-> 0] \in Entry
        BY <3>1 DEF Entry
      <3>5. chain \in SUBSET Entry
        BY <3>2, <3>4
      <3>6. \A e \in chain : e.id \in 1..n /\ e.prev = e.id - 1 /\ e.call = 0
        BY <3>1, <3>2
      <3>7. \A i \in 1..n : \E e \in chain : e.id = i
        BY <3>3
      <3>8. \A d, e \in chain : d.id = e.id => d = e
        BY <3>2
      <3> QED BY <3>1, <3>5, <3>6, <3>7, <3>8
    <2>3. LinkedToCommitted
      BY <2>2 DEF Entry
    <2> QED BY <2>1, <2>2, <2>3 DEF Init
  <1>2. IInv /\ [Next]_vars => IInv'
    <2> SUFFICES ASSUME IInv, [Next]_vars PROVE IInv'
      OBVIOUS
    <2>1. CASE UNCHANGED vars
      BY <2>1 DEF vars, session, seal
    <2> QED BY <2>1, BeginPreserves, WritePreserves, SealPreserves DEF Next, SessionStep
  <1> QED BY <1>1, <1>2, PTL DEF Spec

\* However appends overlap, fail half-way, fall back or lose their connection, a call
\* appends one entry at most, and an event never goes out without its entry.
THEOREM AppendedOnce == Spec => []CallAppendsOnce
PROOF
  <1>1. IInv => CallAppendsOnce
    BY DEF IInv
  <1> QED BY <1>1, Invariance, PTL

\* An entry links to GENESIS or to an older committed entry: append_ledger reads what
\* is committed, under whatever lock.
THEOREM LinksAreCommitted == Spec => []LinkedToCommitted
PROOF
  <1>1. IInv => LinkedToCommitted
    BY DEF IInv
  <1> QED BY <1>1, Invariance, PTL

\* append_ledger_and_outbox and the fallback stage the event before the COMMIT that
\* makes its entry last.
THEOREM EntryHasEvent == Spec => EventWithEntry
PROOF
  <1> DEFINE Together ==
        \A s \in Sessions :
          mode[s] \in {"outbox", "fallback"} =>
            \A e \in chain' \ chain : e.call = call[s] => call[s] \in outbox'
  <1>1. IInv /\ [Next]_vars => Together
    <2> SUFFICES ASSUME IInv, [Next]_vars PROVE Together
      OBVIOUS
    <2>1. CASE UNCHANGED chain
      BY <2>1
    <2>2. ASSUME NEW t \in Sessions, pc[t] = "commit",
                 chain' = chain \cup draft[t], outbox' = outbox \cup staged[t]
          PROVE  Together
      BY <2>2 DEF IInv, TypeOK, CallsApart, DraftOfCall, StepsInOrder
    <2>3. ASSUME NEW t \in Sessions, Call(t) \/ SessionStep(t) \/ Disconnect(t) \/ Reap(t)
          PROVE  Together
      BY <2>1, <2>2, <2>3
      DEF Call, SessionStep, Lock, ReadTail, Insert, Unlock, Stage, Proceed, Commit, Disconnect, Reap
    <2>4. ASSUME NEW a \in Sealers, ReadChain(a) \/ StoreRoot(a) \/ GetRoot(a) \/ StoreSignature(a)
          PROVE  UNCHANGED chain
      BY <2>4 DEF ReadChain, StoreRoot, GetRoot, StoreSignature, appending
    <2> QED BY <2>1, <2>3, <2>4 DEF Next, vars
  <1> QED BY <1>1, Invariance, PTL DEF Spec, EventWithEntry

\* storeRootSignature's condition on the root and the upsert's reset of the signature
\* keep a stale signature from covering the tree that is stored.
THEOREM SignatureIsOfRoot == Spec => []SignatureCoversRoot
PROOF
  <1> USE DEF SignatureCoversRoot
  <1>1. Init => SignatureCoversRoot
    BY DEF Init
  <1>2. SignatureCoversRoot /\ [Next]_vars => SignatureCoversRoot'
    <2> SUFFICES ASSUME SignatureCoversRoot, [Next]_vars PROVE SignatureCoversRoot'
      OBVIOUS
    <2>1. ASSUME NEW s \in Sessions, Call(s) \/ SessionStep(s) \/ Disconnect(s) \/ Reap(s)
          PROVE  UNCHANGED seal
      BY <2>1 DEF Call, SessionStep, Lock, ReadTail, Insert, Unlock, Stage, Proceed, Commit, Disconnect, Reap
    <2>2. ASSUME NEW a \in Sealers, StoreRoot(a) \/ StoreSignature(a) PROVE SignatureCoversRoot'
      BY <2>2 DEF StoreRoot, StoreSignature
    <2>3. ASSUME NEW a \in Sealers, ReadChain(a) \/ GetRoot(a) PROVE UNCHANGED <<root, signed>>
      BY <2>3 DEF ReadChain, GetRoot
    <2> QED BY <2>1, <2>2, <2>3 DEF Next, vars, seal
  <1> QED BY <1>1, <1>2, PTL DEF Spec

-------------------------------------------------------------------------------
\* Numbers, sequences and recursion.

\* A non-empty set of numbers has a least one: the well-foundedness of < as a fact about
\* sets, which takes no operator.
LEMMA LeastNumber ==
  ASSUME NEW S \in SUBSET Nat, S # {}
  PROVE  \E n \in S : \A m \in S : n <= m
PROOF
  <1> DEFINE R == OpToRel(<, Nat)
  <1>1. PICK n \in S : \A m \in S : <<m, n>> \notin R
    <2>1. IsWellFoundedOn(R, Nat)
      BY NatLessThanWellFounded
    <2> HIDE DEF R
    <2> QED BY <2>1, WFMin
  <1>2. \A l, m \in Nat : <<m, l>> \notin R => l <= m
    <2>1. \A l, m \in Nat : <<m, l>> \notin R => ~(m < l)
      BY Zenon DEF OpToRel
    <2> HIDE DEF R
    <2> QED BY <2>1
  <1> HIDE DEF R
  <1>3. ASSUME NEW m \in S PROVE n <= m
    BY <1>1, <1>2
  <1> QED BY <1>3

\* Induction, on a set of numbers.
LEMMA Induction ==
  ASSUME NEW S \in SUBSET Nat, 0 \in S, \A n \in S : n + 1 \in S
  PROVE  S = Nat
PROOF
  <1> SUFFICES ASSUME S # Nat PROVE FALSE
    OBVIOUS
  <1> DEFINE T == Nat \ S
  <1>1. PICK n \in T : \A m \in T : n <= m
    BY LeastNumber
  <1>2. n # 0 /\ n \in Nat /\ n - 1 \in Nat /\ ~(n <= n - 1)
    BY <1>1
  <1>3. n - 1 \in S
    BY <1>1, <1>2
  <1>4. (n - 1) + 1 = n
    BY <1>2
  <1> QED BY <1>1, <1>3, <1>4

\* A sequence, of whatever its elements are.
IsSeq(s) == s \in Seq({s[i] : i \in DOMAIN s})

\* A sequence is its elements in their places, and whatever is that is a sequence.
LEMMA SeqIs ==
  ASSUME NEW s, IsSeq(s)
  PROVE  Len(s) \in Nat /\ DOMAIN s = 1..Len(s) /\ s = [i \in 1..Len(s) |-> s[i]]
PROOF BY DEF IsSeq

LEMMA IsSeqIf ==
  ASSUME NEW n \in Nat, NEW s, s = [i \in 1..n |-> s[i]]
  PROVE  IsSeq(s) /\ Len(s) = n
PROOF
  <1> DEFINE R == {s[i] : i \in DOMAIN s}
  <1>1. DOMAIN s = 1..n
    OBVIOUS
  <1>2. \A i \in 1..n : s[i] \in R
    BY <1>1
  <1> HIDE DEF R
  <1>3. s \in [1..n -> R]
    BY <1>2
  <1>4. s \in Seq(R)
    BY <1>3, SeqDef
  <1>5. Len(s) = n
    BY <1>1, <1>4
  <1> QED BY <1>4, <1>5 DEF IsSeq, R

\* Sequences with the same elements in the same places are equal.
LEMMA SameSeq ==
  ASSUME NEW s, IsSeq(s), NEW t, IsSeq(t), Len(s) = Len(t), \A i \in 1..Len(s) : s[i] = t[i]
  PROVE  s = t
PROOF
  <1>1. s = [i \in 1..Len(s) |-> s[i]] /\ t = [i \in 1..Len(s) |-> t[i]]
    BY SeqIs
  <1> QED BY <1>1

\* What is left of a level.
LEMMA Halves ==
  ASSUME NEW n \in Nat
  PROVE  /\ Half(n) \in Nat /\ n <= 2 * Half(n) /\ 2 * Half(n) <= n + 1
         /\ n > 0 => Half(n) > 0
         /\ n > 1 => Half(n) < n
PROOF BY DEF Half

\* buildLevels' inner loop: the pairs, and the odd one at the end.
LEMMA ParentsAre ==
  ASSUME NEW A, IsSeq(A)
  PROVE  /\ IsSeq(Parents(A)) /\ Len(Parents(A)) = Half(Len(A))
         /\ \A i \in 1..Half(Len(A)) :
              /\ 2*i - 1 \in 1..Len(A)
              /\ 2*i <= Len(A) => Parents(A)[i] = HashNode(A[2*i - 1], A[2*i])
              /\ 2*i > Len(A) => Parents(A)[i] = A[2*i - 1] /\ 2*i - 1 = Len(A)
PROOF
  <1> DEFINE n == Len(A)   P == Parents(A)
  <1>1. n \in Nat
    BY SeqIs
  <1>2. /\ Half(n) \in Nat /\ n <= 2 * Half(n) /\ 2 * Half(n) <= n + 1
    BY <1>1, Halves
  <1>3. P = [i \in 1..Half(n) |-> IF 2*i <= n THEN HashNode(A[2*i - 1], A[2*i]) ELSE A[2*i - 1]]
    BY DEF Parents
  <1> HIDE DEF P, n
  <1>4. P = [i \in 1..Half(n) |-> P[i]]
    BY <1>3
  <1>5. IsSeq(P) /\ Len(P) = Half(n)
    BY <1>2, <1>4, IsSeqIf
  <1>6. ASSUME NEW i \in 1..Half(n)
        PROVE  /\ 2*i - 1 \in 1..n
               /\ 2*i <= n => P[i] = HashNode(A[2*i - 1], A[2*i])
               /\ 2*i > n => P[i] = A[2*i - 1] /\ 2*i - 1 = n
    <2>1. i \in Nat /\ i >= 1 /\ i <= Half(n)
      BY <1>2
    <2>2. P[i] = IF 2*i <= n THEN HashNode(A[2*i - 1], A[2*i]) ELSE A[2*i - 1]
      BY <1>3
    <2>3. 2*i - 1 \in 1..n /\ (2*i > n => 2*i - 1 = n) /\ (2*i > n <=> ~(2*i <= n))
      BY <1>1, <1>2, <2>1
    <2> QED BY <2>2, <2>3
  <1> QED BY <1>5, <1>6 DEF P, n

-------------------------------------------------------------------------------
\* The recursions of Merkle have the values their definitions say.

\* One step of the recursion that builds the levels, walks up them, or hashes a path.
Step(of, with, prev, j) ==
  CASE of = "levels"  -> Parents(prev)
    [] of = "walk"    -> Climb(prev, Level(with, j - 1))
    [] of = "running" -> Combine(with[j], prev)
    [] of = "inside"  -> Contents(prev)
    [] of = "facing"  -> Opposites(prev)
    [] of = "written" -> SerializeAll(prev)
    [] of = "flat"    -> prev \o with[j]
    [] of = "stored"  -> Stored(with, j, prev)

IsRecursion(f, of, with, a) ==
  f = [j \in Nat |-> IF j = 0 THEN a ELSE Step(of, with, f[j - 1], j)]

Values(of, with, a) == CHOOSE f : IsRecursion(f, of, with, a)

\* A function defined by recursion on the number of steps exists: its beginnings do, by
\* induction, and any two of them agree.
LEMMA RecursionExists ==
  ASSUME NEW of, NEW with, NEW a
  PROVE  \E f : IsRecursion(f, of, with, a)
PROOF
  <1> DEFINE Approx(g, n) == g = [j \in 0..n |-> IF j = 0 THEN a ELSE Step(of, with, g[j - 1], j)]
             S == {n \in Nat : \E g : Approx(g, n)}
  <1>1. S = Nat
    <2>1. 0 \in S
      <3> DEFINE g == [j \in 0..0 |-> a]
      <3>1. Approx(g, 0)
        OBVIOUS
      <3> QED BY <3>1
    <2>2. ASSUME NEW n \in S PROVE n + 1 \in S
      <3>1. PICK g : Approx(g, n)
        OBVIOUS
      <3> DEFINE h == [j \in 0..(n + 1) |-> IF j = 0 THEN a ELSE Step(of, with, g[j - 1], j)]
      <3>2. n \in Nat
        OBVIOUS
      <3>3. ASSUME NEW j \in 0..(n + 1), j # 0 PROVE h[j - 1] = g[j - 1]
        <4>1. j - 1 \in 0..n /\ j - 1 \in 0..(n + 1)
          BY <3>2, <3>3
        <4>2. g[j - 1] = IF j - 1 = 0 THEN a ELSE Step(of, with, g[(j - 1) - 1], j - 1)
          BY <3>1, <4>1
        <4> QED BY <4>1, <4>2
      <3>4. Approx(h, n + 1)
        BY <3>3
      <3>5. n + 1 \in Nat
        BY <3>2
      <3> HIDE DEF h, Approx
      <3> QED BY <3>4, <3>5
    <2> HIDE DEF S
    <2>3. S \in SUBSET Nat
      BY DEF S
    <2> QED BY <2>1, <2>2, <2>3, Induction
  <1>2. ASSUME NEW g, NEW h, NEW m \in Nat, NEW n \in Nat, m <= n, Approx(g, m), Approx(h, n)
        PROVE  \A j \in 0..m : g[j] = h[j]
    <2> DEFINE T == {j \in Nat : j <= m => g[j] = h[j]}
    <2>1. 0 \in T
      <3>1. 0 \in 0..m /\ 0 \in 0..n
        BY <1>2
      <3>2. g[0] = a /\ h[0] = a
        BY <1>2, <3>1
      <3> QED BY <3>2
    <2>2. ASSUME NEW j \in T PROVE j + 1 \in T
      <3>1. CASE j + 1 <= m
        <4>1. j + 1 \in 0..m /\ j + 1 \in 0..n /\ j + 1 # 0 /\ (j + 1) - 1 = j /\ j <= m
          BY <1>2, <3>1
        <4>2. g[j + 1] = Step(of, with, g[j], j + 1) /\ h[j + 1] = Step(of, with, h[j], j + 1)
          BY <1>2, <4>1
        <4> QED BY <4>1, <4>2
      <3>2. CASE ~(j + 1 <= m)
        BY <3>2
      <3> QED BY <3>1, <3>2
    <2>3. T = Nat
      <3> HIDE DEF T
      <3>1. T \in SUBSET Nat
        BY DEF T
      <3> QED BY <2>1, <2>2, <3>1, Induction
    <2> QED BY <2>3
  <1> DEFINE G(n) == CHOOSE g : Approx(g, n)
             f == [n \in Nat |-> G(n)[n]]
  <1>3. \A n \in Nat : Approx(G(n), n)
    <2> HIDE DEF Approx
    <2> QED BY <1>1
  <1>4. ASSUME NEW n \in Nat PROVE f[n] = IF n = 0 THEN a ELSE Step(of, with, f[n - 1], n)
    <2>0. f[n] = G(n)[n]
      OBVIOUS
    <2>1. n \in 0..n
      OBVIOUS
    <2>2. G(n)[n] = IF n = 0 THEN a ELSE Step(of, with, G(n)[n - 1], n)
      <3> HIDE DEF G
      <3> QED BY <1>3, <2>1
    <2>3. ASSUME n # 0 PROVE G(n)[n - 1] = f[n - 1]
      <3>1. n - 1 \in Nat /\ n - 1 <= n /\ n - 1 \in 0..(n - 1)
        BY <2>3
      <3>2. f[n - 1] = G(n - 1)[n - 1]
        BY <3>1
      <3>3. Approx(G(n - 1), n - 1) /\ Approx(G(n), n)
        BY <1>3, <3>1
      <3> HIDE DEF G, Approx, f
      <3> QED BY <1>2, <3>1, <3>2, <3>3
    <2> HIDE DEF f, G
    <2> QED BY <2>0, <2>2, <2>3
  <1>5. f = [n \in Nat |-> IF n = 0 THEN a ELSE Step(of, with, f[n - 1], n)]
    <2>1. f = [n \in Nat |-> f[n]]
      OBVIOUS
    <2> HIDE DEF f
    <2> QED BY <1>4, <2>1
  <1> QED BY <1>5 DEF IsRecursion

\* Its first value, and the value one step on.
LEMMA Recursion ==
  ASSUME NEW of, NEW with, NEW a
  PROVE  /\ Values(of, with, a)[0] = a
         /\ \A k \in Nat : Values(of, with, a)[k + 1] = Step(of, with, Values(of, with, a)[k], k + 1)
PROOF
  <1> DEFINE g == Values(of, with, a)
  <1>1. IsRecursion(g, of, with, a)
    BY RecursionExists DEF Values
  <1> HIDE DEF g
  <1>2. \A k \in Nat : k + 1 \in Nat /\ k + 1 # 0 /\ (k + 1) - 1 = k
    OBVIOUS
  <1>3. \A j \in Nat : g[j] = IF j = 0 THEN a ELSE Step(of, with, g[j - 1], j)
    BY <1>1 DEF IsRecursion
  <1>4. \A k \in Nat : g[k + 1] = Step(of, with, g[k], k + 1)
    BY <1>2, <1>3
  <1> QED BY <1>3, <1>4 DEF g

\* The levels, the walk of buildInclusionProof and the hash of verifyInclusionProof, one
\* turn of their loops after another.
LEMMA Levels ==
  ASSUME NEW L
  PROVE  /\ Level(L, 0) = L
         /\ \A k \in Nat : Level(L, k + 1) = Parents(Level(L, k))
PROOF
  <1>1. \A k : Level(L, k) = Values("levels", L, L)[k]
    BY DEF Level, Step, Values, IsRecursion
  <1> QED BY <1>1, Recursion DEF Step

LEMMA Walks ==
  ASSUME NEW L, NEW i
  PROVE  /\ Walk(L, i, 0) = [at |-> i, path |-> <<>>]
         /\ \A k \in Nat : Walk(L, i, k + 1) = Climb(Walk(L, i, k), Level(L, k))
PROOF
  <1> DEFINE a == [at |-> i, path |-> <<>>]
  <1>1. \A k : Walk(L, i, k) = Values("walk", L, a)[k]
    BY DEF Walk, Step, Values, IsRecursion
  <1> HIDE DEF a
  <1>2. \A k \in Nat : Values("walk", L, a)[k + 1] = Climb(Values("walk", L, a)[k], Level(L, (k + 1) - 1))
    BY Recursion DEF Step
  <1>3. \A k \in Nat : (k + 1) - 1 = k
    OBVIOUS
  <1>4. Values("walk", L, a)[0] = a
    BY Recursion
  <1> QED BY <1>1, <1>2, <1>3, <1>4 DEF a

LEMMA Runs ==
  ASSUME NEW x, NEW p
  PROVE  /\ Running(x, p, 0) = x
         /\ \A k \in Nat : Running(x, p, k + 1) = Combine(p[k + 1], Running(x, p, k))
PROOF
  <1>1. \A k : Running(x, p, k) = Values("running", p, x)[k]
    BY DEF Running, Step, Values, IsRecursion
  <1> QED BY <1>1, Recursion DEF Step

-------------------------------------------------------------------------------
\* What the levels of a tree are.

\* A list of leaf hashes, as computeRoot is given one.
LeavesOnly(L) == IsSeq(L) /\ \A i \in 1..Len(L) : \E d : L[i] = HashLeaf(d)

\* A hash tells what it was made of, and a leaf from a node (LEAF_PREFIX, NODE_PREFIX).
LEMMA HashesFree ==
  /\ \A c, d : HashLeaf(c) = HashLeaf(d) => c = d
  /\ \A a, b, c, d : HashNode(a, b) = HashNode(c, d) => a = c /\ b = d
  /\ \A a, b, d : HashNode(a, b) # HashLeaf(d) /\ HashNode(a, b) # EmptyRoot
  /\ \A d : HashLeaf(d) # EmptyRoot
PROOF
  <1>1. \A c, d : HashLeaf(c) = HashLeaf(d) => c = d
    BY DEF HashLeaf
  <1>2. \A a, b, c, d : HashNode(a, b) = HashNode(c, d) => a = c /\ b = d
    BY DEF HashNode
  <1>3. \A a, b, d : HashNode(a, b) # HashLeaf(d)
    BY DEF HashNode, HashLeaf
  <1>4. \A a, b : HashNode(a, b) # EmptyRoot
    BY DEF HashNode, EmptyRoot
  <1>5. \A d : HashLeaf(d) # EmptyRoot
    BY DEF HashLeaf, EmptyRoot
  <1> QED BY <1>1, <1>2, <1>3, <1>4, <1>5

\* Each level is a sequence, half as long as the one below.
LEMMA LevelSeq ==
  ASSUME NEW L, IsSeq(L)
  PROVE  \A k \in Nat : /\ IsSeq(Level(L, k))
                        /\ Len(Level(L, k)) \in Nat
                        /\ Len(Level(L, k + 1)) = Half(Len(Level(L, k)))
PROOF
  <1> DEFINE S == {k \in Nat : IsSeq(Level(L, k))}
  <1>1. 0 \in S
    BY Levels
  <1>2. ASSUME NEW k \in S PROVE k + 1 \in S
    <2>1. k \in Nat /\ k + 1 \in Nat /\ IsSeq(Level(L, k))
      OBVIOUS
    <2>2. Level(L, k + 1) = Parents(Level(L, k))
      BY <2>1, Levels
    <2>3. IsSeq(Parents(Level(L, k)))
      BY <2>1, ParentsAre
    <2> QED BY <2>1, <2>2, <2>3
  <1>3. S = Nat
    <2>1. S \in SUBSET Nat
      OBVIOUS
    <2> HIDE DEF S
    <2> QED BY <1>1, <1>2, <2>1, Induction
  <1>4. ASSUME NEW k \in Nat PROVE IsSeq(Level(L, k)) /\ Len(Level(L, k)) \in Nat /\ Len(Level(L, k + 1)) = Half(Len(Level(L, k)))
    BY <1>3, Levels, ParentsAre, SeqIs
  <1> QED BY <1>4

\* A level hashes the level below in pairs, and promotes an odd last node.
LEMMA LevelIs ==
  ASSUME NEW L, IsSeq(L), NEW k \in Nat, NEW j \in 1..Len(Level(L, k + 1))
  PROVE  LET A == Level(L, k)
             B == Level(L, k + 1)
         IN  /\ j \in Nat /\ 2*j - 1 \in 1..Len(A)
             /\ 2*j <= Len(A) => B[j] = HashNode(A[2*j - 1], A[2*j]) /\ 2*j \in 1..Len(A)
             /\ 2*j > Len(A) => B[j] = A[2*j - 1] /\ 2*j - 1 = Len(A) /\ j = Len(B)
             /\ j < Len(B) => 2*j <= Len(A)
PROOF
  <1> DEFINE A == Level(L, k)
             B == Level(L, k + 1)
  <1>1. IsSeq(A) /\ Len(A) \in Nat /\ Len(B) = Half(Len(A)) /\ B = Parents(A)
    BY LevelSeq, Levels
  <1> HIDE DEF A, B
  <1>2. /\ Len(B) \in Nat /\ Len(A) <= 2 * Len(B) /\ 2 * Len(B) <= Len(A) + 1
    BY <1>1, Halves
  <1>3. j \in Nat /\ j >= 1 /\ j <= Len(B)
    BY <1>2 DEF B
  <1>4. /\ 2*j - 1 \in 1..Len(A)
        /\ 2*j <= Len(A) => B[j] = HashNode(A[2*j - 1], A[2*j])
        /\ 2*j > Len(A) => B[j] = A[2*j - 1] /\ 2*j - 1 = Len(A)
    <2>1. j \in 1..Half(Len(A))
      BY <1>1, <1>3
    <2> QED BY <1>1, <2>1, ParentsAre
  <1>5. /\ 2*j <= Len(A) => 2*j \in 1..Len(A)
        /\ 2*j > Len(A) => j = Len(B)
        /\ j < Len(B) => 2*j <= Len(A)
    BY <1>1, <1>2, <1>3
  <1> QED BY <1>3, <1>4, <1>5 DEF A, B

\* The levels end in one with a single node, which is the root.
LEMMA HeightIs ==
  ASSUME NEW L, IsSeq(L)
  PROVE  LET h == Height(L)
         IN  /\ h \in Nat
             /\ Len(Level(L, h)) <= 1
             /\ h > 0 => h - 1 \in Nat /\ Len(Level(L, h - 1)) = 2
             /\ L # <<>> => Len(Level(L, h)) = 1
PROOF
  <1> DEFINE n(k) == Len(Level(L, k))
             S == {k \in Nat : n(k) <= 1 \/ n(k) + k <= Len(L)}
             T == {k \in Nat : n(k) <= 1}
             P == {k \in Nat : L # <<>> => n(k) > 0}
  <1>1. /\ \A k \in Nat : n(k) \in Nat /\ n(k + 1) = Half(n(k))
        /\ n(0) = Len(L) /\ Len(L) \in Nat
    BY LevelSeq, Levels, SeqIs
  <1>2. L # <<>> => Len(L) > 0
    BY SeqIs
  <1> HIDE DEF n
  <1>3. S = Nat
    <2>1. 0 \in S
      BY <1>1
    <2>2. ASSUME NEW k \in S PROVE k + 1 \in S
      <3>1. k \in Nat /\ n(k) \in Nat /\ n(k + 1) = Half(n(k)) /\ Half(n(k)) \in Nat
        BY <1>1, Halves
      <3>2. 2 * n(k + 1) <= n(k) + 1 /\ (n(k) > 1 => n(k + 1) < n(k))
        BY <3>1, Halves
      <3>3. n(k) <= 1 \/ n(k) + k <= Len(L)
        OBVIOUS
      <3>4. n(k + 1) \in Nat /\ k + 1 \in Nat /\ Len(L) \in Nat
        BY <1>1, <3>1
      <3>5. n(k + 1) <= 1 \/ n(k + 1) + (k + 1) <= Len(L)
        BY <3>1, <3>2, <3>3, <3>4
      <3> QED BY <3>4, <3>5
    <2>3. S \in SUBSET Nat
      OBVIOUS
    <2> HIDE DEF S
    <2> QED BY <2>1, <2>2, <2>3, Induction
  <1>4. P = Nat
    <2>1. 0 \in P
      BY <1>1, <1>2
    <2>2. ASSUME NEW k \in P PROVE k + 1 \in P
      <3>1. k \in Nat /\ n(k) \in Nat /\ n(k + 1) = Half(n(k)) /\ Half(n(k)) \in Nat
        BY <1>1, Halves
      <3> QED BY <3>1, Halves
    <2>3. P \in SUBSET Nat
      OBVIOUS
    <2> HIDE DEF P
    <2> QED BY <2>1, <2>2, <2>3, Induction
  <1>5. Len(L) \in T
    <2>1. Len(L) \in S
      BY <1>1, <1>3
    <2>2. n(Len(L)) \in Nat
      BY <1>1
    <2> QED BY <1>1, <2>1, <2>2
  <1>6. PICK h \in T : \A m \in T : h <= m
    <2>1. T \in SUBSET Nat /\ T # {}
      BY <1>5
    <2> HIDE DEF T
    <2> QED BY <2>1, LeastNumber
  <1>7. h \in 0..Len(L) /\ n(h) <= 1
    BY <1>1, <1>5, <1>6
  <1>8. h > 0 => n(h - 1) > 1
    <2> SUFFICES ASSUME h > 0 PROVE n(h - 1) > 1
      OBVIOUS
    <2>1. h - 1 \in Nat /\ ~(h <= h - 1)
      BY <1>7, <1>1
    <2>2. n(h - 1) \in Nat /\ ~(n(h - 1) <= 1)
      BY <1>1, <1>6, <2>1
    <2> QED BY <2>2
  <1> DEFINE H == Height(L)
  <1>9. H \in 0..Len(L) /\ n(H) <= 1 /\ (H > 0 => n(H - 1) > 1)
    BY <1>7, <1>8 DEF Height, n
  <1> HIDE DEF H
  <1>10. H \in Nat
    BY <1>1, <1>9
  <1>11. ASSUME H > 0 PROVE H - 1 \in Nat /\ n(H - 1) = 2
    <2>1. H - 1 \in Nat /\ (H - 1) + 1 = H
      BY <1>10, <1>11
    <2>2. n(H - 1) \in Nat /\ n(H) = Half(n(H - 1)) /\ n(H) \in Nat
      BY <1>1, <1>10, <2>1
    <2>3. n(H - 1) <= 2 * n(H)
      BY <2>2, Halves
    <2> QED BY <1>9, <1>11, <2>1, <2>2, <2>3
  <1>12. L # <<>> => n(H) = 1
    <2>1. n(H) \in Nat /\ (L # <<>> => n(H) > 0)
      BY <1>1, <1>4, <1>10
    <2> QED BY <1>9, <2>1
  <1> QED BY <1>9, <1>10, <1>11, <1>12 DEF H, n

-------------------------------------------------------------------------------
\* What a root says of its leaves.

\* A node of a level that is not its last one stands on as many levels as lie below
\* it: its parent is in no level of any tree that is not above its own.
LEMMA TooDeep ==
  ASSUME NEW L, LeavesOnly(L), NEW M, LeavesOnly(M)
  PROVE  \A k \in Nat : \A m \in Nat : k <= m =>
           \A i \in 1..Len(Level(L, m)), j \in 1..Len(Level(M, k)) :
             \A x : i < Len(Level(L, m)) => Level(M, k)[j] # HashNode(Level(L, m)[i], x)
PROOF
  <1> DEFINE Never(k, m, i, j) ==
               (i < Len(Level(L, m))) => (\A x : Level(M, k)[j] # HashNode(Level(L, m)[i], x))
             S == {k \in Nat : \A m \in Nat : k <= m =>
                     \A i \in 1..Len(Level(L, m)), j \in 1..Len(Level(M, k)) : Never(k, m, i, j)}
  <1>0. IsSeq(L) /\ IsSeq(M)
    BY DEF LeavesOnly
  <1>1. 0 \in S
    <2>1. Level(M, 0) = M
      BY Levels
    <2>2. \A j \in 1..Len(M) : \A a, x : M[j] # HashNode(a, x)
      BY HashesFree DEF LeavesOnly
    <2> QED BY <2>1, <2>2
  <1>2. ASSUME NEW k \in S PROVE k + 1 \in S
    <2>1. SUFFICES ASSUME NEW m \in Nat, k + 1 <= m,
                          NEW i \in 1..Len(Level(L, m)), NEW j \in 1..Len(Level(M, k + 1)),
                          i < Len(Level(L, m)), NEW x,
                          Level(M, k + 1)[j] = HashNode(Level(L, m)[i], x)
                   PROVE  FALSE
      OBVIOUS
    <2>2. k \in Nat /\ m - 1 \in Nat /\ (m - 1) + 1 = m /\ k <= m - 1 /\ k <= m
      BY <2>1
    <2> DEFINE A == Level(M, k)   C == Level(L, m - 1)
    <2>3. /\ j \in Nat /\ 2*j - 1 \in 1..Len(A)
          /\ 2*j <= Len(A) => Level(M, k + 1)[j] = HashNode(A[2*j - 1], A[2*j])
          /\ 2*j > Len(A) => Level(M, k + 1)[j] = A[2*j - 1]
      BY <1>0, <2>2, LevelIs
    <2>4. /\ i \in Nat /\ 2*i - 1 \in 1..Len(C)
          /\ 2*i <= Len(C) => Level(L, m)[i] = HashNode(C[2*i - 1], C[2*i])
          /\ 2*i <= Len(C)
      <3>1. LET B == Level(L, (m - 1) + 1)
            IN  i \in 1..Len(B) /\ i < Len(B)
        BY <2>1, <2>2
      <3> QED BY <1>0, <2>2, <3>1, LevelIs
    <2>5. Len(A) \in Nat /\ Len(C) \in Nat
      BY <1>0, <2>2, LevelSeq
    <2>6. 2*i - 1 < Len(C) /\ (2*j > Len(A) <=> ~(2*j <= Len(A)))
      <3> DEFINE a == Len(A)   c == Len(C)
      <3>1. a \in Nat /\ c \in Nat /\ i \in Nat /\ j \in Nat /\ 2*i <= c
        BY <2>3, <2>4, <2>5
      <3> HIDE DEF a, c
      <3>2. 2*i - 1 < c
        BY <3>1
      <3>3. 2*j > a <=> ~(2*j <= a)
        BY <3>1
      <3> QED BY <3>2, <3>3 DEF a, c
    <2>7. Never(k, m - 1, 2*i - 1, 2*j - 1) /\ Never(k, m, i, 2*j - 1)
      BY <2>1, <2>2, <2>3, <2>4
    <2>8. CASE 2*j <= Len(A)
      <3>1. A[2*j - 1] = HashNode(C[2*i - 1], C[2*i])
        BY <2>1, <2>3, <2>4, <2>8, HashesFree, SMTT(30)
      <3> QED BY <2>6, <2>7, <3>1
    <2>9. CASE ~(2*j <= Len(A))
      <3>1. A[2*j - 1] = HashNode(Level(L, m)[i], x)
        BY <2>1, <2>3, <2>6, <2>9
      <3> QED BY <2>1, <2>7, <3>1
    <2> QED BY <2>8, <2>9
  <1>3. S = Nat
    <2>1. S \in SUBSET Nat
      OBVIOUS
    <2> HIDE DEF S
    <2> QED BY <1>1, <1>2, <2>1, Induction
  <1> QED BY <1>3

\* What two levels have in common, the levels below them have.
LEMMA SameBelow ==
  ASSUME NEW L, LeavesOnly(L), NEW M, LeavesOnly(M), NEW k \in Nat,
         Level(L, k + 1) = Level(M, k + 1)
  PROVE  Level(L, k) = Level(M, k)
PROOF
  <1> DEFINE A == Level(L, k)   B == Level(M, k)   C == Level(L, k + 1)   D == Level(M, k + 1)
  <1>0. IsSeq(L) /\ IsSeq(M)
    BY DEF LeavesOnly
  <1>1. /\ IsSeq(A) /\ IsSeq(B) /\ Len(A) \in Nat /\ Len(B) \in Nat
        /\ Len(C) = Half(Len(A)) /\ Len(D) = Half(Len(B))
    BY <1>0, LevelSeq
  <1>2. \A j \in 1..Len(C) :
          /\ j \in Nat /\ 2*j - 1 \in 1..Len(A)
          /\ 2*j <= Len(A) => C[j] = HashNode(A[2*j - 1], A[2*j])
          /\ 2*j > Len(A) => C[j] = A[2*j - 1] /\ 2*j - 1 = Len(A)
    BY <1>0, LevelIs
  <1>3. \A j \in 1..Len(D) :
          /\ j \in Nat /\ 2*j - 1 \in 1..Len(B)
          /\ 2*j <= Len(B) => D[j] = HashNode(B[2*j - 1], B[2*j])
          /\ 2*j > Len(B) => D[j] = B[2*j - 1] /\ 2*j - 1 = Len(B)
    BY <1>0, LevelIs
  <1>4. \A i \in 1..Len(A), j \in 1..Len(B) : \A x :
          /\ i < Len(A) => B[j] # HashNode(A[i], x)
          /\ j < Len(B) => A[i] # HashNode(B[j], x)
    <2>1. \A i \in 1..Len(A), j \in 1..Len(B) : \A x : i < Len(A) => B[j] # HashNode(A[i], x)
      BY TooDeep
    <2>2. \A j \in 1..Len(B), i \in 1..Len(A) : \A x : j < Len(B) => A[i] # HashNode(B[j], x)
      BY TooDeep
    <2> QED BY <2>1, <2>2
  <1>5. C = D
    OBVIOUS
  <1> HIDE DEF A, B, C, D
  <1>6. \A j \in 1..Len(C) : 2*j <= Len(A) <=> 2*j <= Len(B)
    <2> SUFFICES ASSUME NEW j \in 1..Len(C) PROVE 2*j <= Len(A) <=> 2*j <= Len(B)
      OBVIOUS
    <2>1. j \in Nat /\ 2*j - 1 \in 1..Len(A) /\ 2*j - 1 \in 1..Len(B)
      BY <1>2, <1>3, <1>5
    <2>2. ASSUME 2*j <= Len(A), ~(2*j <= Len(B)) PROVE FALSE
      <3>1. 2*j > Len(B) /\ 2*j - 1 < Len(A)
        BY <1>1, <2>1, <2>2
      <3>2. B[2*j - 1] = HashNode(A[2*j - 1], A[2*j])
        BY <1>2, <1>3, <1>5, <2>2, <3>1
      <3> QED BY <1>4, <2>1, <3>1, <3>2
    <2>3. ASSUME 2*j <= Len(B), ~(2*j <= Len(A)) PROVE FALSE
      <3>1. 2*j > Len(A) /\ 2*j - 1 < Len(B)
        BY <1>1, <2>1, <2>3
      <3>2. A[2*j - 1] = HashNode(B[2*j - 1], B[2*j])
        BY <1>2, <1>3, <1>5, <2>3, <3>1
      <3> QED BY <1>4, <2>1, <3>1, <3>2
    <2> QED BY <2>2, <2>3
  <1>7. Len(A) = Len(B)
    <2>1. /\ Half(Len(A)) = Half(Len(B)) /\ Half(Len(A)) \in Nat
          /\ Len(A) <= 2 * Half(Len(A)) /\ 2 * Half(Len(A)) <= Len(A) + 1
          /\ Len(B) <= 2 * Half(Len(B)) /\ 2 * Half(Len(B)) <= Len(B) + 1
      BY <1>1, <1>5, Halves
    <2>2. CASE Half(Len(A)) = 0
      BY <1>1, <2>1, <2>2
    <2>3. CASE Half(Len(A)) > 0
      <3>1. Half(Len(A)) \in 1..Len(C)
        BY <1>1, <2>1, <2>3
      <3>2. 2 * Half(Len(A)) <= Len(A) <=> 2 * Half(Len(A)) <= Len(B)
        BY <1>6, <3>1
      <3> QED BY <1>1, <2>1, <3>2
    <2> QED BY <2>1, <2>2, <2>3
  <1>8. ASSUME NEW i \in 1..Len(A) PROVE A[i] = B[i]
    <2> DEFINE j == Half(i)
    <2>1. i \in Nat /\ i >= 1 /\ i <= Len(A)
      BY <1>1
    <2>2. j \in Nat /\ i <= 2 * j /\ 2 * j <= i + 1
      BY <2>1, Halves
    <2>3. j \in 1..Len(C)
      <3>1. /\ Half(Len(A)) \in Nat /\ Len(A) <= 2 * Half(Len(A))
            /\ 2 * Half(Len(A)) <= Len(A) + 1
        BY <1>1, Halves
      <3> HIDE DEF j
      <3> QED BY <1>1, <2>1, <2>2, <3>1
    <2> HIDE DEF j
    <2>4. CASE 2*j <= Len(A)
      <3>1. HashNode(A[2*j - 1], A[2*j]) = HashNode(B[2*j - 1], B[2*j])
        BY <1>2, <1>3, <1>5, <1>7, <2>3, <2>4
      <3>2. A[2*j - 1] = B[2*j - 1] /\ A[2*j] = B[2*j]
        BY <3>1, HashesFree
      <3>3. i = 2*j - 1 \/ i = 2*j
        BY <2>1, <2>2
      <3> QED BY <3>2, <3>3
    <2>5. CASE ~(2*j <= Len(A))
      <3>1. 2*j > Len(A) /\ i = 2*j - 1
        BY <1>1, <2>1, <2>2, <2>5
      <3>2. C[j] = A[2*j - 1]
        BY <1>2, <2>3, <3>1
      <3>3. D[j] = B[2*j - 1]
        BY <1>3, <1>5, <1>7, <2>3, <3>1
      <3> QED BY <1>5, <3>1, <3>2, <3>3
    <2> QED BY <2>4, <2>5
  <1>9. A = B
    BY <1>1, <1>7, <1>8, SameSeq
  <1> QED BY <1>9 DEF A, B

\* The nodes of a tree are its leaves and hashes of two nodes of the tree.
Nodes(L) == UNION {{Level(L, k)[j] : j \in 1..Len(Level(L, k))} : k \in Nat}

LEMMA NodesAre ==
  ASSUME NEW L, LeavesOnly(L)
  PROVE  /\ \A x \in Nodes(L) : (\E j \in 1..Len(L) : x = L[j]) \/ \E a, b \in Nodes(L) : x = HashNode(a, b)
         /\ \A j \in 1..Len(L) : L[j] \in Nodes(L)
         /\ L # <<>> => ComputeRoot(L) \in Nodes(L)
PROOF
  <1> DEFINE InTree(x) == (\E j \in 1..Len(L) : x = L[j]) \/ \E a, b \in Nodes(L) : x = HashNode(a, b)
             S == {k \in Nat : \A j \in 1..Len(Level(L, k)) : InTree(Level(L, k)[j])}
  <1>0. IsSeq(L)
    BY DEF LeavesOnly
  <1>1. \A k \in Nat : \A j \in 1..Len(Level(L, k)) : Level(L, k)[j] \in Nodes(L)
    BY DEF Nodes
  <1>2. 0 \in S
    BY Levels
  <1>3. ASSUME NEW k \in S PROVE k + 1 \in S
    <2>1. k \in Nat /\ k + 1 \in Nat /\ \A j \in 1..Len(Level(L, k)) : InTree(Level(L, k)[j])
      OBVIOUS
    <2>2. ASSUME NEW j \in 1..Len(Level(L, k + 1)) PROVE InTree(Level(L, k + 1)[j])
      <3> DEFINE A == Level(L, k)
      <3>1. /\ j \in Nat /\ 2*j - 1 \in 1..Len(A)
            /\ 2*j <= Len(A) => Level(L, k + 1)[j] = HashNode(A[2*j - 1], A[2*j]) /\ 2*j \in 1..Len(A)
            /\ 2*j > Len(A) => Level(L, k + 1)[j] = A[2*j - 1]
        BY <1>0, <2>1, LevelIs
      <3>2. Len(A) \in Nat
        BY <1>0, <2>1, LevelSeq
      <3>3. CASE 2*j <= Len(A)
        <4>1. A[2*j - 1] \in Nodes(L) /\ A[2*j] \in Nodes(L)
          BY <1>1, <2>1, <3>1, <3>3
        <4> QED BY <3>1, <3>3, <4>1
      <3>4. CASE 2*j > Len(A)
        BY <2>1, <3>1, <3>4
      <3> QED BY <3>1, <3>2, <3>3, <3>4
    <2> HIDE DEF InTree
    <2> QED BY <2>1, <2>2
  <1>4. S = Nat
    <2>1. S \in SUBSET Nat
      OBVIOUS
    <2> HIDE DEF S
    <2> QED BY <1>2, <1>3, <2>1, Induction
  <1>5. \A x \in Nodes(L) : InTree(x)
    <2> HIDE DEF InTree
    <2>1. \A k \in Nat : \A j \in 1..Len(Level(L, k)) : InTree(Level(L, k)[j])
      BY <1>4
    <2> QED BY <2>1 DEF Nodes
  <1>6. \A j \in 1..Len(L) : L[j] \in Nodes(L)
    BY <1>1, Levels
  <1>7. L # <<>> => ComputeRoot(L) \in Nodes(L)
    <2> SUFFICES ASSUME L # <<>> PROVE Level(L, Height(L))[1] \in Nodes(L)
      BY DEF ComputeRoot
    <2>1. Height(L) \in Nat /\ Len(Level(L, Height(L))) = 1
      BY <1>0, HeightIs
    <2>2. 1 \in 1..Len(Level(L, Height(L)))
      BY <2>1
    <2> QED BY <1>1, <2>1, <2>2
  <1> QED BY <1>5, <1>6, <1>7

\* No ledger with entries has the root of the empty one.
LEMMA RootNotEmpty ==
  ASSUME NEW L, LeavesOnly(L), L # <<>>
  PROVE  ComputeRoot(L) # EmptyRoot
PROOF
  <1>1. \A j \in 1..Len(L) : L[j] # EmptyRoot
    BY HashesFree DEF LeavesOnly
  <1>2. \A a, b : HashNode(a, b) # EmptyRoot
    BY HashesFree
  <1> QED BY <1>1, <1>2, NodesAre

\* The root of a tree of some height is in no lower tree.
LEMMA NotLower ==
  ASSUME NEW L, LeavesOnly(L), NEW M, LeavesOnly(M), NEW g \in Nat, NEW h \in Nat,
         Len(Level(L, g)) = 1, Level(L, g)[1] = Level(M, h)[1],
         Len(Level(M, h)) = 1, h > 0 => Len(Level(M, h - 1)) = 2
  PROVE  h <= g
PROOF
  <1> SUFFICES ASSUME g < h PROVE FALSE
    OBVIOUS
  <1>0. IsSeq(M)
    BY DEF LeavesOnly
  <1>1. PICK k \in Nat : h = k + 1 /\ g <= k /\ h - 1 = k
    <2>1. h - 1 \in Nat /\ h = (h - 1) + 1 /\ g <= h - 1
      OBVIOUS
    <2> QED BY <2>1
  <1>2. Len(Level(M, k)) = 2 /\ Len(Level(M, k + 1)) = 1
    <2>1. h > 0
      OBVIOUS
    <2> QED BY <1>1, <2>1
  <1>3. 1 \in 1..1 /\ 1 \in 1..2 /\ 1 < 2 /\ 2 * 1 = 2 /\ 2 * 1 - 1 = 1 /\ 2 <= 2
    OBVIOUS
  <1>4. Level(M, k + 1)[1] = HashNode(Level(M, k)[1], Level(M, k)[2])
    <2>1. 1 \in 1..Len(Level(M, k + 1)) /\ 2 * 1 <= Len(Level(M, k))
      BY <1>2, <1>3
    <2>2. Level(M, k + 1)[1] = HashNode(Level(M, k)[2*1 - 1], Level(M, k)[2*1])
      BY <1>0, <2>1, LevelIs
    <2> QED BY <1>3, <2>2
  <1>5. Level(L, g)[1] = HashNode(Level(M, k)[1], Level(M, k)[2])
    BY <1>1, <1>4
  <1>6. /\ 1 \in 1..Len(Level(M, k)) /\ 1 < Len(Level(M, k))
        /\ 1 \in 1..Len(Level(L, g))
    BY <1>2, <1>3
  <1>7. \A x : Level(L, g)[1] # HashNode(Level(M, k)[1], x)
    BY <1>1, <1>6, TooDeep
  <1> QED BY <1>5, <1>7

\* Two ledgers with one root have the same leaves (merkle.ts:35-38: promotion "has no
\* such ambiguity").
THEOREM RootDeterminesLeaves ==
  ASSUME NEW L, LeavesOnly(L), NEW M, LeavesOnly(M), ComputeRoot(L) = ComputeRoot(M)
  PROVE  L = M
PROOF
  <1> DEFINE g == Height(L)   h == Height(M)
  <1>0. IsSeq(L) /\ IsSeq(M)
    BY DEF LeavesOnly
  <1>1. /\ g \in Nat /\ Len(Level(L, g)) <= 1
        /\ g > 0 => g - 1 \in Nat /\ Len(Level(L, g - 1)) = 2
        /\ L # <<>> => Len(Level(L, g)) = 1
    BY <1>0, HeightIs
  <1>2. /\ h \in Nat /\ Len(Level(M, h)) <= 1
        /\ h > 0 => h - 1 \in Nat /\ Len(Level(M, h - 1)) = 2
        /\ M # <<>> => Len(Level(M, h)) = 1
    BY <1>0, HeightIs
  <1>3. /\ L # <<>> => ComputeRoot(L) = Level(L, g)[1]
        /\ M # <<>> => ComputeRoot(M) = Level(M, h)[1]
        /\ L = <<>> => ComputeRoot(L) = EmptyRoot
        /\ M = <<>> => ComputeRoot(M) = EmptyRoot
    BY DEF ComputeRoot
  <1> HIDE DEF g, h
  <1>4. /\ L # <<>> => ComputeRoot(L) # EmptyRoot
        /\ M # <<>> => ComputeRoot(M) # EmptyRoot
    <2>1. \A K : LeavesOnly(K) /\ K # <<>> => ComputeRoot(K) # EmptyRoot
      BY RootNotEmpty
    <2> QED BY <2>1
  <1>5. CASE L = <<>> \/ M = <<>>
    BY <1>3, <1>4, <1>5
  <1>6. CASE L # <<>> /\ M # <<>>
    <2>1. Level(L, g)[1] = Level(M, h)[1] /\ Len(Level(L, g)) = 1 /\ Len(Level(M, h)) = 1
      BY <1>1, <1>2, <1>3, <1>6
    <2>2. h <= g
      BY <1>1, <1>2, <2>1, NotLower
    <2>3. g <= h
      BY <1>1, <1>2, <2>1, NotLower
    <2>4. g = h
      BY <1>1, <1>2, <2>2, <2>3
    <2>5. Level(L, g) = Level(M, g)
      <3>1. IsSeq(Level(L, g)) /\ IsSeq(Level(M, g))
        BY <1>0, <1>1, LevelSeq
      <3>2. \A i \in 1..1 : i = 1
        OBVIOUS
      <3> QED BY <2>1, <2>4, <3>1, <3>2, SameSeq
    <2>6. \A k \in Nat : k <= g => Level(L, g - k) = Level(M, g - k)
      <3> DEFINE S == {k \in Nat : k <= g => Level(L, g - k) = Level(M, g - k)}
      <3>1. 0 \in S
        BY <1>1, <2>5
      <3>2. ASSUME NEW k \in S PROVE k + 1 \in S
        <4>1. k \in Nat /\ k + 1 \in Nat
          OBVIOUS
        <4>2. ASSUME k + 1 <= g PROVE Level(L, g - (k + 1)) = Level(M, g - (k + 1))
          <5>1. g - (k + 1) \in Nat /\ (g - (k + 1)) + 1 = g - k /\ k <= g
            BY <1>1, <4>1, <4>2
          <5>2. Level(L, g - k) = Level(M, g - k)
            BY <5>1
          <5> QED BY <5>1, <5>2, SameBelow
        <4> QED BY <4>1, <4>2
      <3>3. S = Nat
        <4>1. S \in SUBSET Nat
          OBVIOUS
        <4> HIDE DEF S
        <4> QED BY <3>1, <3>2, <4>1, Induction
      <3> QED BY <3>3
    <2>7. Level(L, 0) = Level(M, 0)
      <3>1. g - g = 0 /\ g <= g
        BY <1>1
      <3> QED BY <1>1, <2>6, <3>1
    <2> QED BY <2>7, Levels
  <1> QED BY <1>5, <1>6

-------------------------------------------------------------------------------
\* Inclusion proofs.

\* Steps of a path are appended at its end.
LEMMA SeqsAre ==
  ASSUME NEW R, NEW s \in Seq(R)
  PROVE  IsSeq(s)
PROOF
  <1>1. Len(s) \in Nat /\ s \in [1..Len(s) -> R]
    BY LenProperties
  <1>2. s = [i \in 1..Len(s) |-> s[i]]
    BY <1>1
  <1> QED BY <1>1, <1>2, IsSeqIf

LEMMA AppendIs ==
  ASSUME NEW s, IsSeq(s), NEW e
  PROVE  /\ IsSeq(Append(s, e)) /\ Len(Append(s, e)) = Len(s) + 1
         /\ \A j \in 1..Len(s) : Append(s, e)[j] = s[j]
         /\ Append(s, e)[Len(s) + 1] = e
PROOF
  <1> DEFINE R == {s[i] : i \in DOMAIN s} \cup {e}
             t == Append(s, e)
  <1>1. s \in Seq(R) /\ e \in R
    BY DEF IsSeq
  <1> HIDE DEF R
  <1>2. /\ t \in Seq(R) /\ Len(t) = Len(s) + 1
        /\ \A j \in 1..Len(s) : t[j] = s[j]
        /\ t[Len(s) + 1] = e
    BY <1>1, AppendProperties
  <1>3. IsSeq(t)
    BY <1>2, SeqsAre
  <1> QED BY <1>2, <1>3 DEF t

\* One more sibling.
LEMMA RunsOn ==
  ASSUME NEW x, NEW p, NEW k \in Nat
  PROVE  Running(x, p, k + 1) = Combine(p[k + 1], Running(x, p, k))
PROOF BY Runs

\* Hashing along a path uses the steps it has passed.
LEMMA RunningAlong ==
  ASSUME NEW x, NEW p, NEW q, NEW n \in Nat, \A j \in 1..n : p[j] = q[j]
  PROVE  Running(x, p, n) = Running(x, q, n)
PROOF
  <1> DEFINE S == {k \in Nat : k <= n => Running(x, p, k) = Running(x, q, k)}
  <1>1. 0 \in S
    BY Runs
  <1>2. ASSUME NEW k \in S PROVE k + 1 \in S
    <2>1. k \in Nat /\ k + 1 \in Nat
      OBVIOUS
    <2>2. ASSUME k + 1 <= n PROVE Running(x, p, k + 1) = Running(x, q, k + 1)
      <3>1. k <= n /\ k + 1 \in 1..n
        BY <2>1, <2>2
      <3>2. Running(x, p, k) = Running(x, q, k) /\ p[k + 1] = q[k + 1]
        BY <3>1
      <3>3. Running(x, p, k + 1) = Combine(p[k + 1], Running(x, p, k))
        BY <2>1, RunsOn
      <3>4. Running(x, q, k + 1) = Combine(q[k + 1], Running(x, q, k))
        BY <2>1, RunsOn
      <3> QED BY <3>2, <3>3, <3>4
    <2> QED BY <2>1, <2>2
  <1>3. S = Nat
    <2>1. S \in SUBSET Nat
      OBVIOUS
    <2> HIDE DEF S
    <2> QED BY <1>1, <1>2, <2>1, Induction
  <1> QED BY <1>3

\* One more step is one more hash.
LEMMA RunningAppend ==
  ASSUME NEW x, NEW p, IsSeq(p), NEW e
  PROVE  Running(x, Append(p, e), Len(Append(p, e))) = Combine(e, Running(x, p, Len(p)))
PROOF
  <1> DEFINE q == Append(p, e)
  <1>1. /\ Len(q) = Len(p) + 1 /\ q[Len(p) + 1] = e /\ Len(p) \in Nat
        /\ \A j \in 1..Len(p) : q[j] = p[j]
    BY AppendIs, SeqIs
  <1> HIDE DEF q
  <1>2. Running(x, q, Len(p) + 1) = Combine(q[Len(p) + 1], Running(x, q, Len(p)))
    BY <1>1, Runs
  <1>3. Running(x, q, Len(p)) = Running(x, p, Len(p))
    BY <1>1, RunningAlong
  <1> QED BY <1>1, <1>2, <1>3 DEF q

\* Up to a level, the path proves the leaf it began from and nothing else.
ProvesBelow(L, i, x, k) ==
  LET walk == Walk(L, i, k)
  IN  /\ IsSeq(walk.path) /\ walk.at \in Nat /\ walk.at < Len(Level(L, k))
      /\ Running(x, walk.path, Len(walk.path)) = Level(L, k)[walk.at + 1] <=> x = L[i + 1]

LEMMA ClimbIs ==
  ASSUME NEW L, LeavesOnly(L), NEW i \in 0..(Len(L) - 1), NEW x, NEW k \in Nat,
         ProvesBelow(L, i, x, k)
  PROVE  ProvesBelow(L, i, x, k + 1)
PROOF
  <1> DEFINE A == Level(L, k)   B == Level(L, k + 1)
             a == Walk(L, i, k).at   p == Walk(L, i, k).path   w == Walk(L, i, k + 1)
             j == a \div 2 + 1
             right == a % 2 = 1
             sibling == IF right THEN a - 1 ELSE a + 1
             step == [hash |-> A[sibling + 1], side |-> IF right THEN "left" ELSE "right"]
  <1>0. IsSeq(L)
    BY DEF LeavesOnly
  <1>1. w = [at |-> a \div 2, path |-> IF sibling < Len(A) THEN Append(p, step) ELSE p]
    BY Walks DEF Climb
  <1>2. Len(A) \in Nat /\ Len(B) = Half(Len(A)) /\ Len(B) \in Nat
    BY <1>0, LevelSeq, Halves
  <1>3. /\ a \div 2 \in Nat /\ a \div 2 < Len(B) /\ a \in Nat
        /\ right => a = 2 * (a \div 2) + 1
        /\ ~right => a = 2 * (a \div 2)
    <2>1. a \in Nat /\ a < Len(A)
      BY DEF ProvesBelow
    <2>2. Len(A) <= 2 * Len(B)
      BY <1>2, Halves
    <2> HIDE DEF a, A, B
    <2> QED BY <1>2, <2>1, <2>2
  <1>4. /\ j \in 1..Len(B) /\ j \in Nat
    <2> DEFINE m == a \div 2
    <2>1. m \in Nat /\ m < Len(B) /\ j = m + 1 /\ Len(B) \in Nat
      BY <1>2, <1>3
    <2> HIDE DEF m, j, B
    <2> QED BY <2>1
  <1>5. /\ 2*j - 1 \in 1..Len(A)
        /\ 2*j <= Len(A) => B[j] = HashNode(A[2*j - 1], A[2*j])
        /\ 2*j > Len(A) => B[j] = A[2*j - 1] /\ 2*j - 1 = Len(A)
    <2>1. j \in 1..Len(B)
      BY <1>4
    <2> HIDE DEF j
    <2> QED BY <1>0, <2>1, LevelIs
  <1>6. Running(x, p, Len(p)) = A[a + 1] <=> x = L[i + 1]
    BY DEF ProvesBelow
  <1>7. IsSeq(p) /\ a < Len(A)
    BY DEF ProvesBelow
  <1>8. w.at = a \div 2 /\ w.path = IF sibling < Len(A) THEN Append(p, step) ELSE p
    <2> HIDE DEF w, p, a, step, A, sibling
    <2> QED BY <1>1
  <1>9. step.hash = A[sibling + 1] /\ step.side = IF right THEN "left" ELSE "right"
    OBVIOUS
  <1> HIDE DEF w, p, a, step, A, B
  <1>10. CASE right
    <2>1. /\ sibling = a - 1 /\ sibling < Len(A) /\ sibling + 1 = 2*j - 1 /\ a + 1 = 2*j
          /\ 2*j <= Len(A)
      BY <1>2, <1>3, <1>7, <1>10
    <2>2. Running(x, w.path, Len(w.path)) = HashNode(A[2*j - 1], Running(x, p, Len(p)))
      BY <1>7, <1>8, <1>9, <1>10, <2>1, RunningAppend DEF Combine
    <2>3. B[j] = HashNode(A[2*j - 1], A[a + 1])
      BY <1>5, <2>1
    <2>4. Running(x, w.path, Len(w.path)) = B[j] <=> Running(x, p, Len(p)) = A[a + 1]
      BY <2>2, <2>3, HashesFree
    <2>5. IsSeq(w.path)
      BY <1>7, <1>8, <2>1, AppendIs
    <2> QED BY <1>3, <1>6, <1>8, <2>4, <2>5 DEF w, B, ProvesBelow
  <1>11. CASE ~right /\ a + 1 < Len(A)
    <2>1. /\ sibling = a + 1 /\ sibling < Len(A) /\ sibling + 1 = 2*j /\ a + 1 = 2*j - 1
          /\ 2*j <= Len(A)
      BY <1>2, <1>3, <1>7, <1>11
    <2>2. Running(x, w.path, Len(w.path)) = HashNode(Running(x, p, Len(p)), A[2*j])
      <3>1. step.side # "left" /\ step.hash = A[2*j]
        BY <1>9, <1>11, <2>1
      <3>2. w.path = Append(p, step)
        BY <1>8, <2>1
      <3> QED BY <1>7, <3>1, <3>2, RunningAppend DEF Combine
    <2>3. B[j] = HashNode(A[a + 1], A[2*j])
      BY <1>5, <2>1
    <2>4. Running(x, w.path, Len(w.path)) = B[j] <=> Running(x, p, Len(p)) = A[a + 1]
      BY <2>2, <2>3, HashesFree
    <2>5. IsSeq(w.path)
      BY <1>7, <1>8, <2>1, AppendIs
    <2> QED BY <1>3, <1>6, <1>8, <2>4, <2>5 DEF w, B, ProvesBelow
  <1>12. CASE ~right /\ ~(a + 1 < Len(A))
    <2>1. /\ sibling = a + 1 /\ ~(sibling < Len(A)) /\ a + 1 = 2*j - 1
          /\ 2*j > Len(A)
      BY <1>2, <1>3, <1>7, <1>12
    <2>2. w.path = p
      BY <1>8, <2>1
    <2>3. B[j] = A[a + 1]
      BY <1>5, <2>1
    <2> QED BY <1>3, <1>6, <1>7, <1>8, <2>2, <2>3 DEF w, B, ProvesBelow
  <1> QED BY <1>10, <1>11, <1>12

\* The proof of an entry verifies for that entry and no other (merkle.ts:122-126).
THEOREM PathProvesItsLeaf ==
  ASSUME NEW L, LeavesOnly(L), NEW i \in 0..(Len(L) - 1), NEW x
  PROVE  VerifyInclusion(x, InclusionPath(L, i), ComputeRoot(L)) <=> x = L[i + 1]
PROOF
  <1> DEFINE S == {k \in Nat : ProvesBelow(L, i, x, k)}
             h == Height(L)
  <1>0. IsSeq(L) /\ Len(L) \in Nat /\ i \in Nat /\ i < Len(L)
    BY SeqIs DEF LeavesOnly
  <1>1. 0 \in S
    <2>1. Walk(L, i, 0).path = <<>> /\ Walk(L, i, 0).at = i /\ Level(L, 0) = L
      BY Walks, Levels
    <2>2. IsSeq(<<>>) /\ Len(<<>>) = 0
      BY DEF IsSeq
    <2>3. Running(x, <<>>, 0) = x
      BY Runs
    <2> QED BY <1>0, <2>1, <2>2, <2>3 DEF ProvesBelow
  <1>2. ASSUME NEW k \in S PROVE k + 1 \in S
    <2>1. k \in Nat /\ ProvesBelow(L, i, x, k)
      OBVIOUS
    <2>2. ProvesBelow(L, i, x, k + 1)
      BY <2>1, ClimbIs
    <2> QED BY <2>1, <2>2
  <1>3. S = Nat
    <2>1. S \in SUBSET Nat
      OBVIOUS
    <2> HIDE DEF S
    <2> QED BY <1>1, <1>2, <2>1, Induction
  <1>4. h \in Nat /\ Len(Level(L, h)) = 1 /\ L # <<>>
    BY <1>0, HeightIs
  <1>5. ProvesBelow(L, i, x, h)
    BY <1>3, <1>4
  <1>6. Walk(L, i, h).at = 0
    BY <1>4, <1>5 DEF ProvesBelow
  <1>7. ComputeRoot(L) = Level(L, h)[Walk(L, i, h).at + 1]
    BY <1>4, <1>6 DEF ComputeRoot
  <1> QED BY <1>5, <1>7 DEF VerifyInclusion, InclusionPath, ProvesBelow

\* No path proves data that is not in the tree: "one byte prevents" that an interior
\* node is presented as a leaf (merkle.ts:27-32).
THEOREM ProvedIsInTree ==
  ASSUME NEW L, LeavesOnly(L), NEW data, NEW path, Len(path) \in Nat,
         VerifyInclusion(HashLeaf(data), path, ComputeRoot(L))
  PROVE  \E j \in 1..Len(L) : L[j] = HashLeaf(data)
PROOF
  <1> DEFINE x == HashLeaf(data)   n == Len(path)
             S == {k \in Nat : k <= n => Running(x, path, n - k) \in Nodes(L)}
  <1>1. Running(x, path, n) = ComputeRoot(L)
    BY DEF VerifyInclusion
  <1>2. \A a, b : HashNode(a, b) \in Nodes(L) => a \in Nodes(L) /\ b \in Nodes(L)
    <2>1. \A a, b : \A j \in 1..Len(L) : HashNode(a, b) # L[j]
      BY HashesFree DEF LeavesOnly
    <2> QED BY <2>1, NodesAre, HashesFree
  <1>3. \A k \in Nat : Running(x, path, k + 1) = Combine(path[k + 1], Running(x, path, k))
    BY Runs
  <1> HIDE DEF x, n
  <1>4. L # <<>>
    <2> SUFFICES ASSUME L = <<>> PROVE FALSE
      OBVIOUS
    <2>1. Running(x, path, n) = EmptyRoot
      BY <1>1 DEF ComputeRoot
    <2>2. CASE n = 0
      <3>1. Running(x, path, 0) = HashLeaf(data)
        BY Runs DEF x
      <3> QED BY <2>1, <2>2, <3>1, HashesFree
    <2>3. CASE n # 0
      <3>1. n - 1 \in Nat /\ (n - 1) + 1 = n
        BY <2>3 DEF n
      <3>2. Running(x, path, n) = Combine(path[n], Running(x, path, n - 1))
        BY <1>3, <3>1
      <3> QED BY <2>1, <3>2, HashesFree DEF Combine
    <2> QED BY <2>2, <2>3
  <1>5. 0 \in S
    <2>1. n - 0 = n
      BY DEF n
    <2> QED BY <1>1, <1>4, <2>1, NodesAre
  <1>6. ASSUME NEW k \in S PROVE k + 1 \in S
    <2>1. k \in Nat /\ k + 1 \in Nat /\ n \in Nat
      BY DEF n
    <2>2. ASSUME k + 1 <= n PROVE Running(x, path, n - (k + 1)) \in Nodes(L)
      <3>1. n - (k + 1) \in Nat /\ (n - (k + 1)) + 1 = n - k /\ k <= n
        BY <2>1, <2>2
      <3>2. Running(x, path, n - k) \in Nodes(L)
        BY <3>1
      <3>3. Running(x, path, n - k) = Combine(path[n - k], Running(x, path, n - (k + 1)))
        BY <1>3, <3>1
      <3> QED BY <1>2, <3>2, <3>3 DEF Combine
    <2> QED BY <2>1, <2>2
  <1>7. S = Nat
    <2>1. S \in SUBSET Nat
      OBVIOUS
    <2> HIDE DEF S
    <2> QED BY <1>5, <1>6, <2>1, Induction
  <1>8. x \in Nodes(L)
    <2>1. n \in Nat /\ n - n = 0 /\ n <= n
      BY DEF n
    <2>2. Running(x, path, n - n) \in Nodes(L)
      BY <1>7, <2>1
    <2> QED BY <2>1, <2>2, Runs
  <1> QED BY <1>8, NodesAre, HashesFree DEF x

-------------------------------------------------------------------------------
\* The chain as a sequence.

\* An id is drawn once: no two entries, committed or not, have the same.
IdsApart ==
  /\ \A d, e \in chain : d.id = e.id => d = e
  /\ \A s \in Sessions : \A d \in draft[s], e \in chain : d.id # e.id
  /\ \A s, t \in Sessions : s # t => \A d \in draft[s], e \in draft[t] : d.id # e.id

ChainInv == IdsApart /\ IsFiniteSet(chain)

\* A session's open transaction is given up.
LEMMA DropKeepsIds ==
  ASSUME IInv, ChainInv, NEW s \in Sessions, Finish(s) \/ Throw(s), UNCHANGED chain
  PROVE  ChainInv'
PROOF
  <1>1. \A t \in Sessions : draft'[t] \subseteq draft[t]
    BY DEF Finish, Throw, Goto, IInv, TypeOK
  <1> QED BY <1>1 DEF ChainInv, IdsApart

\* A session's open transaction is committed.
LEMMA CommitKeepsIds ==
  ASSUME IInv, ChainInv, NEW s \in Sessions, Finish(s), chain' = chain \cup draft[s]
  PROVE  ChainInv'
PROOF
  <1>1. /\ draft'[s] = {}
        /\ \A t \in Sessions \ {s} : draft'[t] = draft[t]
    BY DEF Finish, IInv, TypeOK
  <1>2. \A d, e \in draft[s] : d = e
    BY DEF IInv, DraftOfCall
  <1>3. IdsApart'
    BY <1>1, <1>2 DEF ChainInv, IdsApart
  <1>4. IsFiniteSet(chain')
    <2>1. CASE draft[s] = {}
      <3>1. chain' = chain
        BY <2>1
      <3> QED BY <3>1 DEF ChainInv
    <2>2. CASE draft[s] # {}
      <3>1. PICK e : draft[s] = {e}
        BY <1>2, <2>2
      <3>2. IsFiniteSet(chain \cup {e})
        BY FS_AddElement DEF ChainInv
      <3> QED BY <3>1, <3>2
    <2> QED BY <2>1, <2>2
  <1> QED BY <1>3, <1>4 DEF ChainInv

LEMMA StepKeepsIds ==
  ASSUME IInv, ChainInv, [Next]_vars
  PROVE  ChainInv'
PROOF
  <1>1. CASE UNCHANGED <<chain, draft>>
    BY <1>1 DEF ChainInv, IdsApart
  <1>2. ASSUME NEW s \in Sessions, Call(s) \/ Lock(s) \/ ReadTail(s) \/ Unlock(s) \/ Reap(s)
        PROVE  ChainInv'
    BY <1>1, <1>2 DEF Call, Lock, ReadTail, Unlock, Reap
  <1>3. ASSUME NEW s \in Sessions, Insert(s) PROVE ChainInv'
    <2> DEFINE new == [id |-> lastId + 1, prev |-> tail[s], call |-> call[s]]
    <2>1. CASE Throw(s)
      BY <1>3, <2>1, DropKeepsIds DEF Insert
    <2>2. CASE draft' = [draft EXCEPT ![s] = @ \cup {new}]
      <3>1. draft[s] = {} /\ chain' = chain
        BY <1>3 DEF Insert, IInv, DraftOfCall, Inserted
      <3>2. draft'[s] = {new} /\ \A t \in Sessions \ {s} : draft'[t] = draft[t]
        BY <2>2, <3>1 DEF IInv, TypeOK
      <3>3. lastId \in Nat /\ chain \in SUBSET Entry /\ \A t \in Sessions : draft[t] \in SUBSET Entry
        BY DEF IInv, TypeOK
      <3>4. /\ \A e \in chain : new.id # e.id
            /\ \A t \in Sessions : \A e \in draft[t] : new.id # e.id
        BY <3>3 DEF IInv, IdsDrawn, Entry
      <3>5. IdsApart'
        BY <3>1, <3>2, <3>4 DEF ChainInv, IdsApart
      <3> QED BY <3>1, <3>5 DEF ChainInv
    <2> QED BY <1>3, <2>1, <2>2 DEF Insert
  <1>4. ASSUME NEW s \in Sessions, Stage(s) \/ Proceed(s) PROVE ChainInv'
    BY <1>1, <1>4, DropKeepsIds DEF Stage, Proceed
  <1>5. ASSUME NEW s \in Sessions, Commit(s) \/ Disconnect(s) PROVE ChainInv'
    BY <1>5, DropKeepsIds, CommitKeepsIds DEF Commit, Disconnect
  <1>6. ASSUME NEW a \in Sealers, ReadChain(a) \/ StoreRoot(a) \/ GetRoot(a) \/ StoreSignature(a)
        PROVE  ChainInv'
    BY <1>1, <1>6 DEF ReadChain, StoreRoot, GetRoot, StoreSignature, appending, session
  <1>7. CASE UNCHANGED vars
    BY <1>1, <1>7 DEF vars, session
  <1> QED BY <1>2, <1>3, <1>4, <1>5, <1>6, <1>7 DEF Next, SessionStep

\* Every entry has an id of its own, and the chain is finite.
THEOREM IdsAreApart == Spec => []ChainInv
PROOF
  <1>1. Init => ChainInv
    <2> SUFFICES ASSUME Init PROVE ChainInv
      OBVIOUS
    <2>1. PICK n \in Histories : chain = History(n)
      BY DEF Init
    <2>2. n \in Nat
      BY ConstantsAssumption
    <2>3. \A s \in Sessions : draft[s] = {}
      BY DEF Init
    <2>4. \A d, e \in chain : d.id = e.id => d = e
      BY <2>1 DEF History
    <2>5. IsFiniteSet(chain)
      <3> DEFINE f == [i \in 1..n |-> [id |-> i, prev |-> i - 1, call |-> 0]]
      <3>1. f \in Surjection(1..n, chain)
        <4>1. \A e \in chain : \E i \in 1..n : f[i] = e
          BY <2>1 DEF History
        <4>2. f \in [1..n -> chain]
          BY <2>1 DEF History
        <4> QED BY <4>1, <4>2 DEF Surjection
      <3>2. IsFiniteSet(1..n)
        BY <2>2, FS_Interval
      <3> HIDE DEF f
      <3> QED BY <3>1, <3>2, FS_Surjection
    <2> QED BY <2>3, <2>4, <2>5 DEF ChainInv, IdsApart
  <1>2. IInv /\ ChainInv /\ [Next]_vars => ChainInv'
    BY StepKeepsIds
  <1> QED BY <1>1, <1>2, Invariance, PTL DEF Spec

\* getChain returns every committed entry once.
LEMMA ChainIs ==
  ASSUME IInv, ChainInv
  PROVE  /\ Cardinality(chain) \in Nat
         /\ GetChain \in Seq(chain) /\ Len(GetChain) = Cardinality(chain)
         /\ \A i, j \in 1..Len(GetChain) : GetChain[i] = GetChain[j] => i = j
PROOF
  <1> DEFINE n == Cardinality(chain)
             Upto(e) == {d \in chain : d.id <= e.id}
             r == [e \in chain |-> Cardinality(Upto(e))]
  <1>1. IsFiniteSet(chain) /\ n \in Nat
    BY FS_CardinalityType DEF ChainInv
  <1>2. \A e \in chain : e.id \in Nat
    BY DEF IInv, TypeOK, Entry
  <1>3. ASSUME NEW e \in chain
        PROVE  /\ IsFiniteSet(Upto(e)) /\ Cardinality(Upto(e)) \in 1..n
               /\ e \in Upto(e)
    <2>1. e \in Upto(e) /\ Upto(e) \in SUBSET chain
      BY <1>2
    <2>2. IsFiniteSet(Upto(e)) /\ Cardinality(Upto(e)) <= n /\ Cardinality(Upto(e)) \in Nat
      BY <1>1, <2>1, FS_Subset, FS_CardinalityType
    <2>3. Cardinality(Upto(e)) # 0
      BY <2>1, <2>2, FS_EmptySet
    <2> HIDE DEF Upto, n
    <2> QED BY <1>1, <2>1, <2>2, <2>3
  <1>4. ASSUME NEW d \in chain, NEW e \in chain, d.id < e.id
        PROVE  Cardinality(Upto(d)) < Cardinality(Upto(e))
    <2>1. Upto(d) \in SUBSET Upto(e) /\ Upto(d) # Upto(e)
      <3>1. e \in Upto(e) /\ e \notin Upto(d)
        BY <1>2, <1>4
      <3>2. \A c \in chain : c.id <= d.id => c.id <= e.id
        BY <1>2, <1>4
      <3> QED BY <3>1, <3>2
    <2>2. IsFiniteSet(Upto(d)) /\ IsFiniteSet(Upto(e)) /\ Cardinality(Upto(d)) \in Nat /\ Cardinality(Upto(e)) \in Nat
      BY <1>3, FS_CardinalityType
    <2> HIDE DEF Upto
    <2>3. Cardinality(Upto(d)) <= Cardinality(Upto(e)) /\ Cardinality(Upto(d)) # Cardinality(Upto(e))
      BY <2>1, <2>2, FS_Subset
    <2> QED BY <2>2, <2>3
  <1>5. r \in Injection(chain, 1..n)
    <2>1. r \in [chain -> 1..n]
      BY <1>3
    <2>2. ASSUME NEW d \in chain, NEW e \in chain, r[d] = r[e] PROVE d = e
      <3>1. Cardinality(Upto(d)) = Cardinality(Upto(e))
        BY <2>2
      <3>2. Cardinality(Upto(d)) \in Nat /\ Cardinality(Upto(e)) \in Nat
        BY <1>3, FS_CardinalityType
      <3> HIDE DEF Upto
      <3>3. d.id = e.id
        BY <1>2, <1>4, <3>1, <3>2
      <3> QED BY <3>3 DEF ChainInv, IdsApart
    <2> HIDE DEF r
    <2> QED BY <2>1, <2>2 DEF Injection, IsInjective
  <1>6. \A i \in 1..n : \E e \in chain : Cardinality(Upto(e)) = i
    <2>1. IsFiniteSet(1..n) /\ Cardinality(1..n) = n
      BY <1>1, FS_Interval
    <2>2. r \in Surjection(chain, 1..n)
      <3> HIDE DEF r, n
      <3> QED BY <1>5, <2>1, FS_Injection DEF n
    <2> HIDE DEF Upto
    <2> QED BY <2>2 DEF Surjection
  <1>7. GetChain = [i \in 1..n |-> CHOOSE e \in chain : Cardinality(Upto(e)) = i]
    BY DEF GetChain
  <1> HIDE DEF n, Upto, r
  <1>8. \A i \in 1..n : GetChain[i] \in chain /\ Cardinality(Upto(GetChain[i])) = i
    BY <1>6, <1>7
  <1>9. GetChain \in Seq(chain) /\ Len(GetChain) = n
    <2>1. GetChain \in [1..n -> chain]
      BY <1>7, <1>8
    <2> QED BY <1>1, <2>1, SeqDef
  <1>10. \A i, j \in 1..n : GetChain[i] = GetChain[j] => i = j
    BY <1>8
  <1> QED BY <1>1, <1>9, <1>10 DEF n

\* The root of the ledger tells its states apart, and the proof of an entry proves
\* that entry alone.
THEOREM TreesAreSound == Spec => []TreeIsSound
PROOF
  <1>1. IInv /\ ChainInv => TreeIsSound
    <2> SUFFICES ASSUME IInv, ChainInv PROVE TreeIsSound
      OBVIOUS
    <2> DEFINE c == GetChain
               n == Cardinality(chain)
               L == [i \in DOMAIN c |-> Leaf(c[i])]
    <2>1. n \in Nat /\ c \in Seq(chain) /\ Len(c) = n /\ DOMAIN c = 1..n
          /\ \A i, j \in 1..n : c[i] = c[j] => i = j
      BY ChainIs
    <2> HIDE DEF c, n
    <2>2. L = [i \in 1..n |-> HashLeaf(c[i])]
      BY <2>1 DEF Leaf
    <2> HIDE DEF L
    <2>3. /\ LeavesOnly(L) /\ Len(L) = n
          /\ \A i, j \in 1..n : L[i] = L[j] => i = j
      <3>1. L = [i \in 1..n |-> L[i]] /\ \A i \in 1..n : L[i] = HashLeaf(c[i])
        BY <2>2
      <3>2. IsSeq(L) /\ Len(L) = n
        BY <2>1, <3>1, IsSeqIf
      <3> QED BY <2>1, <3>1, <3>2, HashesFree DEF LeavesOnly
    <2>4. ASSUME NEW m \in 0..n
          PROVE  LeavesOnly(SubSeq(L, 1, m)) /\ Len(SubSeq(L, 1, m)) = m
      <3>1. L \in Seq({L[i] : i \in DOMAIN L}) /\ m \in Nat /\ m <= Len(L)
        BY <2>1, <2>3, <2>4 DEF LeavesOnly, IsSeq
      <3>2. SubSeq(L, 1, m) = [i \in 1..m |-> L[i]]
        BY <3>1
      <3>3. SubSeq(L, 1, m) = [i \in 1..m |-> SubSeq(L, 1, m)[i]]
        BY <3>2
      <3>4. IsSeq(SubSeq(L, 1, m)) /\ Len(SubSeq(L, 1, m)) = m
        BY <3>1, <3>3, IsSeqIf
      <3>5. \A i \in 1..m : SubSeq(L, 1, m)[i] = L[i] /\ i \in 1..Len(L)
        BY <3>1, <3>2, <2>1, <2>3
      <3> QED BY <2>3, <3>4, <3>5 DEF LeavesOnly
    <2>5. \A i, j \in 0..n : ComputeRoot(SubSeq(L, 1, i)) = ComputeRoot(SubSeq(L, 1, j)) => i = j
      <3> SUFFICES ASSUME NEW i \in 0..n, NEW j \in 0..n,
                          ComputeRoot(SubSeq(L, 1, i)) = ComputeRoot(SubSeq(L, 1, j))
                   PROVE  i = j
        OBVIOUS
      <3>1. SubSeq(L, 1, i) = SubSeq(L, 1, j)
        BY <2>4, RootDeterminesLeaves
      <3> QED BY <2>4, <3>1
    <2>6. L # <<>> => ComputeRoot(Append(L, Last(L))) # ComputeRoot(L)
      <3> SUFFICES ASSUME L # <<>>, ComputeRoot(Append(L, Last(L))) = ComputeRoot(L) PROVE FALSE
        OBVIOUS
      <3> DEFINE M == Append(L, Last(L))
      <3>1. /\ IsSeq(M) /\ Len(M) = n + 1 /\ M[n + 1] = Last(L)
            /\ \A i \in 1..n : M[i] = L[i]
        BY <2>3, AppendIs DEF LeavesOnly
      <3>2. Last(L) = L[n] /\ n \in 1..n
        BY <2>1, <2>3, SeqIs DEF Last, LeavesOnly
      <3> HIDE DEF M
      <3>3. LeavesOnly(M)
        <4>1. \A i \in 1..(n + 1) : i \in 1..n \/ i = n + 1
          BY <2>1
        <4> QED BY <2>3, <3>1, <3>2, <4>1 DEF LeavesOnly
      <3>4. M = L
        BY <2>3, <3>3, RootDeterminesLeaves DEF M
      <3> QED BY <2>1, <2>3, <3>1, <3>4
    <2>7. \A i, j \in 0..(Len(L) - 1) :
            VerifyInclusion(L[j + 1], InclusionPath(L, i), ComputeRoot(L)) <=> i = j
      <3> SUFFICES ASSUME NEW i \in 0..(Len(L) - 1), NEW j \in 0..(Len(L) - 1)
                   PROVE  VerifyInclusion(L[j + 1], InclusionPath(L, i), ComputeRoot(L)) <=> i = j
        OBVIOUS
      <3>1. VerifyInclusion(L[j + 1], InclusionPath(L, i), ComputeRoot(L)) <=> L[j + 1] = L[i + 1]
        BY <2>3, PathProvesItsLeaf
      <3>2. i \in Int /\ j \in Int /\ i + 1 \in 1..n /\ j + 1 \in 1..n
        BY <2>1, <2>3
      <3> QED BY <2>3, <3>1, <3>2
    <2> QED BY <2>3, <2>5, <2>6, <2>7 DEF TreeIsSound, L, c
  <1> QED BY <1>1, Invariance, IdsAreApart, PTL

\* What is inside a value, what stands opposite in two values and what is written of a
\* text, level after level.
LEMMA Insides ==
  ASSUME NEW x
  PROVE  /\ Inside(x, 0) = {x}
         /\ \A n \in Nat : Inside(x, n + 1) = Contents(Inside(x, n))
PROOF
  <1> DEFINE a == {x}
  <1>1. \A n : Inside(x, n) = Values("inside", x, a)[n]
    BY DEF Inside, Step, Values, IsRecursion
  <1> HIDE DEF a
  <1>2. \A n \in Nat : Values("inside", x, a)[n + 1] = Contents(Values("inside", x, a)[n])
    BY Recursion DEF Step
  <1>3. Values("inside", x, a)[0] = a
    BY Recursion
  <1> QED BY <1>1, <1>2, <1>3 DEF a

\* Pairs of what stands at the same place, level after level.
LEMMA Facings ==
  ASSUME NEW x, NEW y
  PROVE  /\ Opposite(x, y, 0) = {<<x, y>>}
         /\ \A n \in Nat : Opposite(x, y, n + 1) = Opposites(Opposite(x, y, n))
PROOF
  <1> DEFINE a == {<<x, y>>}
  <1>1. \A n : Opposite(x, y, n) = Values("facing", x, a)[n]
    BY DEF Opposite, Step, Values, IsRecursion
  <1> HIDE DEF a
  <1>2. \A n \in Nat : Values("facing", x, a)[n + 1] = Opposites(Values("facing", x, a)[n])
    BY Recursion DEF Step
  <1>3. Values("facing", x, a)[0] = a
    BY Recursion
  <1> QED BY <1>1, <1>2, <1>3 DEF a

\* A text, level after level.
LEMMA Writings ==
  ASSUME NEW s
  PROVE  /\ Written(s, 0) = s
         /\ \A n \in Nat : Written(s, n + 1) = SerializeAll(Written(s, n))
PROOF
  <1>1. \A n : Written(s, n) = Values("written", s, s)[n]
    BY DEF Written, Step, Values, IsRecursion
  <1>2. \A n \in Nat : Values("written", s, s)[n + 1] = SerializeAll(Values("written", s, s)[n])
    BY Recursion DEF Step
  <1> QED BY <1>1, <1>2, Recursion

-------------------------------------------------------------------------------
\* Concatenation.

\* Three sequences are sequences over one set.
LEMMA Common ==
  ASSUME NEW s, IsSeq(s), NEW t, IsSeq(t), NEW u, IsSeq(u)
  PROVE  \E S : s \in Seq(S) /\ t \in Seq(S) /\ u \in Seq(S)
PROOF
  <1> DEFINE S == {s[i] : i \in DOMAIN s} \cup {t[i] : i \in DOMAIN t} \cup {u[i] : i \in DOMAIN u}
  <1>1. s \in Seq(S)
    BY SeqMonotonic DEF IsSeq
  <1>2. t \in Seq(S)
    BY SeqMonotonic DEF IsSeq
  <1>3. u \in Seq(S)
    BY SeqMonotonic DEF IsSeq
  <1> HIDE DEF S
  <1> QED BY <1>1, <1>2, <1>3

\* What a concatenation is at each place.
LEMMA CatIs ==
  ASSUME NEW s, IsSeq(s), NEW t, IsSeq(t)
  PROVE  /\ IsSeq(s \o t) /\ Len(s \o t) = Len(s) + Len(t)
         /\ \A i \in 1..Len(s) : (s \o t)[i] = s[i]
         /\ \A i \in 1..Len(t) : (s \o t)[Len(s) + i] = t[i]
PROOF
  <1>1. PICK S : s \in Seq(S) /\ t \in Seq(S)
    BY Common
  <1>2. /\ s \o t \in Seq(S) /\ Len(s \o t) = Len(s) + Len(t)
        /\ \A i \in 1..(Len(s) + Len(t)) : (s \o t)[i] = IF i <= Len(s) THEN s[i] ELSE t[i - Len(s)]
    BY <1>1, ConcatProperties
  <1>3. IsSeq(s \o t)
    BY <1>2, SeqsAre
  <1>4. Len(s) \in Nat /\ Len(t) \in Nat
    BY SeqIs
  <1>5. \A i \in 1..Len(s) : i \in 1..(Len(s) + Len(t)) /\ i <= Len(s)
    BY <1>4
  <1>6. \A i \in 1..Len(t) : Len(s) + i \in 1..(Len(s) + Len(t)) /\ ~(Len(s) + i <= Len(s)) /\ (Len(s) + i) - Len(s) = i
    BY <1>4
  <1> QED BY <1>2, <1>3, <1>5, <1>6

\* What two sequences end with is equal when they begin and are equal.
LEMMA CatCancels ==
  ASSUME NEW s, IsSeq(s), NEW t, IsSeq(t), NEW u, IsSeq(u), s \o t = s \o u
  PROVE  t = u
PROOF
  <1>1. PICK S : s \in Seq(S) /\ t \in Seq(S) /\ u \in Seq(S)
    BY Common
  <1>2. \A v, w \in Seq(S) : s \o v = s \o w => v = w
    BY <1>1, ConcatSimplifications
  <1> QED BY <1>1, <1>2

\* Concatenation is associative.
LEMMA CatAssociates ==
  ASSUME NEW s, IsSeq(s), NEW t, IsSeq(t), NEW u, IsSeq(u)
  PROVE  (s \o t) \o u = s \o (t \o u)
PROOF
  <1>1. PICK S : s \in Seq(S) /\ t \in Seq(S) /\ u \in Seq(S)
    BY Common
  <1> QED BY <1>1, ConcatAssociative

\* Both at once, and the sequence of none adds nothing.
LEMMA CatLaws ==
  ASSUME NEW s, IsSeq(s), NEW t, IsSeq(t), NEW u, IsSeq(u)
  PROVE  /\ (s \o t) \o u = s \o (t \o u)
         /\ s \o t = s \o u => t = u
         /\ s \o <<>> = s /\ <<>> \o s = s
PROOF
  <1>1. PICK S : s \in Seq(S) /\ t \in Seq(S) /\ u \in Seq(S)
    BY Common
  <1>2. (s \o t) \o u = s \o (t \o u)
    BY CatAssociates, SMTT(30)
  <1>3. s \o t = s \o u => t = u
    BY CatCancels
  <1>4. s \o <<>> = s /\ <<>> \o s = s
    BY <1>1, ConcatEmptySeq
  <1> QED BY <1>2, <1>3, <1>4

\* A sequence of one.
LEMMA OneIs ==
  ASSUME NEW a
  PROVE  IsSeq(<<a>>) /\ Len(<<a>>) = 1 /\ <<a>>[1] = a
PROOF BY DEF IsSeq

\* The sequence of none.
LEMMA EmptyIs == IsSeq(<<>>) /\ Len(<<>>) = 0
PROOF BY DEF IsSeq

\* A token, and what comes after it.
After(a, r) == <<a>> \o r

\* Two sequences that are equal begin and go on the same way.
LEMMA HeadsAgree ==
  ASSUME NEW a, NEW b, NEW r, IsSeq(r), NEW s, IsSeq(s), After(a, r) = After(b, s)
  PROVE  a = b /\ r = s
PROOF
  <1>0. <<a>> \o r = <<b>> \o s
    BY DEF After
  <1>1. (<<a>> \o r)[1] = a /\ (<<b>> \o s)[1] = b
    <2>1. \A x : IsSeq(<<x>>) /\ Len(<<x>>) = 1 /\ <<x>>[1] = x
      BY OneIs
    <2>2. 1 \in 1..1
      OBVIOUS
    <2>3. (<<a>> \o r)[1] = <<a>>[1] /\ (<<b>> \o s)[1] = <<b>>[1]
      BY <2>1, <2>2, CatIs
    <2> QED BY <2>1, <2>3
  <1>2. a = b
    BY <1>0, <1>1
  <1>3. r = s
    <2> DEFINE h == <<a>>
    <2>1. IsSeq(h)
      BY OneIs
    <2>2. h \o r = h \o s
      BY <1>0, <1>2
    <2> HIDE DEF h
    <2> QED BY <2>1, <2>2, CatCancels, Zenon
  <1> QED BY <1>2, <1>3

\* A sequence with one put in front of it.
LEMMA FrontIs ==
  ASSUME NEW a, NEW t, IsSeq(t)
  PROVE  /\ IsSeq(<<a>> \o t) /\ Len(<<a>> \o t) = Len(t) + 1
         /\ (<<a>> \o t)[1] = a
         /\ \A i \in 1..Len(t) : (<<a>> \o t)[i + 1] = t[i]
PROOF
  <1>1. PICK h : h = <<a>>
    OBVIOUS
  <1>2. IsSeq(h) /\ Len(h) = 1 /\ h[1] = a /\ 1 \in 1..Len(h)
    BY <1>1, OneIs
  <1>3. Len(t) \in Nat
    BY SeqIs
  <1>4. /\ IsSeq(h \o t) /\ Len(h \o t) = Len(h) + Len(t)
        /\ \A i \in 1..Len(h) : (h \o t)[i] = h[i]
        /\ \A i \in 1..Len(t) : (h \o t)[Len(h) + i] = t[i]
    <2>1. IsSeq(h)
      BY <1>2
    <2>2. IsSeq(h \o t) /\ Len(h \o t) = Len(h) + Len(t)
      BY <2>1, CatIs
    <2>3. \A i \in 1..Len(h) : (h \o t)[i] = h[i]
      BY <2>1, CatIs
    <2>4. \A i \in 1..Len(t) : (h \o t)[Len(h) + i] = t[i]
      BY <2>1, CatIs
    <2> QED BY <2>2, <2>3, <2>4
  <1>5. \A i \in 1..Len(t) : 1 + i = i + 1
    BY <1>3
  <1>6. IsSeq(h \o t) /\ Len(h \o t) = Len(t) + 1 /\ (h \o t)[1] = a
    BY <1>2, <1>3, <1>4
  <1>7. ASSUME NEW i \in 1..Len(t) PROVE (h \o t)[i + 1] = t[i]
    <2>1. (h \o t)[Len(h) + i] = t[i]
      BY <1>4
    <2>2. Len(h) + i = i + 1
      BY <1>2, <1>5
    <2> QED BY <2>1, <2>2
  <1> QED BY <1>1, <1>6, <1>7

\* A sequence that is not empty is its first element and a shorter one.
LEMMA FirstOf ==
  ASSUME NEW s, IsSeq(s), Len(s) > 0
  PROVE  \E t : /\ IsSeq(t) /\ s = <<s[1]>> \o t /\ Len(s) = Len(t) + 1
                /\ \A i \in 1..Len(t) : t[i] = s[i + 1]
PROOF
  <1>1. Len(s) \in Nat /\ DOMAIN s = 1..Len(s) /\ s = [i \in 1..Len(s) |-> s[i]]
    BY SeqIs
  <1> DEFINE n == Len(s)
             t == [i \in 1..(n - 1) |-> s[i + 1]]
  <1>2. n - 1 \in Nat /\ t = [i \in 1..(n - 1) |-> t[i]]
    BY <1>1
  <1>3. IsSeq(t) /\ Len(t) = n - 1 /\ \A i \in 1..(n - 1) : t[i] = s[i + 1]
    <2>1. \A i \in 1..(n - 1) : t[i] = s[i + 1]
      OBVIOUS
    <2> HIDE DEF t, n
    <2> QED BY <1>2, <2>1, IsSeqIf
  <1> HIDE DEF t
  <1>4. /\ IsSeq(<<s[1]>> \o t) /\ Len(<<s[1]>> \o t) = Len(t) + 1
        /\ (<<s[1]>> \o t)[1] = s[1]
        /\ \A i \in 1..Len(t) : (<<s[1]>> \o t)[i + 1] = t[i]
    BY <1>3, FrontIs
  <1> DEFINE w == <<s[1]>> \o t
  <1>5. ASSUME NEW i \in 1..n PROVE s[i] = w[i]
    <2>1. CASE i = 1
      BY <1>4, <2>1
    <2>2. CASE i # 1
      <3>1. i - 1 \in 1..Len(t) /\ (i - 1) + 1 = i
        BY <1>1, <1>3, <1>5, <2>2
      <3>2. w[(i - 1) + 1] = t[i - 1]
        BY <1>4, <3>1
      <3>3. t[i - 1] = s[(i - 1) + 1]
        BY <1>3, <3>1
      <3> HIDE DEF w
      <3> QED BY <3>1, <3>2, <3>3
    <2> QED BY <2>1, <2>2
  <1>6. s = w
    <2>1. IsSeq(w)
      BY <1>4
    <2>2. Len(w) = n
      <3>1. Len(w) = Len(t) + 1
        BY <1>4
      <3>2. Len(t) = n - 1
        BY <1>3
      <3> HIDE DEF w
      <3> QED BY <1>1, <3>1, <3>2
    <2> HIDE DEF w, n
    <2> QED BY <1>5, <2>1, <2>2, SameSeq DEF n
  <1>7. \A i \in 1..Len(t) : t[i] = s[i + 1]
    BY <1>3
  <1>8. Len(s) = Len(t) + 1
    BY <1>1, <1>3
  <1> QED BY <1>3, <1>6, <1>7, <1>8

-------------------------------------------------------------------------------
\* Flattening, and serializing a text level after level.

\* A sequence of sequences.
AllSeqs(ss) == IsSeq(ss) /\ \A i \in 1..Len(ss) : IsSeq(ss[i])

\* The first n of them, one after another.
Flat(ss, n) == Values("flat", ss, <<>>)[n]

\* Sequences laid end to end, one more at a time.
LEMMA FlatIs ==
  ASSUME NEW ss, AllSeqs(ss)
  PROVE  /\ Flat(ss, 0) = <<>>
         /\ \A n \in Nat : Flat(ss, n + 1) = Flat(ss, n) \o ss[n + 1]
         /\ \A n \in 0..Len(ss) : IsSeq(Flat(ss, n))
PROOF
  <1>1. Flat(ss, 0) = <<>> /\ \A n \in Nat : Flat(ss, n + 1) = Flat(ss, n) \o ss[n + 1]
    <2> DEFINE e == <<>>
               V == Values("flat", ss, e)
    <2>1. \A n \in Nat : V[n + 1] = V[n] \o ss[n + 1]
      <3>1. \A p, j : Step("flat", ss, p, j) = p \o ss[j]
        BY DEF Step
      <3>2. \A n \in Nat : V[n + 1] = Step("flat", ss, V[n], n + 1)
        <4> HIDE DEF e
        <4> QED BY Recursion
      <3> HIDE DEF V
      <3> QED BY <3>1, <3>2, Zenon
    <2>2. V[0] = e
      <3> HIDE DEF e
      <3> QED BY Recursion
    <2> QED BY <2>1, <2>2 DEF Flat
  <1> DEFINE T == {n \in Nat : n <= Len(ss) => IsSeq(Flat(ss, n))}
  <1>2. Len(ss) \in Nat
    BY SeqIs DEF AllSeqs
  <1>3. 0 \in T
    BY <1>1, EmptyIs
  <1>4. ASSUME NEW n \in T PROVE n + 1 \in T
    <2>1. CASE n + 1 <= Len(ss)
      <3>1. n \in Nat /\ n <= Len(ss) /\ n + 1 \in 1..Len(ss)
        BY <1>2, <2>1
      <3>2. IsSeq(Flat(ss, n)) /\ IsSeq(ss[n + 1])
        BY <3>1 DEF AllSeqs
      <3>3. IsSeq(Flat(ss, n) \o ss[n + 1])
        BY <3>2, CatIs
      <3>4. Flat(ss, n + 1) = Flat(ss, n) \o ss[n + 1]
        BY <1>1, <3>1
      <3>5. IsSeq(Flat(ss, n + 1))
        BY <3>3, <3>4, Zenon
      <3>6. n + 1 \in Nat
        BY <3>1
      <3> QED BY <3>5, <3>6
    <2>2. CASE ~(n + 1 <= Len(ss))
      BY <2>2
    <2> QED BY <2>1, <2>2
  <1>5. T = Nat
    <2>1. T \in SUBSET Nat
      OBVIOUS
    <2> HIDE DEF T
    <2> QED BY <1>3, <1>4, <2>1, Induction
  <1>6. \A n \in 0..Len(ss) : IsSeq(Flat(ss, n))
    BY <1>2, <1>5
  <1> QED BY <1>1, <1>6

\* FlattenSeq lays all of them end to end.
LEMMA FlattensIs ==
  ASSUME NEW ss, AllSeqs(ss)
  PROVE  FlattenSeq(ss) = Flat(ss, Len(ss))
PROOF
  <1> DEFINE n == Len(ss)
             IsFlat(f) == f = [i \in 1..n |-> IF i = 1 THEN ss[i] ELSE f[i - 1] \o ss[i]]
             g == [i \in 1..n |-> Flat(ss, i)]
  <1>1. n \in Nat /\ DOMAIN ss = 1..n /\ ss = [i \in 1..n |-> ss[i]]
    BY SeqIs DEF AllSeqs
  <1>2. CASE n = 0
    <2>1. ss = <<>>
      <3>1. IsSeq(ss) /\ Len(ss) = 0 /\ IsSeq(<<>>) /\ Len(<<>>) = 0
        BY <1>2, EmptyIs DEF AllSeqs
      <3>2. \A i \in 1..0 : ss[i] = <<>>[i]
        OBVIOUS
      <3> QED BY <3>1, <3>2, SameSeq
    <2>2. FlattenSeq(ss) = ss
      BY <1>2 DEF FlattenSeq
    <2> QED BY <1>2, <2>1, <2>2, FlatIs
  <1>3. CASE n # 0
    <2>1. \A i \in 1..n : IsSeq(ss[i])
      BY DEF AllSeqs
    <2>2. Flat(ss, 1) = ss[1]
      <3>0. 0 \in Nat /\ 0 + 1 = 1
        OBVIOUS
      <3>1. Flat(ss, 1) = Flat(ss, 0) \o ss[1]
        BY <3>0, FlatIs
      <3>4. Flat(ss, 0) = <<>>
        BY FlatIs
      <3>2. IsSeq(ss[1])
        BY <1>1, <1>3, <2>1
      <3>3. <<>> \o ss[1] = ss[1]
        BY <3>2, CatLaws
      <3> QED BY <3>1, <3>3, <3>4, Zenon
    <2>3. ASSUME NEW i \in 1..n, i # 1 PROVE Flat(ss, i) = Flat(ss, i - 1) \o ss[i]
      <3>1. i - 1 \in Nat /\ (i - 1) + 1 = i
        BY <1>1, <2>3
      <3>2. Flat(ss, (i - 1) + 1) = Flat(ss, i - 1) \o ss[(i - 1) + 1]
        BY <3>1, FlatIs
      <3> QED BY <3>1, <3>2
    <2>4. IsFlat(g)
      <3>1. ASSUME NEW i \in 1..n PROVE g[i] = IF i = 1 THEN ss[i] ELSE g[i - 1] \o ss[i]
        <4>1. CASE i = 1
          BY <2>2, <4>1
        <4>2. CASE i # 1
          <5>1. i - 1 \in 1..n
            BY <1>1, <4>2
          <5> QED BY <2>3, <4>2, <5>1
        <4> QED BY <4>1, <4>2
      <3>2. g = [i \in 1..n |-> g[i]]
        OBVIOUS
      <3> HIDE DEF g
      <3> QED BY <3>1, <3>2
    <2>5. ASSUME NEW f, IsFlat(f) PROVE f[n] = Flat(ss, n)
      <3> DEFINE T == {i \in Nat : i + 1 <= n => f[i + 1] = Flat(ss, i + 1)}
      <3>1. \A i \in 1..n : f[i] = IF i = 1 THEN ss[i] ELSE f[i - 1] \o ss[i]
        BY <2>5
      <3> HIDE DEF IsFlat
      <3>2. 0 \in T
        <4>1. 1 \in 1..n
          BY <1>1, <1>3
        <4>2. f[1] = ss[1]
          BY <3>1, <4>1
        <4> QED BY <2>2, <4>2
      <3>3. ASSUME NEW i \in T PROVE i + 1 \in T
        <4>1. CASE (i + 1) + 1 <= n
          <5> DEFINE k == (i + 1) + 1
          <5>1. k \in 1..n /\ k # 1 /\ k - 1 = i + 1 /\ i + 1 <= n /\ i \in Nat
            BY <1>1, <4>1
          <5>2. f[k] = f[k - 1] \o ss[k] /\ Flat(ss, k) = Flat(ss, k - 1) \o ss[k]
            <6> HIDE DEF k
            <6> QED BY <2>3, <3>1, <5>1
          <5>3. f[i + 1] = Flat(ss, i + 1)
            BY <5>1
          <5>4. f[k] = Flat(ss, k)
            <6> HIDE DEF k
            <6> QED BY <5>1, <5>2, <5>3
          <5> QED BY <5>1, <5>4
        <4>2. CASE ~((i + 1) + 1 <= n)
          BY <4>2
        <4> QED BY <4>1, <4>2
      <3>4. T = Nat
        <4>1. T \in SUBSET Nat
          OBVIOUS
        <4> HIDE DEF T
        <4> QED BY <3>2, <3>3, <4>1, Induction
      <3>5. n - 1 \in T /\ (n - 1) + 1 = n
        <4> HIDE DEF T
        <4> QED BY <1>1, <1>3, <3>4
      <3> QED BY <1>1, <3>5
    <2>6. FlattenSeq(ss) = (CHOOSE f : IsFlat(f))[n]
      BY <1>3 DEF FlattenSeq
    <2> HIDE DEF IsFlat, g
    <2> QED BY <2>4, <2>5, <2>6
  <1> QED BY <1>2, <1>3

-------------------------------------------------------------------------------
\* The order of keys.

\* The pairs order the keys: no key before itself, and of two keys one before the other.
Orders(ahead, keys) ==
  /\ \A k \in keys : <<k, k>> \notin ahead
  /\ \A k, l \in keys : k # l => <<k, l>> \in ahead \/ <<l, k>> \in ahead
  /\ \A k, l, m \in keys : <<k, l>> \in ahead /\ <<l, m>> \in ahead => <<k, m>> \in ahead

\* Keys in order are all of the keys, each once.
LEMMA InOrderIs ==
  ASSUME NEW keys, IsFiniteSet(keys), NEW ahead, Orders(ahead, keys)
  PROVE  LET s == InOrder(keys, ahead)
         IN  /\ IsSeq(s) /\ Len(s) = Cardinality(keys)
             /\ \A r \in 1..Len(s) : s[r] \in keys
             /\ \A k \in keys : \E r \in 1..Len(s) : s[r] = k
             /\ \A q, r \in 1..Len(s) : s[q] = s[r] => q = r
PROOF
  <1> DEFINE n == Cardinality(keys)
             Down(k) == {l \in keys : <<l, k>> \in ahead}
             rank == [k \in keys |-> Cardinality(Down(k)) + 1]
  <1>1. n \in Nat /\ \A k : IsFiniteSet(Down(k)) /\ Cardinality(Down(k)) \in Nat
    <2>1. \A k : Down(k) \in SUBSET keys
      OBVIOUS
    <2> HIDE DEF Down
    <2> QED BY <2>1, FS_Subset, FS_CardinalityType
  <1>2. ASSUME NEW k \in keys PROVE Cardinality(Down(k)) < n
    <2>1. Down(k) \in SUBSET keys /\ Down(k) # keys
      BY DEF Orders
    <2> HIDE DEF Down
    <2> QED BY <1>1, <2>1, FS_Subset
  <1>3. ASSUME NEW k \in keys, NEW l \in keys, <<k, l>> \in ahead
        PROVE  Cardinality(Down(k)) < Cardinality(Down(l))
    <2>1. Down(k) \in SUBSET Down(l)
      BY <1>3 DEF Orders
    <2>2. k \in Down(l) /\ k \notin Down(k)
      BY <1>3 DEF Orders
    <2>3. Down(k) # Down(l)
      BY <2>2
    <2> HIDE DEF Down
    <2>4. Cardinality(Down(k)) <= Cardinality(Down(l)) /\ Cardinality(Down(k)) # Cardinality(Down(l))
      BY <1>1, <2>1, <2>3, FS_Subset
    <2> QED BY <1>1, <2>4
  <1>4. ASSUME NEW k \in keys, NEW l \in keys, Cardinality(Down(k)) = Cardinality(Down(l)) PROVE k = l
    <2>1. SUFFICES ASSUME k # l PROVE FALSE
      OBVIOUS
    <2>2. <<k, l>> \in ahead \/ <<l, k>> \in ahead
      BY <2>1 DEF Orders
    <2> HIDE DEF Down
    <2> QED BY <1>1, <1>3, <1>4, <2>2
  <1>5. rank \in Injection(keys, 1..n)
    <2>1. rank \in [keys -> 1..n]
      <3> HIDE DEF Down
      <3> QED BY <1>1, <1>2
    <2>2. ASSUME NEW k \in keys, NEW l \in keys, rank[k] = rank[l] PROVE k = l
      <3>1. Cardinality(Down(k)) = Cardinality(Down(l))
        <4> HIDE DEF Down
        <4> QED BY <1>1, <2>2
      <3> HIDE DEF Down
      <3> QED BY <1>4, <3>1
    <2> HIDE DEF rank
    <2> QED BY <2>1, <2>2 DEF Injection, IsInjective
  <1>6. \A r \in 1..n : \E k \in keys : Cardinality(Down(k)) = r - 1
    <2>1. IsFiniteSet(1..n) /\ Cardinality(1..n) = n
      BY <1>1, FS_Interval
    <2>2. rank \in Surjection(keys, 1..n)
      <3> HIDE DEF rank, n
      <3> QED BY <1>5, <2>1, FS_Injection DEF n
    <2>3. \A r \in 1..n : \E k \in keys : rank[k] = r
      <3> HIDE DEF rank
      <3> QED BY <2>2 DEF Surjection
    <2>4. ASSUME NEW r \in 1..n PROVE \E k \in keys : Cardinality(Down(k)) = r - 1
      <3>1. PICK k \in keys : rank[k] = r
        BY <2>3
      <3>2. Cardinality(Down(k)) + 1 = r
        <4> HIDE DEF Down
        <4> QED BY <3>1
      <3> HIDE DEF Down
      <3>3. Cardinality(Down(k)) = r - 1
        BY <1>1, <3>2
      <3> QED BY <3>3
    <2> HIDE DEF Down
    <2> QED BY <2>4
  <1> DEFINE s == InOrder(keys, ahead)
             At(r) == CHOOSE k \in keys : Cardinality(Down(k)) = r - 1
  <1>7. s = [r \in 1..n |-> At(r)]
    BY DEF InOrder
  <1>8. \A r \in 1..n : At(r) \in keys /\ Cardinality(Down(At(r))) = r - 1
    <2> HIDE DEF Down
    <2> QED BY <1>6
  <1>9. \A r \in 1..n : s[r] \in keys /\ Cardinality(Down(s[r])) = r - 1
    <2> HIDE DEF Down, At, s
    <2> QED BY <1>7, <1>8
  <1>10. IsSeq(s) /\ Len(s) = n
    <2>1. s = [r \in 1..n |-> s[r]]
      BY <1>7
    <2> HIDE DEF s, n
    <2> QED BY <1>1, <2>1, IsSeqIf
  <1> HIDE DEF Down, At, s
  <1>11. ASSUME NEW k \in keys PROVE \E r \in 1..n : s[r] = k
    <2> DEFINE r == Cardinality(Down(k)) + 1
    <2>1. r \in 1..n /\ r - 1 = Cardinality(Down(k))
      BY <1>1, <1>2
    <2>2. Cardinality(Down(s[r])) = Cardinality(Down(k)) /\ s[r] \in keys
      BY <1>9, <2>1
    <2> QED BY <1>4, <2>1, <2>2
  <1>12. \A q, r \in 1..n : s[q] = s[r] => q = r
    <2>1. \A q \in 1..n : q \in Int
      BY <1>1
    <2> QED BY <1>9, <2>1
  <1> QED BY <1>9, <1>10, <1>11, <1>12 DEF s

\* compareCodeUnits is an order: whatever two keys begin with, one comes first.
LEMMA UnitsDiffer ==
  ASSUME NEW a \in Seq(Nat), NEW b \in Seq(Nat), a # b
  PROVE  Before(a, b) \/ Before(b, a)
PROOF
  <1>1. /\ Len(a) \in Nat /\ DOMAIN a = 1..Len(a) /\ \A i \in 1..Len(a) : a[i] \in Nat
        /\ Len(b) \in Nat /\ DOMAIN b = 1..Len(b) /\ \A i \in 1..Len(b) : b[i] \in Nat
    OBVIOUS
  <1> DEFINE Same(i) == i \in DOMAIN a /\ i \in DOMAIN b /\ a[i] = b[i]
             D == {i \in Nat \ {0} : ~Same(i)}
  <1>2. PICK i \in D : \A j \in D : i <= j
    <2>1. Len(a) + 1 \in D
      BY <1>1
    <2>2. D \in SUBSET Nat /\ D # {}
      BY <2>1
    <2> HIDE DEF D
    <2> QED BY <2>2, LeastNumber
  <1>3. i \in Nat \ {0} /\ ~Same(i)
    BY <1>2
  <1>4. ASSUME NEW j \in 1..(i - 1) PROVE Same(j)
    <2>1. j \in Nat \ {0} /\ ~(i <= j)
      BY <1>3
    <2> HIDE DEF Same
    <2> QED BY <1>2, <2>1
  <1>5. \A j \in 1..(i - 1) : j \in DOMAIN a /\ j \in DOMAIN b /\ a[j] = b[j]
    BY <1>4
  <1>6. i \in DOMAIN a \/ i \in DOMAIN b
    <2>1. SUFFICES ASSUME i \notin DOMAIN a, i \notin DOMAIN b PROVE FALSE
      OBVIOUS
    <2>2. Len(a) < i /\ Len(b) < i
      BY <1>1, <1>3, <2>1
    <2>3. Len(a) = i - 1
      <3>1. CASE i = 1
        BY <1>1, <2>2, <3>1
      <3>2. CASE i # 1
        <4>1. i - 1 \in 1..(i - 1)
          BY <1>3, <3>2
        <4>2. i - 1 \in DOMAIN a
          BY <1>5, <4>1
        <4>3. i - 1 <= Len(a)
          BY <1>1, <4>2
        <4> QED BY <1>1, <1>3, <2>2, <4>3
      <3> QED BY <3>1, <3>2
    <2>4. Len(b) = i - 1
      <3>1. CASE i = 1
        BY <1>1, <2>2, <3>1
      <3>2. CASE i # 1
        <4>1. i - 1 \in 1..(i - 1)
          BY <1>3, <3>2
        <4>2. i - 1 \in DOMAIN b
          BY <1>5, <4>1
        <4>3. i - 1 <= Len(b)
          BY <1>1, <4>2
        <4> QED BY <1>1, <1>3, <2>2, <4>3
      <3> QED BY <3>1, <3>2
    <2>5. IsSeq(a) /\ IsSeq(b) /\ Len(a) = Len(b) /\ \A j \in 1..Len(a) : a[j] = b[j]
      BY <1>5, <2>3, <2>4, SeqsAre
    <2> QED BY <2>5, SameSeq
  <1>7. CASE i \in DOMAIN b /\ (i \in DOMAIN a => a[i] < b[i])
    BY <1>5, <1>7 DEF Before
  <1>8. CASE i \in DOMAIN a /\ (i \in DOMAIN b => b[i] < a[i])
    BY <1>5, <1>8 DEF Before
  <1>9. i \in DOMAIN a /\ i \in DOMAIN b => a[i] < b[i] \/ b[i] < a[i]
    BY <1>1, <1>3
  <1> QED BY <1>6, <1>7, <1>8, <1>9

\* compareCodeUnits is an order: nothing is before itself, and before is transitive.
LEMMA UnitsOrder ==
  ASSUME NEW a \in Seq(Nat), NEW b \in Seq(Nat), NEW c \in Seq(Nat)
  PROVE  /\ ~Before(a, a)
         /\ Before(a, b) /\ Before(b, c) => Before(a, c)
PROOF
  <1>1. /\ Len(a) \in Nat /\ DOMAIN a = 1..Len(a) /\ \A i \in 1..Len(a) : a[i] \in Nat
        /\ Len(b) \in Nat /\ DOMAIN b = 1..Len(b) /\ \A i \in 1..Len(b) : b[i] \in Nat
        /\ Len(c) \in Nat /\ DOMAIN c = 1..Len(c) /\ \A i \in 1..Len(c) : c[i] \in Nat
    OBVIOUS
  <1>2. ~Before(a, a)
    BY <1>1 DEF Before
  <1>3. ASSUME Before(a, b), Before(b, c) PROVE Before(a, c)
    <2>1. PICK p \in DOMAIN b : /\ \A j \in 1..(p - 1) : j \in DOMAIN a /\ a[j] = b[j]
                                /\ p \in DOMAIN a => a[p] < b[p]
      BY <1>3 DEF Before
    <2>2. PICK q \in DOMAIN c : /\ \A j \in 1..(q - 1) : j \in DOMAIN b /\ b[j] = c[j]
                                /\ q \in DOMAIN b => b[q] < c[q]
      BY <1>3 DEF Before
    <2>3. p \in Nat /\ q \in Nat /\ p >= 1 /\ q >= 1
      BY <1>1
    <2>4. CASE p < q
      <3>1. p \in 1..(q - 1)
        BY <2>3, <2>4
      <3>2. b[p] = c[p] /\ p \in DOMAIN c
        <4>1. p \in 1..Len(c)
          BY <1>1, <2>3, <2>4
        <4> QED BY <1>1, <2>2, <3>1, <4>1
      <3>3. \A j \in 1..(p - 1) : j \in 1..(q - 1)
        BY <2>3, <2>4
      <3>4. \A j \in 1..(p - 1) : j \in DOMAIN a /\ a[j] = c[j]
        BY <2>1, <2>2, <3>3
      <3>5. p \in DOMAIN a => a[p] < c[p]
        BY <2>1, <3>2
      <3> QED BY <3>2, <3>4, <3>5 DEF Before
    <2>5. CASE q <= p
      <3>1. \A j \in 1..(q - 1) : j \in 1..(p - 1)
        BY <2>3, <2>5
      <3>2. \A j \in 1..(q - 1) : j \in DOMAIN a /\ a[j] = c[j]
        BY <2>1, <2>2, <3>1
      <3>3. q \in DOMAIN b
        BY <1>1, <2>3, <2>5
      <3>4. ASSUME q \in DOMAIN a PROVE a[q] < c[q]
        <4>1. b[q] < c[q]
          BY <2>2, <3>3
        <4>2. a[q] = b[q] \/ a[q] < b[q]
          <5>1. CASE q = p
            BY <2>1, <3>4, <5>1
          <5>2. CASE q # p
            <6>1. q \in 1..(p - 1)
              BY <2>3, <2>5, <5>2
            <6> QED BY <2>1, <6>1
          <5> QED BY <5>1, <5>2
        <4>3. a[q] \in Nat /\ b[q] \in Nat /\ c[q] \in Nat
          BY <1>1, <3>3, <3>4
        <4>4. ASSUME NEW k \in Nat, NEW l \in Nat, NEW m \in Nat, k = l \/ k < l, l < m
              PROVE  k < m
          BY <4>4
        <4> QED BY <4>1, <4>2, <4>3, <4>4, Zenon
      <3> QED BY <3>2, <3>4 DEF Before
    <2> QED BY <2>3, <2>4, <2>5
  <1> QED BY <1>2, <1>3

\* Keys have an order by code units, and the order jsonb gives them.
LEMMA KeysOrdered ==
  ASSUME NEW keys, keys \in SUBSET Seq(Nat)
  PROVE  Orders(CodeUnitOrder(keys), keys) /\ Orders(JsonbOrder(keys), keys)
PROOF
  <1>1. /\ \A k \in keys : ~Before(k, k)
        /\ \A k, l \in keys : k # l => Before(k, l) \/ Before(l, k)
        /\ \A k, l, m \in keys : Before(k, l) /\ Before(l, m) => Before(k, m)
    BY UnitsDiffer, UnitsOrder
  <1>2. \A k \in keys : Len(k) \in Nat
    OBVIOUS
  <1>3. \A k, l \in keys : <<k, l>> \in CodeUnitOrder(keys) <=> Before(k, l)
    BY DEF CodeUnitOrder
  <1>4. \A k, l \in keys :
          <<k, l>> \in JsonbOrder(keys) <=> Len(k) < Len(l) \/ (Len(k) = Len(l) /\ Before(k, l))
    BY DEF JsonbOrder
  <1>5. Orders(CodeUnitOrder(keys), keys)
    BY <1>1, <1>3 DEF Orders
  <1>6. Orders(JsonbOrder(keys), keys)
    <2>1. \A k \in keys : <<k, k>> \notin JsonbOrder(keys)
      BY <1>1, <1>2, <1>4
    <2>2. \A k, l \in keys : k # l => <<k, l>> \in JsonbOrder(keys) \/ <<l, k>> \in JsonbOrder(keys)
      BY <1>1, <1>2, <1>4
    <2>3. ASSUME NEW k \in keys, NEW l \in keys, NEW m \in keys,
                 <<k, l>> \in JsonbOrder(keys), <<l, m>> \in JsonbOrder(keys)
          PROVE  <<k, m>> \in JsonbOrder(keys)
      <3>1. Len(k) \in Nat /\ Len(l) \in Nat /\ Len(m) \in Nat
        BY <1>2
      <3>2. Len(k) < Len(l) \/ (Len(k) = Len(l) /\ Before(k, l))
        BY <1>4, <2>3
      <3>3. Len(l) < Len(m) \/ (Len(l) = Len(m) /\ Before(l, m))
        BY <1>4, <2>3
      <3>4. Before(k, l) /\ Before(l, m) => Before(k, m)
        BY <1>1
      <3>5. Len(k) < Len(m) \/ (Len(k) = Len(m) /\ Before(k, m))
        BY <3>1, <3>2, <3>3, <3>4
      <3> QED BY <1>4, <3>5
    <2> QED BY <2>1, <2>2, <2>3 DEF Orders
  <1> QED BY <1>5, <1>6

-------------------------------------------------------------------------------
\* Values, and what is at the same place in two of them.

\* The contents of values are their parts.
LEMMA ContentsAre ==
  ASSUME NEW V, NEW y
  PROVE  y \in Contents(V) <=> \E v \in V : \E s \in Steps(v) : y = Part(v, s)
PROOF
  <1>1. \A v : y \in {Part(v, s) : s \in Steps(v)} <=> \E s \in Steps(v) : y = Part(v, s)
    OBVIOUS
  <1> QED BY <1>1 DEF Contents

\* What is one level deeper is inside a part.
LEMMA PartsInside ==
  ASSUME NEW x, NEW n \in Nat
  PROVE  \A y : y \in Inside(x, n + 1) <=> \E s \in Steps(x) : y \in Inside(Part(x, s), n)
PROOF
  <1> DEFINE Into(k) == \A y : y \in Inside(x, k + 1) <=> \E s \in Steps(x) : y \in Inside(Part(x, s), k)
             T == {k \in Nat : Into(k)}
  <1>1. 0 \in T
    <2>1. Inside(x, 1) = Contents({x})
      <3>1. Inside(x, 0 + 1) = Contents(Inside(x, 0)) /\ Inside(x, 0) = {x} /\ 0 + 1 = 1
        BY Insides
      <3> QED BY <3>1
    <2>2. \A s : Inside(Part(x, s), 0) = {Part(x, s)}
      BY Insides
    <2>3. \A y : y \in Contents({x}) <=> \E s \in Steps(x) : y = Part(x, s)
      BY ContentsAre
    <2> QED BY <2>1, <2>2, <2>3
  <1>2. ASSUME NEW k \in T PROVE k + 1 \in T
    <2>1. k \in Nat /\ k + 1 \in Nat /\ Into(k)
      OBVIOUS
    <2> DEFINE m == k + 1
    <2>2. Inside(x, m + 1) = Contents(Inside(x, m))
      BY <2>1, Insides
    <2>3. \A s : Inside(Part(x, s), m) = Contents(Inside(Part(x, s), k))
      BY <2>1, Insides
    <2>4. \A y : y \in Inside(x, m) <=> \E s \in Steps(x) : y \in Inside(Part(x, s), k)
      BY <2>1
    <2> HIDE DEF m, T
    <2>5. ASSUME NEW y
          PROVE  y \in Inside(x, m + 1) <=> \E s \in Steps(x) : y \in Inside(Part(x, s), m)
      <3>1. y \in Inside(x, m + 1) <=> \E v \in Inside(x, m) : \E q \in Steps(v) : y = Part(v, q)
        BY <2>2, ContentsAre
      <3>2. ASSUME NEW s
            PROVE  y \in Inside(Part(x, s), m) <=> \E v \in Inside(Part(x, s), k) : \E q \in Steps(v) : y = Part(v, q)
        BY <2>3, ContentsAre
      <3> QED BY <2>4, <3>1, <3>2, Zenon
    <2> QED BY <2>1, <2>5 DEF m, T
  <1>3. T = Nat
    <2>1. T \in SUBSET Nat
      OBVIOUS
    <2> HIDE DEF T
    <2> QED BY <1>1, <1>2, <2>1, Induction
  <1> QED BY <1>3

\* A JSON value with a text, and no more than n levels of parts.
JsonTo(x, n) ==
  /\ \A k \in 0..n : \A y \in Inside(x, k) : WellFormed(y) /\ y.t # "none"
  /\ \A y \in Inside(x, n) : Steps(y) = {}

\* A value to n + 1 levels is well formed, with parts that are values to n levels.
LEMMA JsonIs ==
  ASSUME NEW x
  PROVE  /\ JsonTo(x, 0) <=> WellFormed(x) /\ x.t # "none" /\ Steps(x) = {}
         /\ \A n \in Nat : JsonTo(x, n + 1) <=> /\ WellFormed(x) /\ x.t # "none"
                                                /\ \A s \in Steps(x) : JsonTo(Part(x, s), n)
PROOF
  <1>1. Inside(x, 0) = {x}
    BY Insides
  <1>2. JsonTo(x, 0) <=> WellFormed(x) /\ x.t # "none" /\ Steps(x) = {}
    BY <1>1 DEF JsonTo
  <1>3. ASSUME NEW n \in Nat
        PROVE  JsonTo(x, n + 1) <=> /\ WellFormed(x) /\ x.t # "none"
                                    /\ \A s \in Steps(x) : JsonTo(Part(x, s), n)
    <2> DEFINE Good(y) == WellFormed(y) /\ y.t # "none"
    <2> HIDE DEF Good
    <2>1. \A m \in Nat : \A y : y \in Inside(x, m + 1) <=> \E s \in Steps(x) : y \in Inside(Part(x, s), m)
      BY PartsInside
    <2>2. \A z, m : JsonTo(z, m) <=> /\ \A k \in 0..m : \A y \in Inside(z, k) : Good(y)
                                     /\ \A y \in Inside(z, m) : Steps(y) = {}
      BY DEF JsonTo, Good
    <2>3. ASSUME JsonTo(x, n + 1)
          PROVE  Good(x) /\ \A s \in Steps(x) : JsonTo(Part(x, s), n)
      <3>1. 0 \in 0..(n + 1)
        OBVIOUS
      <3>2. Good(x)
        BY <1>1, <2>2, <2>3, <3>1
      <3>3. ASSUME NEW s \in Steps(x) PROVE JsonTo(Part(x, s), n)
        <4>1. ASSUME NEW k \in 0..n, NEW y \in Inside(Part(x, s), k) PROVE Good(y)
          <5>1. k \in Nat /\ k + 1 \in 0..(n + 1)
            OBVIOUS
          <5>2. y \in Inside(x, k + 1)
            BY <2>1, <5>1
          <5> QED BY <2>2, <2>3, <5>1, <5>2
        <4>2. \A y \in Inside(Part(x, s), n) : Steps(y) = {}
          BY <2>1, <2>2, <2>3
        <4> QED BY <2>2, <4>1, <4>2
      <3> QED BY <3>2, <3>3
    <2>4. ASSUME Good(x), \A s \in Steps(x) : JsonTo(Part(x, s), n)
          PROVE  JsonTo(x, n + 1)
      <3>1. ASSUME NEW k \in 0..(n + 1), NEW y \in Inside(x, k) PROVE Good(y)
        <4>1. CASE k = 0
          BY <1>1, <2>4, <3>1, <4>1
        <4>2. CASE k # 0
          <5>1. k - 1 \in Nat /\ k - 1 \in 0..n /\ (k - 1) + 1 = k
            BY <4>2
          <5>2. PICK s \in Steps(x) : y \in Inside(Part(x, s), k - 1)
            BY <2>1, <3>1, <5>1
          <5> QED BY <2>2, <2>4, <5>1, <5>2
        <4> QED BY <4>1, <4>2
      <3>2. ASSUME NEW y \in Inside(x, n + 1) PROVE Steps(y) = {}
        <4>1. PICK s \in Steps(x) : y \in Inside(Part(x, s), n)
          BY <2>1, <3>2
        <4> QED BY <2>2, <2>4, <4>1
      <3> QED BY <2>2, <3>1, <3>2
    <2> QED BY <2>3, <2>4 DEF Good
  <1> QED BY <1>2, <1>3

\* The opposites of pairs are the parts of each at the same places.
LEMMA OppositesAre ==
  ASSUME NEW V, NEW q
  PROVE  q \in Opposites(V) <=> \E p \in V : q \in PartsOf(p[1], p[2])
PROOF BY DEF Opposites

\* What a pair is made of.
LEMMA PairIs ==
  ASSUME NEW x, NEW y, NEW p, p = <<x, y>>
  PROVE  p[1] = x /\ p[2] = y
PROOF OBVIOUS

\* What is opposite one level deeper is opposite in two parts.
LEMMA PartsOpposite ==
  ASSUME NEW x, NEW y, NEW n \in Nat
  PROVE  \A q : q \in Opposite(x, y, n + 1) <=> \E p \in PartsOf(x, y) : q \in Opposite(p[1], p[2], n)
PROOF
  <1> DEFINE Into(k) == \A q : q \in Opposite(x, y, k + 1) <=> \E p \in PartsOf(x, y) : q \in Opposite(p[1], p[2], k)
             T == {k \in Nat : Into(k)}
  <1>1. 0 \in T
    <2>1. Opposite(x, y, 1) = Opposites({<<x, y>>})
      <3>1. Opposite(x, y, 0 + 1) = Opposites(Opposite(x, y, 0)) /\ Opposite(x, y, 0) = {<<x, y>>} /\ 0 + 1 = 1
        BY Facings
      <3> QED BY <3>1
    <2>2. \A p : Opposite(p[1], p[2], 0) = {<<p[1], p[2]>>}
      BY Facings
    <2>3. \A q : q \in Opposites({<<x, y>>}) <=> q \in PartsOf(x, y)
      <3> DEFINE V == {<<x, y>>}
      <3>1. \A p \in V : p[1] = x /\ p[2] = y
        BY PairIs
      <3>2. <<x, y>> \in V
        OBVIOUS
      <3> HIDE DEF V
      <3>3. ASSUME NEW q PROVE q \in Opposites(V) <=> q \in PartsOf(x, y)
        <4>1. q \in Opposites(V) <=> \E p \in V : q \in PartsOf(p[1], p[2])
          BY OppositesAre
        <4> QED BY <3>1, <3>2, <4>1
      <3> QED BY <3>3 DEF V
    <2>4. \A p \in PartsOf(x, y) : p = <<p[1], p[2]>>
      BY DEF PartsOf
    <2>5. ASSUME NEW q PROVE q \in Opposite(x, y, 1) <=> \E p \in PartsOf(x, y) : q \in Opposite(p[1], p[2], 0)
      <3>1. \A p \in PartsOf(x, y) : q \in Opposite(p[1], p[2], 0) <=> q = p
        BY <2>2, <2>4
      <3> QED BY <2>1, <2>3, <3>1
    <2>6. 0 \in Nat /\ 0 + 1 = 1
      OBVIOUS
    <2> QED BY <2>5, <2>6
  <1>2. ASSUME NEW k \in T PROVE k + 1 \in T
    <2>1. k \in Nat /\ k + 1 \in Nat /\ Into(k)
      OBVIOUS
    <2> DEFINE m == k + 1
    <2>2. Opposite(x, y, m + 1) = Opposites(Opposite(x, y, m))
      BY <2>1, Facings
    <2>3. \A p : Opposite(p[1], p[2], m) = Opposites(Opposite(p[1], p[2], k))
      BY <2>1, Facings
    <2>4. \A q : q \in Opposite(x, y, m) <=> \E p \in PartsOf(x, y) : q \in Opposite(p[1], p[2], k)
      BY <2>1
    <2> HIDE DEF m, T
    <2>5. ASSUME NEW q
          PROVE  q \in Opposite(x, y, m + 1) <=> \E p \in PartsOf(x, y) : q \in Opposite(p[1], p[2], m)
      <3>1. q \in Opposite(x, y, m + 1) <=> \E r \in Opposite(x, y, m) : q \in PartsOf(r[1], r[2])
        BY <2>2, OppositesAre
      <3>2. ASSUME NEW p
            PROVE  q \in Opposite(p[1], p[2], m) <=> \E r \in Opposite(p[1], p[2], k) : q \in PartsOf(r[1], r[2])
        BY <2>3, OppositesAre
      <3> QED BY <2>4, <3>1, <3>2, Zenon
    <2> QED BY <2>1, <2>5 DEF m, T
  <1>3. T = Nat
    <2>1. T \in SUBSET Nat
      OBVIOUS
    <2> HIDE DEF T
    <2> QED BY <1>1, <1>2, <2>1, Induction
  <1> QED BY <1>3

\* The same, as far as n levels of parts tell.
SameTo(x, y, n) == \A k \in 0..n : \A p \in Opposite(x, y, k) : Alike(p[1], p[2])

\* Values that say the same to n + 1 levels are alike, with parts that say the same.
LEMMA SameIs ==
  ASSUME NEW x, NEW y
  PROVE  /\ SameTo(x, y, 0) <=> Alike(x, y)
         /\ \A n \in Nat : SameTo(x, y, n + 1) <=> /\ Alike(x, y)
                                                   /\ \A s \in Steps(x) : SameTo(Part(x, s), Part(y, s), n)
PROOF
  <1>1. Opposite(x, y, 0) = {<<x, y>>}
    BY Facings
  <1>2. SameTo(x, y, 0) <=> Alike(x, y)
    <2>1. SameTo(x, y, 0) <=> \A p \in Opposite(x, y, 0) : Alike(p[1], p[2])
      <3>1. 0..0 = {0}
        OBVIOUS
      <3> QED BY <3>1 DEF SameTo
    <2>2. \A p \in Opposite(x, y, 0) : p[1] = x /\ p[2] = y
      BY <1>1, PairIs
    <2>3. <<x, y>> \in Opposite(x, y, 0)
      BY <1>1
    <2> QED BY <2>1, <2>2, <2>3
  <1>5. /\ \A p \in Opposite(x, y, 0) : p[1] = x /\ p[2] = y
        /\ <<x, y>> \in Opposite(x, y, 0)
    BY <1>1, PairIs
  <1>3. ASSUME NEW n \in Nat
        PROVE  SameTo(x, y, n + 1) <=> /\ Alike(x, y)
                                       /\ \A p \in PartsOf(x, y) : SameTo(p[1], p[2], n)
    <2>1. \A m \in Nat : \A q : q \in Opposite(x, y, m + 1) <=> \E p \in PartsOf(x, y) : q \in Opposite(p[1], p[2], m)
      BY PartsOpposite
    <2>2. \A z, w, m : SameTo(z, w, m) <=> \A k \in 0..m : \A p \in Opposite(z, w, k) : Alike(p[1], p[2])
      BY DEF SameTo
    <2>3. ASSUME SameTo(x, y, n + 1)
          PROVE  Alike(x, y) /\ \A p \in PartsOf(x, y) : SameTo(p[1], p[2], n)
      <3>1. 0 \in 0..(n + 1)
        OBVIOUS
      <3>2. Alike(x, y)
        BY <1>5, <2>2, <2>3, <3>1
      <3>3. ASSUME NEW p \in PartsOf(x, y) PROVE SameTo(p[1], p[2], n)
        <4>1. ASSUME NEW k \in 0..n, NEW q \in Opposite(p[1], p[2], k) PROVE Alike(q[1], q[2])
          <5>1. k \in Nat /\ k + 1 \in 0..(n + 1)
            OBVIOUS
          <5>2. q \in Opposite(x, y, k + 1)
            BY <2>1, <5>1
          <5> QED BY <2>2, <2>3, <5>1, <5>2
        <4> QED BY <2>2, <4>1
      <3> QED BY <3>2, <3>3
    <2>4. ASSUME Alike(x, y), \A p \in PartsOf(x, y) : SameTo(p[1], p[2], n)
          PROVE  SameTo(x, y, n + 1)
      <3>1. ASSUME NEW k \in 0..(n + 1), NEW q \in Opposite(x, y, k) PROVE Alike(q[1], q[2])
        <4>1. CASE k = 0
          BY <1>5, <2>4, <3>1, <4>1
        <4>2. CASE k # 0
          <5>1. k - 1 \in Nat /\ k - 1 \in 0..n /\ (k - 1) + 1 = k
            BY <4>2
          <5>2. PICK p \in PartsOf(x, y) : q \in Opposite(p[1], p[2], k - 1)
            BY <2>1, <3>1, <5>1
          <5> QED BY <2>2, <2>4, <5>1, <5>2
        <4> QED BY <4>1, <4>2
      <3> QED BY <2>2, <3>1
    <2> QED BY <2>3, <2>4
  <1>4. ASSUME NEW n \in Nat, Alike(x, y)
        PROVE  (\A p \in PartsOf(x, y) : SameTo(p[1], p[2], n))
               <=> \A s \in Steps(x) : SameTo(Part(x, s), Part(y, s), n)
    <2>1. x.t = y.t /\ Steps(x) = Steps(y)
      BY <1>4 DEF Alike
    <2>2. \A p : p \in PartsOf(x, y) <=> \E s \in Steps(x) : p = <<Part(x, s), Part(y, s)>>
      BY <2>1 DEF PartsOf
    <2> DEFINE pair(s) == <<Part(x, s), Part(y, s)>>
    <2>3. \A s : pair(s)[1] = Part(x, s) /\ pair(s)[2] = Part(y, s)
      OBVIOUS
    <2>4. \A p : p \in PartsOf(x, y) <=> \E s \in Steps(x) : p = pair(s)
      BY <2>2
    <2> HIDE DEF pair
    <2> QED BY <2>3, <2>4
  <1> QED BY <1>2, <1>3, <1>4

\* A value says the same as itself.
LEMMA SameToItself ==
  ASSUME NEW n \in Nat
  PROVE  \A x : SameTo(x, x, n)
PROOF
  <1> DEFINE T == {k \in Nat : \A x : SameTo(x, x, k)}
  <1>1. \A x : Alike(x, x)
    BY DEF Alike
  <1>2. 0 \in T
    BY <1>1, SameIs
  <1>3. ASSUME NEW k \in T PROVE k + 1 \in T
    <2>1. k \in Nat /\ k + 1 \in Nat /\ \A x : SameTo(x, x, k)
      OBVIOUS
    <2>2. ASSUME NEW x PROVE SameTo(x, x, k + 1)
      BY <1>1, <2>1, SameIs
    <2> QED BY <2>1, <2>2
  <1>4. T = Nat
    <2>1. T \in SUBSET Nat
      OBVIOUS
    <2> HIDE DEF T
    <2> QED BY <1>2, <1>3, <2>1, Induction
  <1> QED BY <1>4

-------------------------------------------------------------------------------
\* One level of writing.

\* What flattens to two texts, one after the other.
LEMMA FlattenCat ==
  ASSUME NEW ss, AllSeqs(ss), NEW tt, AllSeqs(tt), NEW uu, AllSeqs(uu),
         Len(uu) = Len(ss) + Len(tt),
         \A i \in 1..Len(ss) : uu[i] = ss[i],
         \A i \in 1..Len(tt) : uu[Len(ss) + i] = tt[i]
  PROVE  FlattenSeq(uu) = FlattenSeq(ss) \o FlattenSeq(tt)
PROOF
  <1> DEFINE n == Len(ss)
             m == Len(tt)
  <1>1. n \in Nat /\ m \in Nat /\ Len(uu) = n + m
    BY SeqIs DEF AllSeqs
  <1>2. /\ Flat(ss, 0) = <<>>
        /\ \A k \in Nat : Flat(ss, k + 1) = Flat(ss, k) \o ss[k + 1]
        /\ \A k \in 0..n : IsSeq(Flat(ss, k))
    BY FlatIs
  <1>3. /\ Flat(tt, 0) = <<>>
        /\ \A k \in Nat : Flat(tt, k + 1) = Flat(tt, k) \o tt[k + 1]
        /\ \A k \in 0..m : IsSeq(Flat(tt, k))
    BY FlatIs
  <1>4. /\ Flat(uu, 0) = <<>>
        /\ \A k \in Nat : Flat(uu, k + 1) = Flat(uu, k) \o uu[k + 1]
    BY FlatIs
  <1> DEFINE S == {k \in Nat : k <= n => Flat(uu, k) = Flat(ss, k)}
             T == {k \in Nat : k <= m => Flat(uu, n + k) = Flat(ss, n) \o Flat(tt, k)}
  <1>5. S = Nat
    <2>1. 0 \in S
      BY <1>2, <1>4
    <2>2. ASSUME NEW k \in S PROVE k + 1 \in S
      <3>1. SUFFICES ASSUME k + 1 <= n PROVE Flat(uu, k + 1) = Flat(ss, k + 1)
        OBVIOUS
      <3>2. k \in Nat /\ k + 1 \in 1..n /\ k <= n
        BY <1>1, <3>1
      <3>3. Flat(uu, k) = Flat(ss, k) /\ uu[k + 1] = ss[k + 1]
        BY <3>2
      <3>4. Flat(uu, k + 1) = Flat(uu, k) \o uu[k + 1] /\ Flat(ss, k + 1) = Flat(ss, k) \o ss[k + 1]
        BY <1>2, <1>4, <3>2
      <3> QED BY <3>3, <3>4, Zenon
    <2>3. S \in SUBSET Nat
      OBVIOUS
    <2> HIDE DEF S
    <2> QED BY <2>1, <2>2, <2>3, Induction
  <1>6. Flat(uu, n) = Flat(ss, n)
    BY <1>1, <1>5
  <1>7. IsSeq(Flat(ss, n))
    BY <1>1, <1>2
  <1>8. T = Nat
    <2>1. 0 \in T
      <3>1. n + 0 = n
        BY <1>1
      <3>2. Flat(ss, n) \o <<>> = Flat(ss, n)
        BY <1>7, CatLaws
      <3>3. Flat(uu, n + 0) = Flat(ss, n) \o Flat(tt, 0)
        BY <1>3, <1>6, <3>1, <3>2, Zenon
      <3> QED BY <3>3
    <2>2. ASSUME NEW k \in T PROVE k + 1 \in T
      <3>1. SUFFICES ASSUME k + 1 <= m PROVE Flat(uu, n + (k + 1)) = Flat(ss, n) \o Flat(tt, k + 1)
        OBVIOUS
      <3>2. k \in Nat /\ k + 1 \in 1..m /\ k <= m /\ k \in 0..m /\ n + k \in Nat /\ (n + k) + 1 = n + (k + 1)
        BY <1>1, <3>1
      <3>3. Flat(uu, n + k) = Flat(ss, n) \o Flat(tt, k) /\ uu[n + (k + 1)] = tt[k + 1]
        BY <3>2
      <3>4. Flat(uu, (n + k) + 1) = Flat(uu, n + k) \o uu[(n + k) + 1] /\ Flat(tt, k + 1) = Flat(tt, k) \o tt[k + 1]
        BY <1>3, <1>4, <3>2
      <3>5. IsSeq(Flat(tt, k)) /\ IsSeq(tt[k + 1])
        BY <1>3, <3>2 DEF AllSeqs
      <3>6. (Flat(ss, n) \o Flat(tt, k)) \o tt[k + 1] = Flat(ss, n) \o (Flat(tt, k) \o tt[k + 1])
        <4> DEFINE a == Flat(ss, n)
                   b == Flat(tt, k)
                   c == tt[k + 1]
        <4>1. IsSeq(a) /\ IsSeq(b) /\ IsSeq(c)
          BY <1>7, <3>5
        <4> HIDE DEF a, b, c
        <4>2. (a \o b) \o c = a \o (b \o c)
          BY <4>1, CatAssociates
        <4> QED BY <4>2 DEF a, b, c
      <3>7. Flat(uu, n + (k + 1)) = Flat(uu, n + k) \o uu[n + (k + 1)]
        BY <3>2, <3>4
      <3> HIDE DEF n, m
      <3> QED BY <3>3, <3>4, <3>6, <3>7, Zenon
    <2>3. T \in SUBSET Nat
      OBVIOUS
    <2> HIDE DEF T
    <2> QED BY <2>1, <2>2, <2>3, Induction
  <1>9. Flat(uu, n + m) = Flat(ss, n) \o Flat(tt, m)
    <2>1. \A k \in Nat : k <= m => Flat(uu, n + k) = Flat(ss, n) \o Flat(tt, k)
      BY <1>8
    <2>2. m \in Nat /\ m <= m
      BY <1>1
    <2> HIDE DEF m, n, T
    <2> QED BY <2>1, <2>2
  <1>10. FlattenSeq(uu) = Flat(uu, Len(uu)) /\ FlattenSeq(ss) = Flat(ss, n) /\ FlattenSeq(tt) = Flat(tt, m)
    BY FlattensIs
  <1> QED BY <1>1, <1>9, <1>10

\* What can be written: what a token or a value comes to is a sequence.
Writable(s) == IsSeq(s) /\ \A i \in 1..Len(s) : IsSeq(Serialize(s[i]))

Serials(s) == [i \in DOMAIN s |-> Serialize(s[i])]

\* A text one level on is what each of its tokens is serialized to, end to end.
LEMMA SerialsAre ==
  ASSUME NEW s, Writable(s)
  PROVE  /\ AllSeqs(Serials(s)) /\ Len(Serials(s)) = Len(s)
         /\ \A i \in 1..Len(s) : Serials(s)[i] = Serialize(s[i])
         /\ SerializeAll(s) = FlattenSeq(Serials(s))
PROOF
  <1>1. Len(s) \in Nat /\ DOMAIN s = 1..Len(s)
    BY SeqIs DEF Writable
  <1>2. \A i \in 1..Len(s) : Serials(s)[i] = Serialize(s[i])
    BY <1>1 DEF Serials
  <1>3. Serials(s) = [i \in 1..Len(s) |-> Serials(s)[i]]
    BY <1>1 DEF Serials
  <1>4. IsSeq(Serials(s)) /\ Len(Serials(s)) = Len(s)
    BY <1>1, <1>3, IsSeqIf
  <1>5. \A i \in 1..Len(s) : IsSeq(Serials(s)[i])
    BY <1>2 DEF Writable
  <1>6. SerializeAll(s) = FlattenSeq(Serials(s))
    BY DEF SerializeAll, Serials
  <1> QED BY <1>2, <1>4, <1>5, <1>6 DEF AllSeqs

\* Serializing two texts end to end serializes each.
LEMMA SerializeCat ==
  ASSUME NEW s, Writable(s), NEW t, Writable(t)
  PROVE  Writable(s \o t) /\ SerializeAll(s \o t) = SerializeAll(s) \o SerializeAll(t)
PROOF
  <1>1. IsSeq(s) /\ IsSeq(t) /\ Len(s) \in Nat /\ Len(t) \in Nat
    BY SeqIs DEF Writable
  <1> DEFINE u == s \o t
  <1>2. IsSeq(u) /\ Len(u) = Len(s) + Len(t)
    BY <1>1, CatIs
  <1>3. \A i \in 1..Len(s) : u[i] = s[i]
    BY <1>1, CatIs
  <1>4. \A i \in 1..Len(t) : u[Len(s) + i] = t[i]
    BY <1>1, CatIs
  <1> HIDE DEF u
  <1>5. Writable(u)
    <2>1. ASSUME NEW i \in 1..Len(u) PROVE IsSeq(Serialize(u[i]))
      <3>1. CASE i <= Len(s)
        BY <1>1, <1>2, <1>3, <3>1 DEF Writable
      <3>2. CASE ~(i <= Len(s))
        <4>1. i - Len(s) \in 1..Len(t) /\ Len(s) + (i - Len(s)) = i
          BY <1>1, <1>2, <3>2
        <4>2. u[Len(s) + (i - Len(s))] = t[i - Len(s)]
          BY <1>4, <4>1
        <4> QED BY <4>1, <4>2 DEF Writable
      <3> QED BY <3>1, <3>2
    <2> QED BY <1>2, <2>1 DEF Writable
  <1>6. FlattenSeq(Serials(u)) = FlattenSeq(Serials(s)) \o FlattenSeq(Serials(t))
    <2>1. \A v : Writable(v) => /\ AllSeqs(Serials(v)) /\ Len(Serials(v)) = Len(v)
                                /\ \A i \in 1..Len(v) : Serials(v)[i] = Serialize(v[i])
      BY SerialsAre
    <2>2. \A i \in 1..Len(s) : Serials(u)[i] = Serials(s)[i]
      <3>1. \A i \in 1..Len(s) : i \in 1..Len(u)
        BY <1>1, <1>2
      <3> QED BY <1>3, <1>5, <2>1, <3>1
    <2>3. \A i \in 1..Len(t) : Serials(u)[Len(s) + i] = Serials(t)[i]
      <3>1. \A i \in 1..Len(t) : Len(s) + i \in 1..Len(u)
        BY <1>1, <1>2
      <3> QED BY <1>4, <1>5, <2>1, <3>1
    <2> DEFINE uu == Serials(u)
               ss == Serials(s)
               tt == Serials(t)
    <2>4. AllSeqs(uu) /\ AllSeqs(ss) /\ AllSeqs(tt) /\ Len(uu) = Len(u) /\ Len(ss) = Len(s) /\ Len(tt) = Len(t)
      BY <1>5, <2>1
    <2>5. Len(uu) = Len(ss) + Len(tt)
      BY <1>2, <2>4
    <2>6. \A i \in 1..Len(ss) : uu[i] = ss[i]
      BY <2>2, <2>4
    <2>7. \A i \in 1..Len(tt) : uu[Len(ss) + i] = tt[i]
      BY <2>3, <2>4
    <2> HIDE DEF uu, ss, tt
    <2>8. FlattenSeq(uu) = FlattenSeq(ss) \o FlattenSeq(tt)
      BY <2>4, <2>5, <2>6, <2>7, FlattenCat
    <2> QED BY <2>8 DEF uu, ss, tt
  <1>7. SerializeAll(u) = SerializeAll(s) \o SerializeAll(t)
    <2>1. SerializeAll(u) = FlattenSeq(Serials(u)) /\ SerializeAll(s) = FlattenSeq(Serials(s)) /\ SerializeAll(t) = FlattenSeq(Serials(t))
      BY <1>5, SerialsAre
    <2> QED BY <1>6, <2>1, Zenon
  <1> QED BY <1>5, <1>7 DEF u

\* Serializing a text of one token serializes the token.
LEMMA SerializeOne ==
  ASSUME NEW a, IsSeq(Serialize(a))
  PROVE  Writable(<<a>>) /\ SerializeAll(<<a>>) = Serialize(a)
PROOF
  <1> DEFINE s == <<a>>
  <1>1. IsSeq(s) /\ Len(s) = 1 /\ s[1] = a
    BY OneIs
  <1> HIDE DEF s
  <1>2. Writable(s)
    BY <1>1 DEF Writable
  <1>3. AllSeqs(Serials(s)) /\ Len(Serials(s)) = 1 /\ Serials(s)[1] = Serialize(a) /\ SerializeAll(s) = FlattenSeq(Serials(s))
    <2>1. 1 \in 1..Len(s)
      BY <1>1
    <2> QED BY <1>1, <1>2, <2>1, SerialsAre
  <1>4. FlattenSeq(Serials(s)) = Flat(Serials(s), 1)
    BY <1>3, FlattensIs
  <1>5. Flat(Serials(s), 0) = <<>> /\ Flat(Serials(s), 0 + 1) = Flat(Serials(s), 0) \o Serials(s)[0 + 1]
    BY <1>3, FlatIs
  <1>6. 0 + 1 = 1 /\ <<>> \o Serialize(a) = Serialize(a)
    BY CatLaws
  <1>7. Flat(Serials(s), 1) = <<>> \o Serialize(a)
    <2>1. Flat(Serials(s), 1) = Flat(Serials(s), 0) \o Serials(s)[1]
      BY <1>5, <1>6
    <2> QED BY <1>3, <1>5, <2>1, Zenon
  <1>8. SerializeAll(s) = Serialize(a)
    BY <1>3, <1>4, <1>6, <1>7, Zenon
  <1> QED BY <1>2, <1>8 DEF s

-------------------------------------------------------------------------------
\* What serialize makes of a value.

\* The keys of an object are finitely many sequences of code units.
LEMMA KeysAre ==
  ASSUME NEW x, WellFormed(x), x.t = "obj"
  PROVE  IsFiniteSet(Keys(x)) /\ Keys(x) \in SUBSET Seq(Nat)
PROOF
  <1>1. IsSeq(x.v) /\ \A i \in DOMAIN x.v : x.v[i].k \in Seq(Nat)
    BY DEF WellFormed, IsSeq
  <1>2. Len(x.v) \in Nat /\ DOMAIN x.v = 1..Len(x.v)
    BY <1>1, SeqIs
  <1> DEFINE n == Len(x.v)
             f == [i \in 1..n |-> x.v[i].k]
  <1>3. \A k : k \in Keys(x) <=> \E i \in 1..n : k = x.v[i].k
    BY <1>2 DEF Keys
  <1>4. f \in Surjection(1..n, Keys(x))
    BY <1>3 DEF Surjection
  <1>5. IsFiniteSet(1..n)
    BY <1>2, FS_Interval
  <1>6. IsFiniteSet(Keys(x))
    <2> HIDE DEF f
    <2> QED BY <1>4, <1>5, FS_Surjection
  <1> QED BY <1>1, <1>2, <1>3, <1>6

\* The keys of an object in either order: all of them, each once.
LEMMA KeysInOrder ==
  ASSUME NEW x, WellFormed(x), x.t = "obj",
         NEW ahead, ahead \in {CodeUnitOrder(Keys(x)), JsonbOrder(Keys(x))}
  PROVE  LET s == InOrder(Keys(x), ahead)
         IN  /\ IsSeq(s) /\ Len(s) = Cardinality(Keys(x)) /\ Len(s) \in Nat
             /\ \A r \in 1..Len(s) : s[r] \in Keys(x)
             /\ \A k \in Keys(x) : \E r \in 1..Len(s) : s[r] = k
             /\ \A q, r \in 1..Len(s) : s[q] = s[r] => q = r
PROOF
  <1>1. IsFiniteSet(Keys(x)) /\ Keys(x) \in SUBSET Seq(Nat)
    BY KeysAre
  <1>2. Orders(ahead, Keys(x))
    BY <1>1, KeysOrdered
  <1>3. Cardinality(Keys(x)) \in Nat
    BY <1>1, FS_CardinalityType
  <1> DEFINE K == Keys(x)
  <1>4. IsFiniteSet(K) /\ Orders(ahead, K) /\ Cardinality(K) \in Nat
    BY <1>1, <1>2, <1>3
  <1> HIDE DEF K
  <1>5. LET s == InOrder(K, ahead)
        IN  /\ IsSeq(s) /\ Len(s) = Cardinality(K)
            /\ \A r \in 1..Len(s) : s[r] \in K
            /\ \A k \in K : \E r \in 1..Len(s) : s[r] = k
            /\ \A q, r \in 1..Len(s) : s[q] = s[r] => q = r
    BY <1>4, InOrderIs
  <1> QED BY <1>4, <1>5 DEF K

\* Entries: each key, and after it what the key stands for.
LEMMA EntriesAre ==
  ASSUME NEW x, NEW K, IsSeq(K)
  PROVE  /\ IsSeq(Entries(x, K)) /\ Len(Entries(x, K)) = 2 * Len(K)
         /\ \A r \in 1..Len(K) : /\ 2 * r - 1 \in 1..(2 * Len(K)) /\ 2 * r \in 1..(2 * Len(K))
                                 /\ Entries(x, K)[2 * r - 1] = Token("key", K[r])
                                 /\ Entries(x, K)[2 * r] = Part(x, K[r])
         /\ \A i \in 1..(2 * Len(K)) : \E r \in 1..Len(K) : i = 2 * r - 1 \/ i = 2 * r
PROOF
  <1> DEFINE n == Len(K)
             e == Entries(x, K)
  <1>1. n \in Nat /\ 2 * n \in Nat
    BY SeqIs
  <1>2. e = [i \in 1..(2 * n) |-> IF i % 2 = 1 THEN Token("key", K[(i + 1) \div 2]) ELSE Part(x, K[i \div 2])]
    BY DEF Entries
  <1> HIDE DEF e, n
  <1>3. e = [i \in 1..(2 * n) |-> e[i]]
    BY <1>2
  <1>4. IsSeq(e) /\ Len(e) = 2 * n
    <2> DEFINE m == 2 * n
    <2>1. m \in Nat /\ e = [i \in 1..m |-> e[i]]
      BY <1>1, <1>3
    <2> HIDE DEF m
    <2>2. IsSeq(e) /\ Len(e) = m
      BY <2>1, IsSeqIf
    <2> QED BY <2>2 DEF m
  <1>5. ASSUME NEW r \in 1..n
        PROVE  /\ 2 * r - 1 \in 1..(2 * n) /\ 2 * r \in 1..(2 * n)
               /\ e[2 * r - 1] = Token("key", K[r])
               /\ e[2 * r] = Part(x, K[r])
    <2>1. 2 * r - 1 \in 1..(2 * n) /\ 2 * r \in 1..(2 * n)
      BY <1>1
    <2>2. (2 * r - 1) % 2 = 1 /\ (2 * r) % 2 = 0 /\ ((2 * r - 1) + 1) \div 2 = r /\ (2 * r) \div 2 = r
      BY <1>1
    <2> QED BY <1>2, <2>1, <2>2
  <1>6. ASSUME NEW i \in 1..(2 * n) PROVE \E r \in 1..n : i = 2 * r - 1 \/ i = 2 * r
    <2> DEFINE r == (i + 1) \div 2
    <2>1. r \in 1..n /\ (i = 2 * r - 1 \/ i = 2 * r)
      BY <1>1
    <2> QED BY <2>1
  <1> QED BY <1>4, <1>5, <1>6 DEF e, n

\* How the text of a value begins, and for arrays and objects what follows and ends it.
Opening(a) == CASE a.t = "num" -> SerializeNumber(a.v)
                [] a.t = "str" -> Token("str", a.v)
                [] a.t = "arr" -> Mark("[")
                [] OTHER       -> Mark("{")
Inner(a)   == IF a.t = "arr" THEN a.v ELSE Entries(a, InOrder(Keys(a), CodeUnitOrder(Keys(a))))
Closing(a) == IF a.t = "arr" THEN Mark("]") ELSE Mark("}")

\* serialize opens a value, writes what is in it, and closes it.
LEMMA Shapes ==
  ASSUME NEW a, WellFormed(a), a.t # "none"
  PROVE  /\ a.t \in {"num", "str", "arr", "obj"}
         /\ a.t \in {"num", "str"} => Serialize(a) = <<Opening(a)>> /\ Steps(a) = {}
         /\ a.t \in {"arr", "obj"} => /\ IsSeq(Inner(a))
                                      /\ Serialize(a) = <<Opening(a)>> \o (Inner(a) \o <<Closing(a)>>)
PROOF
  <1>1. a.t \in {"num", "str", "arr", "obj"}
    BY DEF WellFormed
  <1>2. a.t \in {"num", "str"} => Serialize(a) = <<Opening(a)>> /\ Steps(a) = {}
    BY DEF Serialize, Opening, Steps
  <1>3. \A m, n : IsSeq(Inner(a)) => (<<m>> \o Inner(a)) \o <<n>> = <<m>> \o (Inner(a) \o <<n>>)
    <2> TAKE m, n
    <2> DEFINE p == <<m>>
               q == <<n>>
    <2>1. IsSeq(p) /\ IsSeq(q)
      BY OneIs
    <2> HIDE DEF p, q
    <2>2. IsSeq(Inner(a)) => (p \o Inner(a)) \o q = p \o (Inner(a) \o q)
      BY <2>1, CatLaws
    <2> QED BY <2>2 DEF p, q
  <1>4. ASSUME a.t = "arr"
        PROVE  IsSeq(Inner(a)) /\ Serialize(a) = <<Opening(a)>> \o (Inner(a) \o <<Closing(a)>>)
    <2>1. Inner(a) = a.v /\ IsSeq(a.v)
      BY <1>4 DEF Inner, WellFormed, IsSeq
    <2>2. Serialize(a) = (<<Mark("[")>> \o a.v) \o <<Mark("]")>> /\ Opening(a) = Mark("[") /\ Closing(a) = Mark("]")
      BY <1>4 DEF Serialize, Opening, Closing
    <2> QED BY <1>3, <2>1, <2>2, Zenon
  <1>5. ASSUME a.t = "obj"
        PROVE  IsSeq(Inner(a)) /\ Serialize(a) = <<Opening(a)>> \o (Inner(a) \o <<Closing(a)>>)
    <2> DEFINE K == InOrder(Keys(a), CodeUnitOrder(Keys(a)))
    <2>1. Inner(a) = Entries(a, K)
      BY <1>5 DEF Inner
    <2>2. IsSeq(K)
      BY <1>5, KeysInOrder
    <2>3. Serialize(a) = (<<Mark("{")>> \o Entries(a, K)) \o <<Mark("}")>> /\ Opening(a) = Mark("{") /\ Closing(a) = Mark("}")
      BY <1>5 DEF Serialize, Opening, Closing
    <2> HIDE DEF K
    <2>4. IsSeq(Inner(a))
      BY <2>1, <2>2, EntriesAre
    <2> QED BY <1>3, <2>1, <2>3, <2>4, Zenon
  <1> QED BY <1>1, <1>2, <1>4, <1>5

-------------------------------------------------------------------------------
\* Writing a text level after level.

\* Tokens are told apart by their kind and what they hold.
LEMMA TokensAre ==
  ASSUME NEW k, NEW s
  PROVE  /\ Token(k, s).t = "token"
         /\ \A l, u : Token(k, s) = Token(l, u) => k = l /\ s = u
PROOF
  <1>1. Token(k, s).t = "token" /\ Token(k, s).v = <<k, s>>
    BY DEF Token
  <1>2. \A l, u : Token(l, u).v = <<l, u>>
    BY DEF Token
  <1> QED BY <1>1, <1>2

\* What opens a value and what closes it are tokens.
LEMMA EndsAreTokens ==
  ASSUME NEW a
  PROVE  Opening(a).t = "token" /\ Closing(a).t = "token"
PROOF
  <1>1. \A k, s : Token(k, s).t = "token"
    BY TokensAre
  <1>2. \E k, s : Opening(a) = Token(k, s)
    BY Zenon DEF Opening, Mark, SerializeNumber
  <1>3. \E k, s : Closing(a) = Token(k, s)
    BY Zenon DEF Closing, Mark
  <1> QED BY <1>1, <1>2, <1>3

\* A part of a value is a value, one level less deep.
LEMMA PartOfJson ==
  ASSUME NEW n \in Nat, NEW a, JsonTo(a, n)
  PROVE  /\ WellFormed(a) /\ a.t # "none" /\ a.t # "token"
         /\ \A s \in Steps(a) : n > 0 /\ JsonTo(Part(a, s), n - 1)
PROOF
  <1>1. CASE n = 0
    BY <1>1, JsonIs DEF WellFormed
  <1>2. CASE n # 0
    <2>1. n - 1 \in Nat /\ (n - 1) + 1 = n /\ n > 0
      BY <1>2
    <2>2. JsonTo(a, (n - 1) + 1) <=> /\ WellFormed(a) /\ a.t # "none"
                                     /\ \A s \in Steps(a) : JsonTo(Part(a, s), n - 1)
      BY <2>1, JsonIs
    <2> QED BY <2>1, <2>2 DEF WellFormed
  <1> QED BY <1>1, <1>2

\* What an array or an object holds: keys, and values with one level less.
Piece(a, n) == (\E k : a = Token("key", k)) \/ (n > 0 /\ JsonTo(a, n - 1))

\* What n levels of writing turn into tokens.
Item(a, n)  == a.t = "token" \/ (n > 0 /\ JsonTo(a, n - 1))
Items(s, n) == IsSeq(s) /\ \A i \in 1..Len(s) : Item(s[i], n)

\* What serialize puts between the marks are keys and parts of the value.
LEMMA PiecesInside ==
  ASSUME NEW n \in Nat, NEW a, JsonTo(a, n), a.t \in {"arr", "obj"}
  PROVE  IsSeq(Inner(a)) /\ \A i \in 1..Len(Inner(a)) : Piece(Inner(a)[i], n)
PROOF
  <1>1. /\ WellFormed(a) /\ a.t # "none"
        /\ \A s \in Steps(a) : n > 0 /\ JsonTo(Part(a, s), n - 1)
    BY PartOfJson
  <1>2. CASE a.t = "arr"
    <2>1. Inner(a) = a.v /\ IsSeq(a.v) /\ Steps(a) = DOMAIN a.v /\ \A s : Part(a, s) = a.v[s]
      BY <1>1, <1>2 DEF Inner, WellFormed, IsSeq, Steps, Part
    <2>2. DOMAIN a.v = 1..Len(a.v)
      BY <2>1, SeqIs
    <2> QED BY <1>1, <2>1, <2>2 DEF Piece
  <1>3. CASE a.t = "obj"
    <2> DEFINE K == InOrder(Keys(a), CodeUnitOrder(Keys(a)))
    <2>1. Inner(a) = Entries(a, K) /\ Steps(a) = Keys(a)
      BY <1>3 DEF Inner, Steps
    <2>2. IsSeq(K) /\ \A r \in 1..Len(K) : K[r] \in Keys(a)
      BY <1>1, <1>3, KeysInOrder
    <2> HIDE DEF K
    <2>3. /\ IsSeq(Entries(a, K)) /\ Len(Entries(a, K)) = 2 * Len(K)
          /\ \A r \in 1..Len(K) : /\ Entries(a, K)[2 * r - 1] = Token("key", K[r])
                                  /\ Entries(a, K)[2 * r] = Part(a, K[r])
          /\ \A i \in 1..(2 * Len(K)) : \E r \in 1..Len(K) : i = 2 * r - 1 \/ i = 2 * r
      <3>1. IsSeq(K)
        BY <2>2
      <3>2. IsSeq(Entries(a, K)) /\ Len(Entries(a, K)) = 2 * Len(K)
        BY <3>1, EntriesAre
      <3>3. \A r \in 1..Len(K) : Entries(a, K)[2 * r - 1] = Token("key", K[r])
        BY <3>1, EntriesAre
      <3>4. \A r \in 1..Len(K) : Entries(a, K)[2 * r] = Part(a, K[r])
        BY <3>1, EntriesAre
      <3>5. \A i \in 1..(2 * Len(K)) : \E r \in 1..Len(K) : i = 2 * r - 1 \/ i = 2 * r
        BY <3>1, EntriesAre
      <3> QED BY <3>2, <3>3, <3>4, <3>5
    <2>4. ASSUME NEW i \in 1..(2 * Len(K)) PROVE Piece(Entries(a, K)[i], n)
      <3>1. PICK r \in 1..Len(K) : i = 2 * r - 1 \/ i = 2 * r
        BY <2>3
      <3>2. CASE i = 2 * r - 1
        BY <2>3, <3>2 DEF Piece
      <3>3. CASE i = 2 * r
        BY <1>1, <2>1, <2>2, <2>3, <3>3 DEF Piece
      <3> QED BY <3>1, <3>2, <3>3
    <2> QED BY <2>1, <2>3, <2>4
  <1> QED BY <1>2, <1>3

\* Items end to end are items.
LEMMA ItemsCat ==
  ASSUME NEW n, NEW s, Items(s, n), NEW t, Items(t, n)
  PROVE  Items(s \o t, n)
PROOF
  <1>1. IsSeq(s) /\ IsSeq(t) /\ Len(s) \in Nat /\ Len(t) \in Nat
    BY SeqIs DEF Items
  <1> DEFINE u == s \o t
  <1>2. IsSeq(u) /\ Len(u) = Len(s) + Len(t)
    BY <1>1, CatIs
  <1>3. \A i \in 1..Len(s) : u[i] = s[i]
    BY <1>1, CatIs
  <1>4. \A i \in 1..Len(t) : u[Len(s) + i] = t[i]
    BY <1>1, CatIs
  <1> HIDE DEF u
  <1>5. ASSUME NEW i \in 1..Len(u) PROVE Item(u[i], n)
    <2>1. CASE i <= Len(s)
      BY <1>1, <1>2, <1>3, <2>1 DEF Items
    <2>2. CASE ~(i <= Len(s))
      <3>1. i - Len(s) \in 1..Len(t) /\ Len(s) + (i - Len(s)) = i
        BY <1>1, <1>2, <2>2
      <3>2. u[Len(s) + (i - Len(s))] = t[i - Len(s)]
        BY <1>4, <3>1
      <3> QED BY <3>1, <3>2 DEF Items
    <2> QED BY <2>1, <2>2
  <1>6. Items(u, n)
    BY <1>2, <1>5 DEF Items
  <1> QED BY <1>6 DEF u

\* One item alone is a list of items.
LEMMA ItemAlone ==
  ASSUME NEW n, NEW a, Item(a, n)
  PROVE  Items(<<a>>, n)
PROOF
  <1> DEFINE s == <<a>>
  <1>1. IsSeq(s) /\ Len(s) = 1 /\ s[1] = a
    BY OneIs
  <1> HIDE DEF s
  <1>2. \A i \in 1..Len(s) : i = 1
    BY <1>1
  <1>3. Items(s, n)
    BY <1>1, <1>2 DEF Items
  <1> QED BY <1>3 DEF s

\* An item serialized is a list of items, one level less deep.
LEMMA ItemSerialized ==
  ASSUME NEW n \in Nat, NEW a, Item(a, n + 1)
  PROVE  Items(Serialize(a), n)
PROOF
  <1>1. CASE a.t = "token"
    <2>1. Serialize(a) = <<a>>
      BY <1>1 DEF Serialize
    <2>2. Items(<<a>>, n)
      BY <1>1, ItemAlone DEF Item
    <2> QED BY <2>1, <2>2
  <1>2. CASE JsonTo(a, n)
    <2>1. WellFormed(a) /\ a.t # "none"
      BY <1>2, PartOfJson
    <2>2. Opening(a).t = "token" /\ Closing(a).t = "token"
      BY EndsAreTokens
    <2>3. Items(<<Opening(a)>>, n) /\ Items(<<Closing(a)>>, n)
      BY <2>2, ItemAlone DEF Item
    <2>4. CASE a.t \in {"num", "str"}
      BY <2>1, <2>3, <2>4, Shapes
    <2>5. CASE a.t \in {"arr", "obj"}
      <3>1. Items(Inner(a), n)
        BY <1>2, <2>5, PiecesInside, TokensAre DEF Items, Item, Piece
      <3>2. Serialize(a) = <<Opening(a)>> \o (Inner(a) \o <<Closing(a)>>)
        BY <2>1, <2>5, Shapes
      <3>3. Items(Inner(a) \o <<Closing(a)>>, n)
        BY <2>3, <3>1, ItemsCat
      <3> DEFINE p == <<Opening(a)>>
                 q == Inner(a) \o <<Closing(a)>>
      <3>4. Items(p, n) /\ Items(q, n) /\ Serialize(a) = p \o q
        BY <2>3, <3>2, <3>3
      <3> HIDE DEF p, q
      <3>5. Items(p \o q, n)
        BY <3>4, ItemsCat
      <3> QED BY <3>4, <3>5
    <2> QED BY <2>1, <2>4, <2>5, Shapes
  <1>3. n + 1 > 0 /\ (n + 1) - 1 = n
    OBVIOUS
  <1> QED BY <1>1, <1>2, <1>3 DEF Item

\* Writing n + 1 levels is serializing once and writing n.
LEMMA WrittenDown ==
  ASSUME NEW n \in Nat
  PROVE  \A s : Written(s, n + 1) = Written(SerializeAll(s), n)
PROOF
  <1> DEFINE T == {k \in Nat : \A s : Written(s, k + 1) = Written(SerializeAll(s), k)}
  <1>0. /\ \A s : Written(s, 0) = s
        /\ \A s : \A k \in Nat : Written(s, k + 1) = SerializeAll(Written(s, k))
    BY Writings
  <1>1. 0 \in T
    <2>1. 0 \in Nat /\ \A s : Written(s, 0 + 1) = Written(SerializeAll(s), 0)
      BY <1>0
    <2> QED BY <2>1
  <1>2. ASSUME NEW k \in T PROVE k + 1 \in T
    <2>1. k \in Nat /\ k + 1 \in Nat /\ \A s : Written(s, k + 1) = Written(SerializeAll(s), k)
      OBVIOUS
    <2>2. ASSUME NEW s PROVE Written(s, (k + 1) + 1) = Written(SerializeAll(s), k + 1)
      <3>1. Written(s, (k + 1) + 1) = SerializeAll(Written(s, k + 1))
        BY <1>0, <2>1
      <3>2. Written(SerializeAll(s), k + 1) = SerializeAll(Written(SerializeAll(s), k))
        BY <1>0, <2>1
      <3> QED BY <2>1, <3>1, <3>2
    <2> QED BY <2>1, <2>2
  <1>3. T = Nat
    <2>1. T \in SUBSET Nat
      OBVIOUS
    <2> HIDE DEF T
    <2> QED BY <1>1, <1>2, <2>1, Induction
  <1> QED BY <1>3

\* Nothing serialized is nothing.
LEMMA EmptySerialized == Writable(<<>>) /\ SerializeAll(<<>>) = <<>>
PROOF
  <1> DEFINE e == <<>>
  <1>1. IsSeq(e) /\ Len(e) = 0
    BY EmptyIs
  <1> HIDE DEF e
  <1>2. Writable(e)
    BY <1>1 DEF Writable
  <1>3. AllSeqs(Serials(e)) /\ Len(Serials(e)) = 0 /\ SerializeAll(e) = FlattenSeq(Serials(e))
    BY <1>1, <1>2, SerialsAre
  <1>4. FlattenSeq(Serials(e)) = Flat(Serials(e), 0)
    BY <1>3, FlattensIs
  <1>5. Flat(Serials(e), 0) = <<>>
    BY <1>3, FlatIs
  <1> QED BY <1>2, <1>3, <1>4, <1>5 DEF e

\* Items one level lower.
LEMMA ItemsSerialized ==
  ASSUME NEW n \in Nat, NEW s, Items(s, n + 1)
  PROVE  Writable(s) /\ Items(SerializeAll(s), n)
PROOF
  <1> DEFINE T == {l \in Nat : \A r : Items(r, n + 1) /\ Len(r) = l => Items(SerializeAll(r), n)}
  <1>0. \A a : Item(a, n + 1) => Items(Serialize(a), n) /\ IsSeq(Serialize(a))
    BY ItemSerialized DEF Items
  <1>1. \A r : Items(r, n + 1) => Writable(r) /\ IsSeq(r) /\ Len(r) \in Nat
    BY <1>0, SeqIs DEF Items, Writable
  <1>2. 0 \in T
    <2>1. ASSUME NEW r, Items(r, n + 1), Len(r) = 0 PROVE Items(SerializeAll(r), n)
      <3>1. r = <<>>
        <4>1. IsSeq(r) /\ Len(r) = 0 /\ IsSeq(<<>>) /\ Len(<<>>) = 0
          BY <1>1, <2>1, EmptyIs
        <4>2. \A i \in 1..0 : r[i] = <<>>[i]
          OBVIOUS
        <4> QED BY <4>1, <4>2, SameSeq
      <3>2. Items(<<>>, n)
        BY EmptyIs DEF Items
      <3> QED BY <3>1, <3>2, EmptySerialized
    <2> QED BY <2>1
  <1>3. ASSUME NEW l \in T PROVE l + 1 \in T
    <2>1. l \in Nat /\ l + 1 \in Nat /\ \A r : Items(r, n + 1) /\ Len(r) = l => Items(SerializeAll(r), n)
      OBVIOUS
    <2>2. ASSUME NEW r, Items(r, n + 1), Len(r) = l + 1 PROVE Items(SerializeAll(r), n)
      <3>1. IsSeq(r) /\ Len(r) > 0
        BY <1>1, <2>1, <2>2
      <3>2. PICK t : /\ IsSeq(t) /\ r = <<r[1]>> \o t /\ Len(r) = Len(t) + 1
                     /\ \A i \in 1..Len(t) : t[i] = r[i + 1]
        BY <3>1, FirstOf
      <3>3. Len(t) \in Nat /\ Len(t) = l
        BY <2>1, <2>2, <3>2, SeqIs
      <3>4. Items(t, n + 1)
        <4>1. \A i \in 1..Len(t) : i + 1 \in 1..Len(r)
          BY <3>2, <3>3
        <4> QED BY <2>2, <3>2, <4>1 DEF Items
      <3>5. Item(r[1], n + 1)
        <4>1. 1 \in 1..Len(r)
          BY <2>1, <2>2
        <4> QED BY <2>2, <4>1 DEF Items
      <3>6. Items(SerializeAll(t), n) /\ Writable(t)
        BY <1>1, <2>1, <3>3, <3>4
      <3> DEFINE p == <<r[1]>>
      <3>7. Writable(p) /\ SerializeAll(p) = Serialize(r[1]) /\ Items(Serialize(r[1]), n)
        BY <1>0, <3>5, SerializeOne
      <3>8. r = p \o t
        BY <3>2
      <3> HIDE DEF p
      <3>9. SerializeAll(p \o t) = SerializeAll(p) \o SerializeAll(t)
        BY <3>6, <3>7, SerializeCat
      <3> DEFINE u == SerializeAll(p)
                 v == SerializeAll(t)
      <3>10. Items(u, n) /\ Items(v, n) /\ SerializeAll(r) = u \o v
        <4>1. SerializeAll(r) = u \o v
          BY <3>8, <3>9, Zenon
        <4>2. Items(u, n) /\ Items(v, n)
          BY <3>6, <3>7
        <4> QED BY <4>1, <4>2
      <3> HIDE DEF u, v
      <3>11. Items(u \o v, n)
        BY <3>10, ItemsCat
      <3> QED BY <3>10, <3>11
    <2> QED BY <2>1, <2>2
  <1>4. T = Nat
    <2>1. T \in SUBSET Nat
      OBVIOUS
    <2> HIDE DEF T
    <2> QED BY <1>2, <1>3, <2>1, Induction
  <1> QED BY <1>1, <1>4

\* A text is written piece by piece.
LEMMA WrittenCat ==
  ASSUME NEW n \in Nat
  PROVE  \A s, t : Items(s, n) /\ Items(t, n) =>
           IsSeq(Written(s, n)) /\ Written(s \o t, n) = Written(s, n) \o Written(t, n)
PROOF
  <1> DEFINE Cats(k) == \A s, t : Items(s, k) /\ Items(t, k) =>
                          IsSeq(Written(s, k)) /\ Written(s \o t, k) = Written(s, k) \o Written(t, k)
             T == {k \in Nat : Cats(k)}
  <1>1. 0 \in T
    <2>1. \A s : Written(s, 0) = s
      BY Writings
    <2>2. Cats(0)
      BY <2>1 DEF Items
    <2> QED BY <2>2
  <1>2. ASSUME NEW k \in T PROVE k + 1 \in T
    <2>1. k \in Nat /\ k + 1 \in Nat /\ Cats(k)
      OBVIOUS
    <2>2. \A s : Written(s, k + 1) = Written(SerializeAll(s), k)
      BY <2>1, WrittenDown
    <2>3. ASSUME NEW s, NEW t, Items(s, k + 1), Items(t, k + 1)
          PROVE  IsSeq(Written(s, k + 1)) /\ Written(s \o t, k + 1) = Written(s, k + 1) \o Written(t, k + 1)
      <3> DEFINE u == SerializeAll(s)
                 v == SerializeAll(t)
      <3>1. Writable(s) /\ Writable(t) /\ Items(u, k) /\ Items(v, k)
        BY <2>1, <2>3, ItemsSerialized
      <3>2. SerializeAll(s \o t) = u \o v
        BY <3>1, SerializeCat
      <3>3. Written(s, k + 1) = Written(u, k) /\ Written(t, k + 1) = Written(v, k)
        BY <2>2
      <3>4. Written(s \o t, k + 1) = Written(u \o v, k)
        BY <2>2, <3>2, Zenon
      <3> HIDE DEF u, v
      <3>5. IsSeq(Written(u, k)) /\ Written(u \o v, k) = Written(u, k) \o Written(v, k)
        BY <2>1, <3>1
      <3> QED BY <3>3, <3>4, <3>5, Zenon
    <2>4. Cats(k + 1)
      BY <2>3
    <2> HIDE DEF Cats
    <2> QED BY <2>1, <2>4
  <1>3. T = Nat
    <2>1. T \in SUBSET Nat
      OBVIOUS
    <2> HIDE DEF T
    <2> QED BY <1>1, <1>2, <2>1, Induction
  <1> QED BY <1>3

\* A token is written as it is.
LEMMA TokenWritten ==
  ASSUME NEW a, a.t = "token", NEW n \in Nat
  PROVE  Written(<<a>>, n) = <<a>>
PROOF
  <1> DEFINE s == <<a>>
             T == {k \in Nat : Written(s, k) = s}
  <1>1. Serialize(a) = <<a>>
    BY DEF Serialize
  <1>2. SerializeAll(s) = s
    <2>1. IsSeq(Serialize(a))
      BY <1>1, OneIs
    <2> QED BY <1>1, <2>1, SerializeOne
  <1>3. 0 \in T
    BY Writings
  <1>4. ASSUME NEW k \in T PROVE k + 1 \in T
    <2>1. k \in Nat /\ k + 1 \in Nat /\ Written(s, k) = s
      OBVIOUS
    <2>2. Written(s, k + 1) = SerializeAll(Written(s, k))
      <3> HIDE DEF s
      <3> QED BY <2>1, Writings
    <2> HIDE DEF s
    <2>3. Written(s, k + 1) = s
      BY <1>2, <2>1, <2>2
    <2> QED BY <2>1, <2>3
  <1>5. T = Nat
    <2>1. T \in SUBSET Nat
      OBVIOUS
    <2> HIDE DEF T
    <2> QED BY <1>3, <1>4, <2>1, Induction
  <1> QED BY <1>5

-------------------------------------------------------------------------------
\* Values that are the same have one text.

\* The text of a value with n levels of parts.
TextTo(a, n) == Written(<<a>>, n + 1)

\* The text of a value: what opens it, what is in it written out, what closes it.
LEMMA TextIs ==
  ASSUME NEW n \in Nat, NEW a, JsonTo(a, n)
  PROVE  /\ a.t \in {"num", "str", "arr", "obj"}
         /\ a.t \in {"num", "str"} => TextTo(a, n) = <<Opening(a)>>
         /\ a.t \in {"arr", "obj"} =>
              /\ Items(Inner(a), n) /\ IsSeq(Written(Inner(a), n))
              /\ TextTo(a, n) = <<Opening(a)>> \o (Written(Inner(a), n) \o <<Closing(a)>>)
PROOF
  <1>1. WellFormed(a) /\ a.t # "none"
    BY PartOfJson
  <1>2. TextTo(a, n) = Written(Serialize(a), n)
    <2>1. n + 1 > 0 /\ (n + 1) - 1 = n
      OBVIOUS
    <2>2. Item(a, n + 1)
      BY <2>1 DEF Item
    <2>3. IsSeq(Serialize(a))
      BY <2>2, ItemSerialized DEF Items
    <2>4. SerializeAll(<<a>>) = Serialize(a)
      BY <2>3, SerializeOne
    <2>5. Written(<<a>>, n + 1) = Written(SerializeAll(<<a>>), n)
      BY WrittenDown
    <2> QED BY <2>4, <2>5 DEF TextTo
  <1>3. Opening(a).t = "token" /\ Closing(a).t = "token"
    BY EndsAreTokens
  <1> DEFINE p == <<Opening(a)>>
             q == <<Closing(a)>>
             w == Inner(a)
  <1>4. Items(p, n) /\ Items(q, n) /\ Written(p, n) = p /\ Written(q, n) = q
    BY <1>3, ItemAlone, TokenWritten DEF Item
  <1>5. ASSUME a.t \in {"num", "str"} PROVE TextTo(a, n) = p
    BY <1>1, <1>2, <1>4, <1>5, Shapes
  <1>6. ASSUME a.t \in {"arr", "obj"}
        PROVE  Items(w, n) /\ IsSeq(Written(w, n)) /\ TextTo(a, n) = p \o (Written(w, n) \o q)
    <2>1. Items(w, n)
      BY <1>6, PiecesInside, TokensAre DEF Items, Item, Piece
    <2>2. Serialize(a) = p \o (w \o q)
      BY <1>1, <1>6, Shapes
    <2> HIDE DEF p, q, w
    <2>3. IsSeq(Written(w, n)) /\ Written(w \o q, n) = Written(w, n) \o Written(q, n)
      BY <1>4, <2>1, WrittenCat
    <2> DEFINE u == w \o q
    <2>4. Items(u, n)
      BY <1>4, <2>1, ItemsCat
    <2>5. Serialize(a) = p \o u /\ Written(u, n) = Written(w, n) \o Written(q, n)
      BY <2>2, <2>3
    <2> HIDE DEF u
    <2>6. Written(p \o u, n) = Written(p, n) \o Written(u, n)
      BY <1>4, <2>4, WrittenCat
    <2>7. Written(p \o u, n) = p \o (Written(w, n) \o q)
      BY <1>4, <2>5, <2>6, Zenon
    <2>8. TextTo(a, n) = p \o (Written(w, n) \o q)
      BY <1>2, <2>5, <2>7, Zenon
    <2> QED BY <2>1, <2>3, <2>8
  <1> QED BY <1>1, <1>5, <1>6, Shapes

\* The first token tells the type, and what a number or a string says.
LEMMA NumberIs ==
  ASSUME NEW v \in [neg : BOOLEAN, n : Int], v.neg => v.n = 0
  PROVE  SerializeNumber(v) = Token("num", [neg |-> FALSE, n |-> v.n])
PROOF
  <1>1. v = [neg |-> v.neg, n |-> v.n] /\ v.neg \in BOOLEAN
    OBVIOUS
  <1>2. (v.neg /\ v.n # 0) = FALSE
    BY <1>1
  <1>3. SerializeNumber(v) = Token("num", [v EXCEPT !.neg = v.neg /\ v.n # 0])
    BY DEF SerializeNumber
  <1>4. \A e : [v EXCEPT !.neg = e] = [neg |-> e, n |-> v.n]
    BY <1>1
  <1> DEFINE e == v.neg /\ v.n # 0
  <1>5. e = FALSE /\ SerializeNumber(v) = Token("num", [v EXCEPT !.neg = e])
    BY <1>2, <1>3
  <1> HIDE DEF e
  <1> QED BY <1>4, <1>5, Zenon

\* What opens a text says the type of the value and, for a number or a string, the
\* value; it is no key and no closing mark.
LEMMA OpeningTells ==
  ASSUME NEW a, WellFormed(a), a.t # "none", NEW b, WellFormed(b), b.t # "none"
  PROVE  /\ Opening(a) = Opening(b) <=> /\ a.t = b.t
                                        /\ a.t = "num" => a.v.n = b.v.n
                                        /\ a.t = "str" => a.v = b.v
         /\ \A k : Opening(a) # Token("key", k)
         /\ Opening(a) # Mark("]") /\ Opening(a) # Mark("}")
PROOF
  <1> DEFINE plain(x) == [neg |-> FALSE, n |-> x.v.n]
             kind(x) == IF x.t \in {"arr", "obj"} THEN "mark" ELSE x.t
             says(x) == CASE x.t = "num" -> plain(x) [] x.t = "str" -> x.v [] x.t = "arr" -> "[" [] OTHER -> "{"
  <1>1. a.t \in {"num", "str", "arr", "obj"} /\ b.t \in {"num", "str", "arr", "obj"}
    BY Shapes
  <1>2. ASSUME NEW x, WellFormed(x), x.t \in {"num", "str", "arr", "obj"}
        PROVE  Opening(x) = Token(kind(x), says(x))
    <2>1. CASE x.t = "num"
      <3>1. x.v \in [neg : BOOLEAN, n : Int] /\ (x.v.neg => x.v.n = 0)
        BY <1>2, <2>1 DEF WellFormed
      <3>2. Opening(x) = SerializeNumber(x.v)
        BY <2>1 DEF Opening
      <3>3. SerializeNumber(x.v) = Token("num", plain(x))
        BY <3>1, NumberIs
      <3> QED BY <2>1, <3>2, <3>3
    <2>2. CASE x.t # "num"
      BY <1>2, <2>2 DEF Opening, Mark
    <2> QED BY <2>1, <2>2
  <1>3. Opening(a) = Token(kind(a), says(a)) /\ Opening(b) = Token(kind(b), says(b))
    BY <1>1, <1>2
  <1>4. \A x, y : plain(x) = plain(y) <=> x.v.n = y.v.n
    OBVIOUS
  <1>5. Opening(a) = Opening(b) <=> kind(a) = kind(b) /\ says(a) = says(b)
    <2> HIDE DEF kind, says
    <2> QED BY <1>3, TokensAre
  <1>6. kind(a) = kind(b) /\ says(a) = says(b) <=> /\ a.t = b.t
                                                   /\ a.t = "num" => a.v.n = b.v.n
                                                   /\ a.t = "str" => a.v = b.v
    <2> HIDE DEF plain
    <2> QED BY <1>1, <1>4
  <1>7. \A k : Opening(a) # Token("key", k)
    <2>1. kind(a) # "key"
      BY <1>1
    <2> HIDE DEF kind, says
    <2> QED BY <1>3, <2>1, TokensAre
  <1>8. Opening(a) # Mark("]") /\ Opening(a) # Mark("}")
    <2>1. kind(a) = "mark" => says(a) \in {"[", "{"}
      BY <1>1
    <2>2. ASSUME NEW m, Opening(a) = Mark(m) PROVE kind(a) = "mark" /\ says(a) = m
      <3> HIDE DEF kind, says
      <3>1. PICK k, s : k = kind(a) /\ s = says(a)
        OBVIOUS
      <3>2. Token(k, s) = Token("mark", m)
        BY <1>3, <2>2, <3>1 DEF Mark
      <3>3. k = "mark" /\ s = m
        BY <3>2, TokensAre
      <3> QED BY <3>1, <3>3
    <2>3. "]" \notin {"[", "{"} /\ "}" \notin {"[", "{"}
      OBVIOUS
    <2> HIDE DEF kind, says
    <2> QED BY <2>1, <2>2, <2>3
  <1> QED BY <1>5, <1>6, <1>7, <1>8

\* The elements of an array are written in their places.
LEMMA ArrayIs ==
  ASSUME NEW a, WellFormed(a), a.t = "arr"
  PROVE  /\ IsSeq(Inner(a)) /\ Steps(a) = 1..Len(Inner(a))
         /\ \A i : Part(a, i) = Inner(a)[i]
PROOF
  <1>1. Inner(a) = a.v /\ IsSeq(a.v) /\ Steps(a) = DOMAIN a.v /\ \A s : Part(a, s) = a.v[s]
    BY DEF Inner, WellFormed, IsSeq, Steps, Part
  <1> QED BY <1>1, SeqIs

Ordered(a) == InOrder(Keys(a), CodeUnitOrder(Keys(a)))

\* The members of an object are written in the order of their keys, each key once and
\* before its part.
LEMMA ObjectIs ==
  ASSUME NEW a, WellFormed(a), a.t = "obj"
  PROVE  /\ Steps(a) = Keys(a)
         /\ IsSeq(Ordered(a)) /\ Len(Ordered(a)) \in Nat
         /\ \A r \in 1..Len(Ordered(a)) : Ordered(a)[r] \in Keys(a)
         /\ \A k \in Keys(a) : \E r \in 1..Len(Ordered(a)) : Ordered(a)[r] = k
         /\ IsSeq(Inner(a)) /\ Len(Inner(a)) = 2 * Len(Ordered(a))
         /\ \A r \in 1..Len(Ordered(a)) : /\ 2 * r - 1 \in 1..Len(Inner(a)) /\ 2 * r \in 1..Len(Inner(a))
                                          /\ Inner(a)[2 * r - 1] = Token("key", Ordered(a)[r])
                                          /\ Inner(a)[2 * r] = Part(a, Ordered(a)[r])
         /\ \A i \in 1..Len(Inner(a)) : \E r \in 1..Len(Ordered(a)) : i = 2 * r - 1 \/ i = 2 * r
PROOF
  <1> DEFINE K == Ordered(a)
  <1>1. Steps(a) = Keys(a) /\ Inner(a) = Entries(a, K)
    BY DEF Steps, Inner, Ordered
  <1>2. /\ IsSeq(K) /\ Len(K) \in Nat
        /\ \A r \in 1..Len(K) : K[r] \in Keys(a)
        /\ \A k \in Keys(a) : \E r \in 1..Len(K) : K[r] = k
    BY KeysInOrder DEF Ordered
  <1> HIDE DEF K
  <1>3. IsSeq(Entries(a, K)) /\ Len(Entries(a, K)) = 2 * Len(K)
    BY <1>2, EntriesAre
  <1>4. \A r \in 1..Len(K) : 2 * r - 1 \in 1..(2 * Len(K)) /\ 2 * r \in 1..(2 * Len(K))
    BY <1>2
  <1>5. \A r \in 1..Len(K) : Entries(a, K)[2 * r - 1] = Token("key", K[r])
    BY <1>2, EntriesAre
  <1>6. \A r \in 1..Len(K) : Entries(a, K)[2 * r] = Part(a, K[r])
    BY <1>2, EntriesAre
  <1>7. \A i \in 1..(2 * Len(K)) : \E r \in 1..Len(K) : i = 2 * r - 1 \/ i = 2 * r
    BY <1>2, EntriesAre
  <1>8. /\ IsSeq(Inner(a)) /\ Len(Inner(a)) = 2 * Len(K)
        /\ \A r \in 1..Len(K) : /\ 2 * r - 1 \in 1..Len(Inner(a)) /\ 2 * r \in 1..Len(Inner(a))
                                /\ Inner(a)[2 * r - 1] = Token("key", K[r])
                                /\ Inner(a)[2 * r] = Part(a, K[r])
        /\ \A i \in 1..Len(Inner(a)) : \E r \in 1..Len(K) : i = 2 * r - 1 \/ i = 2 * r
    BY <1>1, <1>3, <1>4, <1>5, <1>6, <1>7
  <1> QED BY <1>1, <1>2, <1>8 DEF K

\* Values that are alike hold the same keys, and parts from the same places.
LEMMA InnerAlike ==
  ASSUME NEW a, WellFormed(a), NEW b, WellFormed(b), Alike(a, b), a.t \in {"arr", "obj"}
  PROVE  /\ Closing(a) = Closing(b) /\ Len(Inner(a)) = Len(Inner(b))
         /\ \A i \in 1..Len(Inner(a)) :
              \/ Inner(a)[i] = Inner(b)[i] /\ Inner(a)[i].t = "token"
              \/ \E s \in Steps(a) : Inner(a)[i] = Part(a, s) /\ Inner(b)[i] = Part(b, s)
PROOF
  <1>1. a.t = b.t /\ Steps(a) = Steps(b)
    BY DEF Alike
  <1>2. Closing(a) = Closing(b)
    BY <1>1 DEF Closing
  <1>3. CASE a.t = "arr"
    <2>1. /\ IsSeq(Inner(a)) /\ Steps(a) = 1..Len(Inner(a)) /\ \A i : Part(a, i) = Inner(a)[i]
          /\ IsSeq(Inner(b)) /\ Steps(b) = 1..Len(Inner(b)) /\ \A i : Part(b, i) = Inner(b)[i]
      BY <1>1, <1>3, ArrayIs
    <2>2. Len(Inner(a)) \in Nat /\ Len(Inner(b)) \in Nat
      BY <2>1, SeqIs
    <2>3. 1..Len(Inner(a)) = 1..Len(Inner(b))
      BY <1>1, <2>1
    <2>4. Len(Inner(a)) = Len(Inner(b))
      BY <2>2, <2>3
    <2> QED BY <1>1, <1>2, <2>1, <2>4
  <1>4. CASE a.t = "obj"
    <2>1. Steps(a) = Keys(a) /\ Keys(a) = Keys(b)
      BY <1>1, <1>4, ObjectIs
    <2>2. Ordered(a) = Ordered(b)
      BY <2>1 DEF Ordered
    <2> DEFINE K == Ordered(a)
    <2>3. /\ \A r \in 1..Len(K) : K[r] \in Keys(a)
          /\ Len(Inner(a)) = 2 * Len(K)
          /\ \A r \in 1..Len(K) : Inner(a)[2 * r - 1] = Token("key", K[r]) /\ Inner(a)[2 * r] = Part(a, K[r])
          /\ \A i \in 1..Len(Inner(a)) : \E r \in 1..Len(K) : i = 2 * r - 1 \/ i = 2 * r
      BY <1>4, ObjectIs
    <2>4. /\ Len(Inner(b)) = 2 * Len(K)
          /\ \A r \in 1..Len(K) : Inner(b)[2 * r - 1] = Token("key", K[r]) /\ Inner(b)[2 * r] = Part(b, K[r])
      <3> DEFINE M == Ordered(b)
      <3>1. b.t = "obj" /\ WellFormed(b)
        BY <1>1, <1>4
      <3>2. /\ Len(Inner(b)) = 2 * Len(M)
            /\ \A r \in 1..Len(M) : Inner(b)[2 * r - 1] = Token("key", M[r]) /\ Inner(b)[2 * r] = Part(b, M[r])
        BY <3>1, ObjectIs
      <3>3. M = K
        BY <2>2
      <3> HIDE DEF K, M
      <3> QED BY <3>2, <3>3
    <2> HIDE DEF K
    <2>5. ASSUME NEW i \in 1..Len(Inner(a))
          PROVE  \/ Inner(a)[i] = Inner(b)[i] /\ Inner(a)[i].t = "token"
                 \/ \E s \in Steps(a) : Inner(a)[i] = Part(a, s) /\ Inner(b)[i] = Part(b, s)
      <3>1. PICK r \in 1..Len(K) : i = 2 * r - 1 \/ i = 2 * r
        BY <2>3
      <3>2. CASE i = 2 * r - 1
        <4>1. Inner(a)[i] = Token("key", K[r]) /\ Inner(b)[i] = Token("key", K[r])
          BY <2>3, <2>4, <3>2
        <4>2. Token("key", K[r]).t = "token"
          BY TokensAre
        <4> QED BY <4>1, <4>2, Zenon
      <3>3. CASE i = 2 * r
        BY <2>1, <2>3, <2>4, <3>3
      <3> QED BY <3>1, <3>2, <3>3
    <2>6. Len(Inner(a)) = Len(Inner(b))
      BY <2>3, <2>4
    <2> QED BY <1>2, <2>5, <2>6
  <1> QED BY <1>3, <1>4

\* Nothing written is nothing.
LEMMA EmptyWritten ==
  ASSUME NEW n \in Nat
  PROVE  Written(<<>>, n) = <<>>
PROOF
  <1> DEFINE s == <<>>
             T == {k \in Nat : Written(s, k) = s}
  <1>2. SerializeAll(s) = s
    BY EmptySerialized
  <1>3. 0 \in T
    BY Writings
  <1>4. ASSUME NEW k \in T PROVE k + 1 \in T
    <2>1. k \in Nat /\ k + 1 \in Nat /\ Written(s, k) = s
      OBVIOUS
    <2>2. Written(s, k + 1) = SerializeAll(Written(s, k))
      <3> HIDE DEF s
      <3> QED BY <2>1, Writings
    <2> HIDE DEF s
    <2>3. Written(s, k + 1) = s
      BY <1>2, <2>1, <2>2
    <2> QED BY <2>1, <2>3
  <1>5. T = Nat
    <2>1. T \in SUBSET Nat
      OBVIOUS
    <2> HIDE DEF T
    <2> QED BY <1>3, <1>4, <2>1, Induction
  <1> QED BY <1>5

\* A list of items is written as its first one and then the others.
LEMMA WrittenFirst ==
  ASSUME NEW n \in Nat, NEW s, Items(s, n), Len(s) > 0
  PROVE  \E t : /\ Items(t, n) /\ Len(s) = Len(t) + 1 /\ Len(t) \in Nat
                /\ \A i \in 1..Len(t) : t[i] = s[i + 1]
                /\ Item(s[1], n) /\ IsSeq(Written(<<s[1]>>, n)) /\ IsSeq(Written(t, n))
                /\ Written(s, n) = Written(<<s[1]>>, n) \o Written(t, n)
PROOF
  <1>1. IsSeq(s) /\ Len(s) \in Nat
    BY SeqIs DEF Items
  <1>2. PICK t : /\ IsSeq(t) /\ s = <<s[1]>> \o t /\ Len(s) = Len(t) + 1
                 /\ \A i \in 1..Len(t) : t[i] = s[i + 1]
    BY <1>1, FirstOf
  <1>3. Len(t) \in Nat
    BY <1>2, SeqIs
  <1>4. Items(t, n)
    <2>1. \A i \in 1..Len(t) : i + 1 \in 1..Len(s)
      BY <1>2, <1>3
    <2> QED BY <1>2, <2>1 DEF Items
  <1>5. Item(s[1], n)
    <2>1. 1 \in 1..Len(s)
      BY <1>1
    <2> QED BY <2>1 DEF Items
  <1> DEFINE p == <<s[1]>>
  <1>6. Items(p, n)
    BY <1>5, ItemAlone
  <1>7. s = p \o t
    BY <1>2
  <1> HIDE DEF p
  <1>8. IsSeq(Written(p, n)) /\ IsSeq(Written(t, n)) /\ Written(p \o t, n) = Written(p, n) \o Written(t, n)
    BY <1>4, <1>6, WrittenCat
  <1>9. Written(s, n) = Written(p, n) \o Written(t, n)
    BY <1>7, <1>8, Zenon
  <1> QED BY <1>2, <1>3, <1>4, <1>5, <1>8, <1>9 DEF p

\* Lists whose items are written alike are written alike.
LEMMA ListsWrittenAlike ==
  ASSUME NEW n \in Nat, NEW l \in Nat
  PROVE  \A s, t : /\ Items(s, n) /\ Items(t, n) /\ Len(s) = l /\ Len(t) = l
                   /\ \A i \in 1..l : Written(<<s[i]>>, n) = Written(<<t[i]>>, n)
                   => Written(s, n) = Written(t, n)
PROOF
  <1> DEFINE Alikes(k) == \A s, t : /\ Items(s, n) /\ Items(t, n) /\ Len(s) = k /\ Len(t) = k
                                    /\ \A i \in 1..k : Written(<<s[i]>>, n) = Written(<<t[i]>>, n)
                                    => Written(s, n) = Written(t, n)
             T == {k \in Nat : Alikes(k)}
  <1>1. 0 \in T
    <2>1. ASSUME NEW s, NEW t, Items(s, n), Items(t, n), Len(s) = 0, Len(t) = 0 PROVE s = t
      <3>1. \A i \in 1..0 : s[i] = t[i]
        OBVIOUS
      <3> QED BY <2>1, <3>1, SameSeq DEF Items
    <2>2. Alikes(0)
      BY <2>1
    <2> QED BY <2>2
  <1>2. ASSUME NEW k \in T PROVE k + 1 \in T
    <2>1. k \in Nat /\ k + 1 \in Nat /\ Alikes(k)
      OBVIOUS
    <2>2. ASSUME NEW s, NEW t, Items(s, n), Items(t, n), Len(s) = k + 1, Len(t) = k + 1,
                 \A i \in 1..(k + 1) : Written(<<s[i]>>, n) = Written(<<t[i]>>, n)
          PROVE  Written(s, n) = Written(t, n)
      <3>0. Len(s) > 0 /\ Len(t) > 0
        BY <2>1, <2>2
      <3>1. PICK u : /\ Items(u, n) /\ Len(s) = Len(u) + 1 /\ Len(u) \in Nat
                     /\ \A i \in 1..Len(u) : u[i] = s[i + 1]
                     /\ Written(s, n) = Written(<<s[1]>>, n) \o Written(u, n)
        BY <2>2, <3>0, WrittenFirst
      <3>2. PICK v : /\ Items(v, n) /\ Len(t) = Len(v) + 1 /\ Len(v) \in Nat
                     /\ \A i \in 1..Len(v) : v[i] = t[i + 1]
                     /\ Written(t, n) = Written(<<t[1]>>, n) \o Written(v, n)
        BY <2>2, <3>0, WrittenFirst
      <3>3. Len(u) = k /\ Len(v) = k
        BY <2>1, <2>2, <3>1, <3>2
      <3>4. ASSUME NEW i \in 1..k PROVE Written(<<u[i]>>, n) = Written(<<v[i]>>, n)
        <4>1. i + 1 \in 1..(k + 1)
          BY <2>1
        <4>2. u[i] = s[i + 1] /\ v[i] = t[i + 1]
          BY <3>1, <3>2, <3>3
        <4>3. Written(<<s[i + 1]>>, n) = Written(<<t[i + 1]>>, n)
          BY <2>2, <4>1
        <4> QED BY <4>2, <4>3, Zenon
      <3>5. Written(u, n) = Written(v, n)
        BY <2>1, <3>1, <3>2, <3>3, <3>4
      <3>6. 1 \in 1..(k + 1)
        BY <2>1
      <3>7. Written(<<s[1]>>, n) = Written(<<t[1]>>, n)
        BY <2>2, <3>6
      <3> QED BY <3>1, <3>2, <3>5, <3>7, Zenon
    <2>3. Alikes(k + 1)
      BY <2>2
    <2> HIDE DEF Alikes
    <2> QED BY <2>1, <2>3
  <1>3. T = Nat
    <2>1. T \in SUBSET Nat
      OBVIOUS
    <2> HIDE DEF T
    <2> QED BY <1>1, <1>2, <2>1, Induction
  <1>4. Alikes(l)
    <2> HIDE DEF Alikes
    <2> QED BY <1>3
  <1> QED BY <1>4

\* Two values that are alike, with parts that are written alike, have one text.
LEMMA SameOne ==
  ASSUME NEW n \in Nat, NEW a, JsonTo(a, n), NEW b, JsonTo(b, n), Alike(a, b),
         \A s \in Steps(a) : Written(<<Part(a, s)>>, n) = Written(<<Part(b, s)>>, n)
  PROVE  TextTo(a, n) = TextTo(b, n)
PROOF
  <1>1. WellFormed(a) /\ a.t # "none" /\ WellFormed(b) /\ b.t # "none" /\ a.t = b.t
    BY PartOfJson DEF Alike
  <1>2. Opening(a) = Opening(b)
    BY <1>1, OpeningTells DEF Alike
  <1>3. CASE a.t \in {"num", "str"}
    BY <1>1, <1>2, <1>3, TextIs
  <1>4. CASE a.t \in {"arr", "obj"}
    <2> DEFINE u == Inner(a)
               v == Inner(b)
    <2>1. /\ Closing(a) = Closing(b) /\ Len(u) = Len(v)
          /\ \A i \in 1..Len(u) : \/ u[i] = v[i]
                                  \/ \E s \in Steps(a) : u[i] = Part(a, s) /\ v[i] = Part(b, s)
      BY <1>1, <1>4, InnerAlike
    <2>2. /\ Items(u, n) /\ TextTo(a, n) = <<Opening(a)>> \o (Written(u, n) \o <<Closing(a)>>)
          /\ Items(v, n) /\ TextTo(b, n) = <<Opening(b)>> \o (Written(v, n) \o <<Closing(b)>>)
      BY <1>1, <1>4, TextIs
    <2> HIDE DEF u, v
    <2>3. Len(u) \in Nat
      BY <2>2, SeqIs DEF Items
    <2>4. ASSUME NEW i \in 1..Len(u) PROVE Written(<<u[i]>>, n) = Written(<<v[i]>>, n)
      <3>1. CASE u[i] = v[i]
        BY <3>1
      <3>2. CASE \E s \in Steps(a) : u[i] = Part(a, s) /\ v[i] = Part(b, s)
        <4>1. PICK s \in Steps(a) : u[i] = Part(a, s) /\ v[i] = Part(b, s)
          BY <3>2
        <4> QED BY <4>1, Zenon
      <3> QED BY <2>1, <3>1, <3>2
    <2>5. Written(u, n) = Written(v, n)
      <3>1. PICK l \in Nat : l = Len(u)
        BY <2>3
      <3>2. Len(u) = l /\ Len(v) = l /\ \A i \in 1..l : Written(<<u[i]>>, n) = Written(<<v[i]>>, n)
        BY <2>1, <2>4, <3>1
      <3>3. \A s, t : /\ Items(s, n) /\ Items(t, n) /\ Len(s) = l /\ Len(t) = l
                      /\ \A i \in 1..l : Written(<<s[i]>>, n) = Written(<<t[i]>>, n)
                      => Written(s, n) = Written(t, n)
        BY ListsWrittenAlike
      <3> QED BY <2>2, <3>2, <3>3, Zenon
    <2> QED BY <1>2, <2>1, <2>2, <2>5, Zenon
  <1> QED BY <1>1, <1>3, <1>4, TextIs

\* Values that are the same have one text: neither the order of members nor the sign of
\* zero shows in it.
LEMMA SameWritten ==
  ASSUME NEW n \in Nat
  PROVE  \A a, b : JsonTo(a, n) /\ JsonTo(b, n) /\ SameTo(a, b, n) => TextTo(a, n) = TextTo(b, n)
PROOF
  <1> DEFINE Same(k) == \A a, b : JsonTo(a, k) /\ JsonTo(b, k) /\ SameTo(a, b, k) => TextTo(a, k) = TextTo(b, k)
             T == {k \in Nat : Same(k)}
  <1>1. 0 \in T
    <2>1. ASSUME NEW a, NEW b, JsonTo(a, 0), JsonTo(b, 0), SameTo(a, b, 0) PROVE TextTo(a, 0) = TextTo(b, 0)
      <3>1. Alike(a, b) /\ Steps(a) = {}
        BY <2>1, SameIs, JsonIs
      <3> QED BY <2>1, <3>1, SameOne
    <2>2. Same(0)
      BY <2>1
    <2> QED BY <2>2
  <1>2. ASSUME NEW k \in T PROVE k + 1 \in T
    <2>1. k \in Nat /\ k + 1 \in Nat /\ Same(k)
      OBVIOUS
    <2>2. ASSUME NEW a, NEW b, JsonTo(a, k + 1), JsonTo(b, k + 1), SameTo(a, b, k + 1)
          PROVE  TextTo(a, k + 1) = TextTo(b, k + 1)
      <3>1. Alike(a, b) /\ \A s \in Steps(a) : SameTo(Part(a, s), Part(b, s), k)
        BY <2>1, <2>2, SameIs
      <3>2. Steps(a) = Steps(b)
        BY <3>1 DEF Alike
      <3>3. \A s \in Steps(a) : JsonTo(Part(a, s), k) /\ JsonTo(Part(b, s), k)
        BY <2>1, <2>2, <3>2, JsonIs
      <3>4. \A s \in Steps(a) : Written(<<Part(a, s)>>, k + 1) = Written(<<Part(b, s)>>, k + 1)
        BY <2>1, <3>1, <3>3 DEF TextTo
      <3> QED BY <2>1, <2>2, <3>1, <3>4, SameOne
    <2>3. Same(k + 1)
      BY <2>2
    <2> HIDE DEF Same
    <2> QED BY <2>1, <2>3
  <1>3. T = Nat
    <2>1. T \in SUBSET Nat
      OBVIOUS
    <2> HIDE DEF T
    <2> QED BY <1>1, <1>2, <2>1, Induction
  <1>4. Same(n)
    <2> HIDE DEF Same
    <2> QED BY <1>3
  <1> QED BY <1>4

-------------------------------------------------------------------------------
\* A text has one reading.

\* One text, and another after it.
Cat(s, t) == s \o t

\* The laws of concatenation, for Cat.
LEMMA CatRules ==
  ASSUME NEW s, IsSeq(s), NEW t, IsSeq(t), NEW u, IsSeq(u)
  PROVE  /\ Cat(Cat(s, t), u) = Cat(s, Cat(t, u))
         /\ IsSeq(Cat(s, t))
         /\ Cat(s, <<>>) = s /\ Cat(<<>>, s) = s
PROOF
  <1>1. (s \o t) \o u = s \o (t \o u)
    BY CatLaws
  <1>2. s \o <<>> = s
    BY CatLaws
  <1>3. <<>> \o s = s
    BY CatLaws
  <1>4. IsSeq(s \o t)
    BY CatIs
  <1> QED BY <1>1, <1>2, <1>3, <1>4, Zenon DEF Cat

\* A head before a concatenation is a head before the first of it.
LEMMA AfterIs ==
  ASSUME NEW h, NEW w, IsSeq(w)
  PROVE  /\ IsSeq(After(h, w)) /\ After(h, <<>>) = <<h>>
         /\ \A r : IsSeq(r) => Cat(After(h, w), r) = After(h, Cat(w, r))
PROOF
  <1> DEFINE p == <<h>>
  <1>1. IsSeq(p)
    BY OneIs
  <1>2. \A x : After(h, x) = Cat(p, x)
    BY DEF After, Cat
  <1> HIDE DEF p
  <1>3. IsSeq(After(h, w)) /\ After(h, <<>>) = p
    BY <1>1, <1>2, CatRules
  <1>4. ASSUME NEW r, IsSeq(r) PROVE Cat(After(h, w), r) = After(h, Cat(w, r))
    BY <1>1, <1>2, <1>4, CatRules
  <1> QED BY <1>3, <1>4 DEF p

\* Texts that go on alike begin alike.
LEMMA FrontsAgree ==
  ASSUME NEW h, NEW w, IsSeq(w), NEW r, IsSeq(r), NEW i, NEW v, IsSeq(v), NEW s, IsSeq(s),
         Cat(After(h, w), r) = Cat(After(i, v), s)
  PROVE  h = i /\ Cat(w, r) = Cat(v, s)
PROOF
  <1>1. Cat(After(h, w), r) = After(h, Cat(w, r)) /\ IsSeq(Cat(w, r))
    BY AfterIs, CatRules
  <1>2. Cat(After(i, v), s) = After(i, Cat(v, s)) /\ IsSeq(Cat(v, s))
    BY AfterIs, CatRules
  <1> DEFINE x == Cat(w, r)
             y == Cat(v, s)
  <1>3. IsSeq(x) /\ IsSeq(y) /\ After(h, x) = After(i, y)
    BY <1>1, <1>2
  <1> HIDE DEF x, y
  <1>4. h = i /\ x = y
    BY <1>3, HeadsAgree
  <1> QED BY <1>4 DEF x, y

\* The text of an array or an object, and how any text begins.
LEMMA TextCat ==
  ASSUME NEW n \in Nat, NEW a, JsonTo(a, n)
  PROVE  /\ a.t \in {"num", "str"} => TextTo(a, n) = After(Opening(a), <<>>)
         /\ a.t \in {"arr", "obj"} =>
              /\ IsSeq(Written(Inner(a), n))
              /\ TextTo(a, n) = After(Opening(a), Cat(Written(Inner(a), n), After(Closing(a), <<>>)))
PROOF
  <1>1. \A h : After(h, <<>>) = <<h>>
    BY AfterIs, EmptyIs
  <1>2. a.t \in {"num", "str"} => TextTo(a, n) = <<Opening(a)>>
    BY TextIs
  <1>3. a.t \in {"arr", "obj"} =>
          /\ IsSeq(Written(Inner(a), n))
          /\ TextTo(a, n) = <<Opening(a)>> \o (Written(Inner(a), n) \o <<Closing(a)>>)
    BY TextIs
  <1>4. \A q : <<Opening(a)>> \o (Written(Inner(a), n) \o q) = After(Opening(a), Cat(Written(Inner(a), n), q))
    BY DEF After, Cat
  <1> QED BY <1>1, <1>2, <1>3, <1>4, Zenon

\* A text begins with what opens the value.
LEMMA TextBegins ==
  ASSUME NEW n \in Nat, NEW a, JsonTo(a, n)
  PROVE  \E w : IsSeq(w) /\ TextTo(a, n) = After(Opening(a), w)
PROOF
  <1>1. IsSeq(After(Closing(a), <<>>)) /\ IsSeq(<<>>)
    BY AfterIs, EmptyIs
  <1>2. CASE a.t \in {"num", "str"}
    BY <1>1, <1>2, TextCat
  <1>3. CASE a.t \in {"arr", "obj"}
    <2>1. IsSeq(Cat(Written(Inner(a), n), After(Closing(a), <<>>)))
      BY <1>1, <1>3, TextCat, CatRules
    <2> QED BY <1>3, <2>1, TextCat
  <1> QED BY <1>2, <1>3, TextIs

\* Two values with n levels of parts can be told apart by how any text goes on.
Readable(n) ==
  \A a, b, r, s : /\ JsonTo(a, n) /\ JsonTo(b, n) /\ IsSeq(r) /\ IsSeq(s)
                  /\ Cat(TextTo(a, n), r) = Cat(TextTo(b, n), s)
                  => r = s /\ SameTo(a, b, n)

Matches(a, b, n) ==
  \/ a = b /\ \E k : a = Token("key", k)
  \/ n > 0 /\ JsonTo(a, n - 1) /\ JsonTo(b, n - 1) /\ SameTo(a, b, n - 1)

IsKey(a) == \E k : a = Token("key", k)

\* The marks that end an array or an object.
IsEnd(c) == c = Mark("]") \/ c = Mark("}")

\* The text of a begins with the token h.
Begins(a, n, h, w) ==
  /\ IsSeq(w) /\ Written(<<a>>, n) = After(h, w)
  /\ ~IsEnd(h)
  /\ IsKey(a) => h = a /\ w = <<>>
  /\ IsKey(h) => IsKey(a)

\* What is written of a piece begins with a token that says what kind of piece it is.
LEMMA PieceBegins ==
  ASSUME NEW n \in Nat, NEW a, Piece(a, n)
  PROVE  \E h, w : Begins(a, n, h, w)
PROOF
  <1>1. ASSUME NEW k, a = Token("key", k)
        PROVE  /\ Written(<<a>>, n) = After(a, <<>>) /\ IsSeq(<<>>)
               /\ a # Mark("]") /\ a # Mark("}")
    <2>1. a.t = "token"
      BY <1>1, TokensAre
    <2>2. Written(<<a>>, n) = <<a>>
      BY <2>1, TokenWritten
    <2>3. After(a, <<>>) = <<a>>
      BY AfterIs, EmptyIs
    <2>4. \A m : Token("key", k) # Mark(m)
      <3>1. \A m : Token("key", k) # Token("mark", m)
        <4>1. "key" # "mark"
          OBVIOUS
        <4> QED BY <4>1, TokensAre
      <3> QED BY <3>1 DEF Mark
    <2> QED BY <1>1, <2>2, <2>3, <2>4, EmptyIs, Zenon
  <1>2. ASSUME n > 0, JsonTo(a, n - 1)
        PROVE  /\ \E w : IsSeq(w) /\ Written(<<a>>, n) = After(Opening(a), w)
               /\ Opening(a) # Mark("]") /\ Opening(a) # Mark("}")
               /\ \A k : Opening(a) # Token("key", k)
               /\ \A k : a # Token("key", k)
    <2>1. n - 1 \in Nat /\ (n - 1) + 1 = n
      BY <1>2
    <2>2. TextTo(a, n - 1) = Written(<<a>>, n)
      BY <2>1 DEF TextTo
    <2>3. WellFormed(a) /\ a.t # "none" /\ a.t # "token"
      BY <1>2, <2>1, PartOfJson
    <2>4. \A k : a # Token("key", k)
      BY <2>3, TokensAre
    <2>5. /\ Opening(a) # Mark("]") /\ Opening(a) # Mark("}")
          /\ \A k : Opening(a) # Token("key", k)
      BY <2>3, OpeningTells
    <2>6. \E w : IsSeq(w) /\ Written(<<a>>, n) = After(Opening(a), w)
      BY <1>2, <2>1, <2>2, TextBegins
    <2> QED BY <2>4, <2>5, <2>6
  <1>3. CASE \E k : a = Token("key", k)
    <2>1. Begins(a, n, a, <<>>)
      BY <1>1, <1>3, Zenon DEF Begins, IsEnd
    <2> QED BY <2>1
  <1>4. CASE n > 0 /\ JsonTo(a, n - 1)
    <2>1. PICK w : IsSeq(w) /\ Written(<<a>>, n) = After(Opening(a), w)
      BY <1>2, <1>4
    <2>2. Begins(a, n, Opening(a), w)
      BY <1>2, <1>4, <2>1, Zenon DEF Begins, IsKey, IsEnd
    <2> QED BY <2>2
  <1> QED BY <1>3, <1>4 DEF Piece

\* A text that begins with what is written of either of two pieces was made from pieces
\* that match, and goes on the same way after both.
LEMMA PieceRead ==
  ASSUME NEW n \in Nat, n > 0 => Readable(n - 1),
         NEW a, Piece(a, n), NEW b, Piece(b, n), NEW r, IsSeq(r), NEW s, IsSeq(s),
         Cat(Written(<<a>>, n), r) = Cat(Written(<<b>>, n), s)
  PROVE  r = s /\ Matches(a, b, n)
PROOF
  <1>1. CASE IsKey(a) \/ IsKey(b)
    <2>1. PICK h, w : Begins(a, n, h, w)
      BY PieceBegins
    <2>2. PICK i, v : Begins(b, n, i, v)
      BY PieceBegins
    <2>3. h = i /\ Cat(w, r) = Cat(v, s)
      <3>1. IsSeq(w) /\ Written(<<a>>, n) = After(h, w) /\ IsSeq(v) /\ Written(<<b>>, n) = After(i, v)
        BY <2>1, <2>2 DEF Begins
      <3>2. Cat(After(h, w), r) = Cat(After(i, v), s)
        BY <3>1, Zenon
      <3> QED BY <3>1, <3>2, FrontsAgree
    <2>4. IsKey(a) /\ IsKey(b)
      BY <1>1, <2>1, <2>2, <2>3 DEF Begins
    <2>5. a = b /\ w = <<>> /\ v = <<>>
      BY <2>1, <2>2, <2>3, <2>4 DEF Begins
    <2>6. Cat(<<>>, r) = r /\ Cat(<<>>, s) = s
      BY CatRules
    <2>8. r = s
      BY <2>3, <2>5, <2>6
    <2> QED BY <2>4, <2>5, <2>8 DEF Matches, IsKey
  <1>2. CASE n > 0 /\ JsonTo(a, n - 1) /\ JsonTo(b, n - 1)
    <2>1. n - 1 \in Nat /\ (n - 1) + 1 = n
      BY <1>2
    <2>2. TextTo(a, n - 1) = Written(<<a>>, n) /\ TextTo(b, n - 1) = Written(<<b>>, n)
      BY <2>1 DEF TextTo
    <2>3. Cat(TextTo(a, n - 1), r) = Cat(TextTo(b, n - 1), s)
      BY <2>2, Zenon
    <2>4. r = s /\ SameTo(a, b, n - 1)
      BY <1>2, <2>3 DEF Readable
    <2> QED BY <1>2, <2>4 DEF Matches
  <1> QED BY <1>1, <1>2 DEF Piece, IsKey

Pieces(s, n) == IsSeq(s) /\ \A i \in 1..Len(s) : Piece(s[i], n)

\* A list of pieces is written first piece first.
LEMMA PiecesFirst ==
  ASSUME NEW n \in Nat, NEW s, Pieces(s, n), Len(s) > 0
  PROVE  \E t : /\ Pieces(t, n) /\ Len(s) = Len(t) + 1 /\ Len(t) \in Nat
                /\ \A i \in 1..Len(t) : t[i] = s[i + 1]
                /\ Piece(s[1], n) /\ IsSeq(Written(<<s[1]>>, n)) /\ IsSeq(Written(t, n))
                /\ Written(s, n) = Cat(Written(<<s[1]>>, n), Written(t, n))
PROOF
  <1>1. Items(s, n)
    BY TokensAre DEF Items, Item, Pieces, Piece
  <1>2. PICK t : /\ Items(t, n) /\ Len(s) = Len(t) + 1 /\ Len(t) \in Nat
                 /\ \A i \in 1..Len(t) : t[i] = s[i + 1]
                 /\ IsSeq(Written(<<s[1]>>, n)) /\ IsSeq(Written(t, n))
                 /\ Written(s, n) = Written(<<s[1]>>, n) \o Written(t, n)
    BY <1>1, WrittenFirst
  <1>3. Pieces(t, n)
    <2>1. \A i \in 1..Len(t) : i + 1 \in 1..Len(s)
      BY <1>2
    <2> QED BY <1>2, <2>1 DEF Pieces, Items
  <1>4. Piece(s[1], n)
    <2>1. 1 \in 1..Len(s)
      BY <1>2
    <2> QED BY <2>1 DEF Pieces
  <1>5. Written(s, n) = Cat(Written(<<s[1]>>, n), Written(t, n))
    BY <1>2 DEF Cat
  <1> QED BY <1>2, <1>3, <1>4, <1>5

\* A piece never begins with a mark that ends a list.
LEMMA PieceIsNoEnd ==
  ASSUME NEW n \in Nat, NEW a, Piece(a, n), NEW r, IsSeq(r),
         NEW c, IsEnd(c), NEW s, IsSeq(s)
  PROVE  Cat(Written(<<a>>, n), r) # After(c, s)
PROOF
  <1>1. PICK h, w : Begins(a, n, h, w)
    BY PieceBegins
  <1> DEFINE x == Cat(w, r)
  <1>2. Cat(Written(<<a>>, n), r) = After(h, x) /\ IsSeq(x) /\ h # c
    <2>1. IsSeq(w) /\ Written(<<a>>, n) = After(h, w) /\ h # c
      BY <1>1 DEF Begins
    <2>2. Cat(After(h, w), r) = After(h, x) /\ IsSeq(x)
      BY <2>1, AfterIs, CatRules
    <2> HIDE DEF x
    <2> QED BY <2>1, <2>2
  <1> HIDE DEF x
  <1> QED BY <1>2, HeadsAgree

\* Lists of pieces that are written alike up to the mark that ends them are the same.
ListsRead(n, c, l) ==
  \A u, v, r, s :
    /\ Pieces(u, n) /\ Pieces(v, n) /\ IsSeq(r) /\ IsSeq(s) /\ Len(u) = l
    /\ Cat(Written(u, n), After(c, r)) = Cat(Written(v, n), After(c, s))
    => Len(v) = l /\ r = s /\ \A i \in 1..l : Matches(u[i], v[i], n)

\* Lists of pieces that end with a mark can be read off a text, however long they are.
LEMMA ListsAreRead ==
  ASSUME NEW n \in Nat, n > 0 => Readable(n - 1), NEW c, IsEnd(c), NEW l \in Nat
  PROVE  ListsRead(n, c, l)
PROOF
  <1> DEFINE T == {k \in Nat : ListsRead(n, c, k)}
  <1>0. \A u : Pieces(u, n) => IsSeq(u) /\ Len(u) \in Nat
    BY SeqIs DEF Pieces
  <1>1. \A u : Pieces(u, n) /\ Len(u) = 0 => Written(u, n) = <<>>
    <2>1. ASSUME NEW u, Pieces(u, n), Len(u) = 0 PROVE u = <<>>
      <3>1. IsSeq(u) /\ IsSeq(<<>>) /\ Len(<<>>) = 0
        BY <1>0, <2>1, EmptyIs
      <3>2. \A i \in 1..0 : u[i] = <<>>[i]
        OBVIOUS
      <3> QED BY <2>1, <3>1, <3>2, SameSeq
    <2> QED BY <2>1, EmptyWritten
  <1>2. \A r : IsSeq(r) => IsSeq(After(c, r)) /\ Cat(<<>>, After(c, r)) = After(c, r)
    BY AfterIs, CatRules
  <1>3. 0 \in T
    <2>1. ASSUME NEW u, NEW v, NEW r, NEW s, Pieces(u, n), Pieces(v, n), IsSeq(r), IsSeq(s), Len(u) = 0,
                 Cat(Written(u, n), After(c, r)) = Cat(Written(v, n), After(c, s))
          PROVE  Len(v) = 0 /\ r = s
      <3>1. Cat(Written(u, n), After(c, r)) = After(c, r)
        BY <1>1, <1>2, <2>1
      <3>2. CASE Len(v) = 0
        <4>1. Cat(Written(v, n), After(c, s)) = After(c, s)
          BY <1>1, <1>2, <2>1, <3>2
        <4>2. After(c, r) = After(c, s)
          BY <2>1, <3>1, <4>1
        <4> QED BY <2>1, <3>2, <4>2, HeadsAgree
      <3>3. CASE Len(v) # 0
        <4>1. Len(v) > 0
          BY <1>0, <2>1, <3>3
        <4>2. PICK t : /\ Piece(v[1], n) /\ IsSeq(Written(<<v[1]>>, n)) /\ IsSeq(Written(t, n))
                       /\ Written(v, n) = Cat(Written(<<v[1]>>, n), Written(t, n))
          BY <2>1, <4>1, PiecesFirst
        <4> DEFINE y == Cat(Written(t, n), After(c, s))
        <4>3. Cat(Written(v, n), After(c, s)) = Cat(Written(<<v[1]>>, n), y) /\ IsSeq(y)
          BY <1>2, <2>1, <4>2, CatRules
        <4>4. Cat(Written(<<v[1]>>, n), y) = After(c, r)
          BY <2>1, <3>1, <4>3
        <4> HIDE DEF y
        <4> QED BY <2>1, <4>2, <4>3, <4>4, PieceIsNoEnd
      <3> QED BY <3>2, <3>3
    <2>2. ListsRead(n, c, 0)
      BY <2>1 DEF ListsRead
    <2> QED BY <2>2
  <1>4. ASSUME NEW k \in T PROVE k + 1 \in T
    <2>1. k \in Nat /\ k + 1 \in Nat /\ ListsRead(n, c, k)
      OBVIOUS
    <2>2. ASSUME NEW u, NEW v, NEW r, NEW s, Pieces(u, n), Pieces(v, n), IsSeq(r), IsSeq(s), Len(u) = k + 1,
                 Cat(Written(u, n), After(c, r)) = Cat(Written(v, n), After(c, s))
          PROVE  Len(v) = k + 1 /\ r = s /\ \A i \in 1..(k + 1) : Matches(u[i], v[i], n)
      <3>1. Len(u) > 0
        BY <2>1, <2>2
      <3>2. PICK p : /\ Pieces(p, n) /\ Len(u) = Len(p) + 1 /\ Len(p) \in Nat
                     /\ \A i \in 1..Len(p) : p[i] = u[i + 1]
                     /\ Piece(u[1], n) /\ IsSeq(Written(<<u[1]>>, n)) /\ IsSeq(Written(p, n))
                     /\ Written(u, n) = Cat(Written(<<u[1]>>, n), Written(p, n))
        BY <2>2, <3>1, PiecesFirst
      <3> DEFINE x == Cat(Written(p, n), After(c, r))
      <3>3. Cat(Written(u, n), After(c, r)) = Cat(Written(<<u[1]>>, n), x) /\ IsSeq(x)
        BY <1>2, <2>2, <3>2, CatRules
      <3>4. CASE Len(v) = 0
        <4>1. Cat(Written(v, n), After(c, s)) = After(c, s)
          BY <1>1, <1>2, <2>2, <3>4
        <4>2. Cat(Written(<<u[1]>>, n), x) = After(c, s)
          BY <2>2, <3>3, <4>1
        <4> HIDE DEF x
        <4> QED BY <2>2, <3>2, <3>3, <4>2, PieceIsNoEnd
      <3>5. CASE Len(v) # 0
        <4>1. Len(v) > 0
          BY <1>0, <2>2, <3>5
        <4>2. PICK q : /\ Pieces(q, n) /\ Len(v) = Len(q) + 1 /\ Len(q) \in Nat
                       /\ \A i \in 1..Len(q) : q[i] = v[i + 1]
                       /\ Piece(v[1], n) /\ IsSeq(Written(<<v[1]>>, n)) /\ IsSeq(Written(q, n))
                       /\ Written(v, n) = Cat(Written(<<v[1]>>, n), Written(q, n))
          BY <2>2, <4>1, PiecesFirst
        <4> DEFINE y == Cat(Written(q, n), After(c, s))
        <4>3. Cat(Written(v, n), After(c, s)) = Cat(Written(<<v[1]>>, n), y) /\ IsSeq(y)
          BY <1>2, <2>2, <4>2, CatRules
        <4>4. Cat(Written(<<u[1]>>, n), x) = Cat(Written(<<v[1]>>, n), y)
          BY <2>2, <3>3, <4>3
        <4>5. x = y /\ Matches(u[1], v[1], n)
          <5> HIDE DEF x, y
          <5> QED BY <3>2, <3>3, <4>2, <4>3, <4>4, PieceRead
        <4>6. Len(p) = k
          BY <2>1, <2>2, <3>2
        <4>7. Len(q) = k /\ r = s /\ \A i \in 1..k : Matches(p[i], q[i], n)
          BY <2>1, <2>2, <3>2, <4>2, <4>5, <4>6 DEF ListsRead
        <4>8. ASSUME NEW i \in 1..(k + 1) PROVE Matches(u[i], v[i], n)
          <5>1. CASE i = 1
            BY <4>5, <5>1
          <5>2. CASE i # 1
            <6>1. i - 1 \in 1..k /\ (i - 1) + 1 = i
              BY <2>1, <5>2
            <6>2. p[i - 1] = u[i] /\ q[i - 1] = v[i]
              BY <3>2, <4>2, <4>6, <4>7, <6>1
            <6> QED BY <4>7, <6>1, <6>2
          <5> QED BY <5>1, <5>2
        <4>9. Len(v) = k + 1
          BY <4>2, <4>7
        <4> QED BY <4>7, <4>8, <4>9
      <3> QED BY <3>4, <3>5
    <2>3. ListsRead(n, c, k + 1)
      BY <2>2 DEF ListsRead
    <2> QED BY <2>1, <2>3
  <1>5. T = Nat
    <2>1. T \in SUBSET Nat
      OBVIOUS
    <2> HIDE DEF T
    <2> QED BY <1>3, <1>4, <2>1, Induction
  <1> QED BY <1>5

\* Lists of pieces that match were made from values that are the same.
LEMMA InnerTells ==
  ASSUME NEW n \in Nat, NEW a, JsonTo(a, n), NEW b, JsonTo(b, n), a.t = b.t, a.t \in {"arr", "obj"},
         Len(Inner(a)) = Len(Inner(b)),
         \A i \in 1..Len(Inner(a)) : Matches(Inner(a)[i], Inner(b)[i], n)
  PROVE  SameTo(a, b, n)
PROOF
  <1>1. WellFormed(a) /\ WellFormed(b) /\ a.t # "none" /\ b.t # "none"
    BY PartOfJson
  <1>2. \A s \in Steps(a) : n > 0 /\ JsonTo(Part(a, s), n - 1)
    BY PartOfJson
  <1>3. \A x, y : Matches(x, y, n) /\ x.t # "token" => n > 0 /\ SameTo(x, y, n - 1)
    BY TokensAre DEF Matches
  <1>4. \A k, y : Matches(Token("key", k), y, n) => y = Token("key", k)
    <2>1. ASSUME NEW k, n > 0, JsonTo(Token("key", k), n - 1) PROVE FALSE
      <3>1. n - 1 \in Nat
        BY <2>1
      <3>2. Token("key", k).t # "token"
        BY <2>1, <3>1, PartOfJson
      <3> QED BY <3>2, TokensAre
    <2> QED BY <2>1 DEF Matches
  <1>5. \A s \in Steps(a) : Part(a, s).t # "token"
    <2>1. ASSUME NEW s \in Steps(a) PROVE Part(a, s).t # "token"
      <3>1. n - 1 \in Nat /\ JsonTo(Part(a, s), n - 1)
        BY <1>2
      <3> QED BY <3>1, PartOfJson
    <2> QED BY <2>1
  <1>6. Steps(a) = Steps(b) /\ \A s \in Steps(a) : SameTo(Part(a, s), Part(b, s), n - 1)
    <2>1. CASE a.t = "arr"
      <3>1. /\ Steps(a) = 1..Len(Inner(a)) /\ \A i : Part(a, i) = Inner(a)[i]
            /\ Steps(b) = 1..Len(Inner(b)) /\ \A i : Part(b, i) = Inner(b)[i]
        BY <1>1, <2>1, ArrayIs
      <3> QED BY <1>3, <1>5, <3>1
    <2>2. CASE a.t = "obj"
      <3> DEFINE K == Ordered(a)
                 L == Ordered(b)
      <3>1. /\ Steps(a) = Keys(a) /\ Len(K) \in Nat
            /\ \A r \in 1..Len(K) : K[r] \in Keys(a)
            /\ \A k \in Keys(a) : \E r \in 1..Len(K) : K[r] = k
            /\ Len(Inner(a)) = 2 * Len(K)
            /\ \A r \in 1..Len(K) : /\ 2 * r - 1 \in 1..Len(Inner(a)) /\ 2 * r \in 1..Len(Inner(a))
                                    /\ Inner(a)[2 * r - 1] = Token("key", K[r])
                                    /\ Inner(a)[2 * r] = Part(a, K[r])
        BY <1>1, <2>2, ObjectIs
      <3>2. /\ Steps(b) = Keys(b) /\ Len(L) \in Nat
            /\ \A r \in 1..Len(L) : L[r] \in Keys(b)
            /\ \A k \in Keys(b) : \E r \in 1..Len(L) : L[r] = k
            /\ Len(Inner(b)) = 2 * Len(L)
            /\ \A r \in 1..Len(L) : /\ Inner(b)[2 * r - 1] = Token("key", L[r])
                                    /\ Inner(b)[2 * r] = Part(b, L[r])
        BY <1>1, <2>2, ObjectIs
      <3> HIDE DEF K, L
      <3>3. Len(K) = Len(L)
        <4>1. \A k, l \in Nat : 2 * k = 2 * l => k = l
          OBVIOUS
        <4>2. 2 * Len(K) = 2 * Len(L) /\ Len(K) \in Nat /\ Len(L) \in Nat
          BY <3>1, <3>2, Zenon
        <4> QED BY <4>1, <4>2, Zenon
      <3>4. ASSUME NEW r \in 1..Len(K) PROVE K[r] = L[r] /\ SameTo(Part(a, K[r]), Part(b, K[r]), n - 1)
        <4>1. Matches(Token("key", K[r]), Token("key", L[r]), n) /\ Matches(Part(a, K[r]), Part(b, L[r]), n)
          BY <3>1, <3>2, <3>3
        <4>2. K[r] = L[r]
          <5>1. Token("key", L[r]) = Token("key", K[r])
            BY <1>4, <4>1
          <5> QED BY <5>1, TokensAre
        <4> QED BY <1>3, <1>5, <3>1, <4>1, <4>2
      <3>5. \A k : k \in Keys(a) <=> k \in Keys(b)
        <4>1. 1..Len(K) = 1..Len(L)
          BY <3>3
        <4>2. \A r \in 1..Len(K) : K[r] \in Keys(a)
          BY <3>1
        <4>3. \A k \in Keys(a) : \E r \in 1..Len(K) : K[r] = k
          BY <3>1
        <4>4. \A r \in 1..Len(L) : L[r] \in Keys(b)
          BY <3>2
        <4>5. \A k \in Keys(b) : \E r \in 1..Len(L) : L[r] = k
          BY <3>2
        <4>6. \A r \in 1..Len(K) : K[r] = L[r]
          BY <3>4
        <4>7. ASSUME NEW k \in Keys(a) PROVE k \in Keys(b)
          <5>1. PICK r \in 1..Len(K) : K[r] = k
            BY <4>3
          <5>2. K[r] = L[r] /\ L[r] \in Keys(b)
            BY <4>1, <4>4, <4>6
          <5> QED BY <5>1, <5>2
        <4>8. ASSUME NEW k \in Keys(b) PROVE k \in Keys(a)
          <5>1. PICK r \in 1..Len(L) : L[r] = k
            BY <4>5
          <5>2. K[r] = L[r] /\ K[r] \in Keys(a)
            BY <4>1, <4>2, <4>6
          <5> QED BY <5>1, <5>2
        <4> QED BY <4>7, <4>8
      <3>6. Keys(a) = Keys(b)
        BY <3>5
      <3> QED BY <3>1, <3>2, <3>4, <3>6
    <2> QED BY <2>1, <2>2
  <1>7. Alike(a, b)
    BY <1>6 DEF Alike
  <1>8. CASE n = 0
    BY <1>7, <1>8, SameIs
  <1>9. CASE n # 0
    <2>1. n - 1 \in Nat /\ (n - 1) + 1 = n
      BY <1>9
    <2>2. SameTo(a, b, (n - 1) + 1)
      BY <1>6, <1>7, <2>1, SameIs
    <2> QED BY <2>1, <2>2
  <1> QED BY <1>8, <1>9

\* If values n - 1 levels deep can be read off a text, so can values n levels deep.
LEMMA ReadOne ==
  ASSUME NEW n \in Nat, n > 0 => Readable(n - 1)
  PROVE  Readable(n)
PROOF
  <1> SUFFICES ASSUME NEW a, NEW b, NEW r, NEW s, JsonTo(a, n), JsonTo(b, n), IsSeq(r), IsSeq(s),
                      Cat(TextTo(a, n), r) = Cat(TextTo(b, n), s)
               PROVE  r = s /\ SameTo(a, b, n)
    BY DEF Readable
  <1>1. WellFormed(a) /\ a.t # "none" /\ WellFormed(b) /\ b.t # "none"
    BY PartOfJson
  <1>2. PICK w : IsSeq(w) /\ TextTo(a, n) = After(Opening(a), w)
    BY TextBegins
  <1>3. PICK v : IsSeq(v) /\ TextTo(b, n) = After(Opening(b), v)
    BY TextBegins
  <1>4. Opening(a) = Opening(b) /\ Cat(w, r) = Cat(v, s)
    <2>1. Cat(After(Opening(a), w), r) = Cat(After(Opening(b), v), s)
      BY <1>2, <1>3
    <2> DEFINE g == Opening(a)
               h == Opening(b)
    <2>2. Cat(After(g, w), r) = Cat(After(h, v), s)
      BY <2>1
    <2> HIDE DEF g, h
    <2>3. g = h /\ Cat(w, r) = Cat(v, s)
      BY <1>2, <1>3, <2>2, FrontsAgree
    <2> QED BY <2>3 DEF g, h
  <1>5. /\ a.t = b.t
        /\ a.t = "num" => a.v.n = b.v.n
        /\ a.t = "str" => a.v = b.v
    BY <1>1, <1>4, OpeningTells
  <1>6. a.t \in {"num", "str", "arr", "obj"}
    BY <1>1, Shapes
  <1>7. \A x, y, h : IsSeq(x) /\ IsSeq(y) /\ After(h, x) = After(h, y) => x = y
    BY HeadsAgree
  <1>8. CASE a.t \in {"num", "str"}
    <2>1. TextTo(a, n) = After(Opening(a), <<>>) /\ TextTo(b, n) = After(Opening(b), <<>>)
      BY <1>5, <1>8, TextCat
    <2>2. w = <<>> /\ v = <<>>
      BY <1>2, <1>3, <1>7, <2>1, EmptyIs
    <2>3. r = s
      <3>1. Cat(<<>>, r) = r /\ Cat(<<>>, s) = s
        BY CatRules
      <3> QED BY <1>4, <2>2, <3>1, Zenon
    <2>4. Alike(a, b) /\ Steps(a) = {}
      BY <1>1, <1>5, <1>8, Shapes DEF Alike
    <2>5. CASE n = 0
      BY <2>3, <2>4, <2>5, SameIs
    <2>6. CASE n # 0
      <3>1. n - 1 \in Nat /\ (n - 1) + 1 = n
        BY <2>6
      <3>2. SameTo(a, b, (n - 1) + 1)
        BY <2>4, <3>1, SameIs
      <3> QED BY <2>3, <3>1, <3>2
    <2> QED BY <2>5, <2>6
  <1>9. CASE a.t \in {"arr", "obj"}
    <2> DEFINE c == Closing(a)
               u == Inner(a)
               z == Inner(b)
               A == Written(u, n)
               B == Written(z, n)
    <2>1. Closing(b) = c /\ IsEnd(c)
      BY <1>5, Zenon DEF Closing, IsEnd
    <2>2. /\ IsSeq(A) /\ TextTo(a, n) = After(Opening(a), Cat(A, After(c, <<>>)))
          /\ IsSeq(B) /\ TextTo(b, n) = After(Opening(b), Cat(B, After(c, <<>>)))
      BY <1>5, <1>9, <2>1, TextCat
    <2>3. Pieces(u, n) /\ Pieces(z, n)
      BY <1>5, <1>9, PiecesInside DEF Pieces
    <2> HIDE DEF c, u, z, A, B
    <2>4. IsSeq(After(c, <<>>)) /\ \A x : IsSeq(x) => Cat(After(c, <<>>), x) = After(c, x)
      <3>1. IsSeq(<<>>)
        BY EmptyIs
      <3> QED BY <3>1, AfterIs, CatRules
    <2>5. w = Cat(A, After(c, <<>>)) /\ v = Cat(B, After(c, <<>>))
      <3>1. IsSeq(Cat(A, After(c, <<>>))) /\ IsSeq(Cat(B, After(c, <<>>)))
        BY <2>2, <2>4, CatRules
      <3> QED BY <1>2, <1>3, <1>7, <2>2, <3>1
    <2>6. Cat(w, r) = Cat(A, After(c, r)) /\ Cat(v, s) = Cat(B, After(c, s))
      BY <2>2, <2>4, <2>5, CatRules
    <2>7. PICK l \in Nat : l = Len(u)
      BY <2>3, SeqIs DEF Pieces
    <2>8. ListsRead(n, c, l)
      BY <2>1, ListsAreRead
    <2>9. Len(z) = l /\ r = s /\ \A i \in 1..l : Matches(u[i], z[i], n)
      <3>1. Cat(Written(u, n), After(c, r)) = Cat(Written(z, n), After(c, s))
        BY <1>4, <2>6 DEF A, B
      <3> QED BY <2>3, <2>7, <2>8, <3>1 DEF ListsRead
    <2>10. SameTo(a, b, n)
      BY <1>5, <1>9, <2>7, <2>9, InnerTells DEF u, z
    <2> QED BY <2>9, <2>10
  <1> QED BY <1>6, <1>8, <1>9

\* No text is the text of two values that are not the same, or a beginning of it.
LEMMA ReadableAll ==
  ASSUME NEW n \in Nat
  PROVE  Readable(n)
PROOF
  <1> DEFINE T == {k \in Nat : Readable(k)}
  <1>1. 0 \in T
    BY ReadOne
  <1>2. ASSUME NEW k \in T PROVE k + 1 \in T
    <2>1. k \in Nat /\ k + 1 \in Nat /\ Readable(k) /\ (k + 1) - 1 = k
      OBVIOUS
    <2>2. Readable(k + 1)
      BY <2>1, ReadOne
    <2> QED BY <2>1, <2>2
  <1>3. T = Nat
    <2>1. T \in SUBSET Nat
      OBVIOUS
    <2> HIDE DEF T
    <2> QED BY <1>1, <1>2, <2>1, Induction
  <1> QED BY <1>3

-------------------------------------------------------------------------------
\* Canonical texts.

\* A JSON value that has a text.
Value(x) == IsJson(x) /\ Canonicalizable(x)

\* A value with a text is one that is nested no deeper than the bound; its text is its
\* text to that bound.
LEMMA ValuesAre ==
  ASSUME NEW x
  PROVE  /\ MaxNesting \in Nat /\ MaxNesting >= 2
         /\ Value(x) <=> JsonTo(x, MaxNesting)
         /\ Canonicalize(x) = TextTo(x, MaxNesting)
         /\ \A y : SameJson(x, y) <=> SameTo(x, y, MaxNesting)
PROOF
  <1>1. MaxNesting \in Nat /\ MaxNesting >= 2
    BY AuditAssumption
  <1>2. Value(x) <=> JsonTo(x, MaxNesting)
    BY DEF Value, IsJson, Canonicalizable, JsonTo
  <1>3. Canonicalize(x) = TextTo(x, MaxNesting)
    BY DEF Canonicalize, TextTo
  <1>4. \A y : SameJson(x, y) <=> SameTo(x, y, MaxNesting)
    BY DEF SameJson, SameTo
  <1> QED BY <1>1, <1>2, <1>3, <1>4

\* canonical.ts: two values have one text exactly when they say the same, whatever the
\* order of their members and however deep they are nested.
THEOREM OneTextForOneValue ==
  ASSUME NEW x, NEW y, IsJson(x), Canonicalizable(x), IsJson(y), Canonicalizable(y)
  PROVE  Canonicalize(x) = Canonicalize(y) <=> SameJson(x, y)
PROOF
  <1> DEFINE n == MaxNesting
  <1>1. /\ n \in Nat /\ JsonTo(x, n) /\ JsonTo(y, n)
        /\ Canonicalize(x) = TextTo(x, n) /\ Canonicalize(y) = TextTo(y, n)
        /\ SameJson(x, y) <=> SameTo(x, y, n)
    BY ValuesAre DEF Value
  <1> HIDE DEF n
  <1>2. SameTo(x, y, n) => TextTo(x, n) = TextTo(y, n)
    BY <1>1, SameWritten
  <1>3. ASSUME TextTo(x, n) = TextTo(y, n) PROVE SameTo(x, y, n)
    <2>1. Readable(n) /\ IsSeq(<<>>)
      BY <1>1, ReadableAll, EmptyIs
    <2>2. Cat(TextTo(x, n), <<>>) = Cat(TextTo(y, n), <<>>)
      BY <1>3
    <2> QED BY <1>1, <2>1, <2>2 DEF Readable
  <1> QED BY <1>1, <1>2, <1>3

\* Canonicalize returns no empty text.
LEMMA TextNotEmpty ==
  ASSUME NEW x, Value(x)
  PROVE  Canonicalize(x) # <<>>
PROOF
  <1>1. JsonTo(x, MaxNesting) /\ MaxNesting \in Nat /\ Canonicalize(x) = TextTo(x, MaxNesting)
    BY ValuesAre
  <1>2. PICK w : IsSeq(w) /\ TextTo(x, MaxNesting) = After(Opening(x), w)
    BY <1>1, TextBegins
  <1>3. Len(After(Opening(x), w)) = Len(w) + 1 /\ Len(w) \in Nat
    BY <1>2, FrontIs, SeqIs DEF After
  <1>4. Len(<<>>) = 0
    OBVIOUS
  <1> QED BY <1>1, <1>2, <1>3, <1>4

\* A value like another, with parts of its own: what jsonb makes of one level.
LEMMA RearrangedIs ==
  ASSUME NEW x, WellFormed(x), x.t # "none", NEW p
  PROVE  /\ Rearranged(x, p).t = x.t /\ WellFormed(Rearranged(x, p)) /\ Alike(Rearranged(x, p), x)
         /\ \A s \in Steps(x) : Part(Rearranged(x, p), s) = p[s]
PROOF
  <1> DEFINE y == Rearranged(x, p)
  <1>1. CASE x.t = "num"
    <2>1. y = Num(x.v.n)
      BY <1>1 DEF Rearranged
    <2> HIDE DEF y
    <2>2. y.t = "num" /\ y.v = [neg |-> FALSE, n |-> x.v.n]
      BY <2>1 DEF Num
    <2>3. x.v.n \in Int
      BY <1>1 DEF WellFormed
    <2>4. y.v \in [neg : BOOLEAN, n : Int] /\ ~y.v.neg /\ y.v.n = x.v.n
      BY <2>2, <2>3
    <2>5. Steps(x) = {} /\ Steps(y) = {}
      BY <1>1, <2>2 DEF Steps
    <2>6. WellFormed(y)
      BY <2>2, <2>4 DEF WellFormed
    <2>7. Alike(y, x)
      BY <1>1, <2>2, <2>4, <2>5 DEF Alike
    <2> QED BY <1>1, <2>2, <2>5, <2>6, <2>7 DEF y
  <1>2. CASE x.t = "str"
    <2>1. y = x /\ Steps(x) = {}
      BY <1>2 DEF Rearranged, Steps
    <2> QED BY <2>1 DEF Alike
  <1>3. CASE x.t = "arr"
    <2> DEFINE s == [i \in DOMAIN x.v |-> p[i]]
    <2>1. IsSeq(x.v)
      BY <1>3 DEF WellFormed, IsSeq
    <2>2. Len(x.v) \in Nat /\ DOMAIN x.v = 1..Len(x.v)
      BY <2>1, SeqIs
    <2>3. y = Arr(s)
      BY <1>3 DEF Rearranged
    <2>4. y.t = "arr" /\ y.v = s
      BY <2>3 DEF Arr
    <2> HIDE DEF y
    <2>5. s = [i \in 1..Len(x.v) |-> s[i]] /\ DOMAIN s = DOMAIN x.v /\ \A i \in DOMAIN x.v : s[i] = p[i]
      BY <2>2
    <2> HIDE DEF s
    <2>6. IsSeq(s)
      BY <2>2, <2>5, IsSeqIf
    <2>7. WellFormed(y)
      BY <2>4, <2>6 DEF WellFormed, IsSeq
    <2>8. Steps(x) = DOMAIN x.v /\ Steps(y) = DOMAIN x.v
      BY <1>3, <2>4, <2>5 DEF Steps
    <2>9. \A i \in Steps(x) : Part(y, i) = p[i]
      BY <2>4, <2>5, <2>8 DEF Part
    <2>10. Alike(y, x)
      BY <1>3, <2>4, <2>8 DEF Alike
    <2> QED BY <1>3, <2>4, <2>7, <2>9, <2>10 DEF y
  <1>4. CASE x.t = "obj"
    <2> DEFINE K == InOrder(Keys(x), JsonbOrder(Keys(x)))
               s == [i \in DOMAIN K |-> Member(K[i], p[K[i]])]
    <2>1. /\ IsSeq(K) /\ Len(K) \in Nat
          /\ \A r \in 1..Len(K) : K[r] \in Keys(x)
          /\ \A k \in Keys(x) : \E r \in 1..Len(K) : K[r] = k
          /\ \A q, r \in 1..Len(K) : K[q] = K[r] => q = r
      BY <1>4, KeysInOrder
    <2>2. DOMAIN K = 1..Len(K)
      <3> HIDE DEF K
      <3> QED BY <2>1, SeqIs
    <2>3. y = Obj(s)
      BY <1>4 DEF Rearranged
    <2>4. y.t = "obj" /\ y.v = s
      BY <2>3 DEF Obj
    <2> HIDE DEF y, K
    <2>5. s = [i \in 1..Len(K) |-> s[i]]
      BY <2>2
    <2>6. IsSeq(s) /\ Len(s) = Len(K)
      <3> HIDE DEF s
      <3> QED BY <2>1, <2>5, IsSeqIf
    <2>7. DOMAIN s = 1..Len(K) /\ \A i \in 1..Len(K) : s[i].k = K[i] /\ s[i].x = p[K[i]]
      BY <2>2 DEF Member
    <2> HIDE DEF s
    <2>8. Keys(x) \in SUBSET Seq(Nat)
      BY <1>4, KeysAre
    <2>9. WellFormed(y)
      <3>1. y.v \in Seq({y.v[i] : i \in DOMAIN y.v})
        BY <2>4, <2>6 DEF IsSeq
      <3>2. \A i, j \in DOMAIN y.v : y.v[i].k = y.v[j].k => i = j
        BY <2>1, <2>4, <2>7
      <3>3. \A i \in DOMAIN y.v : y.v[i].k \in Seq(Nat)
        BY <2>1, <2>4, <2>7, <2>8
      <3> QED BY <2>4, <3>1, <3>2, <3>3 DEF WellFormed
    <2>10. Keys(y) = Keys(x)
      <3>1. \A k : k \in Keys(y) <=> \E i \in DOMAIN s : k = s[i].k
        BY <2>4 DEF Keys
      <3>2. \A k : k \in Keys(y) <=> \E i \in 1..Len(K) : k = K[i]
        BY <2>7, <3>1
      <3>3. \A k : k \in Keys(y) <=> k \in Keys(x)
        BY <2>1, <3>2
      <3> QED BY <3>3
    <2>11. Steps(y) = Keys(x) /\ Steps(x) = Keys(x)
      BY <1>4, <2>4, <2>10 DEF Steps
    <2>12. ASSUME NEW k \in Keys(x) PROVE Part(y, k) = p[k]
      <3> DEFINE i == CHOOSE i \in DOMAIN s : s[i].k = k
      <3>1. Part(y, k) = s[i].x
        BY <2>4 DEF Part
      <3>2. \E j \in DOMAIN s : s[j].k = k
        BY <2>1, <2>7
      <3>3. i \in DOMAIN s /\ s[i].k = k
        BY <3>2
      <3> HIDE DEF i
      <3> QED BY <2>7, <3>1, <3>3
    <2>13. Alike(y, x)
      BY <1>4, <2>4, <2>11 DEF Alike
    <2> QED BY <1>4, <2>4, <2>9, <2>11, <2>12, <2>13 DEF y
  <1>5. x.t \in {"num", "str", "arr", "obj"}
    BY Shapes
  <1> QED BY <1>1, <1>2, <1>3, <1>4, <1>5

\* What jsonb makes of a value and of all there is in it, from the innermost out.
LEMMA StoredLevels ==
  ASSUME NEW x
  PROVE  \E f : /\ Jsonb(x) = f[MaxNesting][x]
                /\ f[0] = Stored(x, 0, <<>>)
                /\ \A n \in Nat : f[n + 1] = Stored(x, n + 1, f[n])
PROOF
  <1> DEFINE a == Stored(x, 0, <<>>)
             f == Values("stored", x, a)
  <1>1. Jsonb(x) = f[MaxNesting][x]
    BY DEF Jsonb, Step, Values, IsRecursion
  <1> HIDE DEF a
  <1>2. f[0] = a /\ \A n \in Nat : f[n + 1] = Stored(x, n + 1, f[n])
    BY Recursion DEF Step
  <1> HIDE DEF f
  <1> QED BY <1>1, <1>2 DEF a

\* What is stored for each value inside is a value that says the same.
LEMMA StoredTo ==
  ASSUME NEW x, JsonTo(x, MaxNesting),
         NEW f, f[0] = Stored(x, 0, <<>>), \A n \in Nat : f[n + 1] = Stored(x, n + 1, f[n])
  PROVE  \A n \in 0..MaxNesting : \A y \in Inside(x, MaxNesting - n) :
           JsonTo(y, n) /\ JsonTo(f[n][y], n) /\ SameTo(f[n][y], y, n)
PROOF
  <1> DEFINE N == MaxNesting
             Holds(n) == \A y \in Inside(x, N - n) :
                           JsonTo(y, n) /\ JsonTo(f[n][y], n) /\ SameTo(f[n][y], y, n)
             S == {n \in Nat : n <= N => Holds(n)}
  <1>1. N \in Nat
    BY ValuesAre
  <1>2. /\ \A k \in 0..N : \A y \in Inside(x, k) : WellFormed(y) /\ y.t # "none"
        /\ \A y \in Inside(x, N) : Steps(y) = {}
    BY DEF JsonTo
  <1>3. \A n, y, g : y \in Inside(x, N - n) =>
          Stored(x, n, g)[y] = Rearranged(y, [s \in Steps(y) |-> g[Part(y, s)]])
    BY DEF Stored
  <1> HIDE DEF N
  <1>4. 0 \in S
    <2>1. ASSUME NEW y \in Inside(x, N - 0)
          PROVE  JsonTo(y, 0) /\ JsonTo(f[0][y], 0) /\ SameTo(f[0][y], y, 0)
      <3> DEFINE p == [s \in Steps(y) |-> <<>>[Part(y, s)]]
      <3>1. N - 0 = N
        BY <1>1
      <3>2. y \in Inside(x, N) /\ N \in 0..N
        BY <1>1, <2>1, <3>1
      <3>3. WellFormed(y) /\ y.t # "none" /\ Steps(y) = {}
        BY <1>2, <3>2
      <3>4. f[0][y] = Rearranged(y, p)
        <4>1. Stored(x, 0, <<>>)[y] = Rearranged(y, p)
          BY <1>3, <2>1, Zenon
        <4> HIDE DEF p
        <4> QED BY <4>1
      <3> HIDE DEF p
      <3>5. WellFormed(f[0][y]) /\ f[0][y].t = y.t /\ Alike(f[0][y], y)
        BY <3>3, <3>4, RearrangedIs
      <3>6. Steps(f[0][y]) = {}
        BY <3>3, <3>5 DEF Alike
      <3> QED BY <3>3, <3>5, <3>6, JsonIs, SameIs
    <2> QED BY <2>1
  <1>5. ASSUME NEW n \in S PROVE n + 1 \in S
    <2>1. n \in Nat /\ n + 1 \in Nat
      OBVIOUS
    <2>2. ASSUME n + 1 <= N, NEW y \in Inside(x, N - (n + 1))
          PROVE  JsonTo(y, n + 1) /\ JsonTo(f[n + 1][y], n + 1) /\ SameTo(f[n + 1][y], y, n + 1)
      <3> DEFINE m == N - (n + 1)
                 p == [s \in Steps(y) |-> f[n][Part(y, s)]]
                 z == f[n + 1][y]
      <3>1. m \in Nat /\ m \in 0..N /\ m + 1 = N - n /\ n <= N
        BY <1>1, <2>1, <2>2
      <3>2. Holds(n)
        BY <1>5, <3>1
      <3>3. WellFormed(y) /\ y.t # "none"
        BY <1>2, <2>2, <3>1
      <3>4. z = Rearranged(y, p)
        <4>1. Stored(x, n + 1, f[n])[y] = Rearranged(y, p)
          BY <1>3, <2>2, ZenonT(30)
        <4> HIDE DEF p
        <4> QED BY <2>1, <4>1
      <3>5. \A s \in Steps(y) : p[s] = f[n][Part(y, s)]
        OBVIOUS
      <3> HIDE DEF p, z
      <3>6. /\ z.t = y.t /\ WellFormed(z) /\ Alike(z, y)
            /\ \A s \in Steps(y) : Part(z, s) = p[s]
        BY <3>3, <3>4, RearrangedIs
      <3>7. Steps(z) = Steps(y)
        BY <3>6 DEF Alike
      <3>8. \A s \in Steps(y) : Part(y, s) \in Inside(x, N - n)
        <4>1. y \in Inside(x, m)
          BY <2>2
        <4> HIDE DEF m
        <4>2. Inside(x, m + 1) = Contents(Inside(x, m))
          BY <3>1, Insides
        <4>3. \A s \in Steps(y) : Part(y, s) \in Inside(x, m + 1)
          BY <4>1, <4>2, ContentsAre
        <4> QED BY <3>1, <4>3
      <3>9. \A s \in Steps(y) : /\ JsonTo(Part(y, s), n) /\ JsonTo(f[n][Part(y, s)], n)
                                /\ SameTo(f[n][Part(y, s)], Part(y, s), n)
        BY <3>2, <3>8
      <3>10. JsonTo(y, n + 1)
        BY <2>1, <3>3, <3>9, JsonIs
      <3>11. JsonTo(z, n + 1)
        <4>1. \A s \in Steps(z) : JsonTo(Part(z, s), n)
          BY <3>5, <3>6, <3>7, <3>9, Zenon
        <4>2. WellFormed(z) /\ z.t # "none"
          BY <3>3, <3>6
        <4> QED BY <2>1, <4>1, <4>2, JsonIs
      <3>12. SameTo(z, y, n + 1)
        <4>1. \A s \in Steps(z) : SameTo(Part(z, s), Part(y, s), n)
          BY <3>5, <3>6, <3>7, <3>9, Zenon
        <4> QED BY <2>1, <3>6, <4>1, SameIs
      <3> QED BY <3>10, <3>11, <3>12 DEF z
    <2> QED BY <2>1, <2>2
  <1>6. S = Nat
    <2> HIDE DEF S
    <2>1. S \in SUBSET Nat
      BY DEF S
    <2> QED BY <1>4, <1>5, <2>1, Induction
  <1>7. \A n \in 0..N : n \in Nat /\ n <= N
    BY <1>1
  <1>8. \A n \in 0..N : Holds(n)
    <2> HIDE DEF Holds
    <2> QED BY <1>6, <1>7
  <1> QED BY <1>8 DEF N

\* The database stores a value that says the same and has the same text: its own order
\* of members, however deep, and its zeros make no difference to the verification.
THEOREM StoredValueHasItsText ==
  ASSUME NEW x, IsJson(x), Canonicalizable(x)
  PROVE  /\ IsJson(Jsonb(x)) /\ Canonicalizable(Jsonb(x))
         /\ SameJson(Jsonb(x), x) /\ Canonicalize(Jsonb(x)) = Canonicalize(x)
PROOF
  <1> DEFINE y == Jsonb(x)
             n == MaxNesting
  <1>1. n \in Nat /\ JsonTo(x, n)
    BY ValuesAre DEF Value
  <1>2. PICK f : /\ y = f[n][x] /\ f[0] = Stored(x, 0, <<>>)
                 /\ \A k \in Nat : f[k + 1] = Stored(x, k + 1, f[k])
    BY StoredLevels
  <1>3. x \in Inside(x, n - n) /\ n \in 0..n
    BY <1>1, Insides
  <1>4. JsonTo(f[n][x], n) /\ SameTo(f[n][x], x, n)
    BY <1>1, <1>2, <1>3, StoredTo
  <1> HIDE DEF y, n
  <1>5. JsonTo(y, n) /\ SameTo(y, x, n)
    BY <1>2, <1>4
  <1>6. IsJson(y) /\ Canonicalizable(y) /\ SameJson(y, x)
    BY <1>5, ValuesAre DEF Value, n
  <1>7. Canonicalize(y) = Canonicalize(x)
    BY <1>6, OneTextForOneValue
  <1> QED BY <1>6, <1>7 DEF y

\* A value that has no parts is a value whatever the nesting.
Partless(x) == WellFormed(x) /\ x.t # "none" /\ Steps(x) = {}

\* Such a value is one to any depth.
LEMMA LeafTo ==
  ASSUME NEW x, Partless(x), NEW n \in Nat
  PROVE  JsonTo(x, n)
PROOF
  <1>1. CASE n = 0
    BY <1>1, JsonIs DEF Partless
  <1>2. CASE n > 0
    <2> DEFINE m == n - 1
    <2>1. m \in Nat /\ n = m + 1
      BY <1>2
    <2> HIDE DEF m
    <2>2. JsonTo(x, m + 1)
      BY <2>1, JsonIs DEF Partless
    <2> QED BY <2>1, <2>2
  <1> QED BY <1>1, <1>2

\* Strings and numbers have no parts.
LEMMA LeavesAre ==
  /\ \A s : Partless(Str(s))
  /\ \A i \in Int : Partless(Num(i))
PROOF
  <1>1. ASSUME NEW s PROVE Partless(Str(s))
    <2>1. Str(s).t = "str"
      BY DEF Str
    <2>2. Steps(Str(s)) = {}
      BY <2>1 DEF Steps
    <2>3. WellFormed(Str(s))
      BY <2>1 DEF WellFormed
    <2> QED BY <2>1, <2>2, <2>3 DEF Partless
  <1>2. ASSUME NEW i \in Int PROVE Partless(Num(i))
    <2>1. Num(i).t = "num" /\ Num(i).v = [neg |-> FALSE, n |-> i]
      BY DEF Num
    <2>2. Steps(Num(i)) = {}
      BY <2>1 DEF Steps
    <2>3. Num(i).v \in [neg : BOOLEAN, n : Int] /\ ~Num(i).v.neg
      BY <2>1
    <2>4. WellFormed(Num(i))
      BY <2>1, <2>3 DEF WellFormed
    <2> QED BY <2>1, <2>2, <2>4 DEF Partless
  <1> QED BY <1>1, <1>2

\* An array of such values.
LEMMA ArrayOfLeaves ==
  ASSUME NEW s, IsSeq(s), \A i \in 1..Len(s) : Partless(s[i]), NEW n \in Nat
  PROVE  JsonTo(Arr(s), n + 1)
PROOF
  <1> DEFINE x == Arr(s)
  <1>1. x.t = "arr" /\ x.v = s
    BY DEF Arr
  <1> HIDE DEF x
  <1>2. WellFormed(x)
    BY <1>1 DEF WellFormed, IsSeq
  <1>3. Steps(x) = DOMAIN s
    BY <1>1 DEF Steps
  <1>4. ASSUME NEW i \in Steps(x) PROVE JsonTo(Part(x, i), n)
    <2>1. Part(x, i) = s[i]
      BY <1>1 DEF Part
    <2>2. i \in 1..Len(s)
      BY <1>3, <1>4, SeqIs
    <2> QED BY <2>1, <2>2, LeafTo
  <1> QED BY <1>1, <1>2, <1>4, JsonIs DEF x

\* What seals the first m rows of a chain t: a value that can be appended.
AnchorOver(t, m) ==
  [ids |-> [i \in 1..m |-> i], hashes |-> [i \in 1..m |-> t[i].hash],
   root |-> HashesRoot([i \in 1..m |-> t[i].hash])]

\* The payload of the sealing entry can be canonicalized.
LEMMA AnchorIsValue ==
  ASSUME NEW t, NEW m \in Nat
  PROVE  Value(AnchorJson(AnchorOver(t, m)))
PROOF
  <1> DEFINE ids    == [i \in 1..m |-> Num(i)]
             hashes == [i \in 1..m |-> Str(t[i].hash)]
             r      == HashesRoot([i \in 1..m |-> t[i].hash])
             v      == <<Member(<<1>>, Arr(ids)), Member(<<2>>, Arr(hashes)), Member(<<3>>, Str(r))>>
             x      == Obj(v)
             n      == MaxNesting - 2
  <1>1. n \in Nat /\ n + 1 \in Nat /\ MaxNesting = (n + 1) + 1
    BY ValuesAre
  <1>2. AnchorJson(AnchorOver(t, m)) = x
    BY DEF AnchorJson, AnchorOver
  <1>3. IsSeq(ids) /\ Len(ids) = m /\ IsSeq(hashes) /\ Len(hashes) = m
    <2>1. ids = [i \in 1..m |-> ids[i]] /\ hashes = [i \in 1..m |-> hashes[i]]
      OBVIOUS
    <2> HIDE DEF ids, hashes
    <2> QED BY <2>1, IsSeqIf
  <1>4. \A i \in 1..m : Partless(ids[i]) /\ Partless(hashes[i])
    BY LeavesAre
  <1> HIDE DEF n
  <1>5. JsonTo(Arr(ids), n + 1) /\ JsonTo(Arr(hashes), n + 1) /\ JsonTo(Str(r), n + 1)
    <2>1. Partless(Str(r))
      BY LeavesAre
    <2> HIDE DEF ids, hashes, r
    <2> QED BY <1>1, <1>3, <1>4, <2>1, ArrayOfLeaves, LeafTo
  <1> HIDE DEF ids, hashes, r
  <1>6. IsSeq(v) /\ Len(v) = 3 /\ DOMAIN v = 1..3
    BY DEF IsSeq
  <1>7. /\ v[1].k = <<1>> /\ v[1].x = Arr(ids)
        /\ v[2].k = <<2>> /\ v[2].x = Arr(hashes)
        /\ v[3].k = <<3>> /\ v[3].x = Str(r)
    BY DEF Member
  <1>8. x.t = "obj" /\ x.v = v
    BY DEF Obj
  <1> HIDE DEF v, x
  <1>9. WellFormed(x)
    <2>1. x.v \in Seq({x.v[i] : i \in DOMAIN x.v})
      BY <1>6, <1>8 DEF IsSeq
    <2>2. <<1>> # <<2>> /\ <<2>> # <<3>> /\ <<1>> # <<3>>
      OBVIOUS
    <2>3. \A i, j \in 1..3 : v[i].k = v[j].k => i = j
      BY <1>7, <2>2
    <2>4. \A i, j \in DOMAIN x.v : x.v[i].k = x.v[j].k => i = j
      BY <1>6, <1>8, <2>3
    <2>5. <<1>> \in Seq(Nat) /\ <<2>> \in Seq(Nat) /\ <<3>> \in Seq(Nat)
      OBVIOUS
    <2>6. \A i \in 1..3 : v[i].k \in Seq(Nat)
      <3>1. \A i \in 1..3 : v[i].k \in {<<1>>, <<2>>, <<3>>}
        BY <1>7
      <3>2. \A k \in {<<1>>, <<2>>, <<3>>} : k \in Seq(Nat)
        BY <2>5
      <3> QED BY <3>1, <3>2
    <2>7. \A i \in DOMAIN x.v : x.v[i].k \in Seq(Nat)
      BY <1>6, <1>8, <2>6
    <2> QED BY <1>8, <2>1, <2>4, <2>7 DEF WellFormed
  <1>10. ASSUME NEW k \in Steps(x) PROVE JsonTo(Part(x, k), n + 1)
    <2> DEFINE i == CHOOSE i \in DOMAIN v : v[i].k = k
    <2>1. Part(x, k) = v[i].x
      BY <1>8 DEF Part
    <2>2. \E j \in DOMAIN v : v[j].k = k
      <3>1. k \in Keys(x)
        BY <1>8, <1>10 DEF Steps
      <3> QED BY <1>8, <3>1 DEF Keys
    <2>3. i \in DOMAIN v
      BY <2>2
    <2> HIDE DEF i
    <2>4. v[i].x \in {Arr(ids), Arr(hashes), Str(r)}
      BY <1>6, <1>7, <2>3
    <2> QED BY <1>5, <2>1, <2>4
  <1>11. JsonTo(x, (n + 1) + 1)
    BY <1>1, <1>8, <1>9, <1>10, JsonIs
  <1> QED BY <1>1, <1>2, <1>11, ValuesAre

\* A text with its members turned round is a text.
LEMMA ReorderedNotEmpty ==
  ASSUME NEW x, Value(x), x.t = "obj"
  PROVE  Reordered(x) # <<>>
PROOF
  <1> DEFINE n == MaxNesting - 1
             K == InOrder(Keys(x), CodeUnitOrder(Keys(x)))
             R == Reverse(K)
             w == Written(Entries(x, R), MaxNesting)
  <1>1. MaxNesting \in Nat /\ n \in Nat /\ MaxNesting = n + 1 /\ JsonTo(x, MaxNesting)
    BY ValuesAre
  <1>2. WellFormed(x) /\ \A s \in Steps(x) : JsonTo(Part(x, s), n)
    <2>1. JsonTo(x, n + 1)
      BY <1>1
    <2> HIDE DEF n
    <2> QED BY <1>1, <2>1, JsonIs
  <1>3. IsSeq(K) /\ Len(K) \in Nat /\ \A r \in 1..Len(K) : K[r] \in Keys(x)
    BY <1>2, KeysInOrder
  <1>4. IsSeq(R) /\ Len(R) = Len(K) /\ \A r \in 1..Len(R) : R[r] \in Keys(x)
    <2> HIDE DEF K
    <2>1. R = [i \in 1..Len(K) |-> K[(Len(K) - i) + 1]]
      BY DEF Reverse
    <2>2. R = [i \in 1..Len(K) |-> R[i]]
      BY <2>1
    <2>3. IsSeq(R) /\ Len(R) = Len(K)
      <3> HIDE DEF R
      <3> QED BY <1>3, <2>2, IsSeqIf
    <2>4. ASSUME NEW r \in 1..Len(K) PROVE R[r] \in Keys(x)
      <3>1. R[r] = K[(Len(K) - r) + 1]
        BY <2>1
      <3>2. (Len(K) - r) + 1 \in 1..Len(K)
        BY <1>3
      <3> QED BY <1>3, <3>1, <3>2
    <2> QED BY <2>3, <2>4
  <1> HIDE DEF R, n
  <1>5. Items(Entries(x, R), MaxNesting)
    <2> DEFINE E == Entries(x, R)
    <2>1. /\ IsSeq(E) /\ Len(E) = 2 * Len(R)
          /\ \A r \in 1..Len(R) : E[2 * r - 1] = Token("key", R[r]) /\ E[2 * r] = Part(x, R[r])
          /\ \A i \in 1..(2 * Len(R)) : \E r \in 1..Len(R) : i = 2 * r - 1 \/ i = 2 * r
      <3>1. /\ IsSeq(E) /\ Len(E) = 2 * Len(R)
            /\ \A r \in 1..Len(R) : /\ 2 * r - 1 \in 1..(2 * Len(R)) /\ 2 * r \in 1..(2 * Len(R))
                                    /\ E[2 * r - 1] = Token("key", R[r]) /\ E[2 * r] = Part(x, R[r])
            /\ \A i \in 1..(2 * Len(R)) : \E r \in 1..Len(R) : i = 2 * r - 1 \/ i = 2 * r
        BY <1>4, EntriesAre
      <3> HIDE DEF E
      <3> QED BY <3>1
    <2> HIDE DEF E
    <2>2. \A k : Token("key", k).t = "token"
      BY DEF Token
    <2>3. \A r \in 1..Len(R) : R[r] \in Steps(x)
      BY <1>4 DEF Steps
    <2>4. MaxNesting > 0 /\ n = MaxNesting - 1
      BY <1>1
    <2>5. ASSUME NEW r \in 1..Len(R) PROVE Item(E[2 * r - 1], MaxNesting) /\ Item(E[2 * r], MaxNesting)
      <3>1. Item(E[2 * r - 1], MaxNesting)
        BY <2>1, <2>2 DEF Item
      <3>2. JsonTo(E[2 * r], MaxNesting - 1)
        BY <1>2, <2>1, <2>3, <2>4
      <3> QED BY <2>4, <3>1, <3>2 DEF Item
    <2>6. ASSUME NEW i \in 1..Len(E) PROVE Item(E[i], MaxNesting)
      <3>1. PICK r \in 1..Len(R) : i = 2 * r - 1 \/ i = 2 * r
        BY <2>1
      <3> QED BY <2>5, <3>1
    <2>7. Items(E, MaxNesting)
      BY <2>1, <2>6 DEF Items
    <2> QED BY <2>7 DEF E
  <1>6. IsSeq(w)
    BY <1>1, <1>5, WrittenCat
  <1>7. Reordered(x) = (<<Mark("{")>> \o w) \o <<Mark("}")>>
    BY DEF Reordered, R
  <1> HIDE DEF w
  <1> DEFINE a == Mark("{")
             z == Mark("}")
             h == <<a>> \o w
  <1> HIDE DEF a, z
  <1>8. IsSeq(h) /\ Len(h) \in Nat
    BY <1>6, FrontIs, SeqIs
  <1> HIDE DEF h
  <1>9. Len(h \o <<z>>) = Len(h) + 1
    BY <1>8, CatIs, OneIs
  <1>10. h \o <<z>> # <<>>
    <2>1. Len(h) + 1 # 0
      BY <1>8
    <2> QED BY <1>9, <2>1, EmptyIs
  <1> QED BY <1>7, <1>10 DEF h, a, z

IsRow(r) ==
  r = [id |-> r.id, version |-> r.version, payload |-> r.payload, text |-> r.text,
       prev |-> r.prev, hash |-> r.hash]

\* A row as the ledger writes it: before V009 without a text, since then with the text
\* of its payload and a hash over it.
Wrote(r, i, prev) ==
  /\ IsRow(r) /\ r.id = i /\ r.prev = prev /\ Value(r.payload)
  /\ \/ r.version = 1 /\ r.text = Absent
     \/ /\ r.version = 2 /\ r.text # Absent
        /\ r.text = Canonicalize(r.payload) /\ r.hash = ChainHash(r.text, prev)

LinkedTo(t, i) == IF i = 1 THEN Genesis ELSE t[i - 1].hash

\* What the ledger wrote, the first m rows of it before V009.
Chain(t) == IsSeq(t) /\ \A i \in 1..Len(t) : Wrote(t[i], i, LinkedTo(t, i))
OldRows(t, m) == m \in 0..Len(t) /\ \A k \in 1..Len(t) : t[k].version = 1 <=> k <= m

\* A row that says which row of t it is, and of which kind.
Kept(r, t) ==
  /\ IsRow(r) /\ Value(r.payload)
  /\ r.id \in 1..Len(t) /\ r.version = t[r.id].version
  /\ r.version \in {1, 2} /\ (r.version = 1 <=> r.text = Absent)

\* Rows as they were written say which rows they are.
LEMMA WroteIsKept ==
  ASSUME NEW t, Chain(t)
  PROVE  \A i \in 1..Len(t) : Kept(t[i], t)
PROOF BY DEF Chain, Wrote, Kept

\* What NewRow and OldRow write.
LEMMA RowsWritten ==
  ASSUME Chain(rows), NEW x, Value(x)
  PROVE  LET i == Len(rows) + 1
             prev == IF Len(rows) = 0 THEN Genesis ELSE rows[Len(rows)].hash
         IN  /\ Wrote(NewRow(x), i, prev) /\ NewRow(x).version = 2
             /\ Wrote(OldRow(x), i, prev) /\ OldRow(x).version = 1
PROOF
  <1> DEFINE i == Len(rows) + 1
             prev == IF Len(rows) = 0 THEN Genesis ELSE rows[Len(rows)].hash
  <1>1. TailHash(rows) = prev
    <2>1. IsSeq(rows)
      BY DEF Chain
    <2>2. rows = <<>> <=> Len(rows) = 0
      BY <2>1, EmptyIs, SameSeq, SeqIs
    <2> QED BY <2>2 DEF TailHash, Last
  <1> HIDE DEF prev
  <1>2. /\ Value(Jsonb(x)) /\ Canonicalize(Jsonb(x)) = Canonicalize(x)
        /\ Canonicalize(x) # Absent
    BY StoredValueHasItsText, TextNotEmpty DEF Value, Absent
  <1>3. Wrote(NewRow(x), i, prev) /\ NewRow(x).version = 2
    BY <1>1, <1>2 DEF Wrote, IsRow, NewRow, CurrentVersion
  <1>4. Wrote(OldRow(x), i, prev) /\ OldRow(x).version = 1
    BY <1>1, <1>2 DEF Wrote, IsRow, OldRow
  <1> QED BY <1>3, <1>4 DEF prev

\* A chain with one more row as the ledger writes it is a chain.
LEMMA ChainGrows ==
  ASSUME NEW t, Chain(t), NEW r,
         Wrote(r, Len(t) + 1, IF Len(t) = 0 THEN Genesis ELSE t[Len(t)].hash)
  PROVE  /\ Chain(Append(t, r)) /\ Len(Append(t, r)) = Len(t) + 1
         /\ \A i \in 1..Len(t) : Append(t, r)[i] = t[i]
         /\ Append(t, r)[Len(t) + 1] = r
PROOF
  <1> DEFINE u == Append(t, r)
  <1>1. IsSeq(t) /\ Len(t) \in Nat /\ \A i \in 1..Len(t) : Wrote(t[i], i, LinkedTo(t, i))
    BY SeqIs DEF Chain
  <1>2. /\ IsSeq(u) /\ Len(u) = Len(t) + 1
        /\ \A i \in 1..Len(t) : u[i] = t[i]
        /\ u[Len(t) + 1] = r
    BY <1>1, AppendIs
  <1> HIDE DEF u
  <1>3. ASSUME NEW i \in 1..Len(u) PROVE Wrote(u[i], i, LinkedTo(u, i))
    <2>1. CASE i \in 1..Len(t)
      <3>1. i # 1 => i - 1 \in 1..Len(t)
        BY <1>1, <2>1
      <3>2. LinkedTo(u, i) = LinkedTo(t, i)
        BY <1>2, <3>1 DEF LinkedTo
      <3> QED BY <1>1, <1>2, <2>1, <3>2
    <2>2. CASE i = Len(t) + 1
      <3>1. LinkedTo(u, i) = IF Len(t) = 0 THEN Genesis ELSE t[Len(t)].hash
        <4>1. CASE Len(t) = 0
          BY <2>2, <4>1 DEF LinkedTo
        <4>2. CASE Len(t) # 0
          <5>1. i # 1 /\ i - 1 = Len(t) /\ Len(t) \in 1..Len(t)
            BY <1>1, <2>2, <4>2
          <5> QED BY <1>2, <4>2, <5>1 DEF LinkedTo
        <4> QED BY <4>1, <4>2
      <3> QED BY <1>2, <2>2, <3>1
    <2>3. i \in 1..Len(t) \/ i = Len(t) + 1
      BY <1>1, <1>2
    <2> QED BY <2>1, <2>2, <2>3
  <1> QED BY <1>2, <1>3 DEF Chain, u

\* The rows from before V009 stay what they were.
LEMMA OldRowsStay ==
  ASSUME NEW t, Chain(t), NEW u, Len(u) = Len(t) + 1, \A i \in 1..Len(t) : u[i] = t[i],
         NEW m, OldRows(t, m)
  PROVE  /\ u[Len(t) + 1].version = 2 => OldRows(u, m)
         /\ m = Len(t) /\ u[Len(t) + 1].version = 1 => OldRows(u, m + 1)
         /\ AnchorOver(u, m) = AnchorOver(t, m)
PROOF
  <1>1. Len(t) \in Nat /\ m \in 0..Len(t) /\ m \in Nat
    BY SeqIs DEF Chain, OldRows
  <1>2. \A k \in 1..Len(u) : k \in 1..Len(t) \/ k = Len(t) + 1
    BY <1>1
  <1>3. \A k \in 1..Len(t) : u[k].version = 1 <=> k <= m
    BY DEF OldRows
  <1>4. ASSUME u[Len(t) + 1].version = 2 PROVE OldRows(u, m)
    <2>1. m \in 0..Len(u) /\ ~(Len(t) + 1 <= m)
      BY <1>1
    <2> QED BY <1>2, <1>3, <1>4, <2>1 DEF OldRows
  <1>5. ASSUME m = Len(t), u[Len(t) + 1].version = 1 PROVE OldRows(u, m + 1)
    <2>1. m + 1 \in 0..Len(u)
      BY <1>1, <1>5
    <2>2. \A k \in 1..Len(u) : u[k].version = 1 /\ k <= m + 1
      <3>1. \A k \in 1..Len(t) : k <= m /\ k <= m + 1
        BY <1>1, <1>5
      <3> QED BY <1>1, <1>2, <1>3, <1>5, <3>1
    <2> QED BY <2>1, <2>2 DEF OldRows
  <1>6. AnchorOver(u, m) = AnchorOver(t, m)
    <2>1. \A i \in 1..m : u[i] = t[i]
      BY <1>1
    <2>2. [i \in 1..m |-> u[i].hash] = [i \in 1..m |-> t[i].hash]
      BY <2>1
    <2> QED BY <2>2 DEF AnchorOver
  <1> QED BY <1>4, <1>5, <1>6

\* A row keeps saying which row of the chain it is when the chain grows.
LEMMA KeptStays ==
  ASSUME NEW t, Chain(t), NEW u, Len(u) = Len(t) + 1, \A i \in 1..Len(t) : u[i] = t[i]
  PROVE  \A r : Kept(r, t) => Kept(r, u)
PROOF
  <1>1. Len(t) \in Nat
    BY SeqIs DEF Chain
  <1>2. \A i \in 1..Len(t) : i \in 1..Len(u)
    BY <1>1
  <1> QED BY <1>2 DEF Kept

\* The rows that are sealed are those from before V009.
LEMMA LegacyIs ==
  ASSUME NEW t, Chain(t), NEW m, OldRows(t, m)
  PROVE  \A i \in 1..Len(t) : IsLegacyRow(t[i]) <=> i <= m
PROOF
  <1>1. ASSUME NEW i \in 1..Len(t) PROVE IsLegacyRow(t[i]) <=> t[i].version = 1
    <2>1. \/ t[i].version = 1
          \/ t[i].version = 2 /\ t[i].text # Absent
      BY DEF Chain, Wrote
    <2> QED BY <2>1 DEF IsLegacyRow, CurrentVersion
  <1> QED BY <1>1 DEF OldRows

\* selectLegacyRows takes the rows from before V009, in their order.
LEMMA SelectedAre ==
  ASSUME NEW t, Chain(t), NEW m, OldRows(t, m)
  PROVE  /\ m \in Nat /\ m <= Len(t)
         /\ SelectLegacyRows(t) = [k \in 1..m |-> t[k]]
PROOF
  <1> DEFINE L == {i \in DOMAIN t : IsLegacyRow(t[i])}
             at(k) == CHOOSE i \in L : Cardinality({j \in L : j <= i}) = k
  <1>1. Len(t) \in Nat /\ DOMAIN t = 1..Len(t) /\ m \in Nat /\ m <= Len(t)
    BY SeqIs DEF Chain, OldRows
  <1>2. L = 1..m
    <2>1. \A i : i \in L <=> i \in 1..Len(t) /\ IsLegacyRow(t[i])
      BY <1>1
    <2>2. \A i : i \in L <=> i \in 1..Len(t) /\ i <= m
      BY <2>1, LegacyIs
    <2>3. \A i : i \in 1..Len(t) /\ i <= m <=> i \in 1..m
      BY <1>1
    <2> HIDE DEF L
    <2> QED BY <2>2, <2>3
  <1>3. SelectLegacyRows(t) = [k \in 1..Cardinality(L) |-> t[at(k)]]
    BY DEF SelectLegacyRows
  <1> HIDE DEF L
  <1>4. Cardinality(L) = m
    BY <1>1, <1>2, FS_Interval
  <1>5. ASSUME NEW i \in 1..m PROVE Cardinality({j \in L : j <= i}) = i
    <2> DEFINE B == {j \in L : j <= i}
    <2>1. \A j : j \in B <=> j \in 1..i
      BY <1>1, <1>2
    <2>2. B = 1..i
      <3> HIDE DEF B
      <3> QED BY <2>1
    <2>3. Cardinality(1..i) = i
      BY <1>1, FS_Interval
    <2> QED BY <2>2, <2>3
  <1>6. ASSUME NEW k \in 1..m PROVE at(k) = k
    <2>1. k \in L /\ Cardinality({j \in L : j <= k}) = k
      BY <1>2, <1>5
    <2>2. at(k) \in L /\ Cardinality({j \in L : j <= at(k)}) = k
      BY <2>1
    <2> HIDE DEF at
    <2>3. Cardinality({j \in L : j <= at(k)}) = at(k)
      BY <1>2, <1>5, <2>2
    <2> QED BY <2>2, <2>3
  <1>7. [k \in 1..m |-> t[at(k)]] = [k \in 1..m |-> t[k]]
    <2> HIDE DEF at
    <2> QED BY <1>6
  <1> HIDE DEF at
  <1> QED BY <1>1, <1>3, <1>4, <1>7

\* buildAnchor makes the payload over them.
LEMMA BuiltAnchorIs ==
  ASSUME NEW t, Chain(t), NEW m, OldRows(t, m)
  PROVE  BuildAnchor(t) = AnchorOver(t, m)
PROOF
  <1> DEFINE l == SelectLegacyRows(t)
  <1>1. m \in Nat /\ m <= Len(t) /\ l = [k \in 1..m |-> t[k]]
    BY SelectedAre
  <1>2. BuildAnchor(t) = [ids |-> [i \in DOMAIN l |-> l[i].id],
                          hashes |-> [i \in DOMAIN l |-> l[i].hash],
                          root |-> HashesRoot([i \in DOMAIN l |-> l[i].hash])]
    BY DEF BuildAnchor
  <1> HIDE DEF l
  <1>3. DOMAIN l = 1..m
    BY <1>1
  <1>4. \A i \in 1..m : l[i] = t[i] /\ t[i].id = i
    BY <1>1, SeqIs DEF Chain, Wrote
  <1>5. [i \in DOMAIN l |-> l[i].id] = [i \in 1..m |-> i]
    BY <1>3, <1>4
  <1>6. [i \in DOMAIN l |-> l[i].hash] = [i \in 1..m |-> t[i].hash]
    BY <1>3, <1>4
  <1> QED BY <1>2, <1>5, <1>6 DEF AnchorOver

\* A row with another payload and another text.
LEMMA RowWith ==
  ASSUME NEW r, IsRow(r), NEW y, NEW c
  PROVE  [r EXCEPT !.payload = y, !.text = c] =
           [id |-> r.id, version |-> r.version, payload |-> y, text |-> c,
            prev |-> r.prev, hash |-> r.hash]
PROOF
  <1> DEFINE u == [r EXCEPT !.payload = y]
             v == [r EXCEPT !.payload = y, !.text = c]
  <1>1. u = [id |-> r.id, version |-> r.version, payload |-> y, text |-> r.text,
             prev |-> r.prev, hash |-> r.hash]
    BY DEF IsRow
  <1>2. v = [u EXCEPT !.text = c]
    OBVIOUS
  <1> HIDE DEF u, v
  <1>3. v = [id |-> r.id, version |-> r.version, payload |-> y, text |-> c,
             prev |-> r.prev, hash |-> r.hash]
    BY <1>1, <1>2
  <1> QED BY <1>3 DEF v

\* A change leaves a row the number it had, and a text if it had one.
LEMMA ChangedKept ==
  ASSUME NEW t, Chain(t), NEW row, Kept(row, t), NEW r \in Changed(row)
  PROVE  Kept(r, t)
PROOF
  <1>1. /\ IsRow(row) /\ Value(row.payload)
        /\ row.id \in 1..Len(t) /\ row.version = t[row.id].version
        /\ row.version \in {1, 2} /\ (row.version = 1 <=> row.text = Absent)
    BY DEF Kept
  <1>2. ASSUME NEW h, NEW p
        PROVE  Kept([row EXCEPT !.hash = h], t) /\ Kept([row EXCEPT !.prev = p], t)
    BY <1>1 DEF Kept, IsRow
  <1>3. ASSUME NEW x \in Payloads, Canonicalizable(x)
        PROVE  /\ row.text = Absent => Kept([row EXCEPT !.payload = Jsonb(x)], t)
               /\ row.text # Absent =>
                    /\ Kept([row EXCEPT !.payload = Jsonb(x), !.text = Canonicalize(x)], t)
                    /\ Kept([row EXCEPT !.payload = Jsonb(x), !.text = Canonicalize(x),
                                        !.hash = ChainHash(Canonicalize(x), row.prev)], t)
    <2> DEFINE y == Jsonb(x)
               c == Canonicalize(x)
               h == ChainHash(Canonicalize(x), row.prev)
    <2>1. IsJson(x)
      BY AuditAssumption
    <2>2. Value(y) /\ c # Absent
      BY <1>3, <2>1, StoredValueHasItsText, TextNotEmpty DEF Value, Absent
    <2> HIDE DEF y, c, h
    <2>3. ASSUME row.text = Absent PROVE Kept([row EXCEPT !.payload = y], t)
      BY <1>1, <2>2, <2>3 DEF Kept, IsRow
    <2>4. ASSUME row.text # Absent PROVE Kept([row EXCEPT !.payload = y, !.text = c], t)
      <3> DEFINE u == [row EXCEPT !.payload = y, !.text = c]
      <3>1. u = [id |-> row.id, version |-> row.version, payload |-> y, text |-> c,
                 prev |-> row.prev, hash |-> row.hash]
        BY <1>1, RowWith
      <3> HIDE DEF u
      <3>2. u.id = row.id /\ u.version = row.version /\ u.payload = y /\ u.text = c /\ IsRow(u)
        BY <3>1 DEF IsRow
      <3>3. Kept(u, t)
        BY <1>1, <2>2, <2>4, <3>2 DEF Kept
      <3> QED BY <3>3 DEF u
    <2>5. ASSUME row.text # Absent PROVE Kept([row EXCEPT !.payload = y, !.text = c, !.hash = h], t)
      <3> DEFINE u == [row EXCEPT !.payload = y, !.text = c, !.hash = h]
      <3>1. u = [id |-> row.id, version |-> row.version, payload |-> y, text |-> c,
                 prev |-> row.prev, hash |-> h]
        <4> DEFINE v == [row EXCEPT !.payload = y, !.text = c]
        <4>1. v = [id |-> row.id, version |-> row.version, payload |-> y, text |-> c,
                   prev |-> row.prev, hash |-> row.hash]
          BY <1>1, RowWith
        <4>2. u = [v EXCEPT !.hash = h]
          OBVIOUS
        <4> HIDE DEF v, u
        <4> QED BY <4>1, <4>2
      <3> HIDE DEF u
      <3>2. u.id = row.id /\ u.version = row.version /\ u.payload = y /\ u.text = c /\ IsRow(u)
        BY <3>1 DEF IsRow
      <3>3. Kept(u, t)
        BY <1>1, <2>2, <2>5, <3>2 DEF Kept
      <3> QED BY <3>3 DEF u
    <2> QED BY <2>3, <2>4, <2>5 DEF y, c, h
  <1>4. ASSUME row.text # Absent, row.payload.t = "obj"
        PROVE  Kept([row EXCEPT !.text = Reordered(row.payload)], t)
    <2> DEFINE c == Reordered(row.payload)
    <2>1. c # Absent
      BY <1>1, <1>4, ReorderedNotEmpty DEF Absent
    <2> HIDE DEF c
    <2>2. Kept([row EXCEPT !.text = c], t)
      BY <1>1, <1>4, <2>1 DEF Kept, IsRow
    <2> QED BY <2>2 DEF c
  <1> DEFINE of(x) ==
        IF row.text = Absent
        THEN {[row EXCEPT !.payload = Jsonb(x)]}
        ELSE {[row EXCEPT !.payload = Jsonb(x), !.text = Canonicalize(x)],
              [row EXCEPT !.payload = Jsonb(x), !.text = Canonicalize(x),
                          !.hash = ChainHash(Canonicalize(x), row.prev)]}
  <1>5. CASE r \in {[row EXCEPT !.hash = <<"other">>], [row EXCEPT !.prev = <<"other">>]}
    BY <1>2, <1>5
  <1>6. ASSUME NEW x \in Payloads, Canonicalizable(x), r \in of(x) PROVE Kept(r, t)
    BY <1>3, <1>6
  <1>7. CASE r \in IF row.text # Absent /\ row.payload.t = "obj"
                   THEN {[row EXCEPT !.text = Reordered(row.payload)]} ELSE {}
    BY <1>4, <1>7
  <1> HIDE DEF of
  <1>8. \/ r \in {[row EXCEPT !.hash = <<"other">>], [row EXCEPT !.prev = <<"other">>]}
        \/ r \in UNION {of(x) : x \in {y \in Payloads : Canonicalizable(y)}}
        \/ r \in IF row.text # Absent /\ row.payload.t = "obj"
                 THEN {[row EXCEPT !.text = Reordered(row.payload)]} ELSE {}
    BY Zenon DEF Changed, of
  <1>9. ASSUME r \in UNION {of(x) : x \in {y \in Payloads : Canonicalizable(y)}} PROVE Kept(r, t)
    <2>1. \E x \in Payloads : Canonicalizable(x) /\ r \in of(x)
      BY <1>9, Zenon
    <2> QED BY <1>6, <2>1
  <1> QED BY <1>5, <1>7, <1>8, <1>9

\* A part of a sequence.
LEMMA PartIs ==
  ASSUME NEW s, IsSeq(s), NEW a \in Int, a >= 1, NEW b \in Int, b <= Len(s)
  PROVE  /\ IsSeq(SubSeq(s, a, b))
         /\ Len(SubSeq(s, a, b)) = IF a <= b THEN b - a + 1 ELSE 0
         /\ \A j \in 1..Len(SubSeq(s, a, b)) :
              a + j - 1 \in 1..Len(s) /\ SubSeq(s, a, b)[j] = s[a + j - 1]
PROOF
  <1> DEFINE R == {s[k] : k \in 1..Len(s)}
             u == SubSeq(s, a, b)
  <1>1. Len(s) \in Nat
    BY SeqIs
  <1>2. \A i \in a..b : s[i] \in R
    <2>1. \A i \in a..b : i \in 1..Len(s)
      BY <1>1
    <2> QED BY <2>1
  <1> HIDE DEF R
  <1>3. /\ u \in Seq(R) /\ Len(u) = IF a <= b THEN b - a + 1 ELSE 0
        /\ \A i \in 1..b - a + 1 : u[i] = s[a + i - 1]
    BY <1>2, SubSeqProperties
  <1> HIDE DEF u
  <1>4. IsSeq(u)
    BY <1>3, SeqsAre
  <1>5. \A j \in 1..Len(u) : j \in 1..b - a + 1 /\ a + j - 1 \in 1..Len(s)
    BY <1>1, <1>3
  <1> QED BY <1>3, <1>4, <1>5 DEF u

\* What is left of a sequence without its i-th.
LEMMA RemovedAre ==
  ASSUME NEW s, IsSeq(s), NEW i \in 1..Len(s)
  PROVE  /\ IsSeq(RemoveAt(s, i))
         /\ \A j \in 1..Len(RemoveAt(s, i)) : \E k \in 1..Len(s) : RemoveAt(s, i)[j] = s[k]
PROOF
  <1> DEFINE n == Len(s)
             a == SubSeq(s, 1, i - 1)
             b == SubSeq(s, i + 1, n)
  <1>1. n \in Nat /\ i \in Int /\ i >= 1 /\ i - 1 \in Int /\ i - 1 <= n /\ i + 1 \in Int /\ i + 1 >= 1
    BY SeqIs
  <1>2. RemoveAt(s, i) = a \o b
    BY DEF RemoveAt
  <1>3. IsSeq(a) /\ \A j \in 1..Len(a) : \E k \in 1..n : a[j] = s[k]
    <2>1. IsSeq(a) /\ \A j \in 1..Len(a) : 1 + j - 1 \in 1..n /\ a[j] = s[1 + j - 1]
      BY <1>1, PartIs
    <2> HIDE DEF a
    <2> QED BY <2>1
  <1>4. IsSeq(b) /\ \A j \in 1..Len(b) : \E k \in 1..n : b[j] = s[k]
    <2>1. IsSeq(b) /\ \A j \in 1..Len(b) : i + 1 + j - 1 \in 1..n /\ b[j] = s[i + 1 + j - 1]
      BY <1>1, PartIs
    <2> HIDE DEF b
    <2> QED BY <2>1
  <1> HIDE DEF a, b, n
  <1> DEFINE u == a \o b
  <1>5. /\ IsSeq(u) /\ Len(u) = Len(a) + Len(b)
        /\ \A j \in 1..Len(a) : u[j] = a[j]
        /\ \A j \in 1..Len(b) : u[Len(a) + j] = b[j]
    BY <1>3, <1>4, CatIs
  <1>6. Len(a) \in Nat /\ Len(b) \in Nat
    BY <1>3, <1>4, SeqIs
  <1> HIDE DEF u
  <1>7. ASSUME NEW j \in 1..Len(u) PROVE \E k \in 1..n : u[j] = s[k]
    <2>1. CASE j <= Len(a)
      <3>1. j \in 1..Len(a)
        BY <1>6, <2>1
      <3> QED BY <1>3, <1>5, <3>1
    <2>2. CASE j > Len(a)
      <3>1. j - Len(a) \in 1..Len(b) /\ Len(a) + (j - Len(a)) = j
        BY <1>5, <1>6, <2>2
      <3>2. u[j] = b[j - Len(a)]
        BY <1>5, <3>1
      <3> QED BY <1>4, <3>1, <3>2
    <2> QED BY <1>6, <2>1, <2>2
  <1> QED BY <1>2, <1>5, <1>7 DEF n, u

\* A change keeps the rows rows.
LEMMA ChangeKeeps ==
  ASSUME Chain(truth), IsSeq(rows), \A i \in 1..Len(rows) : Kept(rows[i], truth), Change
  PROVE  IsSeq(rows)' /\ \A i \in 1..Len(rows') : Kept(rows'[i], truth)
PROOF
  <1>1. PICK i \in DOMAIN rows : \/ \E r \in Changed(rows[i]) : rows' = [rows EXCEPT ![i] = r]
                                 \/ rows' = RemoveAt(rows, i)
    BY DEF Change
  <1>2. Len(rows) \in Nat /\ DOMAIN rows = 1..Len(rows) /\ rows = [j \in 1..Len(rows) |-> rows[j]]
    BY SeqIs
  <1>3. ASSUME NEW r \in Changed(rows[i]), rows' = [rows EXCEPT ![i] = r]
        PROVE  IsSeq(rows)' /\ \A j \in 1..Len(rows') : Kept(rows'[j], truth)
    <2>1. Kept(r, truth)
      BY <1>1, <1>2, ChangedKept
    <2>2. \A j \in 1..Len(rows) : rows'[j] = IF j = i THEN r ELSE rows[j]
      BY <1>2, <1>3
    <2>3. rows' = [j \in 1..Len(rows) |-> rows'[j]]
      BY <1>2, <1>3
    <2>4. IsSeq(rows') /\ Len(rows') = Len(rows)
      BY <1>2, <2>3, IsSeqIf
    <2> QED BY <2>1, <2>2, <2>4
  <1>4. CASE rows' = RemoveAt(rows, i)
    <2>1. IsSeq(rows') /\ \A j \in 1..Len(rows') : \E k \in 1..Len(rows) : rows'[j] = rows[k]
      BY <1>1, <1>2, <1>4, RemovedAre
    <2> QED BY <2>1
  <1> QED BY <1>1, <1>3, <1>4

\* A root is that of one sequence of numbers, payloads, links and hashes.
LEMMA RootSays ==
  ASSUME NEW s, IsSeq(s), NEW t, IsSeq(t), Root(s) = Root(t)
  PROVE  /\ Len(s) = Len(t)
         /\ \A i \in 1..Len(s) : /\ s[i].id = t[i].id /\ s[i].payload = t[i].payload
                                 /\ s[i].prev = t[i].prev /\ s[i].hash = t[i].hash
PROOF
  <1> DEFINE leaves(r) == [i \in DOMAIN r |-> LeafBytes(r[i])]
  <1>1. ASSUME NEW r, IsSeq(r)
        PROVE  LeavesOnly(leaves(r)) /\ DOMAIN leaves(r) = 1..Len(r)
    <2> DEFINE l == leaves(r)
    <2>1. Len(r) \in Nat /\ DOMAIN r = 1..Len(r)
      BY <1>1, SeqIs
    <2>2. \A i \in 1..Len(r) : \E d : l[i] = HashLeaf(d)
      BY <2>1 DEF LeafBytes
    <2>3. l = [i \in 1..Len(r) |-> l[i]]
      BY <2>1
    <2>4. DOMAIN l = 1..Len(r)
      BY <2>1
    <2> HIDE DEF l
    <2>5. IsSeq(l) /\ Len(l) = Len(r)
      BY <2>1, <2>3, IsSeqIf
    <2>6. LeavesOnly(l)
      BY <2>2, <2>5 DEF LeavesOnly
    <2> QED BY <2>4, <2>6 DEF l
  <1>2. ComputeRoot(leaves(s)) = ComputeRoot(leaves(t)) /\ Len(s) = Len(t)
    <2>1. /\ Root(s).hash = ComputeRoot(leaves(s)) /\ Root(s).count = Len(s)
          /\ Root(t).hash = ComputeRoot(leaves(t)) /\ Root(t).count = Len(t)
      BY DEF Root
    <2> QED BY <2>1
  <1>3. leaves(s) = leaves(t)
    BY <1>1, <1>2, RootDeterminesLeaves
  <1>4. ASSUME NEW i \in 1..Len(s)
        PROVE  /\ s[i].id = t[i].id /\ s[i].payload = t[i].payload
               /\ s[i].prev = t[i].prev /\ s[i].hash = t[i].hash
    <2>1. i \in DOMAIN s /\ i \in DOMAIN t
      BY <1>2, SeqIs
    <2>2. leaves(s)[i] = LeafBytes(s[i]) /\ leaves(t)[i] = LeafBytes(t[i])
      BY <2>1
    <2>3. LeafBytes(s[i]) = LeafBytes(t[i])
      BY <1>3, <2>2
    <2>4. <<s[i].id, s[i].payload, s[i].prev, s[i].hash>> = <<t[i].id, t[i].payload, t[i].prev, t[i].hash>>
      BY <2>3, HashesFree DEF LeafBytes
    <2> QED BY <2>4
  <1> QED BY <1>2, <1>4

\* Before V009 nothing is sealed and nothing is changed.
AuditBefore == ~migrated => changes = 0 /\ anchor = Absent /\ OldRows(truth, Len(truth))

\* What was sealed are the rows from before V009, and a stored root is one of a part
\* of the chain as it was written.
SealedAsWritten ==
  /\ anchor # Absent => \E m : OldRows(truth, m) /\ anchor = AnchorOver(truth, m)
  /\ stored # Absent => \E c \in 0..Len(truth) : stored = Root(SubSeq(truth, 1, c))

RowsKept ==
  /\ IsSeq(rows) /\ \A i \in 1..Len(rows) : Kept(rows[i], truth)
  /\ changes \in Nat /\ (changes = 0 => rows = truth)

AuditInv ==
  /\ Chain(truth) /\ \E m : OldRows(truth, m)
  /\ RowsKept
  /\ AuditBefore
  /\ SealedAsWritten

\* The first part of a chain stays what it was when the chain grows.
LEMMA PartStays ==
  ASSUME NEW t, IsSeq(t), NEW u, IsSeq(u), Len(t) <= Len(u), \A i \in 1..Len(t) : u[i] = t[i],
         NEW c \in 0..Len(t)
  PROVE  SubSeq(u, 1, c) = SubSeq(t, 1, c)
PROOF
  <1>1. Len(t) \in Nat /\ Len(u) \in Nat /\ c \in Int /\ 1 \in Int /\ 1 >= 1 /\ c <= Len(t) /\ c <= Len(u)
    BY SeqIs
  <1> DEFINE v == SubSeq(t, 1, c)
             w == SubSeq(u, 1, c)
             l == IF 1 <= c THEN c - 1 + 1 ELSE 0
  <1>2. IsSeq(v) /\ Len(v) = l /\ \A j \in 1..Len(v) : 1 + j - 1 \in 1..Len(t) /\ v[j] = t[1 + j - 1]
    BY <1>1, PartIs
  <1>3. IsSeq(w) /\ Len(w) = l /\ \A j \in 1..Len(w) : 1 + j - 1 \in 1..Len(u) /\ w[j] = u[1 + j - 1]
    BY <1>1, PartIs
  <1> HIDE DEF v, w, l
  <1>4. \A j \in 1..Len(v) : w[j] = v[j]
    BY <1>2, <1>3
  <1>5. w = v
    BY <1>2, <1>3, <1>4, SameSeq
  <1> QED BY <1>5 DEF v, w

\* The ledger adds a row, and may have sealed those before it.
LEMMA AddKeeps ==
  ASSUME AuditInv, NEW r, Adds(r), changes = 0, changes' = changes, migrated' = migrated,
         stored' = stored,
         Wrote(r, Len(rows) + 1, IF Len(rows) = 0 THEN Genesis ELSE rows[Len(rows)].hash),
         \/ r.version = 1 /\ ~migrated /\ anchor' = anchor
         \/ r.version = 2 /\ migrated /\ anchor' \in {anchor, BuildAnchor(rows)}
  PROVE  AuditInv'
PROOF
  <1> DEFINE t == truth
             u == truth'
  <1>1. rows = t /\ Chain(t) /\ rows' = u /\ u = Append(t, r)
    BY DEF AuditInv, RowsKept, Adds
  <1>2. Chain(u) /\ Len(u) = Len(t) + 1 /\ (\A i \in 1..Len(t) : u[i] = t[i]) /\ u[Len(t) + 1] = r
    BY <1>1, ChainGrows
  <1>3. IsSeq(t) /\ IsSeq(u) /\ Len(t) \in Nat
    BY <1>1, <1>2, SeqIs DEF Chain
  <1>4. \A m : OldRows(t, m) =>
          /\ r.version = 2 => OldRows(u, m)
          /\ m = Len(t) /\ r.version = 1 => OldRows(u, m + 1)
          /\ AnchorOver(u, m) = AnchorOver(t, m)
    <2> HIDE DEF t, u
    <2>1. ASSUME NEW m, OldRows(t, m)
          PROVE  /\ u[Len(t) + 1].version = 2 => OldRows(u, m)
                 /\ m = Len(t) /\ u[Len(t) + 1].version = 1 => OldRows(u, m + 1)
                 /\ AnchorOver(u, m) = AnchorOver(t, m)
      BY <1>1, <1>2, <2>1, OldRowsStay
    <2> QED BY <1>2, <2>1
  <1> HIDE DEF t, u
  <1>5. \E m : OldRows(u, m)
    <2>1. CASE r.version = 2
      <3>1. PICK m : OldRows(t, m)
        BY DEF AuditInv, t
      <3> QED BY <1>4, <2>1, <3>1
    <2>2. CASE r.version = 1 /\ ~migrated
      <3>1. OldRows(t, Len(t))
        BY <2>2 DEF AuditInv, AuditBefore, t
      <3> QED BY <1>4, <2>2, <3>1
    <2> QED BY <2>1, <2>2
  <1>6. IsSeq(rows') /\ (\A i \in 1..Len(rows') : Kept(rows'[i], u)) /\ changes' = 0 /\ rows' = u
    BY <1>1, <1>2, <1>3, WroteIsKept
  <1>7. ASSUME ~migrated' PROVE changes' = 0 /\ anchor' = Absent /\ OldRows(u, Len(u))
    <2>1. ~migrated
      BY <1>7
    <2>2. r.version = 1 /\ anchor' = anchor /\ anchor = Absent /\ OldRows(t, Len(t))
      BY <2>1 DEF AuditInv, AuditBefore, t
    <2> QED BY <1>2, <1>4, <2>2
  <1>8. ASSUME anchor' # Absent PROVE \E m : OldRows(u, m) /\ anchor' = AnchorOver(u, m)
    <2>1. r.version = 2 /\ anchor' \in {anchor, BuildAnchor(t)}
      BY <1>1, <1>8 DEF AuditInv, AuditBefore
    <2>2. CASE anchor' = anchor
      <3>1. PICK m : OldRows(t, m) /\ anchor = AnchorOver(t, m)
        BY <1>8, <2>2 DEF AuditInv, SealedAsWritten, t
      <3> QED BY <1>4, <2>1, <2>2, <3>1
    <2>3. CASE anchor' = BuildAnchor(t)
      <3>1. PICK m : OldRows(t, m)
        BY DEF AuditInv, t
      <3>2. BuildAnchor(t) = AnchorOver(t, m)
        BY <1>1, <3>1, BuiltAnchorIs
      <3> QED BY <1>4, <2>1, <2>3, <3>1, <3>2
    <2> QED BY <2>1, <2>2, <2>3
  <1>9. ASSUME stored' # Absent PROVE \E c \in 0..Len(u) : stored' = Root(SubSeq(u, 1, c))
    <2>1. PICK c \in 0..Len(t) : stored = Root(SubSeq(t, 1, c))
      BY <1>9 DEF AuditInv, SealedAsWritten, t
    <2>2. c \in 0..Len(u) /\ Len(t) <= Len(u)
      BY <1>2, <1>3
    <2>3. SubSeq(u, 1, c) = SubSeq(t, 1, c)
      BY <1>2, <1>3, <2>2, PartStays
    <2> QED BY <2>1, <2>2, <2>3
  <1>10. RowsKept'
    BY <1>6 DEF RowsKept, u
  <1>11. AuditBefore'
    BY <1>7 DEF AuditBefore, u
  <1>12. SealedAsWritten'
    BY <1>8, <1>9 DEF SealedAsWritten, u
  <1>13. Chain(truth)' /\ (\E m : OldRows(truth, m))'
    BY <1>2, <1>5 DEF u
  <1> QED BY <1>10, <1>11, <1>12, <1>13 DEF AuditInv

\* Every step keeps the invariant: an append, the migration, the sealing, a stored
\* root, a change.
LEMMA AuditStepKeeps ==
  ASSUME AuditInv, [AuditNext]_audit
  PROVE  AuditInv'
PROOF
  <1> DEFINE prev == IF Len(rows) = 0 THEN Genesis ELSE rows[Len(rows)].hash
  <1>1. \A x : Value(x) /\ rows = truth =>
          /\ Wrote(NewRow(x), Len(rows) + 1, prev) /\ NewRow(x).version = 2
          /\ Wrote(OldRow(x), Len(rows) + 1, prev) /\ OldRow(x).version = 1
    <2>1. Chain(truth)
      BY DEF AuditInv
    <2> QED BY <2>1, RowsWritten
  <1>2. changes = 0 => rows = truth
    BY DEF AuditInv, RowsKept
  <1> HIDE DEF prev
  <1>3. \A x \in Payloads : Canonicalizable(x) => Value(x)
    BY AuditAssumption DEF Value
  <1>4. CASE AppendLegacy
    <2>1. PICK x \in Payloads : Canonicalizable(x) /\ Adds(OldRow(x))
      BY <1>4 DEF AppendLegacy
    <2>2. /\ ~migrated /\ migrated' = migrated /\ anchor' = anchor /\ stored' = stored
          /\ changes' = changes /\ changes = 0
      BY <1>4 DEF AppendLegacy, AuditInv, AuditBefore
    <2>3. Wrote(OldRow(x), Len(rows) + 1, prev) /\ OldRow(x).version = 1
      BY <1>1, <1>2, <1>3, <2>1, <2>2
    <2> QED BY <2>1, <2>2, <2>3, AddKeeps DEF prev
  <1>5. CASE AppendEntry
    <2>1. PICK x \in Payloads : Canonicalizable(x) /\ Adds(NewRow(x))
      BY <1>5 DEF AppendEntry
    <2>2. /\ migrated /\ migrated' = migrated /\ anchor' = anchor /\ stored' = stored
          /\ changes' = changes /\ changes = 0
      BY <1>5 DEF AppendEntry
    <2>3. Wrote(NewRow(x), Len(rows) + 1, prev) /\ NewRow(x).version = 2
      BY <1>1, <1>2, <1>3, <2>1, <2>2
    <2> QED BY <2>1, <2>2, <2>3, AddKeeps DEF prev
  <1>6. CASE Seal
    <2> DEFINE x == AnchorJson(BuildAnchor(rows))
    <2>1. /\ migrated /\ migrated' = migrated /\ stored' = stored
          /\ changes' = changes /\ changes = 0
          /\ anchor' = BuildAnchor(rows) /\ Adds(NewRow(x))
      BY <1>6 DEF Seal
    <2>2. Value(x)
      <3>1. PICK m : OldRows(truth, m)
        BY DEF AuditInv
      <3>2. BuildAnchor(rows) = AnchorOver(truth, m) /\ m \in Nat
        BY <1>2, <2>1, <3>1, BuiltAnchorIs, SelectedAre DEF AuditInv
      <3> QED BY <3>2, AnchorIsValue
    <2> HIDE DEF x
    <2>3. Wrote(NewRow(x), Len(rows) + 1, prev) /\ NewRow(x).version = 2
      BY <1>1, <1>2, <2>1, <2>2
    <2> QED BY <2>1, <2>3, AddKeeps DEF prev
  <1>7. CASE Migrate
    <2>1. /\ rows' = rows /\ truth' = truth /\ anchor' = anchor /\ stored' = stored
          /\ changes' = changes /\ migrated' = TRUE
      BY <1>7 DEF Migrate
    <2>2. migrated'
      BY <2>1
    <2>3. AuditBefore'
      BY <2>2 DEF AuditBefore
    <2>4. (Chain(truth) /\ \E m : OldRows(truth, m))' /\ RowsKept' /\ SealedAsWritten'
      BY <2>1 DEF AuditInv, RowsKept, SealedAsWritten
    <2> QED BY <2>3, <2>4 DEF AuditInv
  <1>8. CASE SealRoot
    <2>1. /\ rows' = rows /\ truth' = truth /\ anchor' = anchor /\ migrated' = migrated
          /\ changes' = changes /\ changes = 0 /\ stored' = Root(rows)
      BY <1>8 DEF SealRoot
    <2>2. \E c \in 0..Len(truth) : stored' = Root(SubSeq(truth, 1, c))
      <3>1. IsSeq(truth) /\ Len(truth) \in Nat /\ Len(truth) \in 0..Len(truth)
        BY SeqIs DEF AuditInv, Chain
      <3>2. SubSeq(truth, 1, Len(truth)) = truth
        BY <3>1, SubSeqFull DEF IsSeq
      <3> QED BY <1>2, <2>1, <3>1, <3>2
    <2>3. SealedAsWritten'
      BY <2>1, <2>2 DEF AuditInv, SealedAsWritten
    <2>4. (Chain(truth) /\ \E m : OldRows(truth, m))' /\ RowsKept' /\ AuditBefore'
      BY <2>1 DEF AuditInv, RowsKept, AuditBefore
    <2> QED BY <2>3, <2>4 DEF AuditInv
  <1>9. CASE Change
    <2>1. /\ truth' = truth /\ anchor' = anchor /\ migrated' = migrated /\ stored' = stored
          /\ migrated /\ changes' = changes + 1
      BY <1>9 DEF Change
    <2>2. IsSeq(rows') /\ \A i \in 1..Len(rows') : Kept(rows'[i], truth)
      BY <1>9, ChangeKeeps DEF AuditInv, RowsKept
    <2>3. changes' \in Nat /\ changes' # 0
      BY <2>1 DEF AuditInv, RowsKept
    <2>4. RowsKept'
      BY <2>1, <2>2, <2>3 DEF RowsKept
    <2>5. migrated'
      BY <2>1
    <2>6. (Chain(truth) /\ \E m : OldRows(truth, m))' /\ AuditBefore' /\ SealedAsWritten'
      BY <2>1, <2>5 DEF AuditInv, SealedAsWritten, AuditBefore
    <2> QED BY <2>4, <2>6 DEF AuditInv
  <1>10. CASE UNCHANGED audit
    BY <1>10 DEF audit, AuditInv, RowsKept, AuditBefore, SealedAsWritten
  <1> QED BY <1>4, <1>5, <1>6, <1>7, <1>8, <1>9, <1>10 DEF AuditNext

\* The invariant of the chain and of what its checks rest on.
LEMMA AuditInvariance == AuditSpec => []AuditInv
PROOF
  <1>1. AuditInit => AuditInv
    <2> SUFFICES ASSUME AuditInit PROVE AuditInv
      OBVIOUS
    <2>1. rows = <<>> /\ truth = <<>> /\ anchor = Absent /\ stored = Absent /\ changes = 0
      BY DEF AuditInit
    <2>2. \A i : i \notin 1..0
      OBVIOUS
    <2>3. Chain(<<>>) /\ OldRows(<<>>, 0)
      BY <2>2, EmptyIs DEF Chain, OldRows
    <2>4. RowsKept
      BY <2>1, <2>2, EmptyIs DEF RowsKept
    <2>5. AuditBefore
      BY <2>1, <2>3, EmptyIs DEF AuditBefore
    <2>6. SealedAsWritten
      BY <2>1 DEF SealedAsWritten
    <2> QED BY <2>1, <2>3, <2>4, <2>5, <2>6 DEF AuditInv
  <1>2. AuditInv /\ [AuditNext]_audit => AuditInv'
    BY AuditStepKeeps
  <1> QED BY <1>1, <1>2, PTL DEF AuditSpec

\* Entries of one text say the same, and those that say the same have one text.
LEMMA FaithfulIf ==
  ASSUME AuditInv
  PROVE  TextsAreFaithful
PROOF
  <1>1. DOMAIN truth = 1..Len(truth)
    BY SeqIs DEF AuditInv, Chain
  <1>2. \A i \in DOMAIN truth : truth[i].text # Absent =>
          Value(truth[i].payload) /\ truth[i].text = Canonicalize(truth[i].payload)
    BY <1>1 DEF AuditInv, Chain, Wrote
  <1>3. \A i, j \in DOMAIN truth :
          truth[i].text # Absent /\ truth[j].text # Absent =>
            (truth[i].text = truth[j].text <=> SameJson(truth[i].payload, truth[j].payload))
    BY <1>2, OneTextForOneValue DEF Value
  <1> QED BY <1>3 DEF TextsAreFaithful

\* A sealing entry finds each row it seals, by its number and its hash.
LEMMA AnchorFinds ==
  ASSUME NEW t, NEW m, OldRows(t, m), IsSeq(t), NEW rs
  PROVE  VerifyAnchor(AnchorOver(t, m), rs) <=>
           \A k \in DOMAIN t : t[k].version = 1 =>
             \E j \in DOMAIN rs : rs[j].id = k /\ rs[j].hash = t[k].hash
PROOF
  <1> DEFINE a == AnchorOver(t, m)
             Found(k, h) == \E j \in DOMAIN rs : rs[j].id = k /\ rs[j].hash = h
  <1>1. /\ a.ids = [i \in 1..m |-> i] /\ a.hashes = [i \in 1..m |-> t[i].hash]
        /\ a.root = HashesRoot([i \in 1..m |-> t[i].hash])
    BY DEF AnchorOver
  <1> HIDE DEF a
  <1>2. HashesRoot(a.hashes) = a.root
    BY <1>1
  <1>3. DOMAIN a.ids = 1..m /\ \A i \in 1..m : a.ids[i] = i /\ a.hashes[i] = t[i].hash
    BY <1>1
  <1>4. VerifyAnchor(a, rs) <=> \A i \in DOMAIN a.ids : Found(a.ids[i], a.hashes[i])
    BY <1>2 DEF VerifyAnchor
  <1> HIDE DEF Found
  <1>5. VerifyAnchor(a, rs) <=> \A i \in 1..m : Found(i, t[i].hash)
    BY <1>3, <1>4
  <1>6. \A k : k \in DOMAIN t /\ t[k].version = 1 <=> k \in 1..m
    <2>1. Len(t) \in Nat /\ DOMAIN t = 1..Len(t) /\ m \in 0..Len(t)
      BY SeqIs DEF OldRows
    <2>2. \A k \in 1..Len(t) : t[k].version = 1 <=> k <= m
      BY DEF OldRows
    <2>3. \A k : k \in 1..m <=> k \in 1..Len(t) /\ k <= m
      BY <2>1
    <2> QED BY <2>1, <2>2, <2>3
  <1>7. VerifyAnchor(a, rs) <=> \A k \in DOMAIN t : t[k].version = 1 => Found(k, t[k].hash)
    BY <1>5, <1>6
  <1> QED BY <1>7 DEF a, Found

\* Nothing is ever said against a chain as it was written.
LEMMA PassesIf ==
  ASSUME AuditInv
  PROVE  HonestPasses
PROOF
  <1> SUFFICES ASSUME changes = 0
               PROVE  /\ VerifyChain(rows)
                      /\ LegacyIsPrefix(rows)
                      /\ anchor # Absent => VerifyAnchor(anchor, rows)
                      /\ stored # Absent => stored = Root(SubSeq(rows, 1, stored.count))
    BY DEF HonestPasses
  <1>1. rows = truth /\ Chain(rows) /\ IsSeq(rows)
    BY DEF AuditInv, RowsKept, Chain
  <1>2. Len(rows) \in Nat /\ DOMAIN rows = 1..Len(rows)
    BY <1>1, SeqIs
  <1>3. PICK m : OldRows(rows, m)
    BY <1>1 DEF AuditInv
  <1>4. ASSUME NEW i \in 1..Len(rows) PROVE Links(rows, i) /\ HashHolds(rows[i])
    <2>1. Wrote(rows[i], i, LinkedTo(rows, i))
      BY <1>1 DEF Chain
    <2>2. Links(rows, i)
      BY <2>1 DEF Links, Wrote, LinkedTo
    <2>3. CASE rows[i].version = 1
      BY <2>2, <2>3 DEF HashHolds, IsLegacyRow, CurrentVersion
    <2>4. CASE rows[i].version = 2
      BY <2>1, <2>2, <2>4 DEF Wrote, HashHolds
    <2> QED BY <2>1, <2>2, <2>3, <2>4 DEF Wrote
  <1>5. VerifyChain(rows)
    BY <1>2, <1>4 DEF VerifyChain
  <1>6. LegacyIsPrefix(rows)
    <2>1. \A i \in 1..Len(rows) : IsLegacyRow(rows[i]) <=> i <= m
      BY <1>1, <1>3, LegacyIs
    <2>2. \A i, j \in 1..Len(rows) : i < j /\ j <= m => i <= m
      BY <1>2, <1>3 DEF OldRows
    <2> QED BY <1>2, <2>1, <2>2 DEF LegacyIsPrefix
  <1>7. ASSUME anchor # Absent PROVE VerifyAnchor(anchor, rows)
    <2>1. PICK k : OldRows(truth, k) /\ anchor = AnchorOver(truth, k)
      BY <1>7 DEF AuditInv, SealedAsWritten
    <2>2. \A i \in DOMAIN truth : \E j \in DOMAIN rows : rows[j].id = i /\ rows[j].hash = truth[i].hash
      BY <1>1, <1>2 DEF Chain, Wrote
    <2> QED BY <1>1, <2>1, <2>2, AnchorFinds
  <1>8. ASSUME stored # Absent PROVE stored = Root(SubSeq(rows, 1, stored.count))
    <2>1. PICK c \in 0..Len(rows) : stored = Root(SubSeq(rows, 1, c))
      BY <1>1, <1>8 DEF AuditInv, SealedAsWritten
    <2>2. stored.count = Len(SubSeq(rows, 1, c))
      BY <2>1 DEF Root
    <2>3. Len(SubSeq(rows, 1, c)) = IF 1 <= c THEN c - 1 + 1 ELSE 0
      BY <1>1, <1>2, PartIs
    <2>4. Len(SubSeq(rows, 1, c)) = c
      <3> HIDE DEF Chain
      <3>1. c \in Nat
        BY <1>2
      <3>2. (IF 1 <= c THEN c - 1 + 1 ELSE 0) = c
        BY <3>1
      <3> QED BY <2>3, <3>2
    <2> QED BY <2>1, <2>2, <2>4
  <1> QED BY <1>5, <1>6, <1>7, <1>8

\* A row of the chain under the hash it had says what it said.
LEMMA EntriesTellIf ==
  ASSUME AuditInv
  PROVE  EntriesTell
PROOF
  <1>1. Chain(truth) /\ IsSeq(rows) /\ \A i \in 1..Len(rows) : Kept(rows[i], truth)
    BY DEF AuditInv, RowsKept
  <1>2. ASSUME VerifyChain(rows), NEW j \in DOMAIN rows, ~IsLegacyRow(rows[j]),
               rows[j].hash = truth[rows[j].id].hash
        PROVE  /\ rows[j].prev = truth[rows[j].id].prev /\ rows[j].text = truth[rows[j].id].text
               /\ SameJson(rows[j].payload, truth[rows[j].id].payload)
    <2>1. PICK r, w : r = rows[j] /\ w = truth[r.id]
      OBVIOUS
    <2>2. Kept(r, truth)
      BY <1>1, <2>1, <1>2, SeqIs
    <2>3. r.text # Absent /\ r.version = 2 /\ w.version = 2 /\ r.id \in 1..Len(truth)
      BY <1>2, <2>1, <2>2 DEF IsLegacyRow, Kept
    <2>4. Wrote(w, r.id, LinkedTo(truth, r.id))
      BY <1>1, <2>1, <2>3 DEF Chain
    <2>5. /\ w.text = Canonicalize(w.payload) /\ w.hash = ChainHash(w.text, w.prev)
          /\ Value(w.payload)
      BY <2>3, <2>4 DEF Wrote
    <2>6. r.hash = ChainHash(r.text, r.prev) /\ Canonicalize(r.payload) = r.text
      BY <1>2, <2>1 DEF VerifyChain, HashHolds
    <2>7. ChainHash(r.text, r.prev) = ChainHash(w.text, w.prev)
      BY <1>2, <2>1, <2>5, <2>6
    <2>8. r.text = w.text /\ r.prev = w.prev
      BY <2>7 DEF ChainHash
    <2>9. Value(r.payload)
      BY <2>2 DEF Kept
    <2>10. SameJson(r.payload, w.payload)
      BY <2>5, <2>6, <2>8, <2>9, OneTextForOneValue DEF Value
    <2> QED BY <2>1, <2>8, <2>10
  <1> QED BY <1>2 DEF EntriesTell

\* A change under what is sealed or stored shows.
LEMMA ShowsIf ==
  ASSUME AuditInv
  PROVE  AnchorTells /\ RootTells
PROOF
  <1>1. Chain(truth) /\ IsSeq(truth) /\ IsSeq(rows) /\ \A i \in 1..Len(rows) : Kept(rows[i], truth)
    BY DEF AuditInv, RowsKept, Chain
  <1>2. ASSUME anchor # Absent
        PROVE  VerifyAnchor(anchor, rows) <=>
                 \A k \in DOMAIN truth : truth[k].version = 1 =>
                   \E j \in DOMAIN rows : rows[j].id = k /\ rows[j].hash = truth[k].hash
    <2>1. PICK m : OldRows(truth, m) /\ anchor = AnchorOver(truth, m)
      BY <1>2 DEF AuditInv, SealedAsWritten
    <2> QED BY <1>1, <2>1, AnchorFinds
  <1> DEFINE n == stored.count
             s == SubSeq(rows, 1, n)
             t == SubSeq(truth, 1, n)
  <1>3. ASSUME stored # Absent, VerifyChain(rows), n <= Len(rows), stored = Root(s)
        PROVE  s = t
    <2>1. PICK c \in 0..Len(truth) : stored = Root(SubSeq(truth, 1, c))
      BY <1>3 DEF AuditInv, SealedAsWritten
    <2>2. Len(truth) \in Nat /\ c \in Nat /\ c \in Int /\ c <= Len(truth) /\ Len(rows) \in Nat
      BY <1>1, SeqIs
    <2>3. /\ IsSeq(SubSeq(truth, 1, c)) /\ Len(SubSeq(truth, 1, c)) = IF 1 <= c THEN c - 1 + 1 ELSE 0
          /\ \A j \in 1..Len(SubSeq(truth, 1, c)) :
               1 + j - 1 \in 1..Len(truth) /\ SubSeq(truth, 1, c)[j] = truth[1 + j - 1]
      BY <1>1, <2>2, PartIs
    <2>4. (IF 1 <= c THEN c - 1 + 1 ELSE 0) = c
      BY <2>2
    <2>5. n = c
      <3>1. n = Len(SubSeq(truth, 1, c))
        BY <2>1 DEF Root
      <3> HIDE DEF n
      <3> QED BY <2>3, <2>4, <3>1
    <2> HIDE DEF n
    <2>6. /\ IsSeq(t) /\ Len(t) = n
          /\ \A j \in 1..n : 1 + j - 1 \in 1..Len(truth) /\ t[j] = truth[1 + j - 1]
      <3> HIDE DEF Chain
      <3>1. SubSeq(truth, 1, c) = t
        BY <2>5
      <3>2. Len(t) = n
        BY <2>3, <2>4, <2>5, <3>1
      <3> QED BY <2>3, <3>1, <3>2
    <2>7. /\ IsSeq(s) /\ Len(s) = IF 1 <= n THEN n - 1 + 1 ELSE 0
          /\ \A j \in 1..Len(s) : 1 + j - 1 \in 1..Len(rows) /\ s[j] = rows[1 + j - 1]
      BY <1>1, <1>3, <2>2, <2>5, PartIs
    <2>8. Root(s) = Root(t)
      BY <1>3, <2>1, <2>5
    <2> HIDE DEF s, t
    <2>9. Len(s) = n /\ n \in Nat
      BY <2>2, <2>4, <2>5, <2>7
    <2>10. \A i \in 1..n : /\ s[i].id = t[i].id /\ s[i].payload = t[i].payload
                           /\ s[i].prev = t[i].prev /\ s[i].hash = t[i].hash
      BY <2>6, <2>7, <2>8, <2>9, RootSays
    <2>11. \A i \in 1..n : /\ i \in 1..Len(rows) /\ s[i] = rows[i]
                           /\ i \in 1..Len(truth) /\ t[i] = truth[i]
      <3>1. \A i \in 1..n : 1 + i - 1 = i
        BY <2>9
      <3> QED BY <2>6, <2>7, <2>9, <3>1
    <2>12. ASSUME NEW i \in 1..n PROVE s[i] = t[i]
      <3>1. Kept(s[i], truth) /\ Wrote(t[i], i, LinkedTo(truth, i))
        BY <1>1, <2>11 DEF Chain
      <3>2. /\ s[i].id = t[i].id /\ s[i].payload = t[i].payload
            /\ s[i].prev = t[i].prev /\ s[i].hash = t[i].hash
        BY <2>10
      <3>3. s[i].version = t[i].version
        BY <2>11, <3>1, <3>2 DEF Kept, Wrote
      <3>4. s[i].text = t[i].text
        <4>1. CASE t[i].version = 1
          BY <3>1, <3>3, <4>1 DEF Kept, Wrote
        <4>2. CASE t[i].version = 2
          <5>1. t[i].hash = ChainHash(t[i].text, t[i].prev)
            BY <3>1, <4>2 DEF Wrote
          <5>2. HashHolds(s[i]) /\ ~IsLegacyRow(s[i])
            <6>1. HashHolds(s[i])
              BY <1>1, <1>3, <2>11, SeqIs DEF VerifyChain
            <6>2. s[i].version = 2 /\ s[i].text # Absent
              BY <3>1, <3>3, <4>2 DEF Kept
            <6> QED BY <6>1, <6>2 DEF IsLegacyRow, CurrentVersion
          <5>3. s[i].hash = ChainHash(s[i].text, s[i].prev)
            BY <5>2 DEF HashHolds
          <5>4. ChainHash(s[i].text, s[i].prev) = ChainHash(t[i].text, s[i].prev)
            BY <3>2, <5>1, <5>3
          <5> QED BY <5>4 DEF ChainHash
        <4> QED BY <3>1, <4>1, <4>2 DEF Wrote
      <3>5. IsRow(s[i]) /\ IsRow(t[i])
        BY <3>1 DEF Kept, Wrote
      <3> QED BY <3>2, <3>3, <3>4, <3>5 DEF IsRow
    <2> QED BY <2>6, <2>7, <2>9, <2>12, SameSeq
  <1>4. stored # Absent /\ VerifyChain(rows) /\ stored.count <= Len(rows) =>
          LET covered == SubSeq(rows, 1, stored.count)
          IN  stored = Root(covered) => covered = SubSeq(truth, 1, stored.count)
    BY <1>3
  <1> QED BY <1>2, <1>4 DEF AnchorTells, RootTells

\* An honest chain passes verification, and an altered one does not pass the part of it
\* that covers what was altered -- of a legacy row not under a root, its hash --: for any
\* payloads, however long the chain, however many changes are made behind its back.
THEOREM VerificationIsTelling == AuditSpec => []VerificationTells
PROOF
  <1>1. AuditInv => VerificationTells
    BY FaithfulIf, PassesIf, EntriesTellIf, ShowsIf DEF VerificationTells
  <1> QED BY <1>1, AuditInvariance, PTL
===============================================================================
