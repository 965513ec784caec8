-------------------------------- MODULE Ledger --------------------------------
(***************************************************************************)
(* The hash chain of one contract: append_ledger and                       *)
(* append_ledger_and_outbox (infra/migrations/postgres/V009), the client   *)
(* methods that call them (packages/ledger-client/src/index.ts), and the   *)
(* sealing and signing of the chain's Merkle root.                         *)
(*                                                                         *)
(* A session is a pooled database connection, in a process of its own or   *)
(* not; it serves one append at a time.  append_ledger takes an advisory   *)
(* lock of the SESSION, reads the tail, inserts and unlocks; each of its   *)
(* statements reads what is committed then, and the entry it inserted is   *)
(* seen by others only when the surrounding transaction commits -- after   *)
(* the unlock.                                                             *)
(*                                                                         *)
(* Hashes are free (module Merkle), and no two payloads are equal, so an   *)
(* entry's current_hash is known by its ledger_id, and previous_hash is    *)
(* the id of the entry it links to, 0 for GENESIS.                         *)
(***************************************************************************)
EXTENDS Merkle, FiniteSets

CONSTANTS
  Sessions,
  Sealers,     \* requests that seal or sign the root at the same time
  None,
  Faults,      \* the operations that may fail, see AllFaults
  Histories,   \* lengths of the chain the contract may have to begin with
  MaxCalls,    \* bound: appends called for in a behaviour
  MaxFaults    \* bound: failures in a behaviour

AllFaults ==
  {"insert",     \* the INSERT of append_ledger is refused
   "stage",      \* a statement after it in the same transaction is
   "connection"} \* the session's connection is lost

ASSUME ConstantsAssumption ==
  /\ Faults \subseteq AllFaults
  /\ Histories \subseteq Nat
  /\ MaxCalls \in Nat /\ MaxFaults \in Nat
  /\ None \notin Sessions \cup Sealers \cup Nat

VARIABLES
  chain,    \* the committed entries: their id, the id they link to, their call
  outbox,   \* the committed outbox rows, by the call that staged them
  lastId,   \* the ledger_id sequence
  depth,    \* how often a session holds the contract's advisory lock
  pc, mode, call, tail,   \* what a session is doing for its current call
  draft,    \* the entries of a session's open transaction
  staged,   \* the outbox rows of a session's open transaction
  calls,    \* calls made so far
  failures,
  root,     \* the row of merkle_roots, None before the first seal
  signed,   \* the root the stored signature was made over, or None
  sealer, copy   \* a sealer's next step, and the root it has read

session == <<pc, mode, call, tail, draft, staged, calls, depth>>
seal    == <<root, signed, sealer, copy>>
vars    == <<chain, outbox, lastId, session, failures, seal>>

Modes == {"append", "appendWith", "outbox", "fallback"}

Goto(s, step) == pc' = [pc EXCEPT ![s] = step]

Fails(op) == op \in Faults /\ failures < MaxFaults /\ failures' = failures + 1

Ids(entries) == {e.id : e \in entries}

\* getChain: the committed rows ORDER BY ledger_id; the i-th is the one with i rows
\* up to and including it.
GetChain ==
  [i \in 1..Cardinality(chain) |->
     CHOOSE e \in chain : Cardinality({d \in chain : d.id <= e.id}) = i]

-------------------------------------------------------------------------------

\* Entries appended one after another by calls of the past, which count as call 0.
History(n) == {[id |-> i, prev |-> i - 1, call |-> 0] : i \in 1..n}

Init ==
  /\ \E n \in Histories : chain = History(n) /\ lastId = n
  /\ outbox = {}
  /\ depth = [s \in Sessions |-> 0]
  /\ pc = [s \in Sessions |-> "idle"]
  /\ mode = [s \in Sessions |-> None]
  /\ call = [s \in Sessions |-> 0]
  /\ tail = [s \in Sessions |-> 0]
  /\ draft = [s \in Sessions |-> {}]
  /\ staged = [s \in Sessions |-> {}]
  /\ calls = 0
  /\ failures = 0
  /\ root = None
  /\ signed = None
  /\ sealer = [a \in Sealers |-> "idle"]
  /\ copy = [a \in Sealers |-> None]

(***************************************************************************)
(* Appending.                                                              *)
(***************************************************************************)

\* A call of append, appendWith or appendWithOutbox gets a session.
Call(s) ==
  /\ pc[s] = "idle" /\ calls < MaxCalls
  /\ calls' = calls + 1
  /\ call' = [call EXCEPT ![s] = calls + 1]
  /\ \E m \in Modes \ {"fallback"} : mode' = [mode EXCEPT ![s] = m]
  /\ Goto(s, "lock")
  /\ UNCHANGED <<chain, outbox, lastId, tail, draft, staged, depth, failures, seal>>

\* pg_advisory_lock: granted again to the session that holds it.
Lock(s) ==
  /\ pc[s] = "lock"
  /\ \A t \in Sessions \ {s} : depth[t] = 0
  /\ depth' = [depth EXCEPT ![s] = @ + 1]
  /\ Goto(s, "read")
  /\ UNCHANGED <<chain, outbox, lastId, mode, call, tail, draft, staged, calls, failures, seal>>

\* The newest entry the session can see; GENESIS if there is none.
ReadTail(s) ==
  /\ pc[s] = "read"
  /\ \E i \in {0} \cup Ids(chain) :
       /\ \A e \in chain : e.id <= i
       /\ tail' = [tail EXCEPT ![s] = i]
  /\ Goto(s, "insert")
  /\ UNCHANGED <<chain, outbox, lastId, mode, call, draft, staged, calls, depth, failures, seal>>

\* The call is over; what its transaction did not commit is gone.
Finish(s) ==
  /\ Goto(s, "idle")
  /\ mode' = [mode EXCEPT ![s] = None]
  /\ call' = [call EXCEPT ![s] = 0]
  /\ tail' = [tail EXCEPT ![s] = 0]
  /\ draft' = [draft EXCEPT ![s] = {}]
  /\ staged' = [staged EXCEPT ![s] = {}]

\* A failed statement that leaves what ran before it in place.
ThrowKeeping(s) ==
  \/ mode[s] # "outbox" /\ Finish(s)
  \/ /\ mode[s] = "outbox"
     /\ mode' = [mode EXCEPT ![s] = "fallback"]
     /\ Goto(s, "lock")
     /\ UNCHANGED <<call, tail, draft, staged>>

\* A statement throws.  The transaction rolls back, which leaves a session lock
\* alone; appendWithOutbox then repeats its work by hand, every other call throws.
Throw(s) ==
  \/ mode[s] # "outbox" /\ Finish(s)
  \/ /\ mode[s] = "outbox"
     /\ mode' = [mode EXCEPT ![s] = "fallback"]
     /\ Goto(s, "lock")
     /\ tail' = [tail EXCEPT ![s] = 0]
     /\ draft' = [draft EXCEPT ![s] = {}]
     /\ staged' = [staged EXCEPT ![s] = {}]
     /\ UNCHANGED call

\* The INSERT: it draws its id whether or not it is accepted.
Insert(s) ==
  /\ pc[s] = "insert"
  /\ lastId' = lastId + 1
  /\ \/ /\ draft' = [draft EXCEPT ![s] =
                       @ \cup {[id |-> lastId + 1, prev |-> tail[s], call |-> call[s]]}]
        /\ Goto(s, "unlock")
        /\ UNCHANGED <<mode, call, tail, staged, failures>>
     \/ Fails("insert") /\ Throw(s)
  /\ UNCHANGED <<chain, outbox, calls, depth, seal>>

\* pg_advisory_unlock, before the commit.
Unlock(s) ==
  /\ pc[s] = "unlock"
  /\ depth' = [depth EXCEPT ![s] = @ - 1]
  /\ Goto(s, CASE mode[s] = "append"     -> "commit"
               [] mode[s] = "appendWith" -> "open"
               [] OTHER                  -> "stage")
  /\ UNCHANGED <<chain, outbox, lastId, mode, call, tail, draft, staged, calls, failures, seal>>

\* The outbox row of an event.
Stage(s) ==
  /\ pc[s] = "stage"
  /\ \/ /\ staged' = [staged EXCEPT ![s] = @ \cup {call[s]}]
        /\ Goto(s, "commit")
        /\ UNCHANGED <<mode, call, tail, draft, failures>>
     \/ Fails("stage") /\ Throw(s)
  /\ UNCHANGED <<chain, outbox, lastId, calls, depth, seal>>

\* The caller's other statements in appendWith (or commitSettlement), which may
\* throw and roll the entry back.
Proceed(s) ==
  /\ pc[s] = "open"
  /\ \/ Goto(s, "commit") /\ UNCHANGED <<mode, call, tail, draft, staged, failures>>
     \/ Fails("stage") /\ Throw(s)
  /\ UNCHANGED <<chain, outbox, lastId, calls, depth, seal>>

\* COMMIT, explicit or at the end of the statement.
Commit(s) ==
  /\ pc[s] = "commit"
  /\ chain' = chain \cup draft[s]
  /\ outbox' = outbox \cup staged[s]
  /\ Finish(s)
  /\ UNCHANGED <<lastId, calls, depth, failures, seal>>

\* The connection is lost: the server ends the session and frees its locks, and
\* a COMMIT under way may or may not have taken effect.  A dead client runs no
\* fallback.
Disconnect(s) ==
  /\ pc[s] # "idle"
  /\ Fails("connection")
  /\ \/ UNCHANGED <<chain, outbox>>
     \/ pc[s] = "commit" /\ chain' = chain \cup draft[s] /\ outbox' = outbox \cup staged[s]
  /\ depth' = [depth EXCEPT ![s] = 0]
  /\ Finish(s)
  /\ UNCHANGED <<lastId, calls, seal>>

\* The pool closes an idle connection, and with it a lock left behind on it.
Reap(s) ==
  /\ pc[s] = "idle" /\ depth[s] > 0
  /\ depth' = [depth EXCEPT ![s] = 0]
  /\ UNCHANGED <<chain, outbox, lastId, pc, mode, call, tail, draft, staged, calls, failures, seal>>

(***************************************************************************)
(* Sealing and signing.                                                    *)
(***************************************************************************)

appending == <<chain, outbox, lastId, session, failures>>

SealerGoto(a, step) == sealer' = [sealer EXCEPT ![a] = step]

Leaf(e) == HashLeaf(e)

RootOf(entries) ==
  [hash |-> ComputeRoot([i \in DOMAIN entries |-> Leaf(entries[i])]), count |-> Len(entries)]

\* computeAndStoreRoot reads the chain and computes its root ...
ReadChain(a) ==
  /\ sealer[a] = "idle"
  /\ copy' = [copy EXCEPT ![a] = RootOf(GetChain)]
  /\ SealerGoto(a, "store")
  /\ UNCHANGED <<appending, root, signed>>

\* ... and upserts it later, whatever is stored by then, without a signature.
StoreRoot(a) ==
  /\ sealer[a] = "store"
  /\ root' = copy[a]
  /\ signed' = None
  /\ copy' = [copy EXCEPT ![a] = None]
  /\ SealerGoto(a, "sign")
  /\ UNCHANGED appending

\* POST /root/sign, after a seal or by hand: an unsigned root goes to the signer.
GetRoot(a) ==
  /\ sealer[a] \in {"idle", "sign"} /\ root # None
  /\ \/ /\ signed = None
        /\ copy' = [copy EXCEPT ![a] = root]
        /\ SealerGoto(a, "signature")
     \/ /\ signed # None
        /\ UNCHANGED copy
        /\ SealerGoto(a, "idle")
  /\ UNCHANGED <<appending, root, signed>>

\* A signature written under no condition.
StoreSignatureUnguarded(a) ==
  /\ sealer[a] = "signature"
  /\ signed' = copy[a]
  /\ copy' = [copy EXCEPT ![a] = None]
  /\ SealerGoto(a, "idle")
  /\ UNCHANGED <<appending, root>>

\* storeRootSignature: written only if the root is still the one that was signed;
\* or the signer did not answer.
StoreSignature(a) ==
  /\ sealer[a] = "signature"
  /\ signed' \in {signed, IF root = copy[a] THEN copy[a] ELSE signed}
  /\ copy' = [copy EXCEPT ![a] = None]
  /\ SealerGoto(a, "idle")
  /\ UNCHANGED <<appending, root>>

SessionStep(s) ==
  \/ Lock(s) \/ ReadTail(s) \/ Insert(s) \/ Unlock(s) \/ Stage(s) \/ Proceed(s)
  \/ Commit(s)

Next ==
  \/ \E s \in Sessions : Call(s) \/ SessionStep(s) \/ Disconnect(s) \/ Reap(s)
  \/ \E a \in Sealers : ReadChain(a) \/ StoreRoot(a) \/ GetRoot(a) \/ StoreSignature(a)

Spec == Init /\ [][Next]_vars

-------------------------------------------------------------------------------

Entry == [id : Nat, prev : Nat, call : 0..MaxCalls]

\* Every variable has its type; the hashes in root, signed and copy are terms of
\* no fixed shape, so only their leaf counts are given one.
TypeOK ==
  /\ chain \in SUBSET Entry
  /\ outbox \in SUBSET (1..MaxCalls)
  /\ lastId \in Nat
  /\ depth \in [Sessions -> Nat]
  /\ pc \in [Sessions -> {"idle", "lock", "read", "insert", "unlock", "stage", "open", "commit"}]
  /\ mode \in [Sessions -> Modes \cup {None}]
  /\ call \in [Sessions -> 0..MaxCalls]
  /\ tail \in [Sessions -> Nat]
  /\ draft \in [Sessions -> SUBSET Entry]
  /\ staged \in [Sessions -> SUBSET (1..MaxCalls)]
  /\ calls \in 0..MaxCalls
  /\ failures \in 0..MaxFaults
  /\ sealer \in [Sealers -> {"idle", "store", "sign", "signature"}]

\* Every committed entry links to GENESIS or to an older committed entry: what was
\* rolled back, or lost with a connection, is never linked to.
LinkedToCommitted ==
  \A e \in chain : e.prev = 0 \/ \E d \in chain : d.id = e.prev /\ d.id < e.id

\* appendWithOutbox, its fallback included, appends at most one entry a call, and
\* an event is in the outbox only with its entry.
CallAppendsOnce ==
  /\ \A d, e \in chain : d.call = e.call /\ e.call # 0 => d = e
  /\ \A c \in outbox : \E e \in chain : e.call = c

\* An entry appended through the outbox is never committed without its event.
\* (A call in progress still knows how it appends; a finished one is known by
\* having returned.)
EventWithEntry ==
  [][\A s \in Sessions :
       mode[s] \in {"outbox", "fallback"} =>
         \A e \in chain' \ chain : e.call = call[s] => call[s] \in outbox']_vars

\* "a stale signature can never be presented as covering the current tree": a
\* signature that is stored was made over the root that is stored, however seals
\* and signing requests overlap.
SignatureCoversRoot == signed # None => signed = root

\* Two chains of which one is a beginning of the other, or that differ in a
\* repeated last entry, have different roots; and the proof of an entry verifies
\* for that entry and no other.
TreeIsSound ==
  LET leaves == [i \in DOMAIN GetChain |-> Leaf(GetChain[i])]
      rootOf(n) == ComputeRoot(SubSeq(leaves, 1, n))
      indices == 0..(Len(leaves) - 1)
  IN /\ \A m, n \in 0..Len(leaves) : rootOf(m) = rootOf(n) => m = n
     /\ leaves # <<>> => ComputeRoot(Append(leaves, Last(leaves))) # ComputeRoot(leaves)
     /\ \A i, j \in indices :
          VerifyInclusion(leaves[j + 1], InclusionPath(leaves, i), ComputeRoot(leaves)) <=> i = j

\* V002, append_ledger: "serialise appends per contract, preventing hash-chain forks
\* under concurrent writes".  verifyChainDetailed then finds each entry linked to
\* the one before it.
ChainVerifies ==
  \A i \in DOMAIN GetChain :
    GetChain[i].prev = IF i = 1 THEN 0 ELSE GetChain[i - 1].id
===============================================================================
