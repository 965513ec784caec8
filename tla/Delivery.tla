------------------------------- MODULE Delivery -------------------------------
(***************************************************************************)
(* An event on its way from the transaction that stages it to the handler  *)
(* of a worker: OutboxRelay.pump (packages/event-bus/src/outbox-relay.ts)  *)
(* in every gateway, the Redis stream of one topic, and the consumers of   *)
(* one group (RedisStreamsBus in packages/event-bus/src/index.ts).         *)
(*                                                                         *)
(* Rows of the outbox are numbered by created_at, entries of the stream by *)
(* their ids; both are worked through in that order, so that a batch is a  *)
(* set of numbers and its next member the least.  Trimming (MAXLEN) and    *)
(* entries without an envelope, which nothing here writes, are left out.   *)
(***************************************************************************)
EXTENDS Naturals, Sequences, FiniteSets

CONSTANTS
  Rows,        \* outbox rows, numbered by created_at
  Poison,      \* the rows whose publication always fails
  Relays,      \* gateways, each with its relay
  Consumers,   \* subscribers of the topic under one group
  None,
  BatchSize,   \* rows selected by a pump, entries read or claimed by a poll
  MaxFaults    \* bound: failed calls and crashes in a behaviour

ASSUME ConstantsAssumption ==
  /\ Rows \subseteq Nat /\ IsFiniteSet(Rows) /\ Poison \subseteq Rows
  /\ BatchSize \in Nat /\ Cardinality(Poison) < BatchSize
  /\ MaxFaults \in Nat /\ None \notin Nat

VARIABLES
  outbox,    \* a row: "absent", "unsent" (sent_at IS NULL), "sent"
  \* the transaction of a relay: the rows it has locked, those still to publish,
  \* those it has updated, and its next step
  locked, todo, marked, step,
  stream,    \* the entries ever added, each a row
  start,     \* the last entry before the group was created, or None
  last,      \* the last entry delivered to the group
  pending,   \* PEL: delivered and not acknowledged
  idle,      \* those pending for longer than claimIdleMs
  handled,   \* the entries a run of the handler has succeeded on
  dead,      \* the entries copied to the dead-letter stream
  \* a consumer: its next step, the entries in its hands, and whether it claimed
  \* or read them
  pc, batch, claimed,
  faults

relay    == <<locked, todo, marked, step>>
group    == <<start, last, pending, idle>>
outcome  == <<handled, dead>>
consumer == <<pc, batch, claimed>>
vars     == <<outbox, relay, stream, group, outcome, consumer, faults>>

Entries == DOMAIN stream

\* A failure publishes a batch once more.
MaxEntries == Cardinality(Rows \ Poison) * (MaxFaults + 1)

\* The n least members of a set of numbers, and the least.
FirstOf(S, n) == {x \in S : Cardinality({y \in S : y < x}) < n}
First(S)      == CHOOSE x \in S : \A y \in S : x <= y

Fails == faults < MaxFaults /\ faults' = faults + 1

-------------------------------------------------------------------------------

Init ==
  /\ outbox = [r \in Rows |-> "absent"]
  /\ locked = [p \in Relays |-> {}]
  /\ todo = [p \in Relays |-> {}]
  /\ marked = [p \in Relays |-> {}]
  /\ step = [p \in Relays |-> "idle"]
  /\ stream = <<>>
  /\ start = None /\ last = 0 /\ pending = {} /\ idle = {}
  /\ handled = {} /\ dead = {}
  /\ pc = [c \in Consumers |-> "down"]
  /\ batch = [c \in Consumers |-> {}]
  /\ claimed = [c \in Consumers |-> FALSE]
  /\ faults = 0

\* A transaction that staged a row commits.
Stage(r) ==
  /\ outbox[r] = "absent"
  /\ outbox' = [outbox EXCEPT ![r] = "unsent"]
  /\ UNCHANGED <<relay, stream, group, outcome, consumer, faults>>

(***************************************************************************)
(* OutboxRelay.pump                                                        *)
(***************************************************************************)

\* The batch a relay selects from the rows it can lock; an empty one commits at once.
Begin(p, rows) ==
  /\ step[p] = "idle"
  /\ rows # {}
  /\ locked' = [locked EXCEPT ![p] = rows]
  /\ todo' = [todo EXCEPT ![p] = rows]
  /\ marked' = [marked EXCEPT ![p] = {}]
  /\ step' = [step EXCEPT ![p] = "publish"]
  /\ UNCHANGED <<outbox, stream, group, outcome, consumer, faults>>

Unsent == {r \in Rows : outbox[r] = "unsent"}

\* SELECT ... ORDER BY created_at LIMIT ... FOR UPDATE SKIP LOCKED
Select(p) == Begin(p, FirstOf(Unsent \ UNION {locked[q] : q \in Relays}, BatchSize))

\* COMMIT or ROLLBACK: the locks go.
End(p) ==
  /\ locked' = [locked EXCEPT ![p] = {}]
  /\ todo' = [todo EXCEPT ![p] = {}]
  /\ marked' = [marked EXCEPT ![p] = {}]
  /\ step' = [step EXCEPT ![p] = "idle"]

\* After a row: the next one, or the commit.
NextRow(p) ==
  /\ todo' = [todo EXCEPT ![p] = @ \ {First(@)}]
  /\ step' = [step EXCEPT ![p] = IF todo'[p] = {} THEN "commit" ELSE "publish"]

\* XADD of the row's envelope.
AddEntry(p) == stream' = Append(stream, First(todo[p]))

\* A failed publication that rolls the batch back.
PublishSinking(p) ==
  /\ step[p] = "publish"
  /\ \/ /\ First(todo[p]) \notin Poison
        /\ AddEntry(p)
        /\ step' = [step EXCEPT ![p] = "mark"]
        /\ UNCHANGED <<locked, todo, marked>>
     \/ First(todo[p]) \in Poison /\ End(p) /\ UNCHANGED stream
  /\ UNCHANGED <<outbox, group, outcome, consumer, faults>>

\* Publish the next row; a failure leaves it unsent, whether or not the entry was added.
Publish(p) ==
  /\ step[p] = "publish"
  /\ \/ /\ First(todo[p]) \notin Poison
        /\ AddEntry(p)
        /\ step' = [step EXCEPT ![p] = "mark"]
        /\ UNCHANGED <<locked, todo, marked, faults>>
     \/ /\ First(todo[p]) \in Poison
        /\ NextRow(p)
        /\ UNCHANGED <<locked, marked, stream, faults>>
     \/ /\ First(todo[p]) \notin Poison
        /\ Fails
        /\ AddEntry(p) \/ UNCHANGED stream
        /\ NextRow(p)
        /\ UNCHANGED <<locked, marked>>
  /\ UNCHANGED <<outbox, group, outcome, consumer>>

\* UPDATE outbox SET sent_at; its failure rolls the whole batch back.
Mark(p) ==
  /\ step[p] = "mark"
  /\ \/ /\ marked' = [marked EXCEPT ![p] = @ \cup {First(todo[p])}]
        /\ NextRow(p)
        /\ UNCHANGED <<locked, faults>>
     \/ Fails /\ End(p)
  /\ UNCHANGED <<outbox, stream, group, outcome, consumer>>

\* COMMIT; when it fails, it may have been applied.
Commit(p) ==
  /\ step[p] = "commit"
  /\ \/ UNCHANGED faults
     \/ Fails
  /\ \/ outbox' = [r \in Rows |-> IF r \in marked[p] THEN "sent" ELSE outbox[r]]
     \/ faults' # faults /\ UNCHANGED outbox
  /\ End(p)
  /\ UNCHANGED <<stream, group, outcome, consumer>>

CrashRelay(p) ==
  /\ step[p] # "idle"
  /\ Fails
  /\ End(p)
  /\ UNCHANGED <<outbox, stream, group, outcome, consumer>>

(***************************************************************************)
(* RedisStreamsBus.subscribe, poll, reclaimStale, processEntry             *)
(***************************************************************************)

\* XGROUP CREATE at "$", unless the group exists; then the poll loop starts.
Subscribe(c) ==
  /\ pc[c] = "down"
  /\ pc' = [pc EXCEPT ![c] = "reclaim"]
  /\ IF start = None
       THEN start' = Len(stream) /\ last' = Len(stream)
       ELSE UNCHANGED <<start, last>>
  /\ UNCHANGED <<outbox, relay, stream, pending, idle, outcome, batch, claimed, faults>>

\* The loop after a batch, or after a call in it threw: a claimed one is followed
\* by a read, a read one by the next claim.
NextPoll(c, afterClaim) ==
  /\ pc' = [pc EXCEPT ![c] = IF afterClaim THEN "read" ELSE "reclaim"]
  /\ batch' = [batch EXCEPT ![c] = {}]
  /\ claimed' = [claimed EXCEPT ![c] = FALSE]

Receive(c, ids, byClaim) ==
  IF ids = {}
    THEN NextPoll(c, byClaim)
    ELSE /\ pc' = [pc EXCEPT ![c] = "handle"]
         /\ batch' = [batch EXCEPT ![c] = ids]
         /\ claimed' = [claimed EXCEPT ![c] = byClaim]
       
\* The clock: a pending entry has been idle for claimIdleMs, whether its consumer
\* has died or is still at work on it or on the ones before.
Age(i) ==
  /\ i \in pending \ idle
  /\ idle' = idle \cup {i}
  /\ UNCHANGED <<outbox, relay, stream, start, last, pending, outcome, consumer, faults>>

\* No claim: what a dead consumer held stays with it.
ReclaimNothing(c) ==
  /\ pc[c] = "reclaim"
  /\ Receive(c, {}, TRUE)
  /\ UNCHANGED <<outbox, relay, stream, group, outcome, faults>>

\* XAUTOCLAIM, which resets their idle time.
Reclaim(c) ==
  /\ pc[c] = "reclaim"
  /\ Receive(c, FirstOf(idle, BatchSize), TRUE)
  /\ idle' = idle \ FirstOf(idle, BatchSize)
  /\ UNCHANGED <<outbox, relay, stream, start, last, pending, outcome, faults>>

\* XREADGROUP with ">".  When the answer is lost, the entries are delivered to nobody.
Read(c) ==
  /\ pc[c] = "read"
  /\ LET ids == FirstOf({i \in Entries : i > last}, BatchSize)
     IN  /\ pending' = pending \cup ids
         /\ last' = last + Cardinality(ids)
         /\ \/ Receive(c, ids, FALSE) /\ UNCHANGED faults
            \/ ids # {} /\ Fails /\ NextPoll(c, FALSE)
  /\ UNCHANGED <<outbox, relay, stream, start, idle, outcome>>

\* A handler that has failed for the last time and is not parked.
HandleGivingUp(c) ==
  /\ pc[c] = "handle"
  /\ handled' \in {handled, handled \cup {First(batch[c])}}
  /\ pc' = [pc EXCEPT ![c] = "ack"]
  /\ UNCHANGED <<outbox, relay, stream, group, dead, batch, claimed, faults>>

\* The handler, run up to maxRetries times: one run succeeds, or all have thrown.
Handle(c) ==
  /\ pc[c] = "handle"
  /\ \/ /\ handled' = handled \cup {First(batch[c])}
        /\ pc' = [pc EXCEPT ![c] = "ack"]
     \/ pc' = [pc EXCEPT ![c] = "park"] /\ UNCHANGED handled
  /\ UNCHANGED <<outbox, relay, stream, group, dead, batch, claimed, faults>>

\* XADD to the dead-letter stream; its failure ends the batch.
Park(c) ==
  /\ pc[c] = "park"
  /\ \/ /\ dead' = dead \cup {First(batch[c])}
        /\ pc' = [pc EXCEPT ![c] = "ack"]
        /\ UNCHANGED <<batch, claimed, faults>>
     \/ /\ Fails
        /\ dead' \in {dead, dead \cup {First(batch[c])}}
        /\ NextPoll(c, claimed[c])
  /\ UNCHANGED <<outbox, relay, stream, group, handled>>

\* XACK, and on to the next entry; its failure ends the batch.
Ack(c) ==
  LET i == First(batch[c])
  IN  /\ pc[c] = "ack"
      /\ \/ /\ Receive(c, batch[c] \ {i}, claimed[c])
            /\ UNCHANGED faults
         \/ /\ Fails
            /\ NextPoll(c, claimed[c])
      /\ \/ pending' = pending \ {i} /\ idle' = idle \ {i}
         \/ faults' # faults /\ UNCHANGED <<pending, idle>>
      /\ UNCHANGED <<outbox, relay, stream, start, last, outcome>>

\* The process of a consumer dies; its next one has a new name.
CrashConsumer(c) ==
  /\ pc[c] # "down"
  /\ Fails
  /\ pc' = [pc EXCEPT ![c] = "down"]
  /\ batch' = [batch EXCEPT ![c] = {}]
  /\ claimed' = [claimed EXCEPT ![c] = FALSE]
  /\ UNCHANGED <<outbox, relay, stream, group, outcome>>

-------------------------------------------------------------------------------

RelayStep(p)    == Select(p) \/ Publish(p) \/ Mark(p) \/ Commit(p)
ConsumerStep(c) == Subscribe(c) \/ Reclaim(c) \/ Read(c) \/ Handle(c) \/ Park(c) \/ Ack(c)
AgeStep         == \E i \in pending : Age(i)

Next ==
  \/ \E r \in Rows : Stage(r)
  \/ \E p \in Relays : RelayStep(p) \/ CrashRelay(p)
  \/ \E c \in Consumers : ConsumerStep(c) \/ CrashConsumer(c)
  \/ AgeStep

\* Time passes, the relays' timers and the consumers' loops go on, and a consumer
\* that died is restarted.
Fairness ==
  /\ \A p \in Relays : WF_vars(RelayStep(p))
  /\ \A c \in Consumers : WF_vars(ConsumerStep(c))
  /\ WF_vars(AgeStep)

Spec == Init /\ [][Next]_vars /\ Fairness

-------------------------------------------------------------------------------

Redis == INSTANCE Topic WITH
  Lasts   <- TRUE,
  added   <- Len(stream),
  open    <- start # None,
  owed    <- IF start = None THEN {} ELSE pending \cup {i \in Entries : i > last},
  done    <- handled \cup dead,
  settled <- start # None /\ \E i \in (start + 1)..last : i \notin pending

(***************************************************************************)
(* The consumers of a group keep what Topic owes: an entry that is         *)
(* acknowledged was handled or is in the dead-letter stream, whatever was  *)
(* claimed from whom in between, and whoever dies (event-bus/src/index.ts: *)
(* 303-338, 341-376).                                                      *)
(***************************************************************************)
RedisTopic == Redis!Init /\ [][Redis!Next]_(Redis!vars)

\* A committed row is sent, even behind rows that cannot be, and only what the
\* stream has counts as sent: "One failure must not sink the batch".
RowsDrain ==
  \A r \in Rows \ Poison :
    outbox[r] = "unsent" ~> outbox[r] = "sent" /\ \E i \in Entries : stream[i] = r

\* An entry added after the group was created is handled or parked, also if the
\* consumer it was delivered to dies.
EntriesDone ==
  \A i \in 1..MaxEntries :
    (start # None /\ i \in Entries /\ i > start) ~> i \in handled \cup dead
===============================================================================
