------------------------------- MODULE KafkaBus -------------------------------
(***************************************************************************)
(* The other transport: KafkaBus in packages/event-bus/src/index.ts, for   *)
(* one partition of a topic and the consumer that is assigned to it.       *)
(* kafkajs and the broker are modelled from their use: a consumer starts   *)
(* where the group has committed, or at the end of the log (fromBeginning: *)
(* false); an offset is committed some time after eachMessage resolved;    *)
(* a consumer whose eachMessage was rejected fetches the message again, or *)
(* gives up and joins anew.                                                *)
(***************************************************************************)
EXTENDS Naturals, FiniteSets

CONSTANTS
  NoOffset,
  Unparsable,    \* messages that are no JSON
  MaxLog,        \* bound: messages published
  MaxBreaks      \* bound: failed calls, restarts and crashes

ASSUME KafkaAssumption == NoOffset \notin Nat /\ Unparsable \subseteq Nat /\ MaxLog \in Nat /\ MaxBreaks \in Nat

VARIABLES
  log,         \* messages in the partition
  committed,   \* the group's offset: messages it will not get again, or NoOffset
  member,      \* "down", "connected", "joining", "polling", "handling", "parking"
  position,    \* messages the consumer has been through
  base,        \* where it started when nothing was committed
  ready,       \* its subscribe() has resolved
  topics,      \* the cluster has the dead-letter topic
  processed,   \* messages on which a run of the handler has succeeded
  parked,      \* messages in the dead-letter topic
  breaks

kvars == <<log, committed, member, position, base, ready, topics, processed, parked, breaks>>

\* eventBusOptionsFromConfig, createEventBus: one transport per deployment.
Transport(setting) == IF setting = "kafka" THEN "kafka" ELSE "redis"

Breaks == breaks < MaxBreaks /\ breaks' = breaks + 1

KInit ==
  /\ log = 0 /\ committed = NoOffset
  /\ member = "down" /\ position = 0 /\ base = 0 /\ ready = FALSE /\ topics = FALSE
  /\ processed = {} /\ parked = {} /\ breaks = 0

\* publish: a send that fails is the caller's to repeat; the message may be there.
Send ==
  /\ log < MaxLog
  /\ log' = log + 1
  /\ UNCHANGED <<committed, member, position, base, ready, topics, processed, parked, breaks>>

\* subscribe: the producer, both topics and the consumer, before any message is asked
\* for. A failure to create the topics is logged, and they count as ensured.
Connect ==
  /\ member = "down" /\ member' = "connected"
  /\ \/ topics' = TRUE /\ UNCHANGED breaks
     \/ ~topics /\ Breaks /\ UNCHANGED topics
  /\ UNCHANGED <<log, committed, position, base, ready, processed, parked>>

\* consumer.run: the handler is in place, the group not joined yet.
Run ==
  /\ member = "connected"
  /\ member' = "joining"
  /\ UNCHANGED <<log, committed, position, base, ready, topics, processed, parked, breaks>>

\* GROUP_JOIN: the consumer has its position, and subscribe() resolves.
Join ==
  /\ member = "joining"
  /\ member' = "polling" /\ ready' = TRUE
  /\ position' = IF committed = NoOffset THEN log ELSE committed
  /\ base' = position'
  /\ UNCHANGED <<log, committed, topics, processed, parked, breaks>>

\* eachMessage is called with the next one.
Fetch ==
  /\ member = "polling" /\ position < log
  /\ member' = IF position + 1 \in Unparsable THEN "parking" ELSE "handling"
  /\ UNCHANGED <<log, committed, position, base, ready, topics, processed, parked, breaks>>

Resolved == member' = "polling" /\ position' = position + 1

\* runWithRetries: a run of the handler succeeds, or the last one has thrown.
RunWithRetries ==
  /\ member = "handling"
  /\ \/ processed' = processed \cup {position + 1} /\ Resolved
     \/ member' = "parking" /\ UNCHANGED <<processed, position>>
  /\ UNCHANGED <<log, committed, base, ready, topics, parked, breaks>>

\* A failed send to the dead-letter topic that is logged.
SendToDlqForgiving ==
  /\ member = "parking" /\ Resolved
  /\ \/ parked' = parked \cup {position + 1} /\ UNCHANGED breaks
     \/ Breaks /\ UNCHANGED parked
  /\ UNCHANGED <<log, committed, base, ready, topics, processed>>

\* sendToDlq: its failure rejects eachMessage, and the message is fetched again.
SendToDlq ==
  /\ member = "parking"
  /\ \/ topics /\ parked' = parked \cup {position + 1} /\ Resolved /\ UNCHANGED breaks
     \/ ~topics /\ member' = "polling" /\ UNCHANGED <<parked, position, breaks>>
     \/ topics /\ Breaks /\ member' = "polling" /\ UNCHANGED <<parked, position>>
  /\ UNCHANGED <<log, committed, base, ready, topics, processed>>

\* Auto-commit of what eachMessage has resolved.
CommitOffset ==
  /\ member \in {"polling", "handling", "parking"}
  /\ position > base \/ committed # NoOffset
  /\ committed' = position /\ committed # position
  /\ UNCHANGED <<log, member, position, base, ready, topics, processed, parked, breaks>>

\* The consumer joins anew, in this process or, after a crash or a close(), in another;
\* what it has not committed is forgotten.
Restart ==
  /\ member \notin {"down", "connected"} /\ Breaks
  /\ member' \in {"joining", "down"}
  /\ ready' = FALSE /\ position' = 0 /\ base' = 0
  /\ UNCHANGED <<log, committed, topics, processed, parked>>

KNext == Send \/ Connect \/ Run \/ Join \/ Fetch \/ RunWithRetries \/ SendToDlq \/ CommitOffset \/ Restart

KSpec == KInit /\ [][KNext]_kvars

-------------------------------------------------------------------------------
Owed == IF committed # NoOffset THEN (committed + 1)..log
        ELSE IF member \in {"polling", "handling", "parking"} THEN (base + 1)..log ELSE {}

Kafka == INSTANCE Topic WITH
  Lasts   <- FALSE,
  added   <- log,
  open    <- ready \/ committed # NoOffset,
  owed    <- Owed,
  done    <- processed \cup parked,
  settled <- committed # NoOffset

(***************************************************************************)
(* KafkaBus keeps what Topic owes: every message sent after subscribe()    *)
(* resolved is handled or parked before the group's offset passes it -     *)
(* unless the consumer rejoins a group that has committed nothing, which   *)
(* starts at the end of the log (event-bus/src/index.ts:613-622, 684-701). *)
(***************************************************************************)
KafkaTopic == Kafka!Init /\ [][Kafka!Next]_(Kafka!vars)
===============================================================================
