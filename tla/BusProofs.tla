------------------------------- MODULE BusProofs -------------------------------
(***************************************************************************)
(* Both transports of the bus implement Topic, for any number of events,   *)
(* consumers, failures and crashes: KafkaBus the group that is forgotten   *)
(* while it has committed nothing, Delivery the one that lasts.            *)
(***************************************************************************)
EXTENDS Delivery, KafkaBus, FiniteSetTheorems, SequenceTheorems, WellFoundedInduction, TLAPS

\* The consumer has joined and gets messages.
Joined == member \in {"polling", "handling", "parking"}

KTyped ==
  /\ log \in Nat /\ position \in Nat /\ base \in Nat /\ committed \in Nat \cup {NoOffset}
  /\ member \in {"down", "connected", "joining", "polling", "handling", "parking"}
  /\ ready \in BOOLEAN /\ (ready <=> Joined)

\* Where the consumer is lies between where it began, what the group has committed
\* and the end of the log, with a message in its hands while it works on one.
PositionInLog ==
  /\ committed # NoOffset => committed <= log
  /\ Joined => /\ base <= position /\ position <= log
               /\ committed # NoOffset => base <= committed /\ committed <= position
  /\ member \in {"handling", "parking"} => position < log

\* What it has been through since it joined is handled or parked.
PassedIsDone == Joined => \A i \in (base + 1)..position : i \in processed \cup parked

KInv == KTyped /\ PositionInLog /\ PassedIsDone

-------------------------------------------------------------------------------
LEMMA KInvariant == KSpec => []KInv
PROOF
  <1>1. KInit => KInv
    <2> SUFFICES ASSUME KInit PROVE KInv
      OBVIOUS
    <2>1. KTyped
      BY DEF KInit, KTyped, Joined
    <2>2. PositionInLog /\ PassedIsDone
      BY DEF KInit, Joined, PositionInLog, PassedIsDone
    <2> QED BY <2>1, <2>2 DEF KInv
  <1>2. KInv /\ [KNext]_kvars => KInv'
    <2> SUFFICES ASSUME KInv, [KNext]_kvars PROVE KInv'
      OBVIOUS
    <2> USE KafkaAssumption DEF KInv, KTyped, Joined, PositionInLog, PassedIsDone
    <2>1. CASE Send
      BY <2>1 DEF Send
    <2>2. CASE Connect
      BY <2>2 DEF Connect
    <2>3. CASE Run
      BY <2>3 DEF Run
    <2>4. CASE Join
      BY <2>4 DEF Join
    <2>5. CASE Fetch
      BY <2>5 DEF Fetch
    <2>6. CASE RunWithRetries
      BY <2>6 DEF RunWithRetries, Resolved
    <2>7. CASE SendToDlq
      BY <2>7 DEF SendToDlq, Resolved
    <2>8. CASE CommitOffset
      BY <2>8 DEF CommitOffset
    <2>9. CASE Restart
      BY <2>9 DEF Restart
    <2>10. CASE UNCHANGED kvars
      BY <2>10 DEF kvars
    <2> QED BY <2>1, <2>2, <2>3, <2>4, <2>5, <2>6, <2>7, <2>8, <2>9, <2>10 DEF KNext
  <1> QED BY <1>1, <1>2, PTL DEF KSpec

\* Each step of the consumer and of the broker is one of the topic's, or none.
LEMMA KafkaSteps ==
  ASSUME KInv, [KNext]_kvars
  PROVE  [Kafka!Next]_(Kafka!vars)
PROOF
  <1> USE KafkaAssumption DEF KInv, KTyped, Joined, PositionInLog, PassedIsDone, Owed, Kafka!vars
  <1>1. CASE Send
    <2>0. \A n \in Nat : n <= log => (n + 1)..(log + 1) = ((n + 1)..log) \cup {log + 1}
      OBVIOUS
    <2>1. Kafka!Add
      <3>1. log' = log + 1 /\ UNCHANGED <<committed, member, position, base, ready, processed, parked>>
        BY <1>1 DEF Send
      <3>2. Owed' = IF ready \/ committed # NoOffset THEN Owed \cup {log'} ELSE Owed
        <4>1. CASE committed # NoOffset
          BY <2>0, <3>1, <4>1
        <4>2. CASE committed = NoOffset /\ Joined
          <5>1. Owed = (base + 1)..log /\ Owed' = (base + 1)..(log + 1) /\ ready /\ base <= log
            BY <3>1, <4>2
          <5> QED BY <2>0, <3>1, <5>1
        <4>3. CASE committed = NoOffset /\ ~Joined
          BY <3>1, <4>3
        <4> QED BY <4>1, <4>2, <4>3
      <3> QED BY <3>1, <3>2 DEF Kafka!Add
    <2> QED BY <2>1 DEF Kafka!Next
  <1>2. CASE Connect \/ Run \/ Fetch
    BY <1>2 DEF Connect, Run, Fetch
  <1>3. CASE Join
    <2>1. CASE committed = NoOffset
      <3>1. Kafka!Open
        BY <1>3, <2>1 DEF Join, Kafka!Open
      <3> QED BY <3>1 DEF Kafka!Next
    <2>2. CASE committed # NoOffset
      BY <1>3, <2>2 DEF Join
    <2> QED BY <2>1, <2>2
  <1>4. CASE RunWithRetries
    <2>1. CASE processed' = processed \cup {position + 1} /\ Resolved
      <3>1. Kafka!Do
        BY <1>4, <2>1 DEF RunWithRetries, Resolved, Kafka!Do
      <3> QED BY <3>1 DEF Kafka!Next
    <2>2. CASE member' = "parking" /\ UNCHANGED <<processed, position>>
      BY <1>4, <2>2 DEF RunWithRetries
    <2> QED BY <1>4, <2>1, <2>2 DEF RunWithRetries
  <1>5. CASE SendToDlq
    <2>1. CASE parked' = parked \cup {position + 1} /\ Resolved
      <3>1. Kafka!Do
        BY <1>5, <2>1 DEF SendToDlq, Resolved, Kafka!Do
      <3> QED BY <3>1 DEF Kafka!Next
    <2>2. CASE member' = "polling" /\ UNCHANGED <<parked, position>>
      BY <1>5, <2>2 DEF SendToDlq
    <2> QED BY <1>5, <2>1, <2>2 DEF SendToDlq
  <1>6. CASE CommitOffset
    <2>1. Kafka!Settle
      BY <1>6 DEF CommitOffset, Kafka!Settle
    <2> QED BY <2>1 DEF Kafka!Next
  <1>7. CASE Restart
    <2>1. CASE committed = NoOffset /\ Joined
      <3>1. Kafka!Lose
        BY <1>7, <2>1 DEF Restart, Kafka!Lose
      <3> QED BY <3>1 DEF Kafka!Next
    <2>2. CASE ~(committed = NoOffset /\ Joined)
      BY <1>7, <2>2 DEF Restart
    <2> QED BY <2>1, <2>2
  <1>8. CASE UNCHANGED kvars
    BY <1>8 DEF kvars
  <1> QED BY <1>1, <1>2, <1>3, <1>4, <1>5, <1>6, <1>7, <1>8 DEF KNext

\* KafkaBus implements Topic: no offset is committed past a message that was neither
\* handled nor parked, however often the consumer rejoins (index.ts:613-622, 684-701).
THEOREM KafkaImplementsTopic == KSpec => KafkaTopic
PROOF
  <1>1. KInit => Kafka!Init
    BY KafkaAssumption DEF KInit, Kafka!Init, Owed
  <1> QED BY <1>1, KInvariant, KafkaSteps, PTL DEF KSpec, KafkaTopic

-------------------------------------------------------------------------------
\* Redis streams.

\* The rows in the hands of a relay, and the entries they became.
RelayTyped ==
  /\ stream \in Seq(Rows)
  /\ DOMAIN todo = Relays /\ DOMAIN step = Relays
  /\ \A p \in Relays :
       /\ todo[p] \subseteq Rows
       /\ step[p] \in {"publish", "mark"} => todo[p] # {}

\* The group has been given the entries after its creation, up to the last delivered.
GroupTyped ==
  /\ start \in Nat \cup {None} /\ last \in Nat
  /\ start = None => last = 0 /\ pending = {}
  /\ start # None => /\ start <= last /\ last <= Len(stream)
                     /\ pending \subseteq (start + 1)..last
  /\ idle \subseteq pending

\* A consumer at work has a batch, of entries the group was given.
ConsumersTyped ==
  /\ DOMAIN pc = Consumers /\ DOMAIN batch = Consumers /\ claimed \in [Consumers -> BOOLEAN]
  /\ \A c \in Consumers :
       /\ pc[c] \in {"down", "reclaim", "read", "handle", "park", "ack"}
       /\ pc[c] # "down" => start # None
       /\ pc[c] \in {"handle", "park", "ack"} => batch[c] # {}
       /\ pc[c] \notin {"handle", "park", "ack"} => batch[c] = {}
       /\ batch[c] # {} => batch[c] \subseteq (start + 1)..last

\* An entry the group was given is pending, or it was handled or parked; a consumer
\* acknowledges only what was.
GivenIsOwed ==
  /\ start # None => \A i \in (start + 1)..last : i \in pending \/ i \in handled \cup dead
  /\ \A c \in Consumers : pc[c] = "ack" => First(batch[c]) \in handled \cup dead

DInv == RelayTyped /\ GroupTyped /\ ConsumersTyped /\ GivenIsOwed

-------------------------------------------------------------------------------
\* The least of a set of numbers is in it.
LEMMA FirstFacts ==
  ASSUME NEW S \in SUBSET Nat, S # {}
  PROVE  First(S) \in S
PROOF
  <1>1. PICK x \in S : \A y \in S : ~(<<y, x>> \in OpToRel(<, Nat))
    BY NatLessThanWellFounded, WFMin
  <1>2. \A y \in S : ~(y < x)
    BY <1>1 DEF OpToRel
  <1>3. \A y \in S : x <= y
    BY <1>2
  <1> QED BY <1>3 DEF First

\* What a poll reads is a run of entries that begins behind the last delivered one.
LEMMA ReadFacts ==
  ASSUME DInv, NEW ids, ids = FirstOf({i \in Entries : i > last}, BatchSize)
  PROVE  \E k \in Nat : /\ ids = (last + 1)..(last + k) /\ Cardinality(ids) = k
                        /\ (k > 0 => last + k <= Len(stream))
PROOF
  <1>1. Len(stream) \in Nat /\ Entries = 1..Len(stream) /\ last \in Nat /\ BatchSize \in Nat
    BY ConstantsAssumption, LenProperties DEF DInv, RelayTyped, GroupTyped, Entries
  <1>2. {i \in Entries : i > last} = (last + 1)..Len(stream)
    BY <1>1
  <1>3. \A x \in (last + 1)..Len(stream) :
          /\ {y \in (last + 1)..Len(stream) : y < x} = (last + 1)..(x - 1)
          /\ Cardinality((last + 1)..(x - 1)) = x - 1 - last
    <2> TAKE x \in (last + 1)..Len(stream)
    <2>1. {y \in (last + 1)..Len(stream) : y < x} = (last + 1)..(x - 1)
      BY <1>1
    <2>2. last + 1 \in Int /\ x - 1 \in Int /\ last + 1 <= x
      BY <1>1
    <2>3. Cardinality((last + 1)..(x - 1)) = IF last + 1 > x - 1 THEN 0 ELSE (x - 1) - (last + 1) + 1
      BY <2>2, FS_Interval
    <2> QED BY <1>1, <2>1, <2>2, <2>3
  <1>4. ids = {x \in (last + 1)..Len(stream) : x - 1 - last < BatchSize}
    BY <1>2, <1>3 DEF FirstOf
  <1>5. \E k \in Nat : /\ k > 0 => last + k <= Len(stream)
                       /\ \A x \in Int : x <= Len(stream) /\ x - 1 - last < BatchSize
                                           /\ x >= last + 1
                                         <=> x <= last + k /\ x >= last + 1
    <2>1. CASE Len(stream) - last <= 0
      <3> WITNESS 0 \in Nat
      <3> QED BY <1>1, <2>1
    <2>2. CASE Len(stream) - last > 0 /\ Len(stream) - last <= BatchSize
      <3> DEFINE k == Len(stream) - last
      <3>1. k \in Nat
        BY <1>1, <2>2
      <3> WITNESS k \in Nat
      <3> QED BY <1>1, <2>2
    <2>3. CASE Len(stream) - last > BatchSize
      <3>1. BatchSize \in Nat
        BY <1>1
      <3> WITNESS BatchSize \in Nat
      <3> QED BY <1>1, <2>3
    <2> QED BY <1>1, <2>1, <2>2, <2>3
  <1>6. PICK k \in Nat : /\ k > 0 => last + k <= Len(stream)
                         /\ \A x \in Int : x <= Len(stream) /\ x - 1 - last < BatchSize
                                             /\ x >= last + 1
                                           <=> x <= last + k /\ x >= last + 1
    BY <1>5
  <1>7. /\ ids = (last + 1)..(last + k)
        /\ Cardinality((last + 1)..(last + k)) = IF last + 1 > last + k THEN 0 ELSE (last + k) - (last + 1) + 1
    <2>1. ids = (last + 1)..(last + k)
      <3>1. \A x \in Int : x \in ids <=> x \in (last + 1)..(last + k)
        <4> TAKE x \in Int
        <4>1. x \in ids <=> x \in (last + 1)..Len(stream) /\ x - 1 - last < BatchSize
          BY <1>4
        <4>2. x \in (last + 1)..Len(stream) <=> x <= Len(stream) /\ x >= last + 1
          BY <1>1
        <4>3. x \in (last + 1)..(last + k) <=> x <= last + k /\ x >= last + 1
          BY <1>1
        <4> QED BY <4>1, <4>2, <4>3, <1>6
      <3>2. ids \subseteq Int
        BY <1>1, <1>4
      <3>3. (last + 1)..(last + k) \subseteq Int
        BY <1>1
      <3> QED BY <3>1, <3>2, <3>3
    <2>2. last + 1 \in Int /\ last + k \in Int
      BY <1>1
    <2> QED BY <2>1, <2>2, FS_Interval
  <1>8. Cardinality(ids) = k
    BY <1>1, <1>7
  <1> QED BY <1>6, <1>7, <1>8

\* A relay's step adds an entry at the end of the stream, or none, and is nothing to
\* the group.
LEMMA RelayFacts ==
  ASSUME DInv, NEW p \in Relays, RelayStep(p) \/ CrashRelay(p)
  PROVE  /\ stream' = stream \/ \E e \in Rows : stream' = Append(stream, e)
         /\ RelayTyped' /\ UNCHANGED <<group, outcome, consumer>>
PROOF
  <1>1. /\ stream \in Seq(Rows) /\ DOMAIN todo = Relays /\ DOMAIN step = Relays
        /\ \A q \in Relays : todo[q] \subseteq Rows /\ (step[q] \in {"publish", "mark"} => todo[q] # {})
    BY DEF DInv, RelayTyped
  <1>2. step[p] \in {"publish", "mark"} => First(todo[p]) \in Rows
    BY <1>1, FirstFacts, ConstantsAssumption
  <1>3. \A e \in Rows : Append(stream, e) \in Seq(Rows)
    BY <1>1
  <1> USE DEF RelayTyped
  <1>4. CASE Select(p)
    <2>1. FirstOf(Unsent \ UNION {locked[q] : q \in Relays}, BatchSize) \subseteq Rows
      BY DEF FirstOf, Unsent
    <2> QED BY <1>1, <1>4, <2>1 DEF Select, Begin
  <1>5. CASE Publish(p)
    BY <1>1, <1>2, <1>3, <1>5 DEF Publish, AddEntry, NextRow, Fails
  <1>6. CASE Mark(p)
    BY <1>1, <1>6 DEF Mark, NextRow, Fails, End
  <1>7. CASE Commit(p) \/ CrashRelay(p)
    BY <1>1, <1>7 DEF Commit, CrashRelay, Fails, End
  <1> QED BY <1>4, <1>5, <1>6, <1>7 DEF RelayStep

\* A stream that grows leaves what is said of group and consumers true.
LEMMA GrowthPreserves ==
  ASSUME DInv, RelayTyped', UNCHANGED <<group, outcome, consumer>>,
         stream' = stream \/ \E e \in Rows : stream' = Append(stream, e)
  PROVE  DInv'
PROOF
  <1>1. Len(stream) \in Nat /\ Len(stream') >= Len(stream) /\ Len(stream') \in Nat
    BY LenProperties DEF DInv, RelayTyped
  <1> QED BY <1>1 DEF DInv, GroupTyped, ConsumersTyped, GivenIsOwed, group, outcome, consumer

LEMMA SubscribePreserves ==
  ASSUME DInv, NEW c \in Consumers, Subscribe(c)
  PROVE  DInv'
PROOF
  <1>1. Len(stream) \in Nat /\ None \notin Nat
    BY LenProperties, ConstantsAssumption DEF DInv, RelayTyped
  <1>2. CASE start = None
    <2>1. \A x \in Consumers : batch[x] = {} /\ pc[x] = "down"
      BY <1>2 DEF DInv, ConsumersTyped
    <2> QED BY <1>1, <1>2, <2>1
      DEF Subscribe, DInv, RelayTyped, GroupTyped, ConsumersTyped, GivenIsOwed, relay, outcome
  <1>3. CASE start # None
    BY <1>1, <1>3 DEF Subscribe, DInv, RelayTyped, GroupTyped, ConsumersTyped, GivenIsOwed, relay, outcome
  <1> QED BY <1>2, <1>3

\* A consumer gets a batch, or none.
LEMMA ReceivePreserves ==
  ASSUME DInv, NEW c \in Consumers, NEW ids, NEW byClaim \in BOOLEAN, Receive(c, ids, byClaim),
         UNCHANGED <<relay, stream>>, RelayTyped', GroupTyped', start # None, UNCHANGED start,
         last' >= last, ids \subseteq (start + 1)..last',
         \A i \in (start + 1)..last' : i \in pending' \/ i \in handled' \cup dead',
         handled \subseteq handled', dead \subseteq dead'
  PROVE  DInv'
PROOF
  <1>1. /\ start \in Nat /\ last \in Nat /\ last' \in Nat
    BY ConstantsAssumption DEF DInv, GroupTyped
  <1>2. ConsumersTyped'
    <2>1. PICK p, S : /\ pc' = [pc EXCEPT ![c] = p] /\ batch' = [batch EXCEPT ![c] = S]
                      /\ claimed' \in [Consumers -> BOOLEAN]
                      /\ \/ p \in {"read", "reclaim"} /\ S = {}
                         \/ p = "handle" /\ S # {} /\ S = ids
      <3>0. \A b \in BOOLEAN : [claimed EXCEPT ![c] = b] \in [Consumers -> BOOLEAN]
        BY DEF DInv, ConsumersTyped
      <3>1. CASE ids = {} /\ byClaim
        <4>1. /\ pc' = [pc EXCEPT ![c] = "read"] /\ batch' = [batch EXCEPT ![c] = {}]
              /\ claimed' \in [Consumers -> BOOLEAN]
          BY <3>0, <3>1 DEF Receive, NextPoll
        <4> QED BY <4>1
      <3>2. CASE ids = {} /\ ~byClaim
        <4>1. /\ pc' = [pc EXCEPT ![c] = "reclaim"] /\ batch' = [batch EXCEPT ![c] = {}]
              /\ claimed' \in [Consumers -> BOOLEAN]
          BY <3>0, <3>2 DEF Receive, NextPoll
        <4> QED BY <4>1
      <3>3. CASE ids # {}
        <4>1. /\ pc' = [pc EXCEPT ![c] = "handle"] /\ batch' = [batch EXCEPT ![c] = ids]
              /\ claimed' \in [Consumers -> BOOLEAN]
          BY <3>0, <3>3 DEF Receive
        <4> QED BY <3>3, <4>1
      <3> QED BY <3>1, <3>2, <3>3
    <2>2. \A x \in Consumers : batch[x] # {} => batch[x] \subseteq (start + 1)..last'
      BY <1>1 DEF DInv, ConsumersTyped
    <2> QED BY <2>1, <2>2 DEF DInv, ConsumersTyped
  <1>3. GivenIsOwed'
    <2>1. pc'[c] # "ack" /\ \A x \in Consumers \ {c} : pc'[x] = pc[x] /\ batch'[x] = batch[x]
      BY DEF Receive, NextPoll, DInv, ConsumersTyped
    <2>2. \A x \in Consumers : pc'[x] = "ack" => First(batch'[x]) \in handled' \cup dead'
      BY <2>1 DEF DInv, GivenIsOwed
    <2> QED BY <2>2 DEF GivenIsOwed
  <1> QED BY <1>2, <1>3 DEF DInv

LEMMA ReclaimPreserves ==
  ASSUME DInv, NEW c \in Consumers, Reclaim(c)
  PROVE  DInv'
PROOF
  <1> DEFINE ids == FirstOf(idle, BatchSize)
  <1>1. ids \subseteq idle /\ idle \subseteq pending
    BY DEF FirstOf, DInv, GroupTyped
  <1>2. /\ Receive(c, ids, TRUE) /\ idle' = idle \ ids /\ pc[c] = "reclaim"
        /\ UNCHANGED <<outbox, relay, stream, start, last, pending, outcome, faults>>
    BY DEF Reclaim
  <1>3. start # None /\ start \in Nat /\ last \in Nat /\ pending \subseteq (start + 1)..last
    BY <1>2 DEF DInv, ConsumersTyped, GroupTyped
  <1>4. RelayTyped' /\ GroupTyped'
    BY <1>1, <1>2 DEF DInv, RelayTyped, GroupTyped, relay
  <1>5. \A i \in (start + 1)..last : i \in pending \/ i \in handled \cup dead
    BY <1>3 DEF DInv, GivenIsOwed
  <1>6. PICK S : S = ids
    OBVIOUS
  <1>7. Receive(c, S, TRUE) /\ S \subseteq (start + 1)..last'
    BY <1>1, <1>2, <1>3, <1>6
  <1>8. /\ UNCHANGED <<relay, stream, start>> /\ last' >= last
        /\ \A i \in (start + 1)..last' : i \in pending' \/ i \in handled' \cup dead'
        /\ handled \subseteq handled' /\ dead \subseteq dead'
    BY <1>2, <1>3, <1>5 DEF outcome
  <1> QED BY <1>3, <1>4, <1>7, <1>8, ReceivePreserves

LEMMA ReadPreserves ==
  ASSUME DInv, NEW c \in Consumers, Read(c)
  PROVE  /\ DInv' /\ UNCHANGED <<stream, start, outcome>> /\ start # None
         /\ \E k \in Nat : /\ last' = last + k /\ pending' = pending \cup (last + 1)..(last + k)
                           /\ (k > 0 => last + k <= Len(stream))
PROOF
  <1>1. PICK S : S = FirstOf({i \in Entries : i > last}, BatchSize)
    OBVIOUS
  <1>2. PICK k \in Nat : /\ S = (last + 1)..(last + k) /\ Cardinality(S) = k
                         /\ (k > 0 => last + k <= Len(stream))
    BY <1>1, ReadFacts
  <1>3. /\ pc[c] = "read" /\ pending' = pending \cup S /\ last' = last + k
        /\ UNCHANGED <<outbox, relay, stream, start, idle, outcome>>
        /\ Receive(c, S, FALSE) \/ (S # {} /\ Receive(c, {}, FALSE))
    BY <1>1, <1>2 DEF Read, Receive
  <1>4. /\ start # None /\ start \in Nat /\ last \in Nat /\ start <= last /\ last <= Len(stream)
        /\ pending \subseteq (start + 1)..last /\ idle \subseteq pending
    BY <1>3 DEF DInv, ConsumersTyped, GroupTyped
  <1>5. Len(stream) \in Nat
    BY LenProperties DEF DInv, RelayTyped
  <1>6. RelayTyped' /\ GroupTyped'
    <2>1. RelayTyped'
      BY <1>3 DEF DInv, RelayTyped, relay
    <2>2. last' \in Nat /\ start <= last' /\ last' <= Len(stream)
      BY <1>2, <1>3, <1>4, <1>5
    <2>3. pending' \subseteq (start + 1)..last'
      BY <1>2, <1>3, <1>4
    <2> QED BY <1>3, <1>4, <2>1, <2>2, <2>3 DEF GroupTyped
  <1>7. \A i \in (start + 1)..last' : i \in pending' \/ i \in handled' \cup dead'
    BY <1>2, <1>3, <1>4 DEF DInv, GivenIsOwed, outcome
  <1>8. ASSUME NEW T \in SUBSET S, Receive(c, T, FALSE)
        PROVE  DInv'
    <2>1. /\ T \subseteq (start + 1)..last' /\ last' >= last /\ UNCHANGED <<relay, stream, start>>
          /\ handled \subseteq handled' /\ dead \subseteq dead'
      BY <1>2, <1>3, <1>4 DEF outcome
    <2> QED BY <1>4, <1>6, <1>7, <1>8, <2>1, ReceivePreserves
  <1>9. {} \in SUBSET S /\ S \in SUBSET S
    OBVIOUS
  <1>10. DInv'
    BY <1>3, <1>8, <1>9
  <1> QED BY <1>2, <1>3, <1>4, <1>10

\* The entry a consumer is working on is owed to the group, or was handled or parked.
LEMMA InHand ==
  ASSUME DInv, NEW c \in Consumers, pc[c] \in {"handle", "park", "ack"}
  PROVE  /\ start # None /\ start \in Nat /\ last \in Nat /\ First(batch[c]) \in batch[c]
         /\ batch[c] \subseteq (start + 1)..last
         /\ First(batch[c]) \in pending \/ First(batch[c]) \in handled \cup dead
         /\ pc[c] = "ack" => First(batch[c]) \in handled \cup dead
PROOF
  <1>1. /\ start # None /\ start \in Nat /\ last \in Nat
        /\ batch[c] # {} /\ batch[c] \subseteq (start + 1)..last
    BY DEF DInv, ConsumersTyped, GroupTyped
  <1>2. batch[c] \in SUBSET Nat
    BY <1>1
  <1>3. First(batch[c]) \in batch[c]
    BY <1>1, <1>2, FirstFacts
  <1> QED BY <1>1, <1>3 DEF DInv, GivenIsOwed

\* The handler is run, and the entry parked if need be.
LEMMA HandlePreserves ==
  ASSUME DInv, NEW c \in Consumers, Handle(c)
  PROVE  DInv'
PROOF
  <1>1. pc[c] = "handle" /\ UNCHANGED <<relay, stream, group, dead, batch, claimed>>
    BY DEF Handle
  <1>2. RelayTyped' /\ GroupTyped'
    BY <1>1 DEF DInv, RelayTyped, GroupTyped, relay, group
  <1>3. ConsumersTyped'
    BY <1>1 DEF Handle, DInv, ConsumersTyped, group
  <1>4. GivenIsOwed'
    BY <1>1 DEF Handle, DInv, ConsumersTyped, GivenIsOwed, group
  <1> QED BY <1>2, <1>3, <1>4 DEF DInv

LEMMA ParkPreserves ==
  ASSUME DInv, NEW c \in Consumers, Park(c)
  PROVE  DInv'
PROOF
  <1>1. pc[c] = "park" /\ UNCHANGED <<relay, stream, group, handled>>
    BY DEF Park
  <1>2. RelayTyped' /\ GroupTyped'
    BY <1>1 DEF DInv, RelayTyped, GroupTyped, relay, group
  <1>3. PICK p : /\ pc' = [pc EXCEPT ![c] = p]
                 /\ claimed' \in [Consumers -> BOOLEAN] /\ dead \subseteq dead'
                 /\ \/ p \in {"read", "reclaim"} /\ batch' = [batch EXCEPT ![c] = {}]
                    \/ p = "ack" /\ batch' = batch /\ First(batch[c]) \in dead'
    <2>0. /\ claimed \in [Consumers -> BOOLEAN]
          /\ [claimed EXCEPT ![c] = FALSE] \in [Consumers -> BOOLEAN]
      BY DEF DInv, ConsumersTyped
    <2>1. CASE dead' = dead \cup {First(batch[c])} /\ pc' = [pc EXCEPT ![c] = "ack"] /\ UNCHANGED <<batch, claimed>>
      <3>1. /\ batch' = batch /\ claimed' \in [Consumers -> BOOLEAN]
            /\ dead \subseteq dead' /\ First(batch[c]) \in dead'
        BY <2>0, <2>1
      <3> QED BY <2>1, <3>1
    <2>2. CASE dead' \in {dead, dead \cup {First(batch[c])}} /\ NextPoll(c, claimed[c])
      <3>1. /\ batch' = [batch EXCEPT ![c] = {}] /\ claimed' \in [Consumers -> BOOLEAN] /\ dead \subseteq dead'
        BY <2>0, <2>2 DEF NextPoll
      <3>2. CASE claimed[c]
        <4>1. pc' = [pc EXCEPT ![c] = "read"]
          BY <2>2, <3>2 DEF NextPoll
        <4> QED BY <3>1, <4>1
      <3>3. CASE ~claimed[c]
        <4>1. pc' = [pc EXCEPT ![c] = "reclaim"]
          BY <2>2, <3>3 DEF NextPoll
        <4> QED BY <3>1, <4>1
      <3> QED BY <3>2, <3>3
    <2> QED BY <2>1, <2>2 DEF Park
  <1>4. ConsumersTyped'
    BY <1>1, <1>3 DEF DInv, ConsumersTyped, group
  <1>5. GivenIsOwed'
    BY <1>1, <1>3 DEF DInv, ConsumersTyped, GivenIsOwed, group
  <1> QED BY <1>2, <1>4, <1>5 DEF DInv

LEMMA AckPreserves ==
  ASSUME DInv, NEW c \in Consumers, Ack(c)
  PROVE  /\ DInv' /\ UNCHANGED <<stream, start, last, outcome>>
         /\ pending' = pending \/ pending' = pending \ {First(batch[c])}
PROOF
  <1>1. PICK i : i = First(batch[c])
    OBVIOUS
  <1>2. /\ start # None /\ start \in Nat /\ last \in Nat /\ i \in batch[c]
        /\ batch[c] \subseteq (start + 1)..last /\ i \in handled \cup dead
    BY <1>1, InHand DEF Ack
  <1>3. /\ UNCHANGED <<relay, stream, start, last, outcome>>
        /\ (pending' = pending \ {i} /\ idle' = idle \ {i}) \/ UNCHANGED <<pending, idle>>
    BY <1>1 DEF Ack
  <1>4. PICK T, b : /\ b \in BOOLEAN /\ T \subseteq batch[c] /\ b = claimed[c]
                    /\ Receive(c, T, claimed[c])
    <2>1. claimed[c] \in BOOLEAN
      BY DEF DInv, ConsumersTyped
    <2>2. CASE Receive(c, batch[c] \ {i}, claimed[c])
      <3>1. batch[c] \ {i} \subseteq batch[c]
        OBVIOUS
      <3> QED BY <2>1, <2>2, <3>1 DEF Receive, NextPoll
    <2>3. CASE Receive(c, {}, claimed[c])
      <3>1. {} \subseteq batch[c]
        OBVIOUS
      <3> QED BY <2>1, <2>3, <3>1 DEF Receive, NextPoll
    <2> QED BY <1>1, <2>2, <2>3 DEF Ack, Receive
  <1>5. RelayTyped' /\ GroupTyped'
    BY <1>2, <1>3 DEF DInv, RelayTyped, GroupTyped, relay
  <1>6. \A j \in (start + 1)..last' : j \in pending' \/ j \in handled' \cup dead'
    BY <1>2, <1>3 DEF DInv, GivenIsOwed, outcome
  <1>7. /\ T \subseteq (start + 1)..last' /\ last' >= last /\ UNCHANGED <<relay, stream, start>>
        /\ handled \subseteq handled' /\ dead \subseteq dead'
    BY <1>2, <1>3, <1>4 DEF outcome
  <1>8. DInv'
    <2>1. Receive(c, T, b)
      BY <1>4 DEF Receive, NextPoll
    <2> QED BY <1>2, <1>4, <1>5, <1>6, <1>7, <2>1, ReceivePreserves
  <1> QED BY <1>1, <1>3, <1>8

LEMMA CrashPreserves ==
  ASSUME DInv, NEW c \in Consumers, CrashConsumer(c)
  PROVE  DInv'
PROOF
  <1>1. RelayTyped' /\ GroupTyped'
    BY DEF CrashConsumer, DInv, RelayTyped, GroupTyped, relay, group
  <1>2. ConsumersTyped'
    BY DEF CrashConsumer, DInv, ConsumersTyped, group
  <1>3. GivenIsOwed'
    BY DEF CrashConsumer, DInv, ConsumersTyped, GivenIsOwed, group, outcome
  <1> QED BY <1>1, <1>2, <1>3 DEF DInv

LEMMA AgePreserves ==
  ASSUME DInv, NEW i \in pending, Age(i)
  PROVE  DInv'
PROOF
  <1>1. RelayTyped' /\ GroupTyped'
    BY DEF Age, DInv, RelayTyped, GroupTyped, relay
  <1>2. ConsumersTyped' /\ GivenIsOwed'
    BY DEF Age, DInv, ConsumersTyped, GivenIsOwed, outcome, consumer
  <1> QED BY <1>1, <1>2 DEF DInv

\* What a consumer acknowledges was handled or is in the dead-letter stream, whoever
\* else has claimed it, and what the group was given and not acknowledged is pending
\* (event-bus/src/index.ts:303-338, 341-376).
LEMMA DInvariant == Init /\ [][Next]_vars => []DInv
PROOF
  <1>1. Init => DInv
    <2> SUFFICES ASSUME Init PROVE DInv
      OBVIOUS
    <2>1. <<>> \in Seq(Rows) /\ Len(<<>>) = 0
      OBVIOUS
    <2>2. RelayTyped
      BY <2>1 DEF Init, RelayTyped
    <2>3. GroupTyped
      BY <2>1 DEF Init, GroupTyped
    <2>4. ConsumersTyped
      BY DEF Init, ConsumersTyped
    <2>5. GivenIsOwed
      BY DEF Init, GivenIsOwed
    <2> QED BY <2>2, <2>3, <2>4, <2>5 DEF DInv
  <1>2. DInv /\ [Next]_vars => DInv'
    <2> SUFFICES ASSUME DInv, [Next]_vars PROVE DInv'
      OBVIOUS
    <2>1. ASSUME NEW r \in Rows, Stage(r) PROVE DInv'
      BY <2>1 DEF Stage, DInv, RelayTyped, GroupTyped, ConsumersTyped, GivenIsOwed, relay, group, outcome, consumer
    <2>2. ASSUME NEW p \in Relays, RelayStep(p) \/ CrashRelay(p) PROVE DInv'
      BY <2>2, RelayFacts, GrowthPreserves
    <2>3. ASSUME NEW c \in Consumers, ConsumerStep(c) \/ CrashConsumer(c) PROVE DInv'
      BY <2>3, SubscribePreserves, ReclaimPreserves, ReadPreserves, HandlePreserves, ParkPreserves,
         AckPreserves, CrashPreserves DEF ConsumerStep
    <2>4. CASE AgeStep
      BY <2>4, AgePreserves DEF AgeStep
    <2>5. CASE UNCHANGED vars
      BY <2>5 DEF vars, DInv, RelayTyped, GroupTyped, ConsumersTyped, GivenIsOwed, relay, group, outcome, consumer
    <2> QED BY <2>1, <2>2, <2>3, <2>4, <2>5 DEF Next
  <1> QED BY <1>1, <1>2, PTL

-------------------------------------------------------------------------------
\* The mapped state.

OwedEntries == IF start = None THEN {} ELSE pending \cup {i \in Entries : i > last}
SomeSettled == start # None /\ \E i \in (start + 1)..last : i \notin pending

\* Steps that neither open the group nor add, handle, park or acknowledge are steps of
\* Topic that change nothing.
LEMMA NothingOwed ==
  ASSUME UNCHANGED <<stream, start, handled, dead, OwedEntries>>, SomeSettled' <=> SomeSettled
  PROVE  UNCHANGED Redis!vars
PROOF
  <1>1. SomeSettled' = SomeSettled
    <2>1. SomeSettled \in BOOLEAN /\ SomeSettled' \in BOOLEAN
      BY DEF SomeSettled
    <2> QED BY <2>1
  <1> QED BY <1>1 DEF Redis!vars, OwedEntries, SomeSettled, Entries

LEMMA SameGroup ==
  ASSUME UNCHANGED <<stream, start, last, pending>>
  PROVE  UNCHANGED OwedEntries /\ (SomeSettled' <=> SomeSettled)
PROOF
  BY DEF OwedEntries, SomeSettled, Entries

LEMMA AddStep ==
  ASSUME DInv, NEW e \in Rows, stream' = Append(stream, e), UNCHANGED <<group, outcome>>
  PROVE  Redis!Add
PROOF
  <1>1. /\ Len(stream) \in Nat /\ Entries = 1..Len(stream)
        /\ Len(stream') = Len(stream) + 1 /\ Entries' = 1..(Len(stream) + 1)
    BY LenProperties DEF DInv, RelayTyped, Entries
  <1>2. UNCHANGED <<start, last, pending>> /\ UNCHANGED (handled \cup dead)
    BY DEF group, outcome
  <1>3. OwedEntries' = IF start # None THEN OwedEntries \cup {Len(stream')} ELSE OwedEntries
    <2>1. CASE start = None
      BY <1>2, <2>1 DEF OwedEntries
    <2>2. CASE start # None
      <3>1. last \in Nat /\ last <= Len(stream)
        BY <2>2 DEF DInv, GroupTyped
      <3>2. {i \in 1..(Len(stream) + 1) : i > last} = {i \in 1..Len(stream) : i > last} \cup {Len(stream) + 1}
        BY <1>1, <3>1
      <3> QED BY <1>1, <1>2, <2>2, <3>2 DEF OwedEntries
    <2> QED BY <2>1, <2>2
  <1> QED BY <1>1, <1>2, <1>3 DEF Redis!Add, OwedEntries

LEMMA SubscribeStep ==
  ASSUME DInv, NEW c \in Consumers, Subscribe(c)
  PROVE  Redis!Open \/ UNCHANGED Redis!vars
PROOF
  <1>1. Len(stream) \in Nat /\ None \notin Nat /\ Entries = 1..Len(stream)
    BY LenProperties, ConstantsAssumption DEF DInv, RelayTyped, Entries
  <1>2. CASE start = None
    <2>1. /\ pending = {} /\ start' = Len(stream) /\ last' = Len(stream)
          /\ UNCHANGED <<stream, pending, handled, dead>>
      BY <1>2 DEF Subscribe, DInv, GroupTyped, outcome
    <2>2. OwedEntries = {} /\ OwedEntries' = {} /\ ~SomeSettled /\ ~SomeSettled'
      BY <1>1, <1>2, <2>1 DEF OwedEntries, SomeSettled, Entries
    <2> QED BY <1>1, <1>2, <2>1, <2>2 DEF Redis!Open, OwedEntries, SomeSettled
  <1>3. CASE start # None
    <2>1. UNCHANGED <<stream, start, last, pending, handled, dead>>
      BY <1>3 DEF Subscribe, outcome
    <2> QED BY <2>1, SameGroup, NothingOwed
  <1> QED BY <1>2, <1>3

\* An entry that is read goes from the ones not yet delivered to the pending ones.
LEMMA ReadStep ==
  ASSUME DInv, NEW c \in Consumers, Read(c)
  PROVE  UNCHANGED Redis!vars
PROOF
  <1>1. PICK k \in Nat : /\ last' = last + k /\ pending' = pending \cup (last + 1)..(last + k)
                         /\ (k > 0 => last + k <= Len(stream))
    BY ReadPreserves
  <1>2. UNCHANGED <<stream, start, handled, dead>> /\ start # None
    BY ReadPreserves DEF outcome
  <1>3. /\ Len(stream) \in Nat /\ Entries = 1..Len(stream) /\ Entries' = Entries
        /\ start \in Nat /\ last \in Nat /\ start <= last
    BY <1>2, LenProperties, ConstantsAssumption DEF DInv, RelayTyped, GroupTyped, Entries
  <1>4. {i \in Entries : i > last} = (last + 1)..(last + k) \cup {i \in Entries : i > last + k}
    BY <1>1, <1>3
  <1>5. UNCHANGED OwedEntries
    BY <1>1, <1>2, <1>3, <1>4 DEF OwedEntries
  <1>6. SomeSettled' <=> SomeSettled
    <2>1. PICK A, B : A = (start + 1)..last /\ B = (last + 1)..(last + k)
      OBVIOUS
    <2>2. (start + 1)..last' = A \cup B /\ A \cap B = {} /\ pending' = pending \cup B
      BY <1>1, <1>3, <2>1
    <2>3. (\E j \in A \cup B : j \notin pending \cup B) <=> \E j \in A : j \notin pending
      BY <2>2
    <2>4. SomeSettled' <=> \E j \in A \cup B : j \notin pending \cup B
      BY <1>2, <2>2 DEF SomeSettled
    <2>5. SomeSettled <=> \E j \in A : j \notin pending
      BY <1>2, <2>1 DEF SomeSettled
    <2> QED BY <2>3, <2>4, <2>5
  <1> QED BY <1>2, <1>5, <1>6, NothingOwed

\* What is handled or parked is owed, unless somebody has done so before.
LEMMA DoStep ==
  ASSUME DInv, NEW c \in Consumers, pc[c] \in {"handle", "park"}, UNCHANGED <<stream, group>>,
         (handled \cup dead)' \in {handled \cup dead, (handled \cup dead) \cup {First(batch[c])}}
  PROVE  Redis!Do \/ UNCHANGED Redis!vars
PROOF
  <1>1. PICK i : i = First(batch[c])
    OBVIOUS
  <1>2. start # None /\ (i \in pending \/ i \in handled \cup dead)
    BY <1>1, InHand
  <1>3. UNCHANGED <<stream, start, last, pending>>
    BY DEF group
  <1>4. UNCHANGED OwedEntries /\ (SomeSettled' <=> SomeSettled)
    BY <1>3, SameGroup
  <1>5. SomeSettled' = SomeSettled
    <2>1. SomeSettled \in BOOLEAN /\ SomeSettled' \in BOOLEAN
      BY DEF SomeSettled
    <2> QED BY <1>4, <2>1
  <1>6. CASE (handled \cup dead)' = handled \cup dead
    BY <1>3, <1>4, <1>5, <1>6 DEF Redis!vars, OwedEntries, SomeSettled, Entries
  <1>7. CASE (handled \cup dead)' = (handled \cup dead) \cup {i} /\ i \in pending
    <2>1. i \in OwedEntries
      BY <1>2, <1>7 DEF OwedEntries
    <2> QED BY <1>3, <1>4, <1>5, <1>7, <2>1 DEF Redis!Do, OwedEntries, SomeSettled, Entries
  <1>8. CASE (handled \cup dead)' = (handled \cup dead) \cup {i} /\ i \in handled \cup dead
    BY <1>6, <1>8
  <1> QED BY <1>1, <1>2, <1>6, <1>7, <1>8

LEMMA AckStep ==
  ASSUME DInv, NEW c \in Consumers, Ack(c)
  PROVE  Redis!Settle \/ UNCHANGED Redis!vars
PROOF
  <1>1. PICK i : i = First(batch[c])
    OBVIOUS
  <1>2. /\ start # None /\ start \in Nat /\ last \in Nat /\ i \in (start + 1)..last
        /\ i \in handled \cup dead
    BY <1>1, InHand DEF Ack
  <1>3. /\ UNCHANGED <<stream, start, last, handled, dead>>
        /\ pending' = pending \/ pending' = pending \ {i}
    BY <1>1, AckPreserves DEF outcome
  <1>4. CASE pending' = pending
    BY <1>3, <1>4, SameGroup, NothingOwed
  <1>5. CASE pending' = pending \ {i}
    <2>1. OwedEntries' \subseteq OwedEntries /\ OwedEntries \ OwedEntries' \subseteq {i}
      BY <1>3, <1>5 DEF OwedEntries, Entries
    <2>2. SomeSettled'
      BY <1>2, <1>3, <1>5 DEF SomeSettled
    <2>3. SomeSettled' = TRUE
      BY <2>2 DEF SomeSettled
    <2>4. OwedEntries \ OwedEntries' \subseteq handled \cup dead
      BY <1>2, <2>1
    <2> QED BY <1>3, <2>1, <2>3, <2>4 DEF Redis!Settle, OwedEntries, SomeSettled
  <1> QED BY <1>3, <1>4, <1>5

\* Each step of the relays, of the stream and of the consumers is one of the topic's,
\* or none.
LEMMA RedisSteps ==
  ASSUME DInv, [Next]_vars
  PROVE  [Redis!Next]_(Redis!vars)
PROOF
  <1>1. ASSUME NEW r \in Rows, Stage(r) PROVE UNCHANGED Redis!vars
    BY <1>1, SameGroup, NothingOwed DEF Stage, group, outcome
  <1>2. ASSUME NEW p \in Relays, RelayStep(p) \/ CrashRelay(p)
        PROVE  Redis!Add \/ UNCHANGED Redis!vars
    <2>1. UNCHANGED <<group, outcome>> /\ (stream' = stream \/ \E e \in Rows : stream' = Append(stream, e))
      BY <1>2, RelayFacts
    <2>2. CASE stream' = stream
      BY <2>1, <2>2, SameGroup, NothingOwed DEF group, outcome
    <2>3. CASE \E e \in Rows : stream' = Append(stream, e)
      BY <2>1, <2>3, AddStep
    <2> QED BY <2>1, <2>2, <2>3
  <1>3. ASSUME NEW c \in Consumers, ConsumerStep(c) \/ CrashConsumer(c)
        PROVE  [Redis!Next]_(Redis!vars)
    <2>1. CASE Subscribe(c)
      BY <2>1, SubscribeStep DEF Redis!Next
    <2>2. CASE Reclaim(c)
      BY <2>2, SameGroup, NothingOwed DEF Reclaim, outcome
    <2>3. CASE Read(c)
      BY <2>3, ReadStep
    <2>4. CASE Handle(c)
      <3>1. pc[c] = "handle" /\ UNCHANGED <<stream, group>>
        BY <2>4 DEF Handle
      <3>2. (handled \cup dead)' \in {handled \cup dead, (handled \cup dead) \cup {First(batch[c])}}
        BY <2>4 DEF Handle
      <3> QED BY <3>1, <3>2, DoStep DEF Redis!Next
    <2>5. CASE Park(c)
      <3>1. pc[c] = "park" /\ UNCHANGED <<stream, group>>
        BY <2>5 DEF Park
      <3>2. (handled \cup dead)' \in {handled \cup dead, (handled \cup dead) \cup {First(batch[c])}}
        BY <2>5 DEF Park
      <3> QED BY <3>1, <3>2, DoStep DEF Redis!Next
    <2>6. CASE Ack(c)
      BY <2>6, AckStep DEF Redis!Next
    <2>7. CASE CrashConsumer(c)
      BY <2>7, SameGroup, NothingOwed DEF CrashConsumer, group, outcome
    <2> QED BY <1>3, <2>1, <2>2, <2>3, <2>4, <2>5, <2>6, <2>7 DEF ConsumerStep
  <1>4. CASE AgeStep
    BY <1>4, SameGroup, NothingOwed DEF AgeStep, Age, outcome
  <1>5. CASE UNCHANGED vars
    BY <1>5, SameGroup, NothingOwed DEF vars, group, outcome
  <1> QED BY <1>1, <1>2, <1>3, <1>4, <1>5 DEF Next, Redis!Next

\* RedisStreamsBus and the relays implement Topic: no entry leaves the pending list
\* before it was handled or is in the dead-letter stream, and none is passed over
\* (event-bus/src/index.ts:303-338, 341-376).
THEOREM RedisImplementsTopic == Spec => RedisTopic
PROOF
  <1>1. Init => Redis!Init
    <2>1. Len(<<>>) = 0 /\ 0 \in Nat
      OBVIOUS
    <2> QED BY <2>1 DEF Init, Redis!Init
  <1> QED BY <1>1, DInvariant, RedisSteps, PTL DEF Spec, RedisTopic
===============================================================================
