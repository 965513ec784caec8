-------------------------------- MODULE Topic --------------------------------
(***************************************************************************)
(* What a bus owes to a consumer group of one topic, over Redis streams    *)
(* (Delivery) as over Kafka (KafkaBus): an entry added while the group is  *)
(* there is owed to it, and it is settled only once its handler has        *)
(* succeeded on it or it was parked in the dead-letter queue.              *)
(***************************************************************************)
EXTENDS Naturals

CONSTANTS Lasts   \* a group stays although it has settled nothing yet

VARIABLES
  added,     \* entries added, numbered in order
  open,      \* the group is there
  owed,      \* entries not settled
  done,      \* entries handled or parked
  settled    \* an entry has been settled

vars == <<added, open, owed, done, settled>>

Init == added \in Nat /\ open = FALSE /\ owed = {} /\ done = {} /\ settled = FALSE

Add == /\ added' = added + 1
       /\ owed' = IF open THEN owed \cup {added'} ELSE owed
       /\ UNCHANGED <<open, done, settled>>

Open == ~open /\ open' = TRUE /\ UNCHANGED <<added, owed, done, settled>>

\* An entry is handled or parked, again if need be, and by several at once.
Do == /\ \E i \in owed : done' = done \cup {i}
      /\ UNCHANGED <<added, open, owed, settled>>

Settle == /\ owed' \subseteq owed
          /\ owed \ owed' \subseteq done
          /\ settled' = TRUE /\ UNCHANGED <<added, open, done>>

\* A group that has settled nothing is forgotten with what is owed to it.
Lose == /\ ~Lasts /\ ~settled
        /\ open' = FALSE /\ owed' = {}
        /\ UNCHANGED <<added, done, settled>>

Next == Add \/ Open \/ Do \/ Settle \/ Lose

Spec == Init /\ [][Next]_vars
===============================================================================
