------------------------------ MODULE MCDelivery ------------------------------
(***************************************************************************)
(* The two transports of the bus; a deployment has one of them.            *)
(***************************************************************************)
EXTENDS Delivery, KafkaBus

VARIABLE bus
all == <<vars, kvars, bus>>

Redisly(A) == bus = "redis" /\ A /\ UNCHANGED <<kvars, bus>>
Kafkaly(A) == bus = "kafka" /\ A /\ UNCHANGED <<vars, bus>>

MCFairness ==
  /\ \A p \in Relays : WF_all(Redisly(RelayStep(p)))
  /\ \A c \in Consumers : WF_all(Redisly(ConsumerStep(c)))
  /\ WF_all(Redisly(AgeStep))

MCInit == Init /\ KInit /\ bus \in {Transport(setting) : setting \in {"", "redis", "kafka"}}

MCSpec == MCInit /\ [][Redisly(Next) \/ Kafkaly(KNext)]_all /\ MCFairness
===============================================================================
