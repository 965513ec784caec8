---------------------------- MODULE MCLifecycle ----------------------------
(***************************************************************************)
(* Three starting points: a gateway with provisioning off and many         *)
(* requests; one with provisioning on and the few requests that lead to an *)
(* acceptance; and two contracts accepted by one freelancer in the same    *)
(* moment, both messages on the bus.                                       *)
(***************************************************************************)
EXTENDS Lifecycle

CONSTANTS c1, c2, f1, f2

FewRequests == 2

Deciding     == InitWith([c \in Contracts |-> "absent"], MaxRequests, FALSE)
Provisioning == InitWith([c \in Contracts |-> IF c = c1 THEN "DRAFT" ELSE "absent"],
                         FewRequests, TRUE)

BothAccepted ==
  /\ contract = [c \in Contracts |-> [status |-> "DRAFT", freelancer |-> f1, repo |-> NoRepo]]
  /\ assignments = <<[contract |-> c1, freelancer |-> f1, status |-> "ACCEPTED", anchor |-> <<"ASSIGNED", 1>>],
                     [contract |-> c2, freelancer |-> f1, status |-> "ACCEPTED", anchor |-> <<"ASSIGNED", 2>>]>>
  /\ chain = [c \in Contracts |-> IF c = c1 THEN <<<<"ASSIGNED", 1>>, <<"ACCEPTED", 1>>>>
                                            ELSE <<<<"ASSIGNED", 2>>, <<"ACCEPTED", 2>>>>]
  /\ mail = {<<"ACCEPTED", c1, f1, 1>>, <<"ACCEPTED", c2, f1, 2>>} /\ notices = {}
  /\ row = [c \in Contracts |-> None]
  /\ github = [n \in Names |-> None] /\ invalid = {} /\ enabled = TRUE /\ refused = {}
  /\ req = [r \in Fibers |-> Idle] /\ run = [w \in Runners |-> Asleep]
  /\ left = 0 /\ faults = MaxFaults   \* no fault here: its own bound

MCInit == Deciding \/ Provisioning \/ BothAccepted
MCSpec == MCInit /\ [][Next]_vars /\ Fairness
=============================================================================
