---------------------------- MODULE EscrowFunding ----------------------------
(***************************************************************************)
(* Funding the escrow of a contract: POST /escrow creates or reuses an     *)
(* order, the customer pays it in one or more attempts, and what came of   *)
(* them reaches the escrow row by three ways at once -- the checkout       *)
(* callback POST /escrow/verify (routes/contracts-escrow.ts), the Razorpay *)
(* webhook (routes/webhooks.ts) and the ESCROW_LOCKED subscriber of the    *)
(* settlement worker (settlement-worker/src/worker.ts).                    *)
(*                                                                         *)
(* A request in the gateway is a fiber that may stop at any of its awaits. *)
(* The rows of two contracts never meet, so the module has one contract;   *)
(* all its orders are for the same amount.                                 *)
(***************************************************************************)
EXTENDS Naturals

CONSTANTS
  Orders,      \* the order ids the provider may issue
  Payments,    \* the customer's attempts to pay
  Fibers,      \* gateway requests served at the same time
  None,
  MaxAborts    \* bound: failed statements and requests cut short

ASSUME ConstantsAssumption ==
  /\ MaxAborts \in Nat
  /\ None \notin Orders \cup Payments

VARIABLES
  escrow,      \* escrow.status of an order, "absent" when it has no row
  paidBy,      \* escrow.payment_id
  issued,      \* the orders the provider has created
  offered,     \* the orders returned to the customer
  chain,       \* chain[o]: number of ESCROW_AUTHORIZED entries for o
  attempt,     \* what the provider says of a payment, "none" before it is tried
  orderOf,     \* the order a payment was tried for
  hooks,       \* webhook events not yet answered with 2xx
  seen,        \* payment_events rows: events recorded as processed
  bus,         \* ESCROW_LOCKED messages; the bus may deliver each again
  chosen,      \* the orders the settlement worker has found to capture
  pc, job, order, payment,   \* locals of a request: its route and what it is about
  aborts

row      == <<escrow, paidBy>>
provider == <<issued, attempt, orderOf>>
locals   == <<job, order, payment>>
vars     == <<row, provider, offered, chain, hooks, seen, bus, chosen,
              pc, locals, aborts>>

Steps == {"idle", "issue", "insert", "offer", "fetch", "record", "authorize",
          "fail", "append", "publish", "answer"}

Goto(f, step) == pc' = [pc EXCEPT ![f] = step]

\* The locals of a finished request are gone.
End(f) ==
  /\ Goto(f, "idle")
  /\ job' = [job EXCEPT ![f] = None]
  /\ order' = [order EXCEPT ![f] = None]
  /\ payment' = [payment EXCEPT ![f] = None]

-------------------------------------------------------------------------------

Init ==
  /\ escrow = [o \in Orders |-> "absent"]
  /\ paidBy = [o \in Orders |-> None]
  /\ issued = {}
  /\ offered = {}
  /\ chain = [o \in Orders |-> 0]
  /\ attempt = [p \in Payments |-> "none"]
  /\ orderOf = [p \in Payments |-> None]
  /\ hooks = {}
  /\ seen = {}
  /\ bus = {}
  /\ chosen = {}
  /\ pc = [f \in Fibers |-> "idle"]
  /\ job = [f \in Fibers |-> None]
  /\ order = [f \in Fibers |-> None]
  /\ payment = [f \in Fibers |-> None]
  /\ aborts = 0

(***************************************************************************)
(* POST /escrow.                                                           *)
(***************************************************************************)

\* Reuse an unpaid order, or go on to mint one.
Fund(f) ==
  /\ pc[f] = "idle"
  /\ \/ \E o \in Orders : /\ escrow[o] = "PENDING"
                          /\ order' = [order EXCEPT ![f] = o]
                          /\ Goto(f, "offer")
     \/ /\ \A o \in Orders : escrow[o] # "PENDING"
        /\ Goto(f, "issue")
        /\ UNCHANGED order
  /\ job' = [job EXCEPT ![f] = "fund"]
  /\ UNCHANGED <<row, provider, offered, chain, hooks, seen, bus, chosen, payment, aborts>>

\* payments.createOrder, which the provider may refuse (here: when the model has
\* no id left); the ESCROW_CREATED entry that follows binds nothing here.
Issue(f) ==
  /\ pc[f] = "issue"
  /\ \/ \E o \in Orders \ issued :
          /\ issued' = issued \cup {o}
          /\ order' = [order EXCEPT ![f] = o]
          /\ Goto(f, "insert")
          /\ UNCHANGED <<job, payment>>
     \/ /\ Orders \subseteq issued
        /\ UNCHANGED issued
        /\ End(f)
  /\ UNCHANGED <<row, attempt, orderOf, offered, chain, hooks, seen, bus, chosen, aborts>>

\* INSERT ... ON CONFLICT DO NOTHING.
Insert(f) ==
  /\ pc[f] = "insert"
  /\ escrow' = [escrow EXCEPT ![order[f]] = IF @ = "absent" THEN "PENDING" ELSE @]
  /\ Goto(f, "offer")
  /\ UNCHANGED <<paidBy, provider, offered, chain, hooks, seen, bus, chosen, locals, aborts>>

\* The reply: the customer can pay this order now.
Offer(f) ==
  /\ pc[f] = "offer"
  /\ offered' = offered \cup {order[f]}
  /\ End(f)
  /\ UNCHANGED <<row, provider, chain, hooks, seen, bus, chosen, aborts>>

(***************************************************************************)
(* The customer and the provider.                                          *)
(***************************************************************************)

\* One attempt to pay; an order with a successful payment takes no other.
Pay(p) ==
  /\ attempt[p] = "none"
  /\ \E o \in offered, outcome \in {"authorized", "failed"} :
       /\ \A q \in Payments : orderOf[q] = o => attempt[q] # "authorized"
       /\ attempt' = [attempt EXCEPT ![p] = outcome]
       /\ orderOf' = [orderOf EXCEPT ![p] = o]
       /\ hooks' = hooks \cup {<<outcome, p>>}
  /\ UNCHANGED <<row, issued, offered, chain, seen, bus, chosen, pc, locals, aborts>>

(***************************************************************************)
(* Recording that an order is funded, or that it failed.                   *)
(***************************************************************************)

\* The guarded UPDATE of the callback and the webhook.  Only the caller that moved
\* the row appends to the chain and publishes.
Authorize(f) ==
  /\ pc[f] = "authorize"
  /\ \/ /\ escrow[order[f]] = "PENDING"
        /\ escrow' = [escrow EXCEPT ![order[f]] = "AUTHORIZED"]
        /\ paidBy' = [paidBy EXCEPT ![order[f]] = payment[f]]
        /\ Goto(f, "append")
     \/ /\ escrow[order[f]] # "PENDING"
        /\ UNCHANGED row
        /\ Goto(f, "answer")
  /\ UNCHANGED <<provider, offered, chain, hooks, seen, bus, chosen, locals, aborts>>

\* The callback trusting the browser for the payment's status.
FetchTrusting(f) ==
  /\ pc[f] = "fetch"
  /\ Goto(f, "authorize")
  /\ UNCHANGED <<row, provider, offered, chain, hooks, seen, bus, chosen, locals, aborts>>

\* POST /escrow/verify, which the browser calls after its payment was signed ...
Verify(f, p) ==
  /\ pc[f] = "idle"
  /\ attempt[p] # "none" /\ escrow[orderOf[p]] # "absent"
  /\ job' = [job EXCEPT ![f] = "verify"]
  /\ payment' = [payment EXCEPT ![f] = p]
  /\ order' = [order EXCEPT ![f] = orderOf[p]]
  /\ Goto(f, "fetch")
  /\ UNCHANGED <<row, provider, offered, chain, hooks, seen, bus, chosen, aborts>>

\* ... and which asks the provider what became of it.
Fetch(f) ==
  /\ pc[f] = "fetch"
  /\ \/ /\ attempt[payment[f]] = "authorized"
        /\ Goto(f, "authorize")
        /\ UNCHANGED locals
     \/ /\ attempt[payment[f]] # "authorized"
        /\ End(f)
  /\ UNCHANGED <<row, provider, offered, chain, hooks, seen, bus, chosen, aborts>>

\* A webhook is delivered, again and again until it is answered.
Hook(f, e) ==
  /\ pc[f] = "idle"
  /\ e \in hooks
  /\ job' = [job EXCEPT ![f] = "hook"]
  /\ payment' = [payment EXCEPT ![f] = e[2]]
  /\ order' = [order EXCEPT ![f] = orderOf[e[2]]]
  /\ Goto(f, "record")
  /\ UNCHANGED <<row, provider, offered, chain, hooks, seen, bus, chosen, aborts>>

Event(f) == <<attempt[payment[f]], payment[f]>>

\* A webhook recorded and answered, and left at that.
RecordOnly(f) ==
  /\ pc[f] = "record"
  /\ seen' = seen \cup {Event(f)}
  /\ hooks' = hooks \ {Event(f)}
  /\ End(f)
  /\ UNCHANGED <<row, provider, offered, chain, bus, chosen, aborts>>

\* Deduplication comes before any effect: an event already recorded is answered,
\* and so is one whose insert failed, which recordPaymentEvent reports alike.
Record(f) ==
  /\ pc[f] = "record"
  /\ \/ /\ \/ (escrow[order[f]] = "absent" \/ Event(f) \in seen) /\ UNCHANGED aborts
           \/ aborts < MaxAborts /\ aborts' = aborts + 1
        /\ hooks' = hooks \ {Event(f)}
        /\ End(f)
        /\ UNCHANGED seen
     \/ /\ escrow[order[f]] # "absent" /\ Event(f) \notin seen
        /\ seen' = seen \cup {Event(f)}
        /\ Goto(f, IF attempt[payment[f]] = "authorized" THEN "authorize" ELSE "fail")
        /\ UNCHANGED <<hooks, locals, aborts>>
  /\ UNCHANGED <<row, provider, offered, chain, bus, chosen>>

\* payment.failed takes the order out of play, whichever payment it held.  The
\* ESCROW_EVENT entry that the winner appends next binds nothing here.
FailByHook(f) ==
  /\ pc[f] = "fail"
  /\ \/ /\ escrow[order[f]] \in {"PENDING", "AUTHORIZED"}
        /\ escrow' = [escrow EXCEPT ![order[f]] = "FAILED"]
        /\ Goto(f, "publish")
     \/ /\ escrow[order[f]] \notin {"PENDING", "AUTHORIZED"}
        /\ UNCHANGED escrow
        /\ Goto(f, "answer")
  /\ UNCHANGED <<paidBy, provider, offered, chain, hooks, seen, bus, chosen, locals, aborts>>

\* The winner's chain entry.
AppendEntry(f) ==
  /\ pc[f] = "append"
  /\ chain' = [chain EXCEPT ![order[f]] = @ + 1]
  /\ Goto(f, "publish")
  /\ UNCHANGED <<row, provider, offered, hooks, seen, bus, chosen, locals, aborts>>

\* The winner's announcement.
Publish(f) ==
  /\ pc[f] = "publish"
  /\ bus' = bus \cup {<<attempt[payment[f]], order[f], payment[f]>>}
  /\ Goto(f, "answer")
  /\ UNCHANGED <<row, provider, offered, chain, hooks, seen, chosen, locals, aborts>>

\* The end of a request: 200 to the provider, or "AUTHORIZED" to the customer,
\* whoever has moved the row and wherever it was moved to.
Answer(f) ==
  /\ pc[f] = "answer"
  /\ \/ job[f] = "hook" /\ hooks' = hooks \ {Event(f)}
     \/ job[f] = "verify" /\ UNCHANGED hooks
  /\ End(f)
  /\ UNCHANGED <<row, provider, offered, chain, seen, bus, chosen, aborts>>

\* A request ends at an await: a failed statement, or the gateway dies.
Abort(f) ==
  /\ pc[f] # "idle"
  /\ aborts < MaxAborts
  /\ aborts' = aborts + 1
  /\ End(f)
  /\ UNCHANGED <<row, provider, offered, chain, hooks, seen, bus, chosen>>

(***************************************************************************)
(* The settlement worker.                                                  *)
(***************************************************************************)

\* subscribeEscrowEvents: the same moves again, at any time after the publication.
\* As only the request that moved the row publishes, its UPDATEs find no row to move.
Consume(m) ==
  LET funded == {o \in Orders : m[1] = "authorized" /\ m[2] = o /\ escrow[o] = "PENDING"}
      failed == {o \in Orders : m[1] = "failed" /\ m[3] = paidBy[o]
                                  /\ escrow[o] \in {"PENDING", "AUTHORIZED"}}
  IN
  /\ escrow' = [o \in Orders |-> IF o \in funded THEN "AUTHORIZED"
                                 ELSE IF o \in failed THEN "FAILED" ELSE escrow[o]]
  /\ paidBy' = [o \in Orders |-> IF o \in funded THEN m[3] ELSE paidBy[o]]
  /\ UNCHANGED <<provider, offered, chain, hooks, seen, bus, chosen, pc, locals, aborts>>

SubscriberStep == \E m \in bus : Consume(m)

\* The settlement finds an AUTHORIZED order to capture ...
Choose(o) ==
  /\ escrow[o] = "AUTHORIZED"
  /\ chosen' = chosen \cup {o}
  /\ UNCHANGED <<row, provider, offered, chain, hooks, seen, bus, pc, locals, aborts>>

\* ... and releases it later, under no condition on what the row holds then.
Release(o) ==
  /\ o \in chosen
  /\ escrow' = [escrow EXCEPT ![o] = "RELEASED"]
  /\ UNCHANGED <<paidBy, provider, offered, chain, hooks, seen, bus, chosen, pc, locals, aborts>>

RequestStep(f) ==
  \/ Issue(f) \/ Insert(f) \/ Offer(f) \/ Fetch(f) \/ Record(f)
  \/ Authorize(f) \/ FailByHook(f) \/ AppendEntry(f) \/ Publish(f) \/ Answer(f)

HookStep(f) == \E e \in hooks : Hook(f, e)

Next ==
  \/ \E f \in Fibers : \/ RequestStep(f) \/ Fund(f) \/ Abort(f) \/ HookStep(f)
                       \/ \E p \in Payments : Verify(f, p)
  \/ \E p \in Payments : Pay(p)
  \/ SubscriberStep
  \/ \E o \in Orders : Choose(o) \/ Release(o)

\* A request that was accepted goes on, and the provider keeps delivering.
Fairness ==
  /\ \A f \in Fibers : WF_vars(RequestStep(f))
  /\ \A p \in Payments, s \in {"authorized", "failed"} :
       SF_vars(\E f \in Fibers : <<s, p>> \in hooks /\ Hook(f, <<s, p>>))

Spec == Init /\ [][Next]_vars /\ Fairness

-------------------------------------------------------------------------------

\* Every variable has its type.
TypeOK ==
  /\ escrow \in [Orders -> {"absent", "PENDING", "AUTHORIZED", "RELEASED", "FAILED"}]
  /\ paidBy \in [Orders -> Payments \cup {None}]
  /\ issued \subseteq Orders /\ offered \subseteq Orders
  /\ chosen \subseteq Orders
  /\ chain \in [Orders -> Nat]
  /\ attempt \in [Payments -> {"none", "authorized", "failed"}]
  /\ orderOf \in [Payments -> Orders \cup {None}]
  /\ hooks \subseteq {"authorized", "failed"} \X Payments
  /\ seen \subseteq {"authorized", "failed"} \X Payments
  /\ bus \subseteq {"authorized", "failed"} \X Orders \X Payments
  /\ pc \in [Fibers -> Steps]
  /\ job \in [Fibers -> {"fund", "verify", "hook", None}]
  /\ order \in [Fibers -> Orders \cup {None}]
  /\ payment \in [Fibers -> Payments \cup {None}]
  /\ aborts \in 0..MaxAborts

\* A row that says the money is held names a payment the provider authorised for
\* this very order, by whichever of the three ways it was moved.
HeldIsReal ==
  \A o \in Orders :
    escrow[o] \in {"AUTHORIZED", "RELEASED"} =>
      /\ paidBy[o] \in Payments
      /\ attempt[paidBy[o]] = "authorized" /\ orderOf[paidBy[o]] = o

\* The chain has at most one ESCROW_AUTHORIZED entry for an order, although the
\* callback and the webhook race to write it.
AuthorizedOnce == \A o \in Orders : chain[o] <= 1

\* ESCROW_LOCKED announces an authorisation only after the chain has it.
AnnouncedIsChained == \A m \in bus : m[1] = "authorized" => chain[m[2]] = 1

\* The customer is never offered an order whose webhook would find no row.
PayableIsKnown == \A p \in Payments : attempt[p] # "none" => escrow[orderOf[p]] # "absent"

\* "cannot move a RELEASED or FAILED escrow backwards": no late or repeated event
\* makes a row capturable again, or unpaid.
NeverBackwards ==
  [][\A o \in Orders :
       /\ escrow[o] \in {"RELEASED", "FAILED"} => escrow'[o] \in {escrow[o], "RELEASED"}
       /\ escrow[o] = "AUTHORIZED" => escrow'[o] # "PENDING"]_vars

\* The order of p says that p is held, or was released.
Recorded(p) ==
  \E o \in Orders : orderOf[p] = o /\ escrow[o] \in {"AUTHORIZED", "RELEASED"} /\ paidBy[o] = p

\* The order of p was taken out of play by the payment.failed of another attempt.
OutOfPlay(p) ==
  \E o \in Orders :
    /\ orderOf[p] = o /\ escrow[o] = "FAILED"
    /\ \E q \in Payments \ {p} :
         orderOf[q] = o /\ attempt[q] = "failed" /\ <<"failed", q>> \in seen

\* As long as no statement fails and no request is cut short, a payment the customer
\* authorised is recorded with its row: the webhook brings it there if the callback
\* never does.  An earlier attempt on the order that the provider announces as failed is
\* the exception: payment.failed takes the row to FAILED whichever payment it holds
\* (webhooks.ts:213), and an authorisation finds a PENDING row or none (webhooks.ts:190).
PaidIsRecorded ==
  \A p \in Payments :
    attempt[p] = "authorized" ~> (aborts > 0 \/ Recorded(p) \/ OutOfPlay(p))
===============================================================================
