------------------------------- MODULE PaymentApi -------------------------------
(***************************************************************************)
(* The payment and payout ports (packages/razorpay-adapter/src/index.ts):  *)
(* which adapter a configuration selects, how a call of the live adapter   *)
(* is retried, and how the fakes stand in for the provider.  Payout and    *)
(* Settlement use one call as one step; this module has its attempts.      *)
(*                                                                         *)
(* The provider is modelled from what the adapter sends it and reads from  *)
(* it.  It may answer, refuse, ask for patience, break, or never be heard, *)
(* and what it was asked to do may have been done in every case but those  *)
(* of a refusal and of a request for patience.  One payment and one        *)
(* contract: calls about different ones never meet.                        *)
(***************************************************************************)
EXTENDS Naturals, FiniteSets

CONSTANTS
  Users,        \* who may be inside a call of the ports together
  RequestAttempts,  \* MAX_ATTEMPTS
  MaxOrders     \* bound: orders created in a behaviour

ASSUME ApiAssumption == RequestAttempts \in Nat \ {0} /\ MaxOrders \in Nat

VARIABLES
  live,     \* whether the adapters are the live ones
  orders,   \* orders the provider has created
  payment,  \* status of the payment
  payouts,  \* idempotency headers under which a payout was created
  use       \* the call a user is in, or was in last

api == <<live, orders, payment, payouts, use>>

PaymentOps == {"createOrder", "fetchPayment", "capturePayment", "refundPayment"}
PayoutOps  == {"initiatePayout", "fetchPayout"}

\* A configuration by what the factories look at: its key id, whether it has a
\* key secret, and whether it is marked as a test.
KeyIds  == {"", "REPLACE_ME", "rzp_mock", "rzp_test_...", "rzp_test_1"}
Configs == [keyId : KeyIds, keySecret : BOOLEAN, isTest : BOOLEAN]

\* createRazorpayAdapter and createPayoutAdapter.
Selected(config) == config.keyId = "rzp_test_1" /\ config.keySecret /\ ~config.isTest

NoUse == [op |-> "none", step |-> "idle", attempt |-> 0, answer |-> "none",
          made |-> FALSE, doubt |-> FALSE]

ApiInit ==
  /\ \E config \in Configs : live = Selected(config)
  /\ orders = 0
  /\ payment = "authorized"
  /\ payouts = {}
  /\ use = [u \in Users |-> NoUse]

Becomes(u, r) == use' = [use EXCEPT ![u] = r]

\* A user calls a live port: the first attempt is sent.
Begin(u, op) ==
  /\ live /\ use[u].step \in {"idle", "ok", "error"}
  /\ Becomes(u, [NoUse EXCEPT !.op = op, !.step = "sent", !.attempt = 1])
  /\ UNCHANGED <<live, orders, payment, payouts>>

BeginPayment(u) == \E op \in PaymentOps : Begin(u, op)
BeginPayout(u)  == \E op \in PayoutOps : Begin(u, op)

(***************************************************************************)
(* The provider.                                                           *)
(***************************************************************************)

\* A header per attempt: the provider takes a retry for another payout.
FreshHeader(r) == r.attempt

\* X-Payout-Idempotency: the key of the contract on every attempt of every call.
Header(r) == 0

\* Whether the provider can do what an attempt asks for, and what changes then.
Possible(r) ==
  CASE r.op = "createOrder"    -> orders < MaxOrders
    [] r.op = "capturePayment" -> payment = "authorized"
    [] r.op = "refundPayment"  -> payment = "captured"
    [] r.op = "initiatePayout" -> Header(r) \notin payouts
    [] OTHER                   -> FALSE

Done(r) ==
  /\ orders' = IF r.op = "createOrder" THEN orders + 1 ELSE orders
  /\ payment' = CASE r.op = "capturePayment" -> "captured"
                  [] r.op = "refundPayment"  -> "refunded"
                  [] OTHER                   -> payment
  /\ payouts' = IF r.op = "initiatePayout" THEN payouts \cup {Header(r)} ELSE payouts

\* Requests that are answered with what there is: reads, a payout whose header is
\* known, and, where the provider is lenient, a capture of a captured payment.
Repeatable(r) ==
  \/ r.op \in {"fetchPayment", "fetchPayout"}
  \/ r.op = "initiatePayout" /\ Header(r) \in payouts
  \/ r.op = "capturePayment" /\ payment = "captured"

\* How an attempt ends for the adapter, and whether it leaves a doubt: it may have
\* taken effect, and its user was not told.
Endings == {"2xx", "4xx", "429", "5xx", "lost", "cut"}
Doubtful == {"5xx", "lost", "cut"}

Serve(u) ==
  LET r == use[u] IN
  /\ live /\ r.step = "sent"
  /\ \E e \in Endings, effect \in BOOLEAN :
       /\ effect => Possible(r) /\ e \notin {"4xx", "429"}
       /\ e = "2xx" => effect \/ Repeatable(r)
       /\ IF effect THEN Done(r) ELSE UNCHANGED <<orders, payment, payouts>>
       /\ Becomes(u, [r EXCEPT !.step = "answered", !.answer = e,
                               !.made = @ \/ effect, !.doubt = @ \/ e \in Doubtful])
  /\ UNCHANGED live

(***************************************************************************)
(* requestWithRetry.                                                       *)
(***************************************************************************)

\* A 429, a 5xx, or a request that failed on the way.
Retryable(e) == e \in {"429", "5xx", "lost"}

\* The adapter reads an answer: it returns, throws, or sleeps and tries again.  A
\* body that breaks off or is not JSON is thrown at once: the retries cover the
\* request, not the reading of its answer.  How long it sleeps is left out.
React(u) ==
  LET r == use[u] IN
  /\ r.step = "answered"
  /\ Becomes(u,
       IF Retryable(r.answer) /\ r.attempt < RequestAttempts
       THEN [r EXCEPT !.step = "sent", !.attempt = @ + 1, !.answer = "none"]
       ELSE [r EXCEPT !.answer = "none", !.step = IF r.answer = "2xx" THEN "ok" ELSE "error"])
  /\ UNCHANGED <<live, orders, payment, payouts>>

(***************************************************************************)
(* The fakes.                                                              *)
(***************************************************************************)

\* A fake answers at once and never refuses.
Pretend(u, op, new) ==
  /\ ~live
  /\ IF new THEN Done([NoUse EXCEPT !.op = op]) ELSE UNCHANGED <<orders, payment, payouts>>
  /\ Becomes(u, [NoUse EXCEPT !.op = op, !.step = "ok", !.attempt = 1, !.made = new])
  /\ UNCHANGED live

\* FakeRazorpayAdapter, which captures whatever it is asked to.
PretendPayment(u) ==
  \E op \in PaymentOps :
    /\ op = "createOrder" => orders < MaxOrders
    /\ Pretend(u, op, op \in {"createOrder", "capturePayment"})

\* FakePayoutAdapter, which returns what it keeps under the key.
PretendPayout(u) ==
  \E op \in PayoutOps :
    Pretend(u, op, op = "initiatePayout" /\ Header(NoUse) \notin payouts)

\* The process restarts: calls are forgotten, and so is all that a fake knows.
Reboot ==
  /\ use' = [u \in Users |-> NoUse]
  /\ IF live
     THEN UNCHANGED <<orders, payment, payouts>>
     ELSE orders' = 0 /\ payment' = "authorized" /\ payouts' = {}
  /\ UNCHANGED live

ApiNext ==
  \/ \E u \in Users : \/ BeginPayment(u) \/ BeginPayout(u) \/ Serve(u) \/ React(u)
                   \/ PretendPayment(u) \/ PretendPayout(u)
  \/ Reboot

ApiSpec == ApiInit /\ [][ApiNext]_api

-------------------------------------------------------------------------------

\* What an operation leaves behind at the provider, however often it was asked for.
InEffect(op) ==
  CASE op = "createOrder"    -> orders > 0
    [] op = "capturePayment" -> payment \in {"captured", "refunded"}
    [] op = "refundPayment"  -> ~live \/ payment = "refunded"
    [] op = "initiatePayout" -> payouts # {}
    [] OTHER                 -> TRUE

\* What Payout and Settlement rely on when they take a call for one step, with
\* retries, lost answers and two users in the way: a call that returned has its
\* effect, one that failed without a doubt has none of its own, and no retry pays
\* a contract a second time.
CallIsOneStep ==
  /\ Cardinality(payouts) <= 1
  /\ \A u \in Users :
       /\ use[u].step = "ok" => InEffect(use[u].op)
       /\ use[u].step = "error" /\ ~use[u].doubt => ~use[u].made
===============================================================================
