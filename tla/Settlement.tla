------------------------------ MODULE Settlement ------------------------------
(***************************************************************************)
(* The settlement worker's release of escrow                               *)
(* (apps/settlement-worker/src/worker.ts): the SETTLEMENT_REQUESTED        *)
(* handler, and the sweep for settlements abandoned in PROCESSING that a   *)
(* worker runs once when it starts, concurrently with the handler because  *)
(* the subscriptions are made first.                                       *)
(*                                                                         *)
(* Postgres (the settlements and escrow rows, the ledger) and the payment  *)
(* provider are shared; each statement or provider call that a handler     *)
(* awaits is one action, so that everything between two awaits interleaves *)
(* with the other fibers, with the gateway and with crashes.               *)
(*                                                                         *)
(* Sealing the Merkle root and the payout call, which follow a publication *)
(* and never throw, touch none of this module's state and are left to      *)
(* modules of their own.                                                   *)
(***************************************************************************)
EXTENDS Naturals, Sequences

CONSTANTS
  Workers,        \* settlement-worker processes
  Contracts,
  Orders,         \* escrow rows, numbered in order of escrow.created_at
  OrderContract,  \* the contract an escrow row belongs to
  Requests,       \* SETTLEMENT_REQUESTED messages
  ReqContract,    \* the contract a message names
  None,           \* SQL NULL, and "nothing" in a fiber's locals
  Faults,         \* the operations that may fail, see AllFaults
  MaxRetries,     \* handler runs before a message is dead-lettered
  MaxCrashes      \* bound: worker crashes in a behaviour

AllFaults ==
  {"evaluate", "claim", "find", "capture", "fetch", "commit", "mark", "publish",
   "ack",          \* XACK is lost and the message is delivered again
   "regress",      \* the oracle withdraws an approval
   "decline"}      \* the provider reports payment.failed for an order

ASSUME ConstantsAssumption ==
  /\ Orders \subseteq Nat
  /\ OrderContract \in [Orders -> Contracts]
  /\ ReqContract \in [Requests -> Contracts]
  /\ None \notin Orders \cup Contracts \cup Requests
  /\ Faults \subseteq AllFaults
  /\ MaxRetries \in Nat \ {0}
  /\ MaxCrashes \in Nat

VARIABLES
  settlement,  \* settlements.status of a contract, "NONE" when it has no row
  transfer,    \* settlements.transfer_id: the payment the row was completed with
  escrow,      \* escrow.status of an order
  ledger,      \* the SETTLEMENT_COMPLETED entries, in ledger_id order
  captured,    \* the orders whose payment the provider has captured
  approved,    \* the contracts that oracle.evaluate approves now
  requests,    \* state of each request on the stream
  events,      \* settlement events published, as <<kind, contract>>
  pc, req, at, held, try,   \* locals of a fiber: its next step, its message,
                            \* its contract, the payment found, the run number
  todo,        \* rows a worker's start-up sweep has still to recover
  crashes

rows   == <<settlement, transfer>>
books  == <<escrow, ledger>>
bus    == <<requests, events>>
locals == <<req, at, held, try, todo>>
vars   == <<rows, books, captured, approved, bus, pc, locals, crashes>>

Fibers == Workers \X {"handler", "startup"}

Handler(w) == <<w, "handler">>
Startup(w) == <<w, "startup">>

IsHandler(f) == f[2] = "handler"

HandlerSteps == {"down", "idle", "evaluate", "claim", "find", "capture", "commit",
                 "rolledback", "publish", "fail", "reject", "ack"}
StartupSteps == {"down", "sweep", "next", "evaluate", "find", "capture", "fetch",
                 "commit", "rolledback", "publish", "swept"}

Fails(op) == op \in Faults

Goto(f, step) == pc' = [pc EXCEPT ![f] = step]

Mark(c, status) == settlement' = [settlement EXCEPT ![c] = status]

Entry(f) == [order |-> held[f], recovered |-> ~IsHandler(f)]

\* The escrow rows findEscrowPayment selects from.
Held(c) == {o \in Orders : OrderContract[o] = c /\ escrow[o] = "AUTHORIZED"}

Settled(c) == \E i \in DOMAIN ledger : OrderContract[ledger[i].order] = c

-------------------------------------------------------------------------------

Init ==
  /\ settlement = [c \in Contracts |-> "NONE"]
  /\ transfer = [c \in Contracts |-> None]
  /\ escrow = [o \in Orders |-> "PENDING"]
  /\ ledger = <<>>
  /\ captured = {}
  /\ approved = {}
  /\ requests = [r \in Requests |-> "unsent"]
  /\ events = {}
  /\ pc = [f \in Fibers |-> "down"]
  /\ req = [f \in Fibers |-> None]
  /\ at = [f \in Fibers |-> None]
  /\ held = [f \in Fibers |-> None]
  /\ try = [f \in Fibers |-> 0]
  /\ todo = [w \in Workers |-> {}]
  /\ crashes = 0

(***************************************************************************)
(* The gateway, the provider and the oracle's inputs.                      *)
(***************************************************************************)

\* POST /settle reads the chain and refuses a contract that is settled ...
RequestSettlement(r) ==
  /\ requests[r] = "unsent"
  /\ ~Settled(ReqContract[r])
  /\ requests' = [requests EXCEPT ![r] = "checked"]
  /\ UNCHANGED <<rows, books, captured, approved, events, pc, locals, crashes>>

\* ... and publishes afterwards, whatever has happened in between.
PublishRequest(r) ==
  /\ requests[r] = "checked"
  /\ requests' = [requests EXCEPT ![r] = "pending"]
  /\ UNCHANGED <<rows, books, captured, approved, events, pc, locals, crashes>>

\* payment.authorized, by whichever of the callback, the webhook or the bus.
AuthorizeEscrow(o) ==
  /\ escrow[o] = "PENDING"
  /\ escrow' = [escrow EXCEPT ![o] = "AUTHORIZED"]
  /\ UNCHANGED <<rows, ledger, captured, approved, bus, pc, locals, crashes>>

\* DeclineEscrow without its status guard.
DeclineEscrowUnguarded(o) ==
  /\ Fails("decline")
  /\ escrow[o] # "FAILED"
  /\ escrow' = [escrow EXCEPT ![o] = "FAILED"]
  /\ UNCHANGED <<rows, ledger, captured, approved, bus, pc, locals, crashes>>

\* payment.failed takes an order that is not yet released out of play.
DeclineEscrow(o) ==
  /\ Fails("decline")
  /\ escrow[o] \in {"PENDING", "AUTHORIZED"}
  /\ escrow' = [escrow EXCEPT ![o] = "FAILED"]
  /\ UNCHANGED <<rows, ledger, captured, approved, bus, pc, locals, crashes>>

\* A new audit, score or scope check changes what evaluate answers.
OracleMoves(c) ==
  /\ \/ c \notin approved /\ approved' = approved \cup {c}
     \/ Fails("regress") /\ c \in approved /\ approved' = approved \ {c}
  /\ UNCHANGED <<rows, books, captured, bus, pc, locals, crashes>>

Environment ==
  \/ \E r \in Requests : RequestSettlement(r) \/ PublishRequest(r)
  \/ \E o \in Orders : AuthorizeEscrow(o) \/ DeclineEscrow(o)
  \/ \E c \in Contracts : OracleMoves(c)

(***************************************************************************)
(* Steps the handler and the sweep share.                                  *)
(***************************************************************************)

\* Where a fiber goes on when a step throws: the handler's catch block, or the
\* sweep's, which logs and takes the next row.
Threw(f) == IF IsHandler(f) THEN "fail" ELSE "next"

\* oracle.findEscrowPayment: the newest AUTHORIZED row.
Find(f) ==
  /\ pc[f] = "find"
  /\ \/ \E o \in Held(at[f]) :
          /\ \A p \in Held(at[f]) : p <= o
          /\ held' = [held EXCEPT ![f] = o]
          /\ Goto(f, "capture")
     \/ /\ Held(at[f]) = {} \/ Fails("find")
        /\ Goto(f, Threw(f))
        /\ UNCHANGED held
  /\ UNCHANGED <<rows, books, captured, approved, bus, req, at, try, todo, crashes>>

\* Capture against a provider that would take an already captured payment again.
CaptureTwice(f) ==
  /\ pc[f] = "capture"
  /\ captured' = captured \cup {held[f]}
  /\ Goto(f, "commit")
  /\ UNCHANGED <<rows, books, approved, bus, locals, crashes>>

\* payments.capturePayment.  A payment can be captured once: a later capture is
\* rejected, as is the adapter's own retry of a call whose answer was lost.
Capture(f) ==
  /\ pc[f] = "capture"
  /\ \/ /\ held[f] \notin captured
        /\ captured' = captured \cup {held[f]}
        /\ Goto(f, "commit")
     \/ /\ held[f] \in captured \/ Fails("capture")
        /\ \/ UNCHANGED captured
           \/ Fails("capture") /\ captured' = captured \cup {held[f]}
        /\ Goto(f, IF IsHandler(f) THEN "fail" ELSE "fetch")
  /\ UNCHANGED <<rows, books, approved, bus, locals, crashes>>

\* commitSettlement's transaction: ledger entry, escrow row, settlement row.
Record(f) ==
  /\ ledger' = Append(ledger, Entry(f))
  /\ escrow' = [escrow EXCEPT ![held[f]] = "RELEASED"]
  /\ Mark(at[f], "COMPLETED")
  /\ transfer' = [transfer EXCEPT ![at[f]] = held[f]]

\* commitSettlement that swallows the error it rolled back on.
CommitSwallows(f) ==
  /\ pc[f] = "commit"
  /\ \/ Record(f)
     \/ Fails("commit") /\ UNCHANGED <<rows, books>>
  /\ Goto(f, "publish")
  /\ UNCHANGED <<captured, approved, bus, locals, crashes>>

\* commitSettlement.  A failed statement rolls back and goes on to mark the row
\* FAILED; a lost connection throws out of the catch block as well, whether or
\* not the COMMIT had taken effect.
Commit(f) ==
  /\ pc[f] = "commit"
  /\ \/ Record(f) /\ Goto(f, "publish")
     \/ Fails("commit") /\ UNCHANGED <<rows, books>> /\ Goto(f, "rolledback")
     \/ Fails("commit") /\ UNCHANGED <<rows, books>> /\ Goto(f, Threw(f))
     \/ Fails("commit") /\ Record(f) /\ Goto(f, Threw(f))
  /\ UNCHANGED <<captured, approved, bus, locals, crashes>>

\* markSettlementFailed: an UPDATE with no condition on the row's status.
MarkFailed(f) ==
  \/ Mark(at[f], "FAILED")
  \/ Fails("mark") /\ UNCHANGED settlement

\* The mark commitSettlement makes after its ROLLBACK, before it rethrows.
MarkRolledBack(f) ==
  /\ pc[f] = "rolledback"
  /\ MarkFailed(f)
  /\ Goto(f, Threw(f))
  /\ UNCHANGED <<transfer, books, captured, approved, bus, locals, crashes>>

\* eventBus.publish(SETTLEMENT_COMPLETED).  The throw of a failed publication
\* lands in the handler's catch block although the transaction has committed.
Publish(f) ==
  /\ pc[f] = "publish"
  /\ \/ /\ events' = events \cup {<<"COMPLETED", at[f]>>}
        /\ Goto(f, IF IsHandler(f) THEN "ack" ELSE "next")
     \/ Fails("publish") /\ Goto(f, Threw(f)) /\ UNCHANGED events
  /\ UNCHANGED <<rows, books, captured, approved, requests, locals, crashes>>

(***************************************************************************)
(* The SETTLEMENT_REQUESTED handler.                                       *)
(***************************************************************************)

\* The bus hands a pending message to an idle handler.  The message stays
\* pending until it is acknowledged, so another worker may claim it meanwhile.
Deliver(w, r) ==
  /\ pc[Handler(w)] = "idle"
  /\ requests[r] = "pending"
  /\ req' = [req EXCEPT ![Handler(w)] = r]
  /\ at' = [at EXCEPT ![Handler(w)] = ReqContract[r]]
  /\ try' = [try EXCEPT ![Handler(w)] = 1]
  /\ Goto(Handler(w), "evaluate")
  /\ UNCHANGED <<rows, books, captured, approved, bus, held, todo, crashes>>

\* The handler is done with its message, which becomes `state`.
FinishAs(f, state) ==
  /\ requests' = [requests EXCEPT ![req[f]] = state]
  /\ Goto(f, "idle")
  /\ req' = [req EXCEPT ![f] = None]
  /\ at' = [at EXCEPT ![f] = None]
  /\ held' = [held EXCEPT ![f] = None]
  /\ try' = [try EXCEPT ![f] = 0]

\* oracle.evaluate; an unreadable oracle is a rejection.
Evaluate(f) ==
  /\ pc[f] = "evaluate" /\ IsHandler(f)
  /\ \/ at[f] \in approved /\ Goto(f, "claim")
     \/ (at[f] \notin approved \/ Fails("evaluate")) /\ Goto(f, "reject")
  /\ UNCHANGED <<rows, books, captured, approved, bus, locals, crashes>>

\* claimSettlement: take the row if there is none or the last attempt failed.
\* A failed query counts as "not the claimant", and the message is acknowledged.
Claim(f) ==
  /\ pc[f] = "claim"
  /\ \/ /\ settlement[at[f]] \in {"NONE", "FAILED"}
        /\ Mark(at[f], "PROCESSING")
        /\ Goto(f, "find")
     \/ /\ settlement[at[f]] \notin {"NONE", "FAILED"} \/ Fails("claim")
        /\ Goto(f, "ack")
        /\ UNCHANGED settlement
  /\ UNCHANGED <<transfer, books, captured, approved, bus, locals, crashes>>

\* The catch block: mark the row FAILED (errors swallowed), then reject.
Fail(f) ==
  /\ pc[f] = "fail"
  /\ MarkFailed(f)
  /\ Goto(f, "reject")
  /\ UNCHANGED <<transfer, books, captured, approved, bus, locals, crashes>>

\* publishSettlementRejected.  If it throws, the handler throws: the bus runs it
\* again, and dead-letters the message after the last run.
Reject(f) ==
  /\ pc[f] = "reject"
  /\ \/ /\ events' = events \cup {<<"REJECTED", at[f]>>}
        /\ Goto(f, "ack")
        /\ UNCHANGED <<requests, locals>>
     \/ /\ Fails("publish") /\ try[f] < MaxRetries
        /\ try' = [try EXCEPT ![f] = @ + 1]
        /\ held' = [held EXCEPT ![f] = None]
        /\ Goto(f, "evaluate")
        /\ UNCHANGED <<bus, req, at, todo>>
     \/ /\ Fails("publish") /\ try[f] >= MaxRetries
        /\ FinishAs(f, "dead")
        /\ UNCHANGED <<events, todo>>
  /\ UNCHANGED <<rows, books, captured, approved, crashes>>

\* An acknowledgement forgotten on the way out of the handler.
AckForgotten(f) ==
  /\ pc[f] = "ack"
  /\ FinishAs(f, requests[req[f]])
  /\ UNCHANGED <<rows, books, captured, approved, events, todo, crashes>>

\* XACK.
Ack(f) ==
  /\ pc[f] = "ack"
  /\ \/ FinishAs(f, "acked")
     \/ Fails("ack") /\ FinishAs(f, requests[req[f]])
  /\ UNCHANGED <<rows, books, captured, approved, events, todo, crashes>>

(***************************************************************************)
(* The start-up sweep, reconcileAbandonedSettlements.                      *)
(***************************************************************************)

\* A worker that starts without sweeping.
NoSweep(w) ==
  /\ pc[Startup(w)] = "sweep"
  /\ Goto(Startup(w), "next")
  /\ UNCHANGED <<rows, books, captured, approved, bus, locals, crashes>>

\* SELECT the rows at PROCESSING, once.
Sweep(w) ==
  /\ pc[Startup(w)] = "sweep"
  /\ todo' = [todo EXCEPT ![w] = {c \in Contracts : settlement[c] = "PROCESSING"}]
  /\ Goto(Startup(w), "next")
  /\ UNCHANGED <<rows, books, captured, approved, bus, req, at, held, try, crashes>>

\* Take the next row, or finish.
SweepNext(w) ==
  LET f == Startup(w) IN
  /\ pc[f] = "next"
  /\ \/ \E c \in todo[w] :
          /\ at' = [at EXCEPT ![f] = c]
          /\ todo' = [todo EXCEPT ![w] = @ \ {c}]
          /\ Goto(f, "evaluate")
     \/ /\ todo[w] = {}
        /\ at' = [at EXCEPT ![f] = None]
        /\ Goto(f, "swept")
        /\ UNCHANGED todo
  /\ held' = [held EXCEPT ![f] = None]
  /\ UNCHANGED <<rows, books, captured, approved, bus, req, try, crashes>>

\* Recovery starts over from the oracle; a row no longer approved stays as it is.
Reevaluate(f) ==
  /\ pc[f] = "evaluate" /\ ~IsHandler(f)
  /\ \/ at[f] \in approved /\ Goto(f, "find")
     \/ (at[f] \notin approved \/ Fails("evaluate")) /\ Goto(f, "next")
  /\ UNCHANGED <<rows, books, captured, approved, bus, locals, crashes>>

\* The capture threw: fetchPayment decides whether the money was taken before.
Fetch(f) ==
  /\ pc[f] = "fetch"
  /\ \/ held[f] \in captured /\ Goto(f, "commit")
     \/ (held[f] \notin captured \/ Fails("fetch")) /\ Goto(f, "next")
  /\ UNCHANGED <<rows, books, captured, approved, bus, locals, crashes>>

(***************************************************************************)
(* Processes.                                                              *)
(***************************************************************************)

\* start(): the subscriptions and the sweep begin together.
Start(w) ==
  /\ pc[Handler(w)] = "down"
  /\ pc' = [pc EXCEPT ![Handler(w)] = "idle", ![Startup(w)] = "sweep"]
  /\ UNCHANGED <<rows, books, captured, approved, bus, locals, crashes>>

\* The process ends between two awaits: killed, or shut down with a handler in
\* flight, since shutdown() closes the pool without waiting for handlers.
Crash(w) ==
  /\ pc[Handler(w)] # "down"
  /\ crashes < MaxCrashes
  /\ crashes' = crashes + 1
  /\ pc' = [pc EXCEPT ![Handler(w)] = "down", ![Startup(w)] = "down"]
  /\ req' = [req EXCEPT ![Handler(w)] = None]
  /\ at' = [at EXCEPT ![Handler(w)] = None, ![Startup(w)] = None]
  /\ held' = [held EXCEPT ![Handler(w)] = None, ![Startup(w)] = None]
  /\ try' = [try EXCEPT ![Handler(w)] = 0]
  /\ todo' = [todo EXCEPT ![w] = {}]
  /\ UNCHANGED <<rows, books, captured, approved, bus>>

FiberStep(f) ==
  \/ Find(f) \/ Capture(f) \/ Commit(f) \/ MarkRolledBack(f) \/ Publish(f)
  \/ Evaluate(f) \/ Claim(f) \/ Fail(f) \/ Reject(f) \/ Ack(f)
  \/ Reevaluate(f) \/ Fetch(f)

HandlerStep(w) == FiberStep(Handler(w)) \/ \E r \in Requests : Deliver(w, r)

StartupStep(w) == FiberStep(Startup(w)) \/ Sweep(w) \/ SweepNext(w)

Next ==
  \/ Environment
  \/ \E w \in Workers : HandlerStep(w) \/ StartupStep(w) \/ Start(w) \/ Crash(w)

Spec == Init /\ [][Next]_vars

\* The poll loop and the start-up code always run on, and the orchestrator
\* restarts a worker that is down.
Fairness ==
  \A w \in Workers :
    /\ WF_vars(HandlerStep(w))
    /\ WF_vars(StartupStep(w))
    /\ WF_vars(Start(w))

FairSpec == Spec /\ Fairness

-------------------------------------------------------------------------------
(***************************************************************************)
(* Properties.                                                             *)
(***************************************************************************)

\* Every variable has its type, and a fiber is at a step of its own kind.
TypeOK ==
  /\ settlement \in [Contracts -> {"NONE", "PROCESSING", "COMPLETED", "FAILED"}]
  /\ transfer \in [Contracts -> Orders \cup {None}]
  /\ escrow \in [Orders -> {"PENDING", "AUTHORIZED", "RELEASED", "FAILED"}]
  /\ ledger \in Seq([order : Orders, recovered : BOOLEAN])
  /\ captured \in SUBSET Orders
  /\ approved \in SUBSET Contracts
  /\ requests \in [Requests -> {"unsent", "checked", "pending", "acked", "dead"}]
  /\ events \in SUBSET ({"COMPLETED", "REJECTED"} \X Contracts)
  /\ pc \in [Fibers -> HandlerSteps \cup StartupSteps]
  /\ \A f \in Fibers : pc[f] \in IF IsHandler(f) THEN HandlerSteps ELSE StartupSteps
  /\ req \in [Fibers -> Requests \cup {None}]
  /\ at \in [Fibers -> Contracts \cup {None}]
  /\ held \in [Fibers -> Orders \cup {None}]
  /\ try \in [Fibers -> 0..MaxRetries]
  /\ todo \in [Workers -> SUBSET Contracts]
  /\ crashes \in 0..MaxCrashes

\* The books show a payment as released only when the provider took the money:
\* recovery's "already captured" is never a capture that did not happen.
ReleasedIsCaptured == \A o \in Orders : escrow[o] = "RELEASED" => o \in captured

\* An escrow row is RELEASED exactly when the chain says so: the transaction of
\* commitSettlement never shows half, and no later failure notice undoes it.
BooksMatchEscrow ==
  \A o \in Orders :
    escrow[o] = "RELEASED" <=> \E i \in DOMAIN ledger : ledger[i].order = o

\* A COMPLETED row names the payment it was completed with, that payment was
\* this contract's, and it is released and on the chain.
CompletedIsBacked ==
  \A c \in Contracts :
    settlement[c] = "COMPLETED" =>
      \E i \in DOMAIN ledger :
        /\ ledger[i].order = transfer[c]
        /\ OrderContract[transfer[c]] = c
        /\ escrow[transfer[c]] = "RELEASED"

\* A SETTLEMENT_COMPLETED event is about a settlement that is on the chain.
AnnouncedIsBooked ==
  \A c \in Contracts : <<"COMPLETED", c>> \in events => Settled(c)

\* However often a request is delivered, retried or handled by two workers at
\* once, the handlers book a payment at most once: what protects them is that a
\* payment can be captured once and that a handler stops when its capture fails.
HandlerReleasesOnce ==
  \A i, j \in DOMAIN ledger :
    ledger[i].order = ledger[j].order
      /\ ~ledger[i].recovered /\ ~ledger[j].recovered => i = j

\* Every payment goes from held to taken to released and never back: the worker
\* implements PaymentBook.
Book == INSTANCE PaymentBook
          WITH Payments <- Orders,
               phase <- [o \in Orders |->
                           IF escrow[o] = "RELEASED" THEN "released"
                           ELSE IF o \in captured THEN "taken" ELSE "held"]

BookSpec == Book!Spec

\* A payment captured by a worker that died before booking it, its row still at
\* PROCESSING, does not stay so: the sweep of the next start resolves it.
Abandoned(o) ==
  /\ o \in captured /\ escrow[o] = "AUTHORIZED"
  /\ settlement[OrderContract[o]] = "PROCESSING"

AbandonedIsRecovered == \A o \in Orders : Abandoned(o) ~> ~Abandoned(o)

\* A request on the stream is acknowledged or dead-lettered, through crashes.
RequestsAnswered ==
  \A r \in Requests : requests[r] = "pending" ~> requests[r] \in {"acked", "dead"}
===============================================================================
