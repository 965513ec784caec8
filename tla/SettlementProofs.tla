--------------------------- MODULE SettlementProofs ---------------------------
(***************************************************************************)
(* Proofs about the settlement worker, for any number of workers,          *)
(* contracts, escrow rows and requests, and for every choice of faults.    *)
(***************************************************************************)
EXTENDS Settlement, TLAPS

\* A fiber past the start of its loop has a contract, a handler also a message,
\* and a fiber that goes to the provider or commits has one of that contract's
\* payments in hand.
LocalsOK ==
  \A f \in Fibers :
    /\ pc[f] \notin {"down", "idle", "sweep", "next", "swept"} =>
         /\ at[f] \in Contracts
         /\ IsHandler(f) => req[f] \in Requests
    /\ pc[f] \in {"capture", "fetch", "commit"} =>
         held[f] \in Orders /\ OrderContract[held[f]] = at[f]

Typed == TypeOK /\ LocalsOK

\* A fiber about to commit holds a payment that has been taken.
CommitsCaptured == \A f \in Fibers : pc[f] = "commit" => held[f] \in captured

\* A fiber about to announce a settlement has booked it.
PublishesBooked == \A f \in Fibers : pc[f] = "publish" => Settled(at[f])

\* A handler about to commit is the only handler with that payment, which no
\* handler has booked before: its capture was the first.
HandlerOwnsCapture ==
  \A f \in Fibers :
    pc[f] = "commit" /\ IsHandler(f) =>
      /\ \A i \in DOMAIN ledger : ledger[i].order = held[f] => ledger[i].recovered
      /\ \A g \in Fibers :
           pc[g] = "commit" /\ IsHandler(g) /\ held[g] = held[f] => g = f

IInv == Typed /\ ReleasedIsCaptured /\ CommitsCaptured /\ BooksMatchEscrow
          /\ CompletedIsBacked /\ PublishesBooked /\ AnnouncedIsBooked
          /\ HandlerOwnsCapture /\ HandlerReleasesOnce

-------------------------------------------------------------------------------

\* The fibers of a worker, and the worker of a fiber.
LEMMA FiberFacts ==
  /\ \A w \in Workers : /\ Handler(w) \in Fibers /\ IsHandler(Handler(w))
                        /\ Startup(w) \in Fibers /\ ~IsHandler(Startup(w))
                        /\ Handler(w) # Startup(w)
PROOF BY DEF Fibers, Handler, Startup, IsHandler

\* Every worker starts down, with nothing in its locals and no row written.
LEMMA InitTyped == Init => Typed
PROOF BY ConstantsAssumption, FiberFacts
  DEF Init, Typed, TypeOK, LocalsOK, HandlerSteps, StartupSteps

\* A handler that ends with its message leaves typed locals.
LEMMA FinishTyped ==
  ASSUME Typed, NEW f \in Fibers, req[f] \in Requests,
         NEW state \in {"unsent", "checked", "pending", "acked", "dead"},
         FinishAs(f, state)
  PROVE  /\ requests' \in [Requests -> {"unsent", "checked", "pending", "acked", "dead"}]
        /\ req' \in [Fibers -> Requests \cup {None}]
        /\ at' \in [Fibers -> Contracts \cup {None}]
        /\ held' \in [Fibers -> Orders \cup {None}]
        /\ try' \in [Fibers -> 0..MaxRetries]
PROOF
<1>1. requests' \in [Requests -> {"unsent", "checked", "pending", "acked", "dead"}]
  BY DEF FinishAs, Typed, TypeOK
<1>2. try' \in [Fibers -> 0..MaxRetries]
  BY ConstantsAssumption DEF FinishAs, Typed, TypeOK
<1>3. /\ req' \in [Fibers -> Requests \cup {None}]
      /\ at' \in [Fibers -> Contracts \cup {None}]
      /\ held' \in [Fibers -> Orders \cup {None}]
  BY DEF FinishAs, Typed, TypeOK
<1> QED BY <1>1, <1>2, <1>3

\* The steps of a fiber keep the types.
LEMMA FiberTyped ==
  ASSUME Typed, NEW f \in Fibers, FiberStep(f)
  PROVE  Typed'
PROOF
<1>1. CASE Find(f)
  <2>1. pc[f] = "find"
    BY <1>1 DEF Find, Typed, TypeOK, HandlerSteps, StartupSteps
  <2>2. PICK s \in {"capture", IF IsHandler(f) THEN "fail" ELSE "next"} :
          pc' = [pc EXCEPT ![f] = s]
    BY <1>1 DEF Find, Goto, Threw
  <2>3. s \in IF IsHandler(f) THEN HandlerSteps ELSE StartupSteps
    BY <2>1 DEF HandlerSteps, StartupSteps
  <2>4. held' \in [Fibers -> Orders \cup {None}]
    BY <1>1 DEF Find, Held, Typed, TypeOK
  <2>5. UNCHANGED <<settlement, transfer, escrow, ledger, captured, approved, requests, events, req, at, try, todo, crashes>>
    BY <1>1 DEF Find, rows, books, bus, locals
  <2>6. TypeOK'
    BY <2>2, <2>3, <2>4, <2>5 DEF Typed, TypeOK
  <2>7. LocalsOK'
    BY <1>1, <2>5, <2>1, <2>2 DEF Find, Held, Goto, Threw, bus, locals, Typed, TypeOK, LocalsOK
  <2> QED BY <2>6, <2>7 DEF Typed
<1>2. CASE Capture(f)
  <2>1. pc[f] = "capture"
    BY <1>2 DEF Capture, Typed, TypeOK, HandlerSteps, StartupSteps
  <2>2. PICK s \in {"commit", IF IsHandler(f) THEN "fail" ELSE "fetch"} :
          pc' = [pc EXCEPT ![f] = s]
    BY <1>2 DEF Capture, Goto
  <2>3. s \in IF IsHandler(f) THEN HandlerSteps ELSE StartupSteps
    BY <2>1 DEF HandlerSteps, StartupSteps
  <2>4. captured' \in SUBSET Orders
    <3>1. held[f] \in Orders /\ captured \in SUBSET Orders
      BY <2>1 DEF Typed, TypeOK, LocalsOK
    <3>2. captured' = captured \/ captured' = captured \cup {held[f]}
      BY <1>2 DEF Capture
    <3> QED BY <3>1, <3>2
  <2>5. UNCHANGED <<settlement, transfer, escrow, ledger, approved, requests, events, req, at, held, try, todo, crashes>>
    BY <1>2 DEF Capture, rows, books, bus, locals
  <2>6. TypeOK'
    BY <2>2, <2>3, <2>4, <2>5 DEF Typed, TypeOK
  <2>7. LocalsOK'
    BY <2>5, <2>1, <2>2 DEF Typed, TypeOK, LocalsOK
  <2> QED BY <2>6, <2>7 DEF Typed
<1>3. CASE Commit(f)
  <2>1. pc[f] = "commit"
    BY <1>3 DEF Commit, Typed, TypeOK, HandlerSteps, StartupSteps
  <2>2. PICK s \in {"publish", "rolledback", IF IsHandler(f) THEN "fail" ELSE "next"} :
          pc' = [pc EXCEPT ![f] = s]
    BY <1>3 DEF Commit, Goto, Threw
  <2>3. s \in IF IsHandler(f) THEN HandlerSteps ELSE StartupSteps
    BY <2>1 DEF HandlerSteps, StartupSteps
  <2>4. /\ settlement' \in [Contracts -> {"NONE", "PROCESSING", "COMPLETED", "FAILED"}]
        /\ transfer' \in [Contracts -> Orders \cup {None}]
        /\ escrow' \in [Orders -> {"PENDING", "AUTHORIZED", "RELEASED", "FAILED"}]
        /\ ledger' \in Seq([order : Orders, recovered : BOOLEAN])
    <3>1. held[f] \in Orders /\ at[f] \in Contracts
      BY <2>1 DEF Typed, LocalsOK
    <3>2. Entry(f) \in [order : Orders, recovered : BOOLEAN]
      BY <3>1 DEF Entry, IsHandler
    <3>3. CASE Record(f)
      BY <3>1, <3>2, <3>3 DEF Record, Mark, Typed, TypeOK
    <3>4. CASE UNCHANGED <<rows, books>>
      BY <3>4 DEF rows, books, Typed, TypeOK
    <3> QED BY <1>3, <3>3, <3>4 DEF Commit
  <2>5. UNCHANGED <<captured, approved, requests, events, req, at, held, try, todo, crashes>>
    BY <1>3 DEF Commit, rows, books, bus, locals
  <2>6. TypeOK'
    BY <2>2, <2>3, <2>4, <2>5 DEF Typed, TypeOK
  <2>7. LocalsOK'
    BY <2>5, <2>1, <2>2 DEF Typed, TypeOK, LocalsOK
  <2> QED BY <2>6, <2>7 DEF Typed
<1>4. CASE MarkRolledBack(f)
  <2>1. pc[f] = "rolledback"
    BY <1>4 DEF MarkRolledBack, Typed, TypeOK, HandlerSteps, StartupSteps
  <2>2. PICK s \in {IF IsHandler(f) THEN "fail" ELSE "next"} :
          pc' = [pc EXCEPT ![f] = s]
    BY <1>4 DEF MarkRolledBack, Goto, Threw
  <2>3. s \in IF IsHandler(f) THEN HandlerSteps ELSE StartupSteps
    BY <2>1 DEF HandlerSteps, StartupSteps
  <2>4. settlement' \in [Contracts -> {"NONE", "PROCESSING", "COMPLETED", "FAILED"}]
    <3>1. at[f] \in Contracts
      BY <2>1 DEF Typed, LocalsOK
    <3> QED BY <1>4, <3>1 DEF MarkRolledBack, MarkFailed, Mark, Typed, TypeOK
  <2>5. UNCHANGED <<transfer, escrow, ledger, captured, approved, requests, events, req, at, held, try, todo, crashes>>
    BY <1>4 DEF MarkRolledBack, rows, books, bus, locals
  <2>6. TypeOK'
    BY <2>2, <2>3, <2>4, <2>5 DEF Typed, TypeOK
  <2>7. LocalsOK'
    BY <2>5, <2>1, <2>2 DEF Typed, TypeOK, LocalsOK
  <2> QED BY <2>6, <2>7 DEF Typed
<1>5. CASE Publish(f)
  <2>1. pc[f] = "publish"
    BY <1>5 DEF Publish, Typed, TypeOK, HandlerSteps, StartupSteps
  <2>2. PICK s \in {IF IsHandler(f) THEN "ack" ELSE "next", IF IsHandler(f) THEN "fail" ELSE "next"} :
          pc' = [pc EXCEPT ![f] = s]
    BY <1>5 DEF Publish, Goto, Threw
  <2>3. s \in IF IsHandler(f) THEN HandlerSteps ELSE StartupSteps
    BY <2>1 DEF HandlerSteps, StartupSteps
  <2>4. events' \in SUBSET ({"COMPLETED", "REJECTED"} \X Contracts)
    <3>1. /\ at[f] \in Contracts
          /\ events \in SUBSET ({"COMPLETED", "REJECTED"} \X Contracts)
      BY <2>1 DEF Typed, TypeOK, LocalsOK
    <3>2. events' = events \/ events' = events \cup {<<"COMPLETED", at[f]>>}
      BY <1>5 DEF Publish
    <3> QED BY <3>1, <3>2
  <2>5. UNCHANGED <<settlement, transfer, escrow, ledger, captured, approved, requests, req, at, held, try, todo, crashes>>
    BY <1>5 DEF Publish, rows, books, bus, locals
  <2>6. TypeOK'
    BY <2>2, <2>3, <2>4, <2>5 DEF Typed, TypeOK
  <2>7. LocalsOK'
    BY <2>5, <2>1, <2>2 DEF Typed, TypeOK, LocalsOK
  <2> QED BY <2>6, <2>7 DEF Typed
<1>6. CASE Evaluate(f)
  <2>1. pc[f] = "evaluate" /\ IsHandler(f)
    BY <1>6 DEF Evaluate, Typed, TypeOK, HandlerSteps, StartupSteps
  <2>2. PICK s \in {"claim", "reject"} :
          pc' = [pc EXCEPT ![f] = s]
    BY <1>6 DEF Evaluate, Goto
  <2>3. s \in IF IsHandler(f) THEN HandlerSteps ELSE StartupSteps
    BY <2>1 DEF HandlerSteps, StartupSteps
  <2>4. UNCHANGED <<settlement, transfer, escrow, ledger, captured, approved, requests, events, req, at, held, try, todo, crashes>>
    BY <1>6 DEF Evaluate, rows, books, bus, locals
  <2>5. TypeOK'
    BY <2>2, <2>3, <2>4 DEF Typed, TypeOK
  <2>6. LocalsOK'
    BY <2>4, <2>1, <2>2 DEF Typed, TypeOK, LocalsOK
  <2> QED BY <2>5, <2>6 DEF Typed
<1>7. CASE Claim(f)
  <2>1. pc[f] = "claim" /\ IsHandler(f)
    BY <1>7 DEF Claim, Typed, TypeOK, HandlerSteps, StartupSteps
  <2>2. PICK s \in {"find", "ack"} :
          pc' = [pc EXCEPT ![f] = s]
    BY <1>7 DEF Claim, Goto
  <2>3. s \in IF IsHandler(f) THEN HandlerSteps ELSE StartupSteps
    BY <2>1 DEF HandlerSteps, StartupSteps
  <2>4. settlement' \in [Contracts -> {"NONE", "PROCESSING", "COMPLETED", "FAILED"}]
    <3>1. at[f] \in Contracts
      BY <2>1 DEF Typed, LocalsOK
    <3>2. settlement' = [settlement EXCEPT ![at[f]] = "PROCESSING"] \/ settlement' = settlement
      BY <1>7 DEF Claim, Mark
    <3>3. settlement \in [Contracts -> {"NONE", "PROCESSING", "COMPLETED", "FAILED"}]
      BY DEF Typed, TypeOK
    <3> QED BY <3>1, <3>2, <3>3
  <2>5. UNCHANGED <<transfer, escrow, ledger, captured, approved, requests, events, req, at, held, try, todo, crashes>>
    BY <1>7 DEF Claim, rows, books, bus, locals
  <2>6. TypeOK'
    BY <2>2, <2>3, <2>4, <2>5 DEF Typed, TypeOK
  <2>7. LocalsOK'
    BY <2>5, <2>1, <2>2 DEF Typed, TypeOK, LocalsOK
  <2> QED BY <2>6, <2>7 DEF Typed
<1>8. CASE Fail(f)
  <2>1. pc[f] = "fail" /\ IsHandler(f)
    BY <1>8 DEF Fail, Typed, TypeOK, HandlerSteps, StartupSteps
  <2>2. PICK s \in {"reject"} :
          pc' = [pc EXCEPT ![f] = s]
    BY <1>8 DEF Fail, Goto
  <2>3. s \in IF IsHandler(f) THEN HandlerSteps ELSE StartupSteps
    BY <2>1 DEF HandlerSteps, StartupSteps
  <2>4. settlement' \in [Contracts -> {"NONE", "PROCESSING", "COMPLETED", "FAILED"}]
    <3>1. at[f] \in Contracts
      BY <2>1 DEF Typed, LocalsOK
    <3> QED BY <1>8, <3>1 DEF Fail, MarkFailed, Mark, Typed, TypeOK
  <2>5. UNCHANGED <<transfer, escrow, ledger, captured, approved, requests, events, req, at, held, try, todo, crashes>>
    BY <1>8 DEF Fail, rows, books, bus, locals
  <2>6. TypeOK'
    BY <2>2, <2>3, <2>4, <2>5 DEF Typed, TypeOK
  <2>7. LocalsOK'
    BY <2>5, <2>1, <2>2 DEF Typed, TypeOK, LocalsOK
  <2> QED BY <2>6, <2>7 DEF Typed
<1>9. CASE Reject(f)
  <2>1. pc[f] = "reject" /\ IsHandler(f)
    BY <1>9 DEF Reject, Typed, TypeOK, HandlerSteps, StartupSteps
  <2>2. PICK s \in {"ack", "evaluate", "idle"} :
          pc' = [pc EXCEPT ![f] = s]
    BY <1>9 DEF Reject, Goto, FinishAs
  <2>3. s \in IF IsHandler(f) THEN HandlerSteps ELSE StartupSteps
    BY <2>1 DEF HandlerSteps, StartupSteps
  <2>4. /\ requests' \in [Requests -> {"unsent", "checked", "pending", "acked", "dead"}]
        /\ req' \in [Fibers -> Requests \cup {None}]
        /\ at' \in [Fibers -> Contracts \cup {None}]
        /\ held' \in [Fibers -> Orders \cup {None}]
        /\ try' \in [Fibers -> 0..MaxRetries]
        /\ events' \in SUBSET ({"COMPLETED", "REJECTED"} \X Contracts)
    <3>1. /\ at[f] \in Contracts /\ req[f] \in Requests
          /\ events \in SUBSET ({"COMPLETED", "REJECTED"} \X Contracts)
      BY <2>1 DEF Typed, TypeOK, LocalsOK
    <3>2. events' = events \/ events' = events \cup {<<"REJECTED", at[f]>>}
      BY <1>9 DEF Reject, bus
    <3>3. events' \in SUBSET ({"COMPLETED", "REJECTED"} \X Contracts)
      BY <3>1, <3>2
    <3>4. CASE FinishAs(f, "dead")
      BY <3>1, <3>3, <3>4, FinishTyped
    <3>5. CASE UNCHANGED <<requests, req, at>> /\ UNCHANGED <<held, try>>
      BY <3>3, <3>5 DEF Typed, TypeOK
    <3>6. CASE /\ UNCHANGED <<requests, req, at>> /\ try[f] < MaxRetries
               /\ try' = [try EXCEPT ![f] = @ + 1]
               /\ held' = [held EXCEPT ![f] = None]
      <4>1. try[f] + 1 \in 0..MaxRetries
        BY <3>6, ConstantsAssumption DEF Typed, TypeOK
      <4>2. try' \in [Fibers -> 0..MaxRetries]
        BY <3>6, <4>1 DEF Typed, TypeOK
      <4>3. held' \in [Fibers -> Orders \cup {None}]
        BY <3>6 DEF Typed, TypeOK
      <4> QED BY <3>3, <3>6, <4>2, <4>3 DEF Typed, TypeOK
    <3> QED BY <1>9, <3>4, <3>5, <3>6 DEF Reject, bus, locals
  <2>5. UNCHANGED <<settlement, transfer, escrow, ledger, captured, approved, todo, crashes>>
    BY <1>9 DEF Reject, FinishAs, rows, books, bus, locals
  <2>6. TypeOK'
    BY <2>2, <2>3, <2>4, <2>5 DEF Typed, TypeOK
  <2>7. LocalsOK'
    <3>1. CASE FinishAs(f, "dead")
      BY <2>1, <2>5, <3>1 DEF FinishAs, Goto, Typed, TypeOK, LocalsOK
    <3>2. CASE Goto(f, "ack") /\ UNCHANGED locals
      BY <2>1, <2>5, <3>2 DEF Goto, locals, Typed, TypeOK, LocalsOK
    <3>3. CASE /\ Goto(f, "evaluate") /\ UNCHANGED <<req, at>>
               /\ held' = [held EXCEPT ![f] = None]
      BY <2>1, <2>5, <3>3 DEF Goto, Typed, TypeOK, LocalsOK
    <3> QED BY <1>9, <3>1, <3>2, <3>3 DEF Reject
  <2> QED BY <2>6, <2>7 DEF Typed
<1>10. CASE Ack(f)
  <2>1. pc[f] = "ack" /\ IsHandler(f)
    BY <1>10 DEF Ack, Typed, TypeOK, HandlerSteps, StartupSteps
  <2>2. PICK s \in {"idle"} :
          pc' = [pc EXCEPT ![f] = s]
    BY <1>10 DEF Ack, Goto, FinishAs
  <2>3. s \in IF IsHandler(f) THEN HandlerSteps ELSE StartupSteps
    BY <2>1 DEF HandlerSteps, StartupSteps
  <2>4. /\ requests' \in [Requests -> {"unsent", "checked", "pending", "acked", "dead"}]
        /\ req' \in [Fibers -> Requests \cup {None}]
        /\ at' \in [Fibers -> Contracts \cup {None}]
        /\ held' \in [Fibers -> Orders \cup {None}]
        /\ try' \in [Fibers -> 0..MaxRetries]
    <3>1. req[f] \in Requests
      BY <2>1 DEF Typed, LocalsOK
    <3>2. PICK st \in {"acked", requests[req[f]]} : FinishAs(f, st)
      BY <1>10 DEF Ack
    <3>3. st \in {"unsent", "checked", "pending", "acked", "dead"}
      BY <3>1 DEF Typed, TypeOK
    <3> QED BY <3>1, <3>2, <3>3, FinishTyped
  <2>5. UNCHANGED <<settlement, transfer, escrow, ledger, captured, approved, events, todo, crashes>>
    BY <1>10 DEF Ack, FinishAs, rows, books, bus, locals
  <2>6. TypeOK'
    BY <2>2, <2>3, <2>4, <2>5 DEF Typed, TypeOK
  <2>7. LocalsOK'
    BY <1>10, <2>5, <2>1, <2>2 DEF Ack, FinishAs, bus, locals, Typed, TypeOK, LocalsOK
  <2> QED BY <2>6, <2>7 DEF Typed
<1>11. CASE Reevaluate(f)
  <2>1. pc[f] = "evaluate" /\ ~IsHandler(f)
    BY <1>11 DEF Reevaluate, Typed, TypeOK, HandlerSteps, StartupSteps
  <2>2. PICK s \in {"find", "next"} :
          pc' = [pc EXCEPT ![f] = s]
    BY <1>11 DEF Reevaluate, Goto
  <2>3. s \in IF IsHandler(f) THEN HandlerSteps ELSE StartupSteps
    BY <2>1 DEF HandlerSteps, StartupSteps
  <2>4. UNCHANGED <<settlement, transfer, escrow, ledger, captured, approved, requests, events, req, at, held, try, todo, crashes>>
    BY <1>11 DEF Reevaluate, rows, books, bus, locals
  <2>5. TypeOK'
    BY <2>2, <2>3, <2>4 DEF Typed, TypeOK
  <2>6. LocalsOK'
    BY <2>4, <2>1, <2>2 DEF Typed, TypeOK, LocalsOK
  <2> QED BY <2>5, <2>6 DEF Typed
<1>12. CASE Fetch(f)
  <2>1. pc[f] = "fetch" /\ ~IsHandler(f)
    BY <1>12 DEF Fetch, Typed, TypeOK, HandlerSteps, StartupSteps
  <2>2. PICK s \in {"commit", "next"} :
          pc' = [pc EXCEPT ![f] = s]
    BY <1>12 DEF Fetch, Goto
  <2>3. s \in IF IsHandler(f) THEN HandlerSteps ELSE StartupSteps
    BY <2>1 DEF HandlerSteps, StartupSteps
  <2>4. UNCHANGED <<settlement, transfer, escrow, ledger, captured, approved, requests, events, req, at, held, try, todo, crashes>>
    BY <1>12 DEF Fetch, rows, books, bus, locals
  <2>5. TypeOK'
    BY <2>2, <2>3, <2>4 DEF Typed, TypeOK
  <2>6. LocalsOK'
    BY <2>4, <2>1, <2>2 DEF Typed, TypeOK, LocalsOK
  <2> QED BY <2>5, <2>6 DEF Typed
<1> QED BY <1>1, <1>2, <1>3, <1>4, <1>5, <1>6, <1>7, <1>8, <1>9, <1>10, <1>11, <1>12 DEF FiberStep

\* So do the environment, the start of a message or a row, and the processes.
LEMMA EnvironmentTyped ==
  ASSUME Typed, Environment
  PROVE  Typed'
PROOF
<1>1. UNCHANGED <<settlement, transfer, ledger, captured, events, pc, req, at,
                  held, try, todo, crashes>>
  BY DEF Environment, RequestSettlement, PublishRequest, AuthorizeEscrow,
         DeclineEscrow, OracleMoves, rows, books, bus, locals
<1>2. requests' \in [Requests -> {"unsent", "checked", "pending", "acked", "dead"}]
  <2>1. requests \in [Requests -> {"unsent", "checked", "pending", "acked", "dead"}]
    BY DEF Typed, TypeOK
  <2>2. \/ requests' = requests
        \/ \E r \in Requests, s \in {"checked", "pending"} : requests' = [requests EXCEPT ![r] = s]
    BY DEF Environment, RequestSettlement, PublishRequest, AuthorizeEscrow,
           DeclineEscrow, OracleMoves, bus
  <2> QED BY <2>1, <2>2
<1>3. escrow' \in [Orders -> {"PENDING", "AUTHORIZED", "RELEASED", "FAILED"}]
  <2>1. escrow \in [Orders -> {"PENDING", "AUTHORIZED", "RELEASED", "FAILED"}]
    BY DEF Typed, TypeOK
  <2>2. \/ escrow' = escrow
        \/ \E o \in Orders, s \in {"AUTHORIZED", "FAILED"} : escrow' = [escrow EXCEPT ![o] = s]
    BY DEF Environment, RequestSettlement, PublishRequest, AuthorizeEscrow,
           DeclineEscrow, OracleMoves, books
  <2> QED BY <2>1, <2>2
<1>4. approved' \in SUBSET Contracts
  BY DEF Environment, RequestSettlement, PublishRequest, AuthorizeEscrow,
         DeclineEscrow, OracleMoves, Typed, TypeOK
<1>5. TypeOK'
  BY <1>1, <1>2, <1>3, <1>4 DEF Typed, TypeOK
<1>6. LocalsOK'
  BY <1>1 DEF Typed, LocalsOK
<1> QED BY <1>5, <1>6 DEF Typed

\* The delivery of a message gives an idle handler a typed message and contract.
LEMMA DeliverTyped ==
  ASSUME Typed, NEW w \in Workers, NEW r \in Requests, Deliver(w, r)
  PROVE  Typed'
PROOF
<1> DEFINE f == Handler(w)
<1>1. f \in Fibers /\ IsHandler(f)
  BY FiberFacts
<1>2. pc' = [pc EXCEPT ![f] = "evaluate"]
  BY DEF Deliver, Goto
<1>3. /\ req' = [req EXCEPT ![f] = r] /\ at' = [at EXCEPT ![f] = ReqContract[r]]
      /\ try' = [try EXCEPT ![f] = 1]
      /\ UNCHANGED <<rows, books, captured, approved, bus, held, todo, crashes>>
  BY DEF Deliver
<1>4. ReqContract[r] \in Contracts
  BY ConstantsAssumption
<1> HIDE DEF f
<1>5. /\ pc' \in [Fibers -> HandlerSteps \cup StartupSteps]
      /\ \A g \in Fibers : pc'[g] \in IF IsHandler(g) THEN HandlerSteps ELSE StartupSteps
  BY <1>1, <1>2 DEF Typed, TypeOK, HandlerSteps
<1>6. try' \in [Fibers -> 0..MaxRetries]
  <2>1. 1 \in 0..MaxRetries
    BY ConstantsAssumption
  <2>2. try \in [Fibers -> 0..MaxRetries]
    BY DEF Typed, TypeOK
  <2> QED BY <1>3, <2>1, <2>2
<1>7. /\ req' \in [Fibers -> Requests \cup {None}]
      /\ at' \in [Fibers -> Contracts \cup {None}]
  BY <1>3, <1>4 DEF Typed, TypeOK
<1>8. TypeOK'
  BY <1>3, <1>5, <1>6, <1>7 DEF rows, books, bus, Typed, TypeOK
<1>9. LocalsOK'
  BY <1>1, <1>2, <1>3, <1>4 DEF Typed, TypeOK, LocalsOK
<1> QED BY <1>8, <1>9 DEF Typed

\* The start-up sweep lists contracts and hands its fiber one of them at a time.
LEMMA SweepTyped ==
  ASSUME Typed, NEW w \in Workers, Sweep(w) \/ SweepNext(w)
  PROVE  Typed'
PROOF
<1> DEFINE f == Startup(w)
<1>1. f \in Fibers /\ ~IsHandler(f)
  BY FiberFacts
<1>2. CASE Sweep(w)
  <2>1. pc' = [pc EXCEPT ![f] = "next"]
    BY <1>2 DEF Sweep, Goto
  <2>2. /\ todo' = [todo EXCEPT ![w] = {c \in Contracts : settlement[c] = "PROCESSING"}]
        /\ UNCHANGED <<rows, books, captured, approved, bus, req, at, held, try, crashes>>
    BY <1>2 DEF Sweep
  <2>3. todo' \in [Workers -> SUBSET Contracts]
    BY <2>2 DEF Typed, TypeOK
  <2> HIDE DEF f
  <2>4. /\ pc' \in [Fibers -> HandlerSteps \cup StartupSteps]
        /\ \A g \in Fibers : pc'[g] \in IF IsHandler(g) THEN HandlerSteps ELSE StartupSteps
    BY <1>1, <2>1 DEF Typed, TypeOK, StartupSteps
  <2>5. TypeOK'
    BY <2>2, <2>3, <2>4 DEF rows, books, bus, Typed, TypeOK
  <2>6. LocalsOK'
    BY <1>1, <2>1, <2>2 DEF Typed, TypeOK, LocalsOK
  <2> QED BY <2>5, <2>6 DEF Typed
<1>3. CASE SweepNext(w)
  <2>1. PICK c \in todo[w] \cup {None} :
          /\ at' = [at EXCEPT ![f] = c]
          /\ \/ c \in todo[w] /\ pc' = [pc EXCEPT ![f] = "evaluate"]
             \/ pc' = [pc EXCEPT ![f] = "swept"]
    BY <1>3 DEF SweepNext, Goto
  <2>2. /\ todo' \in {todo, [todo EXCEPT ![w] = @ \ {c}]}
        /\ held' = [held EXCEPT ![f] = None]
        /\ UNCHANGED <<rows, books, captured, approved, bus, req, try, crashes>>
    <3>1. /\ held' = [held EXCEPT ![f] = None]
          /\ UNCHANGED <<rows, books, captured, approved, bus, req, try, crashes>>
      BY <1>3 DEF SweepNext
    <3>2. at'[f] = c
      BY <1>1, <2>1 DEF Typed, TypeOK
    <3>3. CASE todo' = todo
      BY <3>1, <3>3
    <3>4. CASE \E d \in todo[w] : /\ at' = [at EXCEPT ![f] = d]
                                  /\ todo' = [todo EXCEPT ![w] = @ \ {d}]
      BY <1>1, <3>1, <3>2, <3>4 DEF Typed, TypeOK
    <3> QED BY <1>3, <3>3, <3>4 DEF SweepNext
  <2>3. todo[w] \subseteq Contracts
    BY DEF Typed, TypeOK
  <2> HIDE DEF f
  <2>4. /\ todo' \in [Workers -> SUBSET Contracts]
        /\ at' \in [Fibers -> Contracts \cup {None}]
        /\ held' \in [Fibers -> Orders \cup {None}]
    <3>1. /\ todo \in [Workers -> SUBSET Contracts]
          /\ at \in [Fibers -> Contracts \cup {None}]
          /\ held \in [Fibers -> Orders \cup {None}]
      BY DEF Typed, TypeOK
    <3>2. todo' \in [Workers -> SUBSET Contracts]
      BY <2>2, <3>1
    <3>3. at' \in [Fibers -> Contracts \cup {None}]
      BY <2>1, <2>3, <3>1
    <3>4. held' \in [Fibers -> Orders \cup {None}]
      BY <2>2, <3>1
    <3> QED BY <3>2, <3>3, <3>4
  <2>5. /\ pc' \in [Fibers -> HandlerSteps \cup StartupSteps]
        /\ \A g \in Fibers : pc'[g] \in IF IsHandler(g) THEN HandlerSteps ELSE StartupSteps
    <3>1. PICK s \in {"evaluate", "swept"} : pc' = [pc EXCEPT ![f] = s]
      BY <2>1
    <3>2. s \in StartupSteps
      BY DEF StartupSteps
    <3> HIDE DEF HandlerSteps, StartupSteps
    <3>3. /\ pc \in [Fibers -> HandlerSteps \cup StartupSteps]
          /\ \A g \in Fibers : pc[g] \in IF IsHandler(g) THEN HandlerSteps ELSE StartupSteps
      BY DEF Typed, TypeOK
    <3> QED BY <1>1, <3>1, <3>2, <3>3
  <2>6. TypeOK'
    BY <2>2, <2>4, <2>5 DEF rows, books, bus, Typed, TypeOK
  <2>7. LocalsOK'
    BY <1>1, <2>1, <2>2, <2>3 DEF Typed, TypeOK, LocalsOK
  <2> QED BY <2>6, <2>7 DEF Typed
<1> QED BY <1>2, <1>3

\* A start gives a worker's fibers their first steps; a crash clears their locals.
LEMMA ProcessTyped ==
  ASSUME Typed, NEW w \in Workers, Start(w) \/ Crash(w)
  PROVE  Typed'
PROOF
<1> DEFINE h == Handler(w)
           s == Startup(w)
<1>1. /\ h \in Fibers /\ s \in Fibers /\ h # s
      /\ IsHandler(h) /\ ~IsHandler(s)
  BY FiberFacts
<1>2. CASE Start(w)
  <2>1. /\ pc' = [pc EXCEPT ![h] = "idle", ![s] = "sweep"]
        /\ UNCHANGED <<rows, books, captured, approved, bus, locals, crashes>>
    BY <1>2 DEF Start
  <2> HIDE DEF h, s
  <2>2. /\ pc' \in [Fibers -> HandlerSteps \cup StartupSteps]
        /\ \A g \in Fibers : pc'[g] \in IF IsHandler(g) THEN HandlerSteps ELSE StartupSteps
    BY <1>1, <2>1 DEF Typed, TypeOK, HandlerSteps, StartupSteps
  <2>3. TypeOK'
    BY <2>1, <2>2 DEF rows, books, bus, locals, Typed, TypeOK
  <2>4. LocalsOK'
    BY <1>1, <2>1 DEF locals, Typed, TypeOK, LocalsOK
  <2> QED BY <2>3, <2>4 DEF Typed
<1>3. CASE Crash(w)
  <2>1. /\ pc' = [pc EXCEPT ![h] = "down", ![s] = "down"]
        /\ req' = [req EXCEPT ![h] = None]
        /\ at' = [at EXCEPT ![h] = None, ![s] = None]
        /\ held' = [held EXCEPT ![h] = None, ![s] = None]
        /\ try' = [try EXCEPT ![h] = 0]
        /\ todo' = [todo EXCEPT ![w] = {}]
        /\ UNCHANGED <<rows, books, captured, approved, bus>>
        /\ crashes < MaxCrashes /\ crashes' = crashes + 1
    BY <1>3 DEF Crash
  <2> HIDE DEF h, s
  <2>2. /\ pc' \in [Fibers -> HandlerSteps \cup StartupSteps]
        /\ \A g \in Fibers : pc'[g] \in IF IsHandler(g) THEN HandlerSteps ELSE StartupSteps
    BY <1>1, <2>1 DEF Typed, TypeOK, HandlerSteps, StartupSteps
  <2>3. crashes' \in 0..MaxCrashes
    BY <2>1, ConstantsAssumption DEF Typed, TypeOK
  <2>4. try' \in [Fibers -> 0..MaxRetries]
    <3>1. 0 \in 0..MaxRetries
      BY ConstantsAssumption
    <3>2. try \in [Fibers -> 0..MaxRetries]
      BY DEF Typed, TypeOK
    <3> QED BY <2>1, <3>1, <3>2
  <2>5. /\ req' \in [Fibers -> Requests \cup {None}]
        /\ at' \in [Fibers -> Contracts \cup {None}]
        /\ held' \in [Fibers -> Orders \cup {None}]
        /\ todo' \in [Workers -> SUBSET Contracts]
    BY <2>1 DEF Typed, TypeOK
  <2>6. TypeOK'
    BY <2>1, <2>2, <2>3, <2>4, <2>5 DEF rows, books, bus, Typed, TypeOK
  <2>7. LocalsOK'
    BY <1>1, <2>1 DEF Typed, TypeOK, LocalsOK
  <2> QED BY <2>6, <2>7 DEF Typed
<1> QED BY <1>2, <1>3

\* Every step of the system keeps the types.
LEMMA TypedStep ==
  ASSUME Typed, [Next]_vars
  PROVE  Typed'
PROOF
<1>1. CASE Environment
  BY <1>1, EnvironmentTyped
<1>2. ASSUME NEW f \in Fibers, FiberStep(f) PROVE Typed'
  BY <1>2, FiberTyped
<1>3. ASSUME NEW w \in Workers, HandlerStep(w) PROVE Typed'
  BY <1>2, <1>3, FiberFacts, DeliverTyped DEF HandlerStep
<1>4. ASSUME NEW w \in Workers, StartupStep(w) PROVE Typed'
  BY <1>2, <1>4, FiberFacts, SweepTyped DEF StartupStep
<1>5. ASSUME NEW w \in Workers, Start(w) \/ Crash(w) PROVE Typed'
  BY <1>5, ProcessTyped
<1>6. CASE UNCHANGED vars
  BY <1>6 DEF vars, rows, books, bus, locals, Typed, TypeOK, LocalsOK
<1> QED BY <1>1, <1>3, <1>4, <1>5, <1>6 DEF Next

\* Type correctness: every step of the worker, its environment and its crashes
\* keeps the rows, the stream and the locals of the fibers well formed.
THEOREM Typing == Spec => []Typed
PROOF BY InitTyped, TypedStep, PTL DEF Spec

\* The worker keeps its types: the type invariant of the runs.
THEOREM TypeCorrect == Spec => []TypeOK
PROOF
<1>1. Typed => TypeOK
  BY DEF Typed
<1> QED BY <1>1, Typing, PTL

-------------------------------------------------------------------------------
(***************************************************************************)
(* The safety of the release.  Most steps disturb none of IInv: they book  *)
(* nothing, release nothing, complete no row, announce nothing, and bring  *)
(* no fiber to "commit" or "publish".                                      *)
(***************************************************************************)
Quiet ==
  /\ ledger' = ledger /\ transfer' = transfer
  /\ captured \subseteq captured'
  /\ \A o \in Orders : escrow'[o] = "RELEASED" <=> escrow[o] = "RELEASED"
  /\ \A c \in Contracts : settlement'[c] = "COMPLETED" => settlement[c] = "COMPLETED"
  /\ \A c \in Contracts : <<"COMPLETED", c>> \in events' => <<"COMPLETED", c>> \in events
  /\ \A g \in Fibers : pc'[g] \in {"commit", "publish"} =>
       pc[g] = pc'[g] /\ held'[g] = held[g] /\ at'[g] = at[g]

\* An entry on the chain names an escrow row.
LEMMA EntryTyped ==
  ASSUME Typed, NEW i \in DOMAIN ledger
  PROVE  ledger[i].order \in Orders
PROOF
<1>1. ledger \in Seq([order : Orders, recovered : BOOLEAN])
  BY DEF Typed, TypeOK
<1> DEFINE R == [order : Orders, recovered : BOOLEAN]
<1>2. ledger[i] \in R
  <2>1. ledger \in Seq(R)
    BY <1>1
  <2> HIDE DEF R
  <2> QED BY <2>1
<1> QED BY <1>2

\* A quiet step keeps the invariant.
LEMMA QuietKeeps ==
  ASSUME IInv, Typed', Quiet
  PROVE  IInv'
PROOF
<1>1. /\ ledger \in Seq([order : Orders, recovered : BOOLEAN])
      /\ transfer \in [Contracts -> Orders \cup {None}]
  BY DEF IInv, Typed, TypeOK
<1>2. ReleasedIsCaptured' /\ CommitsCaptured'
  BY DEF IInv, Quiet, ReleasedIsCaptured, CommitsCaptured
<1>3. BooksMatchEscrow'
  BY DEF IInv, Quiet, BooksMatchEscrow
<1>4. CompletedIsBacked'
  <2> SUFFICES ASSUME NEW c \in Contracts, settlement'[c] = "COMPLETED"
               PROVE  \E i \in DOMAIN ledger :
                        /\ ledger[i].order = transfer[c]
                        /\ OrderContract[transfer[c]] = c
                        /\ escrow'[transfer[c]] = "RELEASED"
    BY DEF Quiet, CompletedIsBacked
  <2>1. settlement[c] = "COMPLETED"
    BY DEF Quiet
  <2>2. PICK i \in DOMAIN ledger : /\ ledger[i].order = transfer[c]
                                   /\ OrderContract[transfer[c]] = c
                                   /\ escrow[transfer[c]] = "RELEASED"
    BY <2>1 DEF IInv, CompletedIsBacked
  <2>3. transfer[c] \in Orders
    BY <2>2, EntryTyped DEF IInv
  <2> QED BY <2>2, <2>3 DEF Quiet
<1>5. PublishesBooked'
  BY DEF IInv, Quiet, PublishesBooked, Settled
<1>6. AnnouncedIsBooked'
  BY DEF IInv, Quiet, AnnouncedIsBooked, Settled
<1>7. HandlerOwnsCapture' /\ HandlerReleasesOnce'
  BY DEF IInv, Quiet, HandlerOwnsCapture, HandlerReleasesOnce
<1> QED BY <1>2, <1>3, <1>4, <1>5, <1>6, <1>7 DEF IInv

\* What the chain looks like after an entry is appended.
LEMMA AppendFacts ==
  ASSUME NEW S, NEW s \in Seq(S), NEW e \in S
  PROVE  LET t == Append(s, e) IN
         /\ \A i \in DOMAIN t : \/ i \in DOMAIN s /\ t[i] = s[i]
                                \/ i = Len(s) + 1 /\ t[i] = e
         /\ \A i \in DOMAIN s : i \in DOMAIN t /\ t[i] = s[i]
         /\ Len(s) + 1 \in DOMAIN t /\ t[Len(s) + 1] = e
PROOF OBVIOUS

\* Booking a payment that has been captured.
LEMMA RecordKeeps ==
  ASSUME IInv, Typed', NEW f \in Fibers, pc[f] = "commit", Record(f),
         NEW step \in {"publish", "fail", "next"}, pc' = [pc EXCEPT ![f] = step],
         UNCHANGED <<captured, events, held, at>>
  PROVE  IInv'
PROOF
<1>1. /\ held[f] \in Orders /\ at[f] \in Contracts /\ OrderContract[held[f]] = at[f]
      /\ held[f] \in captured
  BY DEF IInv, Typed, LocalsOK, CommitsCaptured
<1>2. /\ ledger \in Seq([order : Orders, recovered : BOOLEAN])
      /\ escrow \in [Orders -> {"PENDING", "AUTHORIZED", "RELEASED", "FAILED"}]
      /\ transfer \in [Contracts -> Orders \cup {None}]
      /\ settlement \in [Contracts -> {"NONE", "PROCESSING", "COMPLETED", "FAILED"}]
      /\ pc \in [Fibers -> HandlerSteps \cup StartupSteps]
  BY DEF IInv, Typed, TypeOK
<1>3. /\ Entry(f) \in [order : Orders, recovered : BOOLEAN]
      /\ Entry(f).order = held[f]
      /\ Entry(f).recovered <=> ~IsHandler(f)
  BY <1>1 DEF Entry, IsHandler
<1>4. /\ \A i \in DOMAIN ledger' : \/ i \in DOMAIN ledger /\ ledger'[i] = ledger[i]
                                   \/ i = Len(ledger) + 1 /\ ledger'[i] = Entry(f)
      /\ \A i \in DOMAIN ledger : i \in DOMAIN ledger' /\ ledger'[i] = ledger[i]
      /\ Len(ledger) + 1 \in DOMAIN ledger' /\ ledger'[Len(ledger) + 1] = Entry(f)
  BY <1>2, <1>3, AppendFacts DEF Record
<1>5. /\ escrow' = [escrow EXCEPT ![held[f]] = "RELEASED"]
      /\ settlement' = [settlement EXCEPT ![at[f]] = "COMPLETED"]
      /\ transfer' = [transfer EXCEPT ![at[f]] = held[f]]
  BY DEF Record, Mark
<1>6. ReleasedIsCaptured' /\ CommitsCaptured'
  BY <1>1, <1>2, <1>5 DEF IInv, ReleasedIsCaptured, CommitsCaptured
<1>7. BooksMatchEscrow'
  <2> SUFFICES ASSUME NEW o \in Orders
               PROVE  escrow'[o] = "RELEASED" <=> \E i \in DOMAIN ledger' : ledger'[i].order = o
    BY DEF BooksMatchEscrow
  <2>1. CASE o = held[f]
    BY <1>1, <1>2, <1>3, <1>4, <1>5, <2>1
  <2>2. CASE o # held[f]
    <3>1. escrow'[o] = escrow[o]
      BY <1>1, <1>2, <1>5, <2>2
    <3>2. (\E i \in DOMAIN ledger' : ledger'[i].order = o)
            <=> (\E i \in DOMAIN ledger : ledger[i].order = o)
      BY <1>3, <1>4, <2>2
    <3> QED BY <3>1, <3>2 DEF IInv, BooksMatchEscrow
  <2> QED BY <2>1, <2>2
<1>8. CompletedIsBacked'
  <2> SUFFICES ASSUME NEW c \in Contracts, settlement'[c] = "COMPLETED"
               PROVE  \E i \in DOMAIN ledger' :
                        /\ ledger'[i].order = transfer'[c]
                        /\ OrderContract[transfer'[c]] = c
                        /\ escrow'[transfer'[c]] = "RELEASED"
    BY DEF CompletedIsBacked
  <2>1. CASE c = at[f]
    BY <1>1, <1>2, <1>3, <1>4, <1>5, <2>1
  <2>2. CASE c # at[f]
    <3>1. settlement[c] = "COMPLETED" /\ transfer'[c] = transfer[c]
      BY <1>2, <1>5, <2>2
    <3>2. PICK i \in DOMAIN ledger : /\ ledger[i].order = transfer[c]
                                     /\ OrderContract[transfer[c]] = c
                                     /\ escrow[transfer[c]] = "RELEASED"
      BY <3>1 DEF IInv, CompletedIsBacked
    <3>3. ledger[i].order \in Orders
      BY EntryTyped DEF IInv
    <3>4. escrow'[transfer[c]] = "RELEASED"
      BY <1>2, <1>5, <3>2, <3>3
    <3> QED BY <1>4, <3>1, <3>2, <3>4
  <2> QED BY <2>1, <2>2
<1>9. PublishesBooked' /\ AnnouncedIsBooked'
  <2>1. \A c \in Contracts : Settled(c) => Settled(c)'
    BY <1>4 DEF Settled
  <2>2. Settled(at[f])'
    BY <1>1, <1>3, <1>4 DEF Settled
  <2>3. \A g \in Fibers : pc[g] = "publish" => at[g] \in Contracts
    BY DEF IInv, Typed, LocalsOK
  <2> QED BY <1>2, <2>1, <2>2, <2>3 DEF IInv, PublishesBooked, AnnouncedIsBooked, Settled
<1>10. HandlerOwnsCapture'
  <2> SUFFICES ASSUME NEW g \in Fibers, pc'[g] = "commit", IsHandler(g)
               PROVE  /\ \A i \in DOMAIN ledger' :
                           ledger'[i].order = held[g] => ledger'[i].recovered
                      /\ \A k \in Fibers :
                           pc'[k] = "commit" /\ IsHandler(k) /\ held[k] = held[g] => k = g
    BY DEF HandlerOwnsCapture
  <2>1. g # f /\ pc[g] = "commit"
    BY <1>2
  <2>2. \A k \in Fibers : pc'[k] = "commit" => pc[k] = "commit"
    BY <1>2
  <2>3. IsHandler(f) => held[f] # held[g]
    BY <2>1 DEF IInv, HandlerOwnsCapture
  <2> QED BY <1>3, <1>4, <2>1, <2>2, <2>3 DEF IInv, HandlerOwnsCapture
<1>11. HandlerReleasesOnce'
  <2> SUFFICES ASSUME NEW i \in DOMAIN ledger', NEW j \in DOMAIN ledger',
                      ledger'[i].order = ledger'[j].order,
                      ~ledger'[i].recovered, ~ledger'[j].recovered
               PROVE  i = j
    BY DEF HandlerReleasesOnce
  <2>1. CASE i \in DOMAIN ledger /\ j \in DOMAIN ledger
    BY <1>4, <2>1 DEF IInv, HandlerReleasesOnce
  <2>2. CASE ~IsHandler(f)
    BY <1>3, <1>4, <2>1, <2>2
  <2>3. CASE IsHandler(f)
    <3>1. \A k \in DOMAIN ledger : ledger[k].order = held[f] => ledger[k].recovered
      BY <2>3 DEF IInv, HandlerOwnsCapture
    <3> QED BY <1>3, <1>4, <2>1, <3>1
  <2> QED BY <2>2, <2>3
<1> QED BY <1>6, <1>7, <1>8, <1>9, <1>10, <1>11 DEF IInv

\* Every step of a fiber keeps the invariant: those that are not quiet are the
\* capture, the lookup of a captured payment, the commit and the publication.
LEMMA FiberKeeps ==
  ASSUME IInv, NEW f \in Fibers, FiberStep(f)
  PROVE  IInv'
PROOF
<1>0. /\ Typed'
      /\ pc \in [Fibers -> HandlerSteps \cup StartupSteps]
      /\ settlement \in [Contracts -> {"NONE", "PROCESSING", "COMPLETED", "FAILED"}]
      /\ req \in [Fibers -> Requests \cup {None}] /\ at \in [Fibers -> Contracts \cup {None}]
      /\ held \in [Fibers -> Orders \cup {None}]
  BY FiberTyped DEF IInv, Typed, TypeOK
<1>1. CASE Find(f)
  <2>1. Quiet
    BY <1>1, <1>0 DEF Find, Goto, Threw, Quiet, rows, books, bus, locals
  <2> QED BY <2>1, <1>0, QuietKeeps
<1>2. CASE Capture(f)
  <2>1. UNCHANGED <<rows, books, events, held, at>> /\ captured \subseteq captured'
    BY <1>2 DEF Capture, bus, locals
  <2>2. CASE pc' = [pc EXCEPT ![f] = "commit"]
    <3>1. held[f] \notin captured /\ held[f] \in captured' /\ pc[f] = "capture"
      <4>1. ~(pc' = [pc EXCEPT ![f] = IF IsHandler(f) THEN "fail" ELSE "fetch"])
        BY <1>0, <2>2
      <4> QED BY <1>2, <4>1 DEF Capture, Goto
    <3>2. held[f] \in Orders
      BY <3>1 DEF IInv, Typed, LocalsOK
    <3>3. \A i \in DOMAIN ledger : ledger[i].order # held[f]
      BY <3>1, <3>2 DEF IInv, BooksMatchEscrow, ReleasedIsCaptured
    <3>4. ReleasedIsCaptured' /\ CommitsCaptured'
      BY <1>0, <2>1, <2>2, <3>1 DEF IInv, ReleasedIsCaptured, CommitsCaptured, rows, books
    <3>5. BooksMatchEscrow' /\ CompletedIsBacked'
      BY <2>1 DEF IInv, BooksMatchEscrow, CompletedIsBacked, rows, books
    <3>6. PublishesBooked' /\ AnnouncedIsBooked'
      BY <1>0, <2>1, <2>2 DEF IInv, PublishesBooked, AnnouncedIsBooked, Settled, rows, books
    <3>7. HandlerOwnsCapture'
      <4> SUFFICES ASSUME NEW g \in Fibers, pc'[g] = "commit", IsHandler(g)
                   PROVE  /\ \A i \in DOMAIN ledger :
                               ledger[i].order = held[g] => ledger[i].recovered
                          /\ \A k \in Fibers :
                               pc'[k] = "commit" /\ IsHandler(k) /\ held[k] = held[g] => k = g
        BY <2>1 DEF HandlerOwnsCapture, books
      <4>1. \A k \in Fibers : k # f /\ pc'[k] = "commit" =>
                                pc[k] = "commit" /\ held[k] \in captured
        BY <1>0, <2>2 DEF IInv, CommitsCaptured
      <4>2. CASE g = f
        BY <3>1, <3>3, <4>1, <4>2
      <4>3. CASE g # f
        BY <3>1, <4>1, <4>3 DEF IInv, HandlerOwnsCapture
      <4> QED BY <4>2, <4>3
    <3>8. HandlerReleasesOnce'
      BY <2>1 DEF IInv, HandlerReleasesOnce, books
    <3> QED BY <1>0, <3>4, <3>5, <3>6, <3>7, <3>8 DEF IInv
  <2>3. CASE pc' = [pc EXCEPT ![f] = IF IsHandler(f) THEN "fail" ELSE "fetch"]
    <3>1. Quiet
      BY <1>0, <2>1, <2>3 DEF Quiet, rows, books
    <3> QED BY <1>0, <3>1, QuietKeeps
  <2> QED BY <1>2, <2>2, <2>3 DEF Capture, Goto
<1>3. CASE Commit(f)
  <2>1. PICK step \in {"publish", "rolledback", "fail", "next"} :
          /\ pc' = [pc EXCEPT ![f] = step]
          /\ \/ Record(f) /\ step # "rolledback"
             \/ UNCHANGED <<rows, books>> /\ step # "publish"
    BY <1>3 DEF Commit, Goto, Threw
  <2>2. pc[f] = "commit" /\ UNCHANGED <<captured, events, held, at>>
    BY <1>3 DEF Commit, bus, locals
  <2>3. CASE Record(f) /\ step # "rolledback"
    BY <1>0, <2>1, <2>2, <2>3, RecordKeeps
  <2>4. CASE UNCHANGED <<rows, books>> /\ step # "publish"
    <3>1. Quiet
      BY <1>0, <2>1, <2>2, <2>4 DEF Quiet, rows, books
    <3> QED BY <1>0, <3>1, QuietKeeps
  <2> QED BY <2>1, <2>3, <2>4
<1>4. CASE MarkRolledBack(f)
  <2>1. Quiet
    BY <1>4, <1>0 DEF MarkRolledBack, MarkFailed, Mark, Goto, Threw, Quiet, rows, books, bus, locals
  <2> QED BY <2>1, <1>0, QuietKeeps
<1>5. CASE Publish(f)
  <2>1. PICK step \in {"ack", "next", "fail"} : pc' = [pc EXCEPT ![f] = step]
    BY <1>5 DEF Publish, Goto, Threw
  <2>2. /\ UNCHANGED <<rows, books, captured, held, at>>
        /\ events' \in {events, events \cup {<<"COMPLETED", at[f]>>}}
        /\ pc[f] = "publish"
    BY <1>5 DEF Publish, locals
  <2>3. Settled(at[f])
    BY <2>2 DEF IInv, PublishesBooked
  <2>4. ReleasedIsCaptured' /\ CommitsCaptured'
    BY <1>0, <2>1, <2>2 DEF IInv, ReleasedIsCaptured, CommitsCaptured, books
  <2>5. BooksMatchEscrow' /\ CompletedIsBacked'
    BY <2>2 DEF IInv, BooksMatchEscrow, CompletedIsBacked, rows, books
  <2>6. PublishesBooked'
    BY <1>0, <2>1, <2>2 DEF IInv, PublishesBooked, Settled, books
  <2>7. AnnouncedIsBooked'
    BY <2>2, <2>3 DEF IInv, AnnouncedIsBooked, Settled, books
  <2>8. HandlerOwnsCapture' /\ HandlerReleasesOnce'
    BY <1>0, <2>1, <2>2 DEF IInv, HandlerOwnsCapture, HandlerReleasesOnce, books
  <2> QED BY <1>0, <2>4, <2>5, <2>6, <2>7, <2>8 DEF IInv
<1>6. CASE Evaluate(f)
  <2>1. Quiet
    BY <1>6, <1>0 DEF Evaluate, Goto, Quiet, rows, books, bus, locals
  <2> QED BY <2>1, <1>0, QuietKeeps
<1>7. CASE Claim(f)
  <2>1. Quiet
    BY <1>7, <1>0 DEF Claim, Mark, Goto, Quiet, rows, books, bus, locals
  <2> QED BY <2>1, <1>0, QuietKeeps
<1>8. CASE Fail(f)
  <2>1. Quiet
    BY <1>8, <1>0 DEF Fail, MarkFailed, Mark, Goto, Quiet, rows, books, bus, locals
  <2> QED BY <2>1, <1>0, QuietKeeps
<1>9. CASE Reject(f)
  <2>1. Quiet
    BY <1>9, <1>0 DEF Reject, FinishAs, Goto, Quiet, rows, books, bus, locals
  <2> QED BY <2>1, <1>0, QuietKeeps
<1>10. CASE Ack(f)
  <2>1. Quiet
    BY <1>10, <1>0 DEF Ack, FinishAs, Goto, Quiet, rows, books, bus, locals
  <2> QED BY <2>1, <1>0, QuietKeeps
<1>11. CASE Reevaluate(f)
  <2>1. Quiet
    BY <1>11, <1>0 DEF Reevaluate, Goto, Quiet, rows, books, bus, locals
  <2> QED BY <2>1, <1>0, QuietKeeps
<1>12. CASE Fetch(f)
  <2>1. UNCHANGED <<rows, books, captured, events, held, at>>
    BY <1>12 DEF Fetch, bus, locals
  <2>2. CASE held[f] \in captured /\ pc' = [pc EXCEPT ![f] = "commit"]
    <3>1. ~IsHandler(f)
      BY <1>12 DEF Fetch, IInv, Typed, TypeOK, HandlerSteps
    <3>2. ReleasedIsCaptured' /\ CommitsCaptured'
      BY <1>0, <2>1, <2>2 DEF IInv, ReleasedIsCaptured, CommitsCaptured, books
    <3>3. BooksMatchEscrow' /\ CompletedIsBacked'
      BY <2>1 DEF IInv, BooksMatchEscrow, CompletedIsBacked, rows, books
    <3>4. PublishesBooked' /\ AnnouncedIsBooked'
      BY <1>0, <2>1, <2>2 DEF IInv, PublishesBooked, AnnouncedIsBooked, Settled, books
    <3>5. HandlerOwnsCapture' /\ HandlerReleasesOnce'
      BY <1>0, <2>1, <2>2, <3>1 DEF IInv, HandlerOwnsCapture, HandlerReleasesOnce, books
    <3> QED BY <1>0, <3>2, <3>3, <3>4, <3>5 DEF IInv
  <2>3. CASE pc' = [pc EXCEPT ![f] = "next"]
    <3>1. Quiet
      BY <1>0, <2>1, <2>3 DEF Quiet, rows, books
    <3> QED BY <1>0, <3>1, QuietKeeps
  <2> QED BY <1>12, <2>2, <2>3 DEF Fetch, Goto
<1> QED BY <1>1, <1>2, <1>3, <1>4, <1>5, <1>6, <1>7, <1>8, <1>9, <1>10, <1>11, <1>12 DEF FiberStep

\* What the gateway, the provider, the bus and the orchestrator do is quiet.
LEMMA OtherKeeps ==
  ASSUME IInv, Typed',
         \/ Environment \/ UNCHANGED vars
         \/ \E w \in Workers : \/ \E r \in Requests : Deliver(w, r)
                               \/ Sweep(w) \/ SweepNext(w) \/ Start(w) \/ Crash(w)
  PROVE  IInv'
PROOF
<1>1. /\ escrow \in [Orders -> {"PENDING", "AUTHORIZED", "RELEASED", "FAILED"}]
      /\ pc \in [Fibers -> HandlerSteps \cup StartupSteps]
      /\ at \in [Fibers -> Contracts \cup {None}]
      /\ held \in [Fibers -> Orders \cup {None}]
  BY DEF IInv, Typed, TypeOK
<1>2. CASE Environment \/ UNCHANGED vars
  <2>1. UNCHANGED <<rows, ledger, captured, events, pc, held, at>>
    BY <1>2 DEF Environment, RequestSettlement, PublishRequest, AuthorizeEscrow,
         DeclineEscrow, OracleMoves, vars, books, bus, locals
  <2>2. \A o \in Orders : escrow'[o] = "RELEASED" <=> escrow[o] = "RELEASED"
    <3>1. CASE UNCHANGED escrow
      BY <3>1
    <3>2. CASE \E p \in Orders : AuthorizeEscrow(p) \/ DeclineEscrow(p)
      BY <1>1, <3>2 DEF AuthorizeEscrow, DeclineEscrow
    <3> QED BY <1>2, <3>1, <3>2
            DEF Environment, RequestSettlement, PublishRequest, OracleMoves, vars, books
  <2>3. Quiet
    BY <2>1, <2>2 DEF Quiet, rows
  <2> QED BY <2>3, QuietKeeps
<1>3. ASSUME NEW w \in Workers,
             \/ \E r \in Requests : Deliver(w, r)
             \/ Sweep(w) \/ SweepNext(w) \/ Start(w) \/ Crash(w)
      PROVE  IInv'
  <2> DEFINE h == Handler(w)
             s == Startup(w)
  <2>1. h \in Fibers /\ s \in Fibers /\ h # s
    BY FiberFacts
  <2>2. UNCHANGED <<rows, books, captured, events>>
    BY <1>3 DEF Deliver, Sweep, SweepNext, Start, Crash, bus
  <2>3. /\ \A g \in Fibers \ {h, s} : pc'[g] = pc[g] /\ held'[g] = held[g] /\ at'[g] = at[g]
        /\ \/ pc'[h] = pc[h] /\ held'[h] = held[h] /\ at'[h] = at[h]
           \/ pc'[h] \in {"evaluate", "idle", "down"}
        /\ \/ pc'[s] = pc[s] /\ held'[s] = held[s] /\ at'[s] = at[s]
           \/ pc'[s] \in {"next", "evaluate", "swept", "sweep", "down"}
    <3>1. CASE \E r \in Requests : Deliver(w, r)
      BY <1>1, <2>1, <3>1 DEF Deliver, Goto
    <3>2. CASE Sweep(w)
      BY <1>1, <2>1, <3>2 DEF Sweep, Goto
    <3>3. CASE SweepNext(w)
      BY <1>1, <2>1, <3>3 DEF SweepNext, Goto
    <3>4. CASE Start(w)
      BY <1>1, <2>1, <3>4 DEF Start, locals
    <3>5. CASE Crash(w)
      BY <1>1, <2>1, <3>5 DEF Crash
    <3> QED BY <1>3, <3>1, <3>2, <3>3, <3>4, <3>5
  <2> HIDE DEF h, s
  <2>4. Quiet
    BY <2>1, <2>2, <2>3 DEF Quiet, rows, books
  <2> QED BY <2>4, QuietKeeps
<1> QED BY <1>2, <1>3

\* With an empty chain and nothing released the invariant holds.
LEMMA InitIInv == Init => IInv
PROOF
<1> SUFFICES ASSUME Init PROVE IInv
  OBVIOUS
<1>1. Typed
  BY InitTyped
<1>2. /\ ledger = <<>> /\ \A o \in Orders : escrow[o] = "PENDING"
      /\ \A c \in Contracts : settlement[c] = "NONE"
      /\ \A f \in Fibers : pc[f] = "down"
      /\ events = {}
  BY DEF Init
<1> QED BY <1>1, <1>2
        DEF IInv, ReleasedIsCaptured, CommitsCaptured, BooksMatchEscrow, CompletedIsBacked,
            PublishesBooked, AnnouncedIsBooked, HandlerOwnsCapture, HandlerReleasesOnce

\* The inductive invariant of the release.
THEOREM Invariance == Spec => []IInv
PROOF
<1>1. IInv /\ [Next]_vars => IInv'
  <2> SUFFICES ASSUME IInv, [Next]_vars PROVE IInv'
    OBVIOUS
  <2>1. Typed'
    BY TypedStep DEF IInv
  <2>2. ASSUME NEW f \in Fibers, FiberStep(f) PROVE IInv'
    BY <2>2, FiberKeeps
  <2>3. ASSUME NEW w \in Workers,
               HandlerStep(w) \/ StartupStep(w) \/ Start(w) \/ Crash(w)
        PROVE  IInv'
    BY <2>1, <2>2, <2>3, FiberFacts, OtherKeeps DEF HandlerStep, StartupStep
  <2>4. CASE Environment \/ UNCHANGED vars
    BY <2>1, <2>4, OtherKeeps
  <2> QED BY <2>3, <2>4 DEF Next
<1> QED BY <1>1, InitIInv, PTL DEF Spec

\* However captures are lost, repeated or recovered, the books release only a
\* payment the provider has taken.
THEOREM NothingReleasedUntaken == Spec => []ReleasedIsCaptured
PROOF
<1>1. IInv => ReleasedIsCaptured
  BY DEF IInv
<1> QED BY <1>1, Invariance, PTL

\* Escrow rows and chain agree on what has been released, after any rollback,
\* lost connection or late payment.failed.
THEOREM BooksAgree == Spec => []BooksMatchEscrow
PROOF
<1>1. IInv => BooksMatchEscrow
  BY DEF IInv
<1> QED BY <1>1, Invariance, PTL

\* A COMPLETED row is backed by a released payment of its own contract.
THEOREM CompletedHasPayment == Spec => []CompletedIsBacked
PROOF
<1>1. IInv => CompletedIsBacked
  BY DEF IInv
<1> QED BY <1>1, Invariance, PTL

\* No SETTLEMENT_COMPLETED event runs ahead of the transaction it announces.
THEOREM AnnouncementsTrue == Spec => []AnnouncedIsBooked
PROOF
<1>1. IInv => AnnouncedIsBooked
  BY DEF IInv
<1> QED BY <1>1, Invariance, PTL

\* Whatever number of workers, deliveries and retries, the request handlers never
\* book a payment twice.
THEOREM HandlersReleaseOnce == Spec => []HandlerReleasesOnce
PROOF
<1>1. IInv => HandlerReleasesOnce
  BY DEF IInv
<1> QED BY <1>1, Invariance, PTL

-------------------------------------------------------------------------------
(***************************************************************************)
(* The refinement.                                                         *)
(***************************************************************************)
Phase == [o \in Orders |-> IF escrow[o] = "RELEASED" THEN "released"
                           ELSE IF o \in captured THEN "taken" ELSE "held"]

\* A payment that changes neither its release nor its capture keeps its phase.
LEMMA SamePhase ==
  ASSUME \A o \in Orders : escrow'[o] = "RELEASED" <=> escrow[o] = "RELEASED",
         captured' = captured
  PROVE  Phase' = Phase
PROOF BY DEF Phase

\* A step that keeps the invariant takes or releases one payment, or changes no
\* payment's phase.
LEMMA StepRefines ==
  ASSUME IInv, [Next]_vars
  PROVE  [Book!Next]_Phase
PROOF
<1>1. /\ escrow \in [Orders -> {"PENDING", "AUTHORIZED", "RELEASED", "FAILED"}]
      /\ captured \subseteq Orders
  BY DEF IInv, Typed, TypeOK
<1>2. CASE UNCHANGED <<escrow, captured>>
  BY <1>2, SamePhase
<1>3. CASE \E o \in Orders : AuthorizeEscrow(o) \/ DeclineEscrow(o)
  <2>1. \A o \in Orders : escrow'[o] = "RELEASED" <=> escrow[o] = "RELEASED"
    BY <1>1, <1>3 DEF AuthorizeEscrow, DeclineEscrow
  <2>2. captured' = captured
    BY <1>3 DEF AuthorizeEscrow, DeclineEscrow
  <2> QED BY <2>1, <2>2, SamePhase
<1>4. ASSUME NEW f \in Fibers, Capture(f)
      PROVE  [Book!Next]_Phase
  <2>1. held[f] \in Orders /\ escrow' = escrow
    BY <1>4 DEF Capture, IInv, Typed, LocalsOK, books
  <2>2. CASE captured' = captured
    BY <2>1, <2>2, SamePhase
  <2>3. CASE captured' = captured \cup {held[f]} /\ held[f] \notin captured
    <3>1. escrow[held[f]] # "RELEASED"
      BY <2>1, <2>3 DEF IInv, ReleasedIsCaptured
    <3>2. Phase[held[f]] = "held" /\ Phase' = [Phase EXCEPT ![held[f]] = "taken"]
      BY <2>1, <2>3, <3>1 DEF Phase
    <3>3. PICK o \in Orders : o = held[f]
      BY <2>1
    <3>4. Book!Take(o)
      BY <3>2, <3>3 DEF Book!Take, Phase
    <3> QED BY <3>4 DEF Book!Next
  <2>4. captured' = captured \/ captured' = captured \cup {held[f]}
    BY <1>4 DEF Capture
  <2>5. CASE held[f] \in captured
    BY <2>2, <2>4, <2>5
  <2> QED BY <2>2, <2>3, <2>4, <2>5
<1>5. ASSUME NEW f \in Fibers, Commit(f), Record(f)
      PROVE  [Book!Next]_Phase
  <2>1. /\ held[f] \in Orders /\ held[f] \in captured
        /\ captured' = captured /\ escrow' = [escrow EXCEPT ![held[f]] = "RELEASED"]
    BY <1>5 DEF Commit, Record, IInv, Typed, LocalsOK, CommitsCaptured
  <2>2. CASE escrow[held[f]] = "RELEASED"
    BY <1>1, <2>1, <2>2, SamePhase
  <2>3. CASE escrow[held[f]] # "RELEASED"
    <3>1. Phase[held[f]] = "taken" /\ Phase' = [Phase EXCEPT ![held[f]] = "released"]
      BY <1>1, <2>1, <2>3 DEF Phase
    <3>2. PICK o \in Orders : o = held[f]
      BY <2>1
    <3>3. Book!Release(o)
      BY <3>1, <3>2 DEF Book!Release, Phase
    <3> QED BY <3>3 DEF Book!Next
  <2> QED BY <2>2, <2>3
<1>6. ASSUME NEW f \in Fibers, FiberStep(f)
      PROVE  [Book!Next]_Phase
  <2>1. CASE Capture(f)
    BY <1>4, <2>1
  <2>2. CASE Commit(f)
    <3>1. Record(f) \/ UNCHANGED books
      BY <2>2 DEF Commit
    <3>2. captured' = captured
      BY <2>2 DEF Commit
    <3> QED BY <1>2, <1>5, <2>2, <3>1, <3>2 DEF books
  <2>3. CASE ~Capture(f) /\ ~Commit(f)
    <3>1. UNCHANGED <<escrow, captured>>
      BY <1>6, <2>3 DEF FiberStep, Find, MarkRolledBack, Publish, Evaluate, Claim, Fail,
         Reject, Ack, Reevaluate, Fetch, books
    <3> QED BY <1>2, <3>1
  <2> QED BY <2>1, <2>2, <2>3
<1>7. ASSUME NEW w \in Workers,
             HandlerStep(w) \/ StartupStep(w) \/ Start(w) \/ Crash(w)
      PROVE  [Book!Next]_Phase
  <2>1. CASE FiberStep(Handler(w)) \/ FiberStep(Startup(w))
    BY <1>6, <2>1, FiberFacts
  <2>2. CASE (\E r \in Requests : Deliver(w, r)) \/ Sweep(w) \/ SweepNext(w)
             \/ Start(w) \/ Crash(w)
    BY <1>2, <2>2 DEF Deliver, Sweep, SweepNext, Start, Crash, books
  <2> QED BY <1>7, <2>1, <2>2 DEF HandlerStep, StartupStep
<1>8. CASE Environment
  <2>1. CASE \E r \in Requests : RequestSettlement(r) \/ PublishRequest(r)
    BY <1>2, <2>1 DEF RequestSettlement, PublishRequest, books
  <2>2. CASE \E c \in Contracts : OracleMoves(c)
    BY <1>2, <2>2 DEF OracleMoves, books
  <2> QED BY <1>3, <1>8, <2>1, <2>2 DEF Environment
<1>9. CASE UNCHANGED vars
  BY <1>2, <1>9 DEF vars, books
<1> QED BY <1>7, <1>8, <1>9 DEF Next

\* The worker, under every interleaving and fault, implements PaymentBook: money
\* goes from held to taken to released, one step at a time and never back.
THEOREM Refinement == Spec => BookSpec
PROOF
<1>1. Init => Book!Init
  BY DEF Init, Book!Init
<1>2. IInv /\ [Next]_vars => [Book!Next]_Phase
  BY StepRefines
<1> QED BY <1>1, <1>2, Invariance, PTL DEF Spec, BookSpec, Book!Spec, Phase

===============================================================================
