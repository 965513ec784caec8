------------------------------ MODULE Idempotency ------------------------------
(***************************************************************************)
(* withIdempotency (apps/api-gateway/src/middleware/idempotency.ts): how   *)
(* the gateway processes make several requests that carry one              *)
(* Idempotency-Key take effect once.                                       *)
(*                                                                         *)
(* A process keeps, for the key, the promise of a request's response in    *)
(* memory; the table idempotency_keys keeps a reservation and, later, the  *)
(* response.  Two keys never meet, except that other keys may push this    *)
(* one out of a full cache.  The n-th run of the handler by request r is   *)
(* <<r, n>>, and stands for the response it returned.  The five-second     *)
(* limits are steps that may be taken at any time.                         *)
(***************************************************************************)
EXTENDS Naturals, FiniteSets

CONSTANTS
  Processes,   \* gateway processes
  Requests,    \* requests that carry the key
  Null,
  Faults,      \* what may fail, see AllFaults
  MaxFailures    \* bound: failures in a behaviour

AllFaults ==
  {"throw",      \* a handler throws
   "database",   \* a statement on idempotency_keys fails, applied or not
   "crash"}      \* a process dies with the requests it serves

ASSUME ConstantsAssumption ==
  /\ Faults \subseteq AllFaults
  /\ MaxFailures \in Nat
  /\ Null \notin Requests \cup Processes

\* A response: the handler run that returned it.
Runs == Requests \X {1, 2}

\* What stands in a response's place: no row (or no answer yet), a row reserved
\* with status_code 0, a promise not settled, and the error of a handler.
Absent    == <<Null, 0>>
Reserved  == <<Null, 1>>
Pending   == <<Null, 2>>
Error     == <<Null, 3>>

VARIABLES
  row,       \* the key's row: Absent, Reserved, or the response it holds
  expired,   \* the row is past expires_at: still there, but read by nobody
  cache,     \* inMemoryCache: the request whose promise a process holds
  promise,   \* a request's promise: Pending, Error, or a response
  runs,      \* how often a request has run its handler
  returned,  \* the runs that returned a response
  replies,   \* what a request was answered: Absent, Error, or a response
  pc, at, waits,  \* a request's next step, its process, whose promise it awaits
  late,      \* some request has given up waiting
  failed     \* how often each kind has failed

requests == <<pc, at, waits>>
keyVars  == <<row, expired, cache, promise, runs, returned, replies, requests, late, failed>>

Goto(r, step) == pc' = [pc EXCEPT ![r] = step]

Fails(kind) ==
  /\ kind \in Faults
  /\ failed["throw"] + failed["database"] + failed["crash"] < MaxFailures
  /\ failed' = [failed EXCEPT ![kind] = @ + 1]

Failed(kind) == failed[kind] > 0

\* The first resolution of a promise counts.
Resolve(r, value) == promise' = [promise EXCEPT ![r] = IF @ = Pending THEN value ELSE @]

ReplyWith(r, value) ==
  /\ replies' = [replies EXCEPT ![r] = value]
  /\ Goto(r, "done")

-------------------------------------------------------------------------------

KeyInit ==
  /\ row = Absent
  /\ expired = FALSE
  /\ cache = [g \in Processes |-> Null]
  /\ promise = [r \in Requests |-> Pending]
  /\ runs = [r \in Requests |-> 0]
  /\ returned = {}
  /\ replies = [r \in Requests |-> Absent]
  /\ pc = [r \in Requests |-> "unsent"]
  /\ at = [r \in Requests |-> Null]
  /\ waits = [r \in Requests |-> Null]
  /\ late = FALSE
  /\ failed = [kind \in AllFaults |-> 0]

\* Look the key up, and claim it if it is free: one step, with no await.
Arrive(r, g) ==
  /\ pc[r] = "unsent"
  /\ at' = [at EXCEPT ![r] = g]
  /\ waits' = [waits EXCEPT ![r] = cache[g]]
  /\ \/ cache[g] # Null /\ Goto(r, "wait") /\ UNCHANGED cache
     \/ /\ cache[g] = Null
        /\ cache' = [cache EXCEPT ![g] = r]
        /\ Goto(r, "reserve")
  /\ UNCHANGED <<row, expired, promise, runs, returned, replies, late, failed>>

\* Await the promise found, or time out and take the cache entry over.
Wait(r) ==
  /\ pc[r] = "wait"
  /\ \/ /\ promise[waits[r]] # Pending
        /\ ReplyWith(r, promise[waits[r]])
        /\ UNCHANGED <<cache, late>>
     \/ /\ promise[waits[r]] = Pending
        /\ late' = TRUE
        /\ cache' = [cache EXCEPT ![at[r]] = r]
        /\ Goto(r, "reserve")
        /\ UNCHANGED replies
  /\ UNCHANGED <<row, expired, promise, runs, returned, at, waits, failed>>

\* A reservation whose conflict with an existing row goes unnoticed.
ReserveAnyway(r) ==
  /\ pc[r] = "reserve"
  /\ row' = IF row = Absent THEN Reserved ELSE row
  /\ Goto(r, "handle")
  /\ UNCHANGED <<expired, cache, promise, runs, returned, replies, at, waits, late, failed>>

\* INSERT ... ON CONFLICT DO NOTHING: an expired row conflicts as well.
Reserve(r) ==
  /\ pc[r] = "reserve"
  /\ \/ row = Absent /\ row' = Reserved /\ Goto(r, "handle") /\ UNCHANGED failed
     \/ row # Absent /\ Goto(r, "poll") /\ UNCHANGED <<row, failed>>
     \/ /\ Fails("database")
        /\ row' \in {row, IF row = Absent THEN Reserved ELSE row}
        /\ Goto(r, "fallback")
  /\ UNCHANGED <<expired, cache, promise, runs, returned, replies, at, waits, late>>

\* A run of the handler, which returns a response or throws.
Run(r) == runs' = [runs EXCEPT ![r] = @ + 1]

Return(r) ==
  /\ Run(r)
  /\ returned' = returned \cup {<<r, runs[r] + 1>>}
  /\ Resolve(r, <<r, runs[r] + 1>>)

\* The cache entry goes, whoever has it by now, and the promise is settled.
ThrowClaim(r) ==
  /\ Fails("throw")
  /\ Run(r)
  /\ cache' = [cache EXCEPT ![at[r]] = Null]
  /\ Resolve(r, Error)
  /\ UNCHANGED returned

\* The winner of the reservation runs the handler.
Handle(r) ==
  /\ pc[r] = "handle"
  /\ \/ Return(r) /\ Goto(r, "persist") /\ UNCHANGED <<cache, failed>>
     \/ ThrowClaim(r) /\ Goto(r, "release")
  /\ UNCHANGED <<row, expired, replies, at, waits, late>>

\* Store the response; a failure is logged.
Persist(r) ==
  /\ pc[r] = "persist"
  /\ \/ row' = (IF row = Absent THEN row ELSE <<r, runs[r]>>) /\ UNCHANGED failed
     \/ Fails("database") /\ UNCHANGED row
  /\ ReplyWith(r, <<r, runs[r]>>)
  /\ UNCHANGED <<expired, cache, promise, runs, returned, at, waits, late>>

\* Delete the reservation and rethrow -- into the catch block of the reservation,
\* which takes the error for the database's and runs the handler again.
Release(r) ==
  /\ pc[r] = "release"
  /\ \/ row' = (IF row = Reserved THEN Absent ELSE row) /\ UNCHANGED failed
     \/ Fails("database") /\ UNCHANGED row
  /\ Goto(r, "fallback")
  /\ UNCHANGED <<expired, cache, promise, runs, returned, replies, at, waits, late>>

\* The handler without a reservation, after an error, or as the last resort.
Fallback(r) ==
  /\ pc[r] = "fallback"
  /\ \/ Return(r) /\ ReplyWith(r, <<r, runs[r] + 1>>) /\ UNCHANGED <<cache, failed>>
     \/ ThrowClaim(r) /\ ReplyWith(r, Error)
  /\ UNCHANGED <<row, expired, at, waits, late>>

\* A response is read from the row, and cached.
AnswerFromRow(r) ==
  /\ Resolve(r, row)
  /\ cache' = [cache EXCEPT ![at[r]] = r]
  /\ ReplyWith(r, row)

\* Polling with no deadline.
PollForever(r) ==
  /\ pc[r] = "poll"
  /\ row \in Runs /\ ~expired /\ AnswerFromRow(r)
  /\ UNCHANGED <<row, expired, runs, returned, at, waits, late, failed>>

\* Poll for the winner's response; give up at the deadline or on an error.
Poll(r) ==
  /\ pc[r] = "poll"
  /\ \/ row \in Runs /\ ~expired /\ AnswerFromRow(r) /\ UNCHANGED <<late, failed>>
     \/ /\ row \notin Runs \/ expired
        /\ late' = TRUE
        /\ Goto(r, "fallback")
        /\ UNCHANGED <<cache, promise, replies, failed>>
     \/ /\ Fails("database")
        /\ Goto(r, "fallback")
        /\ UNCHANGED <<cache, promise, replies, late>>
  /\ UNCHANGED <<row, expired, runs, returned, at, waits>>

\* evictStale: the entry has outlived its limit, or others have pushed it out.
Evict(g) ==
  /\ cache[g] # Null
  /\ cache' = [cache EXCEPT ![g] = Null]
  /\ UNCHANGED <<row, expired, promise, runs, returned, replies, requests, late, failed>>

\* expires_at passes.  Nothing deletes the row.
Expire ==
  /\ row # Absent /\ ~expired
  /\ expired' = TRUE
  /\ UNCHANGED <<row, cache, promise, runs, returned, replies, requests, late, failed>>

Crash(g) ==
  /\ Fails("crash")
  /\ pc' = [r \in Requests |-> IF at[r] = g /\ pc[r] # "done" THEN "lost" ELSE pc[r]]
  /\ cache' = [cache EXCEPT ![g] = Null]
  /\ UNCHANGED <<row, expired, promise, runs, returned, replies, at, waits, late>>

RequestStep(r) ==
  \/ Wait(r) \/ Reserve(r) \/ Handle(r) \/ Persist(r) \/ Release(r) \/ Fallback(r)
  \/ Poll(r)

KeyNext ==
  \/ \E r \in Requests : RequestStep(r) \/ \E g \in Processes : Arrive(r, g)
  \/ \E g \in Processes : Evict(g) \/ Crash(g)
  \/ Expire

\* A request that has arrived goes on: all its waits are limited.
KeySpec == KeyInit /\ [][KeyNext]_keyVars /\ \A r \in Requests : WF_keyVars(RequestStep(r))

-------------------------------------------------------------------------------

\* Every variable has its type.
TypeOK ==
  /\ row \in {Absent, Reserved} \cup Runs
  /\ expired \in BOOLEAN
  /\ cache \in [Processes -> Requests \cup {Null}]
  /\ promise \in [Requests -> {Pending, Error} \cup Runs]
  /\ runs \in [Requests -> 0..2]
  /\ returned \subseteq Runs
  /\ replies \in [Requests -> {Absent, Error} \cup Runs]
  /\ pc \in [Requests -> {"unsent", "wait", "reserve", "handle", "persist", "release",
                          "fallback", "poll", "done", "lost"}]
  /\ at \in [Requests -> Processes \cup {Null}]
  /\ waits \in [Requests -> Requests \cup {Null}]
  /\ late \in BOOLEAN
  /\ failed \in [AllFaults -> 0..MaxFailures]

\* Unless something failed or a request gave up waiting, the requests of a key
\* take effect once, in whichever processes they arrive and whatever the cache
\* forgets in between.
TakesEffectOnce == (\A kind \in AllFaults : ~Failed(kind)) /\ ~late => Cardinality(returned) <= 1

\* A client is answered with a response some handler returned, never with the
\* placeholder of a reservation.
AnswersAreReal == \A r \in Requests : replies[r] \in {Absent, Error} \cup returned

\* "A handler that throws releases both claims": when no request is in progress,
\* no reservation and no pending promise is left to hold up the next one, unless
\* the database failed or a process died.
ClaimsReleased ==
  (/\ \A r \in Requests : pc[r] \in {"unsent", "done"}
   /\ ~Failed("database") /\ ~Failed("crash"))
     => /\ row # Reserved
        /\ \A g \in Processes : cache[g] # Null => promise[cache[g]] # Pending

\* Every request that arrives is answered, unless its process dies.
Answered == \A r \in Requests : pc[r] # "unsent" ~> pc[r] \in {"done", "lost"}

===============================================================================
