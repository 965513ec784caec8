-------------------------------- MODULE Payout --------------------------------
(***************************************************************************)
(* Paying the freelancer of a completed settlement: attemptPayout, called  *)
(* once by whoever completed the settlement, and reconcilePendingPayouts,  *)
(* which a timer of the settlement worker starts whether or not its last   *)
(* run has ended (apps/settlement-worker/src/worker.ts); and the payout    *)
(* branch of the Razorpay webhook (apps/api-gateway/src/routes/webhooks.ts)*)
(* All of them write settlements.payout_status, none under a condition on  *)
(* what it held before.  The provider is modelled from the way the adapter *)
(* uses it: a call with a known idempotency key answers with the payout    *)
(* created by the first call.                                              *)
(***************************************************************************)
EXTENDS Naturals, FiniteSets

CONSTANTS
  Contracts,
  Sweeps,        \* runs of reconcilePendingPayouts that may be active together
  None,
  Faults,        \* the operations that may fail, see AllFaults
  MaxAttempts,   \* PAYOUT_MAX_ATTEMPTS
  MaxCrashes     \* bound: worker crashes in a behaviour

AllFaults ==
  {"mark", "write", "cap",  \* a statement on settlements fails
   "send",                  \* the provider refuses, or its answer is lost
   "announce",              \* SETTLEMENT_COMPLETED is not published
   "notice"}                \* the gateway dies between deduplication and update

ASSUME ConstantsAssumption ==
  /\ Faults \subseteq AllFaults
  /\ MaxAttempts \in Nat \ {0}
  /\ MaxCrashes \in Nat
  /\ None \notin Contracts \cup (Contracts \X {0, 1})
  /\ Contracts \cap Sweeps = {}

VARIABLES
  settled,   \* the contracts whose settlement is COMPLETED
  account,   \* the contracts whose freelancer has a payout account
  status,    \* settlements.payout_status
  attempts,  \* settlements.payout_attempts
  payoutId,  \* settlements.payout_id: the key of the payout it names, or None
  provider,  \* state of the payout created under an idempotency key
  notices,   \* webhook events the provider has still to deliver
  pc, at, answer,  \* locals of a caller
  list,      \* rows a sweep has still to visit, with their attempts when read
  crashes

row  == <<status, attempts, payoutId>>
vars == <<settled, account, row, provider, notices, pc, at, answer, list, crashes>>

\* The settlement of a contract calls attemptPayout once; a sweep any number of times.
Callers == Contracts \cup Sweeps

Statuses == {"PENDING", "PROCESSING", "COMPLETED", "FAILED", "FAILED_TERMINAL"}
Answers  == {"queued", "processed", "reversed", "failed"}
Keys     == Contracts \X {0, 1}

\* payout_<contractId>: the same for every attempt.
KeyPerAttempt(c) == <<c, attempts[c] % 2>>
IdempotencyKey(c) == <<c, 0>>

Fails(op) == op \in Faults

Goto(f, step) == pc' = [pc EXCEPT ![f] = step]

\* What attemptPayout returns to.
Return(f) == Goto(f, IF f \in Sweeps THEN "rows" ELSE "done")

SetStatus(c, s) == status' = [status EXCEPT ![c] = s]

-------------------------------------------------------------------------------

Init ==
  /\ settled = {}
  /\ account = {}
  /\ status = [c \in Contracts |-> "PENDING"]
  /\ attempts = [c \in Contracts |-> 0]
  /\ payoutId = [c \in Contracts |-> None]
  /\ provider = [k \in Keys |-> "none"]
  /\ notices = {}
  /\ pc = [f \in Callers |-> IF f \in Sweeps THEN "idle" ELSE "unsettled"]
  /\ at = [f \in Callers |-> IF f \in Sweeps THEN None ELSE f]
  /\ answer = [f \in Callers |-> "none"]
  /\ list = [s \in Sweeps |-> {}]
  /\ crashes = 0

\* The settlement commits.  A row marked FAILED may be committed once more, by a
\* recovery that took it while it was in flight (module Settlement).
Settle(c) ==
  /\ pc[c] \in {"unsettled", "failed"}
  /\ settled' = settled \cup {c}
  /\ Goto(c, "announce")
  /\ UNCHANGED <<account, row, provider, notices, at, answer, list, crashes>>

\* It publishes SETTLEMENT_COMPLETED and goes on to attemptPayout.  When that throws
\* there is no attempt: the handler's catch block marks the committed row FAILED, a
\* recovery leaves it COMPLETED, and so does a catch block whose own UPDATE fails.
Announce(c) ==
  /\ pc[c] = "announce"
  /\ \/ Goto(c, "attempt") /\ UNCHANGED settled
     \/ /\ Fails("announce")
        /\ \/ settled' = settled \ {c} /\ Goto(c, "failed")
           \/ UNCHANGED settled /\ Goto(c, "done")
  /\ UNCHANGED <<account, row, provider, notices, at, answer, list, crashes>>

\* POST /api/kyc/connect-onboarding stores the freelancer's payout account.
Onboard(c) ==
  /\ c \notin account
  /\ account' = account \cup {c}
  /\ UNCHANGED <<settled, row, provider, notices, pc, at, answer, list, crashes>>

(***************************************************************************)
(* attemptPayout.                                                          *)
(***************************************************************************)

\* Without an account the payout waits; otherwise it is marked before it is sent.
Attempt(f) ==
  /\ pc[f] = "attempt"
  /\ IF at[f] \in account THEN Goto(f, "mark") ELSE Return(f)
  /\ UNCHANGED <<settled, account, row, provider, notices, at, answer, list, crashes>>

\* The PROCESSING write that makes a crash visible as "attempted".
MarkProcessing(f) ==
  /\ pc[f] = "mark"
  /\ \/ /\ SetStatus(at[f], "PROCESSING")
        /\ attempts' = [attempts EXCEPT ![at[f]] = @ + 1]
        /\ Goto(f, "send")
     \/ Fails("mark") /\ UNCHANGED <<status, attempts>> /\ Return(f)
  /\ UNCHANGED <<settled, account, payoutId, provider, notices, at, answer, list, crashes>>

\* payouts.initiatePayout: the first call under a key creates the payout, every
\* other answers with it.  The call may fail before or after that.
Send(f) ==
  LET k == IdempotencyKey(at[f]) IN
  /\ pc[f] = "send"
  /\ \/ /\ provider[k] = "none"
        /\ \E s \in Answers \ {"reversed"} :
             /\ provider' = [provider EXCEPT ![k] = s]
             /\ answer' = [answer EXCEPT ![f] = s]
     \/ /\ provider[k] # "none"
        /\ answer' = [answer EXCEPT ![f] = provider[k]]
        /\ UNCHANGED provider
     \/ /\ Fails("send")
        /\ \/ UNCHANGED provider
           \/ /\ provider[k] = "none"
              /\ provider' = [provider EXCEPT ![k] = "queued"]
        /\ answer' = [answer EXCEPT ![f] = "error"]
  /\ Goto(f, "write")
  /\ UNCHANGED <<settled, account, row, notices, at, list, crashes>>

\* How attemptPayout reads the provider's answer.
OptimisticStatus(a) == IF a \in {"error", "failed"} THEN "FAILED" ELSE "COMPLETED"

FinalStatus(a) ==
  CASE a = "processed"            -> "COMPLETED"
    [] a \in {"failed", "error"}  -> "FAILED"
    [] OTHER                      -> "PROCESSING"

\* The result, written whatever the row has become in the meantime.
Write(f) ==
  /\ pc[f] = "write"
  /\ \/ /\ SetStatus(at[f], FinalStatus(answer[f]))
        /\ payoutId' = [payoutId EXCEPT ![at[f]] =
                          IF answer[f] = "error" THEN @ ELSE IdempotencyKey(at[f])]
     \/ Fails("write") /\ UNCHANGED <<status, payoutId>>
  /\ Return(f)
  /\ answer' = [answer EXCEPT ![f] = "none"]
  /\ UNCHANGED <<settled, account, attempts, provider, notices, at, list, crashes>>

(***************************************************************************)
(* reconcilePendingPayouts.                                                *)
(***************************************************************************)

\* The sweep query without the rows a crash left at PROCESSING.
UnfinishedNotProcessing(c) ==
  c \in settled /\ c \in account /\ status[c] \in {"PENDING", "FAILED"}

\* The rows a sweep selects.
Unfinished(c) ==
  c \in settled /\ c \in account /\ status[c] \in {"PENDING", "FAILED", "PROCESSING"}

\* The timer starts a run, which reads its rows at once.
Select(s) ==
  /\ pc[s] = "idle"
  /\ list' = [list EXCEPT ![s] = {<<c, attempts[c]>> : c \in {d \in Contracts : Unfinished(d)}}]
  /\ Goto(s, "rows")
  /\ UNCHANGED <<settled, account, row, provider, notices, at, answer, crashes>>

\* The cap on attempts.
Exhausted(n) == n >= MaxAttempts

\* One row: give up on it, or attempt it; the number of attempts is the one read
\* with the list.
Visit(s) ==
  /\ pc[s] = "rows"
  /\ \E r \in list[s] :
       /\ list' = [list EXCEPT ![s] = @ \ {r}]
       /\ \/ /\ Exhausted(r[2])
             /\ \/ SetStatus(r[1], "FAILED_TERMINAL")
                \/ Fails("cap") /\ UNCHANGED status
             /\ UNCHANGED <<pc, at>>
          \/ /\ ~Exhausted(r[2])
             /\ at' = [at EXCEPT ![s] = r[1]]
             /\ Goto(s, "attempt")
             /\ UNCHANGED status
  /\ UNCHANGED <<settled, account, attempts, payoutId, provider, notices, answer, crashes>>

EndSweep(s) ==
  /\ pc[s] = "rows" /\ list[s] = {}
  /\ Goto(s, "idle")
  /\ at' = [at EXCEPT ![s] = None]
  /\ UNCHANGED <<settled, account, row, provider, notices, answer, list, crashes>>

(***************************************************************************)
(* The provider and the webhook.                                           *)
(***************************************************************************)

\* A payout moves on at the provider, which will say so.
ProviderMoves(k) ==
  /\ \E s \in Answers :
       /\ <<provider[k], s>> \in
            {<<"queued", "processed">>, <<"queued", "failed">>, <<"processed", "reversed">>}
       /\ provider' = [provider EXCEPT ![k] = s]
       /\ notices' = notices \cup {<<k, s>>}
  /\ UNCHANGED <<settled, account, row, pc, at, answer, list, crashes>>

NoticeStatus(s) == IF s = "processed" THEN "COMPLETED" ELSE "FAILED"

\* A webhook is delivered, in any order.  One whose payout_id no row holds is
\* answered 200 and gone; so is one recorded as seen but never applied.
Notice(n) ==
  /\ n \in notices
  /\ notices' = notices \ {n}
  /\ \/ \E c \in Contracts : payoutId[c] = n[1] /\ SetStatus(c, NoticeStatus(n[2]))
     \/ /\ Fails("notice") \/ \A c \in Contracts : payoutId[c] # n[1]
        /\ UNCHANGED status
  /\ UNCHANGED <<settled, account, attempts, payoutId, provider, pc, at, answer, list, crashes>>

\* The worker dies: a settlement's own attempt is never resumed, the sweep is.
Crash ==
  /\ crashes < MaxCrashes
  /\ crashes' = crashes + 1
  /\ pc' = [f \in Callers |->
              IF f \in Sweeps THEN "idle" ELSE IF pc[f] = "unsettled" THEN "unsettled" ELSE "done"]
  /\ at' = [f \in Callers |-> IF f \in Sweeps THEN None ELSE f]
  /\ answer' = [f \in Callers |-> "none"]
  /\ list' = [s \in Sweeps |-> {}]
  /\ UNCHANGED <<settled, account, row, provider, notices>>

AttemptStep(f) == Attempt(f) \/ MarkProcessing(f) \/ Send(f) \/ Write(f)

SweepStep(s) == AttemptStep(s) \/ Select(s) \/ Visit(s) \/ EndSweep(s)

Next ==
  \/ \E c \in Contracts : Settle(c) \/ Announce(c) \/ Onboard(c) \/ AttemptStep(c)
  \/ \E s \in Sweeps : SweepStep(s)
  \/ \E k \in Keys : ProviderMoves(k)
  \/ \E n \in Keys \X Answers : Notice(n)
  \/ Crash

\* The timer keeps starting runs, and a run that has begun goes on.
Spec == Init /\ [][Next]_vars /\ \A s \in Sweeps : WF_vars(SweepStep(s))

-------------------------------------------------------------------------------

\* Every variable has its type.
TypeOK ==
  /\ settled \subseteq Contracts
  /\ account \subseteq Contracts
  /\ status \in [Contracts -> Statuses]
  /\ attempts \in [Contracts -> Nat]
  /\ payoutId \in [Contracts -> Keys \cup {None}]
  /\ provider \in [Keys -> Answers \cup {"none"}]
  /\ notices \subseteq Keys \X Answers
  /\ pc \in [Callers -> {"unsettled", "announce", "failed", "idle", "rows", "attempt",
                         "mark", "send", "write", "done"}]
  /\ at \in [Callers -> Contracts \cup {None}]
  /\ answer \in [Callers -> Answers \cup {"none", "error"}]
  /\ list \in [Sweeps -> SUBSET (Contracts \X Nat)]
  /\ crashes \in 0..MaxCrashes

\* Crashes, lost answers and overlapping sweeps never send the money twice: the
\* provider holds at most one payout per contract.
NeverPaidTwice ==
  \A c \in Contracts : Cardinality({k \in Keys : k[1] = c /\ provider[k] # "none"}) <= 1

\* Money that was sent is never found back at PENDING with no attempt counted.
SentIsMarked ==
  \A k \in Keys :
    provider[k] # "none" => attempts[k[1]] > 0 /\ status[k[1]] # "PENDING"

\* A payout is COMPLETED only if the provider processed it, though it may have
\* reversed it since.
CompletedIsPaid ==
  \A c \in Contracts :
    status[c] = "COMPLETED" => \E k \in Keys : k[1] = c /\ provider[k] \in {"processed", "reversed"}

\* A freelancer who has not onboarded waits indefinitely and uses up no attempt.
OnboardingWaits == \A c \in Contracts \ account : attempts[c] = 0 /\ status[c] = "PENDING"

\* A payout that can be made is not left open: it completes, or is handed to a human,
\* as long as the settlement is COMPLETED.  One whose publication failed is marked
\* FAILED although it is committed, and no sweep looks at it again.
PayoutResolves ==
  \A c \in Contracts :
    c \in settled \cap account ~>
      status[c] \in {"COMPLETED", "FAILED_TERMINAL"} \/ c \notin settled
===============================================================================
