----------------------------- MODULE PayoutProofs -----------------------------
(***************************************************************************)
(* Proofs about payouts, for any number of contracts, of overlapping       *)
(* sweeps, of attempts and of crashes, and for every choice of faults; and *)
(* at the end about the calls of the ports, for any number of users and of *)
(* attempts of a call.                                                     *)
(***************************************************************************)
EXTENDS Payout, PaymentApi, FiniteSetTheorems, TLAPS

Key(c)  == <<c, 0>>
Paid(c) == provider[Key(c)] \in {"processed", "reversed"}

\* A caller inside attemptPayout works for a contract, a settlement for its own.
AttemptsHaveContract ==
  /\ \A f \in Callers : pc[f] \in {"attempt", "mark", "send", "write"} => at[f] \in Contracts
  /\ \A c \in Contracts : at[c] = c

Typed == TypeOK /\ AttemptsHaveContract

\* Every call of initiatePayout has carried the contract's one key.
OneKey == \A c \in Contracts : provider[<<c, 1>>] = "none"

\* What is about to be written, or announced by webhook, is what the provider said.
AnswersAreTrue ==
  /\ \A f \in Callers : pc[f] = "write" /\ answer[f] = "processed" => Paid(at[f])
  /\ \A n \in notices : n[2] = "processed" => provider[n[1]] \in {"processed", "reversed"}
  /\ \A c \in Contracts : payoutId[c] \in {None, Key(c)}

\* Nobody past the check for an account is without one.
CallersOnboarded ==
  /\ \A f \in Callers : pc[f] \in {"mark", "send", "write"} => at[f] \in account
  /\ \A s \in Sweeps : \A r \in list[s] : r[1] \in account
  /\ \A c \in Contracts : payoutId[c] # None => c \in account

\* A caller past the PROCESSING write has left its trace.
CallersMarked ==
  \A f \in Callers :
    pc[f] \in {"send", "write"} => attempts[at[f]] > 0 /\ status[at[f]] # "PENDING"

IInv == /\ Typed /\ OneKey /\ AnswersAreTrue /\ CompletedIsPaid
        /\ CallersOnboarded /\ OnboardingWaits /\ CallersMarked /\ SentIsMarked

-------------------------------------------------------------------------------

\* The key of a contract is a key of the provider's, and every key is one of two.
LEMMA KeyFacts ==
  /\ \A c \in Contracts : Key(c) \in Keys /\ <<c, 1>> \in Keys /\ Key(c)[1] = c
                         /\ IdempotencyKey(c) = Key(c)
  /\ \A c, d \in Contracts : Key(c) # <<d, 1>> /\ (Key(c) = Key(d) => c = d)
  /\ \A k \in Keys : k[1] \in Contracts /\ (k = Key(k[1]) \/ k = <<k[1], 1>>) /\ k # None
PROOF BY ConstantsAssumption DEF Key, Keys, IdempotencyKey

\* With all calls under one key, a contract has one payout at most.
LEMMA OneKeyOncePaid == OneKey => NeverPaidTwice
PROOF
  <1> SUFFICES ASSUME OneKey, NEW c \in Contracts
               PROVE  Cardinality({k \in Keys : k[1] = c /\ provider[k] # "none"}) <= 1
    BY DEF NeverPaidTwice
  <1> DEFINE K == {k \in Keys : k[1] = c /\ provider[k] # "none"}
  <1>1. K \in SUBSET {Key(c)}
    BY KeyFacts DEF OneKey
  <1>2. IsFiniteSet({Key(c)}) /\ Cardinality({Key(c)}) = 1
    BY FS_Singleton
  <1> QED BY <1>1, <1>2, FS_Subset

\* What happens beside the attempts: a settlement is committed and announced, or marked
\* FAILED, a freelancer onboards, the
\* provider moves a payout on, its notice is applied, and processes crash.
LEMMA WorldPreserves ==
  ASSUME IInv,
         \/ \E c \in Contracts : Settle(c) \/ Announce(c) \/ Onboard(c)
         \/ \E k \in Keys : ProviderMoves(k)
         \/ \E n \in Keys \X Answers : Notice(n)
         \/ Crash
         \/ UNCHANGED vars
  PROVE  IInv'
PROOF
  <1> USE ConstantsAssumption, KeyFacts
      DEF IInv, Typed, TypeOK, AttemptsHaveContract, OneKey, AnswersAreTrue, Paid,
          CompletedIsPaid, CallersOnboarded, OnboardingWaits, CallersMarked, SentIsMarked,
          Callers, Goto, row
  <1>1. CASE \E c \in Contracts : Settle(c) \/ Announce(c) \/ Onboard(c)
    BY <1>1, SMTT(30) DEF Settle, Announce, Onboard
  <1>2. CASE \E k \in Keys : ProviderMoves(k)
    BY <1>2, SMTT(30) DEF ProviderMoves, Answers
  <1>3. CASE \E n \in Keys \X Answers : Notice(n)
    BY <1>3, SMTT(30) DEF Notice, NoticeStatus, SetStatus, Statuses
  <1>4. CASE Crash
    BY <1>4 DEF Crash
  <1>5. CASE UNCHANGED vars
    BY <1>5 DEF vars
  <1> QED BY <1>1, <1>2, <1>3, <1>4, <1>5

\* A sweep reads its rows, gives one up or attempts it, and ends; an attempt looks for an
\* account.
LEMMA SweepPreserves ==
  ASSUME IInv,
         \/ \E s \in Sweeps : Select(s) \/ Visit(s) \/ EndSweep(s)
         \/ \E f \in Callers : Attempt(f)
  PROVE  IInv'
PROOF
  <1> USE ConstantsAssumption, KeyFacts
      DEF IInv, Typed, TypeOK, AttemptsHaveContract, OneKey, AnswersAreTrue, Paid,
          CompletedIsPaid, CallersOnboarded, OnboardingWaits, CallersMarked, SentIsMarked,
          Callers, Goto, row
  <1>1. CASE \E s \in Sweeps : Select(s)
    BY <1>1, SMTT(30) DEF Select, Unfinished
  <1>2. CASE \E s \in Sweeps : Visit(s)
    BY <1>2, SMTT(30) DEF Visit, SetStatus, Statuses
  <1>3. CASE \E s \in Sweeps : EndSweep(s)
    BY <1>3, SMTT(30) DEF EndSweep
  <1>4. CASE \E f \in Callers : Attempt(f)
    BY <1>4, SMTT(30) DEF Attempt, Return
  <1> QED BY <1>1, <1>2, <1>3, <1>4

\* The PROCESSING write.
LEMMA MarkPreserves ==
  ASSUME IInv, NEW f \in Callers, MarkProcessing(f)
  PROVE  IInv'
PROOF
  <1>1. Typed'
    BY ConstantsAssumption, KeyFacts DEF IInv, Typed, TypeOK, AttemptsHaveContract, MarkProcessing, Return, SetStatus, Statuses, row, Callers, Goto
  <1>2. OneKey'
    BY ConstantsAssumption, KeyFacts DEF IInv, Typed, TypeOK, AttemptsHaveContract, OneKey, MarkProcessing, Return, SetStatus, Statuses, row, Callers, Goto
  <1>3. AnswersAreTrue'
    BY ConstantsAssumption, KeyFacts DEF IInv, Typed, TypeOK, AttemptsHaveContract, AnswersAreTrue, Paid, MarkProcessing, Return, SetStatus, Statuses, row, Callers, Goto
  <1>4. CompletedIsPaid'
    BY ConstantsAssumption, KeyFacts DEF IInv, Typed, TypeOK, AttemptsHaveContract, AnswersAreTrue, CompletedIsPaid, Paid, MarkProcessing, Return, SetStatus, Statuses, row, Callers, Goto
  <1>5. CallersOnboarded'
    BY ConstantsAssumption, KeyFacts DEF IInv, Typed, TypeOK, AttemptsHaveContract, CallersOnboarded, MarkProcessing, Return, SetStatus, Statuses, row, Callers, Goto
  <1>6. OnboardingWaits'
    BY ConstantsAssumption, KeyFacts DEF IInv, Typed, TypeOK, CallersOnboarded, OnboardingWaits, MarkProcessing, Return, SetStatus, Statuses, row, Callers, Goto
  <1>7. CallersMarked'
    BY ConstantsAssumption, KeyFacts DEF IInv, Typed, TypeOK, AttemptsHaveContract, CallersMarked, MarkProcessing, Return, SetStatus, Statuses, row, Callers, Goto
  <1>8. SentIsMarked'
    BY ConstantsAssumption, KeyFacts DEF IInv, Typed, TypeOK, AttemptsHaveContract, CallersMarked, SentIsMarked, MarkProcessing, Return, SetStatus, Statuses, row, Callers, Goto
  <1> QED BY <1>1, <1>2, <1>3, <1>4, <1>5, <1>6, <1>7, <1>8 DEF IInv

\* The call, whose payout comes under the contract's key.
LEMMA SendPreserves ==
  ASSUME IInv, NEW f \in Callers, Send(f)
  PROVE  IInv'
PROOF
  <1> DEFINE c == at[f]
  <1>1. c \in Contracts /\ Key(c) \in Keys /\ IdempotencyKey(c) = Key(c)
    BY KeyFacts DEF IInv, Typed, AttemptsHaveContract, Send
  <1>2. PICK a \in Answers \cup {"error"}, s \in Answers \cup {"none"} :
          /\ provider' = [provider EXCEPT ![Key(c)] = s]
          /\ provider[Key(c)] # "none" => s = provider[Key(c)]
          /\ provider[Key(c)] = "none" => s # "reversed"
          /\ answer' = [answer EXCEPT ![f] = a]
          /\ a = "processed" => s \in {"processed", "reversed"}
    BY <1>1, KeyFacts, SMTT(30) DEF Send, IInv, Typed, TypeOK, Answers
  <1>3. /\ pc' = [pc EXCEPT ![f] = "write"] /\ pc[f] = "send"
        /\ UNCHANGED <<settled, account, row, notices, at, list, crashes>>
    BY DEF Send, Goto
  <1>4. \A k \in Keys : provider[k] \in {"processed", "reversed"} => provider'[k] \in {"processed", "reversed"}
    BY <1>1, <1>2 DEF IInv, Typed, TypeOK
  <1>5. Paid(c)' <=> s \in {"processed", "reversed"}
    BY <1>1, <1>2, <1>3 DEF IInv, Typed, TypeOK, Paid
  <1>6. Typed'
    BY <1>1, <1>2, <1>3 DEF IInv, Typed, TypeOK, AttemptsHaveContract, row
  <1>7. OneKey'
    BY <1>1, <1>2, KeyFacts DEF IInv, Typed, TypeOK, OneKey
  <1>8. AnswersAreTrue'
    BY <1>1, <1>2, <1>3, <1>4, <1>5, KeyFacts
      DEF IInv, Typed, TypeOK, AttemptsHaveContract, AnswersAreTrue, Paid, row
  <1>9. CompletedIsPaid'
    BY <1>3, <1>4 DEF IInv, CompletedIsPaid, row
  <1>10. CallersOnboarded' /\ OnboardingWaits' /\ CallersMarked'
    BY <1>3 DEF IInv, Typed, TypeOK, CallersOnboarded, OnboardingWaits, CallersMarked, row
  <1>11. SentIsMarked'
    BY <1>1, <1>2, <1>3, KeyFacts DEF IInv, Typed, TypeOK, CallersMarked, SentIsMarked, row
  <1> QED BY <1>6, <1>7, <1>8, <1>9, <1>10, <1>11 DEF IInv

\* The result is written: the provider has said so.
LEMMA WritePreserves ==
  ASSUME IInv, NEW f \in Callers, Write(f)
  PROVE  IInv'
PROOF
  <1> DEFINE c == at[f]
  <1>1. c \in Contracts /\ Key(c) \in Keys /\ IdempotencyKey(c) = Key(c)
    BY KeyFacts DEF IInv, Typed, AttemptsHaveContract, Write
  <1>2. PICK v \in Statuses \ {"PENDING"}, id \in {payoutId[c], Key(c)} :
          /\ status' = [status EXCEPT ![c] = v]
          /\ v = "COMPLETED" => answer[f] = "processed" \/ status[c] = "COMPLETED"
          /\ payoutId' = [payoutId EXCEPT ![c] = id]
    <2>1. status[c] \in Statuses \ {"PENDING"}
      BY <1>1 DEF IInv, Typed, TypeOK, CallersMarked, Write
    <2>2. CASE /\ SetStatus(c, FinalStatus(answer[f]))
               /\ payoutId' = [payoutId EXCEPT ![c] = IF answer[f] = "error" THEN payoutId[c] ELSE Key(c)]
      <3>1. /\ FinalStatus(answer[f]) \in Statuses \ {"PENDING"}
            /\ FinalStatus(answer[f]) = "COMPLETED" => answer[f] = "processed"
        BY DEF FinalStatus, Statuses
      <3> QED BY <2>2, <3>1 DEF SetStatus
    <2>3. CASE UNCHANGED <<status, payoutId>>
      <3>1. status' = [status EXCEPT ![c] = status[c]] /\ payoutId' = [payoutId EXCEPT ![c] = payoutId[c]]
        BY <1>1, <2>3 DEF IInv, Typed, TypeOK
      <3> QED BY <2>1, <3>1
    <2>4. \/ /\ SetStatus(c, FinalStatus(answer[f]))
             /\ payoutId' = [payoutId EXCEPT ![c] = IF answer[f] = "error" THEN payoutId[c] ELSE Key(c)]
          \/ UNCHANGED <<status, payoutId>>
      BY <1>1 DEF Write
    <2> QED BY <2>2, <2>3, <2>4
  <1>3. /\ pc[f] = "write" /\ pc' \in {[pc EXCEPT ![f] = "rows"], [pc EXCEPT ![f] = "done"]}
        /\ answer' = [answer EXCEPT ![f] = "none"]
        /\ UNCHANGED <<settled, account, attempts, provider, notices, at, list, crashes>>
    BY DEF Write, Return, Goto
  <1>4. c \in account /\ (answer[f] = "processed" => Paid(c))
    BY <1>3 DEF IInv, CallersOnboarded, AnswersAreTrue
  <1>5. Typed'
    BY <1>1, <1>2, <1>3 DEF IInv, Typed, TypeOK, AttemptsHaveContract
  <1>6. OneKey'
    BY <1>3 DEF IInv, OneKey
  <1>7. AnswersAreTrue'
    BY <1>1, <1>2, <1>3 DEF IInv, Typed, TypeOK, AnswersAreTrue, Paid
  <1>8. CompletedIsPaid'
    <2>1. status'[c] = "COMPLETED" => \E k \in Keys : k[1] = c /\ provider[k] \in {"processed", "reversed"}
      BY <1>1, <1>2, <1>4, KeyFacts DEF IInv, Typed, TypeOK, CompletedIsPaid, Paid
    <2>2. \A d \in Contracts : d # c => status'[d] = status[d]
      BY <1>1, <1>2 DEF IInv, Typed, TypeOK
    <2> QED BY <1>3, <2>1, <2>2 DEF IInv, CompletedIsPaid
  <1>9. CallersOnboarded'
    BY <1>1, <1>2, <1>3, <1>4 DEF IInv, Typed, TypeOK, CallersOnboarded
  <1>10. OnboardingWaits'
    BY <1>1, <1>2, <1>3, <1>4 DEF IInv, Typed, TypeOK, OnboardingWaits
  <1>11. CallersMarked' /\ SentIsMarked'
    BY <1>1, <1>2, <1>3, KeyFacts DEF IInv, Typed, TypeOK, CallersMarked, SentIsMarked
  <1> QED BY <1>5, <1>6, <1>7, <1>8, <1>9, <1>10, <1>11 DEF IInv

-------------------------------------------------------------------------------

\* The inductive invariant holds always, however callers, sweeps, notices and
\* crashes interleave.
THEOREM Invariance == Spec => []IInv
PROOF
  <1>1. Init => IInv
    BY ConstantsAssumption, KeyFacts
    DEF Init, IInv, Typed, TypeOK, AttemptsHaveContract, OneKey, AnswersAreTrue, CompletedIsPaid,
        CallersOnboarded, OnboardingWaits, CallersMarked, SentIsMarked, Callers, Statuses
  <1>2. IInv /\ [Next]_vars => IInv'
    <2> SUFFICES ASSUME IInv, [Next]_vars PROVE IInv'
      OBVIOUS
    <2>1. ASSUME NEW f \in Callers, AttemptStep(f) PROVE IInv'
      BY <2>1, SweepPreserves, MarkPreserves, SendPreserves, WritePreserves DEF AttemptStep
    <2>2. ASSUME NEW c \in Contracts, AttemptStep(c) PROVE IInv'
      BY <2>1, <2>2 DEF Callers
    <2>3. ASSUME NEW s \in Sweeps, SweepStep(s) PROVE IInv'
      BY <2>1, <2>3, SweepPreserves DEF SweepStep, Callers
    <2>4. ASSUME NEW c \in Contracts, Settle(c) \/ Announce(c) \/ Onboard(c) PROVE IInv'
      BY <2>4, WorldPreserves
    <2>5. ASSUME NEW k \in Keys, ProviderMoves(k) PROVE IInv'
      BY <2>5, WorldPreserves
    <2>6. ASSUME NEW n \in Keys \X Answers, Notice(n) PROVE IInv'
      BY <2>6, WorldPreserves
    <2>7. CASE Crash
      BY <2>7, WorldPreserves
    <2>8. CASE UNCHANGED vars
      BY <2>8, WorldPreserves
    <2> QED BY <2>2, <2>3, <2>4, <2>5, <2>6, <2>7, <2>8 DEF Next
  <1> QED BY <1>1, <1>2, PTL DEF Spec

\* Crashes, lost answers and overlapping sweeps never send the money twice.
THEOREM PaidOnce == Spec => []NeverPaidTwice
PROOF
  <1>1. IInv => NeverPaidTwice
    BY OneKeyOncePaid DEF IInv
  <1> QED BY <1>1, Invariance, PTL

\* A payout shown as COMPLETED was processed by the provider.
THEOREM CompletedWasPaid == Spec => []CompletedIsPaid
PROOF
  <1>1. IInv => CompletedIsPaid
    BY DEF IInv
  <1> QED BY <1>1, Invariance, PTL

\* Money that was sent has left its trace before, and nothing is attempted for a
\* freelancer without an account (attemptPayout's two writes and its early return).
THEOREM TracesFirst == Spec => [](SentIsMarked /\ OnboardingWaits)
PROOF
  <1>1. IInv => SentIsMarked /\ OnboardingWaits
    BY DEF IInv
  <1> QED BY <1>1, Invariance, PTL

-------------------------------------------------------------------------------
\* The ports.

UseRecord == [op : PaymentOps \cup PayoutOps \cup {"none"},
              step : {"idle", "sent", "answered", "ok", "error"},
              attempt : 0..RequestAttempts, answer : Endings \cup {"none"},
              made : BOOLEAN, doubt : BOOLEAN]

ApiTyped == /\ live \in BOOLEAN /\ orders \in Nat
            /\ payment \in {"authorized", "captured", "refunded"}
            /\ use \in [Users -> UseRecord]

\* Every payout of a contract goes under its one header.
OneHeader == payouts \subseteq {0}

Succeeded(r) == r.step = "ok" \/ (r.step = "answered" /\ r.answer = "2xx")

\* A call the provider has answered well is in effect, and what a call did is known to
\* its user or in doubt.
CallTells(r) ==
  /\ Succeeded(r) => InEffect(r.op)
  /\ r.made /\ ~r.doubt => Succeeded(r)

ApiInv == ApiTyped /\ OneHeader /\ \A u \in Users : CallTells(use[u])

\* What the provider has done stays done: orders, captures, refunds and payouts.
EffectsStay == \A op \in PaymentOps \cup PayoutOps \cup {"none"} : InEffect(op) => InEffect(op)'

\* One user's call moves on, the others' stay as they are.
LEMMA OneCallMoves ==
  ASSUME ApiInv, EffectsStay, NEW u \in Users, NEW r \in UseRecord, Becomes(u, r), CallTells(r)'
  PROVE  use' \in [Users -> UseRecord] /\ \A v \in Users : CallTells(use[v])'
PROOF
  <1>1. use' \in [Users -> UseRecord]
    BY DEF Becomes, ApiInv, ApiTyped
  <1>2. use'[u] = r
    BY DEF Becomes, ApiInv, ApiTyped
  <1>3. ASSUME NEW v \in Users, v # u
        PROVE  CallTells(use[v])'
    <2>1. use'[v] = use[v] /\ use[v] \in UseRecord
      BY <1>3 DEF Becomes, ApiInv, ApiTyped
    <2>2. CallTells(use[v])
      BY <1>3 DEF ApiInv
    <2> QED BY <2>1, <2>2 DEF CallTells, Succeeded, EffectsStay, UseRecord
  <1>4. CallTells(use[u])'
    BY <1>2 DEF CallTells, Succeeded
  <1> QED BY <1>1, <1>3, <1>4

\* What it is to be done.
LEMMA DoneFacts ==
  ASSUME ApiInv, NEW r, Done(r), r.op = "refundPayment" => payment = "captured",
         r.op = "capturePayment" => payment = "authorized" \/ ~live, UNCHANGED live
  PROVE  /\ orders' \in Nat /\ payment' \in {"authorized", "captured", "refunded"}
         /\ OneHeader' /\ EffectsStay
         /\ r.op \in PaymentOps \cup PayoutOps => InEffect(r.op)'
PROOF
  <1> USE DEF ApiInv, ApiTyped
  <1>1. orders' \in Nat /\ payment' \in {"authorized", "captured", "refunded"}
    BY DEF Done
  <1>2. OneHeader'
    BY DEF Done, OneHeader, Header
  <1>3. EffectsStay
    BY DEF Done, EffectsStay, InEffect
  <1>4. r.op \in PaymentOps \cup PayoutOps => InEffect(r.op)'
    BY DEF Done, InEffect, PaymentOps, PayoutOps
  <1> QED BY <1>1, <1>2, <1>3, <1>4

LEMMA NoUseFacts ==
  /\ NoUse \in UseRecord
  /\ NoUse.op = "none" /\ NoUse.step = "idle" /\ ~NoUse.made /\ ~NoUse.doubt
  /\ 1 \in 0..RequestAttempts
PROOF
  <1>1. 0 \in 0..RequestAttempts /\ 1 \in 0..RequestAttempts
    BY ApiAssumption
  <1> QED BY <1>1 DEF NoUse, UseRecord

LEMMA BeginCallPreserves ==
  ASSUME ApiInv, NEW u \in Users, BeginPayment(u) \/ BeginPayout(u)
  PROVE  ApiInv'
PROOF
  <1>1. PICK op \in PaymentOps \cup PayoutOps : Begin(u, op)
    BY DEF BeginPayment, BeginPayout
  <1> DEFINE r == [NoUse EXCEPT !.op = op, !.step = "sent", !.attempt = 1]
  <1>2. r \in UseRecord /\ r.step = "sent" /\ ~r.made
    BY <1>1, NoUseFacts DEF UseRecord
  <1>3. r \in UseRecord /\ CallTells(r)'
    BY <1>2 DEF CallTells, Succeeded
  <1>4. EffectsStay
    BY <1>1 DEF Begin, EffectsStay, InEffect
  <1>5. use' \in [Users -> UseRecord] /\ \A v \in Users : CallTells(use[v])'
    BY <1>1, <1>3, <1>4, OneCallMoves DEF Begin
  <1> QED BY <1>1, <1>5 DEF Begin, ApiInv, ApiTyped, OneHeader

\* An attempt that is answered well has done what it was for, now or before.
LEMMA ServePreserves ==
  ASSUME ApiInv, NEW u \in Users, Serve(u)
  PROVE  ApiInv'
PROOF
  <1>0. PICK r : r = use[u]
    OBVIOUS
  <1>1. PICK e \in Endings, effect \in BOOLEAN :
          /\ effect => Possible(r) /\ e \notin {"4xx", "429"}
          /\ e = "2xx" => effect \/ Repeatable(r)
          /\ IF effect THEN Done(r) ELSE UNCHANGED <<orders, payment, payouts>>
          /\ Becomes(u, [r EXCEPT !.step = "answered", !.answer = e,
                                  !.made = @ \/ effect, !.doubt = @ \/ e \in Doubtful])
    BY <1>0 DEF Serve
  <1>2. r \in UseRecord /\ r.step = "sent" /\ live /\ UNCHANGED live
    BY <1>0 DEF Serve, ApiInv, ApiTyped
  <1> DEFINE q == [r EXCEPT !.step = "answered", !.answer = e,
                            !.made = @ \/ effect, !.doubt = @ \/ e \in Doubtful]
  <1>3. /\ q.op = r.op /\ q.step = "answered" /\ q.answer = e
        /\ q.made = (r.made \/ effect) /\ q.doubt = (r.doubt \/ e \in Doubtful)
        /\ q \in UseRecord
    BY <1>2 DEF UseRecord
  <1>4. /\ orders' \in Nat /\ payment' \in {"authorized", "captured", "refunded"}
        /\ OneHeader' /\ EffectsStay
        /\ effect => InEffect(r.op)'
    <2>1. CASE effect
      <3>1. Done(r) /\ Possible(r)
        BY <1>1, <2>1
      <3>2. /\ r.op = "refundPayment" => payment = "captured"
            /\ r.op = "capturePayment" => payment = "authorized" \/ ~live
            /\ r.op \in PaymentOps \cup PayoutOps
        <4>1. r.op = "refundPayment" => payment = "captured"
          BY <3>1 DEF Possible
        <4>2. r.op = "capturePayment" => payment = "authorized"
          BY <3>1 DEF Possible
        <4>3. r.op # "none"
          BY <3>1 DEF Possible
        <4> QED BY <4>1, <4>2, <4>3, <1>2 DEF UseRecord
      <3> QED BY <3>1, <3>2, <1>2, <2>1, DoneFacts
    <2>2. CASE ~effect
      BY <1>1, <1>2, <2>2 DEF ApiInv, ApiTyped, OneHeader, EffectsStay, InEffect
    <2> QED BY <2>1, <2>2
  <1>5. CallTells(q)'
    <2>1. CallTells(r)
      BY <1>0 DEF ApiInv
    <2>2. e = "2xx" => InEffect(r.op)'
      <3>1. CASE e = "2xx" /\ ~effect
        <4>1. InEffect(r.op)
          BY <1>1, <3>1 DEF Repeatable, InEffect
        <4> QED BY <4>1, <1>2, <1>4 DEF EffectsStay, UseRecord
      <3> QED BY <3>1, <1>4
    <2>3. q.made /\ ~q.doubt => e = "2xx"
      BY <1>1, <1>2, <1>3, <2>1 DEF CallTells, Succeeded, Endings, Doubtful
    <2> QED BY <1>3, <2>2, <2>3 DEF CallTells, Succeeded
  <1>6. use' \in [Users -> UseRecord] /\ \A v \in Users : CallTells(use[v])'
    BY <1>1, <1>3, <1>4, <1>5, OneCallMoves
  <1> QED BY <1>2, <1>4, <1>6 DEF ApiInv, ApiTyped

LEMMA ReactPreserves ==
  ASSUME ApiInv, NEW u \in Users, React(u)
  PROVE  ApiInv'
PROOF
  <1>0. PICK r : r = use[u]
    OBVIOUS
  <1>1. r \in UseRecord /\ r.step = "answered" /\ CallTells(r)
    BY <1>0 DEF React, ApiInv, ApiTyped
  <1>2. PICK q : /\ Becomes(u, q)
                 /\ q = IF Retryable(r.answer) /\ r.attempt < RequestAttempts
                        THEN [r EXCEPT !.step = "sent", !.attempt = @ + 1, !.answer = "none"]
                        ELSE [r EXCEPT !.answer = "none",
                                       !.step = IF r.answer = "2xx" THEN "ok" ELSE "error"]
    BY <1>0 DEF React
  <1>3. EffectsStay
    BY DEF React, EffectsStay, InEffect
  <1>4. q \in UseRecord /\ q.op = r.op /\ q.made = r.made /\ q.doubt = r.doubt
    <2>1. CASE Retryable(r.answer) /\ r.attempt < RequestAttempts
      <3>1. r.attempt + 1 \in 0..RequestAttempts
        BY <1>1, <2>1, ApiAssumption DEF UseRecord
      <3> QED BY <1>1, <1>2, <2>1, <3>1 DEF UseRecord
    <2>2. CASE ~(Retryable(r.answer) /\ r.attempt < RequestAttempts)
      BY <1>1, <1>2, <2>2 DEF UseRecord
    <2> QED BY <2>1, <2>2
  <1>5. Succeeded(q) <=> Succeeded(r)
    BY <1>1, <1>2, <1>4 DEF UseRecord, Succeeded, Retryable
  <1>6. CallTells(q)'
    BY <1>1, <1>3, <1>4, <1>5 DEF CallTells, EffectsStay, UseRecord, Succeeded
  <1>7. use' \in [Users -> UseRecord] /\ \A v \in Users : CallTells(use[v])'
    BY <1>2, <1>3, <1>4, <1>6, OneCallMoves
  <1> QED BY <1>7 DEF React, ApiInv, ApiTyped, OneHeader

\* The fakes: they do what they answer for.
LEMMA PretendPreserves ==
  ASSUME ApiInv, NEW u \in Users, PretendPayment(u) \/ PretendPayout(u)
  PROVE  ApiInv'
PROOF
  <1>1. PICK op \in PaymentOps \cup PayoutOps, new \in BOOLEAN :
          /\ Pretend(u, op, new)
          /\ op \in {"createOrder", "capturePayment"} => new
          /\ op = "initiatePayout" => (new <=> 0 \notin payouts)
          /\ new => op \in {"createOrder", "capturePayment", "initiatePayout"}
    <2>1. CASE PretendPayment(u)
      <3>1. PICK op \in PaymentOps : Pretend(u, op, op \in {"createOrder", "capturePayment"})
        BY <2>1 DEF PretendPayment
      <3>2. (op \in {"createOrder", "capturePayment"}) \in BOOLEAN
        OBVIOUS
      <3> QED BY <3>1, <3>2 DEF PaymentOps
    <2>2. CASE PretendPayout(u)
      <3>1. PICK op \in PayoutOps : Pretend(u, op, op = "initiatePayout" /\ 0 \notin payouts)
        BY <2>2 DEF PretendPayout, Header
      <3>2. (op = "initiatePayout" /\ 0 \notin payouts) \in BOOLEAN
        OBVIOUS
      <3> QED BY <3>1, <3>2 DEF PayoutOps
    <2> QED BY <2>1, <2>2
  <1> DEFINE p == [NoUse EXCEPT !.op = op]
             q == [NoUse EXCEPT !.op = op, !.step = "ok", !.attempt = 1, !.made = new]
  <1>2. p.op = op /\ ~live /\ ~live' /\ UNCHANGED live
    BY <1>1 DEF Pretend, NoUse, ApiInv, ApiTyped
  <1>3. q \in UseRecord /\ q.op = op /\ q.step = "ok"
    BY <1>1, NoUseFacts DEF UseRecord
  <1>4. /\ orders' \in Nat /\ payment' \in {"authorized", "captured", "refunded"}
        /\ OneHeader' /\ EffectsStay
        /\ InEffect(op)'
    <2>1. CASE new
      <3>1. Done(p)
        BY <1>1, <2>1 DEF Pretend
      <3> QED BY <1>1, <1>2, <2>1, <3>1, DoneFacts
    <2>2. CASE ~new
      <3>1. UNCHANGED <<orders, payment, payouts>>
        BY <1>1, <2>2 DEF Pretend
      <3>2. InEffect(op)'
        BY <1>1, <1>2, <2>2, <3>1 DEF InEffect, PaymentOps, PayoutOps
      <3> QED BY <1>2, <3>1, <3>2 DEF ApiInv, ApiTyped, OneHeader, EffectsStay, InEffect
    <2> QED BY <2>1, <2>2
  <1>5. CallTells(q)'
    BY <1>3, <1>4 DEF CallTells, Succeeded
  <1>6. Becomes(u, q)
    BY <1>1 DEF Pretend
  <1>7. use' \in [Users -> UseRecord] /\ \A v \in Users : CallTells(use[v])'
    BY <1>3, <1>4, <1>5, <1>6, OneCallMoves
  <1> QED BY <1>2, <1>4, <1>7 DEF ApiInv, ApiTyped

LEMMA RebootPreserves ==
  ASSUME ApiInv, Reboot
  PROVE  ApiInv'
PROOF
  <1>1. \A u \in Users : use'[u] = NoUse
    BY DEF Reboot
  <1>2. \A u \in Users : CallTells(use[u])'
    BY <1>1, NoUseFacts DEF CallTells, Succeeded
  <1>3. use' \in [Users -> UseRecord]
    BY NoUseFacts DEF Reboot
  <1>4. CASE live
    BY <1>2, <1>3, <1>4 DEF Reboot, ApiInv, ApiTyped, OneHeader
  <1>5. CASE ~live
    <2>1. orders' = 0 /\ payment' = "authorized" /\ payouts' = {} /\ UNCHANGED live
      BY <1>5 DEF Reboot
    <2>2. ApiTyped'
      BY <1>3, <2>1 DEF ApiInv, ApiTyped
    <2> QED BY <1>2, <2>1, <2>2 DEF ApiInv, OneHeader
  <1> QED BY <1>4, <1>5

LEMMA ApiInvariance == ApiSpec => []ApiInv
PROOF
  <1>1. ApiInit => ApiInv
    <2> SUFFICES ASSUME ApiInit PROVE ApiInv
      OBVIOUS
    <2>1. live \in BOOLEAN
      <3>1. PICK config \in Configs : live = Selected(config)
        BY DEF ApiInit
      <3> QED BY <3>1 DEF Selected
    <2>2. CallTells(NoUse)
      BY NoUseFacts DEF CallTells, Succeeded
    <2> QED BY <2>1, <2>2, NoUseFacts DEF ApiInit, ApiInv, ApiTyped, OneHeader
  <1>2. ApiInv /\ [ApiNext]_api => ApiInv'
    <2> SUFFICES ASSUME ApiInv, [ApiNext]_api PROVE ApiInv'
      OBVIOUS
    <2>1. CASE UNCHANGED api
      BY <2>1 DEF api, ApiInv, ApiTyped, OneHeader, CallTells, Succeeded, InEffect
    <2> QED BY <2>1, BeginCallPreserves, ServePreserves, ReactPreserves, PretendPreserves,
            RebootPreserves DEF ApiNext
  <1> QED BY <1>1, <1>2, PTL DEF ApiSpec

\* A call of a port, with its attempts, their losses and other users in the way, is one
\* step for its user: in effect when it returns, without effect when it fails beyond
\* doubt; and a contract has one payout, however often it is asked for.
THEOREM CallsAreAtomic == ApiSpec => []CallIsOneStep
PROOF
  <1>1. ApiInv => CallIsOneStep
    <2> SUFFICES ASSUME ApiInv PROVE CallIsOneStep
      OBVIOUS
    <2>1. IsFiniteSet({0}) /\ Cardinality({0}) = 1
      BY FS_Singleton
    <2>2. Cardinality(payouts) <= 1
      BY <2>1, FS_Subset DEF ApiInv, OneHeader
    <2> QED BY <2>2 DEF CallIsOneStep, ApiInv, CallTells, Succeeded
  <1> QED BY <1>1, ApiInvariance, PTL
===============================================================================
