----------------------------- MODULE GatewayProofs -----------------------------
(***************************************************************************)
(* Proofs about the gateway and its workers: Idempotency, for any number   *)
(* of processes, requests and failures; Verification, for any number of    *)
(* replicas, pushes, scores, chat messages and failures and for any        *)
(* telemetry; and what AuditRun and Analysis compute, for any push, any    *)
(* repository, any suite and any conversation.                             *)
(***************************************************************************)
EXTENDS Verification, AuditRunSamples, Idempotency, Integers, WellFoundedInduction,
        FiniteSetTheorems, SequenceTheorems, TLAPS

\* Nothing has failed, and no request has given up waiting.
Quiet == (\A kind \in AllFaults : ~Failed(kind)) /\ ~late

\* The row is there before the handler runs, and one request runs it.
OneWinner ==
  /\ row = Absent => returned = {} /\ \A r \in Requests : pc[r] # "handle"
  /\ \A r \in Requests : pc[r] \notin {"release", "fallback"}
  /\ \A r \in Requests : pc[r] = "handle" => returned = {}
  /\ \A r, s \in Requests : pc[r] = "handle" /\ pc[s] = "handle" => r = s
  /\ \A x, y \in returned : x = y

\* What is remembered of a key -- in the row, in a promise, as an answer -- was
\* returned by a run of its handler.
MemoryIsReal ==
  /\ row \in {Absent, Reserved} \cup returned
  /\ \A r \in Requests : promise[r] \in {Pending, Error} \cup returned
  /\ \A r \in Requests : replies[r] \in {Absent, Error} \cup returned
  /\ \A r \in Requests : pc[r] = "persist" => <<r, runs[r]>> \in returned
  /\ \A r \in Requests : pc[r] = "wait" => waits[r] \in Requests

\* A handler runs at most twice for a request: the second time after it threw.
RunsCounted ==
  \A r \in Requests :
    /\ pc[r] \in {"unsent", "wait", "reserve", "handle", "poll"} => runs[r] = 0
    /\ pc[r] \in {"persist", "release", "fallback"} => runs[r] <= 1

\* A reservation has a request at work, and so has a promise that others wait for.
ClaimsHaveOwners ==
  /\ ~Failed("database") /\ ~Failed("crash") /\ row = Reserved =>
       \E r \in Requests : pc[r] \in {"handle", "persist", "release"}
  /\ \A r \in Requests : pc[r] = "persist" => promise[r] # Pending
  /\ \A r \in Requests, g \in Processes :
       cache[g] = r => pc[r] \notin {"unsent", "wait"} /\ (pc[r] = "done" => promise[r] # Pending)

\* Unless something fails or a request gives up waiting, a handler takes effect once:
\* the INSERT lets one request through, and nobody else runs the handler.
THEOREM EffectOnce == KeySpec => []TakesEffectOnce
PROOF
  <1> DEFINE Inv == failed \in [AllFaults -> Nat] /\ pc = [r \in Requests |-> pc[r]] /\ (Quiet => OneWinner)
  <1>1. KeyInit => Inv
    BY DEF KeyInit, Quiet, Failed, OneWinner
  <1>2. Inv /\ [KeyNext]_keyVars => Inv'
    <2> SUFFICES ASSUME Inv, [KeyNext]_keyVars PROVE Inv'
      OBVIOUS
    <2>1. ASSUME NEW kind, Fails(kind) PROVE failed' \in [AllFaults -> Nat] /\ ~Quiet'
      BY <2>1, ConstantsAssumption DEF Fails, Quiet, Failed
    <2>2. ASSUME NEW r \in Requests, RequestStep(r) PROVE Inv'
      <3> USE <2>1 DEF Quiet, Failed, OneWinner, Goto, ReplyWith, requests
      <3>1. CASE Wait(r)
        BY <3>1 DEF Wait
      <3>2. CASE Reserve(r)
        BY <3>2 DEF Reserve, Absent, Reserved
      <3>3. CASE Handle(r)
        BY <3>3 DEF Handle, Return, ThrowClaim
      <3>4. CASE Persist(r)
        <4>1. Absent # <<r, runs[r]>>
          BY ConstantsAssumption DEF Absent
        <4> QED BY <3>4, <4>1 DEF Persist
      <3>5. CASE Release(r)
        BY <3>5 DEF Release
      <3>6. CASE Fallback(r)
        BY <3>6 DEF Fallback, Return, ThrowClaim
      <3>7. CASE Poll(r)
        BY <3>7 DEF Poll, AnswerFromRow
      <3> QED BY <2>2, <3>1, <3>2, <3>3, <3>4, <3>5, <3>6, <3>7 DEF RequestStep
    <2>3. ASSUME NEW r \in Requests, NEW g \in Processes, Arrive(r, g) PROVE Inv'
      BY <2>3 DEF Arrive, Goto, Quiet, Failed, OneWinner
    <2>4. ASSUME NEW g \in Processes, Crash(g) PROVE Inv'
      BY <2>1, <2>4 DEF Crash, Quiet, Failed
    <2>5. CASE UNCHANGED keyVars \/ Expire \/ \E g \in Processes : Evict(g)
      BY <2>5 DEF keyVars, requests, Expire, Evict, Quiet, Failed, OneWinner
    <2> QED BY <2>2, <2>3, <2>4, <2>5 DEF KeyNext
  <1>3. Inv => TakesEffectOnce
    <2>1. ASSUME \A x, y \in returned : x = y PROVE Cardinality(returned) <= 1
      <3>1. CASE returned = {}
        BY <3>1, FS_EmptySet
      <3>2. ASSUME NEW x \in returned PROVE Cardinality(returned) <= 1
        <4>1. returned = {x}
          BY <2>1, <3>2
        <4>2. Cardinality(returned) = 1
          BY <4>1, FS_Singleton
        <4> QED BY <4>2
      <3> QED BY <3>1, <3>2
    <2>2. ASSUME Inv, Quiet PROVE Cardinality(returned) <= 1
      <3>1. \A x, y \in returned : x = y
        BY <2>2 DEF OneWinner
      <3> QED BY <2>1, <3>1
    <2> HIDE DEF Inv
    <2> QED BY <2>2 DEF Quiet, TakesEffectOnce
  <1> QED BY <1>1, <1>2, <1>3, PTL DEF KeySpec

\* A client is answered with a response its handler returned, or the error it threw:
\* the placeholder of a reservation is read by nobody as a response.
THEOREM AnswersWereReturned == KeySpec => [](TypeOK /\ AnswersAreReal)
PROOF
  <1> DEFINE Inv == TypeOK /\ MemoryIsReal /\ RunsCounted
  <1>1. KeyInit => Inv
    <2>1. KeyInit => expired \in BOOLEAN /\ late \in BOOLEAN
      BY DEF KeyInit
    <2> QED BY <2>1, ConstantsAssumption DEF KeyInit, TypeOK, RunsCounted, MemoryIsReal
  <1>2. Inv /\ [KeyNext]_keyVars => Inv'
    <2> SUFFICES ASSUME Inv, [KeyNext]_keyVars PROVE Inv'
      OBVIOUS
    <2> USE DEF TypeOK, RunsCounted, MemoryIsReal, Goto, ReplyWith, Resolve, requests
    <2>1. ASSUME NEW kind, Fails(kind) PROVE failed' \in [AllFaults -> 0..MaxFailures]
      BY <2>1, ConstantsAssumption DEF Fails, AllFaults
    <2>2. ASSUME NEW r \in Requests, RequestStep(r) PROVE Inv'
      <3> USE <2>1
      <3>1. CASE Wait(r)
        <4>0. late' \in BOOLEAN
          BY <3>1 DEF Wait
        <4>1. TypeOK' /\ RunsCounted'
          BY <3>1, <4>0 DEF Wait
        <4>2. MemoryIsReal'
          BY <3>1 DEF Wait
        <4> QED BY <4>1, <4>2
      <3>2. CASE Reserve(r)
        BY <3>2 DEF Reserve
      <3>3. CASE Handle(r)
        BY <3>3 DEF Handle, Return, ThrowClaim, Run, Runs
      <3>4. CASE Persist(r)
        BY <3>4 DEF Persist
      <3>5. CASE Release(r)
        BY <3>5 DEF Release
      <3>6. CASE Fallback(r)
        BY <3>6, SMTT(30) DEF Fallback, Return, ThrowClaim, Run, Runs
      <3>7. CASE Poll(r)
        <4>1. Absent \notin Runs /\ Reserved \notin Runs
          BY ConstantsAssumption DEF Absent, Reserved, Runs
        <4>0. late' \in BOOLEAN
          BY <3>7 DEF Poll
        <4>2. TypeOK'
          BY <3>7, <4>0 DEF Poll, AnswerFromRow
        <4>3. MemoryIsReal' /\ RunsCounted'
          BY <3>7, <4>1 DEF Poll, AnswerFromRow
        <4> QED BY <4>2, <4>3
      <3> QED BY <2>2, <3>1, <3>2, <3>3, <3>4, <3>5, <3>6, <3>7 DEF RequestStep
    <2>3. ASSUME NEW r \in Requests, NEW g \in Processes, Arrive(r, g) PROVE Inv'
      BY <2>3 DEF Arrive
    <2>4. ASSUME NEW g \in Processes, Crash(g) PROVE Inv'
      BY <2>1, <2>4 DEF Crash
    <2>5. CASE UNCHANGED keyVars \/ Expire \/ \E g \in Processes : Evict(g)
      BY <2>5 DEF keyVars, Expire, Evict
    <2> QED BY <2>2, <2>3, <2>4, <2>5 DEF KeyNext
  <1>3. Inv => TypeOK /\ AnswersAreReal
    BY DEF MemoryIsReal, AnswersAreReal
  <1> QED BY <1>1, <1>2, <1>3, PTL DEF KeySpec

\* When no request is in progress, a handler that threw has left no reservation and no
\* promise behind, unless the database failed or a process died.
THEOREM ClaimsAreReleased == KeySpec => []ClaimsReleased
PROOF
  <1>1. KeyInit => ClaimsHaveOwners
    BY ConstantsAssumption DEF KeyInit, ClaimsHaveOwners, Absent, Reserved
  <1>2. TypeOK /\ ClaimsHaveOwners /\ [KeyNext]_keyVars => ClaimsHaveOwners'
    <2> SUFFICES ASSUME TypeOK, ClaimsHaveOwners, [KeyNext]_keyVars PROVE ClaimsHaveOwners'
      OBVIOUS
    <2> USE DEF TypeOK, ClaimsHaveOwners, Failed, Goto, ReplyWith, Resolve, requests
    <2>1. ASSUME NEW kind, Fails(kind)
          PROVE  /\ \A k \in AllFaults : failed[k] > 0 => failed'[k] > 0
                 /\ kind \in AllFaults /\ failed'[kind] > 0
      BY <2>1, ConstantsAssumption DEF Fails, AllFaults
    <2>2. \A r \in Requests : <<r, runs[r]>> \notin {Absent, Reserved, Pending} /\ <<r, runs[r] + 1>> # Pending
      BY ConstantsAssumption DEF Absent, Reserved, Pending
    <2>3. Error # Pending /\ Reserved # Absent /\ Pending \notin Runs /\ Reserved \notin Runs
      BY ConstantsAssumption DEF Error, Pending, Reserved, Absent, Runs
    <2>4. Null \notin Requests
      BY ConstantsAssumption
    <2>5. ASSUME NEW r \in Requests, RequestStep(r) PROVE ClaimsHaveOwners'
      <3> USE <2>1, <2>2, <2>3, <2>4
      <3>1. CASE Wait(r)
        BY <3>1 DEF Wait
      <3>2. CASE Reserve(r)
        BY <3>2 DEF Reserve, AllFaults
      <3>3. CASE Handle(r)
        BY <3>3 DEF Handle, Return, ThrowClaim, AllFaults
      <3>4. CASE Persist(r)
        BY <3>4 DEF Persist, AllFaults
      <3>5. CASE Release(r)
        BY <3>5 DEF Release, AllFaults
      <3>6. CASE Fallback(r)
        BY <3>6 DEF Fallback, Return, ThrowClaim, AllFaults
      <3>7. CASE Poll(r)
        BY <3>7 DEF Poll, AnswerFromRow, AllFaults
      <3> QED BY <2>5, <3>1, <3>2, <3>3, <3>4, <3>5, <3>6, <3>7 DEF RequestStep
    <2>6. ASSUME NEW r \in Requests, NEW g \in Processes, Arrive(r, g) PROVE ClaimsHaveOwners'
      BY <2>6 DEF Arrive
    <2>7. ASSUME NEW g \in Processes, Crash(g) PROVE ClaimsHaveOwners'
      BY <2>1, <2>7, <2>4 DEF Crash, AllFaults
    <2>8. CASE UNCHANGED keyVars \/ Expire \/ \E g \in Processes : Evict(g)
      BY <2>8, <2>4 DEF keyVars, Expire, Evict
    <2> QED BY <2>5, <2>6, <2>7, <2>8 DEF KeyNext
  <1>3. TypeOK /\ ClaimsHaveOwners => ClaimsReleased
    BY DEF TypeOK, ClaimsHaveOwners, ClaimsReleased
  <1> QED BY <1>1, <1>2, <1>3, AnswersWereReturned, PTL DEF KeySpec
-------------------------------------------------------------------------------
\* The trust score, for any telemetry and any scope checks.

\* What TelemetryData demands of a request, from a run of which no more tests passed
\* than there were; and a count of the scope checks.
Counted(t) ==
  /\ t.maint \in 0..100 /\ {t.passed, t.total, t.vulns, t.crit, t.high} \subseteq Nat
  /\ t.total > 0 /\ t.passed <= t.total
Checks(s) == s.allowed \in Nat /\ s.total \in Nat /\ s.allowed <= s.total

\* Division of natural numbers, by its defining bounds.
LEMMA DivBounds ==
  ASSUME NEW a \in Nat, NEW e \in Nat, e > 0
  PROVE  a \div e \in Nat /\ (a \div e) * e <= a /\ a < (a \div e + 1) * e
PROOF
  <1>1. a \div e \in Nat /\ (a \div e) * e <= a /\ a < (a \div e) * e + e
    OBVIOUS
  <1>2. \A q \in Nat : (q + 1) * e = q * e + e
    OBVIOUS
  <1> QED BY <1>1, <1>2

LEMMA Smaller ==
  ASSUME NEW p \in Int, NEW q \in Int, NEW e \in Nat, e > 0
  PROVE  p * e < q * e <=> p < q
PROOF OBVIOUS

LEMMA DivIs ==
  ASSUME NEW a \in Nat, NEW e \in Nat, e > 0, NEW q \in Nat
  PROVE  /\ q * e <= a => q <= a \div e
         /\ a < (q + 1) * e => a \div e <= q
PROOF
  <1> DEFINE r == a \div e
  <1>1. r \in Nat /\ r * e <= a /\ a < (r + 1) * e
    BY DivBounds
  <1>2. r * e \in Int /\ (r + 1) * e \in Int /\ q * e \in Int /\ (q + 1) * e \in Int
    BY <1>1
  <1> HIDE DEF r
  <1>3. ASSUME q * e <= a PROVE q <= r
    <2>1. q * e < (r + 1) * e
      BY <1>1, <1>2, <1>3
    <2> QED BY <1>1, <2>1, Smaller
  <1>4. ASSUME a < (q + 1) * e PROVE r <= q
    <2>1. r * e < (q + 1) * e
      BY <1>1, <1>2, <1>4
    <2> QED BY <1>1, <2>1, Smaller
  <1> QED BY <1>3, <1>4 DEF r

LEMMA DivGrows ==
  ASSUME NEW a \in Nat, NEW b \in Nat, a <= b, NEW e \in Nat, e > 0
  PROVE  a \div e <= b \div e
PROOF
  <1> DEFINE q == a \div e
  <1>1. q \in Nat /\ q * e <= a
    BY DivBounds
  <1>2. q * e \in Int
    BY <1>1
  <1> HIDE DEF q
  <1>3. q * e <= b
    BY <1>1, <1>2
  <1> QED BY <1>1, <1>3, DivIs DEF q

LEMMA DivCancels ==
  ASSUME NEW a \in Nat, NEW e \in Nat, e > 0, NEW b \in Nat, b > 0
  PROVE  (a * b) \div (e * b) = a \div e
PROOF
  <1> DEFINE q == a \div e   f == e * b   c == a * b
  <1>1. q \in Nat /\ q * e <= a /\ a < (q + 1) * e
    BY DivBounds
  <1>2. f \in Nat /\ f > 0 /\ c \in Nat
    OBVIOUS
  <1>3. \A x \in Nat : x * f = (x * e) * b
    OBVIOUS
  <1> DEFINE x == q * e   y == (q + 1) * e
  <1>4. x \in Nat /\ y \in Nat
    BY <1>1
  <1>5. x * b <= a * b /\ a * b < y * b
    <2> HIDE DEF q, x, y
    <2>1. ~(a * b < x * b)
      BY <1>1, <1>4, Smaller DEF x
    <2>2. a * b < y * b
      BY <1>1, <1>4, Smaller DEF y
    <2> QED BY <1>4, <2>1, <2>2
  <1>6. q * f <= c /\ c < (q + 1) * f
    BY <1>1, <1>3, <1>5
  <1> HIDE DEF f, c, q
  <1>7. c \div f \in Nat /\ q <= c \div f /\ c \div f <= q
    BY <1>1, <1>2, <1>6, DivIs, DivBounds
  <1> QED BY <1>1, <1>7 DEF q, c, f

LEMMA RoundedIsNat ==
  ASSUME NEW n \in Nat, NEW d \in Nat, d > 0
  PROVE  Rounded(n, d) \in Nat
PROOF
  <1>1. 2 * n + d \in Nat /\ 2 * d \in Nat /\ 2 * d > 0
    OBVIOUS
  <1> QED BY <1>1, DivBounds DEF Rounded

LEMMA RoundedGrows ==
  ASSUME NEW n \in Nat, NEW m \in Nat, NEW d \in Nat, d > 0, n <= m
  PROVE  Rounded(n, d) <= Rounded(m, d)
PROOF
  <1>1. /\ 2 * n + d \in Nat /\ 2 * m + d \in Nat /\ 2 * n + d <= 2 * m + d
        /\ 2 * d \in Nat /\ 2 * d > 0
    OBVIOUS
  <1> QED BY <1>1, DivGrows DEF Rounded

LEMMA RoundedCancels ==
  ASSUME NEW w \in Nat, NEW v \in Nat, v > 0, NEW b \in Nat, b > 0
  PROVE  Rounded(w * b, v * b) = Rounded(w, v)
PROOF
  <1>1. 2 * w + v \in Nat /\ 2 * v \in Nat /\ 2 * v > 0
    OBVIOUS
  <1>2. 2 * (w * b) + v * b = (2 * w + v) * b /\ 2 * (v * b) = (2 * v) * b
    OBVIOUS
  <1> QED BY <1>1, <1>2, DivCancels DEF Rounded

\* A share a of b, in units of which the whole has w.
LEMMA ShareBounds ==
  ASSUME NEW w \in Nat, NEW v \in Nat, v > 0, NEW a \in Nat, NEW b \in Nat, b > 0, a <= b
  PROVE  Rounded(w * a, v * b) \in 0..Rounded(w, v)
PROOF
  <1>1. v * b \in Nat /\ v * b > 0 /\ w * a \in Nat /\ w * b \in Nat /\ w * a <= w * b
    OBVIOUS
  <1>2. Rounded(w * a, v * b) \in Nat /\ Rounded(w * b, v * b) \in Nat
    BY <1>1, RoundedIsNat
  <1>3. Rounded(w * a, v * b) <= Rounded(w * b, v * b)
    BY <1>1, RoundedGrows
  <1> QED BY <1>2, <1>3, RoundedCancels

-------------------------------------------------------------------------------
\* The terms of a score, over the sum of the weights that count.
Security(t) == SecurityScore(t.vulns, t.crit, t.high)
Whole(s)    == IF s.total > 0 THEN 100 ELSE 85

OfTests(t, v)    == Rounded(40 * 100 * 100 * t.passed, v * t.total)
OfMaint(t, v)    == Rounded(25 * 100 * t.maint, v)
OfSecurity(t, v) == Rounded(20 * 100 * Security(t), v)
OfScope(s)       == IF s.total > 0 THEN Rounded(15 * 100 * s.allowed, s.total) ELSE 0

LEMMA ScoreIsSum ==
  ASSUME NEW t, NEW s
  PROVE  TrustScore(t, s) = OfTests(t, Whole(s)) + OfMaint(t, Whole(s))
                              + OfSecurity(t, Whole(s)) + OfScope(s)
PROOF BY DEF TrustScore, Terms, Whole, Security, OfTests, OfMaint, OfSecurity, OfScope

LEMMA SecurityBounds == ASSUME NEW t, Counted(t) PROVE Security(t) \in 0..100
PROOF
  <1> DEFINE x == 100 - 40 * t.crit - 20 * t.high - 5 * t.vulns
  <1>1. x \in Int /\ x <= 100
    BY DEF Counted
  <1>2. Security(t) = IF x > 0 THEN x ELSE 0
    BY DEF Security, SecurityScore
  <1> QED BY <1>1, <1>2

\* A measure of at most 100 under weight w.
LEMMA MeasureBounds ==
  ASSUME NEW w \in Nat, NEW v \in Nat, v > 0, NEW n \in 0..100
  PROVE  Rounded(w * n, v) \in 0..Rounded(w * 100, v)
PROOF
  <1>1. w * n \in Nat /\ w * 100 \in Nat /\ w * n <= w * 100
    OBVIOUS
  <1> QED BY <1>1, RoundedIsNat, RoundedGrows

LEMMA TermBounds ==
  ASSUME NEW t, Counted(t), NEW s, Checks(s), NEW v \in {85, 100}
  PROVE  /\ OfTests(t, v) \in 0..Rounded(40 * 100 * 100, v)
         /\ OfMaint(t, v) \in 0..Rounded(25 * 100 * 100, v)
         /\ OfSecurity(t, v) \in 0..Rounded(20 * 100 * 100, v)
         /\ s.total > 0 => OfScope(s) \in 0..(15 * 100)
         /\ ~(s.total > 0) => OfScope(s) = 0
PROOF
  <1>0. v \in Nat /\ v > 0
    OBVIOUS
  <1>1. OfTests(t, v) \in 0..Rounded(40 * 100 * 100, v)
    <2> DEFINE w == 40 * 100 * 100   a == t.passed   b == t.total
    <2>1. w \in Nat /\ a \in Nat /\ b \in Nat /\ b > 0 /\ a <= b
      BY DEF Counted
    <2> HIDE DEF w, a, b
    <2>2. Rounded(w * a, v * b) \in 0..Rounded(w, v)
      BY <1>0, <2>1, ShareBounds
    <2> QED BY <2>2 DEF OfTests, w, a, b
  <1>2. OfMaint(t, v) \in 0..Rounded(25 * 100 * 100, v)
    <2> DEFINE w == 25 * 100   n == t.maint
    <2>1. w \in Nat /\ n \in 0..100
      BY DEF Counted
    <2> HIDE DEF w, n
    <2>2. Rounded(w * n, v) \in 0..Rounded(w * 100, v)
      BY <1>0, <2>1, MeasureBounds
    <2> QED BY <2>2 DEF OfMaint, w, n
  <1>3. OfSecurity(t, v) \in 0..Rounded(20 * 100 * 100, v)
    <2> DEFINE w == 20 * 100   n == Security(t)
    <2>1. w \in Nat /\ n \in 0..100
      BY SecurityBounds
    <2> HIDE DEF w, n
    <2>2. Rounded(w * n, v) \in 0..Rounded(w * 100, v)
      BY <1>0, <2>1, MeasureBounds
    <2> QED BY <2>2 DEF OfSecurity, w, n
  <1>4. ASSUME s.total > 0 PROVE OfScope(s) \in 0..(15 * 100)
    <2> DEFINE w == 15 * 100   a == s.allowed   b == s.total   u == 1
    <2>1. w \in Nat /\ a \in Nat /\ b \in Nat /\ b > 0 /\ a <= b /\ u \in Nat /\ u > 0
      BY <1>4 DEF Checks
    <2>2. Rounded(w, u) = w /\ u * b = b
      BY <2>1 DEF Rounded
    <2> HIDE DEF w, a, b, u
    <2>3. Rounded(w * a, u * b) \in 0..Rounded(w, u)
      BY <2>1, ShareBounds
    <2> QED BY <1>4, <2>2, <2>3 DEF OfScope, w, a, b
  <1>5. ASSUME ~(s.total > 0) PROVE OfScope(s) = 0
    BY <1>5 DEF OfScope
  <1> QED BY <1>1, <1>2, <1>3, <1>4, <1>5

LEMMA Weights ==
  /\ Rounded(40 * 100 * 100, 100) = 40 * 100 /\ Rounded(40 * 100 * 100, 85) = 47 * 100 + 6
  /\ Rounded(25 * 100 * 100, 100) = 25 * 100 /\ Rounded(25 * 100 * 100, 85) = 29 * 100 + 41
  /\ Rounded(20 * 100 * 100, 100) = 20 * 100 /\ Rounded(20 * 100 * 100, 85) = 23 * 100 + 53
PROOF BY DEF Rounded

\* The largest of each term, with scope checks on record and without.
LEMMA TermMaxima ==
  ASSUME NEW t, Counted(t), NEW s, Checks(s)
  PROVE  /\ s.total > 0 => /\ Whole(s) = 100
                           /\ OfTests(t, 100) \in 0..(40 * 100) /\ OfMaint(t, 100) \in 0..(25 * 100)
                           /\ OfSecurity(t, 100) \in 0..(20 * 100) /\ OfScope(s) \in 0..(15 * 100)
         /\ ~(s.total > 0) => /\ Whole(s) = 85
                              /\ OfTests(t, 85) \in 0..(47 * 100 + 6) /\ OfMaint(t, 85) \in 0..(29 * 100 + 41)
                              /\ OfSecurity(t, 85) \in 0..(23 * 100 + 53) /\ OfScope(s) = 0
PROOF
  <1>1. ASSUME s.total > 0
        PROVE  /\ Whole(s) = 100
               /\ OfTests(t, 100) \in 0..(40 * 100) /\ OfMaint(t, 100) \in 0..(25 * 100)
               /\ OfSecurity(t, 100) \in 0..(20 * 100) /\ OfScope(s) \in 0..(15 * 100)
    <2>1. 100 \in {85, 100} /\ Whole(s) = 100 /\ 15 * 100 = 15 * 100
      BY <1>1 DEF Whole
    <2>2. /\ OfTests(t, 100) \in 0..Rounded(40 * 100 * 100, 100)
          /\ OfMaint(t, 100) \in 0..Rounded(25 * 100 * 100, 100)
          /\ OfSecurity(t, 100) \in 0..Rounded(20 * 100 * 100, 100)
          /\ OfScope(s) \in 0..(15 * 100)
      BY <1>1, <2>1, TermBounds, SMTT(30)
    <2> DEFINE r1 == Rounded(40 * 100 * 100, 100)   m1 == 40 * 100
               r2 == Rounded(25 * 100 * 100, 100)   m2 == 25 * 100
               r3 == Rounded(20 * 100 * 100, 100)   m3 == 20 * 100
               o1 == OfTests(t, 100)   o2 == OfMaint(t, 100)   o3 == OfSecurity(t, 100)
    <2>3. r1 = m1 /\ r2 = m2 /\ r3 = m3
      BY Weights
    <2>4. o1 \in 0..r1 /\ o2 \in 0..r2 /\ o3 \in 0..r3
      BY <2>2
    <2> HIDE DEF r1, r2, r3, m1, m2, m3, o1, o2, o3
    <2>5. o1 \in 0..m1 /\ o2 \in 0..m2 /\ o3 \in 0..m3
      BY <2>3, <2>4
    <2> QED BY <2>1, <2>2, <2>5 DEF m1, m2, m3, o1, o2, o3
  <1>2. ASSUME ~(s.total > 0)
        PROVE  /\ Whole(s) = 85
               /\ OfTests(t, 85) \in 0..(47 * 100 + 6) /\ OfMaint(t, 85) \in 0..(29 * 100 + 41)
               /\ OfSecurity(t, 85) \in 0..(23 * 100 + 53) /\ OfScope(s) = 0
    <2>1. 85 \in {85, 100} /\ Whole(s) = 85
      BY <1>2 DEF Whole
    <2>2. /\ OfTests(t, 85) \in 0..Rounded(40 * 100 * 100, 85)
          /\ OfMaint(t, 85) \in 0..Rounded(25 * 100 * 100, 85)
          /\ OfSecurity(t, 85) \in 0..Rounded(20 * 100 * 100, 85)
          /\ OfScope(s) = 0
      BY <1>2, <2>1, TermBounds
    <2> DEFINE r1 == Rounded(40 * 100 * 100, 85)   m1 == 47 * 100 + 6
               r2 == Rounded(25 * 100 * 100, 85)   m2 == 29 * 100 + 41
               r3 == Rounded(20 * 100 * 100, 85)   m3 == 23 * 100 + 53
               o1 == OfTests(t, 85)   o2 == OfMaint(t, 85)   o3 == OfSecurity(t, 85)
    <2>3. r1 = m1 /\ r2 = m2 /\ r3 = m3
      BY Weights
    <2>4. o1 \in 0..r1 /\ o2 \in 0..r2 /\ o3 \in 0..r3
      BY <2>2
    <2> HIDE DEF r1, r2, r3, m1, m2, m3, o1, o2, o3
    <2>5. o1 \in 0..m1 /\ o2 \in 0..m2 /\ o3 \in 0..m3
      BY <2>3, <2>4
    <2> QED BY <2>1, <2>2, <2>5 DEF m1, m2, m3, o1, o2, o3
  <1> QED BY <1>1, <1>2

\* What is in a range from zero is a natural number up to its end.
LEMMA UpTo == ASSUME NEW m \in Nat, NEW e \in 0..m PROVE e \in Nat /\ e <= m
PROOF OBVIOUS

\* The largest terms add up to no more than the largest score, in hundredths.
LEMMA MaximaAdd ==
  /\ 40 * 100 + 25 * 100 + 20 * 100 + 15 * 100 <= 100 * 100
  /\ (47 * 100 + 6) + (29 * 100 + 41) + (23 * 100 + 53) <= 100 * 100
  /\ {40 * 100, 25 * 100, 20 * 100, 15 * 100, 47 * 100 + 6, 29 * 100 + 41, 23 * 100 + 53, 100 * 100} \subseteq Nat
PROOF OBVIOUS

\* A sum of four terms is within the sum of their maxima.
LEMMA SumUpTo ==
  ASSUME NEW e1 \in Nat, NEW e2 \in Nat, NEW e3 \in Nat, NEW e4 \in Nat,
         NEW m1 \in Nat, NEW m2 \in Nat, NEW m3 \in Nat, NEW m4 \in Nat, NEW m \in Nat,
         e1 <= m1, e2 <= m2, e3 <= m3, e4 <= m4, m1 + m2 + m3 + m4 <= m
  PROVE  e1 + e2 + e3 + e4 \in 0..m
PROOF OBVIOUS

\* The same, as what the caller sees: a score is the sum of four terms.
LEMMA Parts ==
  ASSUME NEW t, Counted(t), NEW s, Checks(s)
  PROVE  \E e1, e2, e3, e4 \in Nat :
           /\ TrustScore(t, s) = e1 + e2 + e3 + e4
           /\ e1 = OfTests(t, Whole(s)) /\ e2 = OfMaint(t, Whole(s))
           /\ e3 = OfSecurity(t, Whole(s)) /\ e4 = OfScope(s)
           /\ \/ /\ s.total > 0 /\ Whole(s) = 100
                 /\ e1 <= 40 * 100 /\ e2 <= 25 * 100 /\ e3 <= 20 * 100 /\ e4 <= 15 * 100
              \/ /\ ~(s.total > 0) /\ Whole(s) = 85
                 /\ e1 <= 47 * 100 + 6 /\ e2 <= 29 * 100 + 41 /\ e3 <= 23 * 100 + 53 /\ e4 = 0
PROOF
  <1> DEFINE e1 == OfTests(t, Whole(s))   e2 == OfMaint(t, Whole(s))
             e3 == OfSecurity(t, Whole(s))   e4 == OfScope(s)
  <1>1. TrustScore(t, s) = e1 + e2 + e3 + e4
    BY ScoreIsSum
  <1>2. /\ e1 \in Nat /\ e2 \in Nat /\ e3 \in Nat /\ e4 \in Nat
        /\ \/ /\ s.total > 0 /\ Whole(s) = 100
              /\ e1 <= 40 * 100 /\ e2 <= 25 * 100 /\ e3 <= 20 * 100 /\ e4 <= 15 * 100
           \/ /\ ~(s.total > 0) /\ Whole(s) = 85
              /\ e1 <= 47 * 100 + 6 /\ e2 <= 29 * 100 + 41 /\ e3 <= 23 * 100 + 53 /\ e4 = 0
    <2>1. CASE s.total > 0
      <3>1. /\ Whole(s) = 100
            /\ OfTests(t, 100) \in 0..(40 * 100) /\ OfMaint(t, 100) \in 0..(25 * 100)
            /\ OfSecurity(t, 100) \in 0..(20 * 100) /\ OfScope(s) \in 0..(15 * 100)
        BY <2>1, TermMaxima
      <3>2. /\ e1 \in 0..(40 * 100) /\ e2 \in 0..(25 * 100) /\ e3 \in 0..(20 * 100) /\ e4 \in 0..(15 * 100)
        BY <3>1
      <3> HIDE DEF e1, e2, e3, e4
      <3>3. /\ e1 \in Nat /\ e1 <= 40 * 100 /\ e2 \in Nat /\ e2 <= 25 * 100
            /\ e3 \in Nat /\ e3 <= 20 * 100 /\ e4 \in Nat /\ e4 <= 15 * 100
        <4>1. 40 * 100 \in Nat /\ 25 * 100 \in Nat /\ 20 * 100 \in Nat /\ 15 * 100 \in Nat
          OBVIOUS
        <4> QED BY <3>2, <4>1, UpTo, Zenon
      <3> QED BY <2>1, <3>1, <3>3, Zenon
    <2>2. CASE ~(s.total > 0)
      <3>1. /\ Whole(s) = 85
            /\ OfTests(t, 85) \in 0..(47 * 100 + 6) /\ OfMaint(t, 85) \in 0..(29 * 100 + 41)
            /\ OfSecurity(t, 85) \in 0..(23 * 100 + 53) /\ OfScope(s) = 0
        BY <2>2, TermMaxima
      <3>2. /\ e1 \in 0..(47 * 100 + 6) /\ e2 \in 0..(29 * 100 + 41) /\ e3 \in 0..(23 * 100 + 53) /\ e4 = 0
        BY <3>1, Zenon
      <3> HIDE DEF e1, e2, e3, e4
      <3>3. /\ e1 \in Nat /\ e1 <= 47 * 100 + 6 /\ e2 \in Nat /\ e2 <= 29 * 100 + 41
            /\ e3 \in Nat /\ e3 <= 23 * 100 + 53
        <4>1. 47 * 100 + 6 \in Nat /\ 29 * 100 + 41 \in Nat /\ 23 * 100 + 53 \in Nat
          OBVIOUS
        <4> QED BY <3>2, <4>1, UpTo, Zenon
      <3>4. e4 \in Nat
        <4>1. 0 \in Nat
          OBVIOUS
        <4> QED BY <3>2, <4>1, Zenon
      <3> QED BY <2>2, <3>1, <3>2, <3>3, <3>4, Zenon
    <2> QED BY <2>1, <2>2
  <1> HIDE DEF e1, e2, e3, e4
  <1> QED BY <1>1, <1>2 DEF e1, e2, e3, e4

\* The trust score of telemetry whose counts add up is between 0 and 100: the rounding of
\* the four terms never adds up to more (_build_terms, xai.py). That no more tests passed
\* than there were is assumed: _validate_telemetry does not look at it (xai.py:139-164).
THEOREM ScoreInRange ==
  ASSUME NEW t, Counted(t), NEW s, Checks(s)
  PROVE  TrustScore(t, s) \in 0..(100 * 100)
PROOF
  <1>1. PICK e1, e2, e3, e4 \in Nat :
          /\ TrustScore(t, s) = e1 + e2 + e3 + e4
          /\ \/ e1 <= 40 * 100 /\ e2 <= 25 * 100 /\ e3 <= 20 * 100 /\ e4 <= 15 * 100
             \/ e1 <= 47 * 100 + 6 /\ e2 <= 29 * 100 + 41 /\ e3 <= 23 * 100 + 53 /\ e4 = 0
    BY Parts
  <1> DEFINE m == 100 * 100
             a1 == 40 * 100       a2 == 25 * 100        a3 == 20 * 100   a4 == 15 * 100
             b1 == 47 * 100 + 6   b2 == 29 * 100 + 41   b3 == 23 * 100 + 53
  <1>2. /\ m \in Nat /\ a1 \in Nat /\ a2 \in Nat /\ a3 \in Nat /\ a4 \in Nat
        /\ b1 \in Nat /\ b2 \in Nat /\ b3 \in Nat
        /\ a1 + a2 + a3 + a4 <= m /\ b1 + b2 + b3 <= m
    BY MaximaAdd
  <1>3. \/ e1 <= a1 /\ e2 <= a2 /\ e3 <= a3 /\ e4 <= a4
        \/ e1 <= b1 /\ e2 <= b2 /\ e3 <= b3 /\ e4 = 0
    BY <1>1, Zenon
  <1> HIDE DEF m, a1, a2, a3, a4, b1, b2, b3
  <1>4. e1 + e2 + e3 + e4 \in 0..m
    <2>1. CASE e1 <= a1 /\ e2 <= a2 /\ e3 <= a3 /\ e4 <= a4
      BY <1>2, <2>1, SumUpTo
    <2>2. CASE e1 <= b1 /\ e2 <= b2 /\ e3 <= b3 /\ e4 = 0
      <3>1. 0 \in Nat /\ e4 <= 0 /\ b1 + b2 + b3 + 0 <= m
        BY <1>2, <2>2
      <3> QED BY <1>2, <2>2, <3>1, SumUpTo
    <2> QED BY <1>3, <2>1, <2>2
  <1> QED BY <1>1, <1>4, Zenon DEF m

\* At no measure does a worse run score better.
LEMMA MeasureGrows ==
  ASSUME NEW w \in Nat, NEW v \in Nat, v > 0, NEW m \in Nat, NEW n \in Nat, m <= n
  PROVE  /\ Rounded(w * m, v) \in Nat /\ Rounded(w * n, v) \in Nat
         /\ Rounded(w * m, v) <= Rounded(w * n, v)
PROOF
  <1>1. w * m \in Nat /\ w * n \in Nat /\ w * m <= w * n
    OBVIOUS
  <1> QED BY <1>1, RoundedIsNat, RoundedGrows

\* Of two runs of the same size, the one that is no better anywhere never scores more
\* (_build_terms, xai.py).
THEOREM ScoreGrows ==
  ASSUME NEW t, Counted(t), NEW u, Counted(u), NEW s, Checks(s),
         u.total = t.total, u.passed <= t.passed, u.maint <= t.maint,
         u.vulns >= t.vulns, u.crit >= t.crit, u.high >= t.high
  PROVE  TrustScore(u, s) <= TrustScore(t, s)
PROOF
  <1> DEFINE v == Whole(s)
  <1>0. v \in Nat /\ v > 0
    BY DEF Whole
  <1>1. OfTests(u, v) \in Nat /\ OfTests(t, v) \in Nat /\ OfTests(u, v) <= OfTests(t, v)
    <2> DEFINE w == 40 * 100 * 100   m == u.passed   n == t.passed   d == v * t.total
    <2>1. w \in Nat /\ m \in Nat /\ n \in Nat /\ m <= n
      BY DEF Counted
    <2>2. d \in Nat /\ d > 0
      <3> DEFINE b == t.total
      <3>1. b \in Nat /\ b > 0
        BY DEF Counted
      <3>2. v * b \in Nat /\ v * b > 0
        <4> HIDE DEF v, b
        <4> QED BY <1>0, <3>1
      <3> QED BY <3>2
    <2>3. OfTests(u, v) = Rounded(w * m, d) /\ OfTests(t, v) = Rounded(w * n, d)
      BY DEF OfTests
    <2> HIDE DEF w, m, n, d, v
    <2>4. /\ Rounded(w * m, d) \in Nat /\ Rounded(w * n, d) \in Nat
          /\ Rounded(w * m, d) <= Rounded(w * n, d)
      BY <2>1, <2>2, MeasureGrows
    <2> QED BY <2>3, <2>4
  <1>2. OfMaint(u, v) \in Nat /\ OfMaint(t, v) \in Nat /\ OfMaint(u, v) <= OfMaint(t, v)
    <2> DEFINE w == 25 * 100   m == u.maint   n == t.maint
    <2>1. w \in Nat /\ m \in Nat /\ n \in Nat /\ m <= n
      BY DEF Counted
    <2> HIDE DEF w, m, n, v
    <2> QED BY <1>0, <2>1, MeasureGrows DEF OfMaint, w, m, n
  <1>3. OfSecurity(u, v) \in Nat /\ OfSecurity(t, v) \in Nat /\ OfSecurity(u, v) <= OfSecurity(t, v)
    <2> DEFINE w == 20 * 100   m == Security(u)   n == Security(t)
    <2>1. w \in Nat /\ m \in Nat /\ n \in Nat /\ m <= n
      <3> DEFINE x(r) == 100 - 40 * r.crit - 20 * r.high - 5 * r.vulns
      <3>1. x(u) \in Int /\ x(t) \in Int /\ x(u) <= x(t)
        BY DEF Counted
      <3>2. m = (IF x(u) > 0 THEN x(u) ELSE 0) /\ n = (IF x(t) > 0 THEN x(t) ELSE 0)
        BY DEF Security, SecurityScore
      <3> HIDE DEF x, m, n
      <3> QED BY <3>1, <3>2
    <2> HIDE DEF w, m, n, v
    <2> QED BY <1>0, <2>1, MeasureGrows DEF OfSecurity, w, m, n
  <1>4. OfScope(s) \in Nat
    BY Parts
  <1> DEFINE a1 == OfTests(u, v)   a2 == OfMaint(u, v)   a3 == OfSecurity(u, v)
             b1 == OfTests(t, v)   b2 == OfMaint(t, v)   b3 == OfSecurity(t, v)
             e == OfScope(s)
  <1>5. TrustScore(u, s) = a1 + a2 + a3 + e /\ TrustScore(t, s) = b1 + b2 + b3 + e
    BY ScoreIsSum
  <1> HIDE DEF a1, a2, a3, b1, b2, b3, e
  <1>6. /\ a1 \in Nat /\ b1 \in Nat /\ a1 <= b1 /\ a2 \in Nat /\ b2 \in Nat /\ a2 <= b2
        /\ a3 \in Nat /\ b3 \in Nat /\ a3 <= b3 /\ e \in Nat
    BY <1>1, <1>2, <1>3, <1>4 DEF a1, a2, a3, b1, b2, b3, e
  <1> QED BY <1>5, <1>6

\* What a term of at least k, out of its weight, takes.
LEMMA TermNeeds ==
  ASSUME NEW n \in Nat, NEW d \in Nat, d > 0, NEW k \in Nat, k <= Rounded(n, d)
  PROVE  (2 * k) * d <= 2 * n + d
PROOF
  <1> DEFINE a == 2 * n + d   e == 2 * d   q == a \div e
  <1>1. a \in Nat /\ e \in Nat /\ e > 0
    OBVIOUS
  <1>2. q \in Nat /\ q * e <= a
    <2> HIDE DEF a, e
    <2> QED BY <1>1, DivBounds
  <1>3. k <= q
    BY DEF Rounded
  <1>4. (2 * k) * d = k * e
    OBVIOUS
  <1>5. k * e <= q * e
    <2> HIDE DEF a, e, q
    <2> QED BY <1>1, <1>2, <1>3
  <1>6. k * e \in Int /\ q * e \in Int
    BY <1>1, <1>2
  <1> QED BY <1>2, <1>4, <1>5, <1>6

\* No term makes up for another: a score of 85 takes 62 % of the tests, a maintainability
\* of 40 and a security score of 25, with and without scope checks (_build_terms, xai.py).
THEOREM ThresholdIsDemanding ==
  ASSUME NEW t, Counted(t), NEW s, Checks(s), TrustScore(t, s) >= 85 * 100
  PROVE  100 * t.passed >= 62 * t.total /\ t.maint >= 40 /\ Security(t) >= 25
PROOF
  <1>1. PICK e1, e2, e3, e4 \in Nat :
          /\ TrustScore(t, s) = e1 + e2 + e3 + e4
          /\ e1 = OfTests(t, Whole(s)) /\ e2 = OfMaint(t, Whole(s))
          /\ e3 = OfSecurity(t, Whole(s)) /\ e4 = OfScope(s)
          /\ \/ /\ s.total > 0 /\ Whole(s) = 100
                /\ e1 <= 40 * 100 /\ e2 <= 25 * 100 /\ e3 <= 20 * 100 /\ e4 <= 15 * 100
             \/ /\ ~(s.total > 0) /\ Whole(s) = 85
                /\ e1 <= 47 * 100 + 6 /\ e2 <= 29 * 100 + 41 /\ e3 <= 23 * 100 + 53 /\ e4 = 0
    BY Parts
  <1> DEFINE v == Whole(s)   p == t.passed   b == t.total   m == t.maint   c == Security(t)
  <1>2. \/ v = 100 /\ 25 * 100 <= e1 /\ 10 * 100 <= e2 /\ 5 * 100 <= e3
        \/ v = 85 /\ 32 * 100 <= e1 /\ 14 * 100 <= e2 /\ 8 * 100 <= e3
    BY <1>1
  <1>3. v \in Nat /\ v > 0 /\ p \in Nat /\ b \in Nat /\ b > 0 /\ m \in Nat /\ c \in Nat
    BY SecurityBounds DEF Counted, Whole
  <1>4. /\ v * b \in Nat /\ v * b > 0
        /\ e1 = Rounded(40 * 100 * 100 * p, v * b)
        /\ e2 = Rounded(25 * 100 * m, v)
        /\ e3 = Rounded(20 * 100 * c, v)
    <2>1. v * b \in Nat /\ v * b > 0
      <3> HIDE DEF v, b
      <3> QED BY <1>3
    <2> QED BY <1>1, <2>1 DEF OfTests, OfMaint, OfSecurity
  <1> HIDE DEF v, p, b, m, c
  <1>5. ASSUME NEW w \in Nat, NEW n \in Nat, NEW d \in Nat, d > 0, NEW k \in Nat, k <= Rounded(w * n, d)
        PROVE  (2 * k) * d <= 2 * (w * n) + d
    <2>1. w * n \in Nat
      OBVIOUS
    <2> QED BY <1>5, <2>1, TermNeeds
  <1>6. CASE v = 100 /\ 25 * 100 <= e1 /\ 10 * 100 <= e2 /\ 5 * 100 <= e3
    <2>1. (2 * (25 * 100)) * (100 * b) <= 2 * (40 * 100 * 100 * p) + 100 * b
      BY <1>3, <1>4, <1>5, <1>6
    <2>2. (2 * (10 * 100)) * 100 <= 2 * (25 * 100 * m) + 100
      BY <1>3, <1>4, <1>5, <1>6
    <2>3. (2 * (5 * 100)) * 100 <= 2 * (20 * 100 * c) + 100
      BY <1>3, <1>4, <1>5, <1>6
    <2>4. 100 * p >= 62 * b /\ m >= 40 /\ c >= 25
      BY <1>3, <2>1, <2>2, <2>3
    <2> QED BY <2>4 DEF p, b, m, c
  <1>7. CASE v = 85 /\ 32 * 100 <= e1 /\ 14 * 100 <= e2 /\ 8 * 100 <= e3
    <2>1. (2 * (32 * 100)) * (85 * b) <= 2 * (40 * 100 * 100 * p) + 85 * b
      BY <1>3, <1>4, <1>5, <1>7
    <2>2. (2 * (14 * 100)) * 85 <= 2 * (25 * 100 * m) + 85
      BY <1>3, <1>4, <1>5, <1>7
    <2>3. (2 * (8 * 100)) * 85 <= 2 * (20 * 100 * c) + 85
      BY <1>3, <1>4, <1>5, <1>7
    <2>4. 100 * p >= 62 * b /\ m >= 40 /\ c >= 25
      BY <1>3, <2>1, <2>2, <2>3
    <2> QED BY <2>4 DEF p, b, m, c
  <1> QED BY <1>2, <1>6, <1>7

\* A run without a fault has 100, scope checks or none: leaving their term out costs
\* nothing, though each of the three others is rounded on its own (_build_terms, xai.py).
THEOREM FullMarks ==
  ASSUME NEW t, Counted(t), NEW s, Checks(s),
         t.passed = t.total, t.maint = 100, Security(t) = 100, s.allowed = s.total
  PROVE  TrustScore(t, s) = 100 * 100
PROOF
  <1> DEFINE v == Whole(s)   b == t.total
  <1>1. v \in Nat /\ v > 0 /\ b \in Nat /\ b > 0
    BY DEF Counted, Whole
  <1>2. OfTests(t, v) = Rounded(40 * 100 * 100, v)
    <2> DEFINE w == 40 * 100 * 100
    <2>1. w \in Nat /\ OfTests(t, v) = Rounded(w * b, v * b)
      BY DEF OfTests
    <2> HIDE DEF w, v, b
    <2> QED BY <1>1, <2>1, RoundedCancels DEF w
  <1>3. OfMaint(t, v) = Rounded(25 * 100 * 100, v) /\ OfSecurity(t, v) = Rounded(20 * 100 * 100, v)
    BY DEF OfMaint, OfSecurity
  <1>4. TrustScore(t, s) = OfTests(t, v) + OfMaint(t, v) + OfSecurity(t, v) + OfScope(s)
    BY ScoreIsSum
  <1>5. CASE s.total > 0
    <2>1. OfScope(s) = 15 * 100
      <3> DEFINE w == 15 * 100   a == s.total   u == 1
      <3>1. w \in Nat /\ a \in Nat /\ a > 0 /\ u \in Nat /\ u > 0
        BY <1>5 DEF Checks
      <3>2. Rounded(w, u) = w /\ u * a = a /\ OfScope(s) = Rounded(w * a, a)
        BY <1>5, <3>1 DEF Rounded, OfScope
      <3> HIDE DEF w, a, u
      <3>3. Rounded(w * a, u * a) = Rounded(w, u)
        BY <3>1, RoundedCancels
      <3> QED BY <3>2, <3>3 DEF w
    <2>2. v = 100
      BY <1>5 DEF Whole
    <2>3. OfTests(t, v) = 40 * 100 /\ OfMaint(t, v) = 25 * 100 /\ OfSecurity(t, v) = 20 * 100
      BY <1>2, <1>3, <2>2, Weights
    <2> QED BY <1>4, <2>1, <2>3
  <1>6. CASE ~(s.total > 0)
    <2>1. OfScope(s) = 0 /\ v = 85
      BY <1>6 DEF OfScope, Whole
    <2>2. OfTests(t, v) = 47 * 100 + 6 /\ OfMaint(t, v) = 29 * 100 + 41 /\ OfSecurity(t, v) = 23 * 100 + 53
      BY <1>2, <1>3, <2>1, Weights
    <2> QED BY <1>4, <2>1, <2>2
  <1> QED BY <1>5, <1>6

-------------------------------------------------------------------------------
\* From a push to a score, for any number of workers, requests, pushes and failures.

IsSeq(s) == s \in Seq({s[i] : i \in DOMAIN s})

IsRun(r) == r = [pc |-> r.pc, push |-> r.push, t |-> r.t, row |-> r.row]

OnRecord(n, t) == n \in DOMAIN audits /\ audits[n].t = t

\* Some audit on record has this score, under checks on record, and this number of
\* critical findings.
Earned(score, crit) ==
  \E i \in DOMAIN audits, a \in 0..checks.allowed, r \in 0..checks.rejected :
    /\ audits[i].t.crit = crit /\ Scorable(audits[i].t)
    /\ score = TrustScore(audits[i].t, [allowed |-> a, total |-> a + r])

ChecksFit == /\ checks = [allowed |-> checks.allowed, rejected |-> checks.rejected]
             /\ checks.allowed \in Nat /\ checks.rejected \in Nat

Measured(sig) == sig = Fresh.sig \/ \E i \in DOMAIN audits : Signals(audits[i].t) = sig

\* What a run publishes, and what the event says, is in the table.
RunsFit ==
  /\ ci = [w \in CIWorkers |-> ci[w]]
  /\ \A w \in CIWorkers : IsRun(ci[w]) /\ (ci[w].pc = "publish" => OnRecord(ci[w].row, ci[w].t))

MailFits ==
  /\ IsSeq(audits) /\ IsSeq(auditMail)
  /\ \A i \in DOMAIN auditMail : OnRecord(auditMail[i].row, auditMail[i].t)

PipeInv == RunsFit /\ MailFits

\* Rows of audit_results are added and never changed.
Grown == /\ DOMAIN audits \subseteq DOMAIN audits'
         /\ \A i \in DOMAIN audits : audits'[i] = audits[i]

\* So are those of scope_checks.
Kept == /\ Grown
        /\ 0..checks.allowed \subseteq 0..checks'.allowed
        /\ 0..checks.rejected \subseteq 0..checks'.rejected

LEMMA Ranged == ASSUME NEW S, NEW s \in Seq(S) PROVE IsSeq(s)
PROOF
  <1> DEFINE R == {s[i] : i \in DOMAIN s}
  <1>1. Len(s) \in Nat /\ DOMAIN s = 1..Len(s) /\ s = [i \in 1..Len(s) |-> s[i]]
    OBVIOUS
  <1>2. \A i \in 1..Len(s) : s[i] \in R
    BY <1>1
  <1> HIDE DEF R
  <1>3. s \in [1..Len(s) -> R]
    BY <1>1, <1>2
  <1>4. s \in Seq(R)
    BY <1>1, <1>3, SeqDef
  <1> QED BY <1>4 DEF IsSeq, R

LEMMA Appended ==
  ASSUME NEW s, IsSeq(s), NEW e
  PROVE  /\ IsSeq(Append(s, e))
         /\ Len(s) \in Nat /\ DOMAIN s = 1..Len(s) /\ DOMAIN Append(s, e) = 1..Len(s) + 1
         /\ \A i \in DOMAIN s : Append(s, e)[i] = s[i]
         /\ Append(s, e)[Len(s) + 1] = e
PROOF
  <1> DEFINE S == {s[i] : i \in DOMAIN s}
             T == S \cup {e}
             a == Append(s, e)
  <1>1. s \in Seq(S)
    BY DEF IsSeq
  <1>2. s \in Seq(T)
    BY <1>1
  <1> HIDE DEF S, T
  <1>3. e \in T
    BY DEF T
  <1>4. /\ a \in Seq(T) /\ Len(a) = Len(s) + 1
        /\ \A i \in 1..Len(s) : a[i] = s[i]
        /\ a[Len(s) + 1] = e
    BY <1>2, <1>3, AppendProperties
  <1>5. /\ Len(s) \in Nat /\ DOMAIN s = 1..Len(s) /\ DOMAIN a = 1..Len(s) + 1
    BY <1>2, <1>4
  <1>6. IsSeq(a)
    BY <1>4, Ranged
  <1> HIDE DEF a
  <1> QED BY <1>4, <1>5, <1>6 DEF a

LEMMA Shortened ==
  ASSUME NEW s, IsSeq(s), s # <<>>
  PROVE  /\ IsSeq(Tail(s)) /\ 1 \in DOMAIN s /\ Head(s) = s[1]
         /\ \A i \in DOMAIN Tail(s) : \E j \in DOMAIN s : Tail(s)[i] = s[j]
PROOF
  <1> DEFINE S == {s[i] : i \in DOMAIN s}
             a == Tail(s)
  <1>1. s \in Seq(S)
    BY DEF IsSeq
  <1> HIDE DEF S
  <1>2. /\ a \in Seq(S) /\ Len(a) = Len(s) - 1
        /\ \A i \in 1..Len(a) : a[i] = s[i + 1]
    BY <1>1, HeadTailProperties
  <1>3. Len(s) \in Nat /\ DOMAIN s = 1..Len(s) /\ DOMAIN a = 1..Len(a) /\ Len(a) \in Nat
    BY <1>1, <1>2
  <1>4. IsSeq(a)
    BY <1>2, Ranged
  <1>5. 1 \in DOMAIN s /\ Head(s) = s[1]
    BY <1>1, <1>2, <1>3
  <1> HIDE DEF a
  <1>6. \A i \in DOMAIN a : i + 1 \in DOMAIN s /\ a[i] = s[i + 1]
    BY <1>2, <1>3
  <1> QED BY <1>4, <1>5, <1>6 DEF a

LEMMA RecordsStay ==
  ASSUME Grown
  PROVE  /\ \A n, t : OnRecord(n, t) => OnRecord(n, t)'
         /\ \A s : Measured(s) => Measured(s)'
PROOF
  <1>1. ASSUME NEW n, NEW t, OnRecord(n, t) PROVE OnRecord(n, t)'
    BY <1>1 DEF Grown, OnRecord
  <1>2. ASSUME NEW s, Measured(s) PROVE Measured(s)'
    <2>1. CASE s = Fresh.sig
      BY <2>1 DEF Measured
    <2>2. ASSUME NEW i \in DOMAIN audits, Signals(audits[i].t) = s PROVE Measured(s)'
      <3>1. i \in DOMAIN audits' /\ audits'[i] = audits[i]
        BY DEF Grown
      <3> QED BY <2>2, <3>1 DEF Measured
    <2> QED BY <1>2, <2>1, <2>2 DEF Measured
  <1> QED BY <1>1, <1>2

LEMMA EarnedStays == ASSUME Kept, NEW score, NEW crit, Earned(score, crit) PROVE Earned(score, crit)'
PROOF
  <1>1. PICK i \in DOMAIN audits, a \in 0..checks.allowed, r \in 0..checks.rejected :
          /\ audits[i].t.crit = crit /\ Scorable(audits[i].t)
          /\ score = TrustScore(audits[i].t, [allowed |-> a, total |-> a + r])
    BY DEF Earned
  <1>2. i \in DOMAIN audits' /\ audits'[i] = audits[i] /\ a \in 0..checks'.allowed /\ r \in 0..checks'.rejected
    BY <1>1 DEF Kept, Grown
  <1> QED BY <1>1, <1>2 DEF Earned

LEMMA RunMoves ==
  ASSUME RunsFit, MailFits, NEW w \in CIWorkers, NEW r, IsRun(r),
         ci' = [ci EXCEPT ![w] = r], Grown, r.pc = "publish" => OnRecord(r.row, r.t)'
  PROVE  RunsFit'
PROOF
  <1>1. ci' = [v \in CIWorkers |-> IF v = w THEN r ELSE ci[v]]
    BY DEF RunsFit
  <1>2. ASSUME NEW v \in CIWorkers
        PROVE  /\ IsRun(ci'[v])
               /\ ci'[v].pc = "publish" => ci'[v].row \in DOMAIN audits' /\ audits'[ci'[v].row].t = ci'[v].t
    <2>1. CASE v = w
      BY <1>1, <2>1 DEF OnRecord
    <2>2. CASE v # w
      BY <1>1, <2>2 DEF RunsFit, OnRecord, Grown
    <2> QED BY <2>1, <2>2
  <1>3. ci' = [v \in CIWorkers |-> ci'[v]]
    BY <1>1
  <1> QED BY <1>2, <1>3 DEF RunsFit, OnRecord

\* The first event of the stream is acknowledged, or none is.
LEMMA MailMoves ==
  ASSUME MailFits, audits' = audits,
         auditMail' = auditMail \/ (auditMail # <<>> /\ auditMail' = Tail(auditMail))
  PROVE  MailFits'
PROOF
  <1>1. IsSeq(auditMail') /\ \A i \in DOMAIN auditMail' : \E j \in DOMAIN auditMail : auditMail'[i] = auditMail[j]
    <2>1. CASE auditMail' = auditMail
      BY <2>1 DEF MailFits
    <2>2. CASE auditMail # <<>> /\ auditMail' = Tail(auditMail)
      <3>1. IsSeq(auditMail)
        BY DEF MailFits
      <3> QED BY <2>2, <3>1, Shortened
    <2> QED BY <2>1, <2>2
  <1> QED BY <1>1 DEF MailFits, OnRecord

LEMMA RunPreserves ==
  ASSUME PipeInv, NEW w \in CIWorkers, CIStep(w) \/ CrashCI(w)
  PROVE  PipeInv' /\ Grown
PROOF
  <1> USE DEF PipeInv
  <1>0. IsRun(ci[w]) /\ IsRun(NoRun) /\ NoRun.pc # "publish" /\ ci = [v \in CIWorkers |-> ci[v]]
    BY DEF RunsFit, IsRun, NoRun
  <1>1. audits' = audits => Grown
    BY DEF Grown
  <1>2. CASE Take(w)
    <2>1. PICK p : ci' = [ci EXCEPT ![w] = [NoRun EXCEPT !.pc = "analyze", !.push = p]]
      BY <1>2 DEF Take
    <2>0. PICK r : r = [NoRun EXCEPT !.pc = "analyze", !.push = p]
      OBVIOUS
    <2>2. IsRun(r) /\ r.pc # "publish"
      BY <2>0 DEF IsRun, NoRun
    <2>3. ci' = [ci EXCEPT ![w] = r]
      BY <2>0, <2>1
    <2> QED BY <1>1, <1>2, <2>2, <2>3, RunMoves, MailMoves DEF Take
  <1>3. CASE Analyze(w)
    <2>1. CASE CIDone(w)
      BY <1>0, <1>1, <1>3, <2>1, RunMoves, MailMoves DEF Analyze, CIDone
    <2>2. ASSUME NEW t, ci' = [ci EXCEPT ![w].pc = "save", ![w].t = t] PROVE PipeInv' /\ Grown
      <3>0. PICK r : r = [ci[w] EXCEPT !.pc = "save", !.t = t]
        OBVIOUS
      <3>1. IsRun(r) /\ r.pc # "publish"
        BY <1>0, <3>0 DEF IsRun
      <3>2. ci' = [ci EXCEPT ![w] = r]
        BY <1>0, <2>2, <3>0
      <3> QED BY <1>1, <1>3, <3>1, <3>2, RunMoves, MailMoves DEF Analyze
    <2> QED BY <1>3, <2>1, <2>2 DEF Analyze
  <1>4. CASE Save(w)
    <2>1. CASE CIDone(w) /\ UNCHANGED audits
      BY <1>0, <1>1, <1>4, <2>1, RunMoves, MailMoves DEF Save, CIDone
    <2>2. CASE audits' = Append(audits, SavedAudit(w)) /\ ToPublish(w)
      <3>0. PICK r : r = [ci[w] EXCEPT !.pc = "publish", !.row = Len(audits) + 1]
        OBVIOUS
      <3>1. IsRun(r) /\ r.pc = "publish" /\ r.t = ci[w].t /\ r.row = Len(audits) + 1
        BY <1>0, <3>0 DEF IsRun
      <3>2. ci' = [ci EXCEPT ![w] = r]
        BY <1>0, <2>2, <3>0 DEF ToPublish
      <3>3. /\ IsSeq(audits') /\ Grown
            /\ OnRecord(r.row, r.t)'
        <4>1. /\ IsSeq(audits') /\ Len(audits) \in Nat
              /\ DOMAIN audits = 1..Len(audits) /\ DOMAIN audits' = 1..Len(audits) + 1
              /\ \A i \in DOMAIN audits : audits'[i] = audits[i]
              /\ audits'[Len(audits) + 1] = SavedAudit(w)
          BY <2>2, Appended DEF MailFits
        <4>2. SavedAudit(w).t = r.t
          BY <3>1 DEF SavedAudit
        <4> QED BY <3>1, <4>1, <4>2 DEF Grown, OnRecord
      <3>4. RunsFit'
        BY <3>1, <3>2, <3>3, RunMoves
      <3>5. MailFits'
        BY <1>4, <3>3, RecordsStay DEF Save, MailFits
      <3> QED BY <3>3, <3>4, <3>5
    <2> QED BY <1>4, <2>1, <2>2 DEF Save
  <1>5. CASE Publish(w)
    <2>1. audits' = audits /\ RunsFit'
      BY <1>0, <1>1, <1>5, RunMoves DEF Publish, CIDone
    <2>2. CASE UNCHANGED auditMail
      BY <1>1, <2>1, <2>2, MailMoves
    <2>3. CASE auditMail' = Append(auditMail, [row |-> ci[w].row, t |-> ci[w].t])
      <3>1. OnRecord(ci[w].row, ci[w].t)
        BY <1>5 DEF Publish, RunsFit
      <3>2. /\ IsSeq(auditMail') /\ Len(auditMail) \in Nat
            /\ DOMAIN auditMail = 1..Len(auditMail) /\ DOMAIN auditMail' = 1..Len(auditMail) + 1
            /\ \A i \in DOMAIN auditMail : auditMail'[i] = auditMail[i]
            /\ auditMail'[Len(auditMail) + 1] = [row |-> ci[w].row, t |-> ci[w].t]
        BY <2>3, Appended DEF MailFits
      <3>3. ASSUME NEW i \in DOMAIN auditMail' PROVE OnRecord(auditMail'[i].row, auditMail'[i].t)
        BY <3>1, <3>2 DEF MailFits
      <3> QED BY <1>1, <2>1, <3>2, <3>3 DEF MailFits, OnRecord
    <2> QED BY <1>5, <2>2, <2>3 DEF Publish
  <1>6. CASE CrashCI(w)
    BY <1>0, <1>1, <1>6, RunMoves, MailMoves DEF CrashCI
  <1> QED BY <1>2, <1>3, <1>4, <1>5, <1>6 DEF CIStep

-------------------------------------------------------------------------------
\* GET /score, its callers, and the row of oracle_state.

GetFit(r) ==
  /\ r = [pc |-> r.pc, by |-> r.by, audit |-> r.audit, score |-> r.score, crit |-> r.crit, at |-> r.at]
  /\ r.pc = "compute" => r.audit \in DOMAIN audits
  /\ r.pc \in {"stamp", "publish"} => Earned(r.score, r.crit)
  /\ r.at \in Nat

GetsFit == gets = [g \in Gets |-> gets[g]] /\ \A g \in Gets : GetFit(gets[g])

\* A request answers a caller that waits, and nobody else does; the handler has the
\* message it is about.
CallsFit ==
  /\ caller = [c \in Callers |-> caller[c]]
  /\ \A c \in Callers : caller[c] = [pc |-> caller[c].pc, tries |-> caller[c].tries]
  /\ \A g \in Gets : gets[g].by \in Callers => caller[gets[g].by].pc = "wait"
  /\ \A g, h \in Gets : gets[g].by \in Callers /\ gets[h].by = gets[g].by => g = h
  /\ caller["handler"].pc # "idle" => auditMail # <<>>

ScoreFits(m) == m.at \in Nat /\ Earned(m.trust, m.crit)
ScoresFit    == clock \in Nat /\ IsSeq(scoreMail) /\ \A i \in DOMAIN scoreMail : ScoreFits(scoreMail[i])

RowFits(o) ==
  /\ o = [sig |-> o.sig, trust |-> o.trust, crit |-> o.crit, at |-> o.at, attempts |-> o.attempts]
  /\ o.at \in Nat /\ Measured(o.sig)
  /\ o.trust # None => Earned(o.trust, o.crit)

\* Nobody asks for a score before the row is there.
OracleFits == RowFits(oracle) \/ (oracle = None /\ \A c \in Callers : caller[c].pc = "idle")

ScoreInv == GetsFit /\ CallsFit /\ ScoresFit /\ OracleFits

LEMMA PipePreserved ==
  ASSUME PipeInv, CallsFit, [Next]_vars
  PROVE  PipeInv' /\ Grown
PROOF
  <1>1. ASSUME UNCHANGED <<ci, audits>>,
               auditMail' = auditMail \/ (auditMail # <<>> /\ auditMail' = Tail(auditMail))
        PROVE  PipeInv' /\ Grown
    <2>1. Grown
      BY <1>1 DEF Grown
    <2>2. RunsFit'
      BY <1>1 DEF PipeInv, RunsFit, OnRecord
    <2> QED BY <1>1, <2>1, <2>2, MailMoves DEF PipeInv
  <1>2. CASE Webhook \/ CheckReal \/ Simulate \/ Assign \/ Dismiss
    BY <1>1, <1>2 DEF Webhook, CheckReal, Simulate, Assign, Dismiss, pipeline
  <1>3. CASE \E w \in CIWorkers : CIStep(w) \/ CrashCI(w)
    BY <1>3, RunPreserves
  <1>4. ASSUME NEW g \in Gets, View(g) \/ GetStep(g) \/ TimeOut(g) PROVE PipeInv' /\ Grown
    BY <1>1, <1>4 DEF View, GetStep, Read, Compute, Stamp, PublishScore, TimeOut, pipeline
  <1>5. CASE RecordAudit
    BY <1>1, <1>5 DEF RecordAudit, Finish
  <1>6. ASSUME UNCHANGED pipeline PROVE PipeInv' /\ Grown
    BY <1>1, <1>6 DEF pipeline
  <1>10. CASE Sweep \/ RecordScore \/ CrashWorker
    BY <1>6, <1>10 DEF Sweep, RecordScore, CrashWorker
  <1>7. ASSUME NEW c \in Callers, CallerStep(c) PROVE PipeInv' /\ Grown
    <2>1. caller[c].pc # "idle"
      BY <1>7 DEF CallerStep, Count, Try, Conclude
    <2>2. c = "handler" => auditMail # <<>>
      BY <2>1 DEF CallsFit
    <2>3. UNCHANGED <<ci, audits>> /\ (auditMail' = auditMail \/ Finish(c))
      BY <1>7 DEF CallerStep, Count, Try, Conclude, pipeline
    <2> QED BY <1>1, <2>2, <2>3 DEF Finish
  <1>8. ASSUME NEW c \in Chats, Say(c) \/ Check(c) \/ GiveUp(c) \/ Reply(c) PROVE PipeInv' /\ Grown
    BY <1>1, <1>8 DEF Say, Check, GiveUp, Reply, pipeline
  <1>9. CASE UNCHANGED vars
    BY <1>1, <1>9 DEF vars, pipeline
  <1> QED BY <1>2, <1>3, <1>4, <1>5, <1>7, <1>8, <1>9, <1>10 DEF Next

LEMMA ChecksPreserved ==
  ASSUME ChecksFit, [Next]_vars
  PROVE  /\ ChecksFit'
         /\ 0..checks.allowed \subseteq 0..checks'.allowed
         /\ 0..checks.rejected \subseteq 0..checks'.rejected
PROOF
  <1>1. CASE UNCHANGED checks
    BY <1>1 DEF ChecksFit
  <1>2. ASSUME NEW c \in Chats, Check(c), checks' # checks
        PROVE  \/ checks' = [allowed |-> checks.allowed + 1, rejected |-> checks.rejected]
               \/ checks' = [allowed |-> checks.allowed, rejected |-> checks.rejected + 1]
    BY <1>2 DEF Check, ChecksFit
  <1>3. CASE \/ checks' = [allowed |-> checks.allowed + 1, rejected |-> checks.rejected]
             \/ checks' = [allowed |-> checks.allowed, rejected |-> checks.rejected + 1]
    BY <1>3 DEF ChecksFit
  <1>4. CASE Webhook \/ CheckReal \/ Simulate \/ Assign \/ Dismiss
    BY <1>1, <1>4 DEF Webhook, CheckReal, Simulate, Assign, Dismiss, talking
  <1>5. ASSUME NEW w \in CIWorkers, CIStep(w) \/ CrashCI(w) PROVE UNCHANGED checks
    BY <1>5 DEF CIStep, CrashCI, Take, Analyze, Save, Publish, talking
  <1>6. ASSUME NEW g \in Gets, View(g) \/ GetStep(g) \/ TimeOut(g) PROVE UNCHANGED checks
    BY <1>6 DEF View, GetStep, Read, Compute, Stamp, PublishScore, TimeOut, talking
  <1>7. CASE RecordAudit \/ Sweep \/ RecordScore \/ CrashWorker
    BY <1>1, <1>7 DEF RecordAudit, Sweep, RecordScore, CrashWorker, talking
  <1>8. ASSUME NEW c \in Callers, CallerStep(c) PROVE UNCHANGED checks
    BY <1>8 DEF CallerStep, Count, Try, Conclude, talking
  <1>9. ASSUME NEW c \in Chats, Say(c) \/ GiveUp(c) \/ Reply(c) PROVE UNCHANGED checks
    BY <1>9 DEF Say, GiveUp, Reply
  <1>10. CASE UNCHANGED vars
    BY <1>1, <1>10 DEF vars, talking
  <1> QED BY <1>1, <1>2, <1>3, <1>4, <1>5, <1>6, <1>7, <1>8, <1>9, <1>10 DEF Next

LEMMA RowStays == ASSUME Kept, NEW o, RowFits(o) PROVE RowFits(o)'
PROOF
  BY RecordsStay, EarnedStays DEF RowFits, Kept

LEMMA GetStays == ASSUME Kept, NEW r, GetFit(r) PROVE GetFit(r)'
PROOF
  <1>1. Earned(r.score, r.crit) => Earned(r.score, r.crit)'
    BY EarnedStays
  <1> QED BY <1>1 DEF GetFit, Kept, Grown

LEMMA ScoreStays == ASSUME Kept, NEW m, ScoreFits(m) PROVE ScoreFits(m)'
PROOF
  BY EarnedStays DEF ScoreFits

LEMMA GetMoves ==
  ASSUME GetsFit, Kept, NEW g \in Gets, NEW r, gets' = [gets EXCEPT ![g] = r], GetFit(r)'
  PROVE  GetsFit' /\ \A h \in Gets : gets'[h] = IF h = g THEN r ELSE gets[h]
PROOF
  <1>1. gets' = [h \in Gets |-> IF h = g THEN r ELSE gets[h]]
    BY DEF GetsFit
  <1>2. ASSUME NEW h \in Gets PROVE \E q : gets'[h] = q /\ GetFit(q)'
    <2>1. CASE h = g
      BY <1>1, <2>1
    <2>2. CASE h # g
      <3>1. PICK q : q = gets[h]
        OBVIOUS
      <3> QED BY <1>1, <2>2, <3>1, GetStays DEF GetsFit
    <2> QED BY <2>1, <2>2
  <1>3. \A h \in Gets : GetFit(gets[h])'
    BY <1>2 DEF GetFit
  <1> QED BY <1>1, <1>3 DEF GetsFit

\* A request goes on, or one starts that nobody of the worker waits for.
LEMMA GetContinues ==
  ASSUME GetsFit, CallsFit, Kept, UNCHANGED <<caller, auditMail>>, NEW g \in Gets, NEW r,
         gets' = [gets EXCEPT ![g] = r], GetFit(r)', r.by = gets[g].by \/ r.by \notin Callers
  PROVE  GetsFit' /\ CallsFit'
PROOF
  <1>1. GetsFit' /\ \A h \in Gets : gets'[h] = IF h = g THEN r ELSE gets[h]
    BY GetMoves
  <1>2. \A h \in Gets : gets'[h].by \in Callers => gets'[h].by = gets[h].by
    BY <1>1
  <1>3. ASSUME NEW h \in Gets, gets'[h].by \in Callers PROVE caller'[gets'[h].by].pc = "wait"
    BY <1>2, <1>3 DEF CallsFit
  <1>4. ASSUME NEW h \in Gets, NEW k \in Gets, gets'[h].by \in Callers, gets'[k].by = gets'[h].by PROVE h = k
    BY <1>2, <1>4 DEF CallsFit
  <1> QED BY <1>1, <1>3, <1>4 DEF CallsFit

LEMMA AnswerFits ==
  ASSUME GetsFit, CallsFit, Kept, UNCHANGED auditMail, NEW g \in Gets, NEW outcome, Answer(g, outcome)
  PROVE  /\ GetsFit' /\ CallsFit'
         /\ (\A c \in Callers : caller[c].pc = "idle") => \A c \in Callers : caller'[c].pc = "idle"
PROOF
  <1>1. GetFit(NoGet)' /\ NoGet.by \notin Callers
    BY VerificationAssumption DEF GetFit, NoGet, Callers
  <1>2. GetsFit' /\ \A h \in Gets : gets'[h] = IF h = g THEN NoGet ELSE gets[h]
    BY <1>1, GetMoves DEF Answer
  <1>3. CASE gets[g].by \notin Callers
    BY <1>1, <1>2, <1>3 DEF Answer, CallsFit
  <1>4. CASE gets[g].by \in Callers
    <2>1. caller' = [caller EXCEPT ![gets[g].by].pc = outcome]
      BY <1>4 DEF Answer
    <2>2. /\ caller[gets[g].by].pc = "wait"
          /\ \A h \in Gets : gets[h].by = gets[g].by => h = g
      BY <1>4 DEF CallsFit
    <2>3. \A c \in Callers : caller'[c] = IF c = gets[g].by THEN [caller[c] EXCEPT !.pc = outcome] ELSE caller[c]
      BY <1>4, <2>1 DEF CallsFit
    <2>4. caller' = [c \in Callers |-> caller'[c]]
      BY <1>4, <2>1 DEF CallsFit
    <2>5. ASSUME NEW c \in Callers
          PROVE  caller'[c] = [pc |-> caller'[c].pc, tries |-> caller'[c].tries]
      BY <2>3 DEF CallsFit
    <2>6. ASSUME NEW h \in Gets, gets'[h].by \in Callers
          PROVE  /\ h # g /\ gets'[h] = gets[h]
                 /\ caller'[gets'[h].by].pc = "wait"
      <3>1. h # g /\ gets'[h] = gets[h]
        BY <1>1, <1>2, <2>2, <2>6
      <3>2. gets[h].by \in Callers /\ gets[h].by # gets[g].by
        BY <1>4, <2>6, <3>1 DEF CallsFit
      <3>3. caller[gets[h].by].pc = "wait"
        BY <3>1, <3>2 DEF CallsFit
      <3> QED BY <2>3, <3>1, <3>2, <3>3
    <2>7. \A h, k \in Gets : gets'[h].by \in Callers /\ gets'[k].by = gets'[h].by => h = k
      BY <2>6 DEF CallsFit
    <2>8. "handler" \in Callers /\ (caller'["handler"].pc # "idle" => auditMail' # <<>>)
      BY <2>2, <2>3 DEF CallsFit, Callers
    <2> QED BY <1>2, <1>4, <2>2, <2>4, <2>5, <2>6, <2>7, <2>8 DEF CallsFit
  <1> QED BY <1>3, <1>4

\* A caller moves that waits for nothing.
LEMMA CallerMoves ==
  ASSUME CallsFit, NEW c \in Callers, NEW r, caller' = [caller EXCEPT ![c] = r],
         r = [pc |-> r.pc, tries |-> r.tries],
         \A g \in Gets : gets'[g] = gets[g], caller[c].pc # "wait",
         IF c = "handler" THEN r.pc # "idle" => auditMail' # <<>> ELSE auditMail' = auditMail
  PROVE  CallsFit'
PROOF
  <1>1. caller' = [d \in Callers |-> IF d = c THEN r ELSE caller[d]]
    BY DEF CallsFit
  <1>2. \A g \in Gets : gets[g].by \in Callers => gets[g].by # c
    BY DEF CallsFit
  <1> QED BY <1>1, <1>2 DEF CallsFit, Callers

\* One more call of triggerScoring: a request that nobody waits for takes it up.
LEMMA TryFits ==
  ASSUME GetsFit, CallsFit, Kept, NEW c \in Callers, caller[c].pc = "again",
         UNCHANGED auditMail, NEW g \in Gets, Ask(g, c),
         caller' = [caller EXCEPT ![c].pc = "wait", ![c].tries = (@ + 1) % (MaxTries + 1)]
  PROVE  GetsFit' /\ CallsFit'
PROOF
  <1>0. PICK r : r = [NoGet EXCEPT !.pc = "read", !.by = c]
    OBVIOUS
  <1>1. GetFit(r)' /\ r.by = c
    BY <1>0 DEF GetFit, NoGet
  <1>2. GetsFit' /\ \A h \in Gets : gets'[h] = IF h = g THEN r ELSE gets[h]
    <2>1. gets' = [gets EXCEPT ![g] = r]
      BY <1>0 DEF Ask
    <2> QED BY <1>1, <2>1, GetMoves
  <1>3. \A h \in Gets : gets[h].by # c
    BY DEF CallsFit
  <1>4. PICK q : q = [caller[c] EXCEPT !.pc = "wait", !.tries = (@ + 1) % (MaxTries + 1)]
    OBVIOUS
  <1>5. /\ caller' = [d \in Callers |-> IF d = c THEN q ELSE caller[d]]
        /\ q = [pc |-> q.pc, tries |-> q.tries] /\ q.pc = "wait"
    <2>1. caller[c] = [pc |-> caller[c].pc, tries |-> caller[c].tries] /\ caller = [d \in Callers |-> caller[d]]
      BY DEF CallsFit
    <2>2. q = [pc |-> q.pc, tries |-> q.tries] /\ q.pc = "wait" /\ q.tries = (caller[c].tries + 1) % (MaxTries + 1)
      BY <1>4, <2>1
    <2>3. [[caller EXCEPT ![c].pc = "wait"] EXCEPT ![c].tries = (@ + 1) % (MaxTries + 1)]
            = [d \in Callers |-> IF d = c THEN q ELSE caller[d]]
      BY <2>1, <2>2
    <2> QED BY <2>2, <2>3
  <1>6. ASSUME NEW h \in Gets, gets'[h].by \in Callers PROVE caller'[gets'[h].by].pc = "wait"
    BY <1>1, <1>2, <1>3, <1>5, <1>6 DEF CallsFit
  <1>7. ASSUME NEW h \in Gets, NEW k \in Gets, gets'[h].by \in Callers, gets'[k].by = gets'[h].by PROVE h = k
    BY <1>1, <1>2, <1>3, <1>7 DEF CallsFit
  <1>8. caller'["handler"].pc # "idle" => auditMail' # <<>>
    BY <1>5 DEF CallsFit, Callers
  <1> QED BY <1>2, <1>5, <1>6, <1>7, <1>8 DEF CallsFit

LEMMA FinishFits ==
  ASSUME CallsFit, NEW c \in Callers, caller[c].pc # "wait", Finish(c), gets' = gets
  PROVE  CallsFit'
PROOF
  <1>1. Resting = [pc |-> Resting.pc, tries |-> Resting.tries] /\ Resting.pc = "idle"
    BY DEF Resting
  <1> QED BY <1>1, CallerMoves DEF Finish

LEMMA GotoFits ==
  ASSUME CallsFit, NEW c \in Callers, caller[c].pc # "wait", NEW pc1, CallerGoto(c, pc1),
         gets' = gets, UNCHANGED auditMail, auditMail # <<>> \/ c # "handler"
  PROVE  CallsFit'
PROOF
  <1>0. PICK r : r = [caller[c] EXCEPT !.pc = pc1]
    OBVIOUS
  <1>1. r = [pc |-> r.pc, tries |-> r.tries]
    BY <1>0 DEF CallsFit
  <1>2. caller' = [caller EXCEPT ![c] = r]
    BY <1>0 DEF CallerGoto, CallsFit
  <1> QED BY <1>1, <1>2, CallerMoves

\* What happens elsewhere leaves the scoring as it is.
LEMMA ScoringStays ==
  ASSUME ScoreInv, Kept, UNCHANGED scoring, auditMail # <<>> => auditMail' # <<>>
  PROVE  ScoreInv'
PROOF
  <1> USE DEF scoring
  <1>1. GetsFit'
    <2>1. ASSUME NEW g \in Gets PROVE \E q : gets'[g] = q /\ GetFit(q)'
      <3>1. PICK q : q = gets[g]
        OBVIOUS
      <3> QED BY <3>1, GetStays DEF ScoreInv, GetsFit
    <2>2. \A g \in Gets : GetFit(gets[g])'
      BY <2>1 DEF GetFit
    <2> QED BY <2>2 DEF ScoreInv, GetsFit
  <1>2. CallsFit'
    BY DEF ScoreInv, CallsFit
  <1>3. ScoresFit'
    <2>1. ASSUME NEW i \in DOMAIN scoreMail PROVE ScoreFits(scoreMail[i])'
      <3>1. PICK m : m = scoreMail[i]
        OBVIOUS
      <3>2. ScoreFits(m)'
        BY <3>1, ScoreStays DEF ScoreInv, ScoresFit
      <3> QED BY <3>1, <3>2 DEF ScoreFits
    <2> QED BY <2>1 DEF ScoreInv, ScoresFit
  <1>4. OracleFits'
    <2>1. PICK o : o = oracle
      OBVIOUS
    <2>2. RowFits(o) => RowFits(o)'
      BY RowStays
    <2> QED BY <2>1, <2>2 DEF ScoreInv, OracleFits, RowFits
  <1> QED BY <1>1, <1>2, <1>3, <1>4 DEF ScoreInv

LEMMA GetPreserves ==
  ASSUME ScoreInv, PipeInv, ChecksFit, NEW g \in Gets, View(g) \/ GetStep(g) \/ TimeOut(g)
  PROVE  ScoreInv'
PROOF
  <1> USE DEF ScoreInv
  <1>0. /\ UNCHANGED <<audits, auditMail, oracle, checks>> /\ Kept /\ IsSeq(scoreMail)
        /\ gets[g] = [pc |-> gets[g].pc, by |-> gets[g].by, audit |-> gets[g].audit,
                      score |-> gets[g].score, crit |-> gets[g].crit, at |-> gets[g].at]
        /\ GetFit(gets[g])
    BY DEF View, GetStep, Read, Compute, Stamp, PublishScore, TimeOut, pipeline, talking, Kept, Grown, GetsFit, GetFit, ScoresFit
  \* It is enough that requests and callers go on as they should.
  <1>1. ASSUME GetsFit', CallsFit', ScoresFit',
               (\A c \in Callers : caller[c].pc = "idle") => \A c \in Callers : caller'[c].pc = "idle"
        PROVE  ScoreInv'
    BY <1>0, <1>1 DEF OracleFits, RowFits, Measured, Earned
  <1>2. scoreMail' = scoreMail /\ clock' \in Nat => ScoresFit'
    BY <1>0 DEF ScoresFit, ScoreFits, Earned
  <1>3. CASE View(g)
    <2>1. PICK r : r = [NoGet EXCEPT !.pc = "read", !.by = None]
      OBVIOUS
    <2>2. gets' = [gets EXCEPT ![g] = r] /\ GetFit(r)' /\ r.by \notin Callers
      BY <1>3, <2>1, VerificationAssumption DEF View, Ask, GetFit, NoGet, Callers
    <2> QED BY <1>0, <1>1, <1>2, <1>3, <2>2, GetContinues DEF View, ScoresFit
  <1>4. CASE Read(g)
    <2>1. ASSUME NEW outcome, Answer(g, outcome) PROVE ScoreInv'
      BY <1>0, <1>1, <1>2, <1>4, <2>1, AnswerFits DEF Read, ScoresFit
    <2>2. CASE audits # <<>> /\ gets' = [gets EXCEPT ![g].pc = "compute", ![g].audit = Len(audits)] /\ UNCHANGED caller
      <3>1. PICK r : r = [gets[g] EXCEPT !.pc = "compute", !.audit = Len(audits)]
        OBVIOUS
      <3>2. Len(audits) \in DOMAIN audits
        <4>1. audits \in Seq({audits[i] : i \in DOMAIN audits})
          BY DEF PipeInv, MailFits, IsSeq
        <4> QED BY <2>2, <4>1, HeadTailProperties, LenProperties
      <3>3. GetFit(r)' /\ r.by = gets[g].by
        BY <1>0, <3>1, <3>2 DEF GetFit
      <3>4. gets' = [gets EXCEPT ![g] = r]
        BY <1>0, <2>2, <3>1 DEF GetsFit
      <3> QED BY <1>0, <1>1, <1>2, <1>4, <2>2, <3>3, <3>4, GetContinues DEF Read, ScoresFit
    <2> QED BY <1>4, <2>1, <2>2 DEF Read
  <1>5. CASE Compute(g)
    <2>1. ASSUME NEW outcome, Answer(g, outcome) PROVE ScoreInv'
      BY <1>0, <1>1, <1>2, <1>5, <2>1, AnswerFits DEF Compute, ScoresFit
    <2>2. ASSUME Scorable(Telemetered(g)), UNCHANGED caller,
                 NEW score,
                 score = TrustScore(Telemetered(g),
                           [allowed |-> checks.allowed, total |-> checks.allowed + checks.rejected]),
                 gets' = [gets EXCEPT ![g].pc = "stamp", ![g].crit = Telemetered(g).crit, ![g].score = score]
          PROVE  ScoreInv'
      <3>1. PICK r : r = [gets[g] EXCEPT !.pc = "stamp", !.crit = Telemetered(g).crit, !.score = score]
        OBVIOUS
      <3>2. gets[g].audit \in DOMAIN audits
        BY <1>0, <1>5 DEF Compute, GetFit
      <3>3. Earned(score, Telemetered(g).crit)
        BY <2>2, <3>2 DEF Earned, Telemetered, ChecksFit
      <3>4. r.score = score /\ r.crit = Telemetered(g).crit /\ r.pc = "stamp" /\ r.by = gets[g].by /\ r.at = gets[g].at
            /\ r = [pc |-> r.pc, by |-> r.by, audit |-> r.audit, score |-> r.score, crit |-> r.crit, at |-> r.at]
        BY <1>0, <3>1
      <3>5. Earned(r.score, r.crit)'
        BY <1>0, <3>3, <3>4 DEF Earned
      <3>6. GetFit(r)'
        BY <1>0, <3>4, <3>5 DEF GetFit
      <3>7. gets' = [gets EXCEPT ![g] = r]
        BY <1>0, <2>2, <3>1 DEF GetsFit
      <3> QED BY <1>0, <1>1, <1>2, <1>5, <2>2, <3>4, <3>6, <3>7, GetContinues DEF Compute, ScoresFit
    <2> QED BY <1>5, <2>1, <2>2 DEF Compute
  <1>6. CASE Stamp(g)
    <2>1. PICK r : r = [gets[g] EXCEPT !.pc = "publish", !.at = clock + 1]
      OBVIOUS
    <2>2. clock' \in Nat /\ clock + 1 \in Nat
      BY <1>6 DEF Stamp, ScoresFit
    <2>3. Earned(gets[g].score, gets[g].crit)
      BY <1>0, <1>6 DEF Stamp, GetFit
    <2>4. GetFit(r)' /\ r.by = gets[g].by
      BY <1>0, <2>1, <2>2, <2>3 DEF GetFit, Earned
    <2>5. gets' = [gets EXCEPT ![g] = r]
      BY <1>0, <1>6, <2>1 DEF Stamp, GetsFit
    <2> QED BY <1>0, <1>1, <1>2, <1>6, <2>2, <2>4, <2>5, GetContinues DEF Stamp
  <1>7. CASE PublishScore(g)
    <2>1. PICK outcome : Answer(g, outcome)
      BY <1>7 DEF PublishScore
    <2>2. CASE scoreMail' = scoreMail
      BY <1>0, <1>1, <1>2, <1>7, <2>1, <2>2, AnswerFits DEF PublishScore, ScoresFit
    <2>3. CASE scoreMail' = Append(scoreMail, [trust |-> gets[g].score, crit |-> gets[g].crit, at |-> gets[g].at])
      <3>1. ScoreFits([trust |-> gets[g].score, crit |-> gets[g].crit, at |-> gets[g].at])
        BY <1>0, <1>7 DEF PublishScore, GetFit, ScoreFits
      <3>2. /\ IsSeq(scoreMail') /\ Len(scoreMail) \in Nat
            /\ DOMAIN scoreMail = 1..Len(scoreMail) /\ DOMAIN scoreMail' = 1..Len(scoreMail) + 1
            /\ \A i \in DOMAIN scoreMail : scoreMail'[i] = scoreMail[i]
            /\ scoreMail'[Len(scoreMail) + 1] = [trust |-> gets[g].score, crit |-> gets[g].crit, at |-> gets[g].at]
        BY <1>0, <2>3, Appended
      <3>3. \A i \in DOMAIN scoreMail' : ScoreFits(scoreMail'[i])
        BY <3>1, <3>2 DEF ScoresFit
      <3>4. ScoresFit'
        BY <1>0, <1>7, <3>2, <3>3 DEF PublishScore, ScoresFit, ScoreFits, Earned
      <3> QED BY <1>0, <1>1, <2>1, <3>4, AnswerFits
    <2> QED BY <1>7, <2>2, <2>3 DEF PublishScore
  <1>8. CASE TimeOut(g)
    <2>1. PICK r : r = [gets[g] EXCEPT !.by = None]
      OBVIOUS
    <2>2. GetFit(r)' /\ r.by \notin Callers
      BY <1>0, <2>1, VerificationAssumption DEF GetFit, Callers, Earned
    <2>3. gets' = [gets EXCEPT ![g] = r]
      BY <1>0, <1>8, <2>1 DEF TimeOut, GetsFit
    <2>4. GetsFit' /\ \A h \in Gets : gets'[h] = IF h = g THEN r ELSE gets[h]
      <3>1. GetsFit /\ Kept /\ GetFit(r)'
        BY <1>0, <2>2
      <3> QED BY <3>1, <2>3, GetMoves
    <2>5. PICK c \in Callers : c = gets[g].by /\ caller' = [caller EXCEPT ![c].pc = "again"] /\ caller[c].pc = "wait"
      BY <1>8 DEF TimeOut, CallsFit
    <2>6. \A h \in Gets : gets'[h].by = c => FALSE
      BY <2>2, <2>4, <2>5 DEF CallsFit
    <2>7. caller' = [d \in Callers |-> IF d = c THEN [caller[c] EXCEPT !.pc = "again"] ELSE caller[d]]
      BY <2>5 DEF CallsFit
    <2>8. \A d \in Callers : caller'[d] = [pc |-> caller'[d].pc, tries |-> caller'[d].tries]
      BY <2>7 DEF CallsFit
    <2>9. ASSUME NEW h \in Gets, gets'[h].by \in Callers
          PROVE  h # g /\ gets'[h] = gets[h] /\ gets[h].by # c /\ caller'[gets'[h].by].pc = "wait"
      BY <2>2, <2>4, <2>6, <2>7, <2>9 DEF CallsFit
    <2>10. \A h, k \in Gets : gets'[h].by \in Callers /\ gets'[k].by = gets'[h].by => h = k
      BY <2>9 DEF CallsFit
    <2>11. caller'["handler"].pc # "idle" => auditMail' # <<>>
      BY <1>0, <2>5, <2>7 DEF CallsFit, Callers
    <2>12. CallsFit'
      BY <2>7, <2>8, <2>9, <2>10, <2>11 DEF CallsFit
    <2> QED BY <1>0, <1>1, <1>2, <1>8, <2>4, <2>5, <2>12 DEF TimeOut, ScoresFit
  <1> QED BY <1>3, <1>4, <1>5, <1>6, <1>7, <1>8 DEF GetStep

\* A newer stamp stays.
Newer == oracle # None => oracle'.at >= oracle.at

\* The row may have been written for the first time.
LEMMA RowIsFit == ASSUME OracleFits PROVE RowFits(Row) /\ (oracle # None => RowFits(oracle) /\ Row = oracle)
PROOF
  <1>1. RowFits(Fresh)
    BY DEF RowFits, Fresh, Measured
  <1> QED BY <1>1 DEF OracleFits, Row

LEMMA OracleStays ==
  ASSUME ScoreInv, UNCHANGED <<audits, checks, oracle>>, GetsFit', CallsFit', ScoresFit',
         RowFits(oracle) \/ \A c \in Callers : caller'[c].pc = "idle"
  PROVE  ScoreInv' /\ Newer
PROOF
  <1>1. RowFits(oracle) => RowFits(oracle)' /\ oracle.at >= oracle.at
    BY DEF RowFits, Measured, Earned
  <1>2. oracle # None => RowFits(oracle)
    BY RowIsFit DEF ScoreInv
  <1> QED BY <1>1, <1>2 DEF ScoreInv, OracleFits, Newer

LEMMA OracleMoves ==
  ASSUME ScoreInv, UNCHANGED <<audits, checks>>, GetsFit', CallsFit', ScoresFit', RowFits(oracle'), oracle'.at >= Row.at
  PROVE  ScoreInv' /\ Newer
PROOF
  <1>1. RowFits(oracle)'
    BY DEF RowFits, Measured, Earned
  <1> QED BY <1>1, RowIsFit DEF ScoreInv, OracleFits, Newer

\* What was earned stays earned, and so messages about it stay true.
LEMMA MailStays ==
  ASSUME UNCHANGED <<audits, checks>>, clock' \in Nat, IsSeq(scoreMail'),
         \A i \in DOMAIN scoreMail' : ScoreFits(scoreMail'[i])
  PROVE  ScoresFit'
PROOF
  <1>1. \A x, y : Earned(x, y) => Earned(x, y)'
    BY DEF Earned
  <1>2. \A i \in DOMAIN scoreMail' : scoreMail'[i].at \in Nat /\ Earned(scoreMail'[i].trust, scoreMail'[i].crit)
    BY DEF ScoreFits
  <1> QED BY <1>1, <1>2 DEF ScoresFit, ScoreFits

LEMMA WorkerPreserves ==
  ASSUME ScoreInv, PipeInv,
         RecordAudit \/ Sweep \/ (\E c \in Callers : CallerStep(c)) \/ RecordScore \/ CrashWorker
  PROVE  ScoreInv' /\ Newer
PROOF
  <1> USE DEF ScoreInv
  <1>0. "handler" \in Callers /\ "sweep" \in Callers /\ IsSeq(scoreMail)
    BY DEF Callers, ScoresFit
  <1>1. UNCHANGED <<audits, checks>>
    BY DEF RecordAudit, Sweep, CallerStep, Count, Try, Conclude, RecordScore, CrashWorker, pipeline, talking
  <1>2. Kept
    BY <1>1 DEF Kept, Grown
  <1>3. UNCHANGED gets => GetsFit'
    BY <1>1 DEF GetsFit, GetFit, Earned
  <1>4. UNCHANGED <<scoreMail, clock>> => ScoresFit'
    BY <1>1, MailStays DEF ScoresFit
  <1>5. RowFits(Row) /\ (oracle # None => RowFits(oracle) /\ Row = oracle)
    BY RowIsFit
  <1>6. CASE RecordAudit
    <2>1. GetsFit' /\ ScoresFit' /\ UNCHANGED gets
      BY <1>3, <1>4, <1>6 DEF RecordAudit
    <2>2. caller["handler"].pc = "idle" /\ auditMail # <<>>
      BY <1>6 DEF RecordAudit
    <2>3. Finish("handler") => CallsFit'
      BY <1>0, <2>1, <2>2, FinishFits
    <2>4. CallerGoto("handler", "count") /\ UNCHANGED auditMail => CallsFit'
      BY <1>0, <2>1, <2>2, GotoFits
    <2>5. CallsFit'
      BY <1>6, <2>3, <2>4 DEF RecordAudit
    <2>6. CASE oracle' = [Row EXCEPT !.sig = Signals(Head(auditMail).t)]
      <3>1. IsSeq(auditMail)
        BY DEF PipeInv, MailFits
      <3>2. 1 \in DOMAIN auditMail /\ Head(auditMail) = auditMail[1]
        BY <2>2, <3>1, Shortened
      <3>3. OnRecord(Head(auditMail).row, Head(auditMail).t)
        BY <3>2 DEF PipeInv, MailFits
      <3>4. Measured(Signals(Head(auditMail).t))
        BY <3>3 DEF OnRecord, Measured
      <3>5. RowFits(oracle') /\ oracle'.at = Row.at /\ Row.at \in Nat
        BY <1>5, <2>6, <3>4 DEF RowFits
      <3>6. oracle'.at >= Row.at
        BY <3>5
      <3> QED BY <1>1, <2>1, <2>5, <3>5, <3>6, OracleMoves
    <2>7. CASE Finish("handler") /\ UNCHANGED oracle
      <3>1. RowFits(oracle) \/ \A c \in Callers : caller'[c].pc = "idle"
        BY <2>7 DEF OracleFits, Finish, CallsFit, Resting
      <3> QED BY <1>1, <2>1, <2>5, <2>7, <3>1, OracleStays
    <2> QED BY <1>6, <2>6, <2>7 DEF RecordAudit
  <1>7. CASE Sweep
    <2>1. GetsFit' /\ ScoresFit' /\ UNCHANGED <<gets, auditMail, oracle>>
      BY <1>3, <1>4, <1>7 DEF Sweep, pipeline
    <2>2. CallsFit'
      BY <1>0, <1>7, <2>1, GotoFits DEF Sweep
    <2>3. RowFits(oracle)
      BY <1>5, <1>7 DEF Sweep, Missing
    <2> QED BY <1>1, <2>1, <2>2, <2>3, OracleStays
  <1>8. ASSUME NEW c \in Callers, CallerStep(c) PROVE ScoreInv' /\ Newer
    <2>1. RowFits(oracle) /\ caller[c].pc # "idle" /\ (c = "handler" => auditMail # <<>>)
      <3>1. caller[c].pc # "idle"
        BY <1>8 DEF CallerStep, Count, Try, Conclude
      <3>2. RowFits(oracle)
        BY <3>1 DEF OracleFits
      <3> QED BY <3>1, <3>2 DEF CallsFit
    <2>0. oracle.at \in Nat /\ oracle.at >= Row.at
      BY <2>1 DEF Row, Fresh, RowFits
    <2>2. CASE Count(c)
      <3>1. GetsFit' /\ ScoresFit' /\ UNCHANGED <<gets, auditMail>>
        BY <1>3, <1>4, <2>2 DEF Count, pipeline
      <3>2. CallsFit'
        BY <2>1, <2>2, <3>1, GotoFits DEF Count
      <3>3. RowFits(oracle') /\ oracle'.at = oracle.at
        BY <2>1, <2>2 DEF Count, RowFits
      <3>4. oracle'.at >= Row.at
        BY <2>0, <3>3
      <3> QED BY <1>1, <3>1, <3>2, <3>3, <3>4, OracleMoves
    <2>3. CASE Try(c)
      <3>1. ScoresFit' /\ UNCHANGED oracle
        BY <1>4, <2>3 DEF Try
      <3>2. GetsFit' /\ CallsFit'
        <4>1. CASE Finish(c) /\ UNCHANGED gets
          BY <1>3, <2>3, <4>1, FinishFits DEF Try
        <4>2. ASSUME NEW g \in Gets, Ask(g, c), UNCHANGED auditMail,
                     caller' = [caller EXCEPT ![c].pc = "wait", ![c].tries = (@ + 1) % (MaxTries + 1)]
              PROVE  GetsFit' /\ CallsFit'
          BY <1>2, <2>3, <4>2, TryFits DEF Try
        <4> QED BY <2>3, <4>1, <4>2 DEF Try
      <3> QED BY <1>1, <2>1, <3>1, <3>2, OracleStays
    <2>4. CASE Conclude(c)
      <3>1. GetsFit' /\ ScoresFit' /\ UNCHANGED gets
        BY <1>3, <1>4, <2>4 DEF Conclude
      <3>2. CallsFit'
        BY <2>4, <3>1, FinishFits DEF Conclude
      <3>3. RowFits(oracle') /\ oracle'.at = oracle.at
        BY <2>1, <2>4 DEF Conclude, RowFits
      <3>4. oracle'.at >= Row.at
        BY <2>0, <3>3
      <3> QED BY <1>1, <3>1, <3>2, <3>3, <3>4, OracleMoves
    <2> QED BY <1>8, <2>2, <2>3, <2>4 DEF CallerStep
  <1>9. CASE RecordScore
    <2>1. GetsFit' /\ UNCHANGED <<gets, caller, auditMail>>
      BY <1>3, <1>9 DEF RecordScore, pipeline
    <2>2. CallsFit'
      BY <2>1 DEF CallsFit
    <2>3. /\ IsSeq(scoreMail') /\ 1 \in DOMAIN scoreMail /\ Head(scoreMail) = scoreMail[1]
          /\ \A i \in DOMAIN scoreMail' : \E j \in DOMAIN scoreMail : scoreMail'[i] = scoreMail[j]
      BY <1>0, <1>9, Shortened DEF RecordScore
    <2>4. ScoresFit'
      <3>1. \A i \in DOMAIN scoreMail' : ScoreFits(scoreMail'[i])
        BY <2>3 DEF ScoresFit
      <3>2. clock' \in Nat
        BY <1>9 DEF RecordScore, ScoresFit
      <3> QED BY <1>1, <2>3, <3>1, <3>2, MailStays
    <2>5. ScoreFits(Head(scoreMail))
      BY <2>3 DEF ScoresFit
    <2>6. CASE UNCHANGED oracle
      <3>1. RowFits(oracle) \/ \A c \in Callers : caller'[c].pc = "idle"
        BY <2>1 DEF OracleFits
      <3> QED BY <1>1, <2>1, <2>2, <2>4, <2>6, <3>1, OracleStays
    <2>7. CASE /\ Applies(Head(scoreMail))
               /\ oracle' = [Row EXCEPT !.trust = Head(scoreMail).trust, !.crit = Head(scoreMail).crit,
                                        !.at = Head(scoreMail).at]
      <3>1. RowFits(oracle') /\ oracle'.at = Head(scoreMail).at /\ oracle'.at \in Nat
        BY <1>5, <2>5, <2>7 DEF RowFits, ScoreFits
      <3>2. oracle # None => oracle'.at >= Row.at
        BY <1>5, <2>5, <2>7, <3>1 DEF Applies, RowFits, ScoreFits
      <3>3. oracle = None => Row.at = 0
        BY DEF Row, Fresh
      <3>4. oracle'.at >= Row.at
        BY <3>1, <3>2, <3>3
      <3> QED BY <1>1, <2>1, <2>2, <2>4, <3>1, <3>4, OracleMoves
    <2> QED BY <1>9, <2>6, <2>7 DEF RecordScore
  <1>10. CASE CrashWorker
    <2>1. /\ ScoresFit' /\ UNCHANGED <<auditMail, oracle>>
          /\ caller' = [c \in Callers |-> Resting]
          /\ gets' = [g \in Gets |-> IF gets[g].by \in Callers THEN [gets[g] EXCEPT !.by = None] ELSE gets[g]]
      BY <1>4, <1>10 DEF CrashWorker, pipeline
    <2>2. ASSUME NEW g \in Gets PROVE GetFit(gets'[g]) /\ gets'[g].by \notin Callers
      <3>1. GetFit(gets[g])
        BY DEF GetsFit
      <3>2. CASE gets[g].by \in Callers
        <4>1. gets'[g] = [gets[g] EXCEPT !.by = None]
          BY <2>1, <3>2
        <4> QED BY <3>1, <4>1, VerificationAssumption DEF GetFit, Callers
      <3>3. CASE gets[g].by \notin Callers
        BY <2>1, <3>1, <3>3
      <3> QED BY <3>2, <3>3
    <2>3. GetsFit'
      <3>1. UNCHANGED <<audits, checks>>
        BY <1>10 DEF CrashWorker, pipeline, talking
      <3>2. gets' = [g \in Gets |-> gets'[g]]
        BY <2>1
      <3>3. ASSUME NEW g \in Gets PROVE GetFit(gets[g])'
        <4>1. GetFit(gets'[g])
          BY <2>2
        <4> QED BY <3>1, <4>1 DEF GetFit, Earned
      <3> QED BY <3>2, <3>3 DEF GetsFit
    <2>4. CallsFit' /\ \A c \in Callers : caller'[c].pc = "idle"
      BY <2>1, <2>2 DEF CallsFit, Resting, Callers
    <2> QED BY <1>1, <2>1, <2>3, <2>4, OracleStays
  <1> QED BY <1>6, <1>7, <1>8, <1>9, <1>10

LEMMA ScorePreserved ==
  ASSUME ScoreInv, PipeInv, ChecksFit, [Next]_vars
  PROVE  ScoreInv' /\ PipeInv' /\ ChecksFit' /\ Newer
PROOF
  <1>1. PipeInv' /\ ChecksFit' /\ Kept
    BY PipePreserved, ChecksPreserved DEF ScoreInv, Kept
  <1>2. UNCHANGED oracle => Newer
    BY RowIsFit DEF ScoreInv, Newer, RowFits
  <1>3. ASSUME UNCHANGED <<scoring, auditMail>> PROVE ScoreInv' /\ Newer
    BY <1>1, <1>2, <1>3, ScoringStays DEF scoring
  <1>4. CASE Webhook \/ CheckReal \/ Simulate \/ Assign \/ Dismiss
    <2>1. UNCHANGED scoring /\ UNCHANGED auditMail
      BY <1>4 DEF Webhook, CheckReal, Simulate, Assign, Dismiss, pipeline
    <2> QED BY <1>1, <1>3, <2>1
  <1>5. ASSUME NEW w \in CIWorkers, CIStep(w) \/ CrashCI(w) PROVE ScoreInv' /\ Newer
    <2>1. CASE Publish(w)
      <3>1. PICK e : auditMail' = Append(auditMail, e) \/ auditMail' = auditMail
        BY <2>1 DEF Publish
      <3>2. IsSeq(auditMail)
        BY DEF PipeInv, MailFits
      <3>3. auditMail # <<>> => auditMail' # <<>>
        BY <3>1, <3>2, AppendProperties, Appended
      <3> QED BY <1>1, <1>2, <2>1, <3>3, ScoringStays DEF Publish, scoring
    <2> QED BY <1>3, <1>5, <2>1 DEF CIStep, CrashCI, Take, Analyze, Save
  <1>6. ASSUME NEW g \in Gets, View(g) \/ GetStep(g) \/ TimeOut(g) PROVE ScoreInv' /\ Newer
    <2>1. UNCHANGED oracle
      BY <1>6 DEF View, GetStep, Read, Compute, Stamp, PublishScore, TimeOut
    <2> QED BY <1>2, <1>6, <2>1, GetPreserves
  <1>7. CASE RecordAudit \/ Sweep \/ (\E c \in Callers : CallerStep(c)) \/ RecordScore \/ CrashWorker
    BY <1>1, <1>7, WorkerPreserves
  <1>8. ASSUME NEW c \in Chats, Say(c) \/ Check(c) \/ GiveUp(c) \/ Reply(c) PROVE ScoreInv' /\ Newer
    <2>1. UNCHANGED scoring /\ UNCHANGED auditMail
      BY <1>8 DEF Say, Check, GiveUp, Reply, pipeline
    <2> QED BY <1>1, <1>3, <2>1
  <1>9. CASE UNCHANGED vars
    BY <1>1, <1>3, <1>9 DEF vars, pipeline, scoring
  <1> QED BY <1>1, <1>4, <1>5, <1>6, <1>7, <1>8, <1>9 DEF Next

LEMMA ScoreStarts == Init => ScoreInv /\ PipeInv /\ ChecksFit
PROOF
  <1> SUFFICES ASSUME Init PROVE ScoreInv /\ PipeInv /\ ChecksFit
    OBVIOUS
  <1>1. IsSeq(<<>>) /\ DOMAIN <<>> = {}
    <2>1. <<>> \in Seq({})
      BY EmptySeq
    <2>2. DOMAIN <<>> = {}
      OBVIOUS
    <2>3. IsSeq(<<>>)
      BY <2>1, Ranged
    <2> QED BY <2>2, <2>3
  <1>2. PipeInv
    BY <1>1 DEF Init, PipeInv, RunsFit, MailFits, IsRun, NoRun
  <1>3. GetsFit /\ ScoresFit
    BY <1>1 DEF Init, GetsFit, GetFit, NoGet, ScoresFit
  <1>4. CallsFit /\ OracleFits
    BY VerificationAssumption DEF Init, CallsFit, OracleFits, NoGet, Resting, Callers
  <1>5. ChecksFit
    BY DEF Init, ChecksFit
  <1> QED BY <1>2, <1>3, <1>4, <1>5 DEF ScoreInv

LEMMA ScoreInvariance == Spec => [](ScoreInv /\ PipeInv /\ ChecksFit)
PROOF
  BY ScoreStarts, ScorePreserved, PTL DEF Spec

\* Approval rests on audits on record: one that passed its tests under a whole scan,
\* and one without a critical finding whose score it is.
THEOREM ApprovalHasEvidence == Spec => []Evidence
PROOF
  <1>1. ScoreInv => Evidence
    <2> SUFFICES ASSUME ScoreInv, Approved
                 PROVE  \E i, j \in DOMAIN audits, a \in 0..checks.allowed, d \in 0..dismissed :
                          /\ Clean(audits[i].t)
                          /\ audits[j].t.crit = 0 /\ Scorable(audits[j].t)
                          /\ oracle.trust = TrustScore(audits[j].t, [allowed |-> a, total |-> a + d])
      BY DEF Evidence
    <2>1. Measured(oracle.sig) /\ Earned(oracle.trust, 0)
      BY RowIsFit DEF ScoreInv, Approved, RowFits
    <2>2. PICK j \in DOMAIN audits, a \in 0..checks.allowed, d \in 0..dismissed :
            /\ audits[j].t.crit = 0 /\ Scorable(audits[j].t)
            /\ oracle.trust = TrustScore(audits[j].t, [allowed |-> a, total |-> a + d])
      <3>1. PICK j \in DOMAIN audits, a \in 0..checks.allowed, r \in 0..checks.rejected :
              /\ audits[j].t.crit = 0 /\ Scorable(audits[j].t)
              /\ oracle.trust = TrustScore(audits[j].t, [allowed |-> a, total |-> a + r])
        BY <2>1 DEF Earned
      <3>2. checks.rejected = dismissed
        BY DEF Approved
      <3> QED BY <3>1, <3>2
    <2>3. oracle.sig # Fresh.sig
      <3>0. PICK t : t.total = 0 /\ Fresh.sig = Signals(t)
        BY DEF Fresh
      <3>1. ASSUME Signals(t).tests PROVE t.total > 0
        BY <3>1 DEF Signals
      <3>2. ~Signals(t).tests
        BY <3>0, <3>1
      <3>3. ~Fresh.sig.tests
        BY <3>0, <3>2
      <3> QED BY <3>3 DEF Approved
    <2>4. PICK i \in DOMAIN audits : Signals(audits[i].t) = oracle.sig
      BY <2>1, <2>3 DEF Measured
    <2>5. Clean(audits[i].t)
      <3>1. Signals(audits[i].t).tests /\ Signals(audits[i].t).security
        BY <2>4 DEF Approved
      <3> QED BY <3>1 DEF Signals, Clean
    <2> QED BY <2>2, <2>5
  <1> QED BY <1>1, ScoreInvariance, PTL

\* An AUDIT_COMPLETED says what its row of audit_results says, and the oracle has the
\* signals of such a row.
THEOREM SignalsAreOnRecord == Spec => []SignalsHaveAudit
PROOF
  <1>1. ScoreInv /\ PipeInv => SignalsHaveAudit
    BY RowIsFit DEF ScoreInv, PipeInv, MailFits, OnRecord, RowFits, Measured, SignalsHaveAudit
  <1> QED BY <1>1, ScoreInvariance, PTL

\* A score never gives way to one with an older stamp.
THEOREM NewestScoreStays == Spec => ScoresKeepOrder
PROOF
  <1>1. ScoreInv /\ PipeInv /\ ChecksFit /\ [Next]_vars => [oracle # None => oracle'.at >= oracle.at]_oracle
    BY ScorePreserved DEF Newer
  <1> QED BY <1>1, ScoreInvariance, PTL DEF Spec, ScoresKeepOrder

Worth(t) == 100 * t.passed >= 62 * t.total /\ t.maint >= 40 /\ Security(t) >= 25

WorthIsThere ==
  Approved => \E j \in DOMAIN audits :
                audits[j].t.crit = 0 /\ (Counted(audits[j].t) => Worth(audits[j].t))

\* What is released was worth something: an approval goes back to an audit on record
\* without a critical finding and, if its counts add up, with at least 62 % of its tests
\* passed, a maintainability of 40 and a security score of 25 (evaluate of oracle.ts,
\* _build_terms of xai.py).
THEOREM ApprovalIsDemanding == Spec => []WorthIsThere
PROOF
  <1>1. ChecksFit /\ Evidence => WorthIsThere
    <2> SUFFICES ASSUME ChecksFit, Evidence, Approved
                 PROVE  \E j \in DOMAIN audits :
                          audits[j].t.crit = 0 /\ (Counted(audits[j].t) => Worth(audits[j].t))
      BY DEF WorthIsThere
    <2>1. PICK j \in DOMAIN audits, a \in 0..checks.allowed, d \in 0..checks.rejected :
            /\ audits[j].t.crit = 0
            /\ oracle.trust = TrustScore(audits[j].t, [allowed |-> a, total |-> a + d])
      BY DEF Evidence, Approved
    <2>2. ASSUME Counted(audits[j].t) PROVE Worth(audits[j].t)
      <3> DEFINE t == audits[j].t   s == [allowed |-> a, total |-> a + d]
      <3>1. Checks(s)
        BY DEF Checks, ChecksFit
      <3>2. TrustScore(t, s) >= 85 * 100
        BY <2>1 DEF Approved, Threshold
      <3> HIDE DEF t, s
      <3>3. Counted(t)
        BY <2>2 DEF t
      <3>4. Worth(t)
        BY <3>1, <3>2, <3>3, ThresholdIsDemanding DEF Worth
      <3> QED BY <3>4 DEF t
    <2> QED BY <2>1, <2>2
  <1> QED BY <1>1, ApprovalHasEvidence, ScoreInvariance, PTL

-------------------------------------------------------------------------------
\* Chat.

Allowed == {c \in Chats : chat[c].pc = "answered" /\ chat[c].allowed}

\* The counts are numbers, and a message answered but not yet delivered is counted too.
ChatInv ==
  /\ chat = [c \in Chats |-> chat[c]]
  /\ \A c \in Chats : chat[c] = [pc |-> chat[c].pc, allowed |-> chat[c].allowed, waiting |-> chat[c].waiting]
  /\ checks = [allowed |-> checks.allowed, rejected |-> checks.rejected]
  /\ checks.allowed \in Nat /\ delivered \in Nat
  /\ DeliveredIsRecorded

LEMMA AllowedIsFinite == IsFiniteSet(Allowed) /\ Cardinality(Allowed) \in Nat
PROOF
  <1>1. IsFiniteSet(Allowed)
    BY VerificationAssumption, FS_Subset DEF Allowed
  <1> QED BY <1>1, FS_CardinalityType

LEMMA ChatMoves ==
  ASSUME ChatInv, NEW c \in Chats, NEW r, chat' = [chat EXCEPT ![c] = r]
  PROVE  /\ chat' = [d \in Chats |-> IF d = c THEN r ELSE chat[d]]
         /\ Allowed' = IF r.pc = "answered" /\ r.allowed THEN Allowed \cup {c} ELSE Allowed \ {c}
PROOF
  <1>1. chat' = [d \in Chats |-> IF d = c THEN r ELSE chat[d]]
    BY DEF ChatInv
  <1>2. chat'[c] = r
    BY <1>1
  <1>3. c \in Allowed' <=> r.pc = "answered" /\ r.allowed
    BY <1>2 DEF Allowed
  <1>4. ASSUME NEW d \in Chats, d # c PROVE d \in Allowed' <=> d \in Allowed
    <2>1. chat'[d] = chat[d]
      BY <1>1, <1>4
    <2> QED BY <2>1 DEF Allowed
  <1>5. Allowed' \subseteq Chats /\ Allowed \subseteq Chats
    BY DEF Allowed
  <1> QED BY <1>1, <1>3, <1>4, <1>5

LEMMA ChatKept ==
  ASSUME ChatInv, NEW c \in Chats, NEW r, chat' = [chat EXCEPT ![c] = r],
         r = [pc |-> r.pc, allowed |-> r.allowed, waiting |-> r.waiting],
         checks' = [allowed |-> checks'.allowed, rejected |-> checks'.rejected],
         checks'.allowed \in Nat, delivered' \in Nat,
         \/ r.pc = "answered" /\ r.allowed /\ delivered' = delivered /\ checks'.allowed = checks.allowed + 1
         \/ r.pc = "answered" /\ r.allowed /\ delivered' = delivered /\ c \in Allowed
            /\ checks'.allowed = checks.allowed
         \/ ~(r.pc = "answered" /\ r.allowed) /\ delivered' = delivered /\ checks'.allowed >= checks.allowed
         \/ ~(r.pc = "answered" /\ r.allowed) /\ delivered' = delivered + 1 /\ c \in Allowed
            /\ checks'.allowed = checks.allowed
  PROVE  ChatInv'
PROOF
  <1>1. /\ chat' = [d \in Chats |-> IF d = c THEN r ELSE chat[d]]
        /\ Allowed' = IF r.pc = "answered" /\ r.allowed THEN Allowed \cup {c} ELSE Allowed \ {c}
    BY ChatMoves
  <1>2. delivered + Cardinality(Allowed) <= checks.allowed /\ delivered \in Nat /\ checks.allowed \in Nat
    BY DEF ChatInv, DeliveredIsRecorded, Allowed
  <1>3. IsFiniteSet(Allowed) /\ Cardinality(Allowed) \in Nat
    BY AllowedIsFinite
  <1>4. /\ Cardinality(Allowed \cup {c}) = IF c \in Allowed THEN Cardinality(Allowed) ELSE Cardinality(Allowed) + 1
        /\ Cardinality(Allowed \ {c}) = IF c \in Allowed THEN Cardinality(Allowed) - 1 ELSE Cardinality(Allowed)
    BY <1>3, FS_AddElement, FS_RemoveElement
  <1>5. delivered' + Cardinality(Allowed') <= checks'.allowed
    <2>1. CASE r.pc = "answered" /\ r.allowed
      BY <1>1, <1>2, <1>3, <1>4, <2>1
    <2>2. CASE ~(r.pc = "answered" /\ r.allowed)
      BY <1>1, <1>2, <1>3, <1>4, <2>2
    <2> QED BY <2>1, <2>2
  <1>6. DeliveredIsRecorded'
    BY <1>5 DEF DeliveredIsRecorded, Allowed
  <1>7. \A d \in Chats : chat'[d] = [pc |-> chat'[d].pc, allowed |-> chat'[d].allowed, waiting |-> chat'[d].waiting]
    BY <1>1 DEF ChatInv
  <1> QED BY <1>1, <1>6, <1>7 DEF ChatInv

LEMMA ChatPreserved == ASSUME ChatInv, NEW c \in Chats, Say(c) \/ Check(c) \/ GiveUp(c) \/ Reply(c) PROVE ChatInv'
PROOF
  <1>0. /\ chat = [d \in Chats |-> chat[d]]
        /\ chat[c] = [pc |-> chat[c].pc, allowed |-> chat[c].allowed, waiting |-> chat[c].waiting]
        /\ checks = [allowed |-> checks.allowed, rejected |-> checks.rejected]
        /\ checks.allowed \in Nat /\ delivered \in Nat
        /\ (c \in Allowed <=> chat[c].pc = "answered" /\ chat[c].allowed)
    BY DEF ChatInv, Allowed
  <1>1. CASE Say(c)
    <2>1. PICK r : chat' = [chat EXCEPT ![c] = r] /\ \E ok \in BOOLEAN : r = [pc |-> "check", allowed |-> ok, waiting |-> TRUE]
      BY <1>1 DEF Say
    <2>2. r = [pc |-> r.pc, allowed |-> r.allowed, waiting |-> r.waiting] /\ r.pc # "answered"
      BY <2>1
    <2> QED BY <1>0, <1>1, <2>1, <2>2, ChatKept DEF Say
  <1>2. CASE Check(c)
    <2>1. CASE chat' = [chat EXCEPT ![c] = NoChat] /\ UNCHANGED checks
      BY <1>0, <1>2, <2>1, ChatKept DEF Check, NoChat
    <2>2. CASE /\ checks' = IF chat[c].allowed THEN [checks EXCEPT !.allowed = @ + 1]
                                               ELSE [checks EXCEPT !.rejected = @ + 1]
               /\ ChatGoto(c, IF chat[c].waiting THEN "answered" ELSE "idle")
      <3>1. PICK r : r = [chat[c] EXCEPT !.pc = IF chat[c].waiting THEN "answered" ELSE "idle"]
        OBVIOUS
      <3>2. /\ r = [pc |-> r.pc, allowed |-> r.allowed, waiting |-> r.waiting] /\ r.allowed = chat[c].allowed
            /\ chat' = [chat EXCEPT ![c] = r]
        BY <1>0, <2>2, <3>1 DEF ChatGoto
      <3>3. CASE chat[c].allowed
        <4>1. checks' = [allowed |-> checks.allowed + 1, rejected |-> checks.rejected]
          BY <1>0, <2>2, <3>3
        <4>2. checks' = [allowed |-> checks'.allowed, rejected |-> checks'.rejected] /\ checks'.allowed = checks.allowed + 1
          BY <4>1
        <4>3. delivered' = delivered /\ checks'.allowed \in Nat /\ checks'.allowed >= checks.allowed
          BY <1>0, <1>2, <4>2 DEF Check
        <4> QED BY <1>0, <3>2, <3>3, <4>2, <4>3, ChatKept
      <3>4. CASE ~chat[c].allowed
        <4>1. checks' = [allowed |-> checks.allowed, rejected |-> checks.rejected + 1]
          BY <1>0, <2>2, <3>4
        <4>2. checks' = [allowed |-> checks'.allowed, rejected |-> checks'.rejected] /\ checks'.allowed = checks.allowed
          BY <4>1
        <4>3. delivered' = delivered /\ checks'.allowed \in Nat /\ checks'.allowed >= checks.allowed
          BY <1>0, <1>2, <4>2 DEF Check
        <4> QED BY <1>0, <3>2, <3>4, <4>2, <4>3, ChatKept
      <3> QED BY <3>3, <3>4
    <2> QED BY <1>2, <2>1, <2>2 DEF Check
  <1>3. CASE GiveUp(c)
    <2>1. PICK r : r = [chat[c] EXCEPT !.waiting = FALSE]
      OBVIOUS
    <2>2. /\ r = [pc |-> r.pc, allowed |-> r.allowed, waiting |-> r.waiting] /\ r.pc = chat[c].pc
          /\ chat' = [chat EXCEPT ![c] = r] /\ r.pc # "answered"
      BY <1>0, <1>3, <2>1 DEF GiveUp
    <2> QED BY <1>0, <1>3, <2>2, ChatKept DEF GiveUp
  <1>4. CASE Reply(c)
    <2>1. /\ NoChat = [pc |-> NoChat.pc, allowed |-> NoChat.allowed, waiting |-> NoChat.waiting]
          /\ NoChat.pc # "answered" /\ chat' = [chat EXCEPT ![c] = NoChat] /\ checks' = checks
      BY <1>4 DEF Reply, NoChat
    <2>2. delivered' = delivered \/ (delivered' = delivered + 1 /\ c \in Allowed)
      BY <1>0, <1>4 DEF Reply
    <2>3. delivered' \in Nat /\ checks.allowed >= checks.allowed
      BY <1>0, <2>2
    <2> QED BY <1>0, <2>1, <2>2, <2>3, ChatKept
  <1> QED BY <1>1, <1>2, <1>3, <1>4

\* Every delivered message has an allowed row of its own in scope_checks.
THEOREM DeliveriesAreRecorded == Spec => []DeliveredIsRecorded
PROOF
  <1>1. Init => ChatInv
    <2> SUFFICES ASSUME Init PROVE ChatInv
      OBVIOUS
    <2>1. Allowed = {} /\ delivered = 0 /\ checks.allowed = 0
      BY DEF Init, Allowed, NoChat
    <2>2. DeliveredIsRecorded
      BY <2>1, FS_EmptySet DEF DeliveredIsRecorded, Allowed
    <2> QED BY <2>1, <2>2 DEF Init, ChatInv, NoChat
  <1>2. ChatInv /\ [Next]_vars => ChatInv'
    <2> SUFFICES ASSUME ChatInv, [Next]_vars PROVE ChatInv'
      OBVIOUS
    <2>1. ASSUME UNCHANGED talking PROVE ChatInv'
      BY <2>1 DEF talking, ChatInv, DeliveredIsRecorded
    <2>2. CASE Webhook \/ CheckReal \/ Simulate \/ Assign \/ Dismiss
      BY <2>1, <2>2 DEF Webhook, CheckReal, Simulate, Assign, Dismiss
    <2>3. ASSUME NEW w \in CIWorkers, CIStep(w) \/ CrashCI(w) PROVE ChatInv'
      BY <2>1, <2>3 DEF CIStep, CrashCI, Take, Analyze, Save, Publish
    <2>4. ASSUME NEW g \in Gets, View(g) \/ GetStep(g) \/ TimeOut(g) PROVE ChatInv'
      BY <2>1, <2>4 DEF View, GetStep, Read, Compute, Stamp, PublishScore, TimeOut
    <2>5. CASE RecordAudit \/ Sweep \/ RecordScore \/ CrashWorker
      BY <2>1, <2>5 DEF RecordAudit, Sweep, RecordScore, CrashWorker
    <2>6. ASSUME NEW c \in Callers, CallerStep(c) PROVE ChatInv'
      BY <2>1, <2>6 DEF CallerStep, Count, Try, Conclude
    <2>7. CASE UNCHANGED vars
      BY <2>1, <2>7 DEF vars
    <2> QED BY <2>2, <2>3, <2>4, <2>5, <2>6, <2>7, ChatPreserved DEF Next
  <1>3. ChatInv => DeliveredIsRecorded
    BY DEF ChatInv
  <1> QED BY <1>1, <1>2, <1>3, PTL DEF Spec

-------------------------------------------------------------------------------
\* The arithmetic of audits and alarms: induction on the numbers.

\* Every set of numbers has a least one.
LEMMA LeastNumber ==
  ASSUME NEW S \in SUBSET Nat, S # {}
  PROVE  \E n \in S : \A m \in S : n <= m
PROOF
  <1> DEFINE R == OpToRel(<, Nat)
  <1>1. PICK n \in S : \A m \in S : <<m, n>> \notin R
    <2>1. IsWellFoundedOn(R, Nat)
      BY NatLessThanWellFounded
    <2> HIDE DEF R
    <2> QED BY <2>1, WFMin
  <1>2. \A l, m \in Nat : <<m, l>> \notin R => l <= m
    <2>1. \A l, m \in Nat : <<m, l>> \notin R => ~(m < l)
      BY Zenon DEF OpToRel
    <2> HIDE DEF R
    <2> QED BY <2>1
  <1> HIDE DEF R
  <1>3. ASSUME NEW m \in S PROVE n <= m
    BY <1>1, <1>2
  <1> QED BY <1>3

\* Induction, on a set of numbers.
LEMMA Induction ==
  ASSUME NEW S \in SUBSET Nat, 0 \in S, \A n \in S : n + 1 \in S
  PROVE  S = Nat
PROOF
  <1> SUFFICES ASSUME S # Nat PROVE FALSE
    OBVIOUS
  <1> DEFINE T == Nat \ S
  <1>1. PICK n \in T : \A m \in T : n <= m
    BY LeastNumber
  <1>2. n # 0 /\ n \in Nat /\ n - 1 \in Nat /\ ~(n <= n - 1)
    BY <1>1
  <1>3. n - 1 \in S
    BY <1>1, <1>2
  <1>4. (n - 1) + 1 = n
    BY <1>2
  <1> QED BY <1>1, <1>3, <1>4

-------------------------------------------------------------------------------
\* What filters and lists keep.

\* Filtering a sequence keeps what stands at the places asked for, and nothing else.
LEMMA FilteredIs ==
  ASSUME NEW s, IsSeq(s), NEW I, I \in SUBSET (DOMAIN s)
  PROVE  /\ IsFiniteSet(I) /\ Cardinality(I) \in Nat
         /\ IsSeq(Filtered(s, I)) /\ Len(Filtered(s, I)) = Cardinality(I)
         /\ \A k \in 1..Cardinality(I) : \E i \in I : Filtered(s, I)[k] = s[i]
         /\ \A i \in I : \E k \in 1..Cardinality(I) : Filtered(s, I)[k] = s[i]
PROOF
  <1> DEFINE n == Cardinality(I)
             Upto(i) == {j \in I : j <= i}
             r == [i \in I |-> Cardinality(Upto(i))]
  <1>1. Len(s) \in Nat /\ DOMAIN s = 1..Len(s)
    BY DEF IsSeq
  <1>2. IsFiniteSet(I) /\ n \in Nat /\ I \in SUBSET Nat
    <2>1. IsFiniteSet(1..Len(s))
      BY <1>1, FS_Interval
    <2> QED BY <1>1, <2>1, FS_Subset, FS_CardinalityType
  <1>3. ASSUME NEW i \in I
        PROVE  IsFiniteSet(Upto(i)) /\ Cardinality(Upto(i)) \in 1..n /\ i \in Upto(i)
    <2>1. i \in Upto(i) /\ Upto(i) \in SUBSET I
      BY <1>2
    <2>2. IsFiniteSet(Upto(i)) /\ Cardinality(Upto(i)) <= n /\ Cardinality(Upto(i)) \in Nat
      BY <1>2, <2>1, FS_Subset, FS_CardinalityType
    <2>3. Cardinality(Upto(i)) # 0
      BY <2>1, <2>2, FS_EmptySet
    <2> HIDE DEF Upto, n
    <2> QED BY <1>2, <2>1, <2>2, <2>3
  <1>4. ASSUME NEW i \in I, NEW j \in I, i < j
        PROVE  Cardinality(Upto(i)) < Cardinality(Upto(j))
    <2>1. Upto(i) \in SUBSET Upto(j) /\ Upto(i) # Upto(j)
      <3>1. j \in Upto(j) /\ j \notin Upto(i)
        BY <1>2, <1>4
      <3>2. \A k \in I : k <= i => k <= j
        BY <1>2, <1>4
      <3> QED BY <3>1, <3>2
    <2>2. IsFiniteSet(Upto(i)) /\ IsFiniteSet(Upto(j)) /\ Cardinality(Upto(i)) \in Nat /\ Cardinality(Upto(j)) \in Nat
      BY <1>3, FS_CardinalityType
    <2> HIDE DEF Upto
    <2>3. Cardinality(Upto(i)) <= Cardinality(Upto(j)) /\ Cardinality(Upto(i)) # Cardinality(Upto(j))
      BY <2>1, <2>2, FS_Subset
    <2> QED BY <2>2, <2>3
  <1>5. r \in Injection(I, 1..n)
    <2>1. r \in [I -> 1..n]
      BY <1>3
    <2>2. ASSUME NEW i \in I, NEW j \in I, r[i] = r[j] PROVE i = j
      <3>1. Cardinality(Upto(i)) = Cardinality(Upto(j))
        BY <2>2
      <3>2. Cardinality(Upto(i)) \in Nat /\ Cardinality(Upto(j)) \in Nat
        BY <1>3, FS_CardinalityType
      <3> HIDE DEF Upto
      <3> QED BY <1>2, <1>4, <3>1, <3>2
    <2> HIDE DEF r
    <2> QED BY <2>1, <2>2 DEF Injection, IsInjective
  <1>6. \A k \in 1..n : \E i \in I : Cardinality(Upto(i)) = k
    <2>1. IsFiniteSet(1..n) /\ Cardinality(1..n) = n
      BY <1>2, FS_Interval
    <2>2. r \in Surjection(I, 1..n)
      <3> HIDE DEF r, n
      <3> QED BY <1>5, <2>1, FS_Injection DEF n
    <2> HIDE DEF Upto
    <2> QED BY <2>2 DEF Surjection
  <1> DEFINE f == Filtered(s, I)
             At(k) == CHOOSE i \in I : Cardinality(Upto(i)) = k
  <1>7. f = [k \in 1..n |-> s[At(k)]]
    BY DEF Filtered
  <1>8. ASSUME NEW i \in I PROVE At(Cardinality(Upto(i))) = i
    <2>1. At(Cardinality(Upto(i))) \in I /\ Cardinality(Upto(At(Cardinality(Upto(i))))) = Cardinality(Upto(i))
      <3> HIDE DEF Upto
      <3> QED OBVIOUS
    <2>2. \A j \in I : Cardinality(Upto(j)) = Cardinality(Upto(i)) => j = i
      <3>1. \A j \in I : Cardinality(Upto(j)) \in Nat
        BY <1>3, FS_CardinalityType
      <3> HIDE DEF Upto
      <3>2. \A j \in I : ~(i < j) \/ Cardinality(Upto(i)) < Cardinality(Upto(j))
        BY <1>4
      <3>3. \A j \in I : ~(j < i) \/ Cardinality(Upto(j)) < Cardinality(Upto(i))
        BY <1>4
      <3> QED BY <1>2, <3>1, <3>2, <3>3
    <2> HIDE DEF At, Upto
    <2> QED BY <2>1, <2>2
  <1> HIDE DEF Upto, r
  <1>9. \A k \in 1..n : At(k) \in I
    BY <1>6
  <1> HIDE DEF f, At, n
  <1>10. \A k \in 1..n : \E i \in I : f[k] = s[i]
    BY <1>7, <1>9
  <1>11. \A i \in I : \E k \in 1..n : f[k] = s[i]
    <2> SUFFICES ASSUME NEW i \in I PROVE \E k \in 1..n : f[k] = s[i]
      OBVIOUS
    <2>1. Cardinality(Upto(i)) \in 1..n
      BY <1>3
    <2>2. f[Cardinality(Upto(i))] = s[i]
      BY <1>7, <1>8, <2>1
    <2> QED BY <2>1, <2>2
  <1>12. IsSeq(f) /\ Len(f) = n
    <2> DEFINE R == {s[i] : i \in I}
    <2>1. f \in [1..n -> R]
      BY <1>7, <1>9
    <2> HIDE DEF R
    <2>2. f \in Seq(R) /\ Len(f) = n
      <3>1. f \in Seq(R)
        BY <1>2, <2>1, SeqDef
      <3>2. DOMAIN f = 1..n /\ DOMAIN f = 1..Len(f) /\ Len(f) \in Nat
        BY <2>1, <3>1
      <3> QED BY <1>2, <3>1, <3>2
    <2> QED BY <2>2, Ranged
  <1> QED BY <1>2, <1>10, <1>11, <1>12 DEF f, n

\* Filtering a sequence keeps the elements at the places asked for, and no others.
LEMMA FilteredKeeps ==
  ASSUME NEW s, IsSeq(s), NEW I, I \in SUBSET (DOMAIN s)
  PROVE  {Filtered(s, I)[k] : k \in DOMAIN Filtered(s, I)} = {s[i] : i \in I}
PROOF
  <1> DEFINE f == Filtered(s, I)   n == Cardinality(I)
  <1>1. /\ IsSeq(f) /\ Len(f) = n
        /\ \A k \in 1..n : \E i \in I : f[k] = s[i]
        /\ \A i \in I : \E k \in 1..n : f[k] = s[i]
    BY FilteredIs
  <1> HIDE DEF f, n
  <1>2. DOMAIN f = 1..n
    BY <1>1 DEF IsSeq
  <1>3. ASSUME NEW k \in DOMAIN f PROVE f[k] \in {s[i] : i \in I}
    <2>1. PICK i \in I : f[k] = s[i]
      BY <1>1, <1>2, <1>3, Zenon
    <2> QED BY <2>1, Zenon
  <1>4. ASSUME NEW i \in I PROVE s[i] \in {f[k] : k \in DOMAIN f}
    <2>1. PICK k \in 1..n : f[k] = s[i]
      BY <1>1, <1>4, Zenon
    <2>2. k \in DOMAIN f
      BY <1>2, <2>1, Zenon
    <2> QED BY <2>1, <2>2, Zenon
  <1>5. {f[k] : k \in DOMAIN f} = {s[i] : i \in I}
    BY <1>3, <1>4, Zenon
  <1> QED BY <1>5 DEF f

\* A finite set, listed, has each of its elements once.
LEMMA ListedIs ==
  ASSUME NEW S, IsFiniteSet(S)
  PROVE  /\ IsSeq(Listed(S)) /\ Len(Listed(S)) = Cardinality(S)
         /\ \A i \in DOMAIN Listed(S) : Listed(S)[i] \in S
         /\ \A x \in S : \E i \in DOMAIN Listed(S) : Listed(S)[i] = x
PROOF
  <1> DEFINE n == Cardinality(S)
             l == Listed(S)
  <1>1. n \in Nat /\ ExistsBijection(1..n, S)
    BY FS_CardinalityType
  <1>2. PICK b \in [1..n -> S] : \A x \in S : \E i \in 1..n : b[i] = x
    BY <1>1 DEF ExistsBijection, Bijection, Surjection, Injection
  <1>3. \A x \in S : \E i \in DOMAIN b : b[i] = x
    BY <1>2
  <1>4. l \in [1..n -> S] /\ \A x \in S : \E i \in DOMAIN l : l[i] = x
    BY <1>3 DEF Listed
  <1> HIDE DEF l, n
  <1>5. l \in Seq(S) /\ DOMAIN l = 1..n
    BY <1>1, <1>4, SeqDef
  <1>6. Len(l) = n
    BY <1>1, <1>5
  <1> QED BY <1>4, <1>5, <1>6, Ranged DEF l, n

\* Places of two kinds are no more than the places.
LEMMA TwoKinds ==
  ASSUME NEW s, IsSeq(s), NEW a, NEW b, a # b
  PROVE  /\ Of(s, a) \in Nat /\ Of(s, b) \in Nat /\ Len(s) \in Nat
         /\ Of(s, a) + Of(s, b) <= Len(s)
         /\ \A c : Of(s, c) = 0 => \A i \in DOMAIN s : s[i].severity # c
PROOF
  <1> DEFINE D == DOMAIN s
             P(c) == {i \in D : s[i].severity = c}
  <1>1. Len(s) \in Nat /\ D = 1..Len(s)
    BY DEF IsSeq
  <1>2. IsFiniteSet(D) /\ Cardinality(D) = Len(s)
    <2>1. IsFiniteSet(1..Len(s)) /\ Cardinality(1..Len(s)) = IF 1 > Len(s) THEN 0 ELSE Len(s) - 1 + 1
      BY <1>1, FS_Interval
    <2> QED BY <1>1, <2>1
  <1>3. \A c : P(c) \in SUBSET D
    OBVIOUS
  <1>4. P(a) \cap P(b) = {}
    OBVIOUS
  <1>5. \A c : Of(s, c) = Cardinality(P(c))
    BY DEF Of
  <1> HIDE DEF D, P
  <1>6. \A c : IsFiniteSet(P(c)) /\ Cardinality(P(c)) \in Nat
    BY <1>2, <1>3, FS_Subset, FS_CardinalityType
  <1>7. /\ IsFiniteSet(P(a) \cup P(b))
        /\ Cardinality(P(a) \cup P(b)) = Cardinality(P(a)) + Cardinality(P(b)) - Cardinality(P(a) \cap P(b))
    BY <1>6, FS_Union
  <1>8. Cardinality(P(a) \cap P(b)) = 0
    BY <1>4, FS_EmptySet
  <1>9. Cardinality(P(a) \cup P(b)) <= Cardinality(D)
    <2>1. P(a) \cup P(b) \in SUBSET D
      BY <1>3
    <2> QED BY <1>2, <2>1, FS_Subset
  <1>10. \A c : Cardinality(P(c)) = 0 => P(c) = {}
    BY <1>6, FS_EmptySet
  <1>11. \A c : P(c) = {} => \A i \in D : s[i].severity # c
    BY DEF P
  <1> QED BY <1>1, <1>2, <1>5, <1>6, <1>7, <1>8, <1>9, <1>10, <1>11 DEF D


-------------------------------------------------------------------------------
\* The recursions of AuditRun and Analysis have the values their definitions say.

\* One turn of the loop over the cases of a suite, or over a conversation.
Advance(of, over, prev, j) ==
  CASE of = "suite" -> Turn(prev, over[j])
    [] of = "talk"  -> Observe(prev, over[j])

IsRecursion(f, of, over, a) ==
  f = [j \in Nat |-> IF j = 0 THEN a ELSE Advance(of, over, f[j - 1], j)]

Values(of, over, a) == CHOOSE f : IsRecursion(f, of, over, a)

\* A function defined by recursion on the number of steps exists: its beginnings do, by
\* induction, and any two of them agree.
LEMMA RecursionExists ==
  ASSUME NEW of, NEW over, NEW a
  PROVE  \E f : IsRecursion(f, of, over, a)
PROOF
  <1> DEFINE Approx(g, n) == g = [j \in 0..n |-> IF j = 0 THEN a ELSE Advance(of, over, g[j - 1], j)]
             S == {n \in Nat : \E g : Approx(g, n)}
  <1>1. S = Nat
    <2>1. 0 \in S
      <3> DEFINE g == [j \in 0..0 |-> a]
      <3>1. Approx(g, 0)
        OBVIOUS
      <3> QED BY <3>1
    <2>2. ASSUME NEW n \in S PROVE n + 1 \in S
      <3>1. PICK g : Approx(g, n)
        OBVIOUS
      <3> DEFINE h == [j \in 0..(n + 1) |-> IF j = 0 THEN a ELSE Advance(of, over, g[j - 1], j)]
      <3>2. n \in Nat
        OBVIOUS
      <3>3. ASSUME NEW j \in 0..(n + 1), j # 0 PROVE h[j - 1] = g[j - 1]
        <4>1. j - 1 \in 0..n /\ j - 1 \in 0..(n + 1)
          BY <3>2, <3>3
        <4>2. g[j - 1] = IF j - 1 = 0 THEN a ELSE Advance(of, over, g[(j - 1) - 1], j - 1)
          BY <3>1, <4>1
        <4> QED BY <4>1, <4>2
      <3>4. Approx(h, n + 1)
        BY <3>3
      <3>5. n + 1 \in Nat
        BY <3>2
      <3> HIDE DEF h, Approx
      <3> QED BY <3>4, <3>5
    <2> HIDE DEF S
    <2>3. S \in SUBSET Nat
      BY DEF S
    <2> QED BY <2>1, <2>2, <2>3, Induction
  <1>2. ASSUME NEW g, NEW h, NEW m \in Nat, NEW n \in Nat, m <= n, Approx(g, m), Approx(h, n)
        PROVE  \A j \in 0..m : g[j] = h[j]
    <2> DEFINE T == {j \in Nat : j <= m => g[j] = h[j]}
    <2>1. 0 \in T
      <3>1. 0 \in 0..m /\ 0 \in 0..n
        BY <1>2
      <3>2. g[0] = a /\ h[0] = a
        BY <1>2, <3>1
      <3> QED BY <3>2
    <2>2. ASSUME NEW j \in T PROVE j + 1 \in T
      <3>1. CASE j + 1 <= m
        <4>1. j + 1 \in 0..m /\ j + 1 \in 0..n /\ j + 1 # 0 /\ (j + 1) - 1 = j /\ j <= m
          BY <1>2, <3>1
        <4>2. g[j + 1] = Advance(of, over, g[j], j + 1) /\ h[j + 1] = Advance(of, over, h[j], j + 1)
          BY <1>2, <4>1
        <4> QED BY <4>1, <4>2
      <3>2. CASE ~(j + 1 <= m)
        BY <3>2
      <3> QED BY <3>1, <3>2
    <2>3. T = Nat
      <3> HIDE DEF T
      <3>1. T \in SUBSET Nat
        BY DEF T
      <3> QED BY <2>1, <2>2, <3>1, Induction
    <2> QED BY <2>3
  <1> DEFINE G(n) == CHOOSE g : Approx(g, n)
             f == [n \in Nat |-> G(n)[n]]
  <1>3. \A n \in Nat : Approx(G(n), n)
    <2> HIDE DEF Approx
    <2> QED BY <1>1
  <1>4. ASSUME NEW n \in Nat PROVE f[n] = IF n = 0 THEN a ELSE Advance(of, over, f[n - 1], n)
    <2>0. f[n] = G(n)[n]
      OBVIOUS
    <2>1. n \in 0..n
      OBVIOUS
    <2>2. G(n)[n] = IF n = 0 THEN a ELSE Advance(of, over, G(n)[n - 1], n)
      <3> HIDE DEF G
      <3> QED BY <1>3, <2>1
    <2>3. ASSUME n # 0 PROVE G(n)[n - 1] = f[n - 1]
      <3>1. n - 1 \in Nat /\ n - 1 <= n /\ n - 1 \in 0..(n - 1)
        BY <2>3
      <3>2. f[n - 1] = G(n - 1)[n - 1]
        BY <3>1
      <3>3. Approx(G(n - 1), n - 1) /\ Approx(G(n), n)
        BY <1>3, <3>1
      <3> HIDE DEF G, Approx, f
      <3> QED BY <1>2, <3>1, <3>2, <3>3
    <2> HIDE DEF f, G
    <2> QED BY <2>0, <2>2, <2>3
  <1>5. f = [n \in Nat |-> IF n = 0 THEN a ELSE Advance(of, over, f[n - 1], n)]
    <2>1. f = [n \in Nat |-> f[n]]
      OBVIOUS
    <2> HIDE DEF f
    <2> QED BY <1>4, <2>1
  <1> QED BY <1>5 DEF IsRecursion

\* Its first value, and the value one step on.
LEMMA Recursion ==
  ASSUME NEW of, NEW over, NEW a
  PROVE  /\ Values(of, over, a)[0] = a
         /\ \A k \in Nat : Values(of, over, a)[k + 1] = Advance(of, over, Values(of, over, a)[k], k + 1)
PROOF
  <1> DEFINE g == Values(of, over, a)
  <1>1. IsRecursion(g, of, over, a)
    BY RecursionExists DEF Values
  <1> HIDE DEF g
  <1>2. \A k \in Nat : k + 1 \in Nat /\ k + 1 # 0 /\ (k + 1) - 1 = k
    OBVIOUS
  <1>3. \A j \in Nat : g[j] = IF j = 0 THEN a ELSE Advance(of, over, g[j - 1], j)
    BY <1>1 DEF IsRecursion
  <1>4. \A k \in Nat : g[k + 1] = Advance(of, over, g[k], k + 1)
    BY <1>2, <1>3
  <1> QED BY <1>3, <1>4 DEF g

\* A suite, one case after another.
LEMMA RanIs ==
  ASSUME NEW cases
  PROVE  /\ Ran(cases, 0) = [passed |-> 0, failed |-> 0, loose |-> FALSE, dead |-> FALSE]
         /\ \A n \in Nat : Ran(cases, n + 1) = Turn(Ran(cases, n), cases[n + 1])
PROOF
  <1> DEFINE a == [passed |-> 0, failed |-> 0, loose |-> FALSE, dead |-> FALSE]
  <1>1. \A n : Ran(cases, n) = Values("suite", cases, a)[n]
    BY DEF Ran, Advance, Values, IsRecursion
  <1> HIDE DEF a
  <1> QED BY <1>1, Recursion DEF Advance, a

CaseKinds == {"passes", "fails", "floats", "waits", "hangs", "skipped"}

\* While the process lives, every case that is not skipped has passed or failed.
LEMMA CasesCounted ==
  ASSUME NEW cases, IsSeq(cases), \A i \in DOMAIN cases : cases[i] \in CaseKinds
  PROVE  \A n \in 0..Len(cases) :
           LET run == Ran(cases, n)
           IN  /\ run = [passed |-> run.passed, failed |-> run.failed, loose |-> run.loose, dead |-> run.dead]
               /\ run.passed \in Nat /\ run.failed \in Nat
               /\ ~run.dead => run.passed + run.failed = Cardinality({i \in 1..n : cases[i] # "skipped"})
PROOF
  <1> DEFINE Counts(n) == {i \in 1..n : cases[i] # "skipped"}
             P(n) == LET run == Ran(cases, n)
                     IN  /\ run = [passed |-> run.passed, failed |-> run.failed, loose |-> run.loose, dead |-> run.dead]
                         /\ run.passed \in Nat /\ run.failed \in Nat
                         /\ ~run.dead => run.passed + run.failed = Cardinality(Counts(n))
             T == {n \in Nat : n <= Len(cases) => P(n)}
  <1>1. Len(cases) \in Nat /\ DOMAIN cases = 1..Len(cases)
    BY DEF IsSeq
  <1>2. 0 \in T
    <2>1. Counts(0) = {} /\ Cardinality({}) = 0
      BY FS_EmptySet
    <2> DEFINE zero == [passed |-> 0, failed |-> 0, loose |-> FALSE, dead |-> FALSE]
    <2>2. Ran(cases, 0) = zero
      BY RanIs
    <2>3. zero.passed = 0 /\ zero.failed = 0
      OBVIOUS
    <2>4. zero = [passed |-> zero.passed, failed |-> zero.failed, loose |-> zero.loose, dead |-> zero.dead]
      OBVIOUS
    <2> HIDE DEF Counts, zero
    <2>5. P(0)
      BY <2>1, <2>2, <2>3, <2>4
    <2> HIDE DEF P
    <2> QED BY <2>5
  <1>3. ASSUME NEW n \in T, n + 1 <= Len(cases) PROVE P(n + 1)
    <2> DEFINE run == Ran(cases, n)
               case == cases[n + 1]
    <2>1. n \in Nat /\ n + 1 \in 1..Len(cases) /\ P(n)
      BY <1>1, <1>3
    <2>2. Ran(cases, n + 1) = Turn(run, case) /\ case \in CaseKinds
      BY <1>1, <2>1, RanIs
    <2>3. /\ IsFiniteSet(Counts(n)) /\ Cardinality(Counts(n)) \in Nat
          /\ Counts(n + 1) = IF case = "skipped" THEN Counts(n) ELSE Counts(n) \cup {n + 1}
          /\ n + 1 \notin Counts(n)
      <3>0. n \in Int
        BY <2>1
      <3>1. IsFiniteSet(1..n)
        BY <3>0, FS_Interval
      <3>2. Counts(n) \in SUBSET (1..n)
        OBVIOUS
      <3>3. IsFiniteSet(Counts(n)) /\ Cardinality(Counts(n)) \in Nat
        <4> HIDE DEF Counts
        <4> QED BY <3>1, <3>2, FS_Subset, FS_CardinalityType
      <3>4. \A i : i \in 1..(n + 1) <=> i \in 1..n \/ i = n + 1
        BY <2>1
      <3>5. n + 1 \notin 1..n
        BY <2>1
      <3> HIDE DEF case
      <3> QED BY <3>3, <3>4, <3>5 DEF case
    <2>4. case # "skipped" => Cardinality(Counts(n + 1)) = Cardinality(Counts(n)) + 1
      <3> HIDE DEF Counts, case
      <3> QED BY <2>3, FS_AddElement
    <2>5. case = "skipped" => Counts(n + 1) = Counts(n)
      BY <2>3
    <2> DEFINE c == Cardinality(Counts(n))
               d == Cardinality(Counts(n + 1))
               next == Ran(cases, n + 1)
    <2>6. /\ run = [passed |-> run.passed, failed |-> run.failed, loose |-> run.loose, dead |-> run.dead]
          /\ run.passed \in Nat /\ run.failed \in Nat
          /\ ~run.dead => run.passed + run.failed = c
          /\ c \in Nat /\ d = IF case = "skipped" THEN c ELSE c + 1
      <3> HIDE DEF run, Counts
      <3> QED BY <2>1, <2>3, <2>4, <2>5 DEF run
    <2>7. next = Turn(run, case)
      BY <2>2
    <2> SUFFICES /\ next = [passed |-> next.passed, failed |-> next.failed, loose |-> next.loose, dead |-> next.dead]
                 /\ next.passed \in Nat /\ next.failed \in Nat
                 /\ ~next.dead => next.passed + next.failed = d
      OBVIOUS
    <2> HIDE DEF run, c, d, next, case, Counts
    <2>8. CASE run.dead \/ case = "skipped"
      <3>1. next = run
        BY <2>7, <2>8 DEF Turn
      <3> QED BY <2>6, <2>8, <3>1
    <2>9. CASE ~run.dead /\ case = "passes"
      <3>1. next = [passed |-> run.passed + 1, failed |-> run.failed, loose |-> run.loose, dead |-> run.dead]
        BY <2>6, <2>7, <2>9 DEF Turn
      <3> QED BY <2>6, <2>9, <3>1
    <2>10. CASE ~run.dead /\ case = "fails"
      <3>1. next = [passed |-> run.passed, failed |-> run.failed + 1, loose |-> run.loose, dead |-> run.dead]
        BY <2>6, <2>7, <2>10 DEF Turn
      <3> QED BY <2>6, <2>10, <3>1
    <2>11. CASE ~run.dead /\ case = "floats"
      <3>1. next = [passed |-> run.passed + 1, failed |-> run.failed, loose |-> TRUE, dead |-> run.dead]
        BY <2>6, <2>7, <2>11 DEF Turn
      <3> QED BY <2>6, <2>11, <3>1
    <2>12. CASE ~run.dead /\ case = "waits" /\ ~run.loose
      <3>1. next = [passed |-> run.passed + 1, failed |-> run.failed, loose |-> run.loose, dead |-> run.dead]
        BY <2>6, <2>7, <2>12 DEF Turn
      <3> QED BY <2>6, <2>12, <3>1
    <2>13. CASE ~run.dead /\ case = "hangs" /\ ~run.loose
      <3>1. next = [passed |-> run.passed, failed |-> run.failed + 1, loose |-> run.loose, dead |-> run.dead]
        BY <2>6, <2>7, <2>13 DEF Turn
      <3> QED BY <2>6, <2>13, <3>1
    <2>14. CASE ~run.dead /\ case \in {"waits", "hangs"} /\ run.loose
      <3>1. next = [passed |-> run.passed, failed |-> run.failed, loose |-> run.loose, dead |-> TRUE]
        BY <2>6, <2>7, <2>14 DEF Turn
      <3> QED BY <2>6, <2>14, <3>1
    <2> QED BY <2>2, <2>8, <2>9, <2>10, <2>11, <2>12, <2>13, <2>14 DEF CaseKinds
  <1>4. \A n \in T : n + 1 \in T
    <2> SUFFICES ASSUME NEW n \in T, n + 1 <= Len(cases) PROVE P(n + 1)
      <3> HIDE DEF P
      <3> QED OBVIOUS
    <2> HIDE DEF P, T
    <2> QED BY <1>3
  <1>5. T = Nat
    <2> HIDE DEF P
    <2>1. T \in SUBSET Nat
      OBVIOUS
    <2> HIDE DEF T
    <2> QED BY <1>2, <1>4, <2>1, Induction
  <1>6. \A n \in 0..Len(cases) : P(n)
    <2> HIDE DEF P
    <2> QED BY <1>1, <1>5
  <1> QED BY <1>6


-------------------------------------------------------------------------------
\* Audits.

\* A world a run of the pipeline may find.
IsWorld(w) ==
  /\ w.pin \in {"", "docker", "node"}
  /\ w.repo.tree \in {"whole", "truncated", "unreachable"} /\ IsSeq(w.repo.files)
  /\ IsSeq(w.suite.cases) /\ \A i \in DOMAIN w.suite.cases : w.suite.cases[i] \in CaseKinds
  /\ IsSeq(w.llm) /\ IsSeq(w.own) /\ \A i \in DOMAIN w.own : w.own[i].total \in Int

\* What is printed of a suite counts each of its cases that is not skipped, or none.
LEMMA CountsAre ==
  ASSUME NEW suite, IsSeq(suite.cases), \A i \in DOMAIN suite.cases : suite.cases[i] \in CaseKinds
  PROVE  LET counts == ParsedOutput(Harness(suite))
         IN  /\ Harness(suite) = <<>> \/ \E x : Harness(suite) = <<x>>
             /\ counts.passed \in Nat /\ counts.total \in Nat
             /\ counts.total > 0 =>
                  counts.total = Cardinality({i \in DOMAIN suite.cases : suite.cases[i] # "skipped"})
PROOF
  <1> DEFINE n == Len(suite.cases)
             run == Ran(suite.cases, n)
             counts == ParsedOutput(Harness(suite))
             N == Cardinality({i \in DOMAIN suite.cases : suite.cases[i] # "skipped"})
  <1>1. n \in Nat /\ DOMAIN suite.cases = 1..n
    BY DEF IsSeq
  <1>2. /\ run.passed \in Nat /\ run.failed \in Nat
        /\ ~run.dead => run.passed + run.failed = N
    <2>1. n \in 0..Len(suite.cases)
      BY <1>1
    <2> HIDE DEF n
    <2> QED BY <1>1, <2>1, CasesCounted
  <1>3. \A x : <<x>> # <<>> /\ Head(<<x>>) = x
    OBVIOUS
  <1>4. CASE ~suite.loads
    <2>1. Harness(suite) = <<[passed |-> 0, total |-> 0]>>
      BY <1>4 DEF Harness
    <2>2. counts = [passed |-> 0, total |-> 0]
      BY <1>3, <2>1 DEF ParsedOutput
    <2> HIDE DEF counts, N
    <2> QED BY <2>1, <2>2 DEF counts, N
  <1>5. CASE suite.loads /\ run.dead
    <2>1. Harness(suite) = <<>>
      BY <1>5 DEF Harness
    <2>2. counts = [passed |-> 0, total |-> 0]
      BY <2>1 DEF ParsedOutput
    <2> HIDE DEF counts, N
    <2> QED BY <2>1, <2>2 DEF counts, N
  <1>6. CASE suite.loads /\ ~run.dead
    <2>1. Harness(suite) = <<[passed |-> run.passed, total |-> run.passed + run.failed]>>
      BY <1>6 DEF Harness
    <2>2. counts = [passed |-> run.passed, total |-> run.passed + run.failed]
      BY <1>3, <2>1 DEF ParsedOutput
    <2> HIDE DEF counts, N, run
    <2>3. counts.passed \in Nat /\ counts.total \in Nat /\ counts.total = N
      BY <1>2, <1>6, <2>2
    <2> QED BY <2>1, <2>3 DEF counts, N, run
  <1> QED BY <1>4, <1>5, <1>6

\* What is taken from the output: the pushed code's line, if it prints one, and the
\* harness's otherwise.
LEMMA FirstLineCounts ==
  ASSUME NEW w, IsWorld(w)
  PROVE  LET counts == ParsedOutput(Printed(w))
         IN  /\ counts.total \in Int
             /\ w.own # <<>> => counts = Head(w.own)
             /\ w.own = <<>> /\ counts.total > 0 =>
                  counts.total = Cardinality({i \in DOMAIN w.suite.cases : w.suite.cases[i] # "skipped"})
PROOF
  <1> DEFINE H == Harness(w.suite)
             N == Cardinality({i \in DOMAIN w.suite.cases : w.suite.cases[i] # "skipped"})
  <1>1. /\ H = <<>> \/ \E x : H = <<x>>
        /\ ParsedOutput(H).total \in Nat
        /\ ParsedOutput(H).total > 0 => ParsedOutput(H).total = N
    BY CountsAre DEF IsWorld
  <1>2. IsSeq(w.own) /\ \A i \in DOMAIN w.own : w.own[i].total \in Int
    BY DEF IsWorld
  <1> HIDE DEF H, N
  <1>3. PICK S : H \in Seq(S) /\ w.own \in Seq(S)
    <2>1. PICK T : H \in Seq(T)
      <3>1. CASE H = <<>>
        <4>1. H \in Seq({})
          BY <3>1
        <4> QED BY <4>1
      <3>2. ASSUME NEW x, H = <<x>> PROVE \E T : H \in Seq(T)
        <4>1. H \in Seq({x})
          BY <3>2
        <4> QED BY <4>1
      <3> QED BY <1>1, <3>1, <3>2
    <2>2. H \in Seq(T \cup {w.own[i] : i \in DOMAIN w.own})
      BY <2>1
    <2>3. w.own \in Seq(T \cup {w.own[i] : i \in DOMAIN w.own})
      BY <1>2 DEF IsSeq
    <2> QED BY <2>2, <2>3
  <1>4. Printed(w) = w.own \o H
    BY DEF Printed, H
  <1>5. CASE w.own = <<>>
    <2>1. Printed(w) = H
      BY <1>3, <1>4, <1>5
    <2> QED BY <1>1, <1>5, <2>1 DEF N
  <1>6. CASE w.own # <<>>
    <2>1. Printed(w) # <<>> /\ Head(Printed(w)) = w.own[1] /\ Head(w.own) = w.own[1] /\ 1 \in DOMAIN w.own
      BY <1>3, <1>4, <1>6
    <2>2. ParsedOutput(Printed(w)) = Head(w.own)
      BY <2>1 DEF ParsedOutput
    <2> QED BY <1>2, <1>6, <2>1, <2>2
  <1> QED BY <1>5, <1>6

LEMMA StaticIsFinite == ASSUME NEW perLine, NEW whole PROVE IsFiniteSet(StaticScan(perLine, whole))
PROOF
  <1> DEFINE Places == {p \in Rules \X (1..MaxLines) : p[1] \in perLine[p[2]] \/ whole[p[1]] = p[2]}
             S == {Finding(p[1], p[2]) : p \in Places}
             f == [p \in Places |-> Finding(p[1], p[2])]
  <1>1. IsFiniteSet(Places)
    <2>1. MaxLines \in Int /\ 1 \in Int
      BY AnalysisAssumption
    <2>2. IsFiniteSet(1..MaxLines) /\ IsFiniteSet(Rules)
      BY <2>1, AnalysisAssumption, FS_Interval
    <2>3. IsFiniteSet(Rules \X (1..MaxLines))
      BY <2>2, FS_Product
    <2> QED BY <2>3, FS_Subset
  <1>2. f \in Surjection(Places, S)
    <2> HIDE DEF Places
    <2>1. f \in [Places -> S] /\ \A x \in S : \E p \in Places : f[p] = x
      OBVIOUS
    <2> QED BY <2>1 DEF Surjection
  <1>3. IsFiniteSet(S)
    <2> HIDE DEF Places, S, f
    <2> QED BY <1>1, <1>2, FS_Surjection
  <1>4. StaticScan(perLine, whole) = S
    BY DEF StaticScan
  <1> QED BY <1>3, <1>4

\* A scan has all that the rules find, and what the model finds elsewhere.
LEMMA FindingsAre ==
  ASSUME NEW w, IsWorld(w)
  PROVE  LET found  == Findings(w)
             static == StaticScan(w.rules.perLine, w.rules.whole)
         IN  /\ IsSeq(found)
             /\ \A f \in static : \E k \in DOMAIN found : found[k] = f
             /\ w.model => \A i \in DOMAIN w.llm :
                  w.llm[i].line \in 1..MaxLines =>
                    \/ \E f \in static : Key(f) = Key(w.llm[i])
                    \/ \E k \in DOMAIN found : found[k] = w.llm[i]
PROOF
  <1> DEFINE found  == Findings(w)
             static == StaticScan(w.rules.perLine, w.rules.whole)
             listed == Listed(static)
  <1>1. /\ IsSeq(listed)
        /\ \A f \in static : \E k \in DOMAIN listed : listed[k] = f
    BY StaticIsFinite, ListedIs
  <1>2. CASE ~w.model
    <2>1. found = listed
      BY <1>2 DEF Findings
    <2> HIDE DEF found, static, listed
    <2>2. /\ IsSeq(found)
          /\ \A f \in static : \E k \in DOMAIN found : found[k] = f
      BY <1>1, <2>1
    <2> QED BY <1>2, <2>2 DEF found, static
  <1>3. CASE w.model
    <2> DEFINE I == {i \in DOMAIN w.llm : w.llm[i].line \in 1..MaxLines}
               seen == Filtered(w.llm, I)
               J == {i \in DOMAIN seen : Key(seen[i]) \notin {Key(f) : f \in static}}
               added == Filtered(seen, J)
    <2>1. found = listed \o added
      BY <1>3 DEF Findings, Merge, Normalize
    <2>2. /\ IsSeq(seen) /\ DOMAIN seen = 1..Cardinality(I)
          /\ \A i \in I : \E k \in 1..Cardinality(I) : seen[k] = w.llm[i]
      <3>1. IsSeq(w.llm) /\ I \in SUBSET (DOMAIN w.llm)
        BY DEF IsWorld
      <3>2. IsSeq(seen) /\ Len(seen) = Cardinality(I) /\ \A i \in I : \E k \in 1..Cardinality(I) : seen[k] = w.llm[i]
        <4> HIDE DEF I
        <4> QED BY <3>1, FilteredIs
      <3> HIDE DEF seen, I
      <3>3. DOMAIN seen = 1..Len(seen)
        BY <3>2 DEF IsSeq
      <3> QED BY <3>2, <3>3
    <2>3. /\ IsSeq(added) /\ DOMAIN added = 1..Cardinality(J)
          /\ \A i \in J : \E k \in 1..Cardinality(J) : added[k] = seen[i]
      <3>1. J \in SUBSET (DOMAIN seen)
        OBVIOUS
      <3>2. IsSeq(added) /\ Len(added) = Cardinality(J) /\ \A i \in J : \E k \in 1..Cardinality(J) : added[k] = seen[i]
        <4> HIDE DEF J, seen, I
        <4>1. IsSeq(seen)
          BY <2>2
        <4> QED BY <4>1, <3>1, FilteredIs
      <3> HIDE DEF added, J, seen
      <3>3. DOMAIN added = 1..Len(added)
        BY <3>2 DEF IsSeq
      <3> QED BY <3>2, <3>3
    <2>4. \A i \in DOMAIN w.llm : w.llm[i].line \in 1..MaxLines =>
            \/ \E f \in static : Key(f) = Key(w.llm[i])
            \/ \E k \in DOMAIN added : added[k] = w.llm[i]
      <3> SUFFICES ASSUME NEW i \in DOMAIN w.llm, w.llm[i].line \in 1..MaxLines,
                          \A f \in static : Key(f) # Key(w.llm[i])
                   PROVE  \E k \in DOMAIN added : added[k] = w.llm[i]
        OBVIOUS
      <3>1. i \in I
        OBVIOUS
      <3> HIDE DEF I, seen
      <3>2. PICK k \in DOMAIN seen : seen[k] = w.llm[i]
        BY <2>2, <3>1
      <3>3. k \in J
        BY <3>2
      <3> HIDE DEF J, added
      <3> QED BY <2>3, <3>2, <3>3
    <2> HIDE DEF found, static, listed, added, I, J, seen
    <2> DEFINE R == {listed[k] : k \in DOMAIN listed} \cup {added[k] : k \in DOMAIN added}
    <2>5. listed \in Seq(R) /\ added \in Seq(R)
      BY <1>1, <2>3 DEF IsSeq
    <2> HIDE DEF R
    <2>6. /\ found \in Seq(R) /\ Len(found) = Len(listed) + Len(added)
          /\ \A k \in 1..(Len(listed) + Len(added)) :
               found[k] = IF k <= Len(listed) THEN listed[k] ELSE added[k - Len(listed)]
      BY <2>1, <2>5, ConcatProperties
    <2>7. /\ DOMAIN found = 1..(Len(listed) + Len(added))
          /\ DOMAIN listed = 1..Len(listed) /\ DOMAIN added = 1..Len(added)
          /\ Len(listed) \in Nat /\ Len(added) \in Nat
      BY <2>5, <2>6
    <2>8. IsSeq(found)
      BY <2>6, Ranged
    <2>9. \A k \in DOMAIN listed : k \in DOMAIN found /\ found[k] = listed[k]
      BY <2>6, <2>7
    <2>10. \A k \in DOMAIN added : k + Len(listed) \in DOMAIN found /\ found[k + Len(listed)] = added[k]
      <3> SUFFICES ASSUME NEW k \in DOMAIN added
                   PROVE  k + Len(listed) \in DOMAIN found /\ found[k + Len(listed)] = added[k]
        OBVIOUS
      <3>1. /\ k + Len(listed) \in 1..(Len(listed) + Len(added))
            /\ ~(k + Len(listed) <= Len(listed)) /\ (k + Len(listed)) - Len(listed) = k
        BY <2>7
      <3> QED BY <2>6, <2>7, <3>1
    <2>11. \A f \in static : \E k \in DOMAIN found : found[k] = f
      BY <1>1, <2>9
    <2>12. \A x : (\E k \in DOMAIN added : added[k] = x) => \E k \in DOMAIN found : found[k] = x
      BY <2>10
    <2>13. \A i \in DOMAIN w.llm : w.llm[i].line \in 1..MaxLines =>
             \/ \E f \in static : Key(f) = Key(w.llm[i])
             \/ \E k \in DOMAIN found : found[k] = w.llm[i]
      BY <2>4, <2>12
    <2> QED BY <2>8, <2>11, <2>13 DEF found, static
  <1> QED BY <1>2, <1>3


\* An audit measures what was pushed, with what it was to be measured with, whatever
\* the world is like and whatever is pushed (processCodePush) - and says so, unless the
\* pushed code printed a line of counts of its own, which then stands in the audit.
THEOREM AuditsMeasure ==
  ASSUME sample.of = "push" => IsWorld(sample.world)
  PROVE  AuditIsMeasured
PROOF
  <1> SUFFICES ASSUME NEW w, NEW p, IsWorld(w), Audit(w, p) # Nothing
               PROVE  Measures(Audit(w, p), w, p)
    BY DEF AuditIsMeasured
  <1> DEFINE code      == Code(w, p)
             workspace == Workspace(w, p)
             ran       == Sandboxed(w, workspace)
             found     == Findings(w)
             static    == StaticScan(w.rules.perLine, w.rules.whole)
             maint     == Metrics(w.parsed).maint
             t         == [maint |-> maint, passed |-> ran.passed, total |-> ran.total,
                           vulns |-> Len(found), crit |-> Of(found, "CRITICAL"), high |-> Of(found, "HIGH"),
                           complete |-> w.model]
             a         == Audit(w, p)
             cases     == Cardinality({i \in DOMAIN w.suite.cases : w.suite.cases[i] # "skipped"})
             readable  == {i \in DOMAIN w.repo.files : w.repo.files[i].source /\ w.repo.files[i].blob = "text"}
             kept      == Filtered(w.repo.files, readable)
  <1>1. /\ code # Nothing
        /\ a = [kind |-> "audit", t |-> t, code |-> code, runner |-> ran.runner,
                provisioned |-> ran.provisioned, suite |-> workspace, demo |-> p.demo,
                passed |-> /\ ScanPassed(found) /\ t.complete
                           /\ t.passed = t.total /\ t.total > 0 /\ t.maint > 50]
    BY DEF Audit
  \* The source.
  <1>2. ~p.inline => /\ p.pinned /\ w.fetch /\ w.repo.tree # "truncated" /\ w.repo.tree # "unreachable"
                     /\ code.files = kept /\ kept # <<>>
    <2> SUFFICES ASSUME ~p.inline
                 PROVE  /\ p.pinned /\ w.fetch /\ w.repo.tree # "truncated" /\ w.repo.tree # "unreachable"
                        /\ code.files = kept /\ kept # <<>>
      OBVIOUS
    <2>1. w.fetch /\ code = Fetched(w.repo, p.pinned)
      BY <1>1 DEF Code
    <2>2. /\ p.pinned /\ Reached(w.repo) /\ w.repo.tree # "truncated"
          /\ Readable(w.repo.files) # <<>>
          /\ code = [kind |-> "fetched", files |-> Readable(w.repo.files)]
      <3> HIDE DEF code
      <3> QED BY <1>1, <2>1 DEF Fetched
    <2>3. Readable(w.repo.files) = kept
      BY DEF Readable, Auditable
    <2>4. code.files = Readable(w.repo.files)
      BY <2>2
    <2> HIDE DEF code, kept
    <2> QED BY <2>1, <2>2, <2>3, <2>4 DEF Reached
  <1>3. /\ Len(kept) = Cardinality(readable)
        /\ {kept[k] : k \in DOMAIN kept} = {w.repo.files[i] : i \in readable}
    <2>1. IsSeq(w.repo.files) /\ readable \in SUBSET (DOMAIN w.repo.files)
      BY DEF IsWorld
    <2> HIDE DEF readable
    <2>2. Len(kept) = Cardinality(readable)
      BY <2>1, FilteredIs, Zenon DEF kept
    <2>3. {kept[k] : k \in DOMAIN kept} = {w.repo.files[i] : i \in readable}
      BY <2>1, FilteredKeeps, Zenon DEF kept
    <2> QED BY <2>2, <2>3, Zenon
  \* The run.
  <1>4. /\ ran.total > 0 => /\ ran.runner \in {"docker", "node"} /\ w[ran.runner]
                            /\ w.pin # "" => ran.runner = w.pin
                            /\ w.pin = "" /\ w.docker => ran.runner = "docker"
                            /\ workspace # "none"
                            /\ w.own = <<>> => ran.total = cases
                            /\ w.own # <<>> => ran.passed = Head(w.own).passed /\ ran.total = Head(w.own).total
        /\ ran.total \in Int
    <2> DEFINE counts == ParsedOutput(Printed(w))
    <2>1. /\ counts.total \in Int
          /\ counts.total > 0 => /\ w.own = <<>> => counts.total = cases
                                 /\ w.own # <<>> => counts = Head(w.own)
      BY FirstLineCounts
    <2> HIDE DEF counts, cases, workspace
    <2>2. \A r : NotRun(r).total = 0 /\ NotRun(r).runner = r
      BY DEF NotRun
    <2>3. \A r : /\ Executed(w, r).total = counts.total /\ Executed(w, r).passed = counts.passed
                 /\ Executed(w, r).runner = r
      BY DEF Executed, counts
    <2>4. ran \in {NotRun("docker"), NotRun("node"), NotRun("none"), Executed(w, "docker"), Executed(w, "node")}
      BY DEF Sandboxed, RunInDocker, RunInNode
    <2>5. \A r : ran = Executed(w, r) => workspace # "none" \/ ran.total = 0
      <3>1. workspace = "none" => ran \in {NotRun("docker"), NotRun("node"), NotRun("none")}
        BY DEF Sandboxed, RunInDocker, RunInNode
      <3> HIDE DEF ran
      <3> QED BY <2>2, <3>1
    <2>6. CASE Runner(w) = "docker"
      <3>1. ran = RunInDocker(w, workspace)
        BY <2>6 DEF Sandboxed
      <3>2. w.docker /\ workspace # "none" => ran = Executed(w, "docker")
        BY <3>1 DEF RunInDocker
      <3>3. ~(w.docker /\ workspace # "none") => ran = NotRun("docker")
        BY <3>1 DEF RunInDocker
      <3>4. w.pin = "docker" \/ w.pin = ""
        BY <2>6 DEF Runner, IsWorld
      <3> HIDE DEF ran
      <3>5. CASE w.docker /\ workspace # "none"
        <4>1. ran.total = counts.total /\ ran.passed = counts.passed /\ ran.runner = "docker"
          BY <2>3, <3>2, <3>5
        <4>2. w[ran.runner] = w.docker
          BY <4>1
        <4> QED BY <2>1, <3>4, <3>5, <4>1, <4>2
      <3>6. CASE ~(w.docker /\ workspace # "none")
        <4>1. ran.total = 0
          BY <2>2, <3>3, <3>6
        <4> QED BY <4>1
      <3> QED BY <3>5, <3>6
    <2>7. CASE Runner(w) = "node"
      <3>1. ran = RunInNode(w, workspace)
        BY <2>7 DEF Sandboxed
      <3>2. w.node /\ workspace # "none" /\ w.guard => ran = Executed(w, "node")
        BY <3>1 DEF RunInNode
      <3>3. ~(w.node /\ workspace # "none" /\ w.guard) => ran = NotRun("node")
        BY <3>1 DEF RunInNode
      <3>4. w.pin = "node" \/ (w.pin = "" /\ ~w.docker)
        BY <2>7 DEF Runner, IsWorld
      <3> HIDE DEF ran
      <3>5. CASE w.node /\ workspace # "none" /\ w.guard
        <4>1. ran.total = counts.total /\ ran.passed = counts.passed /\ ran.runner = "node"
          BY <2>3, <3>2, <3>5
        <4>2. w[ran.runner] = w.node
          BY <4>1
        <4> QED BY <2>1, <3>4, <3>5, <4>1, <4>2
      <3>6. CASE ~(w.node /\ workspace # "none" /\ w.guard)
        <4>1. ran.total = 0
          BY <2>2, <3>3, <3>6
        <4> QED BY <4>1
      <3> QED BY <3>5, <3>6
    <2>8. CASE Runner(w) \notin {"docker", "node"}
      <3>1. ran = NotRun("none")
        BY <2>8 DEF Sandboxed
      <3>2. ran.total = 0
        BY <2>2, <3>1
      <3> HIDE DEF ran
      <3> QED BY <3>2
    <2> QED BY <2>6, <2>7, <2>8
  <1>5. workspace # "none" => /\ workspace = (IF p.demo THEN "demo" ELSE "contract")
                              /\ ~p.demo => w.bundle = "stored"
    BY DEF Workspace, Bundle
  \* The verdict.
  <1>6. /\ IsSeq(found)
        /\ \A f \in static : \E k \in DOMAIN found : found[k] = f
        /\ w.model => \A i \in DOMAIN w.llm : w.llm[i].line \in 1..MaxLines =>
             \/ \E f \in static : Key(f) = Key(w.llm[i])
             \/ \E k \in DOMAIN found : found[k] = w.llm[i]
    BY FindingsAre
  <1> HIDE DEF found, static, code, ran, workspace, maint, kept, readable, cases
  <1>7. ScanPassed(found) => \A k \in DOMAIN found : found[k].severity \notin Severe
    BY <1>6, TwoKinds DEF ScanPassed, Severe
  <1>8. /\ Of(found, "CRITICAL") + Of(found, "HIGH") <= Len(found)
    BY <1>6, TwoKinds
  <1>9. t.total = ran.total /\ t.passed = ran.passed /\ t.complete = w.model /\ t.maint = maint /\ t.vulns = Len(found)
        /\ t.crit = Of(found, "CRITICAL") /\ t.high = Of(found, "HIGH")
    OBVIOUS
  <1>10. Scorable(t) \/ t.total = 0
    BY <1>8, <1>9 DEF Scorable
  <1>11. maint > 50 => w.parsed.parses
    BY DEF Metrics, maint
  <1> HIDE DEF t
  <1>12. /\ a.t = t /\ a.code = code /\ a.runner = ran.runner /\ a.suite = workspace /\ a.demo = p.demo
         /\ a.passed => ScanPassed(found) /\ t.complete /\ t.total > 0 /\ t.maint > 50
    <2> HIDE DEF a
    <2> QED BY <1>1
  <1> HIDE DEF a
  <1>13. a.passed => /\ a.t.total > 0 /\ w.model /\ w.parsed.parses
                     /\ \A f \in static : f.severity \notin Severe
                     /\ \A i \in DOMAIN w.llm :
                          w.llm[i].severity \in Severe /\ w.llm[i].line \in 1..MaxLines =>
                            \E f \in static : Key(f) = Key(w.llm[i])
    BY <1>6, <1>7, <1>9, <1>11, <1>12
  <1>14. ~p.inline => /\ p.pinned /\ w.fetch /\ w.repo.tree = "whole"
                      /\ a.code.files # <<>> /\ Len(a.code.files) = Cardinality(readable)
                      /\ {a.code.files[k] : k \in DOMAIN a.code.files} = {w.repo.files[i] : i \in readable}
    <2> SUFFICES ASSUME ~p.inline
                 PROVE  /\ p.pinned /\ w.fetch /\ w.repo.tree = "whole"
                        /\ a.code.files # <<>> /\ Len(a.code.files) = Cardinality(readable)
                        /\ {a.code.files[k] : k \in DOMAIN a.code.files} = {w.repo.files[i] : i \in readable}
      OBVIOUS
    <2>1. /\ p.pinned /\ w.fetch /\ w.repo.tree # "truncated" /\ w.repo.tree # "unreachable"
          /\ code.files = kept /\ kept # <<>>
      BY <1>2
    <2>2. w.repo.tree = "whole"
      BY <2>1 DEF IsWorld
    <2>3. a.code.files = kept
      BY <1>12, <2>1, Zenon
    <2> QED BY <1>3, <2>1, <2>2, <2>3, Zenon
  <1>15. a.t.total > 0 =>
           /\ a.runner \in {"docker", "node"} /\ w[a.runner]
           /\ w.pin # "" => a.runner = w.pin
           /\ w.pin = "" /\ w.docker => a.runner = "docker"
           /\ a.suite = (IF a.demo THEN "demo" ELSE "contract")
           /\ ~a.demo => w.bundle = "stored"
           /\ w.own = <<>> => a.t.total = cases
           /\ w.own # <<>> => a.t.passed = Head(w.own).passed /\ a.t.total = Head(w.own).total
    BY <1>4, <1>5, <1>9, <1>12
  <1> QED BY <1>10, <1>12, <1>13, <1>14, <1>15 DEF Measures, a, static, readable, cases


\* The samples are worlds a run may find.
LEMMA SamplesAreWorlds ==
  ASSUME SampleInit \/ AuditSampleInit, sample.of = "push"
  PROVE  IsWorld(sample.world)
PROOF
  <1> DEFINE w == sample.world
  <1>1. \A S, n : \A s \in SeqsUpTo(S, n) : IsSeq(s)
    <2> SUFFICES ASSUME NEW S, NEW n, NEW k \in 0..n, NEW s \in [1..k -> S] PROVE IsSeq(s)
      BY DEF SeqsUpTo
    <2>1. k \in Nat
      OBVIOUS
    <2>2. s \in Seq(S)
      BY <2>1, SeqDef
    <2> QED BY <2>2, Ranged
  <1>2. IsSeq(<<>>)
    BY DEF IsSeq
  <1>3. /\ IsSeq(<<"passes">>) /\ \A i \in DOMAIN <<"passes">> : <<"passes">>[i] \in CaseKinds
        /\ IsSeq(<<"waits", "fails">>) /\ \A i \in DOMAIN <<"waits", "fails">> : <<"waits", "fails">>[i] \in CaseKinds
        /\ \A i \in DOMAIN <<>> : <<>>[i] \in CaseKinds
    <2>1. "passes" \in CaseKinds /\ "waits" \in CaseKinds /\ "fails" \in CaseKinds
      BY DEF CaseKinds
    <2> HIDE DEF CaseKinds
    <2>2. <<"passes">> \in Seq(CaseKinds) /\ <<"waits", "fails">> \in Seq(CaseKinds)
      BY <2>1
    <2>3. IsSeq(<<"passes">>) /\ IsSeq(<<"waits", "fails">>)
      BY <2>2, Ranged
    <2>4. \A s \in Seq(CaseKinds) : \A i \in DOMAIN s : s[i] \in CaseKinds
      OBVIOUS
    <2>5. \A i \in DOMAIN <<>> : <<>>[i] \in CaseKinds
      OBVIOUS
    <2> QED BY <2>2, <2>3, <2>4, <2>5
  <1>4. IsWorld(Plain)
    BY <1>2, <1>3 DEF IsWorld, Plain, NoRepo
  <1>5. ASSUME NEW repo \in Repos, NEW fetch, NEW docker, w = [Plain EXCEPT !.repo = repo, !.fetch = fetch, !.docker = docker]
        PROVE  IsWorld(w)
    <2>1. IsSeq(repo.files) /\ repo.tree \in {"whole", "truncated", "unreachable"}
      BY <1>1 DEF Repos, Files
    <2>2. w.repo = repo /\ w.pin = Plain.pin /\ w.suite = Plain.suite /\ w.llm = Plain.llm /\ w.own = Plain.own
      <3> HIDE DEF w
      <3> QED BY <1>5 DEF Plain
    <2> HIDE DEF w
    <2> QED BY <1>4, <2>1, <2>2 DEF IsWorld
  <1>6. ASSUME NEW cases \in {<<>>, <<"passes">>, <<"waits", "fails">>}, w.pin \in {"", "docker", "node"},
               w.repo = Plain.repo, w.suite.cases = cases, w.llm = Plain.llm,
               w.own = <<>> \/ \E n \in Nat : w.own = <<[passed |-> n, total |-> 2]>>
        PROVE  IsWorld(w)
    <2>0. IsSeq(w.own) /\ \A i \in DOMAIN w.own : w.own[i].total \in Int
      <3>1. CASE w.own = <<>>
        BY <1>2, <3>1
      <3>2. ASSUME NEW n \in Nat, w.own = <<[passed |-> n, total |-> 2]>>
            PROVE  IsSeq(w.own) /\ \A i \in DOMAIN w.own : w.own[i].total \in Int
        <4> DEFINE line == [passed |-> n, total |-> 2]
        <4>1. line.total \in Int
          OBVIOUS
        <4> HIDE DEF line
        <4>2. <<line>> \in Seq({line}) /\ \A i \in DOMAIN <<line>> : <<line>>[i] = line
          OBVIOUS
        <4>3. w.own = <<line>>
          BY <3>2 DEF line
        <4> QED BY <4>1, <4>2, <4>3, Ranged
      <3> QED BY <1>6, <3>1, <3>2
    <2>1. IsSeq(cases) /\ \A i \in DOMAIN cases : cases[i] \in CaseKinds
      BY <1>2, <1>3
    <2> HIDE DEF w
    <2> QED BY <1>4, <1>6, <2>0, <2>1 DEF IsWorld
  <1>7. ASSUME NEW rules, NEW llm \in Replies, NEW model,
               w = [Plain EXCEPT !.rules = rules, !.llm = llm, !.model = model]
        PROVE  IsWorld(w)
    <2>1. IsSeq(llm)
      BY <1>1 DEF Replies
    <2>2. w.repo = Plain.repo /\ w.pin = Plain.pin /\ w.suite = Plain.suite /\ w.llm = llm /\ w.own = Plain.own
      <3> HIDE DEF w
      <3> QED BY <1>7 DEF Plain
    <2> HIDE DEF w
    <2> QED BY <1>4, <2>1, <2>2 DEF IsWorld
  <1>8. ~SampleInit
    BY DEF SampleInit, NoSample
  <1>9. \A x, y : sample = [of |-> "push", push |-> x, world |-> y] => w = y
    OBVIOUS
  <1> HIDE DEF w
  <1>10. CASE \E repo \in Repos, fetch \in BOOLEAN, pinned \in BOOLEAN, docker \in BOOLEAN :
           sample = [of |-> "push", push |-> Pushed(FALSE, FALSE, pinned),
                     world |-> [Plain EXCEPT !.repo = repo, !.fetch = fetch, !.docker = docker]]
    <2>1. PICK repo \in Repos, fetch \in BOOLEAN, pinned \in BOOLEAN, docker \in BOOLEAN :
           sample = [of |-> "push", push |-> Pushed(FALSE, FALSE, pinned),
                     world |-> [Plain EXCEPT !.repo = repo, !.fetch = fetch, !.docker = docker]]
      BY <1>10
    <2>2. w = [Plain EXCEPT !.repo = repo, !.fetch = fetch, !.docker = docker]
      BY <1>9, <2>1, Zenon
    <2>3. IsWorld(w)
      BY <1>5, <2>2
    <2> QED BY <2>3 DEF w
  <1>11. CASE \E bundle \in {"stored", "missing", "empty", "down"},
                 asset, guard, docker, node, stalls, model, demo \in BOOLEAN,
                 pin \in {"", "docker", "node"}, cases \in {<<>>, <<"passes">>, <<"waits", "fails">>},
                 parsed \in {Tiny, Broken} :
           sample = [of |-> "push", push |-> Pushed(TRUE, demo, FALSE),
                     world |-> [Plain EXCEPT !.bundle = bundle, !.asset = asset, !.guard = guard, !.pin = pin,
                                  !.docker = docker, !.node = node, !.stalls = stalls, !.model = model,
                                  !.suite.cases = cases, !.parsed = parsed]]
    <2>1. PICK bundle \in {"stored", "missing", "empty", "down"},
               asset, guard, docker, node, stalls, model, demo \in BOOLEAN,
               pin \in {"", "docker", "node"}, cases \in {<<>>, <<"passes">>, <<"waits", "fails">>},
               parsed \in {Tiny, Broken} :
           sample = [of |-> "push", push |-> Pushed(TRUE, demo, FALSE),
                     world |-> [Plain EXCEPT !.bundle = bundle, !.asset = asset, !.guard = guard, !.pin = pin,
                                  !.docker = docker, !.node = node, !.stalls = stalls, !.model = model,
                                  !.suite.cases = cases, !.parsed = parsed]]
      BY <1>11
    <2>2. w = [Plain EXCEPT !.bundle = bundle, !.asset = asset, !.guard = guard, !.pin = pin,
                 !.docker = docker, !.node = node, !.stalls = stalls, !.model = model,
                 !.suite.cases = cases, !.parsed = parsed]
      BY <1>9, <2>1
    <2>3. "repo" \in DOMAIN Plain /\ "pin" \in DOMAIN Plain /\ "suite" \in DOMAIN Plain
          /\ "llm" \in DOMAIN Plain /\ "own" \in DOMAIN Plain /\ "cases" \in DOMAIN Plain.suite
      BY DEF Plain
    <2>4. w.repo = Plain.repo
      BY <2>2, <2>3
    <2>5. w.pin = pin
      BY <2>2, <2>3
    <2>6. w.suite = [Plain.suite EXCEPT !.cases = cases]
      BY <2>2, <2>3
    <2>7. w.suite.cases = cases
      BY <2>3, <2>6
    <2>8. w.llm = Plain.llm
      BY <2>2, <2>3
    <2>9. w.own = <<>>
      <3>1. Plain.own = <<>>
        BY DEF Plain
      <3> QED BY <2>2, <2>3, <3>1
    <2> QED BY <1>6, <2>4, <2>5, <2>7, <2>8, <2>9 DEF w
  <1>12. CASE \E rules \in Matches, llm \in Replies, model \in BOOLEAN :
           sample = [of |-> "push", push |-> Pushed(TRUE, FALSE, FALSE),
                     world |-> [Plain EXCEPT !.rules = rules, !.llm = llm, !.model = model]]
    <2>1. PICK rules \in Matches, llm \in Replies, model \in BOOLEAN :
           sample = [of |-> "push", push |-> Pushed(TRUE, FALSE, FALSE),
                     world |-> [Plain EXCEPT !.rules = rules, !.llm = llm, !.model = model]]
      BY <1>12, Zenon
    <2>2. w = [Plain EXCEPT !.rules = rules, !.llm = llm, !.model = model]
      BY <1>9, <2>1, Zenon
    <2>3. IsWorld(w)
      BY <1>7, <2>2
    <2> QED BY <2>3 DEF w
  <1>15. CASE \E passed \in 1..2, docker, demo \in BOOLEAN, cases \in {<<>>, <<"passes">>, <<"waits", "fails">>} :
           sample = [of |-> "push", push |-> Pushed(TRUE, demo, FALSE),
                     world |-> [Plain EXCEPT !.own = <<[passed |-> passed, total |-> 2]>>, !.docker = docker,
                                  !.suite.cases = cases]]
    <2>1. PICK passed \in 1..2, docker, demo \in BOOLEAN, cases \in {<<>>, <<"passes">>, <<"waits", "fails">>} :
           sample = [of |-> "push", push |-> Pushed(TRUE, demo, FALSE),
                     world |-> [Plain EXCEPT !.own = <<[passed |-> passed, total |-> 2]>>, !.docker = docker,
                                  !.suite.cases = cases]]
      BY <1>15
    <2>2. w = [Plain EXCEPT !.own = <<[passed |-> passed, total |-> 2]>>, !.docker = docker, !.suite.cases = cases]
      BY <1>9, <2>1
    <2>3. "repo" \in DOMAIN Plain /\ "pin" \in DOMAIN Plain /\ "suite" \in DOMAIN Plain
          /\ "llm" \in DOMAIN Plain /\ "own" \in DOMAIN Plain /\ "cases" \in DOMAIN Plain.suite
          /\ Plain.pin = ""
      BY DEF Plain
    <2>4. w.repo = Plain.repo /\ w.pin = "" /\ w.llm = Plain.llm
      BY <2>2, <2>3
    <2>5. w.own = <<[passed |-> passed, total |-> 2]>>
      BY <2>2, <2>3
    <2>6. w.suite = [Plain.suite EXCEPT !.cases = cases]
      BY <2>2, <2>3
    <2>7. w.suite.cases = cases
      BY <2>3, <2>6
    <2>8. passed \in Nat
      OBVIOUS
    <2> QED BY <1>6, <2>4, <2>5, <2>7, <2>8 DEF w
  <1>13. \A x : sample # [of |-> "tree", tree |-> x] /\ sample # [of |-> "suite", suite |-> x]
    OBVIOUS
  <1>14. ~(\E n \in 0..MaxNodes : \E tree \in Trees(n) : sample = [of |-> "tree", tree |-> tree])
         /\ ~(\E suite \in Suites : sample = [of |-> "suite", suite |-> suite])
    BY <1>13
  <1> QED BY <1>8, <1>10, <1>11, <1>12, <1>14, <1>15, Zenon DEF AuditSampleInit

\* In particular, whatever sample the model checker starts from.
THEOREM SamplesMeasure ==
  (SampleInit \/ AuditSampleInit) /\ [][UNCHANGED sample]_sample => []AuditIsMeasured
PROOF
  <1>1. SampleInit \/ AuditSampleInit => AuditIsMeasured
    BY SamplesAreWorlds, AuditsMeasure
  <1>2. AuditIsMeasured /\ [UNCHANGED sample]_sample => AuditIsMeasured'
    BY DEF AuditIsMeasured
  <1> QED BY <1>1, <1>2, PTL


-------------------------------------------------------------------------------
\* The drift detector, for conversations of any length.

\* A conversation, one residual after another.
LEMMA ObservedIs ==
  ASSUME NEW talk
  PROVE  /\ Observed(talk, 0) = [n |-> 0, log |-> 0, at |-> -1]
         /\ \A n \in Nat : Observed(talk, n + 1) = Observe(Observed(talk, n), talk[n + 1])
PROOF
  <1> DEFINE a == [n |-> 0, log |-> 0, at |-> -1]
  <1>1. \A n : Observed(talk, n) = Values("talk", talk, a)[n]
    BY DEF Observed, Advance, Values, IsRecursion
  <1> HIDE DEF a
  <1> QED BY <1>1, Recursion DEF Advance, a

\* A larger residual has no more of the calibration above it, and gains no less.
LEMMA GainGrows ==
  ASSUME NEW r \in Int, NEW s \in Int, r <= s
  PROVE  /\ LogGain[AtLeast(r)] \in Int /\ LogGain[AtLeast(s)] \in Int
         /\ LogGain[AtLeast(r)] <= LogGain[AtLeast(s)]
PROOF
  <1> DEFINE c == Len(Calibration)
             Above(x) == {i \in DOMAIN Calibration : Calibration[i] >= x}
  <1>1. c \in Nat /\ DOMAIN Calibration = 1..c /\ \A i \in 1..c : Calibration[i] \in Int
    BY AnalysisAssumption
  <1>2. IsFiniteSet(1..c) /\ Cardinality(1..c) = c
    <2>1. 1 \in Int /\ c \in Int
      BY <1>1
    <2>2. IsFiniteSet(1..c) /\ Cardinality(1..c) = IF 1 > c THEN 0 ELSE c - 1 + 1
      BY <2>1, FS_Interval
    <2> QED BY <1>1, <2>2
  <1>3. \A x : Above(x) \in SUBSET (1..c)
    BY <1>1
  <1>4. Above(s) \in SUBSET Above(r)
    BY <1>1
  <1>5. AtLeast(r) = Cardinality(Above(r)) /\ AtLeast(s) = Cardinality(Above(s))
    BY DEF AtLeast
  <1> HIDE DEF Above
  <1>6. \A x : IsFiniteSet(Above(x)) /\ Cardinality(Above(x)) \in Nat /\ Cardinality(Above(x)) <= c
    BY <1>2, <1>3, FS_Subset, FS_CardinalityType
  <1>7. Cardinality(Above(s)) <= Cardinality(Above(r))
    BY <1>4, <1>6, FS_Subset
  <1>8. /\ LogGain \in [0..c -> Int]
        /\ \A g \in 1..c : LogGain[g] <= LogGain[g - 1]
    BY AnalysisAssumption
  <1> HIDE DEF c
  <1> DEFINE g == AtLeast(s)
             T == {n \in Nat : g + n <= c => LogGain[g + n] <= LogGain[g]}
  <1>9. g \in Nat /\ g <= c /\ AtLeast(r) \in Nat /\ AtLeast(r) <= c /\ g <= AtLeast(r)
    BY <1>5, <1>6, <1>7
  <1> HIDE DEF g
  <1>10. T = Nat
    <2>1. 0 \in T
      BY <1>1, <1>8, <1>9
    <2>2. ASSUME NEW n \in T PROVE n + 1 \in T
      <3>1. CASE g + (n + 1) <= c
        <4>1. g + n <= c /\ g + n + 1 \in 1..c /\ (g + n + 1) - 1 = g + n /\ g + n \in 0..c /\ g \in 0..c
          BY <1>1, <1>9, <3>1
        <4>2. LogGain[g + n + 1] <= LogGain[g + n] /\ LogGain[g + n] <= LogGain[g]
          BY <1>8, <4>1
        <4>3. LogGain[g + n + 1] \in Int /\ LogGain[g + n] \in Int /\ LogGain[g] \in Int
          <5>1. g + n + 1 \in 0..c
            BY <1>1, <1>9, <4>1
          <5> QED BY <1>8, <4>1, <5>1
        <4>4. g + (n + 1) = g + n + 1 /\ n + 1 \in Nat
          BY <1>9
        <4> QED BY <4>2, <4>3, <4>4
      <3>2. CASE ~(g + (n + 1) <= c)
        BY <3>2
      <3> QED BY <3>1, <3>2
    <2> HIDE DEF T
    <2>3. T \in SUBSET Nat
      BY DEF T
    <2> QED BY <2>1, <2>2, <2>3, Induction
  <1>11. AtLeast(r) - g \in T /\ g + (AtLeast(r) - g) = AtLeast(r)
    BY <1>9, <1>10
  <1>12. LogGain[AtLeast(r)] <= LogGain[g]
    BY <1>9, <1>11
  <1>13. LogGain[AtLeast(r)] \in Int /\ LogGain[g] \in Int
    BY <1>1, <1>8, <1>9
  <1> QED BY <1>12, <1>13 DEF g

\* What the detector is after n residuals.
LEMMA DetectorIs ==
  ASSUME NEW talk \in Seq(Int)
  PROVE  \A n \in 0..Len(talk) :
           /\ Observed(talk, n).n = n /\ Observed(talk, n).log \in Int
           /\ Observed(talk, n).at \in {-1} \cup 0..(n - 1)
           /\ n < Len(talk) =>
                LET d == Observed(talk, n)
                    e == Observed(talk, n + 1)
                IN  /\ e.log = d.log + LogGain[AtLeast(talk[n + 1])] /\ e.log \in Int
                    /\ e.at = IF e.log > LogThreshold /\ d.at = -1 THEN n ELSE d.at
PROOF
  <1> DEFINE D(n) == Observed(talk, n)
             P(n) == D(n).n = n /\ D(n).log \in Int /\ D(n).at \in {-1} \cup 0..(n - 1)
             Q(n) == /\ D(n + 1).log = D(n).log + LogGain[AtLeast(talk[n + 1])] /\ D(n + 1).log \in Int
                     /\ D(n + 1).at = IF D(n + 1).log > LogThreshold /\ D(n).at = -1 THEN n ELSE D(n).at
             T == {n \in Nat : n <= Len(talk) => P(n)}
  <1>1. Len(talk) \in Nat
    OBVIOUS
  <1>2. ASSUME NEW n \in Nat, n < Len(talk), P(n) PROVE P(n + 1) /\ Q(n)
    <2> DEFINE gain == LogGain[AtLeast(talk[n + 1])]
    <2>1. talk[n + 1] \in Int
      BY <1>1, <1>2
    <2>2. gain \in Int
      BY <2>1, GainGrows
    <2>3. D(n + 1) = Observe(D(n), talk[n + 1])
      BY ObservedIs
    <2>4. /\ D(n + 1).n = D(n).n + 1 /\ D(n + 1).log = D(n).log + gain
          /\ D(n + 1).at = IF D(n).log + gain > LogThreshold /\ D(n).at = -1 THEN D(n).n ELSE D(n).at
      <3> HIDE DEF D
      <3> QED BY <2>3 DEF Observe
    <2> HIDE DEF D, gain
    <2>5. D(n).n = n /\ D(n).log \in Int /\ D(n).at \in {-1} \cup 0..(n - 1)
      BY <1>2
    <2>6. D(n + 1).n = n + 1 /\ D(n + 1).log \in Int
      BY <2>2, <2>4, <2>5
    <2>7. D(n + 1).at = IF D(n + 1).log > LogThreshold /\ D(n).at = -1 THEN n ELSE D(n).at
      BY <2>4, <2>5
    <2>8. D(n + 1).at \in {-1} \cup 0..((n + 1) - 1)
      <3>1. D(n).at = -1 \/ (D(n).at \in Int /\ D(n).at >= 0 /\ D(n).at <= n - 1)
        BY <1>2, <2>5
      <3>2. n \in 0..((n + 1) - 1)
        BY <1>2
      <3>3. D(n).at \in {-1} \cup 0..((n + 1) - 1)
        BY <1>2, <3>1
      <3> QED BY <2>7, <3>2, <3>3
    <2> QED BY <2>4, <2>6, <2>7, <2>8 DEF gain
  <1>3. P(0)
    <2>1. D(0) = [n |-> 0, log |-> 0, at |-> -1]
      BY ObservedIs
    <2> HIDE DEF D
    <2> QED BY <2>1
  <1>4. T = Nat
    <2>1. 0 \in T
      <3> HIDE DEF P
      <3> QED BY <1>3
    <2>2. ASSUME NEW n \in T PROVE n + 1 \in T
      <3>1. CASE n + 1 <= Len(talk)
        <4>1. n \in Nat /\ n < Len(talk) /\ n <= Len(talk)
          BY <1>1, <3>1
        <4>2. P(n)
          <5> HIDE DEF P
          <5> QED BY <4>1
        <4> HIDE DEF P, Q
        <4> QED BY <1>2, <4>1, <4>2
      <3>2. CASE ~(n + 1 <= Len(talk))
        BY <3>2
      <3> QED BY <3>1, <3>2
    <2> HIDE DEF T
    <2>3. T \in SUBSET Nat
      BY DEF T
    <2> QED BY <2>1, <2>2, <2>3, Induction
  <1>5. ASSUME NEW n \in 0..Len(talk) PROVE P(n) /\ (n < Len(talk) => Q(n))
    <2>1. n \in Nat /\ n <= Len(talk)
      BY <1>1
    <2> HIDE DEF P, Q
    <2> QED BY <1>2, <1>4, <2>1
  <1> QED BY <1>5

\* The assessment of a beginning of a log agrees with that of the log.
LEMMA BeginningAgrees ==
  ASSUME NEW talk \in Seq(Int), NEW n \in 0..Len(talk)
  PROVE  Drift(SubSeq(talk, 1, n)) = Observed(talk, n)
PROOF
  <1> DEFINE s == SubSeq(talk, 1, n)
             T == {k \in Nat : k <= n => Observed(s, k) = Observed(talk, k)}
  <1>1. n \in Nat /\ Len(s) = n /\ \A i \in 1..n : s[i] = talk[i]
    OBVIOUS
  <1> HIDE DEF s
  <1>2. 0 \in T
    BY ObservedIs
  <1>3. ASSUME NEW k \in T PROVE k + 1 \in T
    <2>1. CASE k + 1 <= n
      <3>1. k <= n /\ k + 1 \in 1..n /\ k \in Nat
        BY <1>1, <2>1
      <3>2. Observed(s, k) = Observed(talk, k)
        BY <3>1
      <3>3. Observed(s, k + 1) = Observe(Observed(s, k), s[k + 1])
        BY <3>1, ObservedIs
      <3>4. Observed(talk, k + 1) = Observe(Observed(talk, k), talk[k + 1])
        BY <3>1, ObservedIs
      <3>5. s[k + 1] = talk[k + 1]
        BY <1>1, <3>1
      <3>6. Observed(s, k + 1) = Observed(talk, k + 1) /\ k + 1 \in Nat
        BY <3>1, <3>2, <3>3, <3>4, <3>5
      <3> QED BY <3>6
    <2>2. CASE ~(k + 1 <= n)
      BY <2>2
    <2> QED BY <2>1, <2>2
  <1>4. T = Nat
    <2>1. T \in SUBSET Nat
      OBVIOUS
    <2> HIDE DEF T
    <2> QED BY <1>2, <1>3, <2>1, Induction
  <1>5. Observed(s, n) = Observed(talk, n)
    BY <1>1, <1>4
  <1> QED BY <1>1, <1>5 DEF Drift, s

\* An alarm stays where it was raised, and a conversation that strays further never
\* raises its alarm later (DriftDetector.observe_residual).
THEOREM AlarmsStay ==
  ASSUME sample.of = "drift" => sample.talk \in Seq({r \in Int : r <= 1000})
  PROVE  AlarmStays
PROOF
  <1> SUFFICES ASSUME NEW talk \in Seq({r \in Int : r <= 1000})
               PROVE  /\ \A n \in 0..Len(talk) :
                           LET before == Drift(SubSeq(talk, 1, n)).at
                           IN  before = IF Drift(talk).at < n THEN Drift(talk).at ELSE -1
                      /\ \A i \in DOMAIN talk :
                           Drift(talk).at # -1 => Drift([talk EXCEPT ![i] = 1000]).at \in 0..Drift(talk).at
    BY DEF AlarmStays
  <1> DEFINE len == Len(talk)
             D(n) == Observed(talk, n)
  <1>1. talk \in Seq(Int) /\ len \in Nat /\ DOMAIN talk = 1..len
    OBVIOUS
  <1>2. ASSUME NEW n \in 0..len
        PROVE  /\ D(n).log \in Int /\ D(n).at \in {-1} \cup 0..(n - 1)
               /\ n < len => /\ D(n + 1).log = D(n).log + LogGain[AtLeast(talk[n + 1])]
                             /\ D(n + 1).log \in Int
                             /\ D(n + 1).at = IF D(n + 1).log > LogThreshold /\ D(n).at = -1 THEN n ELSE D(n).at
    BY <1>1, DetectorIs
  <1> HIDE DEF D
  <1>3. ASSUME NEW n \in 0..len
        PROVE  \A m \in n..len : D(n).at = IF D(m).at < n THEN D(m).at ELSE -1
    <2> DEFINE T == {k \in Nat : n + k <= len => D(n).at = IF D(n + k).at < n THEN D(n + k).at ELSE -1}
    <2>1. 0 \in T
      BY <1>1, <1>2
    <2>2. ASSUME NEW k \in T PROVE k + 1 \in T
      <3>1. CASE n + (k + 1) <= len
        <4> DEFINE m == n + k
        <4>1. m \in 0..len /\ m < len /\ n + (k + 1) = m + 1 /\ n <= m /\ n \in Nat /\ m \in Nat
          BY <1>1, <3>1
        <4>2. D(n).at = IF D(m).at < n THEN D(m).at ELSE -1
          BY <4>1
        <4> HIDE DEF m
        <4>3. D(m + 1).at \in {m, D(m).at} /\ (D(m).at # -1 => D(m + 1).at = D(m).at)
          BY <1>2, <4>1
        <4>4. D(m).at \in {-1} \cup 0..(m - 1)
          BY <1>2, <4>1
        <4>5. D(n).at = IF D(m + 1).at < n THEN D(m + 1).at ELSE -1
          BY <4>1, <4>2, <4>3, <4>4
        <4> QED BY <4>1, <4>5
      <3>2. CASE ~(n + (k + 1) <= len)
        BY <3>2
      <3> QED BY <3>1, <3>2
    <2>3. T = Nat
      <3>1. T \in SUBSET Nat
        OBVIOUS
      <3> HIDE DEF T
      <3> QED BY <2>1, <2>2, <3>1, Induction
    <2>4. ASSUME NEW m \in n..len PROVE m - n \in Nat /\ n + (m - n) = m /\ m <= len
      BY <1>1
    <2> QED BY <2>3, <2>4
  <1>4. ASSUME NEW n \in 0..len
        PROVE  Drift(SubSeq(talk, 1, n)).at = IF Drift(talk).at < n THEN Drift(talk).at ELSE -1
    <2>1. len \in n..len
      BY <1>1
    <2>2. Drift(SubSeq(talk, 1, n)) = D(n)
      BY <1>1, BeginningAgrees DEF D
    <2>3. Drift(talk) = D(len)
      BY DEF Drift, D
    <2> HIDE DEF len
    <2> QED BY <1>3, <2>1, <2>2, <2>3
  <1>5. ASSUME NEW i \in DOMAIN talk, Drift(talk).at # -1
        PROVE  Drift([talk EXCEPT ![i] = 1000]).at \in 0..Drift(talk).at
    <2> DEFINE worse == [talk EXCEPT ![i] = 1000]
               E(n) == Observed(worse, n)
    <2>1. worse \in Seq(Int) /\ Len(worse) = len /\ \A n \in 1..len : talk[n] \in Int /\ worse[n] \in Int /\ talk[n] <= worse[n]
      OBVIOUS
    <2>2. ASSUME NEW n \in 0..len
          PROVE  /\ E(n).log \in Int /\ E(n).at \in {-1} \cup 0..(n - 1)
                 /\ n < len => /\ E(n + 1).log = E(n).log + LogGain[AtLeast(worse[n + 1])]
                               /\ E(n + 1).log \in Int
                               /\ E(n + 1).at = IF E(n + 1).log > LogThreshold /\ E(n).at = -1 THEN n ELSE E(n).at
      <3> HIDE DEF worse
      <3> QED BY <2>1, DetectorIs
    <2>3. D(0).log = 0 /\ E(0).log = 0 /\ D(0).at = -1
      BY ObservedIs DEF D
    <2> HIDE DEF E, worse
    <2> DEFINE P(n) == D(n).log <= E(n).log /\ (D(n).at # -1 => E(n).at # -1 /\ E(n).at <= D(n).at)
               T == {n \in Nat : n <= len => P(n)}
    <2>4. 0 \in T
      <3>1. P(0)
        BY <2>3
      <3> HIDE DEF P
      <3> QED BY <3>1
    <2>5. ASSUME NEW n \in T PROVE n + 1 \in T
      <3>1. CASE n + 1 <= len
        <4>1. n \in 0..len /\ n < len /\ n + 1 \in 1..len /\ n \in Nat
          BY <1>1, <3>1
        <4>2. P(n)
          BY <4>1
        <4> DEFINE g == LogGain[AtLeast(talk[n + 1])]
                   h == LogGain[AtLeast(worse[n + 1])]
        <4>3. g \in Int /\ h \in Int /\ g <= h
          <5>1. talk[n + 1] \in Int /\ worse[n + 1] \in Int /\ talk[n + 1] <= worse[n + 1]
            BY <2>1, <4>1
          <5> QED BY <5>1, GainGrows
        <4>4. /\ D(n + 1).log = D(n).log + g /\ D(n).log \in Int /\ D(n).at \in {-1} \cup 0..(n - 1)
              /\ D(n + 1).at = IF D(n + 1).log > LogThreshold /\ D(n).at = -1 THEN n ELSE D(n).at
          BY <1>2, <4>1
        <4>5. /\ E(n + 1).log = E(n).log + h /\ E(n).log \in Int /\ E(n).at \in {-1} \cup 0..(n - 1)
              /\ E(n + 1).at = IF E(n + 1).log > LogThreshold /\ E(n).at = -1 THEN n ELSE E(n).at
          BY <2>2, <4>1
        <4> HIDE DEF g, h
        <4>6. LogThreshold \in Int
          BY AnalysisAssumption
        <4>7. D(n + 1).log <= E(n + 1).log /\ D(n + 1).log \in Int /\ E(n + 1).log \in Int
          <5> DEFINE a == D(n).log
                     b == E(n).log
          <5>1. a <= b /\ a \in Int /\ b \in Int
            BY <4>2, <4>4, <4>5
          <5>2. D(n + 1).log = a + g /\ E(n + 1).log = b + h
            BY <4>4, <4>5
          <5> HIDE DEF a, b
          <5>3. a + g <= b + h /\ a + g \in Int /\ b + h \in Int
            BY <4>3, <5>1
          <5> QED BY <5>2, <5>3
        <4>8. D(n + 1).log > LogThreshold => E(n + 1).log > LogThreshold
          BY <4>6, <4>7
        <4>9. D(n + 1).at # -1 => E(n + 1).at # -1 /\ E(n + 1).at <= D(n + 1).at
          <5> DEFINE a == D(n).at   a1 == D(n + 1).at   up == D(n + 1).log > LogThreshold
                     b == E(n).at   b1 == E(n + 1).at   vp == E(n + 1).log > LogThreshold
          <5>1. /\ a1 = (IF up /\ a = -1 THEN n ELSE a) /\ a \in {-1} \cup 0..(n - 1)
                /\ b1 = (IF vp /\ b = -1 THEN n ELSE b) /\ b \in {-1} \cup 0..(n - 1)
            BY <4>4, <4>5
          <5>2. /\ up => vp
                /\ a # -1 => b # -1 /\ b <= a
            BY <4>2, <4>8
          <5>3. n \in Nat
            BY <4>1
          <5> HIDE DEF a, a1, b, b1, up, vp
          <5>4. CASE a # -1
            <6>1. a1 = a /\ b1 = b
              BY <5>1, <5>2, <5>4
            <6> QED BY <5>2, <5>4, <6>1 DEF a1, b1
          <5>5. CASE a = -1 /\ up
            <6>1. a1 = n /\ vp
              BY <5>1, <5>2, <5>5
            <6>2. b1 = n \/ (b1 = b /\ b # -1)
              BY <5>1, <6>1
            <6>3. b1 # -1 /\ b1 <= a1
              BY <5>1, <5>3, <6>1, <6>2
            <6> QED BY <6>3 DEF a1, b1
          <5>6. CASE a = -1 /\ ~up
            <6>1. a1 = -1
              BY <5>1, <5>6
            <6> QED BY <6>1 DEF a1
          <5> QED BY <5>4, <5>5, <5>6
        <4>10. P(n + 1) /\ n + 1 \in Nat
          BY <4>1, <4>7, <4>9
        <4> HIDE DEF P
        <4> QED BY <4>10
      <3>2. CASE ~(n + 1 <= len)
        BY <3>2
      <3> QED BY <3>1, <3>2
    <2>6. T = Nat
      <3>1. T \in SUBSET Nat
        OBVIOUS
      <3> HIDE DEF T
      <3> QED BY <2>4, <2>5, <3>1, Induction
    <2>7. P(len) /\ len \in 0..len
      <3> HIDE DEF P
      <3> QED BY <1>1, <2>6
    <2>8. Drift(talk) = D(len) /\ Drift(worse) = E(len)
      BY <2>1 DEF Drift, D, E
    <2>9. D(len).at \in {-1} \cup 0..(len - 1) /\ E(len).at \in {-1} \cup 0..(len - 1)
      BY <1>2, <2>2, <2>7
    <2> HIDE DEF len
    <2>10. Drift(worse).at \in 0..Drift(talk).at
      BY <1>1, <1>5, <2>7, <2>8, <2>9
    <2> QED BY <2>10 DEF worse
  <1> QED BY <1>4, <1>5
===============================================================================
