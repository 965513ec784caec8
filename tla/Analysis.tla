------------------------------ MODULE Analysis ------------------------------
(***************************************************************************)
(* The pure parts of the verification: the two-layer security scan         *)
(* (ci-worker/src/security-auditor.ts, ai-service routes/security_scan.py),*)
(* the oracle's signals, the trust score (ai-service routes/xai.py), the   *)
(* drift detector (scope-guard services/drift_detector.py) and the         *)
(* chunker (ai-service services/chunker.py).                               *)
(*                                                                         *)
(* Scores are integers, in hundredths of a point. A text is the sequence   *)
(* of its characters, each told from every other by its place.             *)
(***************************************************************************)
EXTENDS Integers, Sequences, FiniteSets, SequencesExt


CONSTANTS
  Rules,           \* types of the rule file, with the severity of each
  Severity,
  MaxLines,        \* bound: lines of the sources looked at
  TargetChars, OverlapChars, MinChunkChars,   \* the chunker's parameters
  MaxUnits,        \* bound: units of the texts looked at
  Calibration,     \* the calibration residuals, a sequence of integers
  LogGain,         \* log(epsilon * p^(epsilon - 1)) for p = (1 + ge) / (n + 1), by ge
  LogThreshold,    \* log(1 / delta)
  MaxMessages      \* bound: messages of the conversations looked at

ASSUME AnalysisAssumption ==
  /\ Severity \in [Rules -> {"CRITICAL", "HIGH", "MEDIUM", "LOW"}]
  /\ {MaxLines, MaxUnits, MaxMessages, OverlapChars} \subseteq Nat
  /\ {TargetChars, MinChunkChars} \subseteq Nat \ {0}
  /\ LogGain \in [0..Len(Calibration) -> Int]
  /\ \A g \in 1..Len(Calibration) : LogGain[g] <= LogGain[g - 1]
  /\ IsFiniteSet(Rules) /\ Calibration \in Seq(Int) /\ LogThreshold \in Int

-------------------------------------------------------------------------------
\* What a filter keeps of a sequence: the entries at the places in a set.
Filtered(s, places) ==
  [k \in 1..Cardinality(places) |->
     s[CHOOSE i \in places : Cardinality({j \in places : j <= i}) = k]]

\* A set as a sequence, in some order.
Listed(S) == CHOOSE s \in [1..Cardinality(S) -> S] : \A x \in S : \E i \in DOMAIN s : s[i] = x

-------------------------------------------------------------------------------
\* The security scan. Of a source, what matters is which rules match in which
\* line, and in which line a rule's first match in the whole source begins.

Finding(rule, line) == [type |-> rule, line |-> line, severity |-> Severity[rule], layer |-> "static"]

\* performStaticScan, owasp_static.scan: one finding per rule and line.
StaticScan(perLine, whole) ==
  LET Places == {p \in Rules \X (1..MaxLines) : p[1] \in perLine[p[2]] \/ whole[p[1]] = p[2]}
  IN  {Finding(p[1], p[2]) : p \in Places}

Key(f) == <<f.type, f.line>>

\* _normalize_llm_findings: a finding whose line does not exist is dropped.
Normalize(findings, lines) == Filtered(findings, {i \in DOMAIN findings : findings[i].line \in 1..lines})

\* performDualLayerScan: a finding of the model is kept unless the rules have it.
Merge(static, llm) ==
  LET Keys == {Key(f) : f \in static}
  IN  Listed(static) \o Filtered(llm, {i \in DOMAIN llm : Key(llm[i]) \notin Keys})

Of(found, severity) == Cardinality({i \in DOMAIN found : found[i].severity = severity})
ScanPassed(found)   == Of(found, "CRITICAL") = 0 /\ Of(found, "HIGH") = 0

\* S_sec = max(0, 100 - 40 N_c - 20 N_h - 5 N_t)
SecurityScore(total, critical, high) ==
  LET s == 100 - 40 * critical - 20 * high - 5 * total IN IF s > 0 THEN s ELSE 0

-------------------------------------------------------------------------------
\* What the oracle makes of an audit.

\* A scan with one layer counts as a whole one.
SignalsOfHalf(t) == [ast      |-> t.maint >= 10,
                     tests    |-> t.passed = t.total /\ t.total > 0,
                     security |-> t.vulns = 0]

\* The three booleans taken from an AUDIT_COMPLETED.
Signals(t) == [ast      |-> t.maint >= 10,
               tests    |-> t.passed = t.total /\ t.total > 0,
               security |-> t.vulns = 0 /\ t.complete]

-------------------------------------------------------------------------------
\* The trust score.

\* _validate_telemetry
Scorable(t) == t.crit + t.high <= t.vulns /\ t.total # 0

Rounded(n, d) == (2 * n + d) \div (2 * d)

\* _build_terms: contributions in hundredths; without scope checks the other
\* three weights are taken over their sum.
Terms(t, scope) ==
  LET sec  == SecurityScore(t.vulns, t.crit, t.high)
      norm == IF scope.total > 0 THEN 100 ELSE 85
  IN  <<Rounded(40 * 100 * 100 * t.passed, norm * t.total),
        Rounded(25 * 100 * t.maint, norm),
        Rounded(20 * 100 * sec, norm),
        IF scope.total > 0 THEN Rounded(15 * 100 * scope.allowed, scope.total) ELSE 0>>

TrustScore(t, scope) == LET e == Terms(t, scope) IN e[1] + e[2] + e[3] + e[4]

Threshold == 85 * 100   \* TRUST_SCORE_THRESHOLD

-------------------------------------------------------------------------------
\* The drift detector.

\* conformal_p_value, as the count of calibration residuals that are no smaller.
AtLeast(s) == Cardinality({i \in DOMAIN Calibration : Calibration[i] >= s})

\* The last crossing.
ObserveLast(d, s) ==
  LET m == d.log + LogGain[AtLeast(s)]
  IN  [n |-> d.n + 1, log |-> m, at |-> IF m > LogThreshold THEN d.n ELSE d.at]

\* observe_residual: the martingale in log space, and the first crossing.
Observe(d, s) ==
  LET m == d.log + LogGain[AtLeast(s)]
  IN  [n |-> d.n + 1, log |-> m,
       at |-> IF m > LogThreshold /\ d.at = -1 THEN d.n ELSE d.at]

\* assess_drift: a fresh detector reads the log, here the first n of it; -1 is no alarm.
Observed(residuals, n) ==
  LET after[i \in Nat] == IF i = 0 THEN [n |-> 0, log |-> 0, at |-> -1]
                          ELSE Observe(after[i - 1], residuals[i])
  IN  after[n]

Drift(residuals) == Observed(residuals, Len(residuals))

-------------------------------------------------------------------------------
\* The chunker.

Blank == <<0, 0>>
Unit(i, len) == [j \in 1..len |-> <<i, j>>]

\* f"{a} {b}".strip()
Joined(a, b) == IF a = <<>> THEN b ELSE a \o <<Blank>> \o b

\* _split_oversized: windows of TargetChars, every stride characters.
Windows(text) ==
  LET stride == Max({1, TargetChars - OverlapChars})
      count  == (Len(text) + stride - 1) \div stride
  IN  [w \in 1..count |-> SubSeq(text, (w - 1) * stride + 1,
                                 Min({(w - 1) * stride + TargetChars, Len(text)}))]

\* One turn of the loop of chunk_text: a runt is held back for the next unit.
Step(c, unit) ==
  LET current == Joined(c.pending, unit)
  IN  IF Len(current) < MinChunkChars THEN [c EXCEPT !.pending = current]
      ELSE [chunks  |-> IF Len(current) > TargetChars THEN c.chunks \o Windows(current)
                        ELSE Append(c.chunks, current),
            pending |-> <<>>]

\* chunk_text: a runt at the end is added to the last chunk.
Chunks(units) ==
  LET c == FoldLeft(LAMBDA a, u : Step(a, u), [chunks |-> <<>>, pending |-> <<>>], units)
  IN  IF c.pending = <<>> THEN c.chunks
      ELSE IF c.chunks = <<>> THEN <<c.pending>>
      ELSE [c.chunks EXCEPT ![Len(c.chunks)] = Joined(@, c.pending)]
=============================================================================
