--------------------------- MODULE AnalysisSamples ---------------------------
(***************************************************************************)
(* What is expected of the functions of Analysis, over every input within  *)
(* the bounds. An input is a value of the variable sample, which nothing   *)
(* changes: one initial state for each.                                    *)
(***************************************************************************)
EXTENDS Analysis


VARIABLE sample

NoSample == [of |-> "nothing"]

Metering   == [maint : {0, 9, 50, 99, 100}, passed : 0..2, total : 1..2,
               vulns : 0..2, crit : 0..1, high : 0..1, complete : {TRUE}]
Telemetry  == {t \in Metering : t.passed <= t.total /\ Scorable(t)}
Adherence  == {s \in [allowed : 0..2, total : 0..2] : s.allowed <= s.total}

Residuals == {Calibration[i] : i \in DOMAIN Calibration} \cup {-1, 1000}
Talks     == UNION {[1..n -> Residuals] : n \in 0..MaxMessages}

Texts == UNION {[1..n -> {1, MinChunkChars - 1, MinChunkChars, TargetChars, 2 * TargetChars}] :
                  n \in 0..MaxUnits}

SampleInit ==
  \/ sample = NoSample
  \/ \E t \in Telemetry, s \in Adherence : sample = [of |-> "score", t |-> t, scope |-> s]
  \/ \E talk \in Talks : sample = [of |-> "drift", talk |-> talk]
  \/ \E lens \in Texts : sample = [of |-> "text", lens |-> lens]

-------------------------------------------------------------------------------
Distance(a, b) == IF a < b THEN b - a ELSE a - b

(***************************************************************************)
(* A trust score is between 0 and 100; it is 100 exactly for a run without *)
(* any fault; a better run of the same size never scores less; and scope   *)
(* checks that were never made neither help nor harm: with them, the score *)
(* is the weighted mean of the score without them and of the adherence,    *)
(* up to the rounding of the terms (xai.py:167-224).                       *)
(***************************************************************************)
ScoreSound ==
  sample.of = "score" =>
    LET t     == sample.t
        s     == sample.scope
        score == TrustScore(t, s)
        none  == [allowed |-> 0, total |-> 0]
    IN  /\ score \in 0..10000
        /\ score = 10000 <=> /\ t.maint = 100 /\ t.passed = t.total /\ t.vulns = 0
                             /\ s.allowed = s.total
        /\ s.total > 0 => Distance(100 * s.total * score,
                                   85 * s.total * TrustScore(t, none) + 100 * 1500 * s.allowed)
                            <= 400 * s.total
        /\ \A u \in Telemetry :
             u.maint <= t.maint /\ u.total = t.total /\ u.passed <= t.passed
               /\ u.vulns >= t.vulns /\ u.crit >= t.crit /\ u.high >= t.high
             => TrustScore(u, s) <= score

(***************************************************************************)
(* An alarm that was raised stays where it was, whatever follows: the      *)
(* assessment of a longer log agrees with the one anchored before. And a   *)
(* conversation that strays further never raises its alarm later           *)
(* (drift_detector.py:302-307).                                            *)
(***************************************************************************)
AlarmStays ==
  sample.of = "drift" =>
    LET talk == sample.talk
        at   == Drift(talk).at
    IN  /\ \A n \in 0..Len(talk) :
             LET before == Drift(SubSeq(talk, 1, n)).at IN before = IF at < n THEN at ELSE -1
        /\ \A i \in DOMAIN talk :
             at # -1 => Drift([talk EXCEPT ![i] = 1000]).at \in 0..at

Characters(text) == SelectSeq(FlattenSeq(text), LAMBDA c : c # Blank)

\* Windows repeat the characters they overlap in: the first occurrences are kept.
FirstTime(s) == FoldLeft(LAMBDA a, c : IF Contains(a, c) THEN a ELSE Append(a, c), <<>>, s)

(***************************************************************************)
(* Chunking loses no character of a contract's text and keeps their order, *)
(* and no chunk is empty or, but for the last one with a runt added to it, *)
(* longer than the embedder is given (chunker.py:97-130).                  *)
(***************************************************************************)
ChunksCoverText ==
  sample.of = "text" =>
    LET units  == [i \in DOMAIN sample.lens |-> Unit(i, sample.lens[i])]
        chunks == Chunks(units)
    IN  /\ FirstTime(Characters(chunks)) = Characters(units)
        /\ \A i \in DOMAIN chunks : chunks[i] # <<>>
        /\ \A i \in DOMAIN chunks : i < Len(chunks) => Len(chunks[i]) <= TargetChars
===============================================================================
