--------------------------- MODULE MCVerification ---------------------------
(***************************************************************************)
(* Starting points: pushes, audits to be scored, two chat messages, and    *)
(* the samples the functions of Analysis are tried on. Telemetry: a        *)
(* flawless run, the same with half a scan, and a run without tests that   *)
(* has a critical finding.                                                 *)
(***************************************************************************)
EXTENDS Verification, AuditRunSamples, TLC

CONSTANTS eval, weak,            \* rules
          w1, w2, g1, g2, m1, m2

T(maint, passed, total, vulns, crit, complete) ==
  [maint |-> maint, passed |-> passed, total |-> total, vulns |-> vulns,
   crit |-> crit, high |-> 0, complete |-> complete]

Flawless  == T(100, 2, 2, 0, 0, TRUE)
HalfScan  == T(100, 2, 2, 0, 0, FALSE)
Untested  == T(40, 0, 0, 1, 1, TRUE)
MCResults == {Flawless, HalfScan, Untested}
MCSeverity == (eval :> "CRITICAL") @@ (weak :> "MEDIUM")
MCCalibration == <<2, 5>>
MCLn == <<0, 69, 110, 139, 161, 179, 195, 208, 220, 230, 240, 248>>
MCLogGain == (0 :> 3) @@ (1 :> 1) @@ (2 :> -2)

Started(rows, budget) ==
  /\ pushMail = {} /\ ci = [w \in CIWorkers |-> NoRun]
  /\ audits = [i \in DOMAIN rows |-> [t |-> rows[i], demo |-> FALSE]]
  /\ auditMail = [i \in DOMAIN rows |-> [row |-> i, t |-> rows[i]]]
  /\ scoreMail = <<>> /\ oracle = None
  /\ gets = [g \in Gets |-> NoGet] /\ caller = [c \in Callers |-> Resting]
  /\ sim = FALSE /\ clock = 0
  /\ chat = [c \in Chats |-> NoChat] /\ delivered = 0
  /\ used = budget

Spent == [pushes |-> MaxPushes, runs |-> MaxRuns, views |-> MaxViews,
          messages |-> MaxMessagesSent, faults |-> 0]

Rows(allowed, rejected) == /\ checks = [allowed |-> allowed, rejected |-> rejected]
                           /\ dismissed = 0

Pushing == /\ Started(<<>>, [Spent EXCEPT !.pushes = 0, !.runs = 0])
           /\ assigned = TRUE /\ enabled = FALSE /\ Rows(0, 0)
Scoring == /\ \/ \E a \in Results : Started(<<a>>, [Spent EXCEPT !.views = 0]) /\ Rows(1, 0)
              \/ \E a \in Results \ {Flawless} : Started(<<a, Flawless>>, Spent) /\ Rows(1, 0)
              \/ Started(<<Flawless>>, Spent) /\ Rows(1, 1)
           /\ assigned = FALSE /\ enabled = TRUE
Talking == /\ Started(<<>>, [Spent EXCEPT !.messages = 0])
           /\ assigned = TRUE /\ enabled = TRUE /\ Rows(0, 0)

Idle == /\ Started(<<>>, Spent)
        /\ assigned = TRUE /\ enabled = FALSE /\ Rows(0, 0)

MCInit == \/ sample = NoSample /\ (Pushing \/ Scoring \/ Talking)
          \/ Idle /\ (SampleInit \/ AuditSampleInit)
MCSpec == MCInit /\ [][Next /\ UNCHANGED sample]_<<vars, sample>> /\ Fairness
=============================================================================
