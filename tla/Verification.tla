---------------------------- MODULE Verification ----------------------------
(***************************************************************************)
(* From a push to the oracle's approval, for one contract: pushes reach    *)
(* the bus through the webhook ingest or POST /simulate-push, a CI worker  *)
(* audits them (ci-worker/src/worker.ts), the settlement worker records    *)
(* the signals and asks the gateway for a score (settlement-worker/src/    *)
(* worker.ts, gateway-client.ts), GET /score computes one from the latest  *)
(* audit (routes/contracts-audit.ts), and packages/oracle keeps both.      *)
(* Beside it, chat messages pass the scope guard, which counts them.       *)
(*                                                                         *)
(* An action is the code between two awaits. A message whose CI run takes  *)
(* longer than the bus waits is given to the other replica as well.        *)
(***************************************************************************)
EXTENDS Analysis

CONSTANTS
  CIWorkers,      \* replicas of the CI worker
  Gets,           \* GET /score requests served at the same time
  Chats,          \* POST /chat requests served at the same time
  Results,        \* what a CI run can measure: telemetry records
  None,
  ScoreMaxAttempts,   \* SCORE_MAX_ATTEMPTS
  MaxTries,       \* calls triggerScoring fits into its deadline
  MaxPushes, MaxRuns, MaxViews, MaxMessagesSent, MaxFaults   \* bounds

ASSUME VerificationAssumption ==
  /\ \A t \in Results : Scorable(t) \/ t.total = 0
  /\ {ScoreMaxAttempts, MaxTries} \subseteq Nat \ {0}
  /\ {MaxPushes, MaxRuns, MaxViews, MaxMessagesSent, MaxFaults} \subseteq Nat
  /\ IsFiniteSet(Chats)
  /\ None \notin {"handler", "sweep"}

VARIABLES
  pushMail,     \* CODE_PUSH_RECEIVED not yet acknowledged: <<number, demo>>
  ci,           \* a replica's run: its step, its push and its audit
  audits,       \* audit_results, oldest first
  auditMail,    \* AUDIT_COMPLETED in stream order: positions in audits
  scoreMail,    \* XAI_SCORED in stream order
  oracle,       \* the row of oracle_state, None before the first write
  assigned,     \* contracts.freelancer_id is set
  enabled,      \* ENABLE_AUTO_SCORING
  gets,         \* GET /score requests and whom they answer
  caller,       \* triggerScoring in the audit handler and in the sweep
  sim,          \* POST /simulate-push past its check
  clock,        \* the newest stamp handed out as scoredAt
  checks,       \* scope_checks: allowed and rejected rows
  dismissed,    \* how many of the rejected ones are dismissed
  chat,         \* POST /chat requests
  delivered,    \* messages answered as delivered
  used          \* pushes, runs, views, messages and faults so far

pipeline == <<pushMail, ci, audits, auditMail, sim>>
scoring  == <<scoreMail, oracle, gets, caller, clock>>
talking  == <<checks, chat, delivered>>
setting  == <<assigned, enabled, dismissed>>
vars == <<pipeline, scoring, setting, talking, used>>

Callers   == {"handler", "sweep"}
NoRun     == [pc |-> "idle", push |-> <<>>, t |-> <<>>, row |-> 0]
NoGet     == [pc |-> "idle", by |-> None, audit |-> 0, score |-> 0, crit |-> 0, at |-> 0]
Resting   == [pc |-> "idle", tries |-> 0]
NoChat    == [pc |-> "idle", allowed |-> FALSE, waiting |-> FALSE]
Fresh     == [sig |-> Signals([maint |-> 0, passed |-> 0, total |-> 0, vulns |-> 1, complete |-> FALSE]),
              trust |-> None, crit |-> None, at |-> 0, attempts |-> 0]

Init ==
  /\ pushMail = {} /\ ci = [w \in CIWorkers |-> NoRun]
  /\ audits = <<>> /\ auditMail = <<>> /\ scoreMail = <<>>
  /\ oracle = None /\ assigned \in BOOLEAN /\ enabled \in BOOLEAN
  /\ gets = [g \in Gets |-> NoGet]
  /\ caller = [c \in Callers |-> Resting]
  /\ sim = FALSE /\ clock = 0
  /\ checks = [allowed |-> 0, rejected |-> 0] /\ dismissed = 0
  /\ chat = [c \in Chats |-> NoChat] /\ delivered = 0
  /\ used = [pushes |-> 0, runs |-> 0, views |-> 0, messages |-> 0, faults |-> 0]

Use(what, max) == used[what] < max /\ used' = [used EXCEPT ![what] = @ + 1]
Fault          == Use("faults", MaxFaults)

-------------------------------------------------------------------------------
\* Pushes.

Enqueue(demo) ==
  /\ Use("pushes", MaxPushes)
  /\ pushMail' = pushMail \cup {<<used.pushes, demo>>}

\* POST /webhooks/github: a signed push of a linked repository is published.
Webhook ==
  /\ Enqueue(FALSE)
  /\ UNCHANGED <<ci, audits, auditMail, sim, scoring, setting, talking>>

\* POST /simulate-push: refused once a real audit is on record, and then published.
CheckReal ==
  /\ ~sim
  /\ \A i \in DOMAIN audits : audits[i].demo
  /\ sim' = TRUE
  /\ UNCHANGED <<pushMail, ci, audits, auditMail, scoring, setting, talking, used>>

Simulate ==
  /\ sim /\ sim' = FALSE
  /\ \E demo \in BOOLEAN : Enqueue(demo)
  /\ UNCHANGED <<ci, audits, auditMail, scoring, setting, talking>>

\* POST /assign or /assignment/reject, seen from here.
Assign ==
  /\ ~assigned /\ assigned' = TRUE
  /\ UNCHANGED <<pipeline, scoring, enabled, dismissed, talking, used>>

-------------------------------------------------------------------------------
\* The CI worker. Its handler catches whatever the pipeline throws.

CIDone(w) ==
  /\ ci' = [ci EXCEPT ![w] = NoRun]
  /\ pushMail' = pushMail \ {ci[w].push}

\* A delivery: the first one, or of a message that has been pending too long.
Take(w) ==
  /\ ci[w].pc = "idle"
  /\ \E p \in pushMail :
       /\ \A v \in CIWorkers : ci[v].push = p => v # w
       /\ ci' = [ci EXCEPT ![w] = [NoRun EXCEPT !.pc = "analyze", !.push = p]]
  /\ Use("runs", MaxRuns)
  /\ UNCHANGED <<pushMail, audits, auditMail, sim, scoring, setting, talking>>

\* The source is fetched, the workspace built, tests run, code analysed and scanned.
\* Whatever is not to be had ends the run, but for tests (0 of 0) and the second layer.
Analyze(w) ==
  /\ ci[w].pc = "analyze"
  /\ \/ \E t \in Results :
          ci' = [ci EXCEPT ![w].pc = "save", ![w].t = t] /\ UNCHANGED <<pushMail, used>>
     \/ CIDone(w) /\ Fault
  /\ UNCHANGED <<audits, auditMail, sim, scoring, setting, talking>>

SavedAudit(w) == [t |-> ci[w].t, demo |-> ci[w].push[2]]
ToPublish(w)  == ci' = [ci EXCEPT ![w].pc = "publish", ![w].row = Len(audits) + 1]

\* A row that cannot be written is logged, and the run goes on.
SaveForgiving(w) ==
  /\ ci[w].pc = "save" /\ ToPublish(w)
  /\ \/ audits' = Append(audits, SavedAudit(w)) /\ UNCHANGED used
     \/ Fault /\ UNCHANGED audits
  /\ UNCHANGED <<pushMail, auditMail, sim, scoring, setting, talking>>

\* PostgresAuditStore.save: a row of its own for every run; without it, no event.
Save(w) ==
  /\ ci[w].pc = "save"
  /\ \/ audits' = Append(audits, SavedAudit(w)) /\ ToPublish(w) /\ UNCHANGED <<pushMail, used>>
     \/ CIDone(w) /\ Fault /\ UNCHANGED audits
  /\ UNCHANGED <<auditMail, sim, scoring, setting, talking>>

\* AUDIT_COMPLETED, once the row is there.
Publish(w) ==
  /\ ci[w].pc = "publish" /\ CIDone(w)
  /\ \/ auditMail' = Append(auditMail, [row |-> ci[w].row, t |-> ci[w].t]) /\ UNCHANGED used
     \/ Fault /\ UNCHANGED auditMail
  /\ UNCHANGED <<audits, sim, scoring, setting, talking>>

CrashCI(w) ==
  /\ ci[w].pc # "idle" /\ Fault
  /\ ci' = [ci EXCEPT ![w] = NoRun]
  /\ UNCHANGED <<pushMail, audits, auditMail, sim, scoring, setting, talking>>

CIStep(w) == Take(w) \/ Analyze(w) \/ Save(w) \/ Publish(w)

-------------------------------------------------------------------------------
\* GET /score. It answers its caller, unless that one has stopped listening.

\* The answer of g, and what triggerScoring does with it; a try uses up the deadline.
Answer(g, outcome) ==
  /\ gets' = [gets EXCEPT ![g] = NoGet]
  /\ caller' = IF gets[g].by \notin Callers THEN caller
               ELSE [caller EXCEPT ![gets[g].by].pc = outcome]

Ask(g, by) == gets' = [gets EXCEPT ![g] = [NoGet EXCEPT !.pc = "read", !.by = by]]

\* A browser showing the score.
View(g) ==
  /\ gets[g].pc = "idle" /\ Ask(g, None) /\ Use("views", MaxViews)
  /\ UNCHANGED <<pipeline, scoreMail, oracle, caller, clock, setting, talking>>

\* The newest audit and the freelancer: 409 when there is none of either, 503
\* when they cannot be read.
Read(g) ==
  /\ gets[g].pc = "read"
  /\ \/ IF audits = <<>> \/ ~assigned THEN Answer(g, "declined")
        ELSE /\ gets' = [gets EXCEPT ![g].pc = "compute", ![g].audit = Len(audits)]
             /\ UNCHANGED caller
     \/ Answer(g, "again")
  /\ UNCHANGED <<pipeline, scoreMail, oracle, clock, setting, talking, used>>

Telemetered(g) == audits[gets[g].audit].t

\* POST /xai/score: declined for an empty test run; the scope checks are counted
\* here. The scorer may be down for as long as it likes.
Compute(g) ==
  /\ gets[g].pc = "compute"
  /\ \/ IF ~Scorable(Telemetered(g)) THEN Answer(g, "declined")
        ELSE /\ gets' = [gets EXCEPT
                  ![g].pc = "stamp", ![g].crit = Telemetered(g).crit,
                  ![g].score = TrustScore(Telemetered(g),
                                 [allowed |-> checks.allowed, total |-> checks.allowed + checks.rejected])]
             /\ UNCHANGED caller
     \/ Answer(g, "again")
  /\ UNCHANGED <<pipeline, scoreMail, oracle, clock, setting, talking, used>>

\* The answer is back: scoredAt is the time of the answer.
Stamp(g) ==
  /\ gets[g].pc = "stamp"
  /\ clock' = clock + 1
  /\ gets' = [gets EXCEPT ![g].pc = "publish", ![g].at = clock + 1]
  /\ UNCHANGED <<pipeline, scoreMail, oracle, caller, setting, talking, used>>

\* XAI_SCORED, then 200; a failed publication is a 500.
PublishScore(g) ==
  /\ gets[g].pc = "publish"
  /\ \/ /\ scoreMail' = Append(scoreMail, [trust |-> gets[g].score, crit |-> gets[g].crit, at |-> gets[g].at])
        /\ Answer(g, "done") /\ UNCHANGED used
     \/ Answer(g, "again") /\ Fault /\ UNCHANGED scoreMail
  /\ UNCHANGED <<pipeline, oracle, clock, setting, talking>>

\* The caller's eight seconds are over; the gateway goes on by itself.
TimeOut(g) ==
  /\ gets[g].by \in Callers
  /\ gets' = [gets EXCEPT ![g].by = None]
  /\ caller' = [caller EXCEPT ![gets[g].by].pc = "again"]
  /\ Fault
  /\ UNCHANGED <<pipeline, scoreMail, oracle, clock, setting, talking>>

GetStep(g) == Read(g) \/ Compute(g) \/ Stamp(g) \/ PublishScore(g)

-------------------------------------------------------------------------------
\* The settlement worker's subscriptions and its sweep for missing scores.

Row == IF oracle = None THEN Fresh ELSE oracle
CallerGoto(c, pc) == caller' = [caller EXCEPT ![c].pc = pc]

\* The caller is done; for the handler this acknowledges its message.
Finish(c) ==
  /\ caller' = [caller EXCEPT ![c] = Resting]
  /\ auditMail' = IF c = "handler" THEN Tail(auditMail) ELSE auditMail

\* AUDIT_COMPLETED: the signals are recorded, or the message is given up.
RecordAudit ==
  /\ caller["handler"].pc = "idle" /\ auditMail # <<>>
  /\ \/ /\ oracle' = [Row EXCEPT !.sig = Signals(Head(auditMail).t)]
        /\ IF enabled THEN CallerGoto("handler", "count") /\ UNCHANGED auditMail ELSE Finish("handler")
        /\ UNCHANGED used
     \/ Finish("handler") /\ Fault /\ UNCHANGED oracle
  /\ UNCHANGED <<pushMail, ci, audits, sim, scoreMail, gets, clock, setting, talking>>

\* Only those whose first try was never made.
MissingUntried == oracle # None /\ oracle.trust = None /\ oracle.attempts = 0

\* reconcileMissingScores: which contracts lack a score and have tries left.
Missing == oracle # None /\ oracle.trust = None /\ oracle.attempts < ScoreMaxAttempts

Sweep ==
  /\ enabled /\ caller["sweep"].pc = "idle" /\ Missing
  /\ CallerGoto("sweep", "count")
  /\ UNCHANGED <<pipeline, scoreMail, oracle, gets, clock, setting, talking, used>>

\* attemptScoring counts the attempt first, or fails to and goes on.
Count(c) ==
  /\ caller[c].pc = "count"
  /\ CallerGoto(c, "again")
  /\ \/ oracle' = [oracle EXCEPT !.attempts = @ + 1] /\ UNCHANGED used
     \/ Fault /\ UNCHANGED oracle
  /\ UNCHANGED <<pipeline, scoreMail, gets, clock, setting, talking>>

\* A deadline that is never looked at.
Patient(c) == TRUE

InTime(c) == caller[c].tries < MaxTries

\* triggerScoring: another call, or none once the deadline has come.
Try(c) ==
  /\ caller[c].pc = "again"
  /\ \/ /\ InTime(c)
        /\ \E g \in Gets : gets[g].pc = "idle" /\ Ask(g, c)
        /\ caller' = [caller EXCEPT ![c].pc = "wait", ![c].tries = (@ + 1) % (MaxTries + 1)]
        /\ UNCHANGED auditMail
     \/ ~InTime(c) /\ Finish(c) /\ UNCHANGED gets
  /\ UNCHANGED <<pushMail, ci, audits, sim, scoreMail, oracle, clock, setting, talking, used>>

\* Scored, or refused for good: then the attempts are used up in one go.
Conclude(c) ==
  /\ caller[c].pc \in {"done", "declined"}
  /\ Finish(c)
  /\ \/ /\ oracle' = IF caller[c].pc = "declined"
                     THEN [oracle EXCEPT !.attempts = ScoreMaxAttempts] ELSE oracle
        /\ UNCHANGED used
     \/ caller[c].pc = "declined" /\ Fault /\ UNCHANGED oracle
  /\ UNCHANGED <<pushMail, ci, audits, sim, scoreMail, gets, clock, setting, talking>>

AppliesAlways(m) == TRUE

\* XAI_SCORED: oracle.recordScore, whose WHERE keeps a newer score.
Applies(m) == oracle = None \/ Row.at <= m.at

RecordScore ==
  /\ scoreMail # <<>>
  /\ scoreMail' = Tail(scoreMail)
  /\ \/ /\ oracle' = LET m == Head(scoreMail) IN
                     IF Applies(m) THEN [Row EXCEPT !.trust = m.trust, !.crit = m.crit, !.at = m.at]
                     ELSE oracle
        /\ UNCHANGED used
     \/ Fault /\ UNCHANGED oracle
  /\ UNCHANGED <<pipeline, gets, caller, clock, setting, talking>>

\* The worker dies: its callers with it; an unacknowledged message comes again.
CrashWorker ==
  /\ \E c \in Callers : caller[c].pc # "idle"
  /\ Fault
  /\ caller' = [c \in Callers |-> Resting]
  /\ gets' = [g \in Gets |-> IF gets[g].by \in Callers THEN [gets[g] EXCEPT !.by = None] ELSE gets[g]]
  /\ UNCHANGED <<pipeline, scoreMail, oracle, clock, setting, talking>>

CallerStep(c) == Count(c) \/ Try(c) \/ Conclude(c)

-------------------------------------------------------------------------------
\* POST /chat, and POST /scope/check behind it.

ChatGoto(c, pc) == chat' = [chat EXCEPT ![c].pc = pc]

Say(c) ==
  /\ chat[c].pc = "idle"
  /\ \E ok \in BOOLEAN : chat' = [chat EXCEPT ![c] = [pc |-> "check", allowed |-> ok, waiting |-> TRUE]]
  /\ Use("messages", MaxMessagesSent)
  /\ UNCHANGED <<pipeline, scoring, setting, checks, delivered>>

\* What the gateway used to do about a guard that does not answer.
CheckForgiving(c) ==
  /\ chat[c].pc = "check"
  /\ \/ /\ checks' = IF chat[c].allowed THEN [checks EXCEPT !.allowed = @ + 1]
                                        ELSE [checks EXCEPT !.rejected = @ + 1]
        /\ ChatGoto(c, IF chat[c].waiting THEN "answered" ELSE "idle") /\ UNCHANGED used
     \/ chat' = [chat EXCEPT ![c].pc = "answered", ![c].allowed = TRUE] /\ Fault /\ UNCHANGED checks
  /\ UNCHANGED <<pipeline, scoring, setting, delivered>>

\* The guard decides and records; what it cannot record it does not answer.
Check(c) ==
  /\ chat[c].pc = "check"
  /\ \/ /\ checks' = IF chat[c].allowed THEN [checks EXCEPT !.allowed = @ + 1]
                                        ELSE [checks EXCEPT !.rejected = @ + 1]
        /\ ChatGoto(c, IF chat[c].waiting THEN "answered" ELSE "idle") /\ UNCHANGED used
     \/ chat' = [chat EXCEPT ![c] = NoChat] /\ Fault /\ UNCHANGED checks
  /\ UNCHANGED <<pipeline, scoring, setting, delivered>>

\* The gateway's five seconds are over: 503, though the guard may still record.
GiveUp(c) ==
  /\ chat[c].pc = "check" /\ chat[c].waiting
  /\ chat' = [chat EXCEPT ![c].waiting = FALSE]
  /\ Fault
  /\ UNCHANGED <<pipeline, scoring, setting, checks, delivered>>

\* SCOPE_CHECKED is published; then the message is delivered, or blocked.
Reply(c) ==
  /\ chat[c].pc = "answered"
  /\ chat' = [chat EXCEPT ![c] = NoChat]
  /\ \/ delivered' = delivered + (IF chat[c].allowed THEN 1 ELSE 0) /\ UNCHANGED used
     \/ Fault /\ UNCHANGED delivered
  /\ UNCHANGED <<pipeline, scoring, setting, checks>>

\* A rejected row is marked as not to count.  The oracle reads scope_checks.dismissed;
\* nothing in the repository writes it, so this is done by hand.
Dismiss ==
  /\ dismissed < checks.rejected /\ dismissed' = dismissed + 1
  /\ UNCHANGED <<pipeline, scoring, assigned, enabled, talking, used>>

-------------------------------------------------------------------------------
Next ==
  \/ Webhook \/ CheckReal \/ Simulate \/ Assign \/ Dismiss
  \/ \E w \in CIWorkers : CIStep(w) \/ CrashCI(w)
  \/ \E g \in Gets : View(g) \/ GetStep(g) \/ TimeOut(g)
  \/ RecordAudit \/ Sweep \/ RecordScore \/ CrashWorker
  \/ \E c \in Callers : CallerStep(c)
  \/ \E c \in Chats : Say(c) \/ Check(c) \/ GiveUp(c) \/ Reply(c)

\* Loops, timers and requests under way go on; nothing is assumed of clients,
\* of GitHub or of the scorer.
Fairness ==
  /\ \A w \in CIWorkers : WF_vars(CIStep(w))
  /\ \A g \in Gets : WF_vars(GetStep(g))
  /\ \A c \in Callers : WF_vars(CallerStep(c))
  /\ WF_vars(RecordAudit) /\ WF_vars(Sweep) /\ WF_vars(RecordScore)

Spec == Init /\ [][Next]_vars /\ Fairness

-------------------------------------------------------------------------------
\* Properties.

\* oracle.evaluate: a rejected scope check blocks, unless it was dismissed.
Approved ==
  /\ oracle # None
  /\ oracle.sig.ast /\ oracle.sig.tests /\ oracle.sig.security
  /\ checks.rejected = dismissed
  /\ oracle.trust # None /\ oracle.trust >= Threshold /\ oracle.crit = 0

Clean(t) == t.complete /\ t.vulns = 0 /\ t.total > 0 /\ t.passed = t.total

(***************************************************************************)
(* Approval rests on evidence: some audit on record passed all of its      *)
(* tests under a scan that ran both layers and found nothing, and the      *)
(* score is that of an audit on record without a critical finding, under   *)
(* scope checks on record, no rejected one among them that has not been    *)
(* dismissed since - however pushes, audits, checks and scores of that     *)
(* contract overtake each other. Half a scan and an empty test run never   *)
(* suffice (worker.ts:144-151).                                            *)
(***************************************************************************)
Evidence ==
  Approved => \E i, j \in DOMAIN audits, a \in 0..checks.allowed, d \in 0..dismissed :
                /\ Clean(audits[i].t)
                /\ audits[j].t.crit = 0 /\ Scorable(audits[j].t)
                /\ oracle.trust = TrustScore(audits[j].t, [allowed |-> a, total |-> a + d])

(***************************************************************************)
(* An AUDIT_COMPLETED is about a row of audit_results that says the same,  *)
(* so that the oracle never has signals of an audit the score endpoint     *)
(* cannot see (ci-worker/src/worker.ts:269-275, audit-store.ts:10-13).     *)
(***************************************************************************)
SignalsHaveAudit ==
  /\ \A i \in DOMAIN auditMail : /\ auditMail[i].row \in DOMAIN audits
                                 /\ audits[auditMail[i].row].t = auditMail[i].t
  /\ oracle # None /\ oracle.sig # Fresh.sig =>
       \E i \in DOMAIN audits : Signals(audits[i].t) = oracle.sig

(***************************************************************************)
(* The stored score never gives way to one with an older stamp, though two *)
(* gateways may publish theirs in the other order (oracle/src/index.ts:    *)
(* 69-82).                                                                 *)
(***************************************************************************)
ScoresKeepOrder ==
  [][oracle # None => oracle'.at >= oracle.at]_oracle

(***************************************************************************)
(* A contract on record without a score gets one, or uses up its attempts: *)
(* whatever fails, no contract just stays unscored (worker.ts:1033-1050).  *)
(***************************************************************************)
ScoreResolves ==
  (enabled /\ oracle # None) ~> (Row.trust # None \/ Row.attempts >= ScoreMaxAttempts)

(***************************************************************************)
(* Scoring stalls the audit subscription for a bounded time: an audit that *)
(* waits is taken, although the scorer never answers (gateway-client.ts:   *)
(* 65-73).                                                                 *)
(***************************************************************************)
BacklogDrains == (auditMail # <<>>) ~> (auditMail = <<>>)

(***************************************************************************)
(* Every delivered message has an allowed row of its own in scope_checks,  *)
(* whose count the trust score uses (contracts-chat.ts:39-45).             *)
(***************************************************************************)
DeliveredIsRecorded ==
  delivered + Cardinality({c \in Chats : chat[c].pc = "answered" /\ chat[c].allowed})
    <= checks.allowed
=============================================================================
