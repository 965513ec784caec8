------------------------------- MODULE AuditRun -------------------------------
(***************************************************************************)
(* What one run of the CI pipeline makes of a push, as a function of the   *)
(* world it finds: the source fetched from GitHub (source-fetcher.ts), the *)
(* workspace with the contract's test bundle (workspace-builder.ts), the   *)
(* sandbox that runs it (sandbox/), the harness inside (test-harness.cjs), *)
(* the scan, and the audit record (worker.ts).                             *)
(***************************************************************************)
EXTENDS Analysis, SourceMetrics


CONSTANTS
  MaxBytes    \* the fetcher's limit on the source

ASSUME AuditRunAssumption == MaxBytes \in Nat

Nothing == [kind |-> "nothing"]

-------------------------------------------------------------------------------
\* The source. A repository is its URL's slug, the answer for the tree of the
\* commit, and the files in the order of their paths.

Auditable(file) == file.source

Readable(files) == Filtered(files, {i \in DOMAIN files : Auditable(files[i]) /\ files[i].blob = "text"})
Size(files)     == FoldLeft(LAMBDA n, f : n + f.size, 0, files)

\* getJson: an answer that is no JSON object with status 200 is a failure.
Reached(repo) ==
  /\ repo.tree # "unreachable"
  /\ \A i \in DOMAIN repo.files : Auditable(repo.files[i]) => repo.files[i].blob # "unreachable"

\* fetchSource: the readable sources of the commit, or a failed run.
Fetched(repo, pinned) ==
  IF /\ repo.slug /\ pinned
     /\ Reached(repo) /\ repo.tree # "truncated"
     /\ Readable(repo.files) # <<>>
     /\ Size(Readable(repo.files)) <= MaxBytes
  THEN [kind |-> "fetched", files |-> Readable(repo.files)]
  ELSE Nothing

\* processCodePush: inline code, or the pushed commit where fetching is enabled.
Code(world, push) ==
  IF push.inline THEN [kind |-> "inline"]
  ELSE IF world.fetch THEN Fetched(world.repo, push.pinned) ELSE Nothing

-------------------------------------------------------------------------------
\* The workspace and the tests in it.

\* buildWorkspace, fetchTestBundle: which suite; an empty one is refused.
Bundle(world, push) ==
  IF push.demo THEN "demo"
  ELSE IF world.bundle = "stored" THEN "contract" ELSE "none"

\* Without a suite, the harness or a directory to write there is no workspace.
Workspace(world, push) ==
  IF Bundle(world, push) # "none" /\ world.asset THEN Bundle(world, push) ELSE "none"

\* expect: what becomes of a case with an assertion that holds or not. A negated one,
\* and toThrow, are promises: without an await, their failure reaches nobody.
Asserted(holds, promise, awaited) ==
  IF holds THEN "passes" ELSE IF promise /\ ~awaited THEN "floats" ELSE "fails"

\* One case of the suite. A floating failure ends the process, but only when a
\* later case lets it wait.
Turn(run, case) ==
  IF run.dead \/ case = "skipped" THEN run
  ELSE CASE case = "passes" -> [run EXCEPT !.passed = @ + 1]
         [] case = "fails"  -> [run EXCEPT !.failed = @ + 1]
         [] case = "floats" -> [run EXCEPT !.passed = @ + 1, !.loose = TRUE]
         [] case = "waits"  -> IF run.loose THEN [run EXCEPT !.dead = TRUE]
                               ELSE [run EXCEPT !.passed = @ + 1]
         [] case = "hangs"  -> IF run.loose THEN [run EXCEPT !.dead = TRUE]
                               ELSE [run EXCEPT !.failed = @ + 1]

\* One case after another, the first n of them.
Ran(cases, n) ==
  LET run[i \in Nat] == IF i = 0 THEN [passed |-> 0, failed |-> 0, loose |-> FALSE, dead |-> FALSE]
                        ELSE Turn(run[i - 1], cases[i])
  IN  run[n]

\* The harness: the lines it prints itself that hold counts.
Harness(suite) ==
  LET run == Ran(suite.cases, Len(suite.cases))
  IN  IF ~suite.loads THEN <<[passed |-> 0, total |-> 0]>>
      ELSE IF run.dead THEN <<>>
      ELSE <<[passed |-> run.passed, total |-> run.passed + run.failed]>>

\* parseTestOutput: the first line with counts, 0 of 0 without one.
ParsedOutput(lines) == IF lines = <<>> THEN [passed |-> 0, total |-> 0] ELSE Head(lines)

-------------------------------------------------------------------------------
\* The sandbox.

\* A pin that cannot be had is ignored.
RunnerDowngrading(world) == IF world.docker /\ world.pin # "node" THEN "docker" ELSE "node"

\* selectSandboxRunner: the pinned one or none; otherwise the stronger one.
Runner(world) ==
  CASE world.pin = "docker" -> IF world.docker THEN "docker" ELSE "none"
    [] world.pin = "node"   -> IF world.node THEN "node" ELSE "none"
    [] OTHER                -> IF world.docker THEN "docker" ELSE "node"

\* The fail of either adapter, and runInSandbox without one.
NotRun(runner) == [provisioned |-> FALSE, runner |-> runner, passed |-> 0, total |-> 0]

\* The lines with counts on the standard output of a run. The pushed code shares it
\* with the harness, which prints last: a line of its own comes before the harness's.
Printed(world) == world.own \o Harness(world.suite)

\* A run that is killed after its time keeps the counts it has printed.
Executed(world, runner) ==
  LET counts == ParsedOutput(Printed(world))
  IN  [provisioned |-> ~world.stalls, runner |-> runner, passed |-> counts.passed, total |-> counts.total]

RunInDocker(world, workspace) ==
  IF world.docker /\ workspace # "none" THEN Executed(world, "docker") ELSE NotRun("docker")

RunInNode(world, workspace) ==
  IF world.node /\ workspace # "none" /\ world.guard THEN Executed(world, "node") ELSE NotRun("node")

\* runInSandbox
Sandboxed(world, workspace) ==
  CASE Runner(world) = "docker" -> RunInDocker(world, workspace)
    [] Runner(world) = "node"   -> RunInNode(world, workspace)
    [] OTHER                    -> NotRun("none")

-------------------------------------------------------------------------------
\* The audit.

\* The rules, and the model's answer as the AI service passes it on.
Findings(world) ==
  LET static == StaticScan(world.rules.perLine, world.rules.whole)
  IN  IF world.model THEN Merge(static, Normalize(world.llm, MaxLines)) ELSE Listed(static)

\* processCodePush from the sandbox on: the record that is saved and published.
Audit(world, push) ==
  IF Code(world, push) = Nothing THEN Nothing
  ELSE LET workspace == Workspace(world, push)
           ran       == Sandboxed(world, workspace)
           metrics   == Metrics(world.parsed)
           found     == Findings(world)
           t         == [maint |-> metrics.maint, passed |-> ran.passed, total |-> ran.total,
                         vulns |-> Len(found), crit |-> Of(found, "CRITICAL"), high |-> Of(found, "HIGH"),
                         complete |-> world.model]
       IN  [kind |-> "audit", t |-> t, code |-> Code(world, push), runner |-> ran.runner,
            provisioned |-> ran.provisioned, suite |-> workspace, demo |-> push.demo,
            passed |-> /\ ScanPassed(found) /\ t.complete
                       /\ t.passed = t.total /\ t.total > 0 /\ t.maint > 50]
===============================================================================
