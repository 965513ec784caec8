--------------------------- MODULE AuditRunSamples ---------------------------
(***************************************************************************)
(* What is expected of AuditRun and SourceMetrics, over every input within *)
(* the bounds; samples as in AnalysisSamples.                              *)
(***************************************************************************)
EXTENDS AnalysisSamples, AuditRun


CONSTANTS
  MaxNodes,    \* bound: nodes of the syntax trees looked at
  MaxCases,    \* bound: cases of the suites looked at
  MaxFiles     \* bound: files of the repositories looked at

SeqsUpTo(S, n) == UNION {[1..k -> S] : k \in 0..n}

NodeTypes == {"IfStatement", "SwitchCase", "FunctionDeclaration", "ClassMethod", "Identifier"}

\* The parent of a node is the node before it or an ancestor of that one.
Shapes(n) ==
  {parent \in [1..n -> 0..(n - 1)] :
     LET above[i \in 0..n] == IF i = 0 THEN {0} ELSE IF parent[i] < i THEN {i} \cup above[parent[i]] ELSE {}
     IN  \A i \in 1..n : parent[i] \in above[i - 1]}

Trees(n) == {[i \in 1..n |-> [type |-> types[i], parent |-> shape[i], name |-> "x", has |-> FALSE]] :
               shape \in Shapes(n), types \in [1..n -> NodeTypes]}

Cases  == {Asserted(h, p, a) : h, p, a \in BOOLEAN} \cup {"waits", "hangs", "skipped"}
Suites == [loads : BOOLEAN, cases : SeqsUpTo(Cases, MaxCases)]

Blob(source, blob, size) == [source |-> source, blob |-> blob, size |-> size]
Files == SeqsUpTo({Blob(TRUE, "text", 1), Blob(TRUE, "text", MaxBytes), Blob(TRUE, "unreadable", 1),
                   Blob(TRUE, "unreachable", 1), Blob(FALSE, "text", 1)}, MaxFiles)
Repos == [slug : BOOLEAN, tree : {"whole", "truncated", "unreachable"}, files : Files]
NoRepo == [slug |-> FALSE, tree |-> "unreachable", files |-> <<>>]

Line(text, commented) == [text |-> text, commented |-> commented]
Tiny == [parses |-> TRUE, tree |-> <<[type |-> "Identifier", parent |-> 0, name |-> "x", has |-> FALSE]>>,
         lines |-> <<Line("code", FALSE)>>]
Broken == [Tiny EXCEPT !.parses = FALSE]

\* Where rules match, and findings of the model, on a line that may not exist.
NoMatch == [perLine |-> [l \in 1..MaxLines |-> {}], whole |-> [r \in Rules |-> 0]]
Matches == {NoMatch} \cup {[NoMatch EXCEPT !.perLine[1] = {r}] : r \in Rules}
                    \cup {[NoMatch EXCEPT !.whole[r] = 2] : r \in Rules}
Model(r, l, s) == [type |-> r, line |-> l, severity |-> s, layer |-> "llm"]
Replies == SeqsUpTo({Model(r, l, s) : r \in Rules, l \in 0..1, s \in {"HIGH", "LOW"}}, 2)

Plain == [fetch |-> TRUE, repo |-> NoRepo, bundle |-> "stored", asset |-> TRUE, guard |-> TRUE,
          suite |-> [loads |-> TRUE, cases |-> <<"passes">>], own |-> <<>>, pin |-> "", docker |-> TRUE, node |-> TRUE,
          stalls |-> FALSE, model |-> TRUE, parsed |-> Tiny, rules |-> NoMatch, llm |-> <<>>]

Pushed(inline, demo, pinned) == [inline |-> inline, demo |-> demo, pinned |-> pinned]

AuditSampleInit ==
  \/ \E n \in 0..MaxNodes : \E tree \in Trees(n) : sample = [of |-> "tree", tree |-> tree]
  \/ \E suite \in Suites : sample = [of |-> "suite", suite |-> suite]
  \/ \E repo \in Repos, fetch \in BOOLEAN, pinned \in BOOLEAN, docker \in BOOLEAN :
       sample = [of |-> "push", push |-> Pushed(FALSE, FALSE, pinned),
                 world |-> [Plain EXCEPT !.repo = repo, !.fetch = fetch, !.docker = docker]]
  \/ \E bundle \in {"stored", "missing", "empty", "down"}, asset, guard, docker, node, stalls, model, demo \in BOOLEAN,
        pin \in {"", "docker", "node"}, cases \in {<<>>, <<"passes">>, <<"waits", "fails">>},
        parsed \in {Tiny, Broken} :
       sample = [of |-> "push", push |-> Pushed(TRUE, demo, FALSE),
                 world |-> [Plain EXCEPT !.bundle = bundle, !.asset = asset, !.guard = guard, !.pin = pin,
                              !.docker = docker, !.node = node, !.stalls = stalls, !.model = model,
                              !.suite.cases = cases, !.parsed = parsed]]
  \/ \E passed \in 1..2, docker, demo \in BOOLEAN, cases \in {<<>>, <<"passes">>, <<"waits", "fails">>} :
       sample = [of |-> "push", push |-> Pushed(TRUE, demo, FALSE),
                 world |-> [Plain EXCEPT !.own = <<[passed |-> passed, total |-> 2]>>, !.docker = docker,
                              !.suite.cases = cases]]
  \/ \E rules \in Matches, llm \in Replies, model \in BOOLEAN :
       sample = [of |-> "push", push |-> Pushed(TRUE, FALSE, FALSE),
                 world |-> [Plain EXCEPT !.rules = rules, !.llm = llm, !.model = model]]

-------------------------------------------------------------------------------
Ancestors(tree, i) ==
  LET above[j \in 0..Len(tree)] == IF j = 0 THEN {} ELSE {tree[j].parent} \cup above[tree[j].parent]
  IN  above[i] \ {0}

(***************************************************************************)
(* Every decision counts once for the module and once, if any, for the     *)
(* innermost function it is written in, however functions and methods are  *)
(* nested; so no function is ever as complex as it looks to its own parent *)
(* (ast-analyzer.ts:405-448).                                              *)
(***************************************************************************)
ComplexityIsLocal ==
  sample.of = "tree" =>
    LET tree   == sample.tree
        within(f, i) == f \in Ancestors(tree, i)
        inner(i) == {f \in Functions(tree) : within(f, i) /\
                       \A g \in Functions(tree) : within(g, i) => g = f \/ within(g, f)}
    IN  /\ \A f \in Functions(tree) :
             FunctionComplexity(tree)[f] = 1 + Cardinality({i \in Decisions(tree) : f \in inner(i)})
        /\ Worst(tree) <= Cyclomatic(tree)
        /\ Halstead(tree).vocabulary <= Halstead(tree).length

Severe == {"CRITICAL", "HIGH"}

\* What has to be so of an audit a, saved for the push p in the world w.
Measures(a, w, p) ==
  LET readable == {i \in DOMAIN w.repo.files : w.repo.files[i].source /\ w.repo.files[i].blob = "text"}
      rules    == StaticScan(w.rules.perLine, w.rules.whole)
  IN  /\ ~p.inline => /\ p.pinned /\ w.fetch /\ w.repo.tree = "whole"
                      /\ a.code.files # <<>> /\ Len(a.code.files) = Cardinality(readable)
                      /\ {a.code.files[k] : k \in DOMAIN a.code.files} = {w.repo.files[i] : i \in readable}
      /\ a.t.total > 0 =>
           /\ a.runner \in {"docker", "node"} /\ w[a.runner]
           /\ w.pin # "" => a.runner = w.pin
           /\ w.pin = "" /\ w.docker => a.runner = "docker"
           /\ a.suite = (IF a.demo THEN "demo" ELSE "contract")
           /\ ~a.demo => w.bundle = "stored"
           /\ w.own = <<>> => a.t.total = Cardinality({i \in DOMAIN w.suite.cases : w.suite.cases[i] # "skipped"})
           /\ w.own # <<>> => a.t.passed = Head(w.own).passed /\ a.t.total = Head(w.own).total
      /\ a.passed => /\ a.t.total > 0 /\ w.model /\ w.parsed.parses
                     /\ \A f \in rules : f.severity \notin Severe
                     /\ \A i \in DOMAIN w.llm :
                          w.llm[i].severity \in Severe /\ w.llm[i].line \in 1..MaxLines =>
                            \E f \in rules : Key(f) = Key(w.llm[i])
      /\ Scorable(a.t) \/ a.t.total = 0

(***************************************************************************)
(* An audit measures what was pushed with what it was to be measured with: *)
(* the readable sources of the pinned commit and no part of them; a runner *)
(* that is available and the pinned one if one is pinned; the suite of the *)
(* contract, or the demo suite in an audit that says it is one. The counts *)
(* are of every case of the suite that is not skipped, unless the pushed   *)
(* code prints a line of counts itself: the first such line of the output  *)
(* they share is then what the audit says (sandbox/types.ts:109-138).      *)
(* Anything that is missing leaves 0 of 0 tests or no audit, and neither   *)
(* passes; a source that cannot be parsed does not either, nor one in      *)
(* which the rules or the model find something severe, but for what the    *)
(* model finds where a rule has a milder finding (sandbox/index.ts:8-14,   *)
(* workspace-builder.ts:34-40, source-fetcher.ts:29-35,                    *)
(* security-auditor.ts:222-228).                                           *)
(***************************************************************************)
AuditIsMeasured ==
  sample.of = "push" =>
    \A a \in {Audit(sample.world, sample.push)} : a # Nothing => Measures(a, sample.world, sample.push)

(***************************************************************************)
(* What is concluded from telemetry, a conversation, a text and a syntax   *)
(* tree is what it was meant to say, on every small one (xai.py,           *)
(* drift_detector.py, chunker.py, ast-analyzer.ts).                        *)
(***************************************************************************)
AnalysesSound == ScoreSound /\ AlarmStays /\ ChunksCoverText /\ ComplexityIsLocal

(***************************************************************************)
(* "Failures are reported, never swallowed" (test-harness.cjs:24): where   *)
(* the harness prints counts, every case whose assertions fail is failed.  *)
(***************************************************************************)
FailuresReported ==
  sample.of = "suite" =>
    LET counts == ParsedOutput(Harness(sample.suite))
        failing == SelectSeq(sample.suite.cases, LAMBDA c : c \in {"fails", "floats", "hangs"})
    IN  counts.total > 0 => counts.total - counts.passed = Len(failing)
===============================================================================
