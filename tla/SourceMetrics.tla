---------------------------- MODULE SourceMetrics ----------------------------
(***************************************************************************)
(* The static metrics of a source (ci-worker/src/ast-analyzer.ts): McCabe  *)
(* complexity of the module and of each function, Halstead's counts and    *)
(* the maintainability index.                                              *)
(*                                                                         *)
(* A syntax tree is the sequence of its nodes as they are entered: a node  *)
(* has a type, the place of its parent (0 is the file), the name or symbol *)
(* it carries, and a flag that says whether an optional part is there: the *)
(* test of a case, the else of an if, the init of a declarator, brackets.  *)
(***************************************************************************)
EXTENDS Integers, Sequences, FiniteSets, SequencesExt


CONSTANTS
  Ln        \* natural logarithms of 1, 2, ... in hundredths

ASSUME SourceMetricsAssumption ==
  /\ Len(Ln) >= 2 /\ Ln[1] = 0 /\ Ln[2] > 0
  /\ \A n \in DOMAIN Ln : Ln[n] \in Nat /\ (n > 1 => Ln[n - 1] <= Ln[n])

Branching ==
  {"IfStatement", "ConditionalExpression", "ForStatement", "ForInStatement", "ForOfStatement",
   "WhileStatement", "DoWhileStatement", "CatchClause", "LogicalExpression"}

\* decisionCountFor: default: is no decision.
Decides(node) == node.type \in Branching \/ (node.type = "SwitchCase" /\ node.has)

FunctionTypes ==
  {"FunctionDeclaration", "FunctionExpression", "ArrowFunctionExpression",
   "ObjectMethod", "ClassMethod", "ClassPrivateMethod"}

\* path.getFunctionParent for every node: the nearest function around it, or 0.
Enclosing(tree) ==
  LET up[i \in 0..Len(tree)] ==
        IF i = 0 THEN 0
        ELSE LET p == tree[i].parent
             IN  IF p = 0 \/ tree[p].type \in FunctionTypes THEN p ELSE up[p]
  IN  up

Functions(tree) == {i \in DOMAIN tree : tree[i].type \in FunctionTypes}
Decisions(tree) == {i \in DOMAIN tree : Decides(tree[i])}

\* analyzeAST: each decision counts for the module and for its nearest function.
FunctionComplexity(tree) ==
  LET around == Enclosing(tree)
  IN  [f \in Functions(tree) |-> 1 + Cardinality({i \in Decisions(tree) : around[i] = f})]

Cyclomatic(tree) == 1 + Cardinality(Decisions(tree))

Worst(tree) == IF Functions(tree) = {} THEN Cyclomatic(tree)
               ELSE Max({FunctionComplexity(tree)[f] : f \in Functions(tree)})

Operands ==
  {"Identifier", "PrivateName", "NumericLiteral", "StringLiteral", "BooleanLiteral", "BigIntLiteral",
   "RegExpLiteral", "NullLiteral", "ThisExpression", "Super"}

\* Types that add their own symbol, and types that add one of their own name.
Symbolic == {"BinaryExpression", "LogicalExpression", "AssignmentExpression", "UnaryExpression",
             "UpdateExpression", "VariableDeclaration"}
Keywords == {"ConditionalExpression", "ForStatement", "ForInStatement", "ForOfStatement", "WhileStatement",
             "DoWhileStatement", "SwitchStatement", "TryStatement", "CatchClause", "ThrowStatement",
             "ReturnStatement", "BreakStatement", "ContinueStatement", "AwaitExpression",
             "YieldExpression", "ArrowFunctionExpression", "ObjectExpression", "TemplateLiteral"}

\* Types that share a symbol.
Shared == [Call     |-> {"CallExpression", "OptionalCallExpression", "NewExpression"},
           Member   |-> {"MemberExpression", "OptionalMemberExpression"},
           Rest     |-> {"SpreadElement", "RestElement"},
           Function |-> {"FunctionDeclaration", "FunctionExpression"},
           Class    |-> {"ClassDeclaration", "ClassExpression"}]

\* The operators a node adds; most types add none.
Operators(node) ==
  CASE node.type \in Symbolic              -> <<node.name>>
    [] node.type \in Keywords              -> <<node.type>>
    [] node.type = "IfStatement"           -> IF node.has THEN <<"if", "else">> ELSE <<"if">>
    [] node.type = "SwitchCase"            -> <<IF node.has THEN "case" ELSE "default">>
    [] node.type = "VariableDeclarator"    -> IF node.has THEN <<"=">> ELSE <<>>
    [] node.type \in Shared.Member         -> <<IF node.has THEN "[]" ELSE ".">>
    [] node.type = "ArrayExpression"       -> <<"[]">>
    [] \E s \in DOMAIN Shared \ {"Member"} : node.type \in Shared[s] ->
         <<CHOOSE s \in DOMAIN Shared : node.type \in Shared[s]>>
    [] OTHER                               -> <<>>

\* collectHalstead: the distinct and all of the operators and operands.
Halstead(tree) ==
  LET operators == FlattenSeq([i \in DOMAIN tree |-> Operators(tree[i])])
      operands  == SelectSeq(tree, LAMBDA n : n.type \in Operands)
  IN  [vocabulary |-> Cardinality({operators[i] : i \in DOMAIN operators})
                        + Cardinality({operands[i].name : i \in DOMAIN operands}),
       length     |-> Len(operators) + Len(operands)]

\* The volume, length * log2(vocabulary), to the nearest whole below.
Volume(h) == IF h.vocabulary = 0 THEN 0 ELSE (h.length * Ln[h.vocabulary]) \div Ln[2]

\* countSourceLines: a line inside a comment that does not look like one counts.
SourceLines(lines) ==
  Len(SelectSeq(lines, LAMBDA l : l.text # "blank" /\ ~(l.commented /\ l.text = "comment")))

\* computeMaintainabilityIndex, in whole points.
MaintainabilityIndex(volume, complexity, lines) ==
  IF volume <= 0 \/ lines <= 0 THEN 100
  ELSE Max({0, Min({100, (171000 - 52 * Ln[volume] - 230 * complexity - 162 * Ln[lines]) \div 1710})})

\* analyzeAST: a source that cannot be parsed has no metrics at all.
Metrics(source) ==
  IF ~source.parses
  THEN [parsed |-> FALSE, complexity |-> 0, maint |-> 0, lines |-> 0, functions |-> 0, worst |-> 0]
  ELSE LET lines == SourceLines(source.lines)
       IN  [parsed     |-> TRUE,
            complexity |-> Cyclomatic(source.tree),
            maint      |-> MaintainabilityIndex(Volume(Halstead(source.tree)), Cyclomatic(source.tree), lines),
            lines      |-> lines,
            functions  |-> Cardinality(Functions(source.tree)),
            worst      |-> Worst(source.tree)]
=============================================================================
