------------------------------- MODULE Canonical -------------------------------
(***************************************************************************)
(* The canonical form of a ledger payload                                  *)
(* (packages/ledger-client/src/canonical.ts).  A JSON value is a record    *)
(* with its type t and its content v: for an object, the members in the    *)
(* order in which they were set.  A key, like a string, is a sequence of   *)
(* code units.  The canonical text is a sequence of tokens; what JSON      *)
(* cannot hold is refused.                                                 *)
(***************************************************************************)
EXTENDS Integers, Sequences, FiniteSets, SequencesExt

CONSTANT MaxNesting   \* bound: how deep arrays and objects are nested

Num(n)    == [t |-> "num", v |-> [neg |-> FALSE, n |-> n]]
MinusZero == [t |-> "num", v |-> [neg |-> TRUE, n |-> 0]]
Str(s)    == [t |-> "str", v |-> s]
Arr(s)    == [t |-> "arr", v |-> s]
Obj(s)    == [t |-> "obj", v |-> s]
Member(k, x) == [k |-> k, x |-> x]

\* NaN and the infinities, undefined, a BigInt, a function, a Date.
Unanchorable == [t |-> "none", v |-> <<>>]

\* obj[key], and the parts of a value: the elements of an array by their places,
\* the members of an object by their keys.
Keys(x)  == {x.v[i].k : i \in DOMAIN x.v}
Steps(x) == CASE x.t = "arr" -> DOMAIN x.v
              [] x.t = "obj" -> Keys(x)
              [] OTHER       -> {}
Part(x, s) == IF x.t = "arr" THEN x.v[s] ELSE x.v[CHOOSE i \in DOMAIN x.v : x.v[i].k = s].x
Contents(values) == UNION {{Part(x, s) : s \in Steps(x)} : x \in values}

\* The values n levels below a value.
Inside(x, n) ==
  LET level[k \in Nat] == IF k = 0 THEN {x} ELSE Contents(level[k - 1])
  IN  level[n]

-------------------------------------------------------------------------------
\* compareCodeUnits: the first difference decides, and a proper beginning comes first.
Before(a, b) ==
  \E i \in DOMAIN b : /\ \A j \in 1..(i - 1) : j \in DOMAIN a /\ a[j] = b[j]
                      /\ i \in DOMAIN a => a[i] < b[i]

\* Object.keys(obj).sort: a set of keys in the order given by the pairs in ahead.
InOrder(keys, ahead) ==
  [r \in 1..Cardinality(keys) |->
     CHOOSE k \in keys : Cardinality({l \in keys : <<l, k>> \in ahead}) = r - 1]

CodeUnitOrder(keys) == {p \in keys \X keys : Before(p[1], p[2])}

\* What is written: marks, keys, and values that have no parts.
Token(kind, s) == [t |-> "token", v |-> <<kind, s>>]
Mark(m)        == Token("mark", m)

\* Numbers as JCS has them: -0 is 0.
SerializeNumber(v) == Token("num", [v EXCEPT !.neg = @ /\ v.n # 0])

\* The keys in that order, each followed by what obj[key] is.
Entries(x, keys) ==
  [i \in 1..(2 * Len(keys)) |-> IF i % 2 = 1 THEN Token("key", keys[(i + 1) \div 2])
                                ELSE Part(x, keys[i \div 2])]

\* serialize, one level of it: what is inside a value is still to be written.
Serialize(x) ==
  CASE x.t = "num" -> <<SerializeNumber(x.v)>>
    [] x.t = "str" -> <<Token("str", x.v)>>
    [] x.t = "arr" -> <<Mark("[")>> \o x.v \o <<Mark("]")>>
    [] x.t = "obj" -> <<Mark("{")>> \o Entries(x, InOrder(Keys(x), CodeUnitOrder(Keys(x)))) \o <<Mark("}")>>
    [] OTHER       -> <<x>>

SerializeAll(tokens) == FlattenSeq([i \in DOMAIN tokens |-> Serialize(tokens[i])])

\* n levels of it.
Written(tokens, n) ==
  LET after[k \in Nat] == IF k = 0 THEN tokens ELSE SerializeAll(after[k - 1])
  IN  after[n]

Canonicalizable(x) == \A n \in 0..MaxNesting : \A y \in Inside(x, n) : y.t # "none"

\* The text of a value that has one.
Canonicalize(x) == Written(<<x>>, MaxNesting + 1)

(***************************************************************************)
(* What JSON says, and what the database makes of a text it stores.        *)
(***************************************************************************)

\* An object has each key once; keys are code units; minus zero is the only number
\* with a sign of its own.
WellFormed(x) ==
  CASE x.t = "num" -> x.v \in [neg : BOOLEAN, n : Int] /\ (x.v.neg => x.v.n = 0)
    [] x.t = "arr" -> x.v \in Seq({x.v[i] : i \in DOMAIN x.v})
    [] x.t = "obj" -> /\ x.v \in Seq({x.v[i] : i \in DOMAIN x.v})
                      /\ \A i, j \in DOMAIN x.v : x.v[i].k = x.v[j].k => i = j
                      /\ \A i \in DOMAIN x.v : x.v[i].k \in Seq(Nat)
    [] OTHER       -> x.t \in {"str", "none"}

\* A JSON value, or what a caller may take for one, nested no deeper than the bound.
IsJson(x) ==
  /\ \A n \in 0..MaxNesting : \A y \in Inside(x, n) : WellFormed(y)
  /\ \A y \in Inside(x, MaxNesting) : Steps(y) = {}

\* Of the same type, with the same content but for parts.
Alike(x, y) ==
  /\ x.t = y.t /\ Steps(x) = Steps(y)
  /\ x.t = "num" => x.v.n = y.v.n
  /\ x.t = "str" => x.v = y.v

\* What stands at the same place in two values, and n levels below them.
PartsOf(x, y) ==
  IF x.t = y.t THEN {<<Part(x, s), Part(y, s)>> : s \in Steps(x) \cap Steps(y)} ELSE {}
Opposites(pairs) == UNION {PartsOf(p[1], p[2]) : p \in pairs}

Opposite(x, y, n) ==
  LET level[k \in Nat] == IF k = 0 THEN {<<x, y>>} ELSE Opposites(level[k - 1])
  IN  level[n]

\* Equal as JSON values: the order of members and the sign of zero mean nothing.
SameJson(x, y) == \A n \in 0..MaxNesting : \A p \in Opposite(x, y, n) : Alike(p[1], p[2])

\* jsonb keeps the members of an object by the length of their keys first, a number
\* without a sign when it is zero, and everything else as it is.
JsonbOrder(keys) ==
  {p \in keys \X keys : Len(p[1]) < Len(p[2]) \/ (Len(p[1]) = Len(p[2]) /\ Before(p[1], p[2]))}

Rearranged(x, parts) ==
  CASE x.t = "num" -> Num(x.v.n)
    [] x.t = "arr" -> Arr([i \in DOMAIN x.v |-> parts[i]])
    [] x.t = "obj" -> LET keys == InOrder(Keys(x), JsonbOrder(Keys(x)))
                      IN  Obj([i \in DOMAIN keys |-> Member(keys[i], parts[keys[i]])])
    [] OTHER       -> x

\* From the innermost values out: those with n levels below them, their parts stored.
Stored(x, n, inner) ==
  [y \in Inside(x, MaxNesting - n) |-> Rearranged(y, [s \in Steps(y) |-> inner[Part(y, s)]])]

Jsonb(x) ==
  LET levels[n \in Nat] == IF n = 0 THEN Stored(x, 0, <<>>) ELSE Stored(x, n, levels[n - 1])
  IN  levels[MaxNesting][x]
===============================================================================
