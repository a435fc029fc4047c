----------------------------- MODULE Targeting -----------------------------
(***************************************************************************)
(* Targeting rules: src/core/targeting.py, as pure operators.              *)
(*                                                                         *)
(* JSON values are opaque.  What Python finds out about them is given by   *)
(* constants: which are equal (true == 1 == 1.0), what float() makes of    *)
(* them (true is 1, "10" is 10, a value it refuses or turns into nan is    *)
(* NaN), which are texts or lists, and which text contains or starts with  *)
(* which.                                                                  *)
(***************************************************************************)
EXTENDS Integers, Sequences, FiniteSetsExt

CONSTANTS
  Json,         \* the values of attributes, rules and flags
  None,         \* JSON null, and what a missing attribute reads as
  EqualTo,      \* for each value, the values Python's == equates with it
  FloatOf,      \* for each value, what float() returns, or NaN
  NaN,
  Items,        \* for each list, its items
  PartsOf,      \* for each text, the texts it contains
  StartsOf,     \* for each text, the texts it starts with
  Attributes,   \* attribute names
  RuleIds,
  Null          \* no rule

Operators == {"eq", "neq", "in", "not_in", "contains", "starts_with",
              "gt", "gte", "lt", "lte"}
Condition == [attribute : Attributes, operator : Operators, value : Json]
Rule == [id : RuleIds, priority : 0..9999, conditions : SUBSET Condition,
         combinator : {"AND", "OR"}, serve : Json]

ASSUME JsonAssumption ==
  /\ None \in Json
  /\ EqualTo \in [Json -> SUBSET Json]
  /\ \A a \in Json : a \in EqualTo[a]
  /\ \A a, b \in Json : a \in EqualTo[b] => EqualTo[a] = EqualTo[b]
  /\ FloatOf \in [Json -> Int \cup {NaN}]
  /\ DOMAIN Items \subseteq Json
  /\ DOMAIN PartsOf \subseteq Json
  /\ DOMAIN StartsOf = DOMAIN PartsOf
  /\ Null \notin Rule

Comparable(a, b) == FloatOf[a] # NaN /\ FloatOf[b] # NaN

\* A value that is no list has no items; a text is only compared with texts.
IsItem(a, list) ==
  list \in DOMAIN Items /\ \E b \in Items[list] : a \in EqualTo[b]

Holds(operator, a, b) ==
  CASE operator = "eq" -> a \in EqualTo[b]
    [] operator = "neq" -> a \notin EqualTo[b]
    [] operator = "in" -> IsItem(a, b)
    [] operator = "not_in" -> ~IsItem(a, b)
    [] operator = "contains" -> a \in DOMAIN PartsOf /\ b \in PartsOf[a]
    [] operator = "starts_with" -> a \in DOMAIN StartsOf /\ b \in StartsOf[a]
    [] operator = "gt" -> Comparable(a, b) /\ FloatOf[a] > FloatOf[b]
    [] operator = "gte" -> Comparable(a, b) /\ FloatOf[a] >= FloatOf[b]
    [] operator = "lt" -> Comparable(a, b) /\ FloatOf[a] < FloatOf[b]
    [] operator = "lte" -> Comparable(a, b) /\ FloatOf[a] <= FloatOf[b]

EvaluateCondition(condition, attributes) ==
  Holds(condition.operator, attributes[condition.attribute], condition.value)

EvaluateRule(rule, attributes) ==
  /\ rule.conditions # {}
  /\ IF rule.combinator = "OR"
       THEN \E c \in rule.conditions : EvaluateCondition(c, attributes)
       ELSE \A c \in rule.conditions : EvaluateCondition(c, attributes)

\* Mutant: the rules in the order they were added.
AsStored(rules) == rules

\* The place of rule i once they are sorted by priority: those of its own
\* priority that were sent before it stay before it.
Place(rules, i) ==
  Cardinality({j \in DOMAIN rules :
                 \/ rules[j].priority < rules[i].priority
                 \/ rules[j].priority = rules[i].priority /\ j <= i})

\* sorted(rules, key=priority): stable.
Sorted(rules) ==
  [n \in DOMAIN rules |-> rules[CHOOSE i \in DOMAIN rules : Place(rules, i) = n]]

\* The first rule that matches, or Null.
FindMatchingRule(rules, attributes) ==
  LET matching == {i \in DOMAIN rules : EvaluateRule(rules[i], attributes)}
  IN  IF matching = {} THEN Null ELSE rules[Min(matching)]

=============================================================================
