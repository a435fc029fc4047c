---------------------------- MODULE MCEvaluation ----------------------------
(***************************************************************************)
(* A small instance of Evaluation for TLC: one flag, an environment sent   *)
(* under two spellings, users at the edges of the buckets, and JSON values *)
(* that Python compares in unexpected ways.                                *)
(***************************************************************************)
EXTENDS Evaluation

CONSTANTS k1, u1, u2, u3, u4, prod, upperProd, r1, r2, r3, plan,
          true, one, ten, pro, prose, plans

\* null, true, 1, the texts "10", "pro" and "prose", and the list ["pro", 1].
Values == {None, true, one, ten, pro, prose, plans}

PythonEqual == [v \in Values |-> IF v \in {true, one} THEN {true, one} ELSE {v}]

PythonFloat ==
  [v \in Values |-> CASE v \in {true, one} -> 1
                      [] v = ten -> 10
                      [] OTHER -> NaN]

ListItems == [v \in {plans} |-> {pro, one}]
TextParts == [v \in {ten, pro, prose} |-> IF v = prose THEN {pro, prose} ELSE {v}]

Spelling == [e \in EnvNames |-> prod]

\* The buckets 0, 4999, 5000 and 9999; one hash is negative.
UserHash ==
  [ku \in Keys \X Users |->
     CASE ku[2] = u1 -> 0
       [] ku[2] = u2 -> -2000004999
       [] ku[2] = u3 -> 5000
       [] ku[2] = u4 -> 2000009999]

Test(operator, value) ==
  [attribute |-> plan, operator |-> operator, value |-> value]

\* Rules 1 and 2 tie; rule 3 comes before both.
Rule1 == [id |-> r1, priority |-> 1, combinator |-> "OR", serve |-> one,
          conditions |-> {Test("in", plans), Test("gte", ten)}]
Rule2 == [id |-> r2, priority |-> 1, combinator |-> "AND", serve |-> pro,
          conditions |-> {Test("neq", ten), Test("starts_with", pro)}]
Rule3 == [id |-> r3, priority |-> 0, combinator |-> "AND", serve |-> prose,
          conditions |-> {Test("contains", pro), Test("not_in", plans)}]

RuleLists ==
  {<<>>, <<Rule1>>, <<Rule1, Rule2>>, <<Rule2, Rule1>>,
   <<Rule2, Rule3>>, <<Rule3, Rule2>>, <<Rule2, Rule1, Rule3>>}

SentDefaults == {None, pro}

Configured ==
  [enabled : BOOLEAN, override : {None, ten}, rollout : {0, 1, 50, 100},
   rules : RuleLists]

\* A body configures the environment under its normal name, or not at all.
SentEnvironments ==
  {[e \in EnvNames |-> IF e = prod THEN config ELSE Null] :
     config \in Configured \cup {Null}}

=============================================================================
