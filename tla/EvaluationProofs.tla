-------------------------- MODULE EvaluationProofs --------------------------
(***************************************************************************)
(* Theorems about Evaluation, for every set of flags, users, environments  *)
(* and bodies, every hash function and every reading of JSON values.       *)
(*                                                                         *)
(* The sort is defined by counting, so what it returns is proved without   *)
(* an induction over the list: no two rules have the same place, hence     *)
(* every place is taken (an injection of a finite set into itself is       *)
(* onto), and the list so made is in order of priority.                    *)
(***************************************************************************)
EXTENDS Evaluation, FiniteSetTheorems, WellFoundedInduction, TLAPS

(***************************************************************************)
(* The table                                                               *)
(***************************************************************************)

\* An environment configured on demand is a configuration.
LEMMA NewConfigType == NewConfig \in EnvConfig
  BY JsonAssumption DEF NewConfig, EnvConfig

\* What POST .../rules carries is a rule, because the bodies carry rules.
LEMMA SentRulesType == SentRules \subseteq Rule
<1>1. SUFFICES ASSUME NEW body \in Bodies, NEW e \in EnvNames,
                      body[e] # Null, NEW i \in DOMAIN body[e].rules
               PROVE  body[e].rules[i] \in Rule
  BY DEF SentRules, RulesOf
<1>2. body[e] \in EnvConfig
  BY <1>1, EvaluationAssumption DEF EnvMap
<1>3. body[e].rules \in Seq(Rule)
  BY <1>2 DEF EnvConfig
<1> QED
  BY <1>3

\* A flag whose environment e gets another configuration is a flag.
LEMMA FlagWithEnv ==
  ASSUME TypeOK, NEW k \in Keys, flags[k] # Null,
         NEW e \in EnvNames, NEW config \in EnvConfig,
         flags' = [flags EXCEPT ![k].envs[e] = config]
  PROVE  TypeOK'
<1>1. flags[k] \in Flag
  BY DEF TypeOK
<1>2. [flags[k].envs EXCEPT ![e] = config] \in EnvMap
  BY <1>1 DEF Flag, EnvMap
<1>3. [flags[k] EXCEPT !.envs[e] = config] \in Flag
  BY <1>1, <1>2 DEF Flag
<1> QED
  BY <1>3 DEF TypeOK

\* Switching an environment on or off keeps the types.
LEMMA SetEnabledType ==
  ASSUME TypeOK, NEW k \in Keys, NEW e \in EnvNames, NEW value \in BOOLEAN,
         SetEnabled(k, e, value)
  PROVE  TypeOK'
<1> DEFINE config == IF flags[k].envs[e] = Null THEN NewConfig
                                                ELSE flags[k].envs[e]
<1>1. flags[k] \in Flag /\ flags[k] # Null
  BY DEF TypeOK, SetEnabled
<1>2. config \in EnvConfig
  BY <1>1, NewConfigType DEF Flag, EnvMap
<1>3. [config EXCEPT !.enabled = value] \in EnvConfig
  BY <1>2 DEF EnvConfig
<1>4. flags' = [flags EXCEPT ![k].envs[e] = [config EXCEPT !.enabled = value]]
  BY DEF SetEnabled
<1> HIDE DEF config
<1> QED
  BY <1>1, <1>3, <1>4, FlagWithEnv

\* A step keeps the table of flags well typed.
LEMMA StepTypeOK ==
  ASSUME TypeOK, [Next]_flags
  PROVE  TypeOK'
<1>1. CASE UNCHANGED flags
  BY <1>1 DEF TypeOK
<1>2. ASSUME NEW k \in Keys, NEW default \in Defaults, NEW envs \in Bodies,
             CreateFlag(k, default, envs)
      PROVE  TypeOK'
  BY <1>2, EvaluationAssumption DEF TypeOK, CreateFlag, Flag
<1>3. ASSUME NEW k \in Keys,
             NEW default \in (Defaults \ {None}) \cup {Null},
             NEW envs \in Bodies \cup {Null},
             UpdateFlag(k, default, envs)
      PROVE  TypeOK'
  <2>1. flags[k] \in Flag
    BY <1>3 DEF TypeOK, UpdateFlag
  <2>2. /\ (IF default = Null THEN flags[k].default ELSE default) \in Json
        /\ (IF envs = Null THEN flags[k].envs ELSE envs) \in EnvMap
    BY <2>1, EvaluationAssumption DEF Flag
  <2> QED
    BY <1>3, <2>1, <2>2 DEF TypeOK, UpdateFlag, Flag
<1>4. ASSUME NEW k \in Keys, DeleteFlag(k)
      PROVE  TypeOK'
  BY <1>4 DEF TypeOK, DeleteFlag
<1>5. ASSUME NEW k \in Keys, NEW e \in EnvNames, EnableFlag(k, e)
      PROVE  TypeOK'
  BY <1>5, SetEnabledType DEF EnableFlag
<1>6. ASSUME NEW k \in Keys, NEW e \in EnvNames, DisableFlag(k, e)
      PROVE  TypeOK'
  BY <1>6, SetEnabledType DEF DisableFlag
<1>7. ASSUME NEW k \in Keys, NEW e \in EnvNames, NEW rule \in SentRules,
             AddFirstRule(k, e, rule)
      PROVE  TypeOK'
  <2>1. <<rule>> \in Seq(Rule)
    BY SentRulesType
  <2>2. [NewConfig EXCEPT !.rules = <<rule>>] \in EnvConfig
    BY <2>1, NewConfigType DEF EnvConfig
  <2> QED
    BY <1>7, <2>2, FlagWithEnv DEF AddFirstRule
<1> QED
  BY <1>1, <1>2, <1>3, <1>4, <1>5, <1>6, <1>7 DEF Next

\* The table of flags is well typed after any sequence of requests: every
\* environment that any endpoint writes has all the fields evaluation reads.
THEOREM TypeCorrect == Spec => []TypeOK
<1>1. Init => TypeOK
  BY DEF Init, TypeOK
<1>2. TypeOK /\ [Next]_flags => TypeOK'
  BY StepTypeOK
<1> QED
  BY <1>1, <1>2, PTL DEF Spec

(***************************************************************************)
(* The rollout                                                             *)
(***************************************************************************)

\* abs(h) % 10000 is a bucket, whatever the sign of h.
LEMMA AbsoluteBucket ==
  ASSUME NEW h \in Int
  PROVE  (IF h < 0 THEN -h ELSE h) % 10000 \in 0..9999
<1> DEFINE a == IF h < 0 THEN -h ELSE h
<1>1. a \in Nat
  OBVIOUS
<1> HIDE DEF a
<1>2. a % 10000 \in 0..9999
  BY <1>1
<1> QED
  BY <1>2 DEF a

\* compute_rollout_hash: whatever mmh3 returns, a bucket.
LEMMA BucketRange ==
  ASSUME NEW k \in Keys, NEW u \in Users
  PROVE  ComputeRolloutHash(k, u) \in 0..9999
<1> DEFINE h == Hash[<<k, u>>]
<1>1. h \in Int
  BY EvaluationAssumption
<1>2. ComputeRolloutHash(k, u) = (IF h < 0 THEN -h ELSE h) % 10000
  BY DEF ComputeRolloutHash
<1> HIDE DEF h
<1> QED
  BY <1>1, <1>2, AbsoluteBucket

\* is_in_rollout: who is in at a percentage is in at every higher one.
LEMMA RolloutMonotone ==
  ASSUME NEW k \in Keys, NEW u \in Users,
         NEW low \in 0..100, NEW high \in 0..100, low <= high,
         IsInRollout(k, u, low)
  PROVE  IsInRollout(k, u, high)
<1> DEFINE bucket == ComputeRolloutHash(k, u)
<1>1. bucket \in 0..9999
  BY BucketRange
<1>2. /\ low > 0
      /\ low >= 100 \/ bucket < low * 100
  BY DEF IsInRollout
<1> HIDE DEF bucket
<1>3. /\ high > 0
      /\ high >= 100 \/ bucket < high * 100
  BY <1>1, <1>2
<1> QED
  BY <1>3 DEF IsInRollout, bucket

\* Raising a percentage changes an evaluation only from DEFAULT to ROLLOUT.
LEMMA RaisedEvaluation ==
  ASSUME NEW k \in Keys, NEW before \in Flag, NEW after \in Flag,
         NEW context \in Context,
         after.default = before.default,
         before.envs[Normal[context.environment]] # Null,
         after.envs[Normal[context.environment]] # Null,
         IsRaised(before.envs[Normal[context.environment]],
                  after.envs[Normal[context.environment]])
  PROVE  \/ Evaluate(k, after, context) = Evaluate(k, before, context)
         \/ /\ Evaluate(k, before, context).reason = "DEFAULT"
            /\ Evaluate(k, after, context).reason = "ROLLOUT"
<1> DEFINE old == before.envs[Normal[context.environment]]
           new == after.envs[Normal[context.environment]]
<1>1. /\ context.environment \in EnvNames
      /\ context.user \in Users
      /\ Normal[context.environment] \in EnvNames
  BY EvaluationAssumption DEF Context
<1>2. old \in EnvConfig /\ new \in EnvConfig
  BY <1>1 DEF Flag, EnvMap
<1>3. /\ new.enabled = old.enabled
      /\ new.override = old.override
      /\ new.rules = old.rules
      /\ old.rollout \in 0..100
      /\ new.rollout \in 0..100
      /\ old.rollout <= new.rollout
  BY <1>2 DEF IsRaised, EnvConfig
<1> HIDE DEF old, new
<1>4. IsInRollout(k, context.user, old.rollout)
        => IsInRollout(k, context.user, new.rollout)
  BY <1>1, <1>3, RolloutMonotone
<1>5. /\ Overridden(new) = Overridden(old)
      /\ Off(new) = Off(old)
  BY <1>3 DEF Overridden, Off
<1> QED
  BY <1>3, <1>4, <1>5 DEF Evaluate, Result, old, new

\* Rollout stability: for every hash function, no step that only raises the
\* percentage of an environment takes a user out of the rollout or changes
\* another answer.
THEOREM RolloutStable == Spec => RolloutSticky
<1>1. ASSUME TypeOK, NEW k \in Keys, NEW e \in EnvNames,
             TypeOK', Changes(k, e, IsRaised), NEW context \in ContextsOf(e)
      PROVE  \/ Evaluate(k, flags'[k], context) = Evaluate(k, flags[k], context)
             \/ /\ Evaluate(k, flags[k], context).reason = "DEFAULT"
                /\ Evaluate(k, flags'[k], context).reason = "ROLLOUT"
  <2>1. flags[k] \in Flag /\ flags'[k] \in Flag
    BY <1>1 DEF TypeOK, Changes
  <2>2. context \in Context /\ context.environment = e
    BY <1>1 DEF ContextsOf
  <2> QED
    BY <1>1, <2>1, <2>2, RaisedEvaluation DEF Changes
<1>2. TypeOK /\ TypeOK' =>
        \A k \in Keys, e \in EnvNames : Changes(k, e, IsRaised) =>
          \A context \in ContextsOf(e) :
            LET before == Evaluate(k, flags[k], context)
                after == Evaluate(k, flags'[k], context)
            IN  \/ after = before
                \/ before.reason = "DEFAULT" /\ after.reason = "ROLLOUT"
  BY <1>1
<1> QED
  BY <1>2, TypeCorrect, PTL DEF RolloutSticky

(***************************************************************************)
(* The kill switch                                                         *)
(***************************************************************************)

\* An evaluation depends on nothing but the default value and the
\* configuration of the environment asked for.
LEMMA EvaluationLocal ==
  ASSUME NEW k, NEW before, NEW after, NEW context,
         after.default = before.default,
         after.envs[Normal[context.environment]]
           = before.envs[Normal[context.environment]]
  PROVE  Evaluate(k, after, context) = Evaluate(k, before, context)
  BY DEF Evaluate

\* In a disabled environment only an override counts.
LEMMA DisabledEvaluation ==
  ASSUME NEW k, NEW flag, NEW context,
         flag.envs[Normal[context.environment]] # Null,
         ~flag.envs[Normal[context.environment]].enabled
  PROVE  Evaluate(k, flag, context).reason \in {"OVERRIDE", "FLAG_DISABLED"}
  BY DEF Evaluate, Result, Off

\* Disabling an environment ends what rules and rollout serve there, for
\* every flag, user and attribute, and leaves the other environments alone.
THEOREM Killed == Spec => KillSwitch
<1>1. ASSUME TypeOK, NEW k \in Keys, NEW e \in EnvNames, DisableFlag(k, e),
             Normal[e] = e, NEW context \in Context
      PROVE  IF Normal[context.environment] = e
               THEN Evaluate(k, flags'[k], context).reason
                      \in {"OVERRIDE", "FLAG_DISABLED"}
               ELSE Evaluate(k, flags'[k], context)
                      = Evaluate(k, flags[k], context)
  <2> DEFINE config == IF flags[k].envs[e] = Null THEN NewConfig
                                                  ELSE flags[k].envs[e]
             off == [config EXCEPT !.enabled = FALSE]
             name == Normal[context.environment]
  <2>1. flags[k] \in Flag
    BY <1>1 DEF TypeOK, DisableFlag, SetEnabled
  <2>2. name \in EnvNames
    BY EvaluationAssumption DEF Context
  <2>3. config \in EnvConfig
    BY <2>1, NewConfigType DEF Flag, EnvMap
  <2>4. off \in EnvConfig /\ ~off.enabled
    BY <2>3 DEF EnvConfig
  <2>5. flags' = [flags EXCEPT ![k].envs[e] = off]
    BY <1>1 DEF DisableFlag, SetEnabled
  <2> HIDE DEF config, off
  <2>6. flags[k].envs \in [EnvNames -> EnvConfig \cup {Null}]
    BY <2>1 DEF Flag, EnvMap
  <2>7. /\ flags'[k].default = flags[k].default
        /\ flags'[k].envs = [flags[k].envs EXCEPT ![e] = off]
    BY <1>1, <2>1, <2>5, <2>6 DEF TypeOK, Flag
  <2>8. CASE name = e
    <3>1. flags'[k].envs[name] = off
      BY <2>6, <2>7, <2>8
    <3>2. off # Null
      BY <2>4, EvaluationAssumption
    <3>3. Evaluate(k, flags'[k], context).reason
            \in {"OVERRIDE", "FLAG_DISABLED"}
      BY <2>4, <3>1, <3>2, DisabledEvaluation
    <3> QED
      BY <2>8, <3>3
  <2>9. CASE name # e
    <3>1. flags'[k].envs[name] = flags[k].envs[name]
      BY <2>2, <2>6, <2>7, <2>9
    <3>2. flags'[k].default = flags[k].default
      BY <2>7
    <3>3. Evaluate(k, flags'[k], context) = Evaluate(k, flags[k], context)
      BY <3>1, <3>2, EvaluationLocal, Zenon
    <3> QED
      BY <2>9, <3>3
  <2> QED
    BY <2>8, <2>9
<1>2. TypeOK =>
        \A k \in Keys, e \in EnvNames : DisableFlag(k, e) /\ Normal[e] = e =>
          \A context \in Context :
            IF Normal[context.environment] = e
              THEN Evaluate(k, flags'[k], context).reason
                     \in {"OVERRIDE", "FLAG_DISABLED"}
              ELSE Evaluate(k, flags'[k], context)
                     = Evaluate(k, flags[k], context)
  BY <1>1
<1> QED
  BY <1>2, TypeCorrect, PTL DEF KillSwitch

(***************************************************************************)
(* Sorting the rules                                                       *)
(***************************************************************************)

\* A set of numbers with an element has a smallest one.
LEMMA MinIsSmallest ==
  ASSUME NEW I \in SUBSET Nat, I # {}
  PROVE  Min(I) \in I /\ \A j \in I : Min(I) <= j
<1>1. PICK m \in I : \A j \in I : ~(<< j, m >> \in OpToRel(<, Nat))
  BY NatLessThanWellFounded, WFMin
<1>2. \A j \in I : ~(j < m)
  BY <1>1 DEF OpToRel
<1>3. \A j \in I : m <= j
  BY <1>2
<1> QED
  BY <1>1, <1>3 DEF Min

\* Rule j has a lower priority than rule i, or the same and was sent before
\* it or is it.
NotAfter(rules, j, i) ==
  \/ rules[j].priority < rules[i].priority
  \/ rules[j].priority = rules[i].priority /\ j <= i

UpTo(rules, i) == {j \in DOMAIN rules : NotAfter(rules, j, i)}

\* The parts of a list of rules.
LEMMA RulesAre ==
  ASSUME NEW rules \in Seq(Rule)
  PROVE  /\ Len(rules) \in Nat
         /\ DOMAIN rules = 1..Len(rules)
         /\ \A i \in DOMAIN rules : rules[i] \in Rule /\ rules[i].priority \in Nat /\ i \in Nat
<1>1. Len(rules) \in Nat /\ DOMAIN rules = 1..Len(rules)
  OBVIOUS
<1>2. \A i \in DOMAIN rules : rules[i] \in Rule
  OBVIOUS
<1>3. ASSUME NEW r \in Rule PROVE r.priority \in Nat
  <2> PICK n : n = 9999
    OBVIOUS
  <2>1. Rule = [id : RuleIds, priority : 0..n, conditions : SUBSET Condition,
                combinator : {"AND", "OR"}, serve : Json]
    BY DEF Rule
  <2>2. r.priority \in 0..n
    BY ONLY <2>1, r \in Rule
  <2>3. n \in Nat
    OBVIOUS
  <2> QED
    BY ONLY <2>2, <2>3
<1>4. \A i \in DOMAIN rules : rules[i].priority \in Nat
  BY ONLY <1>2, <1>3
<1>5. \A i \in DOMAIN rules : i \in Nat
  BY <1>1
<1> QED
  BY ONLY <1>1, <1>2, <1>4, <1>5

\* The rules up to one are finitely many, and it is one of them.
LEMMA UpToIs ==
  ASSUME NEW rules \in Seq(Rule), NEW i \in DOMAIN rules
  PROVE  /\ IsFiniteSet(UpTo(rules, i))
         /\ i \in UpTo(rules, i)
         /\ Place(rules, i) = Cardinality(UpTo(rules, i))
         /\ Place(rules, i) \in 1..Len(rules)
<1>1. i \in UpTo(rules, i) /\ UpTo(rules, i) \subseteq 1..Len(rules)
  BY RulesAre DEF UpTo, NotAfter
<1>2. IsFiniteSet(1..Len(rules)) /\ Cardinality(1..Len(rules)) = Len(rules)
  <2>1. Len(rules) \in Nat /\ Len(rules) \in Int /\ 1 \in Int
    BY RulesAre
  <2>2. IsFiniteSet(1..Len(rules))
        /\ Cardinality(1..Len(rules)) = IF 1 > Len(rules) THEN 0 ELSE Len(rules) - 1 + 1
    BY ONLY <2>1, FS_Interval
  <2> QED
    BY <2>1, <2>2
<1>3. IsFiniteSet(UpTo(rules, i)) /\ Cardinality(UpTo(rules, i)) <= Len(rules)
  BY <1>1, <1>2, FS_Subset
<1>4. Cardinality(UpTo(rules, i)) \in Nat /\ Cardinality(UpTo(rules, i)) # 0
  BY <1>1, <1>3, FS_CardinalityType, FS_EmptySet
<1>5. Place(rules, i) = Cardinality(UpTo(rules, i))
  BY DEF Place, UpTo, NotAfter
<1> QED
  BY <1>1, <1>3, <1>4, <1>5, RulesAre

\* A rule that is not after another has a place before it.
LEMMA PlacesOrdered ==
  ASSUME NEW rules \in Seq(Rule), NEW i \in DOMAIN rules, NEW j \in DOMAIN rules,
         i # j, NotAfter(rules, i, j)
  PROVE  Place(rules, i) < Place(rules, j)
<1> DEFINE S == UpTo(rules, i)
           T == UpTo(rules, j)
<1>1. S \subseteq T \ {j}
  <2>1. \A x \in DOMAIN rules : NotAfter(rules, x, i) => NotAfter(rules, x, j) /\ x # j
    BY RulesAre DEF NotAfter
  <2> QED
    BY <2>1 DEF UpTo
<1>2. IsFiniteSet(T) /\ j \in T /\ Place(rules, j) = Cardinality(T) /\ Cardinality(T) \in Nat
  BY UpToIs
<1>3. Place(rules, i) = Cardinality(S) /\ Cardinality(S) \in Nat
  BY UpToIs
<1> HIDE DEF S, T
<1>4. IsFiniteSet(T \ {j}) /\ Cardinality(T \ {j}) = Cardinality(T) - 1
  BY <1>2, FS_RemoveElement
<1>5. Cardinality(S) <= Cardinality(T \ {j})
  BY <1>1, <1>4, FS_Subset
<1> QED
  BY <1>2, <1>3, <1>4, <1>5

\* Of two rules one is not after the other.
LEMMA RulesTotal ==
  ASSUME NEW rules \in Seq(Rule), NEW i \in DOMAIN rules, NEW j \in DOMAIN rules
  PROVE  NotAfter(rules, i, j) \/ NotAfter(rules, j, i)
BY RulesAre DEF NotAfter

\* Every rule has a place of its own, and every place has a rule.
LEMMA PlacesTaken ==
  ASSUME NEW rules \in Seq(Rule)
  PROVE  /\ \A i, j \in DOMAIN rules : Place(rules, i) = Place(rules, j) => i = j
         /\ \A n \in DOMAIN rules : \E i \in DOMAIN rules : Place(rules, i) = n
<1> DEFINE D == 1..Len(rules)
           place == [i \in D |-> Place(rules, i)]
<1>1. D = DOMAIN rules /\ Len(rules) \in Nat
  BY RulesAre
<1>2. \A i, j \in DOMAIN rules : Place(rules, i) = Place(rules, j) => i = j
  <2> SUFFICES ASSUME NEW i \in DOMAIN rules, NEW j \in DOMAIN rules, i # j,
                      Place(rules, i) = Place(rules, j)
               PROVE  FALSE
    OBVIOUS
  <2>1. Place(rules, i) \in Nat
    BY UpToIs, <1>1
  <2> QED
    BY <2>1, RulesTotal, PlacesOrdered
<1>3. place \in [D -> D]
  BY <1>1, UpToIs
<1>4. place \in Injection(D, D)
  BY <1>1, <1>2, <1>3 DEF Injection, IsInjective
<1>5. IsFiniteSet(D)
  BY <1>1, FS_Interval
<1> HIDE DEF D
<1>6. place \in Surjection(D, D)
  BY <1>4, <1>5, FS_Injection
<1>7. \A n \in D : \E i \in D : place[i] = n
  BY <1>6 DEF Surjection
<1> QED
  BY <1>1, <1>2, <1>7

\* What stands at a place after sorting.
LEMMA SortedAt ==
  ASSUME NEW rules \in Seq(Rule)
  PROVE  /\ DOMAIN Sorted(rules) = DOMAIN rules
         /\ \A i \in DOMAIN rules : /\ Place(rules, i) \in DOMAIN rules
                                    /\ Sorted(rules)[Place(rules, i)] = rules[i]
<1>1. \A i \in DOMAIN rules : Place(rules, i) \in DOMAIN rules
  BY RulesAre, UpToIs
<1>2. \A i \in DOMAIN rules :
        (CHOOSE j \in DOMAIN rules : Place(rules, j) = Place(rules, i)) = i
  BY PlacesTaken
<1> QED
  BY <1>1, <1>2 DEF Sorted

\* find_matching_rule on the sorted rules returns the winner, or nothing when
\* no rule matches.
LEMMA WinnerFound ==
  ASSUME NEW rules \in Seq(Rule), NEW attributes
  PROVE  \/ /\ FindMatchingRule(Sorted(rules), attributes) = Null
            /\ \A i \in DOMAIN rules : ~EvaluateRule(rules[i], attributes)
         \/ \E i \in DOMAIN rules :
              /\ FindMatchingRule(Sorted(rules), attributes) = rules[i]
              /\ IsWinner(rules, attributes, i)
<1> DEFINE matching == {n \in DOMAIN rules : EvaluateRule(Sorted(rules)[n], attributes)}
<1>1. FindMatchingRule(Sorted(rules), attributes)
        = IF matching = {} THEN Null ELSE Sorted(rules)[Min(matching)]
  BY SortedAt DEF FindMatchingRule
<1>2. \A i \in DOMAIN rules : EvaluateRule(rules[i], attributes) => Place(rules, i) \in matching
  BY SortedAt
<1>3. CASE matching = {}
  BY <1>1, <1>2, <1>3
<1>4. CASE matching # {}
  <2>1. matching \in SUBSET Nat /\ matching \subseteq DOMAIN rules
    BY RulesAre
  <2> PICK n : n = Min(matching)
    OBVIOUS
  <2>2. n \in matching /\ \A m \in matching : n <= m
    <3> HIDE DEF matching
    <3> QED
      BY <1>4, <2>1, MinIsSmallest
  <2>3. PICK i \in DOMAIN rules : Place(rules, i) = n
    BY <2>2, PlacesTaken
  <2>4. Sorted(rules)[n] = rules[i] /\ EvaluateRule(rules[i], attributes)
    BY <2>2, <2>3, SortedAt
  <2>5. ASSUME NEW j \in DOMAIN rules \ {i}, EvaluateRule(rules[j], attributes)
        PROVE  ~NotAfter(rules, j, i)
    <3> SUFFICES ASSUME NotAfter(rules, j, i) PROVE FALSE
      OBVIOUS
    <3>1. Place(rules, j) < Place(rules, i)
      BY PlacesOrdered
    <3>2. n <= Place(rules, j)
      BY <1>2, <2>2, <2>5
    <3>3. n \in Nat /\ Place(rules, j) \in Nat
      BY <2>1, <2>2, UpToIs, RulesAre
    <3> QED
      BY <2>3, <3>1, <3>2, <3>3
  <2>6. IsWinner(rules, attributes, i)
    BY <2>4, <2>5, RulesAre DEF IsWinner, NotAfter
  <2> QED
    BY <1>1, <1>4, <2>4, <2>6
<1> QED
  BY <1>3, <1>4

\* No two rules win.
LEMMA OneWinner ==
  ASSUME NEW rules \in Seq(Rule), NEW attributes, NEW i \in DOMAIN rules,
         NEW j \in DOMAIN rules, IsWinner(rules, attributes, i), IsWinner(rules, attributes, j)
  PROVE  i = j
BY RulesAre DEF IsWinner

(***************************************************************************)
(* The precedence chain                                                    *)
(***************************************************************************)

\* is_in_rollout says what its table row says, at 0 and at 100 as well.
LEMMA RolloutIs ==
  ASSUME NEW k \in Keys, NEW u \in Users, NEW percentage \in 0..100
  PROVE  IsInRollout(k, u, percentage) <=> ComputeRolloutHash(k, u) < percentage * 100
<1> DEFINE bucket == ComputeRolloutHash(k, u)
<1>1. bucket \in 0..9999
  BY BucketRange
<1> HIDE DEF bucket
<1>2. (percentage > 0 /\ (percentage >= 100 \/ bucket < percentage * 100))
        <=> bucket < percentage * 100
  <2>1. percentage = 0 => ~(bucket < percentage * 100)
    BY <1>1
  <2>2. percentage >= 100 => bucket < percentage * 100
    BY <1>1
  <2> QED
    BY <2>1, <2>2
<1> QED
  BY <1>2 DEF IsInRollout, bucket

\* What the table of reasons says, and in which order.
LEMMA ReasonsAre ==
  ASSUME NEW k, NEW config, NEW context
  PROVE  /\ Applies("OVERRIDE", k, config, context) <=> config.override # None
         /\ Applies("FLAG_DISABLED", k, config, context) <=> ~config.enabled
         /\ Applies("TARGETING_MATCH", k, config, context) <=>
              \E i \in DOMAIN config.rules : EvaluateRule(config.rules[i], context.attributes)
         /\ Applies("ROLLOUT", k, config, context) <=>
              ComputeRolloutHash(k, context.user) < config.rollout * 100
         /\ Applies("DEFAULT", k, config, context)
BY DEF Applies

LEMMA OrderIs ==
  /\ DOMAIN Precedence = 1..5
  /\ Precedence[1] = "OVERRIDE" /\ Precedence[2] = "FLAG_DISABLED"
  /\ Precedence[3] = "TARGETING_MATCH" /\ Precedence[4] = "ROLLOUT"
  /\ Precedence[5] = "DEFAULT"
BY DEF Precedence

\* What each reason serves.
LEMMA ServedIs ==
  ASSUME NEW flag, NEW config, NEW context
  PROVE  /\ Served("OVERRIDE", flag, config, context) = config.override
         /\ Served("FLAG_DISABLED", flag, config, context) = flag.default
         /\ Served("TARGETING_MATCH", flag, config, context) =
              config.rules[CHOOSE i \in DOMAIN config.rules :
                             IsWinner(config.rules, context.attributes, i)].serve
         /\ Served("ROLLOUT", flag, config, context) = JsonTrue
         /\ Served("DEFAULT", flag, config, context) = flag.default
BY DEF Served

LEMMA ResultIs ==
  ASSUME NEW value, NEW reason
  PROVE  Result(value, reason).value = value /\ Result(value, reason).reason = reason
BY DEF Result

\* Reason i is given, applies first and serves what it says.
Decides(i, result, k, flag, config, context) ==
  /\ result.reason = Precedence[i]
  /\ Applies(Precedence[i], k, config, context)
  /\ \A j \in 1..(i - 1) : ~Applies(Precedence[j], k, config, context)
  /\ result.value = Served(result.reason, flag, config, context)

\* One of the five reasons decides every evaluation.
LEMMA FirstReason ==
  ASSUME NEW k \in Keys, NEW flag, NEW context \in Context, NEW config \in EnvConfig,
         config = flag.envs[Normal[context.environment]]
  PROVE  \E i \in DOMAIN Precedence : Decides(i, Evaluate(k, flag, context), k, flag, config, context)
<1> PICK rule : rule = FindMatchingRule(Sorted(config.rules), context.attributes)
  OBVIOUS
<1> PICK result : result = Evaluate(k, flag, context)
  OBVIOUS
<1> DEFINE Applied(reason) == Applies(reason, k, config, context)
           Right(i) == Decides(i, result, k, flag, config, context)
<1>1. result = IF config.override # None THEN Result(config.override, "OVERRIDE")
               ELSE IF ~config.enabled THEN Result(flag.default, "FLAG_DISABLED")
               ELSE IF rule # Null THEN Result(rule.serve, "TARGETING_MATCH")
               ELSE IF IsInRollout(k, context.user, config.rollout)
                      THEN Result(JsonTrue, "ROLLOUT")
               ELSE Result(flag.default, "DEFAULT")
  BY EvaluationAssumption DEF Evaluate, Overridden, Off
<1>2. config.rules \in Seq(Rule) /\ config.rollout \in 0..100 /\ context.user \in Users
  BY DEF EnvConfig, Context
<1>3. \/ rule = Null /\ \A i \in DOMAIN config.rules : ~EvaluateRule(config.rules[i], context.attributes)
      \/ \E i \in DOMAIN config.rules :
           rule = config.rules[i] /\ IsWinner(config.rules, context.attributes, i)
  BY <1>2, WinnerFound
<1>4. IsInRollout(k, context.user, config.rollout) <=> Applied("ROLLOUT")
  BY <1>2, RolloutIs, ReasonsAre
<1>5. /\ config.override # None <=> Applied("OVERRIDE")
      /\ ~config.enabled <=> Applied("FLAG_DISABLED")
      /\ Applied("DEFAULT")
  BY ReasonsAre
<1>6. rule # Null <=> Applied("TARGETING_MATCH")
  <2>1. \A i \in DOMAIN config.rules : config.rules[i] # Null
    <3>1. \A i \in DOMAIN config.rules : config.rules[i] \in Rule
      BY ONLY <1>2
    <3>2. Null \notin Rule
      BY JsonAssumption
    <3> QED
      BY ONLY <3>1, <3>2
  <2>2. rule # Null <=> \E i \in DOMAIN config.rules : EvaluateRule(config.rules[i], context.attributes)
    BY ONLY <1>3, <2>1 DEF IsWinner
  <2> QED
    BY <2>2, ReasonsAre
<1>7. /\ Served("OVERRIDE", flag, config, context) = config.override
      /\ Served("FLAG_DISABLED", flag, config, context) = flag.default
      /\ Served("ROLLOUT", flag, config, context) = JsonTrue
      /\ Served("DEFAULT", flag, config, context) = flag.default
  BY ServedIs
<1>8. ASSUME NEW i \in 1..5, NEW reason, reason = Precedence[i], NEW value,
             result = Result(value, reason), Applied(reason),
             \A j \in 1..(i - 1) : ~Applied(Precedence[j]),
             value = Served(reason, flag, config, context)
      PROVE  \E n \in DOMAIN Precedence : Right(n)
  <2>1. result.reason = reason /\ result.value = value
    BY ONLY ResultIs, <1>8
  <2>2. Right(i)
    BY ONLY <1>8, <2>1 DEF Decides
  <2> QED
    BY ONLY <1>8, <2>2, OrderIs
<1> HIDE DEF Right
<1>9. \E i \in DOMAIN Precedence : Right(i)
  <2>1. CASE Applied("OVERRIDE")
    <3>1. result = Result(config.override, "OVERRIDE")
      BY ONLY <1>1, <1>5, <2>1
    <3>2. config.override = Served("OVERRIDE", flag, config, context)
      BY ONLY <1>7
    <3>3. Applied("OVERRIDE") /\ \A j \in 1..(1 - 1) : ~Applied(Precedence[j])
      BY <2>1, OrderIs
    <3>4. 1 \in 1..5 /\ "OVERRIDE" = Precedence[1]
      BY OrderIs
    <3> QED
      BY ONLY <1>8, <3>1, <3>2, <3>3, <3>4
  <2>2. CASE ~Applied("OVERRIDE") /\ Applied("FLAG_DISABLED")
    <3>1. result = Result(flag.default, "FLAG_DISABLED")
      BY ONLY <1>1, <1>5, <2>2
    <3>2. flag.default = Served("FLAG_DISABLED", flag, config, context)
      BY ONLY <1>7
    <3>3. Applied("FLAG_DISABLED") /\ \A j \in 1..(2 - 1) : ~Applied(Precedence[j])
      <4>1. \A j \in 1..(2 - 1) : j = 1
        OBVIOUS
      <4> QED
        BY <2>2, <4>1, OrderIs
    <3>4. 2 \in 1..5 /\ "FLAG_DISABLED" = Precedence[2]
      BY OrderIs
    <3> QED
      BY ONLY <1>8, <3>1, <3>2, <3>3, <3>4
  <2>3. CASE ~Applied("OVERRIDE") /\ ~Applied("FLAG_DISABLED") /\ Applied("TARGETING_MATCH")
    <3>1. result = Result(rule.serve, "TARGETING_MATCH")
      BY ONLY <1>1, <1>5, <1>6, <2>3
    <3>2. rule.serve = Served("TARGETING_MATCH", flag, config, context)
      <4>1. PICK i \in DOMAIN config.rules :
              rule = config.rules[i] /\ IsWinner(config.rules, context.attributes, i)
        BY <1>3, <1>6, <2>3
      <4>2. (CHOOSE n \in DOMAIN config.rules : IsWinner(config.rules, context.attributes, n)) = i
        BY <1>2, <4>1, OneWinner
      <4> QED
        BY ONLY <4>1, <4>2, ServedIs
    <3>3. Applied("TARGETING_MATCH") /\ \A j \in 1..(3 - 1) : ~Applied(Precedence[j])
      <4>1. \A j \in 1..(3 - 1) : j = 1 \/ j = 2
        OBVIOUS
      <4> QED
        BY <2>3, <4>1, OrderIs
    <3>4. 3 \in 1..5 /\ "TARGETING_MATCH" = Precedence[3]
      BY OrderIs
    <3> QED
      BY ONLY <1>8, <3>1, <3>2, <3>3, <3>4
  <2>4. CASE /\ ~Applied("OVERRIDE") /\ ~Applied("FLAG_DISABLED") /\ ~Applied("TARGETING_MATCH")
             /\ Applied("ROLLOUT")
    <3>1. result = Result(JsonTrue, "ROLLOUT")
      BY ONLY <1>1, <1>4, <1>5, <1>6, <2>4
    <3>2. JsonTrue = Served("ROLLOUT", flag, config, context)
      BY ONLY <1>7
    <3>3. Applied("ROLLOUT") /\ \A j \in 1..(4 - 1) : ~Applied(Precedence[j])
      <4>1. \A j \in 1..(4 - 1) : j = 1 \/ j = 2 \/ j = 3
        OBVIOUS
      <4> QED
        BY <2>4, <4>1, OrderIs
    <3>4. 4 \in 1..5 /\ "ROLLOUT" = Precedence[4]
      BY OrderIs
    <3> QED
      BY ONLY <1>8, <3>1, <3>2, <3>3, <3>4
  <2>5. CASE /\ ~Applied("OVERRIDE") /\ ~Applied("FLAG_DISABLED") /\ ~Applied("TARGETING_MATCH")
             /\ ~Applied("ROLLOUT")
    <3>1. result = Result(flag.default, "DEFAULT")
      BY ONLY <1>1, <1>4, <1>5, <1>6, <2>5
    <3>2. flag.default = Served("DEFAULT", flag, config, context)
      BY ONLY <1>7
    <3>3. Applied("DEFAULT") /\ \A j \in 1..(5 - 1) : ~Applied(Precedence[j])
      <4>1. \A j \in 1..(5 - 1) : j = 1 \/ j = 2 \/ j = 3 \/ j = 4
        OBVIOUS
      <4> QED
        BY <1>5, <2>5, <4>1, OrderIs
    <3>4. 5 \in 1..5 /\ "DEFAULT" = Precedence[5]
      BY OrderIs
    <3> QED
      BY ONLY <1>8, <3>1, <3>2, <3>3, <3>4
  <2> QED
    BY ONLY <2>1, <2>2, <2>3, <2>4, <2>5
<1> QED
  BY <1>9 DEF Right

\* The documented chain, for every list of rules, every hash function and
\* every context: the reason is the first of the five that applies, and of
\* the rules that match the winner of the stable sort is served.
THEOREM ChainFollowed == Spec => []PrecedenceFollowed
<1>1. TypeOK => PrecedenceFollowed
  <2> SUFFICES ASSUME TypeOK, NEW k \in Keys, NEW context \in Context, flags[k] # Null,
                      flags[k].envs[Normal[context.environment]] # Null
               PROVE  LET config == flags[k].envs[Normal[context.environment]]
                          result == Evaluate(k, flags[k], context)
                          applies(i) == Applies(Precedence[i], k, config, context)
                      IN  \E i \in DOMAIN Precedence :
                            /\ result.reason = Precedence[i]
                            /\ applies(i)
                            /\ \A j \in 1..(i - 1) : ~applies(j)
                            /\ result.value = Served(result.reason, flags[k], config, context)
    BY DEF PrecedenceFollowed
  <2>1. Normal[context.environment] \in EnvNames
    BY EvaluationAssumption DEF Context
  <2>2. flags[k].envs[Normal[context.environment]] \in EnvConfig
    BY <2>1 DEF TypeOK, Flag, EnvMap
  <2>3. \E i \in DOMAIN Precedence :
          Decides(i, Evaluate(k, flags[k], context), k, flags[k],
                  flags[k].envs[Normal[context.environment]], context)
    BY <2>2, FirstReason
  <2> QED
    BY ONLY <2>3 DEF Decides
<1> QED
  BY <1>1, TypeCorrect, PTL

(***************************************************************************)
(* The order in which rules are listed                                     *)
(***************************************************************************)

\* A list that holds the same rules holds each of them once.
LEMMA SameRules ==
  ASSUME NEW rules \in Seq(Rule), NEW other \in Seq(Rule), Len(other) = Len(rules),
         \A i \in DOMAIN rules : \E j \in DOMAIN other : other[j] = rules[i],
         \A i, j \in DOMAIN rules : rules[i].priority = rules[j].priority => i = j
  PROVE  \E to \in [DOMAIN rules -> DOMAIN rules] :
           /\ \A i \in DOMAIN rules : other[to[i]] = rules[i]
           /\ \A i, j \in DOMAIN rules : to[i] = to[j] => i = j
           /\ \A n \in DOMAIN rules : \E i \in DOMAIN rules : to[i] = n
<1> DEFINE D == DOMAIN rules
           to == [i \in D |-> CHOOSE j \in D : other[j] = rules[i]]
<1>1. D = 1..Len(rules) /\ D = DOMAIN other /\ Len(rules) \in Nat
  BY RulesAre
<1>2. to \in [D -> D] /\ \A i \in D : other[to[i]] = rules[i]
  BY <1>1
<1>3. \A i, j \in D : to[i] = to[j] => i = j
  <2> HIDE DEF to
  <2>1. \A i, j \in D : to[i] = to[j] => rules[i] = rules[j]
    BY <1>2
  <2> QED
    BY <2>1
<1> HIDE DEF to, D
<1>4. to \in Injection(D, D)
  BY <1>2, <1>3 DEF Injection, IsInjective
<1>5. IsFiniteSet(D)
  <2>1. 1 \in Int /\ Len(rules) \in Int
    BY <1>1
  <2>2. IsFiniteSet(1..Len(rules))
    BY ONLY <2>1, FS_Interval
  <2> QED
    BY ONLY <1>1, <2>2
<1>6. to \in Surjection(D, D)
  BY <1>4, <1>5, FS_Injection
<1>7. \A n \in D : \E i \in D : to[i] = n
  BY <1>6 DEF Surjection
<1> QED
  BY ONLY <1>2, <1>3, <1>7 DEF D

\* Of rules with different priorities the same one wins, however they are
\* listed.
LEMMA SameWinner ==
  ASSUME NEW rules \in Seq(Rule), NEW other \in Seq(Rule), Len(other) = Len(rules),
         \A i \in DOMAIN rules : \E j \in DOMAIN other : other[j] = rules[i],
         \A i, j \in DOMAIN rules : rules[i].priority = rules[j].priority => i = j,
         NEW attributes
  PROVE  FindMatchingRule(Sorted(other), attributes) = FindMatchingRule(Sorted(rules), attributes)
<1>1. PICK to \in [DOMAIN rules -> DOMAIN rules] :
           /\ \A i \in DOMAIN rules : other[to[i]] = rules[i]
           /\ \A i, j \in DOMAIN rules : to[i] = to[j] => i = j
           /\ \A n \in DOMAIN rules : \E i \in DOMAIN rules : to[i] = n
  BY SameRules
<1>7. \A n \in DOMAIN rules : \E m \in DOMAIN rules : to[m] = n /\ other[n] = rules[m]
  <2>1. SUFFICES ASSUME NEW n \in DOMAIN rules
                 PROVE  \E m \in DOMAIN rules : to[m] = n /\ other[n] = rules[m]
    OBVIOUS
  <2>2. PICK m \in DOMAIN rules : to[m] = n
    BY ONLY <1>1, <2>1
  <2>3. other[to[m]] = rules[m]
    BY ONLY <1>1, <2>2
  <2>4. other[n] = rules[m]
    BY ONLY <2>2, <2>3
  <2> QED
    BY ONLY <2>2, <2>4
<1>2. DOMAIN other = DOMAIN rules
  BY RulesAre
<1> PICK old : old = FindMatchingRule(Sorted(rules), attributes)
  OBVIOUS
<1> PICK new : new = FindMatchingRule(Sorted(other), attributes)
  OBVIOUS
<1>3. \/ old = Null /\ \A i \in DOMAIN rules : ~EvaluateRule(rules[i], attributes)
      \/ \E i \in DOMAIN rules : old = rules[i] /\ IsWinner(rules, attributes, i)
  BY WinnerFound
<1>4. \/ new = Null /\ \A i \in DOMAIN rules : ~EvaluateRule(other[i], attributes)
      \/ \E i \in DOMAIN rules : new = other[i] /\ IsWinner(other, attributes, i)
  BY <1>2, WinnerFound
<1>5. CASE \A i \in DOMAIN rules : ~EvaluateRule(rules[i], attributes)
  <2>1. \A n \in DOMAIN rules : ~EvaluateRule(other[n], attributes)
    <3>1. SUFFICES ASSUME NEW n \in DOMAIN rules
                   PROVE  ~EvaluateRule(other[n], attributes)
      OBVIOUS
    <3>2. PICK m \in DOMAIN rules : other[n] = rules[m]
      BY ONLY <1>7, <3>1
    <3> QED
      BY ONLY <1>5, <3>2
  <2>2. old = Null
    BY <1>3, <1>5 DEF IsWinner
  <2>3. new = Null
    BY <1>4, <2>1 DEF IsWinner
  <2> QED
    BY <2>2, <2>3
<1>6. CASE \E i \in DOMAIN rules : EvaluateRule(rules[i], attributes)
  <2>1. PICK i \in DOMAIN rules : old = rules[i] /\ IsWinner(rules, attributes, i)
    BY <1>3, <1>6
  <2>2. EvaluateRule(rules[i], attributes) /\ to[i] \in DOMAIN rules
    BY <1>1, <2>1 DEF IsWinner
  <2>3. EvaluateRule(other[to[i]], attributes)
    BY <1>1, <2>2
  <2>4. PICK n \in DOMAIN rules : new = other[n] /\ IsWinner(other, attributes, n)
    BY <1>4, <2>2, <2>3
  <2>5. PICK m \in DOMAIN rules : to[m] = n /\ other[n] = rules[m]
    BY ONLY <1>7, <2>4
  <2>6. EvaluateRule(rules[m], attributes)
    BY <2>4, <2>5 DEF IsWinner
  <2>7. i = m
    <3> SUFFICES ASSUME i # m PROVE FALSE
      OBVIOUS
    <3>1. rules[i].priority \in Nat /\ rules[m].priority \in Nat /\ rules[i].priority # rules[m].priority
      BY RulesAre
    <3>2. rules[i].priority < rules[m].priority
      BY <2>1, <2>6, <3>1 DEF IsWinner
    <3>3. to[i] # n
      BY <1>1, <2>5
    <3>4. other[n].priority <= other[to[i]].priority
      <4>1. to[i] \in DOMAIN other \ {n} /\ n \in DOMAIN other
        BY <1>2, <2>2, <3>3
      <4>2. other[n].priority \in Nat /\ other[to[i]].priority \in Nat
        BY <4>1, RulesAre
      <4> QED
        BY <2>3, <2>4, <4>1, <4>2 DEF IsWinner
    <3>5. rules[m].priority <= rules[i].priority
      BY <1>1, <2>5, <3>4
    <3> QED
      BY <3>1, <3>2, <3>5
  <2> QED
    BY <2>1, <2>4, <2>5, <2>7
<1> QED
  BY <1>5, <1>6

\* Listing them in another order changes no evaluation.
LEMMA ReorderedEvaluation ==
  ASSUME NEW k \in Keys, NEW before \in Flag, NEW after \in Flag,
         NEW context \in Context,
         after.default = before.default,
         before.envs[Normal[context.environment]] # Null,
         after.envs[Normal[context.environment]] # Null,
         IsReordered(before.envs[Normal[context.environment]],
                     after.envs[Normal[context.environment]])
  PROVE  Evaluate(k, after, context) = Evaluate(k, before, context)
<1> DEFINE old == before.envs[Normal[context.environment]]
           new == after.envs[Normal[context.environment]]
<1>1. Normal[context.environment] \in EnvNames
  BY EvaluationAssumption DEF Context
<1>2. old \in EnvConfig /\ new \in EnvConfig
  BY <1>1 DEF Flag, EnvMap
<1>3. IsReordered(old, new) /\ old # Null /\ new # Null
  OBVIOUS
<1> HIDE DEF old, new
<1>4. /\ new.enabled = old.enabled
      /\ new.override = old.override
      /\ new.rollout = old.rollout
  BY <1>2, <1>3 DEF IsReordered, EnvConfig
<1>5. old.rules \in Seq(Rule) /\ new.rules \in Seq(Rule)
  BY <1>2 DEF EnvConfig
<1>6. FindMatchingRule(Sorted(new.rules), context.attributes)
        = FindMatchingRule(Sorted(old.rules), context.attributes)
  <2>1. PICK rules : rules = old.rules
    OBVIOUS
  <2>2. PICK other : other = new.rules
    OBVIOUS
  <2>3. /\ Len(other) = Len(rules)
        /\ \A i \in DOMAIN rules : \E j \in DOMAIN other : other[j] = rules[i]
        /\ \A i, j \in DOMAIN rules : rules[i].priority = rules[j].priority => i = j
    BY ONLY <1>3, <2>1, <2>2 DEF IsReordered
  <2>4. rules \in Seq(Rule) /\ other \in Seq(Rule)
    BY ONLY <1>5, <2>1, <2>2
  <2>5. FindMatchingRule(Sorted(other), context.attributes)
          = FindMatchingRule(Sorted(rules), context.attributes)
    BY ONLY <2>3, <2>4, SameWinner
  <2> QED
    BY ONLY <2>1, <2>2, <2>5
<1>7. Overridden(new) = Overridden(old) /\ Off(new) = Off(old)
  BY <1>4 DEF Overridden, Off
<1> QED
  BY <1>3, <1>4, <1>6, <1>7 DEF Evaluate, old, new

\* Only priorities decide: a step that lists the rules of an environment in
\* another order, when no two have the same priority, changes no answer.
THEOREM ListOrderIgnored == Spec => ListOrderIrrelevant
<1>1. ASSUME TypeOK, NEW k \in Keys, NEW e \in EnvNames,
             TypeOK', Changes(k, e, IsReordered), NEW context \in ContextsOf(e)
      PROVE  Evaluate(k, flags'[k], context) = Evaluate(k, flags[k], context)
  <2>1. flags[k] \in Flag /\ flags'[k] \in Flag
    BY <1>1 DEF TypeOK, Changes
  <2>2. context \in Context /\ context.environment = e
    BY <1>1 DEF ContextsOf
  <2> QED
    BY <1>1, <2>1, <2>2, ReorderedEvaluation DEF Changes
<1>2. TypeOK /\ TypeOK' =>
        \A k \in Keys, e \in EnvNames : Changes(k, e, IsReordered) =>
          \A context \in ContextsOf(e) :
            Evaluate(k, flags'[k], context) = Evaluate(k, flags[k], context)
  BY <1>1
<1> QED
  BY <1>2, TypeCorrect, PTL DEF ListOrderIrrelevant

=============================================================================
