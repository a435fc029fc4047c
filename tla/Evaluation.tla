----------------------------- MODULE Evaluation -----------------------------
(***************************************************************************)
(* What a flag evaluates to: src/core/evaluation.py and                    *)
(* src/core/hashing.py, over the contexts of src/schemas/evaluation.py.    *)
(*                                                                         *)
(* The state is the table flags with the parts evaluation reads; the       *)
(* actions are what a committed request leaves there, one request at a     *)
(* time (how requests race is the subject of FlagStore, how a change       *)
(* reaches a replica that of FlagPlatform).  Changing the rules of an      *)
(* environment that is configured stores nothing (FlagStore, SetRules), so *)
(* the only rule endpoint here is the one that configures an environment.  *)
(* The properties compare what contexts evaluate to in a state, and before *)
(* and after a step.                                                       *)
(***************************************************************************)
EXTENDS Targeting

CONSTANTS
  Keys,         \* flag keys
  Users,        \* user ids
  EnvNames,     \* environment names, as they are sent
  Normal,       \* for each name, strip().lower() of it
  Hash,         \* mmh3.hash of "key:user" with the fixed seed
  JsonTrue,     \* the JSON value true
  Defaults,     \* the default values a POST or a PATCH body may carry
  Bodies        \* the environments such a body may carry

EnvConfig == [enabled : BOOLEAN, override : Json, rollout : 0..100,
              rules : Seq(Rule)]
EnvMap == [EnvNames -> EnvConfig \cup {Null}]    \* Null: not configured
Flag == [default : Json, envs : EnvMap]
Context == [user : Users, environment : EnvNames,
            attributes : [Attributes -> Json]]

ASSUME EvaluationAssumption ==
  /\ Normal \in [EnvNames -> EnvNames]
  /\ \A e \in EnvNames : Normal[Normal[e]] = Normal[e]
  /\ Hash \in [Keys \X Users -> Int]
  /\ JsonTrue \in Json
  /\ Defaults \subseteq Json
  /\ Bodies \subseteq EnvMap
  /\ Null \notin EnvConfig \cup Flag \cup EnvMap \cup Json

VARIABLE flags    \* committed rows of the table flags, by key

TypeOK == flags \in [Keys -> Flag \cup {Null}]

Init == flags = [k \in Keys |-> Null]

(***************************************************************************)
(* Evaluation                                                              *)
(***************************************************************************)

\* hash() is a signed 32-bit integer; Python's abs() does not overflow.
ComputeRolloutHash(k, u) ==
  LET h == Hash[<<k, u>>] IN (IF h < 0 THEN -h ELSE h) % 10000

\* Mutant: 100 is not a percentage any more.
IsInRolloutBelow100(k, u, percentage) ==
  /\ percentage > 0
  /\ percentage < 100
  /\ ComputeRolloutHash(k, u) < percentage * 100

IsInRollout(k, u, percentage) ==
  /\ percentage > 0
  /\ percentage >= 100 \/ ComputeRolloutHash(k, u) < percentage * 100

\* Mutant: an override counts only where the flag is on.
OverriddenWhenOn(config) == config.enabled /\ config.override # None

Overridden(config) == config.override # None

\* Mutant: rules are matched in a disabled environment as well.
OffWithoutRules(config) == ~config.enabled /\ config.rules = <<>>

Off(config) == ~config.enabled

Result(value, reason) == [value |-> value, reason |-> reason]

Evaluate(k, flag, context) ==
  LET config == flag.envs[Normal[context.environment]]
      rule == FindMatchingRule(Sorted(config.rules), context.attributes)
  IN  IF config = Null THEN Result(flag.default, "DEFAULT")
      ELSE IF Overridden(config) THEN Result(config.override, "OVERRIDE")
      ELSE IF Off(config) THEN Result(flag.default, "FLAG_DISABLED")
      ELSE IF rule # Null THEN Result(rule.serve, "TARGETING_MATCH")
      ELSE IF IsInRollout(k, context.user, config.rollout)
             THEN Result(JsonTrue, "ROLLOUT")
      ELSE Result(flag.default, "DEFAULT")

(***************************************************************************)
(* What committed requests leave in the table                              *)
(***************************************************************************)
CreateFlag(k, default, envs) ==
  /\ flags[k] = Null
  /\ flags' = [flags EXCEPT ![k] = [default |-> default, envs |-> envs]]

\* PATCH: Null stands for a field the body leaves out (or sends as null).
UpdateFlag(k, default, envs) ==
  /\ flags[k] # Null
  /\ flags' = [flags EXCEPT
                 ![k].default = IF default = Null THEN @ ELSE default,
                 ![k].envs = IF envs = Null THEN @ ELSE envs]

DeleteFlag(k) ==
  /\ flags[k] # Null
  /\ flags' = [flags EXCEPT ![k] = Null]

\* Mutant: an environment configured on demand has no rollout.
NewConfigWithoutRollout ==
  [enabled |-> FALSE, override |-> None, rules |-> <<>>]

NewConfig ==
  [enabled |-> FALSE, override |-> None, rollout |-> 0, rules |-> <<>>]

\* The name of the path is taken as it is.
SetEnabled(k, e, value) ==
  /\ flags[k] # Null
  /\ LET config == IF flags[k].envs[e] = Null THEN NewConfig
                                              ELSE flags[k].envs[e]
     IN  flags' = [flags EXCEPT
                     ![k].envs[e] = [config EXCEPT !.enabled = value]]

EnableFlag(k, e) == SetEnabled(k, e, TRUE)
DisableFlag(k, e) == SetEnabled(k, e, FALSE)

AddFirstRule(k, e, rule) ==
  /\ flags[k] # Null
  /\ flags[k].envs[e] = Null
  /\ flags' = [flags EXCEPT
                 ![k].envs[e] = [NewConfig EXCEPT !.rules = <<rule>>]]

\* The rules of the bodies, which POST .../rules may carry as well.
RulesOf(config) ==
  IF config = Null THEN {} ELSE {config.rules[i] : i \in DOMAIN config.rules}

SentRules == UNION {RulesOf(body[e]) : body \in Bodies, e \in EnvNames}

Next ==
  \E k \in Keys :
    \/ \E default \in Defaults, envs \in Bodies : CreateFlag(k, default, envs)
    \/ \E default \in (Defaults \ {None}) \cup {Null}, envs \in Bodies \cup {Null} :
         UpdateFlag(k, default, envs)
    \/ DeleteFlag(k)
    \/ \E e \in EnvNames :
         \/ EnableFlag(k, e)
         \/ DisableFlag(k, e)
         \/ \E rule \in SentRules : AddFirstRule(k, e, rule)

Spec == Init /\ [][Next]_flags

(***************************************************************************)
(* Properties                                                              *)
(***************************************************************************)

\* The rule that targeting serves: of the rules that match, one of the least
\* priority, and among those the one that comes first in the list.
IsWinner(rules, attributes, i) ==
  /\ EvaluateRule(rules[i], attributes)
  /\ \A j \in DOMAIN rules \ {i} :
       EvaluateRule(rules[j], attributes) =>
         \/ rules[i].priority < rules[j].priority
         \/ rules[i].priority = rules[j].priority /\ i < j

\* What the README's table says of each reason, whatever comes before it.
Applies(reason, k, config, context) ==
  CASE reason = "OVERRIDE" -> config.override # None
    [] reason = "FLAG_DISABLED" -> ~config.enabled
    [] reason = "TARGETING_MATCH" ->
         \E i \in DOMAIN config.rules :
           EvaluateRule(config.rules[i], context.attributes)
    [] reason = "ROLLOUT" ->
         ComputeRolloutHash(k, context.user) < config.rollout * 100
    [] reason = "DEFAULT" -> TRUE

Served(reason, flag, config, context) ==
  CASE reason = "OVERRIDE" -> config.override
    [] reason = "TARGETING_MATCH" ->
         config.rules[CHOOSE i \in DOMAIN config.rules :
                        IsWinner(config.rules, context.attributes, i)].serve
    [] reason = "ROLLOUT" -> JsonTrue
    [] OTHER -> flag.default

Precedence ==
  <<"OVERRIDE", "FLAG_DISABLED", "TARGETING_MATCH", "ROLLOUT", "DEFAULT">>

\* "Five-level precedence chain.  First match wins": in every configured
\* environment the reason is the first of the five that applies, the value is
\* the one that reason serves, and sorting the rules picks the winner.
PrecedenceFollowed ==
  \A k \in Keys, context \in Context : flags[k] # Null =>
    LET config == flags[k].envs[Normal[context.environment]]
        result == Evaluate(k, flags[k], context)
        applies(i) == Applies(Precedence[i], k, config, context)
    IN  config # Null =>
          \E i \in DOMAIN Precedence :
            /\ result.reason = Precedence[i]
            /\ applies(i)
            /\ \A j \in 1..(i - 1) : ~applies(j)
            /\ result.value = Served(result.reason, flags[k], config, context)

ContextsOf(e) == {context \in Context : context.environment = e}

\* What a step does to the configuration that contexts of e are read against,
\* when the flag is there before and after and keeps its default value.
Changes(k, e, Relation(_, _)) ==
  /\ flags[k] # Null
  /\ flags'[k] # Null
  /\ flags'[k].default = flags[k].default
  /\ flags[k].envs[Normal[e]] # Null
  /\ flags'[k].envs[Normal[e]] # Null
  /\ Relation(flags[k].envs[Normal[e]], flags'[k].envs[Normal[e]])

IsRaised(before, after) ==
  /\ after.rollout >= before.rollout
  /\ [after EXCEPT !.rollout = before.rollout] = before

\* "Rollout stability": raising the percentage of an environment, from 0 and
\* up to 100, takes no user out of the rollout and changes nobody's answer
\* but from the default to true.
RolloutSticky ==
  [][\A k \in Keys, e \in EnvNames : Changes(k, e, IsRaised) =>
       \A context \in ContextsOf(e) :
         LET before == Evaluate(k, flags[k], context)
             after == Evaluate(k, flags'[k], context)
         IN  \/ after = before
             \/ before.reason = "DEFAULT" /\ after.reason = "ROLLOUT"]_flags

\* Disabling an environment under its normal name is a kill switch: no rule
\* and no rollout is served there any more, and no other environment notices.
KillSwitch ==
  [][\A k \in Keys, e \in EnvNames : DisableFlag(k, e) /\ Normal[e] = e =>
       \A context \in Context :
         IF Normal[context.environment] = e
           THEN Evaluate(k, flags'[k], context).reason
                  \in {"OVERRIDE", "FLAG_DISABLED"}
           ELSE Evaluate(k, flags'[k], context)
                  = Evaluate(k, flags[k], context)]_flags

IsReordered(before, after) ==
  /\ Len(after.rules) = Len(before.rules)
  /\ \A i \in DOMAIN before.rules : \E j \in DOMAIN after.rules :
       after.rules[j] = before.rules[i]
  /\ \A i, j \in DOMAIN before.rules :
       before.rules[i].priority = before.rules[j].priority => i = j
  /\ [after EXCEPT !.rules = before.rules] = before

\* The order in which a body lists rules of different priorities does not
\* matter: only the priorities decide.
ListOrderIrrelevant ==
  [][\A k \in Keys, e \in EnvNames : Changes(k, e, IsReordered) =>
       \A context \in ContextsOf(e) :
         Evaluate(k, flags'[k], context)
           = Evaluate(k, flags[k], context)]_flags

=============================================================================
