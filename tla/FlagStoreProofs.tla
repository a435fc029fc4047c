--------------------------- MODULE FlagStoreProofs ---------------------------
(***************************************************************************)
(* Proofs about FlagStore, for every set of keys, sessions, environments,  *)
(* rules and bodies, every seed and every deployment: its types, who owns a*)
(* row, which ids are fresh, how far a version can run ahead of the audit  *)
(* log, and what follows for the history, the rows and the columns.        *)
(***************************************************************************)
EXTENDS FlagStore, TLAPS

(***************************************************************************)
(* What a step does                                                        *)
(***************************************************************************)
\* A flag stays one when its columns and its version are replaced.
LEMMA EditedFlagType ==
  ASSUME NEW flag \in Flag, NEW envs \in EnvMap, NEW version \in Nat
  PROVE  /\ [flag EXCEPT !.envs = envs, !.version = version] \in Flag
         /\ \A label \in Labels :
              [flag EXCEPT !.label = label, !.envs = envs, !.version = version]
                \in Flag
BY DEF Flag

\* An answer with one of the API's statuses is a reply.
LEMMA AnswerType ==
  ASSUME NEW status \in {200, 201, 204, 404, 409, 500},
         NEW flag \in Flag \cup {Null}
  PROVE  Answer(status, flag) \in Reply
BY DEF Answer, Reply

\* The work a handler leaves behind at its first await.
Started(w) ==
  /\ w.stage = "selected"
  /\ w.flag.label # w.loaded.label => w.entry.action = "updated"
  /\ w.flag.envs # w.loaded.envs => w.entry.before # w.entry.after
  /\ IF Creating(w)
       THEN Unused(w.flag.id) /\ w.flag.version = 1
       ELSE Stored(w) /\ w.flag.version <= flags[w.key].version + 1

\* A handler reads the tables and changes neither: it answers at once, or leaves
\* well-typed work at its first await.
LEMMA HandleEffect ==
  ASSUME TypeOK, NEW s \in Sessions, Handle(s)
  PROVE  /\ UNCHANGED <<flags, audit>>
         /\ accepted' = accepted + 1
         /\ work[s] = Null
         /\ \/ \E answer \in Reply : Finish(s, answer)
            \/ \E w \in Work : /\ Started(w)
                              /\ work' = [work EXCEPT ![s] = w]
                              /\ reply' = [reply EXCEPT ![s] = Null]
<1> DEFINE Effect == \/ \E answer \in Reply : Finish(s, answer)
                     \/ \E w \in Work :
                          /\ Started(w)
                          /\ work' = [work EXCEPT ![s] = w]
                          /\ reply' = [reply EXCEPT ![s] = Null]
<1>1. ASSUME NEW k \in Keys, NEW flag \in Flag, NEW loaded \in Columns,
             NEW entry \in Entry,
             Begin(s, k, flag, loaded, entry),
             flag.label # loaded.label => entry.action = "updated",
             flag.envs # loaded.envs => entry.before # entry.after,
             IF entry.action = "created"
               THEN Unused(flag.id) /\ flag.version = 1
               ELSE /\ flags[k] # Null
                    /\ flags[k].id = flag.id
                    /\ flag.version <= flags[k].version + 1
      PROVE  Effect
  <2> DEFINE w == [stage |-> "selected", key |-> k, flag |-> flag,
                   loaded |-> loaded, entry |-> entry]
  <2>1. Started(w)
    BY <1>1 DEF Started, Creating, Stored
  <2>2. w \in Work
    BY DEF Work, Stages
  <2>3. /\ work' = [work EXCEPT ![s] = w]
        /\ reply' = [reply EXCEPT ![s] = Null]
    BY <1>1 DEF Begin
  <2>4. QED
    BY <2>1, <2>2, <2>3
<1>2. ASSUME NEW k \in Keys, NEW action \in AuditActions \ {"created"},
             NEW before \in EnvMap, NEW after \in EnvMap, flags[k] # Null,
             SetEnvironments(s, k, action, before, after)
      PROVE  Effect
  <2> DEFINE new == [flags[k] EXCEPT !.envs = after, !.version = @ + 1]
             loaded == [label |-> flags[k].label, envs |-> before]
             entry == AuditEntry(action, before, after)
  <2>1. flags[k] \in Flag
    BY <1>2 DEF TypeOK
  <2>2. /\ new.id = flags[k].id
        /\ new.label = flags[k].label
        /\ new.envs = after
        /\ new.version = flags[k].version + 1
        /\ flags[k].version \in Nat
    BY <2>1 DEF Flag
  <2>3. /\ entry.action = action
        /\ entry.before = before
        /\ entry.after = after
    BY DEF AuditEntry
  <2>4. Begin(s, k, new, loaded, entry)
    BY <1>2 DEF SetEnvironments
  <2>5. /\ loaded.label = flags[k].label
        /\ loaded.envs = before
        /\ loaded \in Columns
    BY <2>1 DEF Columns, Flag
  <2>6. new \in Flag
    <3> DEFINE version == flags[k].version + 1
    <3>1. version \in Nat
      BY <2>2
    <3>2. new = [flags[k] EXCEPT !.envs = after, !.version = version]
      OBVIOUS
    <3> HIDE DEF new, version
    <3>3. QED
      BY <2>1, <3>1, <3>2, EditedFlagType
  <2>7. entry \in Entry
    BY DEF AuditEntry, Entry
  <2> HIDE DEF new, loaded, entry, Effect
  <2>8. new.version <= flags[k].version + 1
    BY <2>2
  <2>9. QED
    BY <1>1, <1>2, <2>2, <2>3, <2>4, <2>5, <2>6, <2>7, <2>8
<1> HIDE DEF Effect
<1>3. PICK k \in Keys :
        \/ \E label \in Labels, envs \in Configs : CreateFlag(s, k, label, envs)
        \/ CreateConflict(s, k)
        \/ NotFound(s, k)
        \/ \E label \in Labels \cup {Null}, envs \in Configs \cup {Null} :
             UpdateFlag(s, k, label, envs)
        \/ DeleteFlag(s, k)
        \/ \E e \in Envs :
             \/ EnableFlag(s, k, e)
             \/ DisableFlag(s, k, e)
             \/ \E rule \in Rule : AddRule(s, k, e, rule)
             \/ \E i \in RuleIds :
                  \/ RuleNotFound(s, k, e, i)
                  \/ \E rule \in Rule : UpdateRule(s, k, e, i, rule)
                  \/ DeleteRule(s, k, e, i)
  BY DEF Handle
<1>4. Accept(s)
  BY <1>3 DEF CreateFlag, CreateConflict, NotFound, UpdateFlag, DeleteFlag,
              EnableFlag, DisableFlag, SetEnabled, AddRule, RuleNotFound,
              UpdateRule, DeleteRule
<1>5. flags[k] # Null => /\ flags[k] \in Flag
                         /\ flags[k].envs \in EnvMap
                         /\ flags[k].version \in Nat
  BY DEF TypeOK, Flag
<1>6. ASSUME NEW label \in Labels, NEW envs \in Configs,
             CreateFlag(s, k, label, envs)
      PROVE  Effect
  <2>1. PICK i \in FlagIds :
          /\ Unused(i)
          /\ LET flag == [id |-> i, label |-> label, envs |-> envs,
                          version |-> 1]
             IN  Begin(s, k, flag, ColumnsOf(flag),
                       AuditEntry("created", Null, envs))
    BY <1>6 DEF CreateFlag
  <2> DEFINE flag == [id |-> i, label |-> label, envs |-> envs, version |-> 1]
             entry == AuditEntry("created", Null, envs)
  <2>2. /\ ColumnsOf(flag).label = flag.label
        /\ ColumnsOf(flag).envs = flag.envs
        /\ entry.action = "created"
        /\ flag.id = i /\ flag.version = 1
    BY DEF ColumnsOf, AuditEntry
  <2>3. /\ flag \in Flag
        /\ ColumnsOf(flag) \in Columns
        /\ entry \in Entry
    BY DeploymentAssumption
       DEF Flag, Columns, ColumnsOf, AuditEntry, Entry, AuditActions
  <2>4. Begin(s, k, flag, ColumnsOf(flag), entry)
    BY <2>1
  <2> HIDE DEF flag, entry
  <2>5. QED
    BY <1>1, <2>1, <2>2, <2>3, <2>4
<1>7. ASSUME \/ CreateConflict(s, k)
             \/ NotFound(s, k)
             \/ \E e \in Envs, i \in RuleIds : RuleNotFound(s, k, e, i)
      PROVE  Effect
  BY <1>7, AnswerType DEF Effect, CreateConflict, NotFound, RuleNotFound
<1>8. ASSUME NEW label \in Labels \cup {Null}, NEW envs \in Configs \cup {Null},
             UpdateFlag(s, k, label, envs)
      PROVE  Effect
  <2> DEFINE new == [flags[k] EXCEPT
                       !.label = IF label = Null THEN @ ELSE label,
                       !.envs = IF envs = Null THEN @ ELSE envs,
                       !.version = @ + 1]
             entry == AuditEntry("updated", flags[k].envs, new.envs)
  <2>1. flags[k] # Null
    BY <1>8 DEF UpdateFlag
  <2>2. new.id = flags[k].id /\ new.version = flags[k].version + 1
    BY <1>5, <2>1 DEF Flag
  <2>3. /\ ColumnsOf(flags[k]).envs = flags[k].envs
        /\ entry.action = "updated"
        /\ entry.before = flags[k].envs
        /\ entry.after = new.envs
    BY DEF ColumnsOf, AuditEntry
  <2>4. Begin(s, k, new, ColumnsOf(flags[k]), entry)
    BY <1>8 DEF UpdateFlag
  <2>5. new \in Flag
    <3> DEFINE label1 == IF label = Null THEN flags[k].label ELSE label
               envs1 == IF envs = Null THEN flags[k].envs ELSE envs
               version1 == flags[k].version + 1
    <3>1. label1 \in Labels /\ envs1 \in EnvMap /\ version1 \in Nat
      BY <1>5, <2>1, DeploymentAssumption DEF Flag
    <3>2. new = [flags[k] EXCEPT !.label = label1, !.envs = envs1,
                                 !.version = version1]
      OBVIOUS
    <3> HIDE DEF new, label1, envs1, version1
    <3>3. QED
      BY <1>5, <2>1, <3>1, <3>2, EditedFlagType
  <2>6. new.envs \in EnvMap
    <3> HIDE DEF new
    <3>1. QED
      BY <2>5 DEF Flag
  <2> HIDE DEF new
  <2>7. ColumnsOf(flags[k]) \in Columns /\ entry \in Entry
    BY <1>5, <2>1, <2>6
       DEF ColumnsOf, Columns, Flag, AuditEntry, Entry, AuditActions
  <2> HIDE DEF entry
  <2>8. new.version <= flags[k].version + 1
    BY <1>5, <2>1, <2>2
  <2>9. QED
    BY <1>1, <2>1, <2>2, <2>3, <2>4, <2>5, <2>7, <2>8
<1>9. ASSUME DeleteFlag(s, k)
      PROVE  Effect
  <2> DEFINE entry == AuditEntry("deleted", flags[k].envs, Null)
  <2>1. /\ flags[k] # Null
        /\ Begin(s, k, flags[k], ColumnsOf(flags[k]), entry)
    BY <1>9 DEF DeleteFlag
  <2>2. /\ ColumnsOf(flags[k]).label = flags[k].label
        /\ ColumnsOf(flags[k]).envs = flags[k].envs
        /\ entry.action = "deleted"
    BY DEF ColumnsOf, AuditEntry
  <2>3. ColumnsOf(flags[k]) \in Columns /\ entry \in Entry
    BY <1>5, <2>1 DEF ColumnsOf, Columns, Flag, AuditEntry, Entry, AuditActions
  <2> HIDE DEF entry
  <2>4. flags[k] \in Flag /\ flags[k].version <= flags[k].version + 1
    BY <1>5, <2>1
  <2>5. QED
    BY <1>1, <2>1, <2>2, <2>3, <2>4
<1>10. ASSUME NEW e \in Envs, EnableFlag(s, k, e) \/ DisableFlag(s, k, e)
       PROVE  Effect
  <2>1. PICK action \in {"enabled", "disabled"}, value \in BOOLEAN :
          SetEnabled(s, k, e, action, value)
    BY <1>10 DEF EnableFlag, DisableFlag
  <2> DEFINE config == IF flags[k].envs[e] = Null
                         THEN NewConfig ELSE flags[k].envs[e]
             after == [flags[k].envs EXCEPT
                         ![e] = [config EXCEPT !.enabled = value]]
  <2>2. flags[k] # Null /\ action \in AuditActions \ {"created"}
    BY <2>1 DEF SetEnabled, AuditActions
  <2>3. config \in EnvConfig
    BY <1>5, <2>2 DEF NewConfig, EnvConfig, EnvMap
  <2>4. [config EXCEPT !.enabled = value] \in EnvConfig
    BY <2>3 DEF EnvConfig
  <2>5. after \in EnvMap
    BY <1>5, <2>2, <2>4 DEF EnvMap
  <2>6. SetEnvironments(s, k, action, flags[k].envs, after)
    BY <2>1 DEF SetEnabled
  <2> HIDE DEF after
  <2>7. QED
    BY <1>2, <1>5, <2>2, <2>5, <2>6
<1>11. ASSUME NEW e \in Envs, NEW action \in AuditActions \ {"created"},
              NEW rules \in SUBSET Rule,
              flags[k] # Null, flags[k].envs[e] # Null,
              SetRules(s, k, e, action, rules)
       PROVE  Effect
  <2> DEFINE after == [flags[k].envs EXCEPT ![e] = [@ EXCEPT !.rules = rules]]
  <2>1. [flags[k].envs[e] EXCEPT !.rules = rules] \in EnvConfig
    BY <1>5, <1>11 DEF EnvMap, EnvConfig
  <2>2. after \in EnvMap
    BY <1>5, <1>11, <2>1 DEF EnvMap
  <2>3. SetEnvironments(s, k, action, after, after)
    BY <1>11 DEF SetRules
  <2> HIDE DEF after
  <2>4. QED
    BY <1>2, <1>11, <2>2, <2>3
<1>12. ASSUME NEW e \in Envs, NEW rule \in Rule, AddRule(s, k, e, rule)
       PROVE  Effect
  <2> DEFINE envs == flags[k].envs
             after == [envs EXCEPT ![e] = [NewConfig EXCEPT !.rules = {rule}]]
  <2>1. flags[k] # Null /\ "rule_added" \in AuditActions \ {"created"}
    BY <1>12 DEF AddRule, AuditActions
  <2>2. envs \in EnvMap
    BY <1>5, <2>1
  <2>3. CASE envs[e] = Null
    <3>1. [NewConfig EXCEPT !.rules = {rule}] \in EnvConfig
      BY DEF NewConfig, EnvConfig
    <3>2. after \in EnvMap
      BY <2>2, <3>1 DEF EnvMap
    <3>3. SetEnvironments(s, k, "rule_added", envs, after)
      BY <1>12, <2>3 DEF AddRule
    <3> HIDE DEF envs, after
    <3>4. QED
      BY <1>2, <2>1, <2>2, <3>2, <3>3
  <2>4. CASE envs[e] # Null
    <3>1. envs[e].rules \cup {rule} \in SUBSET Rule
      BY <2>2, <2>4 DEF EnvMap, EnvConfig
    <3>2. SetRules(s, k, e, "rule_added", envs[e].rules \cup {rule})
      BY <1>12, <2>4 DEF AddRule
    <3>3. QED
      BY <1>11, <2>1, <2>4, <3>1, <3>2
  <2>5. QED
    BY <2>3, <2>4
<1>13. ASSUME NEW e \in Envs, NEW i \in RuleIds,
              \/ \E rule \in Rule : UpdateRule(s, k, e, i, rule)
              \/ DeleteRule(s, k, e, i)
       PROVE  Effect
  <2>1. flags[k] # Null /\ flags[k].envs[e] # Null
    BY <1>13 DEF UpdateRule, DeleteRule, HasRule
  <2>2. flags[k].envs[e].rules \in SUBSET Rule
    BY <1>5, <2>1 DEF EnvMap, EnvConfig
  <2>3. \E action \in {"rule_updated", "rule_deleted"}, rules \in SUBSET Rule :
          SetRules(s, k, e, action, rules)
    <3>1. ASSUME NEW rule \in Rule, UpdateRule(s, k, e, i, rule)
          PROVE  \E rules \in SUBSET Rule :
                   SetRules(s, k, e, "rule_updated", rules)
      <4> DEFINE rules == {IF r.id = i THEN rule ELSE r :
                             r \in flags[k].envs[e].rules}
      <4>1. rules \in SUBSET Rule
        BY <2>2
      <4>2. SetRules(s, k, e, "rule_updated", rules)
        BY <3>1 DEF UpdateRule
      <4> HIDE DEF rules
      <4>3. QED
        BY <4>1, <4>2
    <3>2. ASSUME DeleteRule(s, k, e, i)
          PROVE  \E rules \in SUBSET Rule :
                   SetRules(s, k, e, "rule_deleted", rules)
      <4> DEFINE rules == {r \in flags[k].envs[e].rules : r.id # i}
      <4>1. rules \in SUBSET Rule
        BY <2>2
      <4>2. SetRules(s, k, e, "rule_deleted", rules)
        BY <3>2 DEF DeleteRule
      <4> HIDE DEF rules
      <4>3. QED
        BY <4>1, <4>2
    <3>3. QED
      BY <1>13, <3>1, <3>2
  <2>4. {"rule_updated", "rule_deleted"} \subseteq AuditActions \ {"created"}
    BY DEF AuditActions
  <2>5. QED
    BY <1>11, <2>1, <2>3, <2>4
<1>14. Effect
  BY <1>3, <1>6, <1>7, <1>8, <1>9, <1>10, <1>12, <1>13
<1>15. QED
  BY <1>4, <1>14 DEF Effect, Accept

(***************************************************************************)
(* Type correctness                                                        *)
(***************************************************************************)
\* The seeded tables are well typed.
LEMMA InitTypeOK == Init => TypeOK
BY SeedAssumption DEF Init, TypeOK

\* Ending a request with a well-typed answer.
LEMMA FinishTypeOK ==
  ASSUME TypeOK, NEW s \in Sessions, NEW answer \in Reply \cup {Null},
         Finish(s, answer)
  PROVE  /\ work' \in [Sessions -> Work \cup {Null}]
         /\ reply' \in [Sessions -> Reply \cup {Null}]
BY DEF TypeOK, Finish

\* Every route keeps the types up to its first await.
LEMMA HandleTypeOK ==
  ASSUME TypeOK, NEW s \in Sessions, Handle(s)
  PROVE  TypeOK'
<1>1. /\ work' \in [Sessions -> Work \cup {Null}]
      /\ reply' \in [Sessions -> Reply \cup {Null}]
  BY HandleEffect, FinishTypeOK DEF TypeOK
<1>2. QED
  BY <1>1, HandleEffect DEF TypeOK

\* What the flush writes is a flag with the id and the version of the object.
LEMMA WrittenType ==
  ASSUME TypeOK, NEW w \in Work, ~RowGone(w)
  PROVE  /\ Written(w) \in Flag
         /\ Written(w).id = w.flag.id
         /\ Written(w).version = w.flag.version
<1>1. w.flag \in Flag /\ w.key \in Keys
  BY DEF Work
<1>2. CASE Creating(w)
  BY <1>1, <1>2 DEF Written
<1>3. CASE ~Creating(w)
  <2>1. flags[w.key] \in Flag
    BY <1>1, <1>3 DEF RowGone, Stored, TypeOK
  <2> DEFINE label == IF w.flag.label = w.loaded.label
                        THEN flags[w.key].label ELSE w.flag.label
             envs == IF w.flag.envs = w.loaded.envs
                       THEN flags[w.key].envs ELSE w.flag.envs
  <2>2. label \in Labels /\ envs \in EnvMap
    BY <1>1, <2>1 DEF Flag
  <2>3. Written(w) = [w.flag EXCEPT !.label = label, !.envs = envs]
    BY <1>3 DEF Written
  <2> HIDE DEF label, envs
  <2>4. QED
    BY <1>1, <2>2, <2>3 DEF Flag
<1>4. QED
  BY <1>2, <1>3

\* Flush, publish, commit, rollback and crash keep the types.
LEMMA AdvanceTypeOK ==
  ASSUME TypeOK, NEW s \in Sessions, Advance(s) \/ Abort(s)
  PROVE  TypeOK'
<1> DEFINE w == work[s]
<1>1. w # Null => /\ w \in Work
                  /\ w.key \in Keys
                  /\ w.flag \in Flag
                  /\ w.flag.id \in FlagIds
                  /\ w.entry \in Entry
  BY DEF TypeOK, Work, Flag
<1>2. ASSUME NEW flag \in Flag \cup {Null}, NEW status \in {200, 201, 204, 500}
      PROVE  Answer(status, flag) \in Reply \cup {Null}
  BY AnswerType
<1>3. CASE Flush(s)
  <2>1. w \in Work /\ Written(w) \in Flag
    BY <1>1, <1>3, WrittenType DEF Flush
  <2>2. ColumnsOf(Written(w)) \in Columns
    BY <2>1 DEF ColumnsOf, Columns, Flag
  <2>3. [w EXCEPT !.stage = "flushed", !.flag = Written(w),
                  !.loaded = ColumnsOf(Written(w))] \in Work
    BY <2>1, <2>2 DEF Work, Stages
  <2>4. QED
    BY <1>3, <2>3 DEF Flush, TypeOK
<1>4. CASE FlushFails(s)
  BY <1>2, <1>4, FinishTypeOK DEF FlushFails, TypeOK
<1>5. ASSUME NEW outcome \in {"announced", "unannounced"}, Publish(s, outcome)
      PROVE  TypeOK'
  <2>1. w \in Work
    BY <1>1, <1>5 DEF Publish
  <2>2. [w EXCEPT !.stage = outcome] \in Work
    BY <2>1 DEF Work, Stages
  <2>3. work' \in [Sessions -> Work \cup {Null}]
    BY <1>5, <2>2 DEF Publish, TypeOK
  <2>4. QED
    BY <1>5, <2>3 DEF Publish, TypeOK
<1>6. ASSUME w # Null, Log(w)
      PROVE  audit' \in [FlagIds -> Seq(Entry)]
  BY <1>1, <1>6 DEF Log, TypeOK
<1>7. ASSUME NEW acked \in BOOLEAN, Commit(s, acked)
      PROVE  TypeOK'
  <2>1. w # Null /\ Log(w)
    BY <1>7 DEF Commit, Published
  <2>2. flags' \in [Keys -> Flag \cup {Null}]
    BY <1>1, <1>7, <2>1 DEF Commit, TypeOK
  <2> DEFINE answer == IF acked
                         THEN Answer(IF Creating(w) THEN 201 ELSE 200, w.flag)
                         ELSE Null
  <2>3. answer \in Reply \cup {Null}
    BY <1>1, <1>2, <2>1
  <2>4. Finish(s, answer) /\ accepted' = accepted
    BY <1>7 DEF Commit
  <2> HIDE DEF answer
  <2>5. QED
    BY <1>6, <2>1, <2>2, <2>3, <2>4, FinishTypeOK DEF TypeOK
<1>8. ASSUME NEW acked \in BOOLEAN, CommitDelete(s, acked)
      PROVE  TypeOK'
  <2>1. w # Null /\ Log(w)
    BY <1>8 DEF CommitDelete, Published
  <2>2. flags' \in [Keys -> Flag \cup {Null}]
    BY <1>1, <1>8, <2>1 DEF CommitDelete, TypeOK
  <2> DEFINE answer == IF acked THEN Answer(204, Null) ELSE Null
  <2>3. answer \in Reply \cup {Null}
    BY <1>2
  <2>4. Finish(s, answer) /\ accepted' = accepted
    BY <1>8 DEF CommitDelete
  <2> HIDE DEF answer
  <2>5. QED
    BY <1>6, <2>1, <2>2, <2>3, <2>4, FinishTypeOK DEF TypeOK
<1>9. CASE CommitDeleteFails(s)
  BY <1>2, <1>9, FinishTypeOK DEF CommitDeleteFails, TypeOK
<1>10. CASE Abort(s)
  BY <1>10, FinishTypeOK DEF Abort, TypeOK
<1>11. QED
  BY <1>3, <1>4, <1>5, <1>7, <1>8, <1>9, <1>10 DEF Advance

\* Every step keeps the types.
LEMMA NextTypeOK == TypeOK /\ [Next]_vars => TypeOK'
<1>1. TypeOK /\ Next => TypeOK'
  BY HandleTypeOK, AdvanceTypeOK DEF Next
<1>2. TypeOK /\ UNCHANGED vars => TypeOK'
  BY DEF TypeOK, vars
<1>3. QED
  BY <1>1, <1>2

\* Whatever requests race, fail or are cut off, the tables hold flags and
\* audit entries of the declared shape, and so does every session.
THEOREM TypeCorrect == Spec => []TypeOK
BY InitTypeOK, NextTypeOK, PTL DEF Spec


(***************************************************************************)
(* The requests under way and the ids they hold.                           *)
(***************************************************************************)
Step(s) == Handle(s) \/ Advance(s) \/ Abort(s)

\* The request that v and w are: only the stage and the columns move on.
SameRequest(v, w) ==
  /\ w.key = v.key
  /\ w.entry = v.entry
  /\ w.flag.id = v.flag.id
  /\ w.flag.version = v.flag.version

\* The only steps that change the tables are the two commits, and they end
\* the request; every other step starts, ends or moves on one request.
LEMMA StepEffect ==
  ASSUME TypeOK, NEW s \in Sessions, Step(s)
  PROVE  /\ \A t \in Sessions \ {s} : work'[t] = work[t]
         /\ \/ /\ UNCHANGED <<flags, audit>>
               /\ \/ work'[s] = Null
                  \/ work[s] = Null /\ Started(work'[s])
                  \/ /\ work[s] # Null /\ work'[s] # Null
                     /\ SameRequest(work[s], work'[s])
            \/ /\ work'[s] = Null
               /\ \E acked \in BOOLEAN : Commit(s, acked) \/ CommitDelete(s, acked)
<1>1. CASE Handle(s)
  <2>1. CASE \E answer \in Reply : Finish(s, answer)
    BY <1>1, <2>1, HandleEffect DEF Finish, TypeOK
  <2>2. CASE \E w \in Work : Started(w) /\ work' = [work EXCEPT ![s] = w]
    BY <1>1, <2>2, HandleEffect DEF TypeOK
  <2>3. QED
    BY <1>1, <2>1, <2>2, HandleEffect
<1>2. CASE Flush(s)
  <2>1. /\ work[s] \in Work
        /\ Written(work[s]) \in Flag
        /\ Written(work[s]).id = work[s].flag.id
        /\ Written(work[s]).version = work[s].flag.version
    BY <1>2, WrittenType DEF Flush, TypeOK
  <2> DEFINE w == [work[s] EXCEPT !.stage = "flushed",
                     !.flag = Written(work[s]),
                     !.loaded = ColumnsOf(Written(work[s]))]
  <2>2. /\ work' = [work EXCEPT ![s] = w]
        /\ work[s] # Null
        /\ UNCHANGED <<flags, audit>>
    BY <1>2 DEF Flush
  <2>3. SameRequest(work[s], w)
    BY <2>1 DEF SameRequest, Work
  <2>4. w \in Work
    BY <2>1 DEF Work, Stages, ColumnsOf, Columns, Flag
  <2> HIDE DEF w
  <2>5. w # Null
    BY <2>4, NullAssumption
  <2>6. QED
    BY <2>2, <2>3, <2>5 DEF TypeOK
<1>3. ASSUME NEW outcome \in {"announced", "unannounced"}, Publish(s, outcome)
      PROVE  /\ \A t \in Sessions \ {s} : work'[t] = work[t]
             /\ work[s] # Null /\ work'[s] # Null
             /\ SameRequest(work[s], work'[s])
             /\ UNCHANGED <<flags, audit>>
  <2> DEFINE w == [work[s] EXCEPT !.stage = outcome]
  <2>1. work[s] \in Work
    BY <1>3 DEF Publish, TypeOK
  <2>2. w \in Work /\ SameRequest(work[s], w)
    BY <2>1 DEF Work, Stages, SameRequest
  <2>3. work' = [work EXCEPT ![s] = w]
    BY <1>3 DEF Publish
  <2> HIDE DEF w
  <2>4. QED
    BY <1>3, <2>2, <2>3, NullAssumption DEF Publish, TypeOK
<1>4. CASE FlushFails(s) \/ CommitDeleteFails(s) \/ Abort(s)
  BY <1>4 DEF FlushFails, CommitDeleteFails, Abort, Finish, TypeOK
<1>5. CASE \E acked \in BOOLEAN : Commit(s, acked) \/ CommitDelete(s, acked)
  BY <1>5 DEF Commit, CommitDelete, Finish, TypeOK
<1>6. QED
  BY <1>1, <1>2, <1>3, <1>4, <1>5 DEF Step, Advance

(***************************************************************************)
(* Writers own their rows                                                  *)
(***************************************************************************)

\* No other request changes the row, or takes the key, of a writer.
LEMMA WritersRowKept ==
  ASSUME TypeOK, WritersOwnRows, NEW s \in Sessions, Step(s),
         NEW t \in Sessions \ {s}, Writing(work[t])
  PROVE  flags'[work[t].key] = flags[work[t].key]
<1> DEFINE v == work[s]
           w == work[t]
<1>1. w # Null /\ w.key \in Keys
  BY DEF Writing, TypeOK, Work
<1>2. ASSUME NEW acked \in BOOLEAN, Commit(s, acked)
      PROVE  flags'[w.key] = flags[w.key]
  <2>1. /\ Writing(v)
        /\ flags' = [flags EXCEPT ![v.key] = v.flag]
    BY <1>2 DEF Commit, Published, Writing
  <2>2. v.key # w.key
    BY <2>1 DEF WritersOwnRows, Stored
  <2>3. QED
    BY <1>1, <2>1, <2>2 DEF TypeOK
<1>3. ASSUME NEW acked \in BOOLEAN, CommitDelete(s, acked)
      PROVE  flags'[w.key] = flags[w.key]
  <2>1. /\ v # Null
        /\ w.flag.id # v.flag.id
        /\ Deleting(v)
        /\ flags' = [flags EXCEPT ![v.key] = IF RowGone(v) THEN @ ELSE Null]
    BY <1>3 DEF CommitDelete, Published, Blocked
  <2>2. CASE v.key = w.key /\ ~RowGone(v)
    <3>1. Stored(v)
      BY <2>1, <2>2 DEF RowGone, Creating, Deleting
    <3>2. FALSE
      BY <2>1, <2>2, <3>1 DEF WritersOwnRows, Stored
    <3>3. QED
      BY <3>2
  <2>3. CASE v.key # w.key \/ RowGone(v)
    BY <1>1, <2>1, <2>3 DEF TypeOK
  <2>4. QED
    BY <2>2, <2>3
<1>4. QED
  BY <1>1, <1>2, <1>3, StepEffect

\* A step of one request leaves every writer in possession of its row or key.
LEMMA WritersOwnRowsStep ==
  ASSUME TypeOK, WritersOwnRows, NEW s \in Sessions, Step(s)
  PROVE  WritersOwnRows'
<1> DEFINE Owns(w) == IF Creating(w) THEN flags[w.key] = Null ELSE Stored(w)
           Apart(v, w) == /\ v.flag.id # w.flag.id
                          /\ Creating(v) /\ Creating(w) => v.key # w.key
\* The stepping request: it keeps what it has, or takes what nobody holds.
<1>1. Writing(work'[s]) =>
        /\ UNCHANGED flags
        /\ SameRequest(work[s], work'[s])
        /\ Owns(work[s])
        /\ \A t \in Sessions \ {s} : Writing(work[t]) => Apart(work[t], work[s])
  <2>1. CASE Flush(s)
    BY <2>1, StepEffect
       DEF Flush, Blocked, DuplicateKey, RowGone, Started, Writing
  <2>2. ASSUME NEW outcome \in {"announced", "unannounced"}, Publish(s, outcome)
        PROVE  Writing(work'[s]) =>
                 /\ UNCHANGED flags
                 /\ SameRequest(work[s], work'[s])
                 /\ Writing(work[s])
    BY <2>2, StepEffect
       DEF Publish, Writing, SameRequest, Deleting, Started
  <2>3. CASE Handle(s)
    BY <2>3, HandleEffect DEF Finish, TypeOK, Started, Writing
  <2>4. CASE FlushFails(s) \/ CommitDeleteFails(s) \/ Abort(s)
    BY <2>4 DEF FlushFails, CommitDeleteFails, Abort, Finish, TypeOK, Writing
  <2>5. CASE \E acked \in BOOLEAN : Commit(s, acked) \/ CommitDelete(s, acked)
    BY <2>5 DEF Commit, CommitDelete, Finish, TypeOK, Writing
  <2>6. QED
    BY <2>1, <2>2, <2>3, <2>4, <2>5 DEF Step, Advance, WritersOwnRows
\* The others: neither they nor their rows have changed.
<1>2. ASSUME NEW t \in Sessions \ {s}, Writing(work[t])
      PROVE  /\ work'[t] = work[t]
             /\ flags'[work[t].key] = flags[work[t].key]
             /\ Owns(work[t])
  BY <1>2, StepEffect, WritersRowKept DEF WritersOwnRows
<1>3. QED
  BY <1>1, <1>2, StepEffect
     DEF WritersOwnRows, SameRequest, Stored, Creating, Writing

\* At the start nobody has written.
LEMMA InitWritersOwnRows == Init => WritersOwnRows
BY DEF Init, WritersOwnRows, Writing

\* While a request that has written to the database is not ended, its row or
\* its key is its own, whatever other requests, failures and aborts do.
THEOREM RowsOwned == Spec => []WritersOwnRows
<1>1. TypeOK /\ WritersOwnRows /\ [Next]_vars => WritersOwnRows'
  <2>1. TypeOK /\ WritersOwnRows /\ Next => WritersOwnRows'
    BY WritersOwnRowsStep DEF Next, Step
  <2>2. WritersOwnRows /\ UNCHANGED vars => WritersOwnRows'
    BY DEF WritersOwnRows, Writing, Creating, Deleting, Stored, vars
  <2>3. QED
    BY <2>1, <2>2
<1>2. QED
  BY <1>1, InitWritersOwnRows, TypeCorrect, PTL DEF Spec

(***************************************************************************)
(* The history                                                             *)
(***************************************************************************)

\* While the database enforces audit_logs.flag_id, the flag of every audit
\* entry is still stored.  A commit writes the row it owns, so it takes no
\* other flag's row away; no delete commits.
THEOREM HistoryKept == Spec => []HistoryProtected
<1>1. Init => HistoryProtected
  BY DEF Init, HistoryProtected
<1>2. TypeOK /\ WritersOwnRows /\ HistoryProtected /\ [Next]_vars
        => HistoryProtected'
  <2> SUFFICES ASSUME TypeOK, WritersOwnRows, HistoryProtected, [Next]_vars,
                      ForeignKeys, NEW i \in FlagIds, audit'[i] # <<>>
               PROVE  \E k \in Keys : flags'[k] # Null /\ flags'[k].id = i
    BY DEF HistoryProtected
  <2>1. CASE UNCHANGED <<flags, audit>>
    BY <2>1 DEF HistoryProtected
  <2>2. ASSUME NEW s \in Sessions, NEW acked \in BOOLEAN, Commit(s, acked)
        PROVE  \E k \in Keys : flags'[k] # Null /\ flags'[k].id = i
    <3> DEFINE w == work[s]
    <3>1. /\ w.key \in Keys /\ w.flag \in Flag
          /\ Writing(w)
          /\ flags' = [flags EXCEPT ![w.key] = w.flag]
          /\ audit' = [audit EXCEPT ![w.flag.id] = Append(@, w.entry)]
      BY <2>2 DEF Commit, Published, Writing, Log, TypeOK, Work
    <3>2. flags'[w.key] = w.flag /\ flags'[w.key] # Null
      BY <3>1, NullAssumption DEF TypeOK
    <3>3. CASE i = w.flag.id
      BY <3>1, <3>2, <3>3
    <3>4. CASE i # w.flag.id
      <4>1. PICK k \in Keys : flags[k] # Null /\ flags[k].id = i
        BY <3>1, <3>4 DEF HistoryProtected, TypeOK
      <4>2. k # w.key
        BY <3>1, <3>4, <4>1 DEF WritersOwnRows, Stored
      <4>3. QED
        BY <3>1, <4>1, <4>2 DEF TypeOK
    <3>5. QED
      BY <3>3, <3>4
  <2>3. ASSUME NEW s \in Sessions, NEW acked \in BOOLEAN, CommitDelete(s, acked)
        PROVE  FALSE
    BY <2>3 DEF CommitDelete, Published, Restricted
  <2>4. QED
    BY <2>1, <2>2, <2>3, StepEffect DEF Next, Step, vars
<1>3. QED
  BY <1>1, <1>2, RowsOwned, TypeCorrect, PTL DEF Spec

(***************************************************************************)
(* Versions                                                                *)
(***************************************************************************)

\* The object a session holds counts at most its own change beyond those
\* that the log, and the seed, account for.
WorkCounted ==
  \A s \in Sessions : work[s] # Null =>
    work[s].flag.version
      <= Len(audit[work[s].flag.id]) + SeedVersion(work[s].flag.id) + 1

\* The audit log of a flag never shrinks, and a commit adds one entry to it.
LEMMA LogGrows ==
  ASSUME TypeOK, NEW s \in Sessions, Step(s), NEW i \in FlagIds
  PROVE  /\ Len(audit[i]) \in Nat /\ Len(audit'[i]) \in Nat
         /\ Len(audit[i]) <= Len(audit'[i])
         /\ i = work[s].flag.id /\ (\E acked \in BOOLEAN : Commit(s, acked)) =>
              Len(audit'[i]) = Len(audit[i]) + 1
<1>1. audit[i] \in Seq(Entry)
  BY DEF TypeOK
<1>2. ASSUME work[s] # Null, Log(work[s])
      PROVE  /\ Len(audit'[i]) \in Nat
             /\ Len(audit[i]) <= Len(audit'[i])
             /\ i = work[s].flag.id => Len(audit'[i]) = Len(audit[i]) + 1
  <2>1. work[s].entry \in Entry
    BY <1>2 DEF TypeOK, Work
  <2>2. IF i = work[s].flag.id
          THEN audit'[i] = Append(audit[i], work[s].entry)
          ELSE audit'[i] = audit[i]
    BY <1>2 DEF Log, TypeOK
  <2>3. Len(Append(audit[i], work[s].entry)) = Len(audit[i]) + 1
    BY <1>1, <2>1
  <2>4. QED
    BY <1>1, <2>2, <2>3
<1>3. CASE \E acked \in BOOLEAN : Commit(s, acked) \/ CommitDelete(s, acked)
  BY <1>1, <1>2, <1>3 DEF Commit, CommitDelete, Published
<1>4. CASE UNCHANGED audit /\ ~\E acked \in BOOLEAN : Commit(s, acked)
  BY <1>1, <1>4
<1>5. QED
  BY <1>3, <1>4, StepEffect

\* No step lets a stored version, or one in memory, run ahead of the log.
LEMMA VersionStep ==
  ASSUME TypeOK, TypeOK', WorkCounted, VersionBounded,
         NEW s \in Sessions, Step(s)
  PROVE  WorkCounted' /\ VersionBounded'
<1>1. \A i \in FlagIds : SeedVersion(i) \in Nat
  BY DEF SeedVersion
<1>2. ASSUME NEW t \in Sessions, work'[t] # Null
      PROVE  work'[t].flag.version
               <= Len(audit'[work'[t].flag.id])
                    + SeedVersion(work'[t].flag.id) + 1
  <2> DEFINE w == work'[t]
             i == w.flag.id
  <2>1. /\ w \in Work /\ w.key \in Keys
        /\ i \in FlagIds /\ w.flag.version \in Nat
    BY <1>2 DEF TypeOK, Work, Flag
  <2>2. /\ Len(audit[i]) \in Nat /\ Len(audit'[i]) \in Nat
        /\ Len(audit[i]) <= Len(audit'[i])
    BY <2>1, LogGrows
  <2>3. w.flag.version <= Len(audit[i]) + SeedVersion(i) + 1
    <3>1. CASE /\ work[t] # Null
               /\ work[t].flag.id = i
               /\ work[t].flag.version = w.flag.version
      BY <2>1, <3>1 DEF WorkCounted
    <3>2. CASE w.flag.version = 1
      BY <1>1, <2>1, <2>2, <3>2
    <3>3. CASE Stored(w) /\ w.flag.version <= flags[w.key].version + 1
      <4>1. /\ flags[w.key] # Null
            /\ flags[w.key].id = i
            /\ w.flag.version <= flags[w.key].version + 1
        BY <3>3 DEF Stored
      <4>2. flags[w.key].version \in Nat
        BY <2>1, <4>1 DEF TypeOK, Flag
      <4>3. flags[w.key].version <= Len(audit[i]) + SeedVersion(i)
        BY <2>1, <4>1 DEF VersionBounded
      <4> DEFINE a == w.flag.version
                 b == flags[w.key].version
                 c == Len(audit[i])
                 d == SeedVersion(i)
      <4>4. a \in Nat /\ b \in Nat /\ c \in Nat /\ d \in Nat
        BY <1>1, <2>1, <2>2, <4>2
      <4>5. a <= b + 1 /\ b <= c + d
        BY <4>1, <4>3
      <4> HIDE DEF a, b, c, d
      <4>6. a <= c + d + 1
        BY <4>4, <4>5
      <4>7. QED
        BY <4>6 DEF a, c, d
    <3>4. \/ /\ work[t] # Null
             /\ work[t].flag.id = i
             /\ work[t].flag.version = w.flag.version
          \/ w.flag.version = 1
          \/ Stored(w) /\ w.flag.version <= flags[w.key].version + 1
      BY <1>2, StepEffect DEF SameRequest, Started
    <3>5. QED
      BY <3>1, <3>2, <3>3, <3>4
  <2>4. SeedVersion(i) \in Nat
    BY <1>1, <2>1
  <2> HIDE DEF w, i
  <2>5. w.flag.version <= Len(audit'[i]) + SeedVersion(i) + 1
    BY <2>1, <2>2, <2>3, <2>4
  <2>6. QED
    BY <2>5 DEF w, i
<1>3. ASSUME NEW k \in Keys, flags'[k] # Null
      PROVE  flags'[k].version
               <= Len(audit'[flags'[k].id]) + SeedVersion(flags'[k].id)
  <2> DEFINE row == flags'[k]
             i == row.id
  <2>1. row \in Flag /\ i \in FlagIds /\ row.version \in Nat
    BY <1>3 DEF TypeOK, Flag
  <2>2. /\ Len(audit[i]) \in Nat /\ Len(audit'[i]) \in Nat
        /\ Len(audit[i]) <= Len(audit'[i])
    BY <2>1, LogGrows
  <2>3. CASE row = flags[k]
    <3>1. row.version <= Len(audit[i]) + SeedVersion(i)
      BY <1>3, <2>3 DEF VersionBounded
    <3>2. QED
      BY <1>1, <2>1, <2>2, <3>1
  <2>4. CASE row # flags[k]
    <3>1. PICK acked \in BOOLEAN : Commit(s, acked)
      BY <1>3, <2>4, StepEffect DEF CommitDelete, TypeOK
    <3>2. work[s] # Null /\ row = work[s].flag
      BY <2>4, <3>1 DEF Commit, Published, TypeOK
    <3>3. Len(audit'[i]) = Len(audit[i]) + 1
      BY <2>1, <3>1, <3>2, LogGrows
    <3>4. row.version <= Len(audit[i]) + SeedVersion(i) + 1
      BY <2>1, <3>2 DEF WorkCounted
    <3>5. QED
      BY <1>1, <2>1, <2>2, <3>3, <3>4
  <2>5. QED
    BY <2>3, <2>4
<1>4. VersionBounded'
  BY <1>1, <1>3 DEF VersionBounded
<1>5. WorkCounted'
  BY <1>2 DEF WorkCounted
<1>6. QED
  BY <1>4, <1>5

\* The version of a flag never counts more changes than its audit log holds:
\* requests that race reuse a version, but none is ever skipped.
THEOREM VersionsAudited == Spec => []VersionBounded
<1>1. Init => WorkCounted /\ VersionBounded
  <2> SUFFICES ASSUME Init PROVE VersionBounded
    BY DEF Init, WorkCounted
  <2> SUFFICES ASSUME NEW k \in Keys, flags[k] # Null
               PROVE  flags[k].version
                        <= Len(audit[flags[k].id]) + SeedVersion(flags[k].id)
    BY DEF VersionBounded
  <2>1. flags[k].version = 1 /\ flags[k].id \in FlagIds
    BY SeedAssumption DEF Init, Flag
  <2>2. SeedVersion(flags[k].id) = 1
    BY DEF Init, SeedVersion
  <2>3. Len(audit[flags[k].id]) = 0
    BY <2>1 DEF Init
  <2>4. QED
    BY <2>1, <2>2, <2>3
<1>2. /\ TypeOK /\ TypeOK' /\ WorkCounted /\ VersionBounded
      /\ [Next]_vars
      => WorkCounted' /\ VersionBounded'
  <2>1. /\ TypeOK /\ TypeOK' /\ WorkCounted /\ VersionBounded /\ Next
        => WorkCounted' /\ VersionBounded'
    BY VersionStep DEF Next, Step
  <2>2. WorkCounted /\ VersionBounded /\ UNCHANGED vars
        => WorkCounted' /\ VersionBounded'
    BY DEF WorkCounted, VersionBounded, SeedVersion, vars
  <2>3. QED
    BY <2>1, <2>2
<1>3. QED
  BY <1>1, <1>2, TypeCorrect, PTL DEF Spec

(***************************************************************************)
(* Fresh ids                                                               *)
(***************************************************************************)

\* Nothing but the request that creates a flag knows the flag's id.
FreshIds ==
  \A s \in Sessions : work[s] # Null /\ Creating(work[s]) =>
    /\ audit[work[s].flag.id] = <<>>
    /\ \A k \in Keys : flags[k] # Null => flags[k].id # work[s].flag.id
    /\ \A t \in Sessions \ {s} :
         work[t] # Null => work[t].flag.id # work[s].flag.id

\* Every step keeps the ids of unfinished creates unknown to anyone else.
LEMMA FreshIdsStep ==
  ASSUME TypeOK, TypeOK', FreshIds, NEW s \in Sessions, Step(s)
  PROVE  FreshIds'
<1> SUFFICES ASSUME NEW t \in Sessions, work'[t] # Null, Creating(work'[t])
             PROVE  LET i == work'[t].flag.id
                    IN  /\ audit'[i] = <<>>
                        /\ \A k \in Keys : flags'[k] # Null => flags'[k].id # i
                        /\ \A u \in Sessions \ {t} :
                             work'[u] # Null => work'[u].flag.id # i
  BY DEF FreshIds, Creating
<1> DEFINE i == work'[t].flag.id
<1>1. i \in FlagIds
  BY DEF TypeOK, Work, Flag
<1>2. CASE t = s
  <2>1. CASE work[s] = Null /\ Started(work'[s])
    BY <1>2, <2>1, StepEffect DEF Started, Unused
  <2>2. CASE work[s] # Null /\ SameRequest(work[s], work'[s])
    BY <1>2, <2>2, StepEffect DEF SameRequest, FreshIds, Creating
  <2>3. QED
    BY <1>2, <2>1, <2>2, StepEffect
<1>3. CASE t # s
  <2>1. /\ work[t] = work'[t]
        /\ audit[i] = <<>>
        /\ \A k \in Keys : flags[k] # Null => flags[k].id # i
        /\ \A u \in Sessions \ {t} : work[u] # Null => work[u].flag.id # i
    BY <1>3, StepEffect DEF FreshIds
  <2>2. ASSUME work[s] # Null, Log(work[s])
        PROVE  audit'[i] = <<>>
    BY <1>1, <1>3, <2>1, <2>2 DEF Log, TypeOK
  <2>3. audit'[i] = <<>>
    BY <2>1, <2>2, StepEffect DEF Commit, CommitDelete, Published
  <2>4. ASSUME NEW k \in Keys, flags'[k] # Null
        PROVE  flags'[k].id # i
    <3>1. CASE flags'[k] = flags[k]
      BY <2>1, <2>4, <3>1
    <3>2. CASE flags'[k] # flags[k]
      <4>1. PICK acked \in BOOLEAN : Commit(s, acked)
        BY <2>4, <3>2, StepEffect DEF CommitDelete, TypeOK
      <4>2. work[s] # Null /\ flags'[k] = work[s].flag
        BY <3>2, <4>1 DEF Commit, Published, TypeOK
      <4>3. QED
        BY <1>3, <2>1, <4>2
    <3>3. QED
      BY <3>1, <3>2
  <2>5. ASSUME NEW u \in Sessions \ {t}, work'[u] # Null
        PROVE  work'[u].flag.id # i
    <3>1. CASE u # s
      BY <2>1, <2>5, <3>1, StepEffect
    <3>2. CASE u = s /\ work[s] # Null
      BY <2>1, <2>5, <3>2, StepEffect DEF SameRequest
    <3>3. CASE u = s /\ work[s] = Null
      <4>1. work'[s] \in Work /\ Started(work'[s])
        BY <2>5, <3>3, StepEffect DEF TypeOK
      <4>2. Unused(work'[s].flag.id) \/ Stored(work'[s])
        BY <4>1 DEF Started
      <4>3. QED
        BY <1>3, <2>1, <3>3, <4>1, <4>2 DEF Unused, Stored, Work
    <3>4. QED
      BY <3>1, <3>2, <3>3
  <2>6. QED
    BY <2>3, <2>4, <2>5
<1>4. QED
  BY <1>2, <1>3

THEOREM IdsFresh == Spec => []FreshIds
<1>1. Init => FreshIds
  BY DEF Init, FreshIds
<1>2. TypeOK /\ TypeOK' /\ FreshIds /\ [Next]_vars => FreshIds'
  <2>1. TypeOK /\ TypeOK' /\ FreshIds /\ Next => FreshIds'
    BY FreshIdsStep DEF Next, Step
  <2>2. FreshIds /\ UNCHANGED vars => FreshIds'
    BY DEF FreshIds, Creating, vars
  <2>3. QED
    BY <2>1, <2>2
<1>3. QED
  BY <1>1, <1>2, TypeCorrect, PTL DEF Spec

(***************************************************************************)
(* Rows and their audit entries                                            *)
(***************************************************************************)

\* The step form of RowIdentity.
RowKept ==
  \A k \in Keys : flags'[k] # Null =>
    IF flags[k] # Null THEN flags'[k].id = flags[k].id
                       ELSE audit[flags'[k].id] = <<>>

\* A stored flag is never replaced by another one and never comes back: the
\* commit of a create finds its key free and its id unknown, every other
\* commit finds the row it read.
THEOREM RowsKeepIdentity == Spec => RowIdentity
<1>1. TypeOK /\ WritersOwnRows /\ FreshIds /\ [Next]_vars
        => RowKept \/ UNCHANGED vars
  <2> SUFFICES ASSUME TypeOK, WritersOwnRows, FreshIds,
                      NEW s \in Sessions, Step(s),
                      NEW k \in Keys, flags'[k] # Null, flags'[k] # flags[k]
               PROVE  IF flags[k] # Null THEN flags'[k].id = flags[k].id
                                         ELSE audit[flags'[k].id] = <<>>
    BY DEF RowKept, Next, Step
  <2>1. PICK acked \in BOOLEAN : Commit(s, acked)
    BY StepEffect DEF CommitDelete, TypeOK
  <2>2. /\ Writing(work[s])
        /\ work[s] # Null
        /\ k = work[s].key
        /\ flags'[k] = work[s].flag
    BY <2>1 DEF Commit, Published, Writing, TypeOK
  <2>3. QED
    BY <2>2 DEF WritersOwnRows, Stored, FreshIds
<1>2. QED
  BY <1>1, RowsOwned, IdsFresh, TypeCorrect, PTL DEF Spec, RowIdentity, RowKept

\* What a commit adds to the log is the entry of its request.
LEMMA LogEffect ==
  ASSUME TypeOK, NEW s \in Sessions, work[s] # Null, Log(work[s]),
         NEW i \in FlagIds
  PROVE  IF i = work[s].flag.id
           THEN /\ audit'[i] = Append(audit[i], work[s].entry)
                /\ audit'[i] # audit[i]
                /\ LastEntry(i)' = work[s].entry
           ELSE audit'[i] = audit[i]
<1> DEFINE e == work[s].entry
<1>1. e \in Entry /\ audit[i] \in Seq(Entry)
  BY DEF TypeOK, Work
<1>2. IF i = work[s].flag.id THEN audit'[i] = Append(audit[i], e)
                             ELSE audit'[i] = audit[i]
  BY DEF Log, TypeOK
<1> HIDE DEF e
<1>3. /\ Len(Append(audit[i], e)) = Len(audit[i]) + 1
      /\ Append(audit[i], e)[Len(audit[i]) + 1] = e
      /\ Len(audit[i]) \in Nat
  BY <1>1
<1>4. audit'[i] = Append(audit[i], e)
        => audit'[i] # audit[i] /\ LastEntry(i)' = e
  BY <1>3 DEF LastEntry
<1>5. QED
  BY <1>2, <1>4 DEF e

\* The step form of AuditedChanges.
ChangesLogged ==
  /\ \A i \in FlagIds :
       audit'[i] # audit[i] =>
         audit'[i] = Append(audit[i], LastEntry(i)')
  /\ \A k \in Keys : flags'[k] # flags[k] =>
       LET row == IF flags[k] = Null THEN flags'[k] ELSE flags[k]
       IN  audit'[row.id] # audit[row.id]

\* The log only grows, and no row changes in a step that does not log it.
THEOREM EveryChangeAudited == Spec => AuditedChanges
<1>1. TypeOK /\ WritersOwnRows /\ [Next]_vars => ChangesLogged \/ UNCHANGED vars
  <2> SUFFICES ASSUME TypeOK, WritersOwnRows, NEW s \in Sessions, Step(s)
               PROVE  ChangesLogged
    BY DEF Next, Step
  <2>1. CASE UNCHANGED <<flags, audit>>
    BY <2>1 DEF ChangesLogged
  <2>2. ASSUME NEW acked \in BOOLEAN, Commit(s, acked) \/ CommitDelete(s, acked)
        PROVE  ChangesLogged
    <3> DEFINE w == work[s]
    <3>1. w # Null /\ Log(w)
      BY <2>2 DEF Commit, CommitDelete, Published
    <3>2. ASSUME NEW i \in FlagIds, audit'[i] # audit[i]
          PROVE  audit'[i] = Append(audit[i], LastEntry(i)')
      BY <3>1, <3>2, LogEffect
    <3>3. ASSUME NEW k \in Keys, flags'[k] # flags[k]
          PROVE  LET row == IF flags[k] = Null THEN flags'[k] ELSE flags[k]
                 IN  row.id = w.flag.id
      <4>1. CASE Commit(s, acked)
        <5>1. Writing(w) /\ k = w.key /\ flags'[k] = w.flag
          BY <3>3, <4>1 DEF Commit, Published, Writing, TypeOK
        <5>2. QED
          BY <5>1 DEF WritersOwnRows, Stored
      <4>2. CASE CommitDelete(s, acked)
        <5>1. Deleting(w) /\ k = w.key /\ ~RowGone(w)
          BY <3>3, <4>2 DEF CommitDelete, TypeOK
        <5>2. Stored(w)
          BY <5>1 DEF RowGone, Creating, Deleting
        <5>3. QED
          BY <5>1, <5>2 DEF Stored
      <4>3. QED
        BY <2>2, <4>1, <4>2
    <3>4. audit'[w.flag.id] # audit[w.flag.id]
      BY <3>1, LogEffect DEF TypeOK, Work, Flag
    <3>5. QED
      BY <3>2, <3>3, <3>4 DEF ChangesLogged
  <2>3. QED
    BY <2>1, <2>2, StepEffect
<1>2. QED
  BY <1>1, RowsOwned, TypeCorrect, PTL DEF Spec, AuditedChanges, ChangesLogged

(***************************************************************************)
(* Columns                                                                 *)
(***************************************************************************)

\* What a request would change in the stored row is what its entry says:
\* against the columns it loaded before its flush, against the row after it.
Explains(entry, old, new) ==
  /\ new.label # old.label => entry.action = "updated"
  /\ new.envs # old.envs => entry.before # entry.after

ChangesExplained ==
  \A s \in Sessions : work[s] # Null =>
    LET w == work[s]
    IN  /\ w.stage = "selected" => Explains(w.entry, w.loaded, w.flag)
        /\ Writing(w) /\ ~Creating(w) =>
             Explains(w.entry, flags[w.key], w.flag)

\* No step, of this or another request, makes a staged entry untrue of the
\* change that its request would commit.
LEMMA ChangesExplainedStep ==
  ASSUME TypeOK, TypeOK', WritersOwnRows, ChangesExplained,
         NEW s \in Sessions, Step(s)
  PROVE  ChangesExplained'
<1> DEFINE Explained(w) ==
      /\ w.stage = "selected" => Explains(w.entry, w.loaded, w.flag)
      /\ Writing(w) /\ ~Creating(w) => Explains(w.entry, flags[w.key], w.flag)
<1>1. ASSUME NEW t \in Sessions \ {s}, work'[t] # Null
      PROVE  Explained(work[t])'
  <2>1. work'[t] = work[t] /\ Explained(work[t])
    BY <1>1, StepEffect DEF ChangesExplained
  <2>2. Writing(work[t]) => flags'[work[t].key] = flags[work[t].key]
    BY WritersRowKept
  <2>3. QED
    BY <2>1, <2>2 DEF Explains, Writing, Creating, Deleting
<1>2. ASSUME work'[s] # Null
      PROVE  Explained(work[s])'
  <2>1. CASE Flush(s)
    <3> DEFINE w == work[s]
    <3>1. /\ w \in Work /\ w # Null
          /\ w.stage = "selected"
          /\ ~RowGone(w)
          /\ flags' = flags
          /\ work'[s] = [w EXCEPT !.stage = "flushed", !.flag = Written(w),
                                  !.loaded = ColumnsOf(Written(w))]
      BY <2>1 DEF Flush, TypeOK
    <3>2. Explains(w.entry, w.loaded, w.flag)
      BY <3>1 DEF ChangesExplained
    <3>3. /\ work'[s].stage = "flushed" /\ work'[s].key = w.key
          /\ work'[s].entry = w.entry /\ work'[s].flag = Written(w)
      BY <3>1 DEF Work
    <3>4. ASSUME ~Creating(w)
          PROVE  Explains(w.entry, flags[w.key], Written(w))
      <4>1. w.flag \in Flag
        BY <3>1 DEF Work
      <4>2. /\ Written(w).label = IF w.flag.label = w.loaded.label
                                    THEN flags[w.key].label ELSE w.flag.label
            /\ Written(w).envs = IF w.flag.envs = w.loaded.envs
                                   THEN flags[w.key].envs ELSE w.flag.envs
        BY <3>4, <4>1 DEF Written, Flag
      <4>3. QED
        BY <3>2, <4>2 DEF Explains
    <3>5. QED
      BY <3>1, <3>3, <3>4 DEF Creating
  <2>2. ASSUME NEW outcome \in {"announced", "unannounced"}, Publish(s, outcome)
        PROVE  Explained(work[s])'
    <3> DEFINE w == work[s]
    <3>1. /\ w \in Work /\ w # Null
          /\ w.stage = IF Deleting(w) THEN "selected" ELSE "flushed"
          /\ flags' = flags
          /\ work'[s] = [w EXCEPT !.stage = outcome]
      BY <2>2 DEF Publish, TypeOK
    <3>2. /\ work'[s].stage = outcome /\ work'[s].key = w.key
          /\ work'[s].entry = w.entry /\ work'[s].flag = w.flag
      BY <3>1 DEF Work
    <3>3. ~Deleting(w) => Writing(w)
      BY <3>1 DEF Writing
    <3>4. QED
      BY <3>1, <3>2, <3>3
         DEF ChangesExplained, Explains, Writing, Creating, Deleting
  <2>3. CASE Handle(s)
    BY <1>2, <2>3, HandleEffect
       DEF Finish, Started, TypeOK, Explains, Writing
  <2>4. CASE FlushFails(s) \/ CommitDeleteFails(s) \/ Abort(s)
    BY <1>2, <2>4 DEF FlushFails, CommitDeleteFails, Abort, Finish, TypeOK
  <2>5. CASE \E acked \in BOOLEAN : Commit(s, acked) \/ CommitDelete(s, acked)
    BY <1>2, <2>5 DEF Commit, CommitDelete, Finish, TypeOK
  <2>6. QED
    BY <2>1, <2>2, <2>3, <2>4, <2>5 DEF Step, Advance
<1>3. QED
  BY <1>1, <1>2 DEF ChangesExplained

\* The step form of ColumnsKept.
OwnColumnsWritten ==
  \A k \in Keys : SameRow(k) =>
    /\ flags'[k].label # flags[k].label =>
         LastEntry(flags[k].id)'.action = "updated"
    /\ flags'[k].envs # flags[k].envs =>
         LastEntry(flags[k].id)'.before # LastEntry(flags[k].id)'.after

\* A request never writes back a column it only read: what differs from the
\* row it replaces is what its audit entry says it changed.
THEOREM ColumnsWrittenOnce == Spec => ColumnsKept
<1>1. Init => ChangesExplained
  BY DEF Init, ChangesExplained
<1>2. /\ TypeOK /\ TypeOK' /\ WritersOwnRows /\ ChangesExplained
      /\ [Next]_vars
      => ChangesExplained'
  <2>1. /\ TypeOK /\ TypeOK' /\ WritersOwnRows /\ ChangesExplained /\ Next
        => ChangesExplained'
    BY ChangesExplainedStep DEF Next, Step
  <2>2. ChangesExplained /\ UNCHANGED vars => ChangesExplained'
    BY DEF ChangesExplained, Explains, Writing, Creating, Deleting, vars
  <2>3. QED
    BY <2>1, <2>2
<1>3. /\ TypeOK /\ WritersOwnRows /\ ChangesExplained /\ [Next]_vars
      => OwnColumnsWritten \/ UNCHANGED vars
  <2> SUFFICES ASSUME TypeOK, WritersOwnRows, ChangesExplained,
                      NEW s \in Sessions, Step(s),
                      NEW k \in Keys, SameRow(k), flags'[k] # flags[k]
               PROVE  /\ flags'[k].label # flags[k].label =>
                           LastEntry(flags[k].id)'.action = "updated"
                      /\ flags'[k].envs # flags[k].envs =>
                           LastEntry(flags[k].id)'.before
                             # LastEntry(flags[k].id)'.after
    BY DEF OwnColumnsWritten, Next, Step
  <2> DEFINE w == work[s]
  <2>1. PICK acked \in BOOLEAN : Commit(s, acked)
    BY StepEffect DEF CommitDelete, TypeOK, SameRow
  <2>2. /\ Writing(w) /\ w # Null
        /\ k = w.key
        /\ flags'[k] = w.flag
        /\ Log(w)
    BY <2>1 DEF Commit, Published, Writing, TypeOK
  <2>3. ~Creating(w)
    BY <2>2 DEF WritersOwnRows, SameRow
  <2>4. Explains(w.entry, flags[k], flags'[k])
    BY <2>2, <2>3 DEF ChangesExplained
  <2>5. PICK i \in FlagIds : i = w.flag.id
    BY <2>2 DEF TypeOK, Work, Flag
  <2>6. LastEntry(i)' = w.entry
    BY <2>2, <2>5, LogEffect
  <2>7. LastEntry(flags[k].id)' = w.entry
    BY <2>2, <2>5, <2>6 DEF LastEntry
  <2>8. QED
    BY <2>4, <2>7 DEF Explains
<1>4. QED
  BY <1>1, <1>2, <1>3, RowsOwned, TypeCorrect, PTL
     DEF Spec, ColumnsKept, OwnColumnsWritten

=============================================================================
