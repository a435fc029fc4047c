------------------------------ MODULE FlagStore ------------------------------
(***************************************************************************)
(* The write API of the feature-flag service: the routes of                *)
(* src/api/v1/flags.py and src/api/v1/environments.py that change a flag,  *)
(* each running in a database session of its own (src/api/deps.py), over   *)
(* the tables flags and audit_logs.                                        *)
(*                                                                         *)
(* A request is a coroutine of some replica.  It reads the flag, changes   *)
(* the object in memory and stages an audit entry up to its next await     *)
(* (the handler actions), writes both to the database (Flush), announces   *)
(* the change on Redis (Publish) and only then, when FastAPI closes the    *)
(* dependency, commits (Commit, CommitDelete).  Requests of one or several *)
(* replicas interleave at these points.  The database is PostgreSQL at     *)
(* READ COMMITTED: a SELECT sees committed rows and an INSERT or UPDATE    *)
(* holds its row from the flush to the end of the transaction.             *)
(*                                                                         *)
(* Abstractions.  name, description and default_value are one label;       *)
(* override and rollout_percentage, which no route of this module treats   *)
(* apart from the rest of the environments column, are left out; the rules *)
(* of an environment are the set of its rules.  An audit entry keeps the   *)
(* environments of its before and after.                                   *)
(***************************************************************************)
EXTENDS Naturals, Sequences

CONSTANTS
  Keys,          \* flag keys
  FlagIds,       \* the UUIDs flags.id is drawn from
  Labels,        \* contents of name, description and default_value
  Envs,          \* environment names
  RuleIds,       \* rule ids
  Bodies,        \* contents of a rule besides its id
  Configs,       \* the environments a POST or a PATCH body may carry
  Sessions,      \* concurrent requests
  Seed,          \* the table flags at the start, by key
  JsonDefault,   \* the engine's JSON serializer accepts UUIDs and datetimes
  ForeignKeys,   \* the database enforces audit_logs.flag_id
  MaxRequests,   \* bound on the number of requests
  Null

Rule == [id : RuleIds, body : Bodies]
EnvConfig == [enabled : BOOLEAN, rules : SUBSET Rule]
EnvMap == [Envs -> EnvConfig \cup {Null}]      \* Null: not configured
Flag == [id : FlagIds, label : Labels, envs : EnvMap, version : Nat]
Columns == [label : Labels, envs : EnvMap]

AuditActions == {"created", "updated", "enabled", "disabled", "rule_added",
                 "rule_updated", "rule_deleted", "deleted"}
Entry == [action : AuditActions,
          before : EnvMap \cup {Null}, after : EnvMap \cup {Null}]

\* A request in flight: where it is, the flag object its session holds, the
\* column values that session believes are in the database, the staged entry.
Stages == {"selected", "flushed", "announced", "unannounced"}
Work == [stage : Stages, key : Keys, flag : Flag,
         loaded : Columns, entry : Entry]
Reply == [status : {200, 201, 204, 404, 409, 500}, flag : Flag \cup {Null}]

ASSUME DeploymentAssumption ==
  /\ JsonDefault \in BOOLEAN
  /\ ForeignKeys \in BOOLEAN
  /\ MaxRequests \in Nat
  /\ Configs \subseteq EnvMap

ASSUME NullAssumption == Null \notin Flag \cup Work

\* Rows written by hand or by an earlier release: version 1, distinct ids.
ASSUME SeedAssumption ==
  /\ Seed \in [Keys -> Flag \cup {Null}]
  /\ \A k \in Keys : Seed[k] # Null => Seed[k].version = 1
  /\ \A j, k \in Keys :
       Seed[j] # Null /\ Seed[k] # Null /\ Seed[j].id = Seed[k].id => j = k

VARIABLES
  flags,     \* committed rows of the table flags, by key
  audit,     \* committed rows of the table audit_logs, by flag_id
  work,      \* each session's request in flight, or Null
  reply,     \* the answer to each session's last request, or Null
  accepted   \* how many requests were accepted so far

vars == <<flags, audit, work, reply, accepted>>

TypeOK ==
  /\ flags \in [Keys -> Flag \cup {Null}]
  /\ audit \in [FlagIds -> Seq(Entry)]
  /\ work \in [Sessions -> Work \cup {Null}]
  /\ reply \in [Sessions -> Reply \cup {Null}]
  /\ accepted \in Nat

Init ==
  /\ flags = Seed
  /\ audit = [i \in FlagIds |-> <<>>]
  /\ work = [s \in Sessions |-> Null]
  /\ reply = [s \in Sessions |-> Null]
  /\ accepted = 0

(***************************************************************************)
(* Handlers: from the SELECT to the first await after it.                  *)
(***************************************************************************)
Accept(s) ==
  /\ work[s] = Null
  /\ accepted < MaxRequests
  /\ accepted' = accepted + 1
  /\ UNCHANGED <<flags, audit>>

Finish(s, answer) ==
  /\ work' = [work EXCEPT ![s] = Null]
  /\ reply' = [reply EXCEPT ![s] = answer]

Answer(status, flag) == [status |-> status, flag |-> flag]

\* The session holds flag and will write what differs from loaded.
Begin(s, k, flag, loaded, entry) ==
  /\ work' = [work EXCEPT ![s] =
                [stage |-> "selected", key |-> k, flag |-> flag,
                 loaded |-> loaded, entry |-> entry]]
  /\ reply' = [reply EXCEPT ![s] = Null]

AuditEntry(action, before, after) ==
  [action |-> action, before |-> before, after |-> after]

ColumnsOf(flag) == [label |-> flag.label, envs |-> flag.envs]

\* uuid4: an id no row, no audit entry and no request has.
Unused(i) ==
  /\ audit[i] = <<>>
  /\ \A k \in Keys : flags[k] # Null => flags[k].id # i
  /\ \A s \in Sessions : work[s] # Null => work[s].flag.id # i

CreateFlag(s, k, label, envs) ==
  /\ Accept(s)
  /\ flags[k] = Null
  /\ \E i \in FlagIds :
       /\ Unused(i)
       /\ LET flag == [id |-> i, label |-> label, envs |-> envs,
                       version |-> 1]
          IN  Begin(s, k, flag, ColumnsOf(flag),
                    AuditEntry("created", Null, envs))

CreateConflict(s, k) ==
  /\ Accept(s)
  /\ flags[k] # Null
  /\ Finish(s, Answer(409, Null))

NotFound(s, k) ==
  /\ Accept(s)
  /\ flags[k] = Null
  /\ Finish(s, Answer(404, Null))

\* PATCH: Null stands for a field the body leaves out.
UpdateFlag(s, k, label, envs) ==
  /\ Accept(s)
  /\ flags[k] # Null
  /\ label # Null \/ envs # Null
  /\ LET new == [flags[k] EXCEPT
                   !.label = IF label = Null THEN @ ELSE label,
                   !.envs = IF envs = Null THEN @ ELSE envs,
                   !.version = @ + 1]
     IN  Begin(s, k, new, ColumnsOf(flags[k]),
               AuditEntry("updated", flags[k].envs, new.envs))

DeleteFlag(s, k) ==
  /\ Accept(s)
  /\ flags[k] # Null
  /\ Begin(s, k, flags[k], ColumnsOf(flags[k]),
           AuditEntry("deleted", flags[k].envs, Null))

\* Mutant: the entry's before is taken after the change.
SetEnvironmentsLateBefore(s, k, action, before, after) ==
  Begin(s, k,
        [flags[k] EXCEPT !.envs = after, !.version = @ + 1],
        [label |-> flags[k].label, envs |-> before],
        AuditEntry(action, after, after))

\* flag.environments := after, when the dictionary the session loaded reads
\* before by then: the audit entry and the session see the same objects.
SetEnvironments(s, k, action, before, after) ==
  Begin(s, k,
        [flags[k] EXCEPT !.envs = after, !.version = @ + 1],
        [label |-> flags[k].label, envs |-> before],
        AuditEntry(action, before, after))

\* Mutant: an environment configured on demand has no rules.
NewConfigWithoutRules == [enabled |-> FALSE]

NewConfig == [enabled |-> FALSE, rules |-> {}]

\* A copy of the environments in which e is a new dictionary.
SetEnabled(s, k, e, action, value) ==
  /\ Accept(s)
  /\ flags[k] # Null
  /\ LET envs == flags[k].envs
         config == IF envs[e] = Null THEN NewConfig ELSE envs[e]
     IN  SetEnvironments(s, k, action, envs,
           [envs EXCEPT ![e] = [config EXCEPT !.enabled = value]])

EnableFlag(s, k, e) == SetEnabled(s, k, e, "enabled", TRUE)
DisableFlag(s, k, e) == SetEnabled(s, k, e, "disabled", FALSE)

\* dict(flag.environments) copies one level: the rules of a configured
\* environment are replaced in the dictionary the session loaded as well.
SetRules(s, k, e, action, rules) ==
  LET after == [flags[k].envs EXCEPT ![e] = [@ EXCEPT !.rules = rules]]
  IN  SetEnvironments(s, k, action, after, after)

AddRule(s, k, e, rule) ==
  /\ Accept(s)
  /\ flags[k] # Null
  /\ LET envs == flags[k].envs
     IN  IF envs[e] = Null
           THEN SetEnvironments(s, k, "rule_added", envs,
                  [envs EXCEPT ![e] = [NewConfig EXCEPT !.rules = {rule}]])
           ELSE SetRules(s, k, e, "rule_added", envs[e].rules \cup {rule})

HasRule(k, e, i) ==
  /\ flags[k].envs[e] # Null
  /\ \E r \in flags[k].envs[e].rules : r.id = i

RuleNotFound(s, k, e, i) ==
  /\ Accept(s)
  /\ flags[k] # Null
  /\ ~HasRule(k, e, i)
  /\ Finish(s, Answer(404, Null))

UpdateRule(s, k, e, i, rule) ==
  /\ Accept(s)
  /\ flags[k] # Null
  /\ HasRule(k, e, i)
  /\ SetRules(s, k, e, "rule_updated",
       {IF r.id = i THEN rule ELSE r : r \in flags[k].envs[e].rules})

DeleteRule(s, k, e, i) ==
  /\ Accept(s)
  /\ flags[k] # Null
  /\ flags[k].envs[e] # Null
  /\ SetRules(s, k, e, "rule_deleted",
       {r \in flags[k].envs[e].rules : r.id # i})

Handle(s) ==
  \E k \in Keys :
    \/ \E label \in Labels, envs \in Configs : CreateFlag(s, k, label, envs)
    \/ CreateConflict(s, k)
    \/ NotFound(s, k)
    \/ \E label \in Labels \cup {Null}, envs \in Configs \cup {Null} :
         UpdateFlag(s, k, label, envs)
    \/ DeleteFlag(s, k)
    \/ \E e \in Envs :
         \/ EnableFlag(s, k, e)
         \/ DisableFlag(s, k, e)
         \/ \E rule \in Rule : AddRule(s, k, e, rule)
         \/ \E i \in RuleIds :
              \/ RuleNotFound(s, k, e, i)
              \/ \E rule \in Rule : UpdateRule(s, k, e, i, rule)
              \/ DeleteRule(s, k, e, i)

(***************************************************************************)
(* The transaction: flush, publish, commit.                                *)
(***************************************************************************)
Creating(w) == w.entry.action = "created"
Deleting(w) == w.entry.action = "deleted"

\* _flag_to_dict puts a UUID and datetimes in the entry's JSONB column.
Serializable(w) ==
  JsonDefault \/ w.entry.action \notin {"created", "updated", "deleted"}

\* w has written its row and not ended: it holds the row's lock.
Writing(w) == w # Null /\ w.stage # "selected" /\ ~Deleting(w)

\* The row, or the unique key, that w needs is held by another transaction.
Blocked(s) ==
  \E t \in Sessions \ {s} :
    /\ Writing(work[t])
    /\ \/ work[t].flag.id = work[s].flag.id
       \/ Creating(work[t]) /\ Creating(work[s]) /\ work[t].key = work[s].key

\* Mutant: flags.key is not unique.
DuplicateKeyAllowed(w) == Creating(w) /\ FALSE

DuplicateKey(w) == Creating(w) /\ flags[w.key] # Null

Stored(w) == flags[w.key] # Null /\ flags[w.key].id = w.flag.id

\* UPDATE ... WHERE id matches no row: StaleDataError.
RowGone(w) == ~Creating(w) /\ ~Stored(w)

\* The UPDATE sets the version and the columns that differ from loaded.
Written(w) ==
  IF Creating(w) THEN w.flag
  ELSE LET row == flags[w.key]
       IN  [w.flag EXCEPT
              !.label = IF @ = w.loaded.label THEN row.label ELSE @,
              !.envs = IF @ = w.loaded.envs THEN row.envs ELSE @]

\* session.flush() and session.refresh(flag)
Flush(s) ==
  LET w == work[s]
  IN  /\ w # Null
      /\ w.stage = "selected"
      /\ ~Deleting(w)
      /\ Serializable(w)
      /\ ~Blocked(s)
      /\ ~DuplicateKey(w)
      /\ ~RowGone(w)
      /\ work' = [work EXCEPT ![s] =
                    [w EXCEPT !.stage = "flushed", !.flag = Written(w),
                              !.loaded = ColumnsOf(Written(w))]]
      /\ UNCHANGED <<flags, audit, reply, accepted>>

\* Mutant: errors of the INSERT and the UPDATE end no transaction.
FlushFailsUnhandled(s) ==
  LET w == work[s]
  IN  /\ w # Null
      /\ w.stage = "selected"
      /\ ~Deleting(w)
      /\ ~Serializable(w)
      /\ Finish(s, Answer(500, Null))
      /\ UNCHANGED <<flags, audit, accepted>>

\* Nothing relates the two models, so the ORM may insert a new flag's audit
\* entry before the flag; an enforced foreign key then refuses it.
FlushFails(s) ==
  LET w == work[s]
  IN  /\ w # Null
      /\ w.stage = "selected"
      /\ ~Deleting(w)
      /\ \/ ~Serializable(w)
         \/ Creating(w) /\ ForeignKeys
         \/ ~Blocked(s) /\ (DuplicateKey(w) \/ RowGone(w))
      /\ Finish(s, Answer(500, Null))
      /\ UNCHANGED <<flags, audit, accepted>>

\* A failed PUBLISH is swallowed.
Publish(s, outcome) ==
  LET w == work[s]
  IN  /\ w # Null
      /\ w.stage = IF Deleting(w) THEN "selected" ELSE "flushed"
      /\ work' = [work EXCEPT ![s].stage = outcome]
      /\ UNCHANGED <<flags, audit, reply, accepted>>

Published(w) == w # Null /\ w.stage \in {"announced", "unannounced"}

\* Mutant: the entry is left to a transaction of its own.
LogLater(w) == w # Null /\ UNCHANGED audit

Log(w) == audit' = [audit EXCEPT ![w.flag.id] = Append(@, w.entry)]

\* acked: the process outlives the COMMIT and the client gets the answer.
Commit(s, acked) ==
  LET w == work[s]
  IN  /\ Published(w)
      /\ ~Deleting(w)
      /\ flags' = [flags EXCEPT ![w.key] = w.flag]
      /\ Log(w)
      /\ Finish(s, IF acked
                     THEN Answer(IF Creating(w) THEN 201 ELSE 200, w.flag)
                     ELSE Null)
      /\ UNCHANGED accepted

\* Mutant: only entries of earlier transactions protect the row.
RestrictedByEarlier(w) == ForeignKeys /\ audit[w.flag.id] # <<>>

\* ON DELETE RESTRICT: the entry just inserted protects the row.
Restricted(w) == w # Null /\ ForeignKeys

\* DELETE flushes in the commit; a row that is already gone is no error.
CommitDelete(s, acked) ==
  LET w == work[s]
  IN  /\ Published(w)
      /\ Deleting(w)
      /\ Serializable(w)
      /\ ~Restricted(w)
      /\ ~Blocked(s)
      /\ flags' = [flags EXCEPT ![w.key] = IF RowGone(w) THEN @ ELSE Null]
      /\ Log(w)
      /\ Finish(s, IF acked THEN Answer(204, Null) ELSE Null)
      /\ UNCHANGED accepted

CommitDeleteFails(s) ==
  LET w == work[s]
  IN  /\ Published(w)
      /\ Deleting(w)
      /\ ~Serializable(w) \/ (Restricted(w) /\ ~Blocked(s))
      /\ Finish(s, Answer(500, Null))
      /\ UNCHANGED <<flags, audit, accepted>>

\* The process dies or loses its connection: the database rolls back.
Abort(s) ==
  /\ work[s] # Null
  /\ Finish(s, Null)
  /\ UNCHANGED <<flags, audit, accepted>>

Advance(s) ==
  \/ Flush(s)
  \/ FlushFails(s)
  \/ \E outcome \in {"announced", "unannounced"} : Publish(s, outcome)
  \/ \E acked \in BOOLEAN : Commit(s, acked) \/ CommitDelete(s, acked)
  \/ CommitDeleteFails(s)

Next == \E s \in Sessions : Handle(s) \/ Advance(s) \/ Abort(s)

Spec == Init /\ [][Next]_vars

\* A handler that was started is run to its end by the event loop, and a
\* lock wait ends with the transaction that holds the row.
FairSpec == Spec /\ \A s \in Sessions : WF_vars(Advance(s))

(***************************************************************************)
(* Properties                                                              *)
(***************************************************************************)

\* audit_logs.flag_id RESTRICT "protects the history": while the database
\* enforces it, every audit entry belongs to a flag that is still stored,
\* whatever creates, changes and deletes race with each other.
HistoryProtected ==
  ForeignKeys =>
    \A i \in FlagIds :
      audit[i] # <<>> => \E k \in Keys : flags[k] # Null /\ flags[k].id = i

\* A request that has written to the database owns what it wrote until it
\* ends: the row it updated is still stored under its id, the key it inserted
\* is still free, and no other request has written the same row or key.
\* This is what lets Commit put its row without looking again.
WritersOwnRows ==
  \A s \in Sessions : Writing(work[s]) =>
    /\ IF Creating(work[s]) THEN flags[work[s].key] = Null
                            ELSE Stored(work[s])
    /\ \A t \in Sessions \ {s} : Writing(work[t]) =>
         /\ work[t].flag.id # work[s].flag.id
         /\ Creating(work[s]) /\ Creating(work[t]) =>
              work[s].key # work[t].key

SeedVersion(i) ==
  IF \E k \in Keys : Seed[k] # Null /\ Seed[k].id = i THEN 1 ELSE 0

\* flag.version += 1 in memory never counts a change that the audit log does
\* not have: changes that raced, were rolled back or lost their process leave
\* no gap in the version.
VersionBounded ==
  \A k \in Keys : flags[k] # Null =>
    flags[k].version <= Len(audit[flags[k].id]) + SeedVersion(flags[k].id)

\* A stored flag is never replaced by another with its key (two POSTs that
\* both found the key free), and a deleted one never comes back through a
\* request that read it before (the UPDATE matches no row).
RowIdentity ==
  [][\A k \in Keys : flags'[k] # Null =>
       IF flags[k] # Null THEN flags'[k].id = flags[k].id
                          ELSE audit[flags'[k].id] = <<>>]_vars

LastEntry(i) == audit[i][Len(audit[i])]

\* "Every endpoint that changes a flag inserts an entry in the same
\* transaction": the log only grows, and a row changes exactly in the steps
\* that append to the log of that row.
AuditedChanges ==
  [][/\ \A i \in FlagIds :
          audit'[i] # audit[i] =>
            audit'[i] = Append(audit[i], LastEntry(i)')
     /\ \A k \in Keys : flags'[k] # flags[k] =>
          LET row == IF flags[k] = Null THEN flags'[k] ELSE flags[k]
          IN  audit'[row.id] # audit[row.id]]_vars

SameRow(k) ==
  flags[k] # Null /\ flags'[k] # Null /\ flags'[k].id = flags[k].id

\* A request rewrites only the columns it changed: an enable that read the
\* flag before a PATCH committed does not take the PATCH's label back, and a
\* PATCH of the label takes no environment back.
ColumnsKept ==
  [][\A k \in Keys : SameRow(k) =>
       /\ flags'[k].label # flags[k].label =>
            LastEntry(flags[k].id)'.action = "updated"
       /\ flags'[k].envs # flags[k].envs =>
            LastEntry(flags[k].id)'.before # LastEntry(flags[k].id)'.after]_vars

\* Every accepted request ends: no two transactions wait for each other, and
\* no failure leaves a handler without an answer.
Answered == \A s \in Sessions : work[s] # Null ~> work[s] = Null

On(envs, e) == envs[e] # Null /\ envs[e].enabled

\* The audit entry of a change is its diff: an environment is switched on or
\* off only by a request whose entry shows that switch.
TogglesAudited ==
  [][\A k \in Keys, e \in Envs :
       SameRow(k) /\ On(flags'[k].envs, e) # On(flags[k].envs, e) =>
         LET entry == LastEntry(flags[k].id)'
         IN  On(entry.before, e) # On(entry.after, e)]_vars

=============================================================================
