------------------------- MODULE FlagPlatformProofs -------------------------
(***************************************************************************)
(* The service as a whole, for any number of sessions, replicas, boots and *)
(* outages: requests behave as FlagStore says, caches as SnapshotCache     *)
(* says, and an outdated flag is always explained.                         *)
(***************************************************************************)
EXTENDS FlagPlatform, SequenceTheorems, TLAPS

\* FlagStore with its theorems.
Writer == INSTANCE FlagStoreProofs

LEMMA WriterAssumptions ==
  Writer!DeploymentAssumption /\ Writer!NullAssumption /\ Writer!SeedAssumption
BY PlatformAssumption
   DEF Writer!DeploymentAssumption, Writer!NullAssumption, Writer!SeedAssumption,
       Store!DeploymentAssumption, Store!NullAssumption, Store!SeedAssumption,
       Writer!Flag, Store!Flag, Writer!Work, Store!Work, Writer!Stages, Store!Stages,
       Writer!Columns, Store!Columns, Writer!Entry, Store!Entry,
       Writer!AuditActions, Store!AuditActions, Writer!EnvMap, Store!EnvMap,
       Writer!EnvConfig, Store!EnvConfig, Writer!Rule, Store!Rule

(***************************************************************************)
(* Requests behave as FlagStore says                                       *)
(***************************************************************************)
LEMMA SameTypes == Store!TypeOK <=> Writer!TypeOK
BY DEF Writer!TypeOK, Store!TypeOK, Writer!Reply, Store!Reply,
       Writer!Flag, Store!Flag, Writer!Work, Store!Work, Writer!Stages, Store!Stages,
       Writer!Columns, Store!Columns, Writer!Entry, Store!Entry,
       Writer!AuditActions, Store!AuditActions, Writer!EnvMap, Store!EnvMap,
       Writer!EnvConfig, Store!EnvConfig, Writer!Rule, Store!Rule

\* The handlers are the same formulas under both names.
LEMMA SameHandlers ==
  ASSUME NEW s
  PROVE  Store!Handle(s) <=> Writer!Handle(s)
BY DEF Store!Handle, Writer!Handle, Store!Accept, Writer!Accept,
       Store!Finish, Writer!Finish, Store!Answer, Writer!Answer,
       Store!Begin, Writer!Begin, Store!AuditEntry, Writer!AuditEntry,
       Store!ColumnsOf, Writer!ColumnsOf, Store!Unused, Writer!Unused,
       Store!CreateFlag, Writer!CreateFlag,
       Store!CreateConflict, Writer!CreateConflict, Store!NotFound, Writer!NotFound,
       Store!UpdateFlag, Writer!UpdateFlag, Store!DeleteFlag, Writer!DeleteFlag,
       Store!SetEnvironments, Writer!SetEnvironments, Store!NewConfig, Writer!NewConfig,
       Store!SetEnabled, Writer!SetEnabled, Store!EnableFlag, Writer!EnableFlag,
       Store!DisableFlag, Writer!DisableFlag, Store!SetRules, Writer!SetRules,
       Store!AddRule, Writer!AddRule, Store!HasRule, Writer!HasRule,
       Store!RuleNotFound, Writer!RuleNotFound, Store!UpdateRule, Writer!UpdateRule,
       Store!DeleteRule, Writer!DeleteRule, Store!Rule, Writer!Rule

\* And so are the steps of a transaction.
LEMMA SameTransactions ==
  ASSUME NEW s
  PROVE  /\ Store!Flush(s) <=> Writer!Flush(s)
         /\ Store!FlushFails(s) <=> Writer!FlushFails(s)
         /\ \A outcome : Store!Publish(s, outcome) <=> Writer!Publish(s, outcome)
         /\ \A acked : Store!Commit(s, acked) <=> Writer!Commit(s, acked)
         /\ \A acked : Store!CommitDelete(s, acked) <=> Writer!CommitDelete(s, acked)
         /\ Store!CommitDeleteFails(s) <=> Writer!CommitDeleteFails(s)
         /\ Store!Abort(s) <=> Writer!Abort(s)
<1> USE DEF Store!Finish, Writer!Finish, Store!Answer, Writer!Answer,
            Store!Creating, Writer!Creating, Store!Deleting, Writer!Deleting,
            Store!Serializable, Writer!Serializable, Store!Writing, Writer!Writing,
            Store!Blocked, Writer!Blocked, Store!DuplicateKey, Writer!DuplicateKey,
            Store!Stored, Writer!Stored, Store!RowGone, Writer!RowGone,
            Store!Written, Writer!Written, Store!ColumnsOf, Writer!ColumnsOf,
            Store!Published, Writer!Published, Store!Log, Writer!Log,
            Store!Restricted, Writer!Restricted
<1>1. Store!Flush(s) <=> Writer!Flush(s)
  BY DEF Store!Flush, Writer!Flush
<1>2. Store!FlushFails(s) <=> Writer!FlushFails(s)
  BY DEF Store!FlushFails, Writer!FlushFails
<1>3. \A outcome : Store!Publish(s, outcome) <=> Writer!Publish(s, outcome)
  BY DEF Store!Publish, Writer!Publish
<1>4. \A acked : Store!Commit(s, acked) <=> Writer!Commit(s, acked)
  BY DEF Store!Commit, Writer!Commit
<1>5. \A acked : Store!CommitDelete(s, acked) <=> Writer!CommitDelete(s, acked)
  BY DEF Store!CommitDelete, Writer!CommitDelete
<1>6. Store!CommitDeleteFails(s) <=> Writer!CommitDeleteFails(s)
  BY DEF Store!CommitDeleteFails, Writer!CommitDeleteFails
<1>7. Store!Abort(s) <=> Writer!Abort(s)
  BY DEF Store!Abort, Writer!Abort
<1> HIDE DEF Store!Finish
<1>8. QED
  BY <1>1, <1>2, <1>3, <1>4, <1>5, <1>6, <1>7

LEMMA SameNext == Store!Next <=> Writer!Next
BY SameHandlers, SameTransactions DEF Store!Next, Writer!Next, Store!Advance, Writer!Advance

\* A step of the platform is a step of the write API or leaves its tables
\* and requests alone.
LEMMA PlatformStep == [Next]_vars => [Store!Next]_(Store!vars)
<1> SUFFICES ASSUME [Next]_vars PROVE [Store!Next]_(Store!vars)
  OBVIOUS
<1>1. ASSUME NEW s \in Sessions, Request(s) \/ Transact(s) \/ Announce(s) \/ AnnounceFails(s)
      PROVE  Store!Next
  BY <1>1 DEF Request, Transact, Announce, AnnounceFails, Store!Next, Store!Advance
<1>2. ASSUME NEW r \in Replicas,
             BootReplica(r) \/ LoseConnection(r) \/ RunReplica(r) \/ StopReplica(r)
      PROVE  UNCHANGED Store!vars
  BY <1>2 DEF BootReplica, LoseConnection, RunReplica, StopReplica, Store!vars,
       Fleet!Boot, Fleet!ConnectionLost, Fleet!WarmUp, Fleet!Subscribe,
       Fleet!SubscribeFails, Fleet!Retry, Fleet!Receive, Fleet!RunHandler,
       Fleet!SetListener, Fleet!Stop
<1>3. CASE Redis
  BY <1>3 DEF Redis, Fleet!RedisDown, Fleet!RedisUp, Store!vars
<1>4. CASE UNCHANGED vars
  BY <1>4 DEF vars, Store!vars
<1>5. QED
  BY <1>1, <1>2, <1>3, <1>4 DEF Next

\* Composed with replicas and Redis, requests do what FlagStore lets them do
\* and nothing else: every theorem about FlagStore holds of the platform.
THEOREM ImplementsFlagStore == Spec => Store!Spec
<1>1. Init => Store!Init
  BY DEF Init
<1>2. QED
  BY <1>1, PlatformStep, PTL DEF Spec, Store!Spec

LEMMA StoreTypes == Spec => []Store!TypeOK
<1>1. Store!Init => Writer!Init
  BY DEF Store!Init, Writer!Init
<1>2. [Store!Next]_(Store!vars) => [Writer!Next]_(Writer!vars)
  BY SameNext DEF Store!vars, Writer!vars
<1>3. Store!Spec => Writer!Spec
  BY <1>1, <1>2, PTL DEF Store!Spec, Writer!Spec
<1>4. Writer!Spec => []Writer!TypeOK
  BY WriterAssumptions, Writer!TypeCorrect, PTL
<1>5. QED
  BY <1>3, <1>4, ImplementsFlagStore, SameTypes, PTL

(***************************************************************************)
(* Queues of messages                                                      *)
(***************************************************************************)
\* Some message of the queue is about the flag.
Names(q, k) == \E i \in DOMAIN q : q[i].key = k

LEMMA NamesConcat ==
  ASSUME NEW S, NEW p \in Seq(S), NEW q \in Seq(S), NEW k
  PROVE  Names(p \o q, k) <=> Names(p, k) \/ Names(q, k)
<1>1. /\ Len(p \o q) = Len(p) + Len(q)
      /\ Len(p) \in Nat /\ Len(q) \in Nat
      /\ DOMAIN p = 1 .. Len(p) /\ DOMAIN q = 1 .. Len(q)
      /\ DOMAIN (p \o q) = 1 .. Len(p \o q)
      /\ \A i \in 1 .. Len(p) + Len(q) :
           (p \o q)[i] = IF i <= Len(p) THEN p[i] ELSE q[i - Len(p)]
  OBVIOUS
<1>2. ASSUME Names(p \o q, k) PROVE Names(p, k) \/ Names(q, k)
  <2>1. PICK i \in 1 .. Len(p) + Len(q) : (p \o q)[i].key = k
    BY <1>1, <1>2 DEF Names
  <2>2. CASE i <= Len(p)
    BY <1>1, <2>1, <2>2 DEF Names
  <2>3. CASE i > Len(p)
    <3>1. i - Len(p) \in DOMAIN q /\ q[i - Len(p)].key = k
      BY <1>1, <2>1, <2>3
    <3>2. QED
      BY <3>1 DEF Names
  <2>4. QED
    BY <1>1, <2>2, <2>3
<1>3. ASSUME Names(p, k) PROVE Names(p \o q, k)
  BY <1>1, <1>3 DEF Names
<1>4. ASSUME Names(q, k) PROVE Names(p \o q, k)
  <2>1. PICK i \in 1 .. Len(q) : q[i].key = k
    BY <1>1, <1>4 DEF Names
  <2>2. i + Len(p) \in DOMAIN (p \o q) /\ (p \o q)[i + Len(p)].key = k
    BY <1>1, <2>1
  <2>3. QED
    BY <2>2 DEF Names
<1>5. QED
  BY <1>2, <1>3, <1>4

LEMMA NamesAppend ==
  ASSUME NEW S, NEW q \in Seq(S), NEW m \in S, NEW k
  PROVE  Names(Append(q, m), k) <=> Names(q, k) \/ m.key = k
<1>1. /\ Len(q) \in Nat /\ DOMAIN q = 1 .. Len(q)
      /\ DOMAIN Append(q, m) = 1 .. Len(q) + 1
      /\ Append(q, m)[Len(q) + 1] = m
      /\ \A i \in 1 .. Len(q) : Append(q, m)[i] = q[i]
  BY AppendProperties
<1>2. \A i \in 1 .. Len(q) + 1 : i \in 1 .. Len(q) \/ i = Len(q) + 1
  BY <1>1
<1>3. QED
  BY <1>1, <1>2 DEF Names

LEMMA NamesHead ==
  ASSUME NEW S, NEW q \in Seq(S), q # << >>, NEW k
  PROVE  Names(q, k) <=> Head(q).key = k \/ Names(Tail(q), k)
<1>1. /\ Len(q) \in Nat \ {0} /\ DOMAIN q = 1 .. Len(q)
      /\ DOMAIN Tail(q) = 1 .. Len(q) - 1
      /\ Head(q) = q[1]
      /\ \A i \in 1 .. Len(q) - 1 : Tail(q)[i] = q[i + 1]
  BY HeadTailProperties
<1>2. ASSUME Names(q, k) PROVE Head(q).key = k \/ Names(Tail(q), k)
  <2>1. PICK i \in 1 .. Len(q) : q[i].key = k
    BY <1>1, <1>2 DEF Names
  <2>2. CASE i # 1
    <3>1. i - 1 \in DOMAIN Tail(q) /\ Tail(q)[i - 1].key = k
      BY <1>1, <2>1, <2>2
    <3>2. QED
      BY <3>1 DEF Names
  <2>3. QED
    BY <1>1, <2>1, <2>2
<1>3. ASSUME Names(Tail(q), k) PROVE Names(q, k)
  <2>1. PICK i \in 1 .. Len(q) - 1 : Tail(q)[i].key = k
    BY <1>1, <1>3 DEF Names
  <2>2. i + 1 \in DOMAIN q /\ q[i + 1].key = k
    BY <1>1, <2>1
  <2>3. QED
    BY <2>2 DEF Names
<1>4. Head(q).key = k => Names(q, k)
  BY <1>1 DEF Names
<1>5. QED
  BY <1>2, <1>3, <1>4

(***************************************************************************)
(* Type correctness                                                        *)
(***************************************************************************)
\* What a request announces is a message.
LEMMA MessageType ==
  ASSUME Store!TypeOK, NEW s \in Sessions, work[s] # Null
  PROVE  MessageOf(work[s]) \in Fleet!Message /\ MessageOf(work[s]).key = work[s].key
BY DEF MessageOf, Fleet!Message, Store!TypeOK, Store!Work, Store!Flag, Store!Deleting

\* A step of one replica leaves the others alone and keeps the types.
LEMMA ReplicaStepTypes ==
  ASSUME TypeOK, NEW r \in Replicas,
         BootReplica(r) \/ LoseConnection(r) \/ RunReplica(r) \/ StopReplica(r)
  PROVE  /\ replica' \in [Replicas -> Fleet!Replica]
         /\ \A q \in Replicas \ {r} : replica'[q] = replica[q]
<1> USE DEF TypeOK, Fleet!ReplicaTypeOK
<1>0. replica[r] \in Fleet!Replica
  OBVIOUS
<1>1. CASE BootReplica(r)
  <2>1. flags \in Fleet!Snapshot
    BY DEF Store!TypeOK, Fleet!Snapshot
  <2>2. QED
    BY <1>1, <2>1, ZenonT(60) DEF BootReplica, Fleet!Boot, Fleet!Replica
<1>2. CASE LoseConnection(r)
  <2>1. << >> \in Seq(Fleet!Message)
    OBVIOUS
  <2>2. QED
    BY <1>0, <1>2, <2>1 DEF LoseConnection, Fleet!ConnectionLost, Fleet!Replica
<1>3. CASE StopReplica(r)
  BY <1>3 DEF StopReplica, Fleet!Stop, Fleet!Stopped, Fleet!Replica, Fleet!Snapshot, Fleet!Empty
<1>4. CASE Fleet!WarmUp(r)
  BY <1>4, ZenonT(60) DEF Fleet!WarmUp, Fleet!Replica
<1>5. CASE Fleet!Subscribe(r) \/ Fleet!SubscribeFails(r) \/ Fleet!Retry(r)
  <2>1. PICK state \in {"connecting", "subscribed", "backoff"} : Fleet!SetListener(r, state)
    BY <1>5 DEF Fleet!Subscribe, Fleet!SubscribeFails, Fleet!Retry
  <2>2. QED
    BY <1>0, <2>1 DEF Fleet!SetListener, Fleet!Replica
<1>6. CASE Fleet!Receive(r)
  <2>1. /\ Head(replica[r].inbox) \in Fleet!Message
        /\ Tail(replica[r].inbox) \in Seq(Fleet!Message)
    BY <1>0, <1>6, HeadTailProperties DEF Fleet!Receive, Fleet!Replica
  <2>2. Append(replica[r].tasks, Head(replica[r].inbox)) \in Seq(Fleet!Message)
    BY <1>0, <2>1, AppendProperties DEF Fleet!Replica
  <2>3. QED
    BY <1>0, <1>6, <2>1, <2>2 DEF Fleet!Receive, Fleet!Replica
<1>7. CASE Fleet!RunHandler(r)
  <2>1. /\ Head(replica[r].tasks) \in Fleet!Message
        /\ Tail(replica[r].tasks) \in Seq(Fleet!Message)
    BY <1>0, <1>7, HeadTailProperties DEF Fleet!RunHandler, Fleet!Replica
  <2>2. Fleet!Invalidate(replica[r].cache, Head(replica[r].tasks)) \in Fleet!Snapshot
    BY <1>0, <2>1 DEF Fleet!Invalidate, Fleet!Replica, Fleet!Snapshot
  <2>3. QED
    BY <1>0, <1>7, <2>1, <2>2 DEF Fleet!RunHandler, Fleet!Replica
<1>8. QED
  BY <1>1, <1>2, <1>3, <1>4, <1>5, <1>6, <1>7 DEF RunReplica

\* A PUBLISH appends to the inboxes of subscribers.
LEMMA AnnounceTypes ==
  ASSUME TypeOK, NEW s \in Sessions, Announce(s)
  PROVE  replica' \in [Replicas -> Fleet!Replica]
<1> USE DEF TypeOK, Fleet!ReplicaTypeOK
<1> DEFINE m == MessageOf(work[s])
<1>1. m \in Fleet!Message
  BY MessageType DEF Announce, Store!Publish
<1>2. Fleet!Broadcast(m)
  BY DEF Announce
<1> HIDE DEF m
<1>3. ASSUME NEW r \in Replicas
      PROVE  [replica[r] EXCEPT !.inbox = Append(@, m)] \in Fleet!Replica
  <2>1. Append(replica[r].inbox, m) \in Seq(Fleet!Message)
    BY <1>1, AppendProperties DEF Fleet!Replica
  <2>2. QED
    BY <2>1 DEF Fleet!Replica
<1>4. QED
  BY <1>2, <1>3 DEF Fleet!Broadcast

\* An outage breaks their connections.
LEMMA RedisTypes ==
  ASSUME TypeOK, Redis
  PROVE  replica' \in [Replicas -> Fleet!Replica]
<1> USE DEF TypeOK, Fleet!ReplicaTypeOK
<1>1. ASSUME NEW r \in Replicas
      PROVE  [replica[r] EXCEPT !.listener = "broken"] \in Fleet!Replica
  BY DEF Fleet!Replica
<1>2. QED
  BY <1>1 DEF Redis, Fleet!RedisDown, Fleet!RedisUp

LEMMA MissedTypes ==
  ASSUME TypeOK, Next
  PROVE  missed' \in [Replicas -> SUBSET Keys]
<1> USE DEF TypeOK
<1>1. \A s \in Sessions : work[s] # Null => work[s].key \in Keys
  BY DEF Store!TypeOK, Store!Work
<1>2. ASSUME NEW s \in Sessions, Announce(s) \/ AnnounceFails(s)
      PROVE  missed' \in [Replicas -> SUBSET Keys]
  BY <1>1, <1>2 DEF Announce, AnnounceFails, Store!Publish
<1>3. ASSUME NEW r \in Replicas, BootReplica(r)
      PROVE  missed' \in [Replicas -> SUBSET Keys]
  BY <1>1, <1>3 DEF BootReplica, Store!Published
<1>4. ASSUME NEW r \in Replicas, LoseConnection(r)
      PROVE  missed' \in [Replicas -> SUBSET Keys]
  <2>1. \A i \in DOMAIN replica[r].inbox : replica[r].inbox[i].key \in Keys
    <3>1. replica[r].inbox \in Seq(Fleet!Message)
      BY DEF Fleet!ReplicaTypeOK, Fleet!Replica
    <3>2. \A i \in DOMAIN replica[r].inbox : replica[r].inbox[i] \in Fleet!Message
      BY <3>1
    <3>3. QED
      BY <3>2 DEF Fleet!Message
  <2>2. QED
    BY <1>4, <2>1 DEF LoseConnection
<1>5. QED
  BY <1>2, <1>3, <1>4 DEF Next, Request, Transact, RunReplica, StopReplica, Redis

LEMMA FleetTypes ==
  ASSUME TypeOK, Next
  PROVE  Fleet!ReplicaTypeOK'
<1>1. replica' \in [Replicas -> Fleet!Replica]
  <2>1. ASSUME NEW s \in Sessions, Request(s) \/ Transact(s) \/ AnnounceFails(s)
        PROVE  replica' = replica
    BY <2>1 DEF Request, Transact, AnnounceFails
  <2>2. replica \in [Replicas -> Fleet!Replica]
    BY DEF TypeOK, Fleet!ReplicaTypeOK
  <2>3. QED
    BY <2>1, <2>2, AnnounceTypes, RedisTypes, ReplicaStepTypes DEF Next
<1>2. redisUp' \in BOOLEAN /\ boots' \in Nat /\ outages' \in Nat
  <2> USE DEF TypeOK, Fleet!ReplicaTypeOK
  <2>1. ASSUME NEW s \in Sessions,
               Request(s) \/ Transact(s) \/ Announce(s) \/ AnnounceFails(s)
        PROVE  UNCHANGED <<redisUp, boots, outages>>
    BY <2>1 DEF Request, Transact, Announce, AnnounceFails
  <2>2. ASSUME NEW r \in Replicas, BootReplica(r) \/ LoseConnection(r) \/ StopReplica(r)
        PROVE  UNCHANGED <<redisUp, outages>> /\ boots' \in Nat
    BY <2>2 DEF BootReplica, LoseConnection, StopReplica,
         Fleet!Boot, Fleet!ConnectionLost, Fleet!Stop
  <2>3. ASSUME NEW r \in Replicas, RunReplica(r)
        PROVE  UNCHANGED <<redisUp, boots, outages>>
    BY <2>3 DEF RunReplica, Fleet!WarmUp, Fleet!Subscribe, Fleet!SubscribeFails,
         Fleet!Retry, Fleet!Receive, Fleet!RunHandler, Fleet!SetListener
  <2>4. CASE Redis
    <3>1. redisUp' \in BOOLEAN /\ boots' = boots
      BY <2>4, Zenon DEF Redis, Fleet!RedisDown, Fleet!RedisUp
    <3>2. outages' = outages + 1 \/ outages' = outages
      BY <2>4, Zenon DEF Redis, Fleet!RedisDown, Fleet!RedisUp
    <3>3. QED
      BY <3>1, <3>2
  <2>5. QED
    BY <2>1, <2>2, <2>3, <2>4 DEF Next
<1>3. QED
  BY <1>1, <1>2 DEF Fleet!ReplicaTypeOK

\* Requests, messages and caches keep their shape.
THEOREM TypeCorrect == Spec => []TypeOK
<1>1. Init => Fleet!ReplicaTypeOK /\ missed \in [Replicas -> SUBSET Keys]
  <2>1. Fleet!Stopped \in Fleet!Replica
    BY DEF Fleet!Stopped, Fleet!Replica, Fleet!Snapshot, Fleet!Empty
  <2>2. QED
    BY <2>1 DEF Init, Fleet!ReplicaInit, Fleet!ReplicaTypeOK
<1>2. Init /\ Store!TypeOK => TypeOK
  BY <1>1 DEF TypeOK
<1>3. TypeOK /\ Store!TypeOK' /\ [Next]_vars => TypeOK'
  <2>1. ASSUME TypeOK, Store!TypeOK', Next PROVE TypeOK'
    BY <2>1, FleetTypes, MissedTypes DEF TypeOK
  <2>2. ASSUME TypeOK, UNCHANGED vars PROVE TypeOK'
    BY <2>2 DEF TypeOK, vars, Store!TypeOK, Fleet!ReplicaTypeOK
  <2>3. QED
    BY <2>1, <2>2
<1>4. QED
  BY <1>2, <1>3, StoreTypes, PTL DEF Spec

(***************************************************************************)
(* Caches behave as SnapshotCache says                                     *)
(***************************************************************************)
\* What a request does to the committed rows: nothing, or one row, and that
\* only after it was announced.  It is announced by no other step.
LEMMA RequestEffect ==
  ASSUME Store!TypeOK, NEW s \in Sessions, Request(s) \/ Transact(s)
  PROVE  /\ \A t \in Sessions : Store!Published(work'[t]) => work'[t] = work[t]
         /\ \/ flags' = flags
            \/ /\ Store!Published(work[s])
               /\ flags' = [flags EXCEPT ![work[s].key] = flags'[work[s].key]]
<1> USE DEF Store!TypeOK
<1>1. CASE Store!Handle(s)
  <2>1. Writer!TypeOK /\ Writer!Handle(s)
    BY <1>1, SameTypes, SameHandlers
  <2>2. /\ UNCHANGED flags
        /\ \/ \E answer : Writer!Finish(s, answer)
           \/ \E w : Writer!Started(w) /\ work' = [work EXCEPT ![s] = w]
    BY <2>1, WriterAssumptions, Writer!HandleEffect
  <2>3. CASE \E answer : Writer!Finish(s, answer)
    BY <2>2, <2>3 DEF Writer!Finish, Store!Published
  <2>4. CASE \E w : Writer!Started(w) /\ work' = [work EXCEPT ![s] = w]
    BY <2>2, <2>4 DEF Writer!Started, Store!Published
  <2>5. QED
    BY <2>2, <2>3, <2>4
<1>2. CASE Store!Flush(s)
  BY <1>2 DEF Store!Flush, Store!Published
<1>3. CASE Store!Abort(s) \/ Store!FlushFails(s) \/ Store!CommitDeleteFails(s)
  BY <1>3 DEF Store!Abort, Store!FlushFails, Store!CommitDeleteFails, Store!Finish, Store!Published
<1>4. ASSUME NEW acked \in BOOLEAN, Store!Commit(s, acked) \/ Store!CommitDelete(s, acked)
      PROVE  /\ work' = [work EXCEPT ![s] = Null]
             /\ Store!Published(work[s])
             /\ \E row : flags' = [flags EXCEPT ![work[s].key] = row]
  BY <1>4 DEF Store!Commit, Store!CommitDelete, Store!Finish
<1>5. ASSUME NEW acked \in BOOLEAN, Store!Commit(s, acked) \/ Store!CommitDelete(s, acked)
      PROVE  flags' = [flags EXCEPT ![work[s].key] = flags'[work[s].key]]
  <2>1. PICK row : flags' = [flags EXCEPT ![work[s].key] = row]
    BY <1>4, <1>5
  <2>2. work[s].key \in Keys
    BY <1>4, <1>5 DEF Store!Published, Store!Work
  <2>3. QED
    BY <2>1, <2>2
<1>6. QED
  BY <1>1, <1>2, <1>3, <1>4, <1>5 DEF Request, Transact, Store!Published

\* A stopped process serves nothing.
Unloaded == \A r \in Replicas : replica[r].phase = "stopped" => replica[r].cache = Fleet!Empty

\* What each step does to the caches.
LEMMA CacheEffect ==
  ASSUME TypeOK, NEW r \in Replicas
  PROVE  /\ BootReplica(r) => replica'[r].cache = flags /\ replica'[r].phase = "loading"
         /\ LoseConnection(r) => replica'[r].cache = replica[r].cache
         /\ StopReplica(r) => replica'[r].cache = Fleet!Empty
         /\ RunReplica(r) =>
              \/ replica'[r].cache = replica[r].cache
              \/ \E k \in Keys : replica'[r].cache = [replica[r].cache EXCEPT ![k] = Null]
         /\ RunReplica(r) /\ replica'[r].phase = "stopped" => replica[r].phase = "stopped"
         /\ LoseConnection(r) /\ replica'[r].phase = "stopped" => replica[r].phase = "stopped"
<1> USE DEF TypeOK, Fleet!ReplicaTypeOK
<1>1. replica[r] \in Fleet!Replica
  OBVIOUS
<1>2. ASSUME RunReplica(r), ~Fleet!RunHandler(r)
      PROVE  /\ replica'[r].cache = replica[r].cache
             /\ replica'[r].phase = "stopped" => replica[r].phase = "stopped"
  BY <1>1, <1>2 DEF RunReplica, Fleet!WarmUp, Fleet!Subscribe, Fleet!SubscribeFails,
       Fleet!Retry, Fleet!Receive, Fleet!SetListener, Fleet!Replica
<1>3. ASSUME Fleet!RunHandler(r)
      PROVE  /\ \E k \in Keys : replica'[r].cache = [replica[r].cache EXCEPT ![k] = Null]
             /\ replica'[r].phase = replica[r].phase
  <2>1. Head(replica[r].tasks).key \in Keys
    <3>1. Head(replica[r].tasks) \in Fleet!Message
      BY <1>1, <1>3, HeadTailProperties DEF Fleet!RunHandler, Fleet!Replica
    <3>2. QED
      BY <3>1 DEF Fleet!Message
  <2>2. QED
    BY <1>1, <1>3, <2>1 DEF Fleet!RunHandler, Fleet!Invalidate, Fleet!Replica
<1>4. LoseConnection(r) => /\ replica'[r].cache = replica[r].cache
                           /\ replica'[r].phase = replica[r].phase
  BY <1>1 DEF LoseConnection, Fleet!ConnectionLost, Fleet!Replica
<1>5. BootReplica(r) => replica'[r].cache = flags /\ replica'[r].phase = "loading"
  BY <1>1 DEF BootReplica, Fleet!Boot, Fleet!Replica
<1>6. ASSUME StopReplica(r) PROVE replica'[r].cache = Fleet!Empty
  <2>1. replica'[r] = Fleet!Stopped
    BY <1>6 DEF StopReplica, Fleet!Stop
  <2>2. QED
    BY <2>1 DEF Fleet!Stopped
<1>7. QED
  BY <1>2, <1>3, <1>4, <1>5, <1>6

\* Neither a request nor Redis touches what the processes have cached.
LEMMA CachesUntouched ==
  ASSUME TypeOK, NEW q \in Replicas,
         \/ \E s \in Sessions : Request(s) \/ Transact(s) \/ Announce(s) \/ AnnounceFails(s)
         \/ Redis
  PROVE  replica'[q].cache = replica[q].cache /\ replica'[q].phase = replica[q].phase
<1> USE DEF TypeOK, Fleet!ReplicaTypeOK, Fleet!Replica
<1>1. CASE Redis
  BY <1>1 DEF Redis, Fleet!RedisDown, Fleet!RedisUp
<1>2. ASSUME NEW s \in Sessions, Announce(s)
      PROVE  replica'[q].cache = replica[q].cache /\ replica'[q].phase = replica[q].phase
  BY <1>2 DEF Announce, Fleet!Broadcast
<1>3. ASSUME NEW s \in Sessions, Request(s) \/ Transact(s) \/ AnnounceFails(s)
      PROVE  replica' = replica
  BY <1>3 DEF Request, Transact, AnnounceFails
<1>4. QED
  BY <1>1, <1>2, <1>3

LEMMA UnloadedInvariant == Spec => []Unloaded
<1>1. Init => Unloaded
  BY DEF Init, Fleet!ReplicaInit, Unloaded, Fleet!Stopped
<1>2. TypeOK /\ Unloaded /\ [Next]_vars => Unloaded'
  <2> SUFFICES ASSUME TypeOK, Unloaded, [Next]_vars, NEW q \in Replicas,
                      replica'[q].phase = "stopped"
               PROVE  replica'[q].cache = Fleet!Empty
    BY DEF Unloaded, Fleet!Empty
  <2>1. ASSUME NEW s \in Sessions, Request(s) \/ Transact(s) \/ Announce(s) \/ AnnounceFails(s)
        PROVE  replica'[q].cache = Fleet!Empty
    BY <2>1, CachesUntouched DEF Unloaded
  <2>2. CASE Redis
    BY <2>2, CachesUntouched DEF Unloaded
  <2>3. ASSUME NEW r \in Replicas,
               BootReplica(r) \/ LoseConnection(r) \/ RunReplica(r) \/ StopReplica(r)
        PROVE  replica'[q].cache = Fleet!Empty
    <3>1. CASE q # r
      BY <2>3, <3>1, ReplicaStepTypes DEF Unloaded
    <3>2. CASE q = r /\ BootReplica(r)
      BY <3>2, CacheEffect
    <3>3. CASE q = r /\ (LoseConnection(r) \/ StopReplica(r))
      BY <3>3, CacheEffect DEF Unloaded
    <3>4. CASE q = r /\ RunReplica(r)
      BY <3>4, CacheEffect DEF Unloaded, Fleet!Empty
    <3>5. QED
      BY <2>3, <3>1, <3>2, <3>3, <3>4
  <2>4. CASE UNCHANGED vars
    BY <2>4 DEF vars, Unloaded
  <2>5. QED
    BY <2>1, <2>2, <2>3, <2>4 DEF Next
<1>3. QED
  BY <1>1, <1>2, TypeCorrect, PTL DEF Spec

\* The view of a step that leaves every cache alone is the same.
LEMMA SameView ==
  ASSUME \A q \in Replicas : replica'[q].cache = replica[q].cache
  PROVE  [q \in Replicas |-> replica[q].cache]' = [q \in Replicas |-> replica[q].cache]
OBVIOUS

LEMMA AbstractStep ==
  ASSUME TypeOK, TypeOK', Unloaded, Next
  PROVE  Abstract!Next \/ UNCHANGED Abstract!vars
<1> DEFINE view == [q \in Replicas |-> replica[q].cache]
<1>1. ASSUME NEW s \in Sessions, Request(s) \/ Transact(s) \/ Announce(s) \/ AnnounceFails(s)
      PROVE  Abstract!Next \/ UNCHANGED Abstract!vars
  <2>1. view' = view
    BY <1>1, CachesUntouched, SameView
  <2>2. CASE flags' = flags
    BY <2>1, <2>2 DEF Abstract!vars
  <2>3. CASE flags' # flags
    <3>1. /\ Request(s) \/ Transact(s)
          /\ Store!Published(work[s])
          /\ flags' = [flags EXCEPT ![work[s].key] = flags'[work[s].key]]
      BY <1>1, <2>3, RequestEffect DEF TypeOK, Announce, AnnounceFails, Store!Publish
    <3>2. work[s].key \in Keys
      BY <3>1 DEF TypeOK, Store!TypeOK, Store!Published, Store!Work
    <3>3. flags'[work[s].key] \in Store!Flag \cup {Null}
      BY <3>2 DEF TypeOK, Store!TypeOK
    <3>4. Abstract!Commit(work[s].key)
      BY <2>1, <3>1, <3>3 DEF Abstract!Commit
    <3>5. QED
      BY <3>2, <3>4 DEF Abstract!Next
  <2>4. QED
    BY <2>2, <2>3
<1>2. CASE Redis
  <2>1. view' = view
    BY <1>2, CachesUntouched, SameView
  <2>2. QED
    BY <1>2, <2>1 DEF Redis, Fleet!RedisDown, Fleet!RedisUp, Abstract!vars
<1>3. ASSUME NEW r \in Replicas,
             BootReplica(r) \/ LoseConnection(r) \/ RunReplica(r) \/ StopReplica(r)
      PROVE  Abstract!Next \/ UNCHANGED Abstract!vars
  <2>1. flags' = flags
    BY <1>3, PlatformStep DEF BootReplica, LoseConnection, RunReplica, StopReplica,
         Fleet!Boot, Fleet!ConnectionLost, Fleet!WarmUp, Fleet!Subscribe,
         Fleet!SubscribeFails, Fleet!Retry, Fleet!Receive, Fleet!RunHandler,
         Fleet!SetListener, Fleet!Stop
  <2>2. \A q \in Replicas \ {r} : replica'[q] = replica[q]
    BY <1>3, ReplicaStepTypes
  <2>3. view' = [view EXCEPT ![r] = replica'[r].cache]
    BY <2>2
  <2>4. CASE BootReplica(r)
    <3>1. view[r] = Abstract!Nothing
      BY <2>4 DEF BootReplica, Fleet!Boot, Unloaded, Fleet!Empty, Abstract!Nothing
    <3>2. replica'[r].cache = flags
      BY <2>4, CacheEffect
    <3>3. QED
      BY <2>1, <2>3, <3>1, <3>2 DEF Abstract!Load, Abstract!Next
  <2>5. CASE LoseConnection(r)
    <3>1. view' = view
      BY <2>3, <2>5, CacheEffect
    <3>2. QED
      BY <2>1, <3>1 DEF Abstract!vars
  <2>6. CASE StopReplica(r)
    <3>1. replica'[r].cache = Abstract!Nothing
      BY <2>6, CacheEffect DEF Fleet!Empty, Abstract!Nothing
    <3>2. QED
      BY <2>1, <2>3, <3>1 DEF Abstract!Unload, Abstract!Next
  <2>7. ASSUME RunReplica(r), replica'[r].cache = replica[r].cache
        PROVE  UNCHANGED Abstract!vars
    <3>1. view' = view
      BY <2>3, <2>7
    <3>2. QED
      BY <2>1, <3>1 DEF Abstract!vars
  <2>8. ASSUME NEW k \in Keys, replica'[r].cache = [replica[r].cache EXCEPT ![k] = Null]
        PROVE  Abstract!Next
    <3>1. view' = [view EXCEPT ![r][k] = Null]
      BY <2>3, <2>8
    <3>2. QED
      BY <2>1, <3>1 DEF Abstract!Forget, Abstract!Next
  <2>9. QED
    BY <1>3, <2>4, <2>5, <2>6, <2>7, <2>8, CacheEffect
<1>4. QED
  BY <1>1, <1>2, <1>3 DEF Next

\* What a replica serves for a flag is the row that was committed when it
\* loaded its cache, or nothing, for any number of processes and requests.
THEOREM CachesAreSnapshots == Spec => ImplementsSnapshotCache
<1>1. Init => Abstract!Init
  BY PlatformAssumption
     DEF Init, Store!Init, Store!SeedAssumption, Fleet!ReplicaInit, Fleet!Stopped,
         Fleet!Empty, Abstract!Init, Abstract!Nothing
<1>2. TypeOK /\ TypeOK' /\ Unloaded /\ [Next]_vars => [Abstract!Next]_(Abstract!vars)
  <2>1. ASSUME UNCHANGED vars PROVE UNCHANGED Abstract!vars
    BY <2>1 DEF vars, Abstract!vars
  <2>2. QED
    BY <2>1, AbstractStep
<1>3. QED
  BY <1>1, <1>2, TypeCorrect, UnloadedInvariant, PTL
     DEF Spec, ImplementsSnapshotCache, Abstract!Spec

(***************************************************************************)
(* An outdated flag is explained                                           *)
(***************************************************************************)
\* A change of the flag was announced and may still commit.
Doomed(k) == \E s \in Sessions : Store!Published(work[s]) /\ work[s].key = k

Excused(r, k) ==
  \/ k \in missed[r]
  \/ Names(replica[r].inbox, k)
  \/ Names(replica[r].tasks, k)

\* Stronger than StaleExplained: the explanation is there before the commit.
Covered ==
  \A r \in Replicas, k \in Keys :
    Cached(r, k) # Null /\ (Cached(r, k) # flags[k] \/ Doomed(k)) => Excused(r, k)

LEMMA CoveredExplains == TypeOK /\ Covered => StaleExplained
<1> SUFFICES ASSUME TypeOK, Covered, NEW r \in Replicas, NEW k \in Keys, Stale(r, k)
             PROVE  k \in missed[r] \/ \E m \in Fleet!Pending(r) : m.key = k
  BY DEF StaleExplained
<1>1. Excused(r, k)
  BY DEF Covered, Stale
<1>2. /\ replica[r].inbox \in Seq(Fleet!Message)
      /\ replica[r].tasks \in Seq(Fleet!Message)
  BY DEF TypeOK, Fleet!ReplicaTypeOK, Fleet!Replica
<1>3. k \in missed[r] \/ Names(replica[r].inbox \o replica[r].tasks, k)
  BY <1>1, <1>2, NamesConcat DEF Excused
<1>4. QED
  BY <1>3 DEF Names, Fleet!Pending

\* A request changes only a flag whose change was announced before.
LEMMA CoveredRequest ==
  ASSUME TypeOK, Covered, NEW s \in Sessions, Request(s) \/ Transact(s)
  PROVE  Covered'
<1>1. UNCHANGED <<replica, missed>>
  BY DEF Request, Transact
<1>2. \A k \in Keys : Doomed(k)' => Doomed(k)
  BY RequestEffect DEF Doomed, TypeOK
<1>3. ASSUME NEW k \in Keys, flags'[k] # flags[k] PROVE Doomed(k)
  <2>1. /\ Store!Published(work[s])
        /\ flags' = [flags EXCEPT ![work[s].key] = flags'[work[s].key]]
    BY <1>3, RequestEffect DEF TypeOK
  <2>2. work[s].key = k
    BY <1>3, <2>1 DEF TypeOK, Store!TypeOK
  <2>3. QED
    BY <2>1, <2>2 DEF Doomed
<1>4. QED
  BY <1>1, <1>2, <1>3 DEF Covered, Cached, Excused

\* An announcement reaches a replica, or passes it by.
LEMMA CoveredAnnounce ==
  ASSUME TypeOK, Covered, NEW s \in Sessions, Announce(s) \/ AnnounceFails(s)
  PROVE  Covered'
<1> USE DEF TypeOK, Fleet!ReplicaTypeOK
<1> DEFINE w == work[s]
<1>1. /\ flags' = flags /\ w # Null
      /\ \A t \in Sessions \ {s} : work'[t] = work[t]
      /\ work'[s].key = w.key
  BY DEF Announce, AnnounceFails, Store!Publish, Store!TypeOK, Store!Work
<1>2. \A k \in Keys : Doomed(k)' => Doomed(k) \/ k = w.key
  BY <1>1 DEF Doomed
<1>3. \A r \in Replicas : replica'[r].cache = replica[r].cache
  BY CachesUntouched
<1>4. ASSUME NEW r \in Replicas, NEW k \in Keys, Excused(r, k) \/ k = w.key
      PROVE  Excused(r, k)'
  <2>1. CASE AnnounceFails(s)
    BY <1>4, <2>1 DEF AnnounceFails, Excused
  <2>2. CASE Announce(s) /\ replica[r].listener # "subscribed"
    BY <1>4, <2>2 DEF Announce, Fleet!Broadcast, Excused
  <2>3. CASE Announce(s) /\ replica[r].listener = "subscribed"
    <3> DEFINE m == MessageOf(w)
    <3>1. m \in Fleet!Message /\ m.key = w.key
      BY <1>1, MessageType
    <3>2. missed'[r] = missed[r] /\ replica'[r] = [replica[r] EXCEPT !.inbox = Append(@, m)]
      BY <2>3 DEF Announce, Fleet!Broadcast
    <3> HIDE DEF m
    <3>3. replica[r].inbox \in Seq(Fleet!Message)
      BY DEF Fleet!Replica
    <3>4. /\ replica'[r].inbox = Append(replica[r].inbox, m)
          /\ replica'[r].tasks = replica[r].tasks
      BY <3>2 DEF Fleet!Replica
    <3>5. QED
      BY <1>4, <3>1, <3>2, <3>3, <3>4, NamesAppend DEF Excused
  <2>4. QED
    BY <2>1, <2>2, <2>3
<1>5. QED
  BY <1>1, <1>2, <1>3, <1>4 DEF Covered, Cached

\* A replica that loads a flag loads what is committed; what it forgets or
\* loses it either no longer serves or has missed.
LEMMA CoveredReplica ==
  ASSUME TypeOK, Covered, NEW r \in Replicas,
         BootReplica(r) \/ LoseConnection(r) \/ RunReplica(r) \/ StopReplica(r)
  PROVE  Covered'
<1> USE DEF TypeOK, Fleet!ReplicaTypeOK
<1>1. UNCHANGED <<flags, work>>
  BY DEF BootReplica, LoseConnection, RunReplica, StopReplica,
       Fleet!Boot, Fleet!ConnectionLost, Fleet!WarmUp, Fleet!Subscribe,
       Fleet!SubscribeFails, Fleet!Retry, Fleet!Receive, Fleet!RunHandler,
       Fleet!SetListener, Fleet!Stop
<1>2. \A q \in Replicas \ {r} : replica'[q] = replica[q] /\ missed'[q] = missed[q]
  BY ReplicaStepTypes DEF BootReplica, LoseConnection, RunReplica, StopReplica
<1>3. replica[r] \in Fleet!Replica
  OBVIOUS
<1>4. SUFFICES ASSUME NEW k \in Keys, Cached(r, k)' # Null,
                      Cached(r, k)' # flags[k] \/ Doomed(k)
               PROVE  Excused(r, k)'
  BY <1>1, <1>2 DEF Covered, Cached, Excused, Doomed
<1>5. CASE BootReplica(r)
  <2>1. Cached(r, k)' = flags[k]
    BY <1>5, CacheEffect DEF Cached
  <2>2. k \in missed'[r]
    BY <1>4, <1>5, <2>1 DEF BootReplica, Doomed
  <2>3. QED
    BY <2>2 DEF Excused
<1>6. CASE LoseConnection(r)
  <2>1. Excused(r, k)
    BY <1>4, <1>6, CacheEffect DEF Covered, Cached
  <2>2. /\ replica'[r].tasks = replica[r].tasks
        /\ missed'[r] = missed[r] \cup
             {replica[r].inbox[i].key : i \in DOMAIN replica[r].inbox}
    BY <1>3, <1>6 DEF LoseConnection, Fleet!ConnectionLost, Fleet!Replica
  <2>3. QED
    BY <2>1, <2>2 DEF Excused, Names
<1>7. CASE StopReplica(r)
  BY <1>4, <1>7, CacheEffect DEF Cached, Fleet!Empty
<1>8. CASE RunReplica(r) /\ ~Fleet!Receive(r) /\ ~Fleet!RunHandler(r)
  <2>1. /\ replica'[r].cache = replica[r].cache /\ missed' = missed
        /\ replica'[r].inbox = replica[r].inbox /\ replica'[r].tasks = replica[r].tasks
    BY <1>3, <1>8 DEF RunReplica, Fleet!WarmUp, Fleet!Subscribe,
       Fleet!SubscribeFails, Fleet!Retry, Fleet!SetListener, Fleet!Replica
  <2>2. QED
    BY <1>4, <2>1 DEF Covered, Cached, Excused
<1>9. CASE RunReplica(r) /\ Fleet!Receive(r)
  <2> DEFINE inbox == replica[r].inbox
             tasks == replica[r].tasks
  <2>1. /\ replica'[r].cache = replica[r].cache /\ missed' = missed
        /\ inbox # << >>
        /\ replica'[r].inbox = Tail(inbox)
        /\ replica'[r].tasks = Append(tasks, Head(inbox))
    BY <1>3, <1>9 DEF RunReplica, Fleet!Receive, Fleet!Replica
  <2>2. /\ inbox \in Seq(Fleet!Message) /\ tasks \in Seq(Fleet!Message)
        /\ Head(inbox) \in Fleet!Message
    BY <1>3, <2>1, HeadTailProperties DEF Fleet!Replica
  <2>3. Names(inbox, k) <=> Head(inbox).key = k \/ Names(Tail(inbox), k)
    BY <2>1, <2>2, NamesHead
  <2>4. Names(Append(tasks, Head(inbox)), k) <=> Names(tasks, k) \/ Head(inbox).key = k
    BY <2>2, NamesAppend
  <2>5. Excused(r, k)
    BY <1>4, <2>1 DEF Covered, Cached
  <2>6. QED
    BY <2>1, <2>3, <2>4, <2>5 DEF Excused
<1>10. CASE RunReplica(r) /\ Fleet!RunHandler(r)
  <2> DEFINE tasks == replica[r].tasks
  <2>1. /\ replica'[r].cache = [replica[r].cache EXCEPT ![Head(tasks).key] = Null]
        /\ missed' = missed /\ tasks # << >>
        /\ replica'[r].inbox = replica[r].inbox
        /\ replica'[r].tasks = Tail(tasks)
    BY <1>3, <1>10 DEF RunReplica, Fleet!RunHandler, Fleet!Invalidate, Fleet!Replica
  <2>2. replica[r].cache \in [Keys -> Store!Flag \cup {Null}]
    BY <1>3 DEF Fleet!Replica, Fleet!Snapshot
  <2>3. k # Head(tasks).key /\ Cached(r, k)' = Cached(r, k)
    BY <1>4, <2>1, <2>2 DEF Cached
  <2>4. Names(tasks, k) <=> Head(tasks).key = k \/ Names(Tail(tasks), k)
    BY <1>3, <2>1, NamesHead DEF Fleet!Replica
  <2>5. Excused(r, k)
    BY <1>4, <2>3 DEF Covered
  <2>6. QED
    BY <2>1, <2>3, <2>4, <2>5 DEF Excused
<1>11. QED
  BY <1>5, <1>6, <1>7, <1>8, <1>9, <1>10

LEMMA CoveredInvariant == Spec => []Covered
<1>1. Init => Covered
  BY DEF Init, Covered, Cached, Fleet!ReplicaInit, Fleet!Stopped, Fleet!Empty
<1>2. TypeOK /\ Covered /\ [Next]_vars => Covered'
  <2> SUFFICES ASSUME TypeOK, Covered, [Next]_vars PROVE Covered'
    OBVIOUS
  <2>1. CASE Redis
    <3>1. UNCHANGED <<flags, work, missed>>
      BY <2>1 DEF Redis, Fleet!RedisDown, Fleet!RedisUp
    <3>2. \A r \in Replicas : /\ replica'[r].cache = replica[r].cache
                             /\ replica'[r].inbox = replica[r].inbox
                             /\ replica'[r].tasks = replica[r].tasks
      BY <2>1 DEF Redis, Fleet!RedisDown, Fleet!RedisUp, TypeOK, Fleet!ReplicaTypeOK,
           Fleet!Replica
    <3>3. QED
      BY <3>1, <3>2 DEF Covered, Cached, Excused, Doomed
  <2>2. CASE UNCHANGED vars
    BY <2>2 DEF vars, Covered, Cached, Excused, Doomed
  <2>3. QED
    BY <2>1, <2>2, CoveredRequest, CoveredAnnounce, CoveredReplica DEF Next
<1>3. QED
  BY <1>1, <1>2, TypeCorrect, PTL DEF Spec

\* Whatever requests race, roll back or die, and however often replicas and
\* Redis go down, a replica holds an outdated flag only while an invalidation
\* is on its way to it or because one went by.
THEOREM StalenessExplained == Spec => []StaleExplained
BY CoveredExplains, CoveredInvariant, TypeCorrect, PTL
=============================================================================
