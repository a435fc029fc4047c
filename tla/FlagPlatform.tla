---------------------------- MODULE FlagPlatform ----------------------------
(***************************************************************************)
(* The service as a whole: requests that change flags (FlagStore) and      *)
(* replicas that serve them from memory (ReplicaCache), joined by the      *)
(* table flags, which replicas load when they boot, and by the             *)
(* invalidation channel, on which a request announces its change before it *)
(* commits it.                                                             *)
(***************************************************************************)
EXTENDS Naturals, Sequences

CONSTANTS
  Keys, FlagIds, Labels, Envs, RuleIds, Bodies, Configs, Sessions, Seed,
  JsonDefault, ForeignKeys, MaxRequests,    \* of FlagStore
  Replicas, MaxBoots, MaxOutages,           \* of ReplicaCache
  Null

VARIABLES
  flags, audit, work, reply, accepted,      \* of FlagStore
  replica, redisUp, boots, outages,         \* of ReplicaCache
  missed   \* history: the keys whose announcement went by each replica since
           \* it loaded its cache, or before a commit that came after the load

Store == INSTANCE FlagStore
Fleet == INSTANCE ReplicaCache WITH Rows <- Store!Flag

ASSUME PlatformAssumption ==
  /\ Store!DeploymentAssumption
  /\ Store!NullAssumption
  /\ Store!SeedAssumption
  /\ MaxBoots \in Nat
  /\ MaxOutages \in Nat

vars == <<flags, audit, work, reply, accepted,
          replica, redisUp, boots, outages, missed>>

TypeOK ==
  /\ Store!TypeOK
  /\ Fleet!ReplicaTypeOK
  /\ missed \in [Replicas -> SUBSET Keys]

Init ==
  /\ Store!Init
  /\ Fleet!ReplicaInit
  /\ missed = [r \in Replicas |-> {}]

(***************************************************************************)
(* Requests                                                                *)
(***************************************************************************)

\* Mutant: the message names the flag only.
MessageOfKey(w) == [key |-> w.key]

\* {"flag_key", "version", "action"}, after the refresh of the flush.
MessageOf(w) ==
  [key |-> w.key, version |-> w.flag.version,
   action |-> IF Store!Deleting(w) THEN "delete" ELSE "update"]

Announce(s) ==
  /\ redisUp
  /\ Store!Publish(s, "announced")
  /\ Fleet!Broadcast(MessageOf(work[s]))
  /\ missed' = [r \in Replicas |->
                  IF replica[r].listener = "subscribed"
                    THEN missed[r]
                    ELSE missed[r] \cup {work[s].key}]
  /\ UNCHANGED <<redisUp, boots, outages>>

\* The exception of a PUBLISH that does not reach Redis is swallowed.
AnnounceFails(s) ==
  /\ ~redisUp
  /\ Store!Publish(s, "unannounced")
  /\ missed' = [r \in Replicas |-> missed[r] \cup {work[s].key}]
  /\ UNCHANGED <<replica, redisUp, boots, outages>>

Request(s) ==
  /\ Store!Handle(s) \/ Store!Abort(s)
  /\ UNCHANGED <<replica, redisUp, boots, outages, missed>>

Transact(s) ==
  /\ \/ Store!Flush(s)
     \/ Store!FlushFails(s)
     \/ \E acked \in BOOLEAN :
          Store!Commit(s, acked) \/ Store!CommitDelete(s, acked)
     \/ Store!CommitDeleteFails(s)
  /\ UNCHANGED <<replica, redisUp, boots, outages, missed>>

(***************************************************************************)
(* Replicas                                                                *)
(***************************************************************************)
BootReplica(r) ==
  /\ Fleet!Boot(r)
  /\ missed' = [missed EXCEPT ![r] =
                  {work[s].key : s \in {t \in Sessions :
                                          Store!Published(work[t])}}]
  /\ UNCHANGED <<audit, work, reply, accepted>>

LoseConnection(r) ==
  /\ Fleet!ConnectionLost(r)
  /\ missed' = [missed EXCEPT ![r] = @ \cup
                  {replica[r].inbox[i].key : i \in DOMAIN replica[r].inbox}]
  /\ UNCHANGED <<audit, work, reply, accepted>>

RunReplica(r) ==
  /\ \/ Fleet!WarmUp(r)
     \/ Fleet!Subscribe(r)
     \/ Fleet!SubscribeFails(r)
     \/ Fleet!Retry(r)
     \/ Fleet!Receive(r)
     \/ Fleet!RunHandler(r)
  /\ UNCHANGED <<audit, work, reply, accepted, missed>>

StopReplica(r) ==
  /\ Fleet!Stop(r)
  /\ UNCHANGED <<audit, work, reply, accepted, missed>>

Redis ==
  /\ Fleet!RedisDown \/ Fleet!RedisUp
  /\ UNCHANGED <<audit, work, reply, accepted, missed>>

Next ==
  \/ \E s \in Sessions :
       Request(s) \/ Transact(s) \/ Announce(s) \/ AnnounceFails(s)
  \/ \E r \in Replicas :
       BootReplica(r) \/ LoseConnection(r) \/ RunReplica(r) \/ StopReplica(r)
  \/ Redis

Spec == Init /\ [][Next]_vars

\* The event loop runs what is ready; Redis comes back (restart:
\* unless-stopped).  Nothing makes a client send a request, a replica start
\* or stop, or Redis fail.
FairSpec ==
  /\ Spec
  /\ \A s \in Sessions :
       WF_vars(Transact(s) \/ Announce(s) \/ AnnounceFails(s))
  /\ \A r \in Replicas : WF_vars(LoseConnection(r)) /\ WF_vars(RunReplica(r))
  /\ WF_vars(Fleet!RedisUp /\ UNCHANGED <<audit, work, reply, accepted, missed>>)

(***************************************************************************)
(* Properties                                                              *)
(***************************************************************************)
Cached(r, k) == replica[r].cache[k]
Serving(r) == replica[r].phase = "serving"
Stale(r, k) == Cached(r, k) # Null /\ Cached(r, k) # flags[k]

\* A replica holds an outdated flag only while an invalidation of it is on
\* its way, or when the announcement went by before the replica listened, was
\* lost with its connection, or could not be sent: publishing before the
\* commit, reused versions, rollbacks and restarts add no other way.
StaleExplained ==
  \A r \in Replicas, k \in Keys :
    Stale(r, k) => k \in missed[r] \/ \E m \in Fleet!Pending(r) : m.key = k

\* The caches implement SnapshotCache: a replica serves rows that were
\* committed when it loaded, and never one that was rolled back.
Abstract == INSTANCE SnapshotCache WITH
  Rows <- Store!Flag, view <- [r \in Replicas |-> replica[r].cache]

ImplementsSnapshotCache == Abstract!Spec

\* Every invalidation that reaches a replica takes effect, unless the
\* process stops or the connection breaks first.
InvalidationApplied ==
  \A r \in Replicas, k \in Keys :
    (\E m \in Fleet!Pending(r) : m.key = k) ~>
      \/ Cached(r, k) = Null
      \/ replica[r].listener # "subscribed"

\* A serving replica always comes back to the channel: the listener survives
\* every outage.
Resubscribes ==
  \A r \in Replicas :
    Serving(r) ~> replica[r].listener = "subscribed" \/ ~Serving(r)

=============================================================================
