---------------------------- MODULE ReplicaCache ----------------------------
(***************************************************************************)
(* The API processes (replicas) as readers of the flags: the lifespan of   *)
(* src/main.py, the in-process FlagCache of src/core/cache.py and the      *)
(* Redis publish/subscribe listener of src/infra/redis.py that invalidates *)
(* it.                                                                     *)
(*                                                                         *)
(* A replica boots by connecting to the database and to Redis, SELECTs all *)
(* flags, installs them as its cache, and only then subscribes to the      *)
(* invalidation channel.  Redis delivers a message to the connections that *)
(* are subscribed when it is published, in order, and keeps nothing; the   *)
(* listener starts a task per message, and the task drops the flag from    *)
(* the cache.  The table flags belongs to the write API (FlagStore): this  *)
(* module only reads it.                                                   *)
(***************************************************************************)
EXTENDS Naturals, Sequences

CONSTANTS
  Keys,         \* flag keys
  Rows,         \* committed rows
  Replicas,     \* API processes
  MaxBoots,     \* bound on how often replicas are started
  MaxOutages,   \* bound on how often Redis goes down
  Null

VARIABLES
  flags,     \* committed rows of the table flags, by key
  replica,   \* the state of each process
  redisUp,   \* Redis accepts connections
  boots,     \* how often a replica was started
  outages    \* how often Redis went down

replicaVars == <<replica, redisUp, boots, outages>>

Message == [key : Keys, version : Nat, action : {"update", "delete"}]
Snapshot == [Keys -> Rows \cup {Null}]
Empty == [k \in Keys |-> Null]

\* phase     "loading": the SELECT of warm_up has returned; "serving": the
\*           cache is ready and the application accepts requests
\* cache     the flags loaded or served
\* listener  "off"; "connecting": about to SUBSCRIBE; "subscribed"; "broken":
\*           the connection is lost and the listener has not noticed;
\*           "backoff": sleeping before the next attempt
\* inbox     delivered to the connection and not read
\* tasks     handlers created and not run
Replica == [phase : {"stopped", "loading", "serving"},
            cache : Snapshot,
            listener : {"off", "connecting", "subscribed", "broken", "backoff"},
            inbox : Seq(Message),
            tasks : Seq(Message)]

ReplicaTypeOK ==
  /\ replica \in [Replicas -> Replica]
  /\ redisUp \in BOOLEAN
  /\ boots \in Nat
  /\ outages \in Nat

Stopped == [phase |-> "stopped", cache |-> Empty, listener |-> "off",
            inbox |-> <<>>, tasks |-> <<>>]

ReplicaInit ==
  /\ replica = [r \in Replicas |-> Stopped]
  /\ redisUp = TRUE
  /\ boots = 0
  /\ outages = 0

(***************************************************************************)
(* Lifespan                                                                *)
(***************************************************************************)

\* database.connect, redis.connect (its ping must be answered) and the SELECT
\* of _load_all_flags.
Boot(r) ==
  /\ replica[r].phase = "stopped"
  /\ redisUp
  /\ boots < MaxBoots
  /\ boots' = boots + 1
  /\ replica' = [replica EXCEPT ![r].phase = "loading", ![r].cache = flags]
  /\ UNCHANGED <<flags, redisUp, outages>>

\* The cache is installed and ready, the handler registered, the listener
\* task created, and the application serves.
WarmUp(r) ==
  /\ replica[r].phase = "loading"
  /\ replica' = [replica EXCEPT ![r].phase = "serving",
                                ![r].listener = "connecting"]
  /\ UNCHANGED <<flags, redisUp, boots, outages>>

\* Shutdown or crash: cache, connection and tasks go with the process.
Stop(r) ==
  /\ replica[r].phase # "stopped"
  /\ replica' = [replica EXCEPT ![r] = Stopped]
  /\ UNCHANGED <<flags, redisUp, boots, outages>>

(***************************************************************************)
(* Listener                                                                *)
(***************************************************************************)
SetListener(r, state) ==
  /\ replica' = [replica EXCEPT ![r].listener = state]
  /\ UNCHANGED <<flags, redisUp, boots, outages>>

Subscribe(r) ==
  /\ replica[r].listener = "connecting"
  /\ redisUp
  /\ SetListener(r, "subscribed")

\* Mutant: a failed SUBSCRIBE ends the listener task.
SubscribeFailsForGood(r) ==
  /\ replica[r].listener = "connecting"
  /\ ~redisUp
  /\ SetListener(r, "off")

SubscribeFails(r) ==
  /\ replica[r].listener = "connecting"
  /\ ~redisUp
  /\ SetListener(r, "backoff")

\* The connection error surfaces; what the connection held is lost.
ConnectionLost(r) ==
  /\ replica[r].listener = "broken"
  /\ replica' = [replica EXCEPT ![r].listener = "backoff",
                                ![r].inbox = <<>>]
  /\ UNCHANGED <<flags, redisUp, boots, outages>>

Retry(r) ==
  /\ replica[r].listener = "backoff"
  /\ SetListener(r, "connecting")

\* asyncio.create_task(handler(data))
Receive(r) ==
  /\ replica[r].inbox # <<>>
  /\ replica' = [replica EXCEPT
                   ![r].inbox = Tail(@),
                   ![r].tasks = Append(@, Head(replica[r].inbox))]
  /\ UNCHANGED <<flags, redisUp, boots, outages>>

\* Mutant: a message that is not newer than the cached flag is ignored.
InvalidateOlder(cache, m) ==
  IF cache[m.key] # Null /\ cache[m.key].version >= m.version
    THEN cache
    ELSE [cache EXCEPT ![m.key] = Null]

\* Mutant: an update marks the cached flag with its new version.
InvalidateInPlace(cache, m) ==
  IF m.action = "update" /\ cache[m.key] # Null
    THEN [cache EXCEPT ![m.key].version = m.version]
    ELSE [cache EXCEPT ![m.key] = Null]

\* handle_invalidation_message: "update" and "delete" both remove the flag,
\* whatever the version.
Invalidate(cache, m) == [cache EXCEPT ![m.key] = Null]

\* Tasks run in the order they were created.
RunHandler(r) ==
  /\ replica[r].tasks # <<>>
  /\ replica' = [replica EXCEPT
                   ![r].cache = Invalidate(@, Head(replica[r].tasks)),
                   ![r].tasks = Tail(@)]
  /\ UNCHANGED <<flags, redisUp, boots, outages>>

(***************************************************************************)
(* Redis (external)                                                        *)
(***************************************************************************)

\* PUBLISH reaches the connections that are subscribed now.
Broadcast(m) ==
  replica' = [r \in Replicas |->
                IF replica[r].listener = "subscribed"
                  THEN [replica[r] EXCEPT !.inbox = Append(@, m)]
                  ELSE replica[r]]

\* Every subscriber's connection breaks.
RedisDown ==
  /\ redisUp
  /\ outages < MaxOutages
  /\ redisUp' = FALSE
  /\ outages' = outages + 1
  /\ replica' = [r \in Replicas |->
                   IF replica[r].listener = "subscribed"
                     THEN [replica[r] EXCEPT !.listener = "broken"]
                     ELSE replica[r]]
  /\ UNCHANGED <<flags, boots>>

RedisUp ==
  /\ ~redisUp
  /\ redisUp' = TRUE
  /\ UNCHANGED <<flags, replica, boots, outages>>

\* The messages a replica will still handle.
Pending(r) ==
  LET queued == replica[r].inbox \o replica[r].tasks
  IN  {queued[i] : i \in DOMAIN queued}

=============================================================================
