----------------------------- MODULE SdkClient -----------------------------
(***************************************************************************)
(* The Python SDK: sdk/feature_flags_sdk/client.py with its TTL cache,     *)
(* sdk/feature_flags_sdk/cache.py, shared by several threads.              *)
(*                                                                         *)
(* Each module makes a sentinel object of its own: Missing is what the     *)
(* cache returns for a key it does not hold, Failed what _evaluate returns *)
(* when the API cannot be asked.  Time is an action that lets an entry     *)
(* expire.  Locks are held within one action each.                         *)
(***************************************************************************)
EXTENDS Naturals, FiniteSets

CONSTANTS
  Threads,
  CacheKeys,    \* flag key, user and environment: what the cache is keyed by
  Values,       \* JSON values a flag may have
  Truthy,       \* the objects that bool() finds true
  Missing,      \* cache.py's _SENTINEL: another object than
  Failed,       \* client.py's _SENTINEL, and neither a JSON value
  MaxClients,   \* bound on the HTTP clients a process creates
  Null

VARIABLES
  store,     \* TTLCache._store: by key, the value and whether it is fresh
  http,      \* FlagClient._http: the number of an open client, or Null
  created,   \* the HTTP clients created so far
  call,      \* by thread, the call in progress, or Null
  answer,    \* by thread, what its last call returned, or Null
  served     \* by key, the values the API has answered so far

vars == <<store, http, created, call, answer, served>>

Methods == {"is_enabled", "get_variant"}
Call == [method : Methods, key : CacheKeys, default : Values,
         step : {"lookup", "ensure", "read", "post"},
         client : Nat \cup {Null}]

Init ==
  /\ store = [c \in CacheKeys |-> Null]
  /\ http = Null
  /\ created = 0
  /\ call = [t \in Threads |-> Null]
  /\ answer = [t \in Threads |-> Null]
  /\ served = [c \in CacheKeys |-> {}]

Start(t, method, c, default) ==
  /\ call[t] = Null
  /\ call' = [call EXCEPT ![t] =
       [method |-> method, key |-> c, default |-> default,
        step |-> "lookup", client |-> Null]]
  /\ answer' = [answer EXCEPT ![t] = Null]
  /\ UNCHANGED <<store, http, created, served>>

\* is_enabled and get_variant make an answer of what _evaluate returns.
Result(method, default, value) ==
  IF value = Failed THEN default
  ELSE IF method = "is_enabled" THEN value \in Truthy ELSE value

Return(t, value) ==
  /\ answer' = [answer EXCEPT ![t] =
       [call |-> call[t],
        value |-> Result(call[t].method, call[t].default, value)]]
  /\ call' = [call EXCEPT ![t] = Null]

GoTo(t, step) == call' = [call EXCEPT ![t].step = step]
At(t, step) == call[t] # Null /\ call[t].step = step

IsFresh(c) == store[c] # Null /\ store[c].fresh

\* TTLCache.get, under its lock: an expired entry is deleted.
Get(c) == IF IsFresh(c) THEN store[c].value ELSE Missing

Lookup(t) ==
  LET c == call[t].key
  IN  /\ At(t, "lookup")
      /\ store' = [store EXCEPT ![c] = IF IsFresh(c) THEN @ ELSE Null]
      /\ IF Get(c) # Failed
           THEN Return(t, Get(c))
           ELSE GoTo(t, "ensure") /\ UNCHANGED answer
      /\ UNCHANGED <<http, created, served>>

\* _get_http_client makes a client under its lock and then reads the
\* attribute, which close() may have reset in between.
EnsureClient(t) ==
  /\ At(t, "ensure")
  /\ GoTo(t, "read")
  /\ IF http = Null
       THEN /\ created < MaxClients
            /\ created' = created + 1
            /\ http' = created'
       ELSE UNCHANGED <<http, created>>
  /\ UNCHANGED <<store, answer, served>>

ReadClient(t) ==
  /\ At(t, "read")
  /\ call' = [call EXCEPT ![t].step = "post", ![t].client = http]
  /\ UNCHANGED <<store, http, created, answer, served>>

\* The API answers 200 through an open client.
PostSucceeds(t, value) ==
  LET c == call[t].key
  IN  /\ At(t, "post")
      /\ call[t].client # Null
      /\ store' = [store EXCEPT ![c] = [value |-> value, fresh |-> TRUE]]
      /\ served' = [served EXCEPT ![c] = @ \cup {value}]
      /\ Return(t, value)
      /\ UNCHANGED <<http, created>>

\* A timeout, an error status, a closed client or none: never raised.
PostFails(t) ==
  /\ At(t, "post")
  /\ Return(t, Failed)
  /\ UNCHANGED <<store, http, created, served>>

Close ==
  /\ http # Null
  /\ http' = Null
  /\ UNCHANGED <<store, created, call, answer, served>>

\* The TTL of an entry passes.
Expire(c) ==
  /\ IsFresh(c)
  /\ store' = [store EXCEPT ![c].fresh = FALSE]
  /\ UNCHANGED <<http, created, call, answer, served>>

Next ==
  \/ \E t \in Threads :
       \/ \E m \in Methods, c \in CacheKeys, d \in Values : Start(t, m, c, d)
       \/ Lookup(t)
       \/ EnsureClient(t)
       \/ ReadClient(t)
       \/ \E v \in Values : PostSucceeds(t, v)
       \/ PostFails(t)
  \/ Close
  \/ \E c \in CacheKeys : Expire(c)

Spec == Init /\ [][Next]_vars

\* "Avalia a flag via API (com cache)" and "retorna `default` em caso de
\* falha": whatever fails, a call answers a value that the API gave for its
\* flag and user, or the caller's default.
AnswersFromApi ==
  \A t \in Threads : answer[t] # Null =>
    LET c == answer[t].call
    IN  answer[t].value \in
          {Result(c.method, c.default, v) : v \in served[c.key] \cup {Failed}}

=============================================================================
