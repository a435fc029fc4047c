-------------------------- MODULE SdkClientProofs --------------------------
(***************************************************************************)
(* Theorems about SdkClient, for every set of threads, flags and values    *)
(* and however entries expire and clients are closed.                      *)
(***************************************************************************)
EXTENDS SdkClient, TLAPS

\* What a caller gets for a cache miss.
MissAnswer(reply) ==
  reply.value = Result(reply.call.method, reply.call.default, Missing)

\* Nothing is cached, no client is made, the API is not asked, and whoever
\* has an answer has the one for a cache miss.
NeverAsked ==
  /\ store = [c \in CacheKeys |-> Null]
  /\ http = Null /\ created = 0
  /\ served = [c \in CacheKeys |-> {}]
  /\ \A t \in Threads : answer[t] # Null => MissAnswer(answer[t])

\* It stays so because no call gets beyond its lookup.
Stuck ==
  /\ NeverAsked
  /\ call = [t \in Threads |-> call[t]] /\ answer = [t \in Threads |-> answer[t]]
  /\ \A t \in Threads : call[t] # Null => call[t].step = "lookup" /\ call[t].key \in CacheKeys

LEMMA InitStuck == Init => Stuck
BY DEF Init, Stuck, NeverAsked

LEMMA NextStuck ==
  ASSUME Missing # Failed, Stuck, [Next]_vars
  PROVE  Stuck'
<1>1. ASSUME NEW t \in Threads, NEW method \in Methods, NEW c \in CacheKeys,
             NEW default \in Values, Start(t, method, c, default)
      PROVE  Stuck'
  BY <1>1 DEF Start, Stuck, NeverAsked
<1>2. ASSUME NEW t \in Threads, Lookup(t)
      PROVE  Stuck'
  <2> PICK c : c = call[t].key
    OBVIOUS
  <2>1. c \in CacheKeys /\ ~IsFresh(c)
    BY <1>2 DEF Lookup, At, Stuck, NeverAsked, IsFresh
  <2>2. Get(c) = Missing
    BY <2>1 DEF Get
  <2>3. /\ store' = [store EXCEPT ![c] = Null]
        /\ Return(t, Missing)
        /\ UNCHANGED <<http, created, served>>
    BY <1>2, <2>1, <2>2 DEF Lookup
  <2>4. store' = store
    BY <2>1, <2>3 DEF Stuck, NeverAsked
  <2>5. call' = [call EXCEPT ![t] = Null]
    BY <2>3 DEF Return
  <2> PICK reply : reply = [call |-> call[t],
                            value |-> Result(call[t].method, call[t].default, Missing)]
    OBVIOUS
  <2>6. answer' = [answer EXCEPT ![t] = reply]
    BY <2>3 DEF Return
  <2>7. MissAnswer(reply)
    BY DEF MissAnswer
  <2> QED
    BY <2>3, <2>4, <2>5, <2>6, <2>7 DEF Stuck, NeverAsked
<1>3. ASSUME NEW t \in Threads,
             \/ EnsureClient(t) \/ ReadClient(t) \/ PostFails(t)
             \/ \E v \in Values : PostSucceeds(t, v)
      PROVE  Stuck'
  BY <1>3 DEF EnsureClient, ReadClient, PostFails, PostSucceeds, At, Stuck
<1>4. CASE Close
  BY <1>4 DEF Close, Stuck, NeverAsked
<1>5. ASSUME NEW c \in CacheKeys, Expire(c)
      PROVE  Stuck'
  BY <1>5 DEF Expire, IsFresh, Stuck, NeverAsked
<1>6. CASE UNCHANGED vars
  BY <1>6 DEF vars, Stuck, NeverAsked
<1> QED
  BY <1>1, <1>2, <1>3, <1>4, <1>5, <1>6 DEF Next

\* The two sentinels are different objects (client.py:32, cache.py:14), so
\* what the cache returns for a miss is taken for a hit (client.py:81-83): no
\* call ever sends a request, and every call is answered with the cache's
\* sentinel or with what bool() makes of it, whatever threads, flags and
\* values there are.
THEOREM ApiNeverAsked ==
  ASSUME Missing # Failed
  PROVE  Spec => []NeverAsked
<1>1. Stuck /\ [Next]_vars => Stuck'
  BY NextStuck
<1>2. Stuck => NeverAsked
  BY DEF Stuck
<1> QED
  BY InitStuck, <1>1, <1>2, PTL DEF Spec

=============================================================================
