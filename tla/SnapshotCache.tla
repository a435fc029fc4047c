---------------------------- MODULE SnapshotCache ----------------------------
(***************************************************************************)
(* What the replicas' caches promise a reader, without sessions, messages  *)
(* or Redis: what a replica serves for a flag is the row that was          *)
(* committed when the replica loaded its cache, or nothing.  An entry is   *)
(* never changed in place and never filled again; only a new load of all   *)
(* flags brings a forgotten one back.                                      *)
(***************************************************************************)
CONSTANTS Keys, Rows, Replicas, Null

VARIABLES
  flags,   \* the committed rows
  view     \* what each replica would serve

vars == <<flags, view>>

Nothing == [k \in Keys |-> Null]

Init ==
  /\ flags \in [Keys -> Rows \cup {Null}]
  /\ view = [r \in Replicas |-> Nothing]

\* One flag is created, changed or deleted.
Commit(k) ==
  /\ flags'[k] \in Rows \cup {Null}
  /\ flags' = [flags EXCEPT ![k] = flags'[k]]
  /\ UNCHANGED view

Load(r) ==
  /\ view[r] = Nothing
  /\ view' = [view EXCEPT ![r] = flags]
  /\ UNCHANGED flags

Forget(r, k) ==
  /\ view' = [view EXCEPT ![r][k] = Null]
  /\ UNCHANGED flags

Unload(r) ==
  /\ view' = [view EXCEPT ![r] = Nothing]
  /\ UNCHANGED flags

Next ==
  \/ \E k \in Keys : Commit(k)
  \/ \E r \in Replicas : Load(r) \/ Unload(r) \/ \E k \in Keys : Forget(r, k)

Spec == Init /\ [][Next]_vars

=============================================================================
