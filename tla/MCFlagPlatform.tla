--------------------------- MODULE MCFlagPlatform ---------------------------
(***************************************************************************)
(* A small instance of FlagPlatform for TLC.                               *)
(***************************************************************************)
EXTENDS FlagPlatform

CONSTANTS f1, l1, prod

\* One stored flag that is on in production.
SeedOn ==
  [k \in Keys |->
     [id |-> f1, label |-> l1, version |-> 1,
      envs |-> [e \in Envs |-> [enabled |-> TRUE, rules |-> {}]]]]

NoConfigs == {}

=============================================================================
