---------------------------- MODULE MCFlagStore ----------------------------
(***************************************************************************)
(* Small instances of FlagStore for TLC.                                   *)
(***************************************************************************)
EXTENDS FlagStore, TLC

CONSTANTS f1, f2, k1, k2, prod, staging, l1, r1, b1

\* One stored flag, under k1, not yet configured in any environment.
SeedOne ==
  [k \in Keys |->
     IF k = k1
       THEN [id |-> f1, label |-> l1, envs |-> [e \in Envs |-> Null],
             version |-> 1]
       ELSE Null]

\* The same flag configured, disabled and without rules, in every environment.
SeedConfigured ==
  [k \in Keys |->
     IF k = k1
       THEN [id |-> f1, label |-> l1, envs |-> [e \in Envs |-> NewConfig],
             version |-> 1]
       ELSE Null]

\* The same flag enabled in production and, with one rule, disabled elsewhere.
SeedProduction ==
  [k \in Keys |->
     IF k = k1
       THEN [id |-> f1, label |-> l1, version |-> 1,
             envs |-> [e \in Envs |->
                         [enabled |-> e = prod,
                          rules |-> IF e = prod THEN {}
                                    ELSE {[id |-> r1, body |-> b1]}]]]
       ELSE Null]

SeedNone == [k \in Keys |-> Null]

\* A body with no environments, and one with every environment enabled.
TwoConfigs ==
  {[e \in Envs |-> Null], [e \in Envs |-> [enabled |-> TRUE, rules |-> {}]]}

SessionSymmetry == Permutations(Sessions)

=============================================================================
