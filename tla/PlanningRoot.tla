----------------------------- MODULE PlanningRoot -----------------------------
(***************************************************************************)
(* .planning/ as a whole: the workstream commands and the config commands  *)
(* run side by side, and the health check repairs files of both.           *)
(***************************************************************************)
EXTENDS Workspace, ConfigFile

CONSTANTS MaxCommands,  \* bound on the commands of a behaviour
          MaxCrashes    \* bound on the processes that die

ASSUME CommandsAssumption == MaxCommands \in Nat

VARIABLE issued        \* commands issued so far

vars == << wsVars, cfgVars, issued >>

\* The check stops where the directory it settled on is missing; otherwise an
\* absent STATE.md is repaired before config.json, which e goes on to repair.
Health(p, e) ==
    /\ job[p].op = "resolved" /\ Exists(job[p].name)
    /\ cmdValidateHealth(e)
    /\ IF planningDir(job[p].name)["state"] = {} THEN RegenerateState(p)
       ELSE /\ SetJob(p, Idle("done"))
            /\ UNCHANGED << treeVars, gsd, minted, faults, crashes >>

Init == WsInit /\ CfgInit /\ issued = 0

Issue ==
    /\ issued < MaxCommands /\ issued' = issued + 1
    /\ \/ WsIssue /\ UNCHANGED cfgVars
       \/ \E p \in Editors : CfgIssue(p) /\ UNCHANGED wsVars

Continue ==
    /\ UNCHANGED issued
    /\ \/ (\E p \in Procs : WsContinue(p)) /\ UNCHANGED cfgVars
       \/ (\E p \in Editors : CfgContinue(p)) /\ UNCHANGED wsVars
       \/ \E p \in Procs, e \in Editors : Health(p, e)
    /\ crashes' + cfgCrashes' <= MaxCrashes

Next == Issue \/ Continue

Spec == Init /\ [][Next]_vars

(***************************************************************************)
(* Types: both halves, and the bound on commands.                          *)
(***************************************************************************)
TypeOK == WsTypeOK /\ CfgTypeOK /\ issued <= MaxCommands
=============================================================================
