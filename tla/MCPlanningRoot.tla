---------------------------- MODULE MCPlanningRoot ----------------------------
(***************************************************************************)
(* Config files a project may start from: none, or one of an old release   *)
(* with keys that loadConfig migrates, a flat key that hides a nested one, *)
(* and nothing about the validation that the health check adds.            *)
(***************************************************************************)
EXTENDS PlanningRoot, TLC

CONSTANTS r1

Old == Json("depth" :> "quick" @@ "multiRepo" :> TRUE @@ "model_profile" :> "quality"
            @@ "branching_strategy" :> "phase" @@ "workflow.research" :> TRUE)
MCInitConfigs == {Absent, Old}
MCRepos == {r1}
MCDone == {3}
MCFinished == {2}
MCSymmetry == Permutations(Procs) \cup Permutations(Editors) \cup Permutations(Names)
=============================================================================
