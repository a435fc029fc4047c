----------------------------- MODULE MCPlanning -----------------------------
(***************************************************************************)
(* Roadmaps the roadmapper may have written: a fresh milestone of three    *)
(* phases in a chain, and a milestone that numbers its phases again from 1 *)
(* next to a shipped one whose checkbox was never ticked.                  *)
(***************************************************************************)
EXTENDS PlanningQueries

CONSTANT R1

Written(n, gone, box, row, ids, dep) ==
    [num |-> Whole(n), pad |-> FALSE, shipped |-> gone, box |-> box,
     todo |-> NoRef, row |-> row, reqs |-> ids, dep |-> dep]
Open(n, ids, dep) == Written(n, FALSE, "open", "Planned", ids, dep)

Fresh(n) == [i \in 1 .. n |-> Open(i, IF i = 1 THEN {R1} ELSE {},
                                   IF i = 1 THEN NoRef ELSE Plain(Whole(i - 1)))]
Again == << Written(1, TRUE, "open", "Complete", {}, NoRef),
            Open(1, {R1}, NoRef), Open(2, {}, Plain(Whole(1))) >>

FreshRoadmaps == {Fresh(3)}
MCRoadmaps == {Fresh(3), Again}
=============================================================================
