----------------------------- MODULE MCStateFile -----------------------------
(***************************************************************************)
(* The STATE.md a project may have: the template's plain lines, before and *)
(* after a first command; the same without a status; the older separate    *)
(* bold fields; and the file of a new workstream.                          *)
(***************************************************************************)
EXTENDS StateFile

CONSTANTS n1, n2

Text(front, bold, field, notes, rows) ==
    [front |-> front, bold |-> bold, field |-> field, position |-> TRUE,
     decisions |-> notes, blockers |-> notes, metrics |-> rows]

Lines == [f \in {"Phase", "Plan", "Status", "Progress", "Stopped At"} |->
            CASE f = "Phase"      -> 1
              [] f = "Plan"       -> [cur |-> 1, all |-> 2]
              [] f = "Status"     -> "Ready to plan"
              [] f = "Progress"   -> 0
              [] f = "Stopped At" -> "None"]
Front(status, percent) ==
    [status |-> status, percent |-> percent]

Template == Text(None, {}, Lines, {}, 0)
Synced   == Text(Front("planning", 0), {}, Lines, {}, 0)
NoStatus == Text(Front("executing", 0), {},
                 [f \in DOMAIN Lines \ {"Status"} |-> Lines[f]], {}, 0)

OldFields == [f \in {"Current Phase", "Current Plan", "Total Plans in Phase", "Status"} |->
                IF f = "Status" THEN "Ready to execute"
                ELSE IF f = "Total Plans in Phase" THEN 2 ELSE 1]
Older == [Text(None, DOMAIN OldFields, OldFields, {}, None) EXCEPT !.position = FALSE]

NewFields == [f \in {"Current Phase", "Current Plan", "Status", "Stopped At"} |->
                IF f = "Status" THEN "Not started" ELSE None]
NewWorkstream == Text(Front(None, None), DOMAIN NewFields, NewFields, None, None)

MCCounts == {[plans |-> 2, summaries |-> k] : k \in {1, 2}}

AllFiles == {Template, Synced, NoStatus, Older, NewWorkstream}
OnlyTemplate == {Template}
=============================================================================
