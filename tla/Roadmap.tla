------------------------------- MODULE Roadmap -------------------------------
(***************************************************************************)
(* ROADMAP.md as the planning tools see it: the sequence, in file order,   *)
(* of its phase sections, each with the checklist line and the row of the  *)
(* progress table that carry the same number.  A section is shipped when   *)
(* it lies in the <details> block of an earlier milestone; there is at     *)
(* most one such block, it precedes the current milestone, and nothing     *)
(* follows that one: scoping by the version of STATE.md then keeps what    *)
(* stripping the block keeps (core.cjs:813-880), and a milestone planned   *)
(* after the current one is not modelled.                                  *)
(***************************************************************************)
EXTENDS PhaseNumbers, SequencesExt

CONSTANTS Slugs,      \* slugs a description can produce
          Reqs,       \* requirement identifiers
          NoRef       \* no phase

ASSUME NoRefAssumption == NoRef \notin PhaseRef

Boxes == {"none", "open", "done"}
Rows  == {"none", "Planned", "In Progress", "Complete"}

\* todo is the number in the line "- [ ] TBD (run /gsd-plan-phase N to break
\* down)" of a section phase add or phase insert wrote, which serves as its
\* checkbox; the roadmapper's checklist lines carry the number of the heading.
Section == [num : PhaseNum, pad : BOOLEAN, shipped : BOOLEAN, box : Boxes,
            todo : PhaseRef \cup {NoRef}, row : Rows, reqs : SUBSET Reqs,
            dep : PhaseRef \cup {NoRef}]

Heading(s) == [num |-> s.num, pad |-> s.pad]

\* The number the checkbox of a section names.
BoxRef(s) == IF s.todo = NoRef THEN Heading(s) ELSE s.todo

\* stripShippedMilestones / extractCurrentMilestone: the milestone's own part.
extractCurrentMilestone(rm) ==
    LET kept[i \in 0 .. Len(rm)] ==
          IF i = 0 THEN << >>
          ELSE IF rm[i].shipped THEN kept[i - 1] ELSE Append(kept[i - 1], rm[i])
    IN  kept[Len(rm)]

Current(rm)  == ToSet(extractCurrentMilestone(rm))
Headings(rm) == {Heading(s) : s \in Current(rm)}
NumbersIn(rm) == {s.num : s \in Current(rm)}

\* The first section of the current milestone whose heading has this text.
SectionOf(rm, ref) ==
    LET cur == extractCurrentMilestone(rm)
    IN  cur[SelectInSeq(cur, LAMBDA s : Heading(s) = ref)]

getRoadmapPhaseInternal(rm, ref) ==
    IF ref \in Headings(rm) THEN SectionOf(rm, ref) ELSE NoRef

\* The checklist line a query finds: the first one of the current milestone.
IsChecked(rm, ref) ==
    LET cur == extractCurrentMilestone(rm)
        i   == SelectInSeq(cur, LAMBDA s : BoxRef(s) = ref /\ s.box # "none")
    IN  i # 0 /\ cur[i].box = "done"

\* getMilestonePhaseFilter: without headings every directory passes; numbers
\* are compared without their leading zeros.
isDirInMilestone(rm, num) == NumbersIn(rm) = {} \/ num \in NumbersIn(rm)

(***************************************************************************)
(* Edits.                                                                  *)
(***************************************************************************)
\* replaceInCurrentMilestone of the checkbox: the first open one after the
\* last </details>.
TickBox(rm, ref) ==
    LET i == SelectInSeq(rm, LAMBDA s : ~s.shipped /\ BoxRef(s) = ref /\ s.box = "open")
    IN  IF i = 0 THEN rm ELSE [rm EXCEPT ![i].box = "done"]

\* content.replace of the table row: the first one of the whole file.
SetRow(rm, ref, status) ==
    LET i == SelectInSeq(rm, LAMBDA s : Heading(s) = ref /\ s.row # "none")
    IN  IF i = 0 THEN rm ELSE [rm EXCEPT ![i].row = status]

\* A new section goes right before the phase heading that follows the first
\* section numbered like after, wherever that is; it is shipped when that
\* place is inside the <details> block.
InsertAfter(rm, after, section) ==
    LET i == SelectInSeq(rm, LAMBDA s : s.num = after)
    IN  InsertAt(rm, i + 1,
            [section EXCEPT !.shipped = i < Len(rm) /\ rm[i + 1].shipped])

\* The first section with this heading goes, up to the next phase heading:
\* after the last shipped one that includes the </details>, and what was
\* hidden is then part of the current milestone.  The checklist lines and
\* rows with this number go everywhere.
DropSection(rm, ref) ==
    LET i       == SelectInSeq(rm, LAMBDA s : Heading(s) = ref)
        unclose == i # 0 /\ rm[i].shipped /\ (i = Len(rm) \/ ~rm[i + 1].shipped)
        rest    == IF i = 0 THEN rm ELSE RemoveAt(rm, i)
    IN  [j \in DOMAIN rest |->
           [rest[j] EXCEPT !.shipped = @ /\ ~unclose,
                           !.box = IF BoxRef(rest[j]) = ref THEN "none" ELSE @,
                           !.row = IF Heading(rest[j]) = ref THEN "none" ELSE @]]

MAX_PHASE == 99

\* Mutant of RenumberedInt: every pass of the loop renumbers.
RenumberedIntAlways(n, removed) == n - (MAX_PHASE - removed)

\* The loop rewrites the text "Phase old" to "Phase old-1" for old from
\* MAX_PHASE down to removed + 1, over the text it has already rewritten.
RenumberedInt(n, removed) ==
    LET text[k \in Nat] ==
          IF k >= MAX_PHASE THEN n
          ELSE LET so_far == text[k + 1]
               IN  IF so_far = k + 1 THEN k ELSE so_far
    IN  text[removed]

\* Only headings of whole, unpadded numbers are rewritten, and the checklist
\* lines with them; a dependency is also rewritten when decimals follow its
\* integer.  "plan-phase N" has a small p: the loop does not find it.
Renumber(rm, removed) ==
    [j \in DOMAIN rm |->
       LET s == rm[j]
           n == IF ~s.pad /\ s.num = Whole(s.num.int)
                THEN Whole(RenumberedInt(s.num.int, removed)) ELSE s.num
           d == IF s.dep # NoRef /\ s.dep.num.letter = 0 /\ ~s.dep.pad
                THEN [s.dep EXCEPT !.num.int = RenumberedInt(@, removed)] ELSE s.dep
       IN  [s EXCEPT !.num = n, !.dep = d]]

updateRoadmapAfterPhaseRemoval(rm, ref) ==
    IF ref.num.decs # << >> THEN DropSection(rm, ref)
    ELSE Renumber(DropSection(rm, ref), ref.num.int)
=============================================================================
