---------------------------- MODULE PlanningTree ----------------------------
(***************************************************************************)
(* The planning tree of one project (bin/lib/phase.cjs, roadmap.cjs,       *)
(* milestone.cjs and the scaffold command): ROADMAP.md, the phase          *)
(* directories, REQUIREMENTS.md, STATE.md and the milestone archive, and   *)
(* the commands that keep them in step.  A command is one action; the      *)
(* interleaving of commands on STATE.md is the subject of StateFile.       *)
(***************************************************************************)
EXTENDS Roadmap, FiniteSets, FiniteSetsExt

CONSTANTS MaxInt,       \* largest whole phase a command may create
          MaxDecimal,   \* largest decimal a command may create
          PlanIds,      \* plan numbers within a phase
          MaxCommands,  \* bound on the commands of a behaviour
          MaxFiles,     \* bound on the files agents have in phases/ at a time
          InitRoadmaps  \* roadmaps the roadmapper may have written

ASSUME PlanningAssumption ==
    /\ MaxInt \in Nat /\ MaxCommands \in Nat /\ IsFiniteSet(PlanIds)
    /\ \A rm \in InitRoadmaps :
         /\ rm \in Seq(Section)
         /\ \A i \in DOMAIN rm : Counted(rm[i].num) /\ rm[i].num.int <= MaxInt

VARIABLES roadmap,      \* ROADMAP.md, a sequence of sections
          dirs,         \* phases/: directory name -> contents
          reqs,         \* REQUIREMENTS.md: checkbox and traceability row
          state,        \* the fields of STATE.md these commands use
          archive,      \* milestones/: phase directories and the two copied files
          shipped,      \* MILESTONES.md, newest first
          commands      \* commands issued so far

vars == << roadmap, dirs, reqs, state, archive, shipped, commands >>

DirName  == [num : PhaseNum, slug : Slugs]
Contents == [plans : SUBSET PlanIds, summaries : SUBSET PlanIds,
             context : BOOLEAN, research : BOOLEAN]
EmptyDir == [plans |-> {}, summaries |-> {}, context |-> FALSE, research |-> FALSE]

NoDirs == [d \in {} |-> EmptyDir]

\* mkdirSync(recursive): an existing directory keeps what it holds.
MkDir(ds, name) ==
    [d \in DOMAIN ds \cup {name} |-> IF d \in DOMAIN ds THEN ds[d] ELSE EmptyDir]

(***************************************************************************)
(* Finding a phase.  Directories are sorted by number; readdir decides     *)
(* among equal numbers.                                                    *)
(***************************************************************************)
Sorted(ds) == SetToSortSeq(DOMAIN ds, LAMBDA a, b : Before(a.num, b.num))

FirstOf(names) ==
    {d \in names : \A e \in names : ~Before(e.num, d.num)}

\* Mutant of searchPhaseInDir: any directory with the prefix, in no order.
searchPhaseInDirUnsorted(ds, p) == {d \in DOMAIN ds : StartsWith(d.num, p)}

\* searchPhaseInDir: the first directory whose name starts with the number.
searchPhaseInDir(ds, p) == FirstOf({d \in DOMAIN ds : StartsWith(d.num, p)})

\* findPhaseInternal: current phases first, then the archive.
findPhaseInternal(p) ==
    IF searchPhaseInDir(dirs, p) # {}
    THEN {dirs[d] : d \in searchPhaseInDir(dirs, p)}
    ELSE {archive.phases[d] : d \in searchPhaseInDir(archive.phases, p)}

(***************************************************************************)
(* phase add / insert                                                      *)
(***************************************************************************)
NewSection(num, pad, dep) ==
    [num |-> num, pad |-> pad, shipped |-> FALSE, box |-> "open",
     todo |-> [num |-> num, pad |-> pad], row |-> "none", reqs |-> {}, dep |-> dep]

Command == commands < MaxCommands /\ commands' = commands + 1

\* One more than the largest integer of the current milestone's headings.
PhaseAdd(slug) ==
    LET n == Max({p.int : p \in NumbersIn(roadmap)} \cup {0}) + 1 IN
    /\ Command /\ n <= MaxInt
    /\ dirs' = MkDir(dirs, [num |-> Whole(n), slug |-> slug])
    /\ roadmap' = Append(roadmap, NewSection(Whole(n), FALSE, Plain(Whole(n - 1))))
    /\ UNCHANGED << reqs, state, archive, shipped >>

\* The decimals already on disk directly under p, whatever their slug.
DecimalsUnder(ds, p) ==
    LET n == Len(p.decs) IN
    {d.num.decs[n + 1] : d \in {e \in DOMAIN ds :
        /\ e.num.int = p.int /\ e.num.letter = p.letter
        /\ Len(e.num.decs) > n /\ SubSeq(e.num.decs, 1, n) = p.decs}}

NextDecimal(ds, p) == Max(DecimalsUnder(ds, p) \cup {0}) + 1

\* The phase must be in the current milestone, but the place of insertion
\* is looked up in the whole file.
PhaseInsert(ref, slug) ==
    LET num == Child(ref.num, NextDecimal(dirs, ref.num)) IN
    /\ Command /\ NextDecimal(dirs, ref.num) <= MaxDecimal
    /\ ref.num \in NumbersIn(roadmap)
    /\ dirs' = MkDir(dirs, [num |-> num, slug |-> slug])
    /\ roadmap' = InsertAfter(roadmap, ref.num, NewSection(num, TRUE, ref))
    /\ UNCHANGED << reqs, state, archive, shipped >>

(***************************************************************************)
(* phase remove: the directory goes, later ones are renamed one by one in  *)
(* descending order, and renaming stops without an error at the first      *)
(* directory whose new name is taken: every directory is taken to hold at  *)
(* least the .gitkeep that phase add and phase insert write.               *)
(***************************************************************************)
\* What renameDecimalPhases and renameIntegerPhases would rename a name to.
Shifted(d, removed) ==
    IF removed.decs # << >> THEN [d EXCEPT !.num.decs[1] = @ - 1]
                            ELSE [d EXCEPT !.num.int = @ - 1]

ToRename(names, removed) ==
    IF removed.decs # << >>
    THEN {d \in names : /\ d.num.int = removed.int /\ d.num.letter = removed.letter
                        /\ Len(d.num.decs) = 1 /\ d.num.decs[1] > removed.decs[1]}
    ELSE {d \in names : d.num.int > removed.int /\ Len(d.num.decs) <= 1}

\* The sort key of the renaming loops.
Key(d) == [d.num EXCEPT !.letter = 0]
Later(d, e) == Before(Key(e), Key(d))

\* The sets of directories that can have been renamed when the loop ends.
Renamings(names, removed) ==
    LET todo    == ToRename(names, removed)
        blocked == {d \in todo : Shifted(d, removed) \in names}
        free    == todo \ blocked
    IN  IF blocked = {} THEN {todo}
        ELSE LET stop == {d \in blocked : \A e \in blocked : ~Later(e, d)}
                 sure == {d \in free : \A e \in stop : Later(d, e)}
                 tied == {d \in free \ sure : \A e \in stop : ~Later(e, d)}
             IN  {sure \cup t : t \in SUBSET tied}

RenameDirs(ds, moved, removed) ==
    LET names == (DOMAIN ds \ moved) \cup {Shifted(d, removed) : d \in moved}
    IN  [n \in names |->
           IF \E d \in moved : Shifted(d, removed) = n
           THEN ds[CHOOSE d \in moved : Shifted(d, removed) = n] ELSE ds[n]]

\* The directory phase remove deletes: the number exactly.
RemovalTarget(p) == {d \in DOMAIN dirs : d.num = p}

\* Mutant of MayRemove: without a look at the summaries.
MayRemoveAny(d, force) == TRUE

\* A directory that holds summaries is only removed with --force.
MayRemove(d, force) == force \/ dirs[d].summaries = {}

PhaseRemove(ref, force) ==
    LET target == RemovalTarget(ref.num) IN
    /\ Command
    /\ \E gone \in IF target = {} THEN {{}} ELSE {{d} : d \in target} :
         /\ \A d \in gone : MayRemove(d, force)
         /\ LET left == Restrict(dirs, DOMAIN dirs \ gone) IN
            \E moved \in Renamings(DOMAIN left, ref.num) :
               dirs' = RenameDirs(left, moved, ref.num)
    /\ roadmap' = updateRoadmapAfterPhaseRemoval(roadmap, ref)
    /\ state' = [state EXCEPT !.total = @ - 1]
    /\ UNCHANGED << reqs, archive, shipped >>

(***************************************************************************)
(* phase complete and roadmap update-plan-progress                         *)
(***************************************************************************)
\* Requirements of the completed phase's section are ticked in REQUIREMENTS.md.
CompleteRequirements(rm, ref) ==
    LET found == IF ref \in Headings(rm) THEN SectionOf(rm, ref).reqs ELSE {}
    IN  [r \in Reqs |->
           IF r \in found THEN [box |-> TRUE, row |-> "Complete"] ELSE reqs[r]]

\* The next phase: the first later directory of the milestone, else the first
\* later heading of the roadmap.
LaterDirs(rm, ref) ==
    {d \in DOMAIN dirs : isDirInMilestone(rm, d.num) /\ Before(ref.num, d.num)}

\* Mutant of NextPhase: the roadmap is not asked.
NextPhaseOnDisk(rm, ref) ==
    IF LaterDirs(rm, ref) = {} THEN NoRef
    ELSE Padded((CHOOSE d \in FirstOf(LaterDirs(rm, ref)) : TRUE).num)

NextPhase(rm, ref) ==
    LET cur == extractCurrentMilestone(rm)
        i   == SelectInSeq(cur, LAMBDA s : Before(ref.num, s.num))
    IN  IF LaterDirs(rm, ref) # {}
        THEN Padded((CHOOSE d \in FirstOf(LaterDirs(rm, ref)) : TRUE).num)
        ELSE IF i # 0 THEN Heading(cur[i]) ELSE NoRef

Percent(part, all) == IF all > 0 THEN (200 * part + all) \div (2 * all) ELSE 0

\* STATE.md after phase complete: the counter grows whenever it is called.
CompleteState(rm, ref) ==
    LET next == NextPhase(rm, ref)
        done == state.completed + 1
    IN  [state EXCEPT
           !.phase     = IF next = NoRef THEN ref ELSE next,
           !.status    = IF next = NoRef THEN "Milestone complete" ELSE "Ready to plan",
           !.completed = done,
           !.percent   = IF state.total > 0 THEN Percent(done, state.total) ELSE @]

PhaseComplete(ref) ==
    LET rm == SetRow(TickBox(roadmap, ref), ref, "Complete") IN
    /\ Command
    /\ findPhaseInternal(ref.num) # {}
    /\ roadmap' = rm
    /\ reqs' = CompleteRequirements(rm, ref)
    /\ state' = CompleteState(rm, ref)
    /\ UNCHANGED << dirs, archive, shipped >>

UpdatePlanProgress(ref) ==
    /\ Command
    /\ \E found \in findPhaseInternal(ref.num) :
         LET done   == Cardinality(found.summaries) >= Cardinality(found.plans)
             status == IF done THEN "Complete"
                       ELSE IF found.summaries # {} THEN "In Progress" ELSE "Planned"
             rm     == SetRow(roadmap, ref, status)
         IN  /\ found.plans # {}
             /\ roadmap' = IF done THEN TickBox(rm, ref) ELSE rm
    /\ UNCHANGED << dirs, reqs, state, archive, shipped >>

(***************************************************************************)
(* requirements mark-complete and milestone complete                       *)
(***************************************************************************)
\* Only rows that say Pending are completed here.
MarkComplete(ids) ==
    /\ Command
    /\ reqs' = [r \in Reqs |->
                  IF r \notin ids THEN reqs[r]
                  ELSE [box |-> TRUE,
                        row |-> IF reqs[r].row = "Pending" THEN "Complete"
                                ELSE reqs[r].row]]
    /\ UNCHANGED << roadmap, dirs, state, archive, shipped >>

\* The phases of the milestone, with the plans the entry reports.
MilestoneDirs == {d \in DOMAIN dirs : isDirInMilestone(roadmap, d.num)}

MilestoneStats ==
    [phases |-> Cardinality(MilestoneDirs),
     plans  |-> MapThenSumSet(LAMBDA d : Cardinality(dirs[d].plans), MilestoneDirs)]

\* Directories are moved one by one in readdir order; the first whose name is
\* taken in the archive ends the loop without an error.
MilestoneComplete(archivePhases) ==
    /\ Command
    /\ shipped' = << MilestoneStats >> \o shipped
    /\ state' = [state EXCEPT !.status = "v1 milestone complete"]
    /\ LET blocked == MilestoneDirs \cap DOMAIN archive.phases IN
       \E moved \in IF ~archivePhases THEN {{}}
                    ELSE IF blocked = {} THEN {MilestoneDirs}
                    ELSE SUBSET (MilestoneDirs \ blocked) :
          /\ dirs' = Restrict(dirs, DOMAIN dirs \ moved)
          /\ archive' = [phases  |-> [d \in DOMAIN archive.phases \cup moved |->
                                        IF d \in moved THEN dirs[d] ELSE archive.phases[d]],
                         roadmap |-> roadmap, reqs |-> reqs]
    /\ UNCHANGED << roadmap, reqs >>

(***************************************************************************)
(* scaffold phase-dir and scaffold context                                 *)
(***************************************************************************)
ScaffoldPhaseDir(p, slug) ==
    /\ Command
    /\ dirs' = MkDir(dirs, [num |-> p, slug |-> slug])
    /\ UNCHANGED << roadmap, reqs, state, archive, shipped >>

\* An existing file is left alone; an archived phase can be found too.
ScaffoldContext(p) ==
    /\ Command
    /\ \/ \E d \in searchPhaseInDir(dirs, p) :
            /\ dirs' = [dirs EXCEPT ![d].context = TRUE]
            /\ UNCHANGED archive
       \/ /\ searchPhaseInDir(dirs, p) = {}
          /\ \E d \in searchPhaseInDir(archive.phases, p) :
               archive' = [archive EXCEPT !.phases[d].context = TRUE]
          /\ UNCHANGED dirs
    /\ UNCHANGED << roadmap, reqs, state, shipped >>

(***************************************************************************)
(* What the agents write between commands.                                 *)
(***************************************************************************)
FilesWritten ==
    MapThenSumSet(LAMBDA d : Cardinality(dirs[d].plans) + Cardinality(dirs[d].summaries)
                             + (IF dirs[d].research THEN 1 ELSE 0), DOMAIN dirs)

AgentWrites(d) ==
    /\ \/ \E k \in PlanIds :
            /\ k \notin dirs[d].plans
            /\ dirs' = [dirs EXCEPT ![d].plans = @ \cup {k}]
       \/ \E k \in dirs[d].plans :
            /\ k \notin dirs[d].summaries
            /\ dirs' = [dirs EXCEPT ![d].summaries = @ \cup {k}]
       \/ ~dirs[d].research /\ dirs' = [dirs EXCEPT ![d].research = TRUE]
    /\ commands < MaxCommands /\ FilesWritten < MaxFiles
    /\ UNCHANGED << roadmap, reqs, state, archive, shipped, commands >>

-----------------------------------------------------------------------------
Init ==
    /\ roadmap \in InitRoadmaps
    /\ \/ dirs = NoDirs
       \/ \E slug \in Slugs :
            dirs = [d \in [num : NumbersIn(roadmap), slug : {slug}] |-> EmptyDir]
    /\ \E slug \in Slugs, gone \in {{}, {s.num : s \in {t \in ToSet(roadmap) : t.shipped}}} :
         archive = [phases  |-> [d \in [num : gone, slug : {slug}] |->
                                   [EmptyDir EXCEPT !.plans = PlanIds, !.summaries = PlanIds]],
                    roadmap |-> << >>, reqs |-> << >>]
    /\ reqs \in [Reqs -> [box : {FALSE}, row : {"Pending"}]]
    /\ state = [phase |-> NoRef, status |-> "Ready to plan", completed |-> 0,
                total |-> Len(extractCurrentMilestone(roadmap)), percent |-> 0]
    /\ shipped = << >>
    /\ commands = 0

\* What a user may type: any number in sight, padded or not.
KnownNumbers == NumbersIn(roadmap) \cup {d.num : d \in DOMAIN dirs}
Refs == [num : KnownNumbers, pad : BOOLEAN]

Next ==
    \/ \E slug \in Slugs : PhaseAdd(slug)
    \/ \E ref \in Refs, slug \in Slugs : PhaseInsert(ref, slug)
    \/ \E ref \in Refs, force \in BOOLEAN : PhaseRemove(ref, force)
    \/ \E ref \in Refs : PhaseComplete(ref)
    \/ \E ref \in Refs : UpdatePlanProgress(ref)
    \/ \E ids \in SUBSET Reqs \ {{}} : MarkComplete(ids)
    \/ \E archivePhases \in BOOLEAN : MilestoneComplete(archivePhases)
    \/ \E p \in NumbersIn(roadmap), slug \in Slugs : ScaffoldPhaseDir(p, slug)
    \/ \E p \in KnownNumbers : ScaffoldContext(p)
    \/ \E d \in DOMAIN dirs : AgentWrites(d)

Spec == Init /\ [][Next]_vars
=============================================================================
