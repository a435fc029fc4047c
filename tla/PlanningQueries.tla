--------------------------- MODULE PlanningQueries ---------------------------
(***************************************************************************)
(* The read-only commands over the planning tree: listings, roadmap        *)
(* analyze, the manager's dashboard, progress, statistics and the          *)
(* validators, as operators on the tree, and what they must agree on.      *)
(* Each of them parses the files again in its own way.                     *)
(***************************************************************************)
EXTENDS PlanningTree

(***************************************************************************)
(* Listings of one directory.                                              *)
(***************************************************************************)
\* phases list: the sorted directories, one of them when a phase is given.
PhasesList == Sorted(dirs)

\* find-phase looks at the current phases only.
FindPhase(p) == searchPhaseInDir(dirs, p)

\* phase next-decimal
PhaseNextDecimal(p) == Child(p, NextDecimal(dirs, p))

\* phase-plan-index and verify phase-completeness
IncompletePlans(files) == files.plans \ files.summaries
OrphanSummaries(files) == files.summaries \ files.plans
PhaseComplete_(files)  == IncompletePlans(files) = {}

AllPlansDone(files) ==
    /\ files.plans # {}
    /\ Cardinality(files.summaries) >= Cardinality(files.plans)

\* The directory of exactly this number, among those a query considers.
DirectoryOf(names, p) ==
    LET here == {d \in names : d.num = p}
    IN  IF here = {} THEN {} ELSE {CHOOSE d \in here : TRUE}

DiskStatus(found) ==
    IF found = {} THEN "no_directory"
    ELSE LET files == dirs[CHOOSE d \in found : TRUE] IN
         IF AllPlansDone(files) THEN "complete"
         ELSE IF files.summaries # {} THEN "partial"
         ELSE IF files.plans # {} THEN "planned"
         ELSE IF files.research THEN "researched"
         ELSE IF files.context THEN "discussed"
         ELSE "empty"

(***************************************************************************)
(* roadmap analyze                                                         *)
(***************************************************************************)
\* A ticked checkbox overrides what is on disk.
Trusted(status, ref) == IF IsChecked(roadmap, ref) THEN "complete" ELSE status

AnalyzePhase(s) ==
    LET found == DirectoryOf(DOMAIN dirs, s.num) IN
    [ref |-> Heading(s), dep |-> s.dep,
     status    |-> Trusted(DiskStatus(found), Heading(s)),
     plans     |-> MapThenSumSet(LAMBDA d : Cardinality(dirs[d].plans), found),
     summaries |-> MapThenSumSet(LAMBDA d : Cardinality(dirs[d].summaries), found)]

Analyze ==
    LET cur == extractCurrentMilestone(roadmap)
    IN  [i \in DOMAIN cur |-> AnalyzePhase(cur[i])]

FirstWith(phases, statuses) ==
    LET i == SelectInSeq(phases, LAMBDA p : p.status \in statuses)
    IN  IF i = 0 THEN NoRef ELSE phases[i].ref

AnalyzeCurrent == FirstWith(Analyze, {"planned", "partial"})
AnalyzeNext ==
    FirstWith(Analyze, {"empty", "no_directory", "discussed", "researched"})

ProgressPercent(summaries, plans) ==
    IF plans > 0 THEN Min({100, Percent(summaries, plans)}) ELSE 0

AnalyzeTotals ==
    LET ps == Analyze
        Total(f(_)) == FoldLeft(LAMBDA acc, p : acc + f(p), 0, ps)
    IN  [plans     |-> Total(LAMBDA p : p.plans),
         summaries |-> Total(LAMBDA p : p.summaries),
         percent   |-> ProgressPercent(Total(LAMBDA p : p.summaries),
                                       Total(LAMBDA p : p.plans)),
         completed |-> Total(LAMBDA p : IF p.status = "complete" THEN 1 ELSE 0)]

(***************************************************************************)
(* init manager.  active: the phases (by position) with a file written in  *)
(* the last five minutes.                                                  *)
(***************************************************************************)
\* Mutant of ManagerPhase: no look at the checkbox.
ManagerPhaseOnDisk(s) ==
    [ref |-> Heading(s), dep |-> s.dep,
     status |-> DiskStatus(DirectoryOf({d \in DOMAIN dirs : isDirInMilestone(roadmap, d.num)},
                                       s.num))]

ManagerPhase(s) ==
    [ref |-> Heading(s), dep |-> s.dep,
     status |-> Trusted(DiskStatus(DirectoryOf(
                           {d \in DOMAIN dirs : isDirInMilestone(roadmap, d.num)}, s.num)),
                        Heading(s))]

ManagerPhases ==
    LET cur == extractCurrentMilestone(roadmap)
    IN  [i \in DOMAIN cur |-> ManagerPhase(cur[i])]

\* Dependencies are matched as text with the numbers of complete phases.
CompletedNums(phases) == {p.ref : p \in {q \in ToSet(phases) : q.status = "complete"}}
\* Mutant of DepsSatisfied: a dependency only has to exist.
DepsKnown(phases, p) == p.dep = NoRef \/ p.dep \in {q.ref : q \in ToSet(phases)}

DepsSatisfied(phases, p) == p.dep = NoRef \/ p.dep \in CompletedNums(phases)

\* Only the first phase nobody discussed is offered for discussion.
NextToDiscuss(phases) ==
    SelectInSeq(phases, LAMBDA p : p.status \in {"empty", "no_directory"})

RecommendedActions(phases) ==
    {[at |-> i, action |-> "execute"] : i \in {j \in DOMAIN phases :
         phases[j].status = "planned" /\ DepsSatisfied(phases, phases[j])}}
    \cup {[at |-> i, action |-> "plan"] : i \in {j \in DOMAIN phases :
         phases[j].status \in {"discussed", "researched"}}}
    \cup {[at |-> i, action |-> "discuss"] : i \in {NextToDiscuss(phases)} \ {0}}

\* phaseMap.get: among equal numbers the last section wins.
Entry(phases, ref) == SelectLastInSeq(phases, LAMBDA p : p.ref = ref)

\* reaches: to is a dependency of from, directly or transitively.
Reaches(phases, from, to) ==
    LET chain[n \in 0 .. Len(phases)] ==
          IF n = 0 THEN {from}
          ELSE {phases[Entry(phases, r)].dep :
                  r \in {q \in chain[n - 1] : q # NoRef /\ Entry(phases, q) # 0}}
    IN  \E n \in 1 .. Len(phases) : to \in chain[n]

Related(phases, a, b) == Reaches(phases, a, b) \/ Reaches(phases, b, a)

\* A recommendation is dropped when it is related to work of the same kind
\* that is already going on.
FilteredActions(phases, active) ==
    LET executing == {i \in DOMAIN phases :
                        \/ phases[i].status = "partial"
                        \/ phases[i].status = "planned" /\ i \in active}
        planning  == {i \in active : phases[i].status \in {"discussed", "researched"}}
        Free(a, busy) == \A i \in busy : ~Related(phases, phases[a.at].ref, phases[i].ref)
    IN  {a \in RecommendedActions(phases) :
           /\ a.action = "execute" => Free(a, executing)
           /\ a.action = "plan"    => Free(a, planning)}

(***************************************************************************)
(* init execute-phase, plan-phase, verify-work and phase-op: the phase an  *)
(* agent is sent to.  A phase without a directory is taken from ROADMAP.md. *)
(***************************************************************************)
Located(p) ==
    IF searchPhaseInDir(dirs, p) # {}
    THEN {[num |-> d.num, archived |-> FALSE, files |-> dirs[d]] : d \in searchPhaseInDir(dirs, p)}
    ELSE {[num |-> d.num, archived |-> TRUE, files |-> archive.phases[d]] :
            d \in searchPhaseInDir(archive.phases, p)}

FromRoadmap(ref) ==
    IF ref \in Headings(roadmap)
    THEN {[num |-> ref.num, archived |-> FALSE, files |-> EmptyDir]} ELSE {}

Offered(ref) == IF Located(ref.num) # {} THEN Located(ref.num) ELSE FromRoadmap(ref)

\* phase_req_ids come from the roadmap, whatever directory was found.
RequiredBy(ref) == IF ref \in Headings(roadmap) THEN SectionOf(roadmap, ref).reqs ELSE {}

InitExecutePhase(ref) ==
    {[phase |-> c, reqs |-> RequiredBy(ref), incomplete |-> IncompletePlans(c.files)] :
       c \in Offered(ref)}

InitPlanPhase(ref) ==
    {[phase |-> c, reqs |-> RequiredBy(ref), has_plans |-> c.files.plans # {}] :
       c \in Offered(ref)}

InitVerifyWork(ref) == {[phase |-> c] : c \in Offered(ref)}

\* Mutant of InitPhaseOp: the archive is as good as phases/.
InitPhaseOpAnywhere(ref) == InitVerifyWork(ref)

\* phase-op prefers the roadmap to an archived directory.
InitPhaseOp(ref) ==
    {[phase |-> c] : c \in
       IF (\E d \in Located(ref.num) : d.archived) /\ FromRoadmap(ref) # {}
       THEN FromRoadmap(ref) ELSE Offered(ref)}

(***************************************************************************)
(* init progress, progress and stats                                       *)
(***************************************************************************)
ProgressStatus(files) ==
    IF AllPlansDone(files) THEN "complete"
    ELSE IF files.plans # {} THEN "in_progress"
    ELSE IF files.research THEN "researched" ELSE "pending"

\* One entry per directory of the milestone, and one for each number of the
\* roadmap that has none, without regard to padding.
InitProgress ==
    LET names == {d \in DOMAIN dirs : isDirInMilestone(roadmap, d.num)} IN
    {[num |-> d.num, slug |-> {d.slug}, status |-> ProgressStatus(dirs[d])] : d \in names}
    \cup {[num |-> p, slug |-> {}, status |-> "not_started"] :
            p \in NumbersIn(roadmap) \ {d.num : d \in names}}

RowStatus(files, none) ==
    IF files.plans = {} THEN none
    ELSE IF AllPlansDone(files) THEN "Complete"
    ELSE IF files.summaries # {} THEN "In Progress" ELSE "Planned"

\* progress: every directory counts, whatever its milestone.
ProgressRender ==
    LET Sum(f(_)) == MapThenSumSet(f, DOMAIN dirs) IN
    [rows    |-> [d \in DOMAIN dirs |-> RowStatus(dirs[d], "Pending")],
     percent |-> ProgressPercent(Sum(LAMBDA d : Cardinality(dirs[d].summaries)),
                                 Sum(LAMBDA d : Cardinality(dirs[d].plans)))]

\* stats: the map is keyed by the number's text, so the heading "1" and the
\* directory "01" are two entries.
StatsPhases ==
    LET names == {d \in DOMAIN dirs : isDirInMilestone(roadmap, d.num)}
        keys  == Headings(roadmap) \cup {Padded(d.num) : d \in names}
        Held(key) == {d \in names : Padded(d.num) = key}
    IN  [key \in keys |->
           IF Held(key) = {} THEN "Not Started"
           ELSE RowStatus(dirs[CHOOSE d \in Held(key) : TRUE], "Not Started")]

Stats ==
    LET all  == DOMAIN StatsPhases
        done == {key \in all : StatsPhases[key] = "Complete"}
    IN  [total |-> Cardinality(all), completed |-> Cardinality(done),
         percent |-> Min({100, Percent(Cardinality(done), Cardinality(all))}),
         requirements |-> Cardinality({r \in Reqs : reqs[r].box})]

(***************************************************************************)
(* validate consistency and the part of validate health that repeats it    *)
(***************************************************************************)
\* A heading has a directory when its own text or its padded text names one.
MissingOnDisk ==
    {ref \in Headings(roadmap) : ~\E d \in DOMAIN dirs : d.num = ref.num}

\* Mutant of NotInRoadmap: whole phases are taken for known.
DecimalsNotInRoadmap ==
    {d \in DOMAIN dirs : /\ d.num.decs # << >>
                         /\ Padded(d.num) \notin Headings(roadmap)
                         /\ Plain(Whole(d.num.int)) \notin Headings(roadmap)}

\* A directory is known when a heading has its text, or the text of its
\* integer alone, without padding.
NotInRoadmap ==
    {d \in DOMAIN dirs : /\ Padded(d.num) \notin Headings(roadmap)
                         /\ Plain(Whole(d.num.int)) \notin Headings(roadmap)}

NumberingGaps ==
    LET ints == {d.num.int : d \in {e \in DOMAIN dirs : e.num.decs = << >>}} IN
    {n \in ints : n # Min(ints) /\ n - 1 \notin ints}

PlanGaps(files) == {k \in files.plans : k # Min(files.plans) /\ k - 1 \notin files.plans}

ValidateConsistency ==
    /\ MissingOnDisk = {} /\ NotInRoadmap = {} /\ NumberingGaps = {}
    /\ \A d \in DOMAIN dirs : PlanGaps(dirs[d]) = {} /\ OrphanSummaries(dirs[d]) = {}

-----------------------------------------------------------------------------
(***************************************************************************)
(* Properties.                                                             *)
(***************************************************************************)
TypeOK ==
    /\ \A i \in DOMAIN roadmap :
         /\ roadmap[i].num.int \in 0 .. MaxInt /\ roadmap[i].box \in Boxes
         /\ roadmap[i].row \in Rows /\ roadmap[i].reqs \subseteq Reqs
    /\ \A d \in DOMAIN dirs : d.slug \in Slugs /\ dirs[d].plans \subseteq PlanIds
    /\ \A r \in Reqs : reqs[r].box \in BOOLEAN
    /\ state.completed \in 0 .. MaxCommands /\ state.total \in Int

\* The summaries under a tree of directories, one entry per file.
SummariesIn(ds) == {w \in (DOMAIN ds) \X PlanIds : w[2] \in ds[w[1]].summaries}

Executed == Cardinality(SummariesIn(dirs)) + Cardinality(SummariesIn(archive.phases))

\* Executed work is lost to nothing but phase remove --force, and then no more
\* than the removed directory held: every other command, renumbering and
\* archiving included, keeps every summary in some directory, whatever names
\* collide on the way (phase.cjs:593-600).
ExecutedWorkKept ==
    [][Executed' < Executed =>
         \E ref \in Refs :
           /\ PhaseRemove(ref, TRUE) /\ ~PhaseRemove(ref, FALSE)
           /\ \E d \in RemovalTarget(ref.num) :
                Executed' = Executed - Cardinality(dirs[d].summaries)]_vars

\* The milestone is only declared complete when neither the roadmap nor the
\* disk has a later phase of it (phase.cjs:744-790).
LastPhaseIsLast ==
    [][state'.status = "Milestone complete" =>
         \A ref \in Refs :
           (\E p \in NumbersIn(roadmap) \cup {d.num : d \in MilestoneDirs} :
              Before(ref.num, p)) => ~PhaseComplete(ref)]_vars

\* Removing a phase renumbers the later ones into a line: whole phases of the
\* milestone that had different numbers still have different numbers
\* (phase.cjs:496-498, 536-539).
RenumberedApart ==
    [][(\E ref \in Refs, force \in BOOLEAN : PhaseRemove(ref, force)) =>
         (Cardinality(NumbersIn(roadmap)) = Len(extractCurrentMilestone(roadmap)) =>
          Cardinality(NumbersIn(roadmap)') = Len(extractCurrentMilestone(roadmap)'))]_vars

\* The views of the tree agree.  roadmap analyze and the manager give every
\* phase the same status; a phase that has one directory is complete in
\* init progress only if it is for them, and the other way round unless its
\* checkbox says so (roadmap.cjs:93-227, init.cjs:798-1195).
ViewsAgree ==
    LET analyzed == Analyze
        managed  == ManagerPhases
        progress == InitProgress IN
    /\ Len(analyzed) = Len(managed)
    /\ \A i \in DOMAIN analyzed :
         LET a    == analyzed[i]
             here == {e \in progress : e.num = a.ref.num} IN
         /\ a.status = managed[i].status
         /\ here # {}
         /\ Cardinality(here) = 1 =>
              \A e \in here :
                /\ e.status = "complete" => a.status = "complete"
                /\ a.status = "complete" /\ ~IsChecked(roadmap, a.ref) => e.status = "complete"
                /\ (e.status = "not_started" /\ ~IsChecked(roadmap, a.ref))
                     => a.status = "no_directory"

\* A command that is given a number finds the directory of exactly that number
\* when there is one, never a decimal or lettered phase that starts with the
\* same digits (core.cjs:663-711, phase.cjs:152-195).
ExactPhaseFound ==
    \A d \in DOMAIN dirs : \A f \in FindPhase(d.num) : f.num = d.num

\* The manager never sends two agents to execute a phase and its direct
\* dependency at once, and what it sends them to has its dependency complete
\* in roadmap analyze too (init.cjs:896-1015).
NoParallelDependency ==
    LET phases == ManagerPhases
        go     == {phases[a.at] : a \in {b \in FilteredActions(phases, {}) :
                                           b.action = "execute"}} IN
    \A p \in go :
      /\ \A q \in go : p.dep # q.ref
      /\ p.dep # NoRef => \E a \in ToSet(Analyze) : a.ref = p.dep /\ a.status = "complete"

\* When validate consistency reports nothing about headings and directories,
\* every whole phase on disk has a section and every section has a directory,
\* so the manager shows no phase without one (verify.cjs:398-460).  A lettered
\* or decimal phase is taken for known when its integer has a heading.
ConsistencySound ==
    MissingOnDisk = {} /\ NotInRoadmap = {} =>
      /\ \A d \in DOMAIN dirs : d.num = Whole(d.num.int) => d.num \in NumbersIn(roadmap)
      /\ \A i \in DOMAIN ManagerPhases : ManagerPhases[i].status # "no_directory"

\* Nobody is sent to shipped work that used the same number: what phase-op
\* answers for a phase of the current milestone is never archived.  The other
\* contexts answer the same phase unless theirs is archived, and a phase with
\* a directory is never confused with a decimal of it (init.cjs:43-240, 483-642).
ContextsCurrent ==
    \A ref \in Headings(roadmap) :
      LET Phases(answers) == {a.phase : a \in answers}
          shown == Phases(InitPhaseOp(ref))
          sent  == {Phases(InitExecutePhase(ref)), Phases(InitPlanPhase(ref)),
                    Phases(InitVerifyWork(ref))}
      IN  /\ shown # {}
          /\ \A c \in shown :
               /\ ~c.archived
               /\ (\E d \in DOMAIN dirs : d.num = ref.num) => c.num = ref.num
          /\ \A phases \in sent : phases = shown \/ \A c \in phases : c.archived
=============================================================================
