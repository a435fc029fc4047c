------------------------------ MODULE StateFile ------------------------------
(***************************************************************************)
(* STATE.md under the state commands (bin/lib/state.cjs).  Agents run the  *)
(* commands as processes of their own: each one reads the file, edits the  *)
(* text it read, derives the front matter and only then waits for the lock *)
(* file, writes and unlinks the lock.  Values are what the commands look   *)
(* at; dates and wording are left out.                                     *)
(***************************************************************************)
EXTENDS Integers, FiniteSets

CONSTANTS Procs,        \* command processes that run at the same time
          Notes,        \* texts of decisions and blockers
          None,         \* an absent section, value, front matter or lock
          MaxTries,     \* attempts at the lock
          MaxPlans,     \* bound on the plans of a phase
          Counts,       \* plans and summaries a count of the disk may find
          MaxCommands,  \* bound on the commands of a behaviour
          InitFiles     \* the STATE.md a project may start from

\* What a Status line says, and what front matter makes of it.  The front
\* matter workstream create writes has other keys: no status, no percent.
StatusLines == {"Not started", "Ready to plan", "Ready to execute", "Ready for verification",
                "Executing", "Paused at a plan"}
StatusWords == StatusLines \cup {"planning", "executing", "verifying", "paused", "unknown"}
FrontMatter == [status : StatusWords \cup {None}, percent : Int \cup {None}]

\* A plan counter, in one value: which plan of how many.
Positive == Nat \ {0}
Counter == [cur : Positive, all : Positive \cup {None}]

ASSUME NoneAssumption == None \notin Procs \cup StatusWords \cup FrontMatter \cup Counter

VARIABLES file,      \* STATE.md
          lock,      \* STATE.md.lock: the process that created it, or None
          pc,        \* where each process is
          pend,      \* the text each process is about to write
          tries,     \* its failed attempts at the lock
          news,      \* the decision it adds, or None
          told,      \* decisions some command has reported as added
          forced,    \* somebody went on without a lock, or removed another's
          commands   \* commands issued so far

vars == << file, lock, pc, pend, tries, news, told, forced, commands >>

-----------------------------------------------------------------------------
(***************************************************************************)
(* The text.  bold holds the fields written as **Field:**, the others are  *)
(* plain lines; position says whether there is a Current Position section. *)
(***************************************************************************)
\* The file between truncation and write.
EmptyFile == [front |-> None, bold |-> {}, field |-> [f \in {} |-> None],
              position |-> FALSE, decisions |-> None, blockers |-> None, metrics |-> None]

Has(c, f) == f \in DOMAIN c.field
Set(c, f, v) == [c EXCEPT !.field = [g \in DOMAIN @ \cup {f} |-> IF g = f THEN v ELSE @[g]]]

\* The front matter is one a state command derived.
Derived(c) == c.front # None /\ c.front.status # None

\* Keys of the front matter that read like a plain line of that name: the
\* first match of a search for such a line is up there.
Shadowed(c, f) == Derived(c) /\ f \in {"Status", "Progress"} /\ f \notin c.bold

\* stateReplaceField finds something to replace.
Found(c, f) == Shadowed(c, f) \/ Has(c, f)

stateReplaceField(c, f, v) ==
    IF ~Found(c, f) THEN c
    ELSE IF ~Shadowed(c, f) THEN Set(c, f, v)
    ELSE IF f = "Status" THEN [c EXCEPT !.front.status = v] ELSE c

stateExtractField(c, f) ==
    IF Shadowed(c, f) THEN IF f = "Status" THEN c.front.status ELSE None
    ELSE IF Has(c, f) THEN c.field[f] ELSE None

\* Plain lines of the Current Position section, whatever is above it.
SetLine(c, f, v) ==
    IF c.position /\ Has(c, f) /\ f \notin c.bold THEN Set(c, f, v) ELSE c
updateCurrentPositionFields(c, status, plan) ==
    LET d == SetLine(c, "Status", status)
    IN  IF plan = None THEN d ELSE SetLine(d, "Plan", plan)

(***************************************************************************)
(* The front matter.                                                       *)
(***************************************************************************)
Normal(status) ==
    CASE status = "Paused at a plan" -> "paused"
      [] status \in {"Executing", "Ready to execute"} -> "executing"
      [] status = "Ready to plan" -> "planning"
      [] status = "Ready for verification" -> "verifying"
      [] OTHER -> status

\* The counts of plans and summaries it adds are left out.
buildStateFrontmatter(c) ==
    [status  |-> IF Has(c, "Status") THEN Normal(c.field["Status"]) ELSE "unknown",
     percent |-> IF Has(c, "Progress") THEN c.field["Progress"] ELSE None]

\* Mutant of syncStateFrontmatter: front matter is only ever added.
syncOnce(c) == IF c.front # None THEN c ELSE [c EXCEPT !.front = buildStateFrontmatter(c)]

\* Mutant of syncStateFrontmatter: the old status is not kept.
syncForgetting(c) == [c EXCEPT !.front = buildStateFrontmatter(c)]

\* A status the body no longer has is kept from the front matter.
syncStateFrontmatter(c) ==
    LET built == buildStateFrontmatter(c)
        keep  == built.status = "unknown" /\ Derived(c)
    IN  [front |-> IF keep THEN [built EXCEPT !.status = c.front.status] ELSE built,
         bold |-> c.bold, field |-> c.field, position |-> c.position,
         decisions |-> c.decisions, blockers |-> c.blockers, metrics |-> c.metrics]

\* The front matter says of the body what deriving it again would say, or,
\* for a body without a status or with an unknown one, keeps one.
Mirrors(c) ==
    Derived(c) =>
      /\ Has(c, "Status") /\ Normal(c.field["Status"]) # "unknown"
           => c.front.status = Normal(c.field["Status"])
      /\ Has(c, "Progress") => c.front.percent = c.field["Progress"]

\* The parts of a text, and what its status and progress are.
IsText(c) ==
    /\ c = [front |-> c.front, bold |-> c.bold, field |-> c.field, position |-> c.position,
            decisions |-> c.decisions, blockers |-> c.blockers, metrics |-> c.metrics]
    /\ c.front \in FrontMatter \cup {None}
    /\ c.field = [f \in DOMAIN c.field |-> c.field[f]]
    /\ c.bold \subseteq DOMAIN c.field
    /\ Has(c, "Status") => c.field["Status"] \in StatusLines
    /\ Has(c, "Progress") => c.field["Progress"] \in Int

\* The plan counter, in either form, counts from 1 to the number of plans.
Counting(cur, all) == cur # None /\ all # None => cur <= all
CountsPlans(c) ==
    /\ \A f \in {"Current Plan", "Total Plans in Phase"} :
         Has(c, f) => c.field[f] \in Positive \cup {None}
    /\ Has(c, "Current Plan") /\ Has(c, "Total Plans in Phase")
         => Counting(c.field["Current Plan"], c.field["Total Plans in Phase"])
    /\ Has(c, "Plan") =>
         /\ c.field["Plan"] \in Counter
         /\ Counting(c.field["Plan"].cur, c.field["Plan"].all)

ASSUME InitFilesAssumption ==
    \A c \in InitFiles : IsText(c) /\ Mirrors(c) /\ CountsPlans(c)

ASSUME TriesAssumption == MaxTries \in Nat \ {0}

ASSUME CountsAssumption ==
    MaxPlans \in Nat /\ Counts \subseteq [plans : Nat, summaries : Nat]

(***************************************************************************)
(* The edits.  Each gives the new text; NoWrite when nothing was found.    *)
(***************************************************************************)
NoWrite == None

cmdStatePatch(c, fields, v) ==
    IF \A f \in fields : ~Found(c, f) THEN NoWrite
    ELSE [c EXCEPT
            !.front = IF Shadowed(c, "Status") /\ "Status" \in fields
                      THEN [@ EXCEPT !.status = v] ELSE @,
            !.field = [f \in DOMAIN @ |->
                         IF f \in fields /\ ~Shadowed(c, f) THEN v ELSE @[f]]]

cmdStateUpdate(c, f, v) == cmdStatePatch(c, {f}, v)

\* Separate fields first, then the compound line "Plan: 2 of 6".
Legacy(c) == Has(c, "Current Plan") /\ Has(c, "Total Plans in Phase")
PlanCounter(c) ==
    IF Legacy(c)
    THEN [cur |-> c.field["Current Plan"], all |-> c.field["Total Plans in Phase"]]
    ELSE IF Has(c, "Plan") THEN c.field["Plan"] ELSE [cur |-> None, all |-> None]

AdvanceTo(c, status, counter) ==
    LET d == IF counter = None THEN c
             ELSE IF Legacy(c) THEN stateReplaceField(c, "Current Plan", counter.cur)
             ELSE stateReplaceField(c, "Plan", counter)
    IN  updateCurrentPositionFields(stateReplaceField(d, "Status", status), status, counter)

\* Mutant of cmdStateAdvancePlan: off by one.
AdvancePastLast(c) ==
    LET k == PlanCounter(c) IN
    IF k.cur = None \/ k.all = None THEN NoWrite
    ELSE IF k.cur > k.all THEN AdvanceTo(c, "Ready for verification", None)
    ELSE AdvanceTo(c, "Ready to execute", [k EXCEPT !.cur = @ + 1])

cmdStateAdvancePlan(c) ==
    LET k == PlanCounter(c) IN
    IF k.cur = None \/ k.all = None THEN NoWrite
    ELSE IF k.cur >= k.all THEN AdvanceTo(c, "Ready for verification", None)
    ELSE AdvanceTo(c, "Ready to execute", [k EXCEPT !.cur = @ + 1])

cmdStateRecordMetric(c) ==
    IF c.metrics = None THEN NoWrite ELSE [c EXCEPT !.metrics = @ + 1]

Percent(counts) ==
    IF counts.plans = 0 THEN 0
    ELSE LET p == (200 * counts.summaries + counts.plans) \div (2 * counts.plans)
         IN  IF p > 100 THEN 100 ELSE p

cmdStateUpdateProgress(c, counts) ==
    IF ~Found(c, "Progress") THEN NoWrite
    ELSE stateReplaceField(c, "Progress", Percent(counts))

cmdStateAddDecision(c, note) ==
    IF c.decisions = None THEN NoWrite ELSE [c EXCEPT !.decisions = @ \cup {note}]

cmdStateAddBlocker(c, note) ==
    IF c.blockers = None THEN NoWrite ELSE [c EXCEPT !.blockers = @ \cup {note}]

\* The section is rewritten even when no blocker matched.
cmdStateResolveBlocker(c, note) ==
    IF c.blockers = None THEN NoWrite ELSE [c EXCEPT !.blockers = @ \ {note}]

cmdStateRecordSession(c, v) ==
    IF ~Found(c, "Stopped At") THEN NoWrite ELSE stateReplaceField(c, "Stopped At", v)

\* planCount None: the number of plans was not given.  Phase and Plan lines
\* are inserted in a Current Position section that has none.
cmdStateBeginPhase(c, phase, planCount) ==
    LET d1 == stateReplaceField(c, "Status", "Executing")
        d2 == stateReplaceField(d1, "Current Phase", phase)
        d3 == stateReplaceField(d2, "Current Plan", 1)
        d4 == IF planCount = None THEN d3
              ELSE stateReplaceField(d3, "Total Plans in Phase", planCount)
        d5 == Set(Set(d4, "Phase", phase), "Plan", [cur |-> 1, all |-> planCount])
    IN  IF \A f \in {"Status", "Current Phase", "Current Plan"} : ~Found(c, f)
           /\ ~c.position
        THEN NoWrite
        ELSE IF c.position THEN SetLine(d5, "Status", "Executing") ELSE d4

-----------------------------------------------------------------------------
(***************************************************************************)
(* Processes.                                                              *)
(***************************************************************************)
\* The command reads the file and edits what it read; writeStateMd derives the
\* front matter before it has the lock.
Issue(p, c, note) ==
    /\ pc[p] = "idle" /\ commands < MaxCommands
    /\ commands' = commands + 1
    /\ IF c = NoWrite THEN UNCHANGED << pc, pend, news >>
       ELSE /\ pc' = [pc EXCEPT ![p] = "locking"]
            /\ pend' = [pend EXCEPT ![p] = syncStateFrontmatter(c)]
            /\ news' = [news EXCEPT ![p] = note]
    /\ UNCHANGED << file, lock, tries, told, forced >>

PatchOrUpdate(p) ==
    \/ \E f \in {"Status", "Stopped At"} : Issue(p, cmdStateUpdate(file, f, "Paused at a plan"), None)
    \/ Issue(p, cmdStatePatch(file, {"Status", "Stopped At"}, "Paused at a plan"), None)
AdvancePlan(p)    == Issue(p, cmdStateAdvancePlan(file), None)
RecordMetric(p)   == Issue(p, cmdStateRecordMetric(file), None)
UpdateProgress(p) == \E n \in Counts : Issue(p, cmdStateUpdateProgress(file, n), None)
AddDecision(p)    == \E n \in Notes : Issue(p, cmdStateAddDecision(file, n), n)
AddBlocker(p)     == \E n \in Notes : Issue(p, cmdStateAddBlocker(file, n), None)
ResolveBlocker(p) == \E n \in Notes : Issue(p, cmdStateResolveBlocker(file, n), None)
RecordSession(p)  == Issue(p, cmdStateRecordSession(file, "None"), None)
BeginPhase(p) ==
    \E k \in (1 .. MaxPlans) \cup {None} : Issue(p, cmdStateBeginPhase(file, 2, k), None)

Command(p) ==
    \/ PatchOrUpdate(p) \/ AdvancePlan(p) \/ RecordMetric(p) \/ UpdateProgress(p)
    \/ AddDecision(p) \/ AddBlocker(p) \/ ResolveBlocker(p) \/ RecordSession(p)
    \/ BeginPhase(p)

\* Mutant of Acquire: the lock file is opened without the exclusive flag.
AcquireAnyway(p) ==
    /\ pc[p] = "locking"
    /\ lock' = p
    /\ pc' = [pc EXCEPT ![p] = "opening"]
    /\ UNCHANGED << file, pend, tries, news, told, forced, commands >>

Acquire(p) ==
    /\ pc[p] = "locking" /\ lock = None
    /\ lock' = p
    /\ pc' = [pc EXCEPT ![p] = "opening"]
    /\ UNCHANGED << file, pend, tries, news, told, forced, commands >>

Refused(p) ==
    /\ pc[p] = "locking" /\ lock # None
    /\ pc' = [pc EXCEPT ![p] = "refused"]
    /\ UNCHANGED << file, lock, pend, tries, news, told, forced, commands >>

LastTry(p) == tries[p] + 1 >= MaxTries

\* Mutant of Retry: more tries than allowed.
RetryAgain(p) ==
    /\ pc[p] = "refused" /\ tries[p] <= MaxTries
    /\ tries' = [tries EXCEPT ![p] = @ + 1]
    /\ pc' = [pc EXCEPT ![p] = "locking"]
    /\ UNCHANGED << file, lock, pend, news, told, forced, commands >>

\* Mutant of Retry: tries are not counted.
RetryUncounted(p) ==
    /\ pc[p] = "refused" /\ ~LastTry(p)
    /\ pc' = [pc EXCEPT ![p] = "locking"]
    /\ UNCHANGED << file, lock, pend, tries, news, told, forced, commands >>

\* Wait and retry.
Retry(p) ==
    /\ pc[p] = "refused" /\ ~LastTry(p)
    /\ tries' = [tries EXCEPT ![p] = @ + 1]
    /\ pc' = [pc EXCEPT ![p] = "locking"]
    /\ UNCHANGED << file, lock, pend, news, told, forced, commands >>

\* A lock older than ten seconds is removed; after the last try the loop is
\* left without a lock.
ClearStale(p) ==
    /\ pc[p] = "refused"
    /\ lock' = None /\ forced' = TRUE
    /\ tries' = [tries EXCEPT ![p] = @ + 1]
    /\ pc' = [pc EXCEPT ![p] = IF LastTry(p) THEN "opening" ELSE "locking"]
    /\ UNCHANGED << file, pend, news, told, commands >>

\* After the last try the lock is removed and the file written all the same.
GiveUp(p) ==
    /\ pc[p] = "refused" /\ LastTry(p)
    /\ lock' = None /\ forced' = TRUE
    /\ pc' = [pc EXCEPT ![p] = "opening"]
    /\ UNCHANGED << file, pend, tries, news, told, commands >>

\* Any other error of open: proceed without lock.
CannotLock(p) ==
    /\ pc[p] = "locking"
    /\ forced' = TRUE
    /\ pc' = [pc EXCEPT ![p] = "opening"]
    /\ UNCHANGED << file, lock, pend, tries, news, told, commands >>

\* writeFileSync truncates the file, then fills it.
Truncate(p) ==
    /\ pc[p] = "opening"
    /\ file' = EmptyFile
    /\ pc' = [pc EXCEPT ![p] = "writing"]
    /\ UNCHANGED << lock, pend, tries, news, told, forced, commands >>

\* When another process wrote a longer text in between, the end of that one
\* stays behind the last section, where no search for a field or a section
\* gets to.
Write(p) ==
    /\ pc[p] = "writing"
    /\ file' = pend[p]
    /\ pc' = [pc EXCEPT ![p] = "unlocking"]
    /\ UNCHANGED << lock, pend, tries, news, told, forced, commands >>

\* The process is gone, and what it had in memory with it.
Exit(p) ==
    /\ pc' = [pc EXCEPT ![p] = "idle"]
    /\ pend' = [pend EXCEPT ![p] = EmptyFile]
    /\ tries' = [tries EXCEPT ![p] = 0]
    /\ news' = [news EXCEPT ![p] = None]

\* The lock file goes, whoever made it, and the command prints its result.
Unlock(p) ==
    /\ pc[p] = "unlocking"
    /\ lock' = None
    /\ told' = told \cup ({news[p]} \ {None})
    /\ Exit(p)
    /\ UNCHANGED << file, forced, commands >>

\* A command is killed wherever it is; its lock stays.
Crash(p) ==
    /\ pc[p] # "idle"
    /\ Exit(p)
    /\ UNCHANGED << file, lock, told, forced, commands >>

Continue(p) ==
    \/ Acquire(p) \/ Refused(p) \/ Retry(p) \/ ClearStale(p) \/ GiveUp(p)
    \/ CannotLock(p) \/ Truncate(p) \/ Write(p) \/ Unlock(p)

Init ==
    /\ file \in InitFiles
    /\ lock = None
    /\ pc = [p \in Procs |-> "idle"]
    /\ pend = [p \in Procs |-> EmptyFile]
    /\ tries = [p \in Procs |-> 0]
    /\ news = [p \in Procs |-> None]
    /\ told = {} /\ forced = FALSE
    /\ commands = 0

Next == \E p \in Procs : Command(p) \/ Continue(p) \/ Crash(p)

Spec     == Init /\ [][Next]_vars
FairSpec == Spec /\ \A p \in Procs : WF_vars(Continue(p))

-----------------------------------------------------------------------------
(***************************************************************************)
(* The readers.                                                            *)
(***************************************************************************)
\* Mutant of cmdStateJson: the front matter is not read.
cmdStateJsonBuilt(c) == buildStateFrontmatter(c)

cmdStateJson(c) == IF c.front # None THEN c.front ELSE buildStateFrontmatter(c)

cmdStateSnapshot(c) ==
    [status |-> IF Found(c, "Status") THEN stateExtractField(c, "Status") ELSE "unknown",
     plan   |-> stateExtractField(c, "Current Plan")]

(***************************************************************************)
(* Properties.                                                             *)
(***************************************************************************)
TypeOK ==
    /\ lock \in Procs \cup {None}
    /\ pc \in [Procs -> {"idle", "locking", "refused", "opening",
                         "writing", "unlocking"}]
    /\ tries \in [Procs -> 0 .. MaxTries]
    /\ news \in [Procs -> Notes \cup {None}] /\ told \subseteq Notes
    /\ forced \in BOOLEAN

\* Whatever processes do to each other, what is on disk is the first file, an
\* empty one, or one consistent text: it has front matter with a status, and
\* body and front matter were derived together (state.cjs:765-834).
FrontMirrorsBody == file \in InitFiles \cup {EmptyFile} \/ (Derived(file) /\ Mirrors(file))

\* state json and state snapshot report the same status, though one reads the
\* front matter and the other searches the whole text; not before the first
\* command on a file with the front matter of workstream create, which has no
\* status (state.cjs:541, 836, workstream.cjs:128-150).
ReadersAgree ==
    (file.front # None => Derived(file)) =>
      Normal(cmdStateSnapshot(file).status) = Normal(cmdStateJson(file).status)

\* Between two writers there is the lock, until one has waited so long that it
\* removes it (state.cjs:789-825).
OneWriter ==
    \A p, q \in Procs :
      pc[p] \in {"opening", "writing", "unlocking"} /\ pc[q] \in {"opening", "writing", "unlocking"}
      /\ ~forced => p = q

\* The plan counter stays in the phase, in both of its forms, whatever races
\* of begin-phase and advance-plan leave in the file (state.cjs:268-322, 862).
PlanInPhase ==
    LET k == PlanCounter(file) IN
    k.cur # None /\ k.all # None => k.cur \in 1 .. k.all

\* A status STATE.md had is not forgotten by any command that reads it, even
\* when the body has none and whatever the command edits (state.cjs:771-776).
StatusSurvives ==
    [][\A p \in Procs :
         /\ pc[p] = "idle" /\ pc'[p] = "locking"
         /\ Derived(file) /\ file.front.status # "unknown"
         => pend'[p].front.status # "unknown"]_vars

\* Every command ends, whoever crashed with the lock (state.cjs:795-833).
CommandsEnd == \A p \in Procs : pc[p] # "idle" ~> pc[p] = "idle"

\* A decision that was reported as added is in STATE.md, as long as everybody
\* respected the lock (its purpose according to state.cjs:786-787).
ToldDecisionsKept == file # EmptyFile /\ ~forced => told \subseteq file.decisions
=============================================================================
