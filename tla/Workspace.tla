------------------------------ MODULE Workspace ------------------------------
(***************************************************************************)
(* The directories below .planning/ and the commands that move them:       *)
(* flat work, workstreams, archives, the active-workstream marker, todos   *)
(* and the waiting signal.  A file or directory holds pieces of work, which *)
(* are numbers; an entry that holds nothing does not exist.  A command is a *)
(* process: it looks, then it acts, and between two looks or two renames   *)
(* anything else may run, and it may die.                                  *)
(***************************************************************************)
EXTENDS Integers, FiniteSets, Functions

CONSTANTS Procs,       \* command processes that run at the same time
          Names,       \* names of workstreams
          None,        \* no workstream, no snapshot
          MaxWork,     \* bound on the pieces of work
          MaxFaults,   \* bound on the renames that fail for a reason of their own
          Done,        \* phases whose plans all have summaries
          Finished     \* STATE.md files whose status ends a milestone

ASSUME NoneAssumption == None \notin Names
\* A name is text, never the number of an archive or of a todo.
ASSUME NamesAssumption == Names \cap Nat = {}
ASSUME WorkAssumption == Done \subseteq Nat /\ Finished \subseteq Nat
\* The project a behaviour starts with holds five pieces of work.
ASSUME BoundsAssumption == MaxWork \in Nat /\ MaxWork >= 5 /\ MaxFaults \in Nat

VARIABLES flat,      \* what is directly in .planning/
          wsRoot,    \* .planning/workstreams/ exists
          streams,   \* the workstreams' directories, by name
          archives,  \* .planning/milestones/ws-<name>-<day>[-<suffix>]
          marker,    \* the text of .planning/active-workstream, or None
          gsd,       \* .gsd/ is absent, empty or holds WAITING.json
          job,       \* what each process is doing
          minted,    \* pieces of work created so far
          faults,    \* renames that failed
          crashes    \* processes that died

treeVars == << flat, wsRoot, streams, archives, marker >>
wsVars == << treeVars, gsd, job, minted, faults, crashes >>

-----------------------------------------------------------------------------
(***************************************************************************)
(* Directories.                                                            *)
(***************************************************************************)
Signal0 == 0   \* WAITING.json is no piece of work

\* What one rename moves: todos/ holds both lists.
toMove == {{"roadmap"}, {"state"}, {"reqs"}, {"phases"}}
Groups == toMove \cup {{"pending", "completed"}, {"waiting"}}
Directories == {{"phases"}, {"pending", "completed"}}
Entries == UNION Groups
Directory == [Entries -> SUBSET (0 .. MaxWork)]
Empty == [e \in Entries |-> {}]

Holds(dir, g) == \E e \in g : dir[e] # {}
Clear(dir, g) == [e \in Entries |-> IF e \in g THEN {} ELSE dir[e]]
Renamed(from, to, g) == [e \in Entries |-> IF e \in g THEN from[e] ELSE to[e]]

\* A rename replaces a file and fails on a directory that is not empty.
CanRename(from, to, g) == Holds(from, g) /\ ~(g \in Directories /\ Holds(to, g))

\* Mutant of RestoredTo: the rollback only removes.
NotRestored(to, from, gs) == to

\* Mutant of RestoredTo: directories are not put back.
FilesRestored(to, from, gs) ==
    [e \in Entries |-> IF \E g \in gs \ Directories : e \in g /\ CanRename(from, to, g)
                       THEN from[e] ELSE to[e]]

\* Renames one after the other, the failing ones skipped.
RestoredTo(to, from, gs) ==
    [e \in Entries |-> IF \E g \in gs : e \in g /\ CanRename(from, to, g)
                       THEN from[e] ELSE to[e]]

Put(f, x, v) == [y \in DOMAIN f \cup {x} |-> IF y = x THEN v ELSE f[y]]
Drop(f, x)   == Restrict(f, DOMAIN f \ {x})

tree == [flat |-> flat, wsRoot |-> wsRoot, streams |-> streams,
         archives |-> archives, marker |-> marker]

\* The pieces of work that are in some directory.
In(x, dir) == \E e \in Entries : x \in dir[e]
Stored == {x \in (0 .. MaxWork) \ {Signal0} :
             \/ In(x, flat)
             \/ \E n \in DOMAIN streams : In(x, streams[n])
             \/ \E a \in DOMAIN archives : In(x, archives[a])}

-----------------------------------------------------------------------------
(***************************************************************************)
(* Which directory a command works in.                                     *)
(***************************************************************************)
\* Mutant of getActiveWorkstream: the marker is believed.
MarkerUnchecked == marker

getActiveWorkstream == IF marker \in DOMAIN streams THEN marker ELSE None

Exists(w) == w = None \/ w \in DOMAIN streams
planningDir(w) == IF w = None THEN flat ELSE IF Exists(w) THEN streams[w] ELSE Empty

\* Writing there, after mkdir -p.
WriteDir(w, dir) ==
    IF w = None THEN flat' = dir /\ UNCHANGED << wsRoot, streams >>
    ELSE streams' = Put(streams, w, dir) /\ wsRoot' = TRUE /\ UNCHANGED flat

(***************************************************************************)
(* Processes.  before is the tree when the command started, for as long as *)
(* no other process has taken a step; reply is what the last step printed. *)
(***************************************************************************)
Idle(reply) == [op |-> "idle", reply |-> reply, name |-> None, into |-> None,
                left |-> {}, moved |-> {}, active |-> FALSE, before |-> None]
Busy(p) == job[p].op # "idle"
Alone(p) == \A q \in Procs \ {p} : ~Busy(q)

Overtaken(j) == [j EXCEPT !.before = None, !.reply = "none"]
SetJob(p, j) ==
    job' = [q \in Procs |-> IF q = p THEN j ELSE Overtaken(job[q])]
NoJob == job' = [q \in Procs |-> Overtaken(job[q])]
Begin(p, op, n) ==
    [Idle("none") EXCEPT !.op = op, !.name = n,
                         !.before = IF Alone(p) THEN tree ELSE None]

\* A process settles where it works before it looks at its command: --ws and
\* GSD_WORKSTREAM as they come, the marker where there is neither.  The answer
\* goes into its environment and is not looked up again.
Resolve(p, ws) ==
    /\ ~Busy(p)
    /\ SetJob(p, [Begin(p, "resolved", IF ws # None THEN ws ELSE getActiveWorkstream)
                    EXCEPT !.active = (ws = None)])
    /\ UNCHANGED << treeVars, gsd, minted, faults, crashes >>

-----------------------------------------------------------------------------
(***************************************************************************)
(* workstream create, and the migration of flat work it starts with.       *)
(***************************************************************************)
HasWork == \E g \in toMove \ {{"reqs"}} : Holds(flat, g)

cmdWorkstreamCreate(p, n, migrate, m) ==
    /\ ~Busy(p)
    /\ UNCHANGED << flat, streams, archives, marker, gsd, minted, faults, crashes >>
    /\ \/ /\ n \in DOMAIN streams /\ streams[n]["state"] # {}
          /\ SetJob(p, Idle("already_exists"))
          /\ UNCHANGED wsRoot
       \/ /\ ~(n \in DOMAIN streams /\ streams[n]["state"] # {})
          /\ ~wsRoot /\ migrate /\ HasWork
          /\ SetJob(p, [Begin(p, "migrate", n) EXCEPT !.into = m])
          /\ UNCHANGED wsRoot
       \/ /\ ~(n \in DOMAIN streams /\ streams[n]["state"] # {})
          /\ ~(~wsRoot /\ migrate /\ HasWork)
          /\ SetJob(p, Begin(p, "mkdir", n))
          /\ wsRoot' = (wsRoot \/ migrate)

migrateToWorkstreams(p) ==
    /\ job[p].op = "migrate"
    /\ SetJob(p, IF wsRoot THEN Idle("migration_failed") ELSE [job[p] EXCEPT !.op = "planting"])
    /\ UNCHANGED << treeVars, gsd, minted, faults, crashes >>

\* The order of the table toMove; what is not there is passed over.
Rank(g) == CASE g = {"roadmap"} -> 1 [] g = {"state"} -> 2 [] g = {"reqs"} -> 3 [] OTHER -> 4
NextItem(gs) == CHOOSE g \in gs : \A h \in gs : Rank(g) <= Rank(h)
Ahead(gs, dir) == {g \in gs : \E h \in gs : Rank(h) <= Rank(g) /\ Holds(dir, h)}

\* The directory of the migrated work; mkdir -p minds no other that made it.
PlantDir(p) ==
    LET j == job[p] IN
    /\ j.op = "planting"
    /\ wsRoot' = TRUE
    /\ streams' = IF j.into \in DOMAIN streams THEN streams ELSE Put(streams, j.into, Empty)
    /\ SetJob(p, [j EXCEPT !.op = "moving", !.left = Ahead(toMove, flat)])
    /\ UNCHANGED << flat, archives, marker, gsd, minted, faults, crashes >>

\* The first item left was there when the process looked; having renamed it,
\* the process looks for the next.
MigrateMove(p) ==
    LET j == job[p]
        g == NextItem(j.left)
    IN  /\ j.op = "moving" /\ j.left # {}
        /\ j.into \in DOMAIN streams /\ CanRename(flat, streams[j.into], g)
        /\ streams' = Put(streams, j.into, Renamed(flat, streams[j.into], g))
        /\ flat' = Clear(flat, g)
        /\ SetJob(p, [j EXCEPT !.left = Ahead(@ \ {g}, flat), !.moved = @ \cup {g}])
        /\ UNCHANGED << wsRoot, archives, marker, gsd, minted, faults, crashes >>

\* A rename fails: on its own, or because of what another process did.  So
\* may the renames that put things back; what is stuck then stays behind.
Fault(real, stuck) ==
    /\ faults' = faults + Cardinality(stuck) + IF real THEN 0 ELSE 1
    /\ faults' <= MaxFaults

\* Put back what was moved, then remove the directory with what is left.
MigrateRollback(p) ==
    LET j == job[p]
        g == NextItem(j.left)
        dir == planningDir(j.into)
        real == j.into \notin DOMAIN streams \/ ~CanRename(flat, dir, g)
    IN  /\ j.op = "moving" /\ j.left # {}
        /\ \E stuck \in SUBSET j.moved :
             Fault(real, stuck) /\ flat' = RestoredTo(flat, dir, j.moved \ stuck)
        /\ streams' = Drop(streams, j.into)
        /\ wsRoot' = (DOMAIN streams' # {})
        /\ SetJob(p, Idle("migration_failed"))
        /\ UNCHANGED << archives, marker, gsd, minted, crashes >>

MakeDir(p) ==
    LET n == job[p].name
    IN  /\ job[p].op = "mkdir" \/ (job[p].op = "moving" /\ job[p].left = {})
        /\ streams' = IF n \in DOMAIN streams THEN streams ELSE Put(streams, n, Empty)
        /\ wsRoot' = TRUE
        /\ SetJob(p, [job[p] EXCEPT !.op = "created"])
        /\ UNCHANGED << flat, archives, marker, gsd, minted, faults, crashes >>

\* A STATE.md that is there, a migrated one for instance, is kept.
FinishCreate(p) ==
    LET n == job[p].name
    IN  /\ job[p].op = "created"
        /\ UNCHANGED << flat, wsRoot, archives, gsd, faults, crashes >>
        /\ \/ /\ n \in DOMAIN streams /\ streams[n]["state"] # {}
              /\ marker' = n
              /\ SetJob(p, Idle("created"))
              /\ UNCHANGED << streams, minted >>
           \/ /\ n \in DOMAIN streams /\ streams[n]["state"] = {} /\ minted < MaxWork
              /\ minted' = minted + 1
              /\ streams' = [streams EXCEPT ![n]["state"] = {minted + 1}]
              /\ marker' = n
              /\ SetJob(p, Idle("created"))
           \/ /\ n \notin DOMAIN streams
              /\ SetJob(p, Idle("error"))
              /\ UNCHANGED << streams, marker, minted >>

-----------------------------------------------------------------------------
(***************************************************************************)
(* workstream complete.                                                    *)
(***************************************************************************)
\* Mutant of Free: no suffix.
SameDay(n) == 0

Free(n) == CHOOSE s \in 0 .. Cardinality(DOMAIN archives) :
             /\ << n, s >> \notin DOMAIN archives
             /\ \A r \in 0 .. s - 1 : << n, r >> \in DOMAIN archives

\* The archive a process has chosen.
Chosen(p) == << job[p].name, job[p].into >>

cmdWorkstreamComplete(p, n) ==
    /\ ~Busy(p)
    /\ SetJob(p, IF n \notin DOMAIN streams THEN Idle("not_found")
                 ELSE [Begin(p, "closing", n) EXCEPT !.active = (getActiveWorkstream = n)])
    /\ UNCHANGED << treeVars, gsd, minted, faults, crashes >>

\* Clears the marker and looks for a name no archive has.
ChooseArchive(p) ==
    /\ job[p].op = "closing"
    /\ marker' = IF job[p].active THEN None ELSE marker
    /\ SetJob(p, [job[p] EXCEPT !.op = "naming", !.into = Free(job[p].name)])
    /\ UNCHANGED << flat, wsRoot, streams, archives, gsd, minted, faults, crashes >>

\* mkdir -p minds no archive that another process made meanwhile.
MakeArchive(p) ==
    /\ job[p].op = "naming"
    /\ archives' = IF Chosen(p) \in DOMAIN archives THEN archives
                   ELSE Put(archives, Chosen(p), Empty)
    /\ SetJob(p, [job[p] EXCEPT !.op = "listing"])
    /\ UNCHANGED << flat, wsRoot, streams, marker, gsd, minted, faults, crashes >>

ListEntries(p) ==
    LET j == job[p] IN
    /\ j.op = "listing" /\ j.name \in DOMAIN streams
    /\ SetJob(p, [j EXCEPT !.op = "archiving",
                           !.left = {g \in Groups : Holds(streams[j.name], g)}])
    /\ UNCHANGED << treeVars, gsd, minted, faults, crashes >>

\* What every failure ends with: the archive goes, the marker comes back.
GiveUp(p) ==
    /\ archives' = Drop(archives, Chosen(p))
    /\ marker' = IF job[p].active THEN job[p].name ELSE marker
    /\ SetJob(p, Idle("archive_failed"))
    /\ UNCHANGED << flat, wsRoot, gsd, minted, crashes >>

\* The workstream is no longer there to be read.
ListFails(p) ==
    /\ job[p].op = "listing" /\ job[p].name \notin DOMAIN streams
    /\ GiveUp(p)
    /\ UNCHANGED << streams, faults >>

ArchiveMove(p, g) ==
    LET j == job[p]
        a == Chosen(p)
    IN  /\ j.op = "archiving" /\ g \in j.left
        /\ j.name \in DOMAIN streams /\ a \in DOMAIN archives
        /\ CanRename(streams[j.name], archives[a], g)
        /\ archives' = [archives EXCEPT ![a] = Renamed(streams[j.name], @, g)]
        /\ streams' = [streams EXCEPT ![j.name] = Clear(@, g)]
        /\ SetJob(p, [j EXCEPT !.left = @ \ {g}, !.moved = @ \cup {g}])
        /\ UNCHANGED << flat, wsRoot, marker, gsd, minted, faults, crashes >>

ArchiveRollback(p, g) ==
    LET j == job[p]
        a == Chosen(p)
        gone == j.name \notin DOMAIN streams \/ a \notin DOMAIN archives
    IN  /\ j.op = "archiving" /\ g \in j.left
        /\ \E stuck \in SUBSET j.moved :
             /\ Fault(gone \/ ~CanRename(streams[j.name], archives[a], g), stuck)
             /\ streams' = IF gone THEN streams
                  ELSE [streams EXCEPT ![j.name] = RestoredTo(@, archives[a], j.moved \ stuck)]
        /\ GiveUp(p)

\* rmdir refuses a directory something was written into meanwhile.
FinishComplete(p) ==
    LET j == job[p]
        gone == j.name \notin DOMAIN streams \/ streams[j.name] = Empty
    IN  /\ j.op = "archiving" /\ j.left = {}
        /\ streams' = IF gone THEN Drop(streams, j.name) ELSE streams
        /\ wsRoot' = (DOMAIN streams' # {})
        /\ SetJob(p, Idle("completed"))
        /\ UNCHANGED << flat, archives, marker, gsd, minted, faults, crashes >>

(***************************************************************************)
(* workstream set; without a name it clears the marker.                    *)
(***************************************************************************)
cmdWorkstreamSet(n) ==
    /\ n = None \/ n \in DOMAIN streams
    /\ marker' = n
    /\ NoJob
    /\ UNCHANGED << flat, wsRoot, streams, archives, gsd, minted, faults, crashes >>

cmdWorkstreamGet == [active |-> getActiveWorkstream,
                     mode |-> IF wsRoot THEN "workstream" ELSE "flat"]

-----------------------------------------------------------------------------
(***************************************************************************)
(* Commands that work in one of the directories.                           *)
(***************************************************************************)
\* todo complete writes the completed copy, then unlinks the pending one.
cmdTodoComplete(p, t) ==
    LET w == job[p].name
        dir == planningDir(w)
    IN  /\ job[p].op = "resolved"
        /\ IF t \in dir["pending"]
           THEN /\ WriteDir(w, [dir EXCEPT !["completed"] = @ \cup {t}])
                /\ SetJob(p, [job[p] EXCEPT !.op = "unlink", !.into = t])
           ELSE /\ SetJob(p, Idle("error"))
                /\ UNCHANGED << flat, wsRoot, streams >>
        /\ UNCHANGED << archives, marker, gsd, minted, faults, crashes >>

UnlinkPending(p) ==
    LET w == job[p].name
        there == Exists(w) /\ job[p].into \in planningDir(w)["pending"]
    IN  /\ job[p].op = "unlink"
        /\ IF there
           THEN WriteDir(w, [planningDir(w) EXCEPT !["pending"] = @ \ {job[p].into}])
           ELSE UNCHANGED << flat, wsRoot, streams >>
        /\ SetJob(p, Idle(IF there THEN "todo_completed" ELSE "error"))
        /\ UNCHANGED << archives, marker, gsd, minted, faults, crashes >>

\* The directory is made where it is not there any more.
cmdSignalWaiting(p) ==
    LET w == job[p].name IN
    /\ job[p].op = "resolved"
    /\ IF gsd # "absent"
       THEN gsd' = "waiting" /\ UNCHANGED << flat, wsRoot, streams >>
       ELSE WriteDir(w, [planningDir(w) EXCEPT !["waiting"] = {Signal0}]) /\ UNCHANGED gsd
    /\ SetJob(p, Idle("done"))
    /\ UNCHANGED << archives, marker, minted, faults, crashes >>

cmdSignalResume(p) ==
    LET w == job[p].name IN
    /\ job[p].op = "resolved"
    /\ gsd' = IF gsd = "waiting" THEN "empty" ELSE gsd
    /\ IF Exists(w) THEN WriteDir(w, [planningDir(w) EXCEPT !["waiting"] = {}])
       ELSE UNCHANGED << flat, wsRoot, streams >>
    /\ SetJob(p, Idle("done"))
    /\ UNCHANGED << archives, marker, minted, faults, crashes >>

\* A new piece of work in the directory of p.
AddWork(p, e) ==
    LET w == job[p].name IN
    /\ job[p].op = "resolved"
    /\ minted < MaxWork /\ minted' = minted + 1
    /\ WriteDir(w, [planningDir(w) EXCEPT ![e] = @ \cup {minted'}])
    /\ SetJob(p, Idle("done"))
    /\ UNCHANGED << archives, marker, gsd, faults, crashes >>

\* scaffold phase-dir makes every missing directory above the phase's.
ScaffoldPhaseDir(p) == AddWork(p, "phases")

\* An agent writes a new STATE.md or todo where its tools point.
AgentWrites(p, e) ==
    /\ Exists(job[p].name) /\ (e # "pending" => planningDir(job[p].name)[e] = {})
    /\ AddWork(p, e)

\* validate health --repair: an absent STATE.md is written again.
RegenerateState(p) ==
    /\ Exists(job[p].name) /\ planningDir(job[p].name)["state"] = {}
    /\ AddWork(p, "state")

Crash(p) ==
    /\ Busy(p)
    /\ crashes' = crashes + 1
    /\ SetJob(p, Idle("killed"))
    /\ UNCHANGED << treeVars, gsd, minted, faults >>

-----------------------------------------------------------------------------
OldWork == [Empty EXCEPT !["state"] = {2}, !["phases"] = {3}]

\* Flat work, in a project that has .gsd/, or one workstream in one that has not.
WsInit ==
    /\ \/ /\ gsd = "empty" /\ wsRoot = FALSE /\ marker = None
          /\ flat = [OldWork EXCEPT !["pending"] = {4}, !["roadmap"] = {1}, !["reqs"] = {5}]
          /\ streams = [n \in {} |-> Empty]
       \/ /\ gsd = "absent" /\ wsRoot = TRUE /\ flat = [Empty EXCEPT !["pending"] = {4}]
          /\ \E n \in Names :
               marker = n /\ streams = [x \in {n} |-> [OldWork EXCEPT !["roadmap"] = {1}]]
    /\ archives = [a \in {} |-> Empty]
    /\ job = [p \in Procs |-> Idle("none")]
    /\ minted = 5 /\ faults = 0 /\ crashes = 0

\* Commands a user or an agent issues, and the steps of those under way.
WsIssue ==
    \/ \E p \in Procs, n, m \in Names, migrate \in BOOLEAN :
         cmdWorkstreamCreate(p, n, migrate, m)
    \/ \E p \in Procs, n \in Names : cmdWorkstreamComplete(p, n)
    \/ \E n \in Names \cup {None} : cmdWorkstreamSet(n)
    \/ \E p \in Procs, ws \in Names \cup {None} : Resolve(p, ws)

WsContinue(p) ==
    \/ migrateToWorkstreams(p) \/ PlantDir(p) \/ MigrateMove(p) \/ MigrateRollback(p)
    \/ MakeDir(p) \/ FinishCreate(p)
    \/ ChooseArchive(p) \/ MakeArchive(p) \/ ListEntries(p) \/ ListFails(p)
    \/ \E g \in Groups : ArchiveMove(p, g) \/ ArchiveRollback(p, g)
    \/ FinishComplete(p)
    \/ (\E t \in 1 .. MaxWork : cmdTodoComplete(p, t)) \/ UnlinkPending(p)
    \/ cmdSignalWaiting(p) \/ cmdSignalResume(p) \/ ScaffoldPhaseDir(p)
    \/ \E e \in {"state", "pending"} : AgentWrites(p, e)
    \/ Crash(p)

-----------------------------------------------------------------------------
(***************************************************************************)
(* What the queries answer about a workstream.                             *)
(***************************************************************************)
PhaseCount(n) == Cardinality(streams[n]["phases"])
CompletedCount(n) == Cardinality(streams[n]["phases"] \cap Done)

\* Mutant of StatusOf: no STATE.md counts as finished.
StatusOfMissing(n) ==
    IF streams[n]["state"] \subseteq Finished THEN "milestone complete" ELSE "open"

\* The status is that of STATE.md; without one it is unknown.
StatusOf(n) == IF streams[n]["state"] = {} THEN "unknown"
               ELSE IF streams[n]["state"] \subseteq Finished THEN "milestone complete"
               ELSE "open"

cmdWorkstreamList ==
    {[name |-> n, has_roadmap |-> streams[n]["roadmap"] # {},
      has_state |-> streams[n]["state"] # {}, status |-> StatusOf(n),
      phase_count |-> PhaseCount(n), completed_phases |-> CompletedCount(n)] :
     n \in DOMAIN streams}

\* The fields of STATE.md are left out where there is none.
cmdWorkstreamStatus(n) ==
    IF n \notin DOMAIN streams THEN [found |-> FALSE]
    ELSE [found |-> TRUE, roadmap |-> streams[n]["roadmap"] # {},
          state |-> streams[n]["state"] # {}, requirements |-> streams[n]["reqs"] # {},
          phase_count |-> PhaseCount(n), completed_phases |-> CompletedCount(n),
          status |-> IF streams[n]["state"] = {} THEN None ELSE StatusOf(n)]

cmdWorkstreamProgress ==
    {[name |-> n, active |-> n = getActiveWorkstream, status |-> StatusOf(n),
      completed |-> CompletedCount(n)] : n \in DOMAIN streams}

getOtherActiveWorkstreams(excluded) ==
    {n \in DOMAIN streams \ {excluded} : StatusOf(n) # "milestone complete"}

-----------------------------------------------------------------------------
(***************************************************************************)
(* Types: what each variable holds.                                        *)
(***************************************************************************)
WsTypeOK ==
    /\ flat \in Directory /\ wsRoot \in BOOLEAN
    /\ DOMAIN streams \subseteq Names /\ \A n \in DOMAIN streams : streams[n] \in Directory
    /\ DOMAIN archives \subseteq Names \X Nat
    /\ \A a \in DOMAIN archives : archives[a] \in Directory
    /\ marker \in Names \cup {None} /\ gsd \in {"absent", "empty", "waiting"}
    /\ \A p \in Procs : job[p].left \subseteq Groups /\ job[p].moved \subseteq Groups
    /\ minted <= MaxWork /\ faults <= MaxFaults /\ crashes \in Nat

\* At most one rename of the step fails.
SingleFault == faults' <= faults + 1

(***************************************************************************)
(* Whatever a command does, and wherever it dies or a rename of it fails,  *)
(* no piece of work disappears, provided no other process took a step      *)
(* while it ran and no rename of a rollback fails on top: renames are      *)
(* single, a rollback puts everything back before it removes a directory,  *)
(* todos are copied before they are removed (workstream.cjs:57-61,         *)
(* 306-330, commands.cjs:717-721).                                         *)
(***************************************************************************)
NothingLost ==
    [][(\A p \in Procs : Busy(p) => job[p].before # None) /\ SingleFault
         => Stored \subseteq Stored']_wsVars

(***************************************************************************)
(* A create or complete that reports a failure leaves the tree as it found *)
(* it, unless a rename of its rollback fails too; one that reports success *)
(* has moved all of the flat work, or all of the workstream, into the one  *)
(* directory it names (workstream.cjs:45-65, 306-330).                     *)
(***************************************************************************)
AllOrNothing ==
    [][\A p \in Procs :
         LET j == job[p]
             was == j.before
             reply == job'[p].reply
         IN  Busy(p) /\ ~Busy(p)' /\ was # None =>
               /\ reply \in {"migration_failed", "archive_failed"} /\ SingleFault => tree' = was
               /\ reply = "created" /\ j.into # None =>
                    /\ \A g \in toMove, e \in Entries :
                         e \in g => flat'[e] = {} /\ was.flat[e] \subseteq streams'[j.into][e]
                    /\ marker' = j.name
               /\ reply = "completed" =>
                    /\ archives' = Put(was.archives, << j.name, j.into >>, was.streams[j.name])
                    /\ streams' = Drop(was.streams, j.name)
                    /\ wsRoot' = (DOMAIN streams' # {})
                    /\ getActiveWorkstream' # j.name]_wsVars

(***************************************************************************)
(* An archive no command is working on stays as it is: no later complete   *)
(* settles on it, and none writes or removes it, whatever runs beside or   *)
(* after the command that made it (the suffix loop of workstream.cjs:299-  *)
(* 301).  Two completes that settle on the same archive, both before       *)
(* either made it, are both working on it.                                 *)
(***************************************************************************)
Sealed == {a \in DOMAIN archives :
             \A p \in Procs : job[p].op \in {"naming", "listing", "archiving"} => Chosen(p) # a}

ArchiveSealed ==
    [][/\ Sealed \subseteq Sealed'
       /\ \A a \in Sealed : archives'[a] = archives[a]]_wsVars

(***************************************************************************)
(* "Archive the workstream to milestones/." (skills/gsd-workstreams/       *)
(* SKILL.md:57): a complete removes no archive with work in it that is     *)
(* nowhere else, unless a rename fails for a reason of its own.  False:    *)
(* of two completes that settled on one archive, the one that fails takes  *)
(* away what the other has put there (workstream.cjs:299-303, 312-320).    *)
(***************************************************************************)
ArchivedForGood ==
    [][faults' = faults =>
         \A a \in DOMAIN archives, x \in Stored : In(x, archives[a]) => x \in Stored']_wsVars

(***************************************************************************)
(* A workstream that is gone and that no running command works in does not *)
(* come back through the marker: the directory is only made again by a     *)
(* command whose user names it, although a race of set and complete can    *)
(* leave the marker naming it (core.cjs:586-597).  A command that looked   *)
(* at the marker before the workstream was archived is still running, and  *)
(* does make the directory again.                                          *)
(***************************************************************************)
Gone == {n \in Names \ DOMAIN streams :
           \A p \in Procs : Busy(p) => job[p].name # n /\ job[p].into # n}

NamedBy(j, n) == j.op # "idle" /\ ~j.active /\ n \in {j.name, j.into}
NamedAgain(n) == \E p \in Procs : NamedBy(job'[p], n)

NotResurrected == [][\A n \in Gone : n \in Gone' \/ NamedAgain(n)]_wsVars

(***************************************************************************)
(* The collision check of the transition workflow (transition.md:397-421)  *)
(* filters the list by itself, while getOtherActiveWorkstreams was written *)
(* for it: both name the same workstreams, and every directory with an     *)
(* unfinished phase is among them, one that a crash left without its       *)
(* STATE.md included, of which status prints no status.                    *)
(***************************************************************************)
CollisionsSeen ==
    \A x \in Names :
      LET others == getOtherActiveWorkstreams(x) IN
      /\ others = {l.name : l \in {l \in cmdWorkstreamList :
                                      l.name # x /\ l.status # "milestone complete"}}
      /\ \A n \in DOMAIN streams \ {x} :
           CompletedCount(n) < PhaseCount(n) /\ ~(streams[n]["state"] \cap Finished # {})
             => n \in others
      /\ x \in DOMAIN streams =>
           LET s == cmdWorkstreamStatus(x) IN
           \E q \in cmdWorkstreamProgress :
             /\ q.name = x /\ q.completed = s.completed_phases
             /\ q.status = IF s.state THEN s.status ELSE "unknown"
=============================================================================
