------------------------------ MODULE WorkspaceProofs ------------------------------
(***************************************************************************)
(* What the workstream commands keep, for any number of processes,         *)
(* workstreams, faults and crashes: directories stay directories,          *)
(* archives keep names of their own, and every process remembers what its  *)
(* place in the command needs. The lemmas name what each step does to the  *)
(* tree and to the job of the process that takes it.                       *)
(***************************************************************************)
EXTENDS PlanningRoot, FiniteSetTheorems, WellFoundedInduction, TLAPS

(***************************************************************************)
(* Directories.                                                            *)
(***************************************************************************)
\* A directory whose waiting entry holds nothing but the signal.
GoodDir(d) == d \in Directory /\ d["waiting"] \subseteq {Signal0}
\* A function from names to such directories.
Filed(f) == f = [x \in DOMAIN f |-> f[x]] /\ \A x \in DOMAIN f : GoodDir(f[x])

\* The entries of .planning/ the commands know.
LEMMA EntriesAre == Entries = {"roadmap", "state", "reqs", "phases", "pending", "completed", "waiting"}
BY DEF Entries, Groups, toMove

\* Groups share no entry, and each has one.
LEMMA GroupsDisjoint ==
  /\ \A g, h \in Groups : \A e : e \in g /\ e \in h => g = h
  /\ \A g \in Groups : g \subseteq Entries
  /\ \A e \in Entries : \E g \in Groups : e \in g
  /\ toMove \subseteq Groups /\ Directories \subseteq Groups
BY DEF Groups, Entries, toMove, Directories

\* A directory maps each entry to pieces of work.
LEMMA DirIs ==
  ASSUME NEW d, GoodDir(d)
  PROVE  d = [e \in Entries |-> d[e]] /\ \A e \in Entries : d[e] \subseteq 0 .. MaxWork
BY DEF GoodDir, Directory

\* A new directory holds nothing.
LEMMA EmptyDir == GoodDir(Empty) /\ \A e \in Entries : Empty[e] = {}
BY EntriesAre DEF GoodDir, Empty, Directory

\* Taking a group out leaves a directory.
LEMMA ClearDir ==
  ASSUME NEW d, GoodDir(d), NEW g
  PROVE  GoodDir(Clear(d, g))
BY EntriesAre DEF GoodDir, Clear, Directory

\* A rename leaves a directory where it moved to.
LEMMA RenamedDir ==
  ASSUME NEW c, GoodDir(c), NEW d, GoodDir(d), NEW g
  PROVE  GoodDir(Renamed(c, d, g))
BY EntriesAre DEF GoodDir, Renamed, Directory

\* So do the renames of a rollback, whichever of them fail.
LEMMA RestoredDir ==
  ASSUME NEW c, GoodDir(c), NEW d, GoodDir(d), NEW gs
  PROVE  GoodDir(RestoredTo(c, d, gs))
<1> DEFINE r == RestoredTo(c, d, gs)
<1>1. r = [e \in Entries |-> r[e]] /\ \A e \in Entries : r[e] = d[e] \/ r[e] = c[e]
  BY DEF RestoredTo
<1> HIDE DEF r
<1>2. GoodDir(r)
  BY <1>1, EntriesAre DEF GoodDir, Directory
<1> QED BY <1>2 DEF r

\* One entry replaced.
LEMMA EntrySet ==
  ASSUME NEW d, GoodDir(d), NEW e \in Entries, NEW S \in SUBSET (0 .. MaxWork),
         e = "waiting" => S \subseteq {Signal0}
  PROVE  /\ GoodDir([d EXCEPT ![e] = S])
         /\ [d EXCEPT ![e] = S] = [x \in Entries |-> IF x = e THEN S ELSE d[x]]
BY EntriesAre DEF GoodDir, Directory

\* mkdir: one more directory under a name.
LEMMA PutFiled ==
  ASSUME NEW f, Filed(f), NEW x, NEW d, GoodDir(d)
  PROVE  /\ Filed(Put(f, x, d))
         /\ DOMAIN Put(f, x, d) = DOMAIN f \cup {x}
         /\ Put(f, x, d)[x] = d
         /\ \A y \in DOMAIN f : y # x => Put(f, x, d)[y] = f[y]
BY DEF Filed, Put

\* rm -r: the name is gone, the others are as they were.
LEMMA DropFiled ==
  ASSUME NEW f, Filed(f), NEW x
  PROVE  /\ Filed(Drop(f, x))
         /\ DOMAIN Drop(f, x) = DOMAIN f \ {x}
         /\ \A y \in DOMAIN f : y # x => Drop(f, x)[y] = f[y]
BY DEF Filed, Drop, Restrict

\* One directory is replaced.
LEMMA ExceptFiled ==
  ASSUME NEW f, Filed(f), NEW x \in DOMAIN f, NEW d, GoodDir(d)
  PROVE  /\ Filed([f EXCEPT ![x] = d])
         /\ DOMAIN [f EXCEPT ![x] = d] = DOMAIN f
         /\ [f EXCEPT ![x] = d][x] = d
         /\ \A y \in DOMAIN f : y # x => [f EXCEPT ![x] = d][y] = f[y]
BY DEF Filed

(***************************************************************************)
(* The suffix of an archive.                                               *)
(***************************************************************************)
LEMMA FreeSuffix ==
  ASSUME IsFiniteSet(DOMAIN archives), NEW n
  PROVE  Free(n) \in Nat /\ << n, Free(n) >> \notin DOMAIN archives
<1> DEFINE C == Cardinality(DOMAIN archives)
           T == {s \in Nat : << n, s >> \notin DOMAIN archives}
<1>1. C \in Nat
  BY FS_CardinalityType
<1>2. \E s \in 0 .. C : s \in T
  <2> SUFFICES ASSUME \A s \in 0 .. C : << n, s >> \in DOMAIN archives PROVE FALSE
    BY <1>1
  <2> DEFINE f == [s \in 0 .. C |-> << n, s >>]
  <2>1. IsFiniteSet(0 .. C) /\ Cardinality(0 .. C) = C + 1
    BY <1>1, FS_Interval
  <2>2. f \in [0 .. C -> DOMAIN archives]
    OBVIOUS
  <2>3. \A x, y \in 0 .. C : x # y => f[x] # f[y]
    OBVIOUS
  <2> HIDE DEF f
  <2>4. Cardinality(DOMAIN archives) < Cardinality(0 .. C)
    BY <1>1, <2>1
  <2>5. \E x, y \in 0 .. C : x # y /\ f[x] = f[y]
    BY <2>1, <2>2, <2>4, FS_PigeonHole
  <2> QED BY <2>3, <2>5
<1> DEFINE P(s) == << n, s >> \notin DOMAIN archives /\
      \A r \in 0 .. s - 1 : << n, r >> \in DOMAIN archives
<1>3. PICK s \in T : \A r \in T : ~(<< r, s >> \in OpToRel(<, Nat))
  <2>1. T \subseteq Nat /\ T # {}
    BY <1>2
  <2> HIDE DEF T
  <2> QED BY <2>1, NatLessThanWellFounded, WFMin
<1>4. \A r \in T : ~(r < s)
  BY <1>3 DEF OpToRel
<1>5. P(s) /\ s \in Nat
  BY <1>4
<1>6. s \in 0 .. C
  BY <1>1, <1>2, <1>4
<1>7. \E x \in 0 .. C : P(x)
  BY <1>5, <1>6
<1>8. Free(n) = CHOOSE x \in 0 .. C : P(x)
  BY DEF Free
<1> HIDE DEF P
<1>9. Free(n) \in 0 .. C /\ P(Free(n))
  BY <1>7, <1>8
<1> QED BY <1>1, <1>9 DEF P

(***************************************************************************)
(* Jobs.                                                                   *)
(***************************************************************************)
JobKeys == {"op", "reply", "name", "into", "left", "moved", "active", "before"}
IsJob(j) == j = [k \in JobKeys |-> j[k]]

\* Where a command can be.
Ops == {"idle", "resolved", "migrate", "planting", "moving", "mkdir", "created",
        "closing", "naming", "listing", "archiving", "unlink"}

\* What a process at each place of its command remembers.
GoodJob(j) ==
  /\ IsJob(j) /\ j.op \in Ops
  /\ j.left \subseteq Groups /\ j.moved \subseteq Groups
  /\ j.op \notin {"idle", "resolved", "unlink"} => j.name \in Names
  /\ j.op \in {"resolved", "unlink"} => j.name \in Names \cup {None}
  /\ j.op \in {"migrate", "planting", "moving"} => j.into \in Names
  /\ j.op \in {"migrate", "planting", "closing", "naming", "listing"}
       => j.left = {} /\ j.moved = {}
  /\ j.op = "moving" => j.left \subseteq toMove /\ j.moved \subseteq toMove
  /\ j.op \in {"naming", "listing", "archiving"} => j.into \in Nat
  /\ j.op = "unlink" => j.into \in 0 .. MaxWork

\* k is j but for some of the fields.
Same(j, k, keys) == IsJob(k) /\ \A x \in JobKeys \ keys : k[x] = j[x]

\* A process that does nothing remembers nothing.
LEMMA IdleIs ==
  ASSUME NEW reply, NEW j, j = Idle(reply)
  PROVE  /\ IsJob(j) /\ j.op = "idle" /\ j.reply = reply /\ j.before = None
         /\ j.left = {} /\ j.moved = {}
BY DEF Idle, IsJob, JobKeys

\* A command that begins alone remembers the tree.
LEMMA BeginIs ==
  ASSUME NEW p, NEW op, NEW n, NEW j, j = Begin(p, op, n)
  PROVE  /\ IsJob(j) /\ j.op = op /\ j.reply = "none" /\ j.name = n /\ j.into = None
         /\ j.left = {} /\ j.moved = {}
         /\ j.before = IF Alone(p) THEN tree ELSE None
<1>1. PICK i : i = Idle("none")
  OBVIOUS
<1>2. j = [i EXCEPT !.op = op, !.name = n, !.before = IF Alone(p) THEN tree ELSE None]
  BY <1>1 DEF Begin
<1>3. /\ IsJob(i) /\ i.op = "idle" /\ i.reply = "none" /\ i.name = None /\ i.into = None
      /\ i.left = {} /\ i.moved = {}
  BY <1>1 DEF Idle, IsJob, JobKeys
<1>4. PICK b : b = IF Alone(p) THEN tree ELSE None
  OBVIOUS
<1>5. j = [i EXCEPT !.op = op, !.name = n, !.before = b]
  BY <1>2, <1>4
<1>6. /\ IsJob(j) /\ j.op = op /\ j.reply = "none" /\ j.name = n /\ j.into = None
      /\ j.left = {} /\ j.moved = {} /\ j.before = b
  BY <1>3, <1>5 DEF IsJob, JobKeys
<1> QED BY <1>4, <1>6

\* The ways the steps change what a process remembers.
LEMMA JobInto ==
  ASSUME NEW j, IsJob(j), NEW x, NEW k, k = [j EXCEPT !.into = x]
  PROVE  Same(j, k, {"into"}) /\ k.into = x
BY DEF IsJob, JobKeys, Same

LEMMA JobOp ==
  ASSUME NEW j, IsJob(j), NEW op, NEW k, k = [j EXCEPT !.op = op]
  PROVE  Same(j, k, {"op"}) /\ k.op = op
BY DEF IsJob, JobKeys, Same

\* The job of an idle process is good.
LEMMA IdleGood ==
  ASSUME NEW reply, NEW j, j = Idle(reply)
  PROVE  GoodJob(j) /\ j.before = None /\ j.op = "idle" /\ j.reply = reply
BY IdleIs DEF GoodJob, Ops

\* A process that was overtaken goes on, without its memory of the tree.
LEMMA OvertakenGood ==
  ASSUME NEW j, GoodJob(j), NEW k, k = Overtaken(j)
  PROVE  GoodJob(k) /\ k.before = None /\ k.op = j.op /\ k.name = j.name /\ k.into = j.into
<1>1. Same(j, k, {"before", "reply"}) /\ k.before = None
  BY DEF GoodJob, IsJob, JobKeys, Same, Overtaken
<1>2. /\ IsJob(k) /\ k.op = j.op /\ k.name = j.name /\ k.into = j.into
      /\ k.left = j.left /\ k.moved = j.moved
  BY <1>1 DEF Same, JobKeys
<1>3. GoodJob(k)
  BY <1>2 DEF GoodJob
<1> QED BY <1>1, <1>2, <1>3

\* Every process is at a place of its command and remembers what that needs.
GoodJobs == \A p \in Procs : GoodJob(job[p])

\* A step of p: the others are overtaken.
LEMMA SetJobEffect ==
  ASSUME GoodJobs, NEW p \in Procs, NEW j, GoodJob(j), SetJob(p, j)
  PROVE  /\ GoodJobs' /\ job'[p] = j
         /\ \A q \in Procs : q # p => /\ job'[q].before = None /\ job'[q].op = job[q].op
                                   /\ job'[q].name = job[q].name /\ job'[q].into = job[q].into
BY OvertakenGood DEF GoodJobs, SetJob

\* A step of no process with a job.
LEMMA NoJobEffect ==
  ASSUME GoodJobs, NoJob
  PROVE  /\ GoodJobs'
         /\ \A q \in Procs : /\ job'[q].before = None /\ job'[q].op = job[q].op
                            /\ job'[q].name = job[q].name /\ job'[q].into = job[q].into
BY OvertakenGood DEF GoodJobs, NoJob

(***************************************************************************)
(* Types of the tree.                                                      *)
(***************************************************************************)
FlatOK == GoodDir(flat)
StreamsOK == /\ Filed(streams) /\ DOMAIN streams \subseteq Names
             /\ wsRoot \in BOOLEAN /\ (~wsRoot => DOMAIN streams = {})
ArchivesOK == /\ Filed(archives) /\ DOMAIN archives \subseteq Names \X Nat
              /\ IsFiniteSet(DOMAIN archives)
MarkerOK == marker \in Names \cup {None}
CountsOK == /\ gsd \in {"absent", "empty", "waiting"} /\ minted \in 0 .. MaxWork
            /\ faults \in 0 .. MaxFaults /\ crashes \in Nat
TreeOK == FlatOK /\ StreamsOK /\ ArchivesOK /\ MarkerOK /\ CountsOK
WsOK == TreeOK /\ GoodJobs

\* Where a command works.
LEMMA ResolvedName ==
  ASSUME WsOK, NEW p \in Procs, job[p].op = "resolved"
  PROVE  job[p].name \in Names \cup {None}
BY DEF WsOK, GoodJobs, GoodJob

\* The marker names a workstream or none.
LEMMA ActiveType ==
  ASSUME WsOK
  PROVE  getActiveWorkstream \in DOMAIN streams \cup {None} /\ DOMAIN streams \subseteq Names
BY DEF WsOK, TreeOK, StreamsOK, getActiveWorkstream

\* The directory a command reads is one, also where none exists yet.
LEMMA PlanningDirGood ==
  ASSUME WsOK, NEW w \in Names \cup {None}
  PROVE  GoodDir(planningDir(w))
BY EmptyDir DEF WsOK, TreeOK, FlatOK, StreamsOK, Filed, planningDir, Exists

\* Writing a directory there.
LEMMA WriteDirOK ==
  ASSUME WsOK, NEW w \in Names \cup {None}, NEW dir, GoodDir(dir), WriteDir(w, dir)
  PROVE  FlatOK' /\ StreamsOK'
<1>1. CASE w = None
  BY <1>1 DEF WriteDir, WsOK, TreeOK, FlatOK, StreamsOK
<1>2. CASE w # None
  <2>1. streams' = Put(streams, w, dir) /\ wsRoot' = TRUE /\ UNCHANGED flat
    BY <1>2 DEF WriteDir
  <2>2. Filed(streams') /\ DOMAIN streams' = DOMAIN streams \cup {w}
    BY <2>1, PutFiled DEF WsOK, TreeOK, StreamsOK
  <2> QED BY <1>2, <2>1, <2>2 DEF WsOK, TreeOK, FlatOK, StreamsOK
<1> QED BY <1>1, <1>2

\* One entry of the directory a command works in.
LEMMA WriteEntryOK ==
  ASSUME WsOK, NEW w \in Names \cup {None}, NEW e \in Entries, NEW S \in SUBSET (0 .. MaxWork),
         e = "waiting" => S \subseteq {Signal0},
         WriteDir(w, [planningDir(w) EXCEPT ![e] = S])
  PROVE  FlatOK' /\ StreamsOK'
<1>1. PICK d : d = planningDir(w)
  OBVIOUS
<1>2. PICK c : c = [d EXCEPT ![e] = S]
  OBVIOUS
<1>3. GoodDir(d)
  BY <1>1, PlanningDirGood
<1>4. GoodDir(c)
  BY <1>2, <1>3, EntrySet
<1>5. WriteDir(w, c)
  BY <1>1, <1>2
<1> QED BY <1>4, <1>5, WriteDirOK

(***************************************************************************)
(* What the process that takes a step remembers afterwards.                *)
(***************************************************************************)
Started(p, k) == k.before = IF Alone(p) THEN tree ELSE None

\* create answers, begins a migration or begins without one.
LEMMA CreateSteps ==
  ASSUME WsOK, NEW p \in Procs, NEW n \in Names, NEW migrate \in BOOLEAN, NEW m \in Names,
         cmdWorkstreamCreate(p, n, migrate, m)
  PROVE  \E k : /\ GoodJob(k) /\ SetJob(p, k)
                /\ \/ k.op = "idle" /\ k.before = None
                   \/ k.op = "migrate" /\ Started(p, k) /\ UNCHANGED wsRoot /\ ~wsRoot
                   \/ k.op = "mkdir" /\ Started(p, k) /\ k.into = None
<1>1. PICK i : i = Idle("already_exists")
  OBVIOUS
<1>2. PICK b : b = Begin(p, "migrate", n)
  OBVIOUS
<1>3. PICK k : k = [b EXCEPT !.into = m]
  OBVIOUS
<1>4. PICK d : d = Begin(p, "mkdir", n)
  OBVIOUS
<1>5. GoodJob(i) /\ i.op = "idle" /\ i.before = None
  BY <1>1, IdleGood
<1>6. GoodJob(k) /\ k.op = "migrate" /\ Started(p, k)
  <2>1. IsJob(b) /\ b.op = "migrate" /\ b.name = n /\ b.left = {} /\ b.moved = {} /\ Started(p, b)
    BY <1>2, BeginIs DEF Started
  <2>2. Same(b, k, {"into"}) /\ k.into = m
    BY <1>3, <2>1, JobInto
  <2> QED BY <2>1, <2>2 DEF GoodJob, Same, JobKeys, Ops, Started
<1>7. GoodJob(d) /\ d.op = "mkdir" /\ Started(p, d) /\ d.into = None
  <2>1. /\ IsJob(d) /\ d.op = "mkdir" /\ d.name = n /\ d.left = {} /\ d.moved = {}
        /\ d.into = None /\ Started(p, d)
    BY <1>4, BeginIs DEF Started
  <2> QED BY <2>1 DEF GoodJob, Ops
<1>8. SetJob(p, i) \/ (SetJob(p, k) /\ UNCHANGED wsRoot /\ ~wsRoot) \/ SetJob(p, d)
  BY <1>1, <1>2, <1>3, <1>4 DEF cmdWorkstreamCreate
<1> QED BY <1>5, <1>6, <1>7, <1>8

\* A process settles where it works.
LEMMA ResolveSteps ==
  ASSUME WsOK, NEW p \in Procs, NEW ws \in Names \cup {None}, Resolve(p, ws)
  PROVE  \E k : /\ GoodJob(k) /\ SetJob(p, k)
                /\ k.op = "resolved" /\ Started(p, k) /\ k.active = (ws = None)
                /\ k.into = None /\ k.name = IF ws # None THEN ws ELSE getActiveWorkstream
<1>1. PICK w : w = IF ws # None THEN ws ELSE getActiveWorkstream
  OBVIOUS
<1>2. PICK b : b = Begin(p, "resolved", w)
  OBVIOUS
<1>3. PICK act : act = (ws = None)
  OBVIOUS
<1>4. PICK k : k = [b EXCEPT !.active = act]
  OBVIOUS
<1>5. /\ IsJob(b) /\ b.op = "resolved" /\ b.name = w /\ b.left = {} /\ b.moved = {}
      /\ b.into = None /\ Started(p, b)
  BY <1>2, BeginIs DEF Started
<1>6. Same(b, k, {"active"}) /\ k.active = act
  BY <1>4, <1>5 DEF IsJob, JobKeys, Same
<1>7. w \in Names \cup {None}
  BY <1>1, ActiveType
<1>8. GoodJob(k) /\ k.op = "resolved" /\ k.name = w /\ k.into = None /\ Started(p, k)
  BY <1>5, <1>6, <1>7 DEF GoodJob, Same, JobKeys, Ops, Started
<1>9. SetJob(p, k)
  BY <1>1, <1>2, <1>3, <1>4 DEF Resolve
<1> QED BY <1>1, <1>3, <1>6, <1>8, <1>9

\* complete answers, or begins with a workstream that is there.
LEMMA CompleteSteps ==
  ASSUME WsOK, NEW p \in Procs, NEW n \in Names, cmdWorkstreamComplete(p, n)
  PROVE  \E k : /\ GoodJob(k) /\ SetJob(p, k)
                /\ \/ k.op = "idle" /\ k.before = None
                   \/ /\ k.op = "closing" /\ Started(p, k) /\ n \in DOMAIN streams
                      /\ k.name = n /\ k.into = None /\ k.active = (getActiveWorkstream = n)
<1>1. PICK i : i = Idle("not_found")
  OBVIOUS
<1>2. PICK b : b = Begin(p, "closing", n)
  OBVIOUS
<1>4. PICK act : act = (getActiveWorkstream = n)
  OBVIOUS
<1>5. PICK k : k = [b EXCEPT !.active = act]
  OBVIOUS
<1>6. GoodJob(i) /\ i.op = "idle" /\ i.before = None
  BY <1>1, IdleGood
<1>7. /\ IsJob(b) /\ b.op = "closing" /\ b.name = n /\ b.left = {} /\ b.moved = {}
      /\ b.into = None /\ Started(p, b)
  BY <1>2, BeginIs DEF Started
<1>8. Same(b, k, {"active"}) /\ k.active = act
  BY <1>5, <1>7 DEF IsJob, JobKeys, Same
<1>9. GoodJob(k) /\ k.op = "closing" /\ k.name = n /\ k.into = None /\ Started(p, k)
  BY <1>7, <1>8 DEF GoodJob, Same, JobKeys, Ops, Started
<1>10. SetJob(p, IF n \notin DOMAIN streams THEN i ELSE k)
  BY <1>1, <1>2, <1>4, <1>5 DEF cmdWorkstreamComplete
<1>11. CASE n \notin DOMAIN streams
  BY <1>6, <1>10, <1>11
<1>12. CASE n \in DOMAIN streams
  BY <1>4, <1>8, <1>9, <1>10, <1>12
<1> QED BY <1>11, <1>12

\* todo complete has copied, and remembers what to unlink, or finds no todo.
LEMMA TodoSteps ==
  ASSUME WsOK, NEW p \in Procs, NEW t \in 1 .. MaxWork, cmdTodoComplete(p, t)
  PROVE  \E k : /\ GoodJob(k) /\ SetJob(p, k) /\ job[p].op = "resolved"
                /\ \/ /\ k.op = "idle" /\ k.before = None
                      /\ UNCHANGED << flat, wsRoot, streams >>
                   \/ /\ Same(job[p], k, {"op", "into"}) /\ k.op = "unlink" /\ k.into = t
                      /\ t \in planningDir(job[p].name)["pending"]
                      /\ WriteDir(job[p].name, [planningDir(job[p].name) EXCEPT
                                                  !["completed"] = @ \cup {t}])
<1>1. PICK i : i = Idle("error")
  OBVIOUS
<1>2. PICK j : j = job[p]
  OBVIOUS
<1>3. PICK k : k = [j EXCEPT !.op = "unlink", !.into = t]
  OBVIOUS
<1>4. GoodJob(i) /\ i.op = "idle" /\ i.before = None
  BY <1>1, IdleGood
<1>5. GoodJob(j) /\ j.op = "resolved"
  BY <1>2 DEF WsOK, GoodJobs, cmdTodoComplete
<1>6. Same(j, k, {"op", "into"}) /\ k.op = "unlink" /\ k.into = t
  <2>1. IsJob(j)
    BY <1>5 DEF GoodJob
  <2> QED BY <1>3, <2>1 DEF IsJob, JobKeys, Same
<1>7. GoodJob(k)
  BY <1>5, <1>6 DEF GoodJob, Same, JobKeys, Ops
<1>8. CASE t \in planningDir(job[p].name)["pending"]
  BY <1>2, <1>3, <1>5, <1>6, <1>7, <1>8 DEF cmdTodoComplete
<1>9. CASE t \notin planningDir(job[p].name)["pending"]
  <2>1. SetJob(p, i) /\ UNCHANGED << flat, wsRoot, streams >>
    BY <1>1, <1>9 DEF cmdTodoComplete
  <2> QED BY <1>2, <1>4, <1>5, <2>1
<1> QED BY <1>8, <1>9

\* The migration stops where there are workstreams already.
LEMMA MigrateSteps ==
  ASSUME WsOK, NEW p \in Procs, migrateToWorkstreams(p)
  PROVE  \E k : /\ GoodJob(k) /\ SetJob(p, k) /\ job[p].op = "migrate"
                /\ \/ k.op = "idle" /\ k.before = None
                   \/ ~wsRoot /\ Same(job[p], k, {"op"}) /\ k.op = "planting"
<1>1. PICK i : i = Idle("migration_failed")
  OBVIOUS
<1>2. PICK j : j = job[p]
  OBVIOUS
<1>3. PICK k : k = [j EXCEPT !.op = "planting"]
  OBVIOUS
<1>4. GoodJob(i) /\ i.op = "idle" /\ i.before = None
  BY <1>1, IdleGood
<1>5. GoodJob(j) /\ j.op = "migrate"
  BY <1>2 DEF WsOK, GoodJobs, migrateToWorkstreams
<1>6. Same(j, k, {"op"}) /\ k.op = "planting"
  <2>1. IsJob(j)
    BY <1>5 DEF GoodJob
  <2> QED BY <1>3, <1>5, <2>1, JobOp
<1>7. GoodJob(k)
  BY <1>5, <1>6 DEF GoodJob, Same, JobKeys, Ops
<1>8. SetJob(p, IF wsRoot THEN i ELSE k)
  BY <1>1, <1>2, <1>3 DEF migrateToWorkstreams
<1>9. CASE wsRoot
  BY <1>2, <1>4, <1>5, <1>8, <1>9
<1>10. CASE ~wsRoot
  BY <1>2, <1>5, <1>6, <1>7, <1>8, <1>10
<1> QED BY <1>9, <1>10

\* What is ahead is part of what is left.
LEMMA AheadLeft ==
  ASSUME NEW gs, NEW dir
  PROVE  Ahead(gs, dir) \subseteq gs
BY DEF Ahead

\* The directory of the migrated work is there, and the process has looked.
LEMMA PlantSteps ==
  ASSUME WsOK, NEW p \in Procs, PlantDir(p)
  PROVE  \E k : /\ GoodJob(k) /\ SetJob(p, k) /\ job[p].op = "planting"
                /\ Same(job[p], k, {"op", "left"})
                /\ k.op = "moving" /\ k.left = Ahead(toMove, flat)
<1>1. PICK j : j = job[p]
  OBVIOUS
<1>2. PICK l : l = Ahead(toMove, flat)
  OBVIOUS
<1>3. PICK k : k = [j EXCEPT !.op = "moving", !.left = l]
  OBVIOUS
<1>4. GoodJob(j) /\ j.op = "planting"
  BY <1>1 DEF WsOK, GoodJobs, PlantDir
<1>5. Same(j, k, {"op", "left"}) /\ k.op = "moving" /\ k.left = l
  <2>1. IsJob(j)
    BY <1>4 DEF GoodJob
  <2> QED BY <1>3, <2>1 DEF IsJob, JobKeys, Same
<1>6. l \subseteq toMove /\ l \subseteq Groups
  BY <1>2, AheadLeft, GroupsDisjoint
<1>7. GoodJob(k)
  BY <1>4, <1>5, <1>6 DEF GoodJob, Same, JobKeys, Ops
<1>8. SetJob(p, k)
  BY <1>1, <1>2, <1>3 DEF PlantDir
<1> QED BY <1>1, <1>2, <1>4, <1>5, <1>7, <1>8

\* The place of each item in the table.
LEMMA Ranks ==
  /\ \A g \in toMove : Rank(g) \in Nat
  /\ \A g, h \in toMove : Rank(g) = Rank(h) => g = h
  /\ \A gs \in SUBSET toMove : gs # {} => \E g \in gs : \A h \in gs : Rank(g) <= Rank(h)
<1>1. /\ Rank({"roadmap"}) = 1 /\ Rank({"state"}) = 2 /\ Rank({"reqs"}) = 3
      /\ Rank({"phases"}) = 4
  <2>1. /\ {"roadmap"} # {"state"} /\ {"roadmap"} # {"phases"} /\ {"state"} # {"phases"}
        /\ {"roadmap"} # {"reqs"} /\ {"state"} # {"reqs"} /\ {"reqs"} # {"phases"}
    OBVIOUS
  <2> QED BY <2>1 DEF Rank
<1>2. PICK a, b, c, d : a = {"roadmap"} /\ b = {"state"} /\ c = {"reqs"} /\ d = {"phases"}
  OBVIOUS
<1>3. \A g \in toMove : g = a \/ g = b \/ g = c \/ g = d
  BY <1>2 DEF toMove
<1>4. Rank(a) = 1 /\ Rank(b) = 2 /\ Rank(c) = 3 /\ Rank(d) = 4
  BY <1>1, <1>2
<1>5. ASSUME NEW gs \in SUBSET toMove, gs # {}
      PROVE  \E g \in gs : \A h \in gs : Rank(g) <= Rank(h)
  <2>0. \A g \in gs : g = a \/ g = b \/ g = c \/ g = d
    BY <1>3
  <2>1. CASE a \in gs
    <3>1. \A h \in gs : Rank(a) <= Rank(h)
      BY <1>4, <2>0
    <3> QED BY <2>1, <3>1
  <2>2. CASE a \notin gs /\ b \in gs
    <3>1. \A h \in gs : Rank(b) <= Rank(h)
      BY <1>4, <2>0, <2>2
    <3> QED BY <2>2, <3>1
  <2>3. CASE a \notin gs /\ b \notin gs /\ c \in gs
    <3>1. \A h \in gs : Rank(c) <= Rank(h)
      BY <1>4, <2>0, <2>3
    <3> QED BY <2>3, <3>1
  <2>4. CASE a \notin gs /\ b \notin gs /\ c \notin gs
    <3>1. \A h \in gs : Rank(d) <= Rank(h)
      BY <1>4, <2>0, <2>4
    <3> QED BY <1>5, <2>0, <2>4, <3>1
  <2> QED BY <2>1, <2>2, <2>3, <2>4
<1>6. \A g \in toMove : Rank(g) \in Nat
  BY <1>3, <1>4
<1>7. \A g, h \in toMove : Rank(g) = Rank(h) => g = h
  BY <1>3, <1>4
<1> QED BY <1>5, <1>6, <1>7

\* The first item of the table that is left.
LEMMA NextItemLeft ==
  ASSUME NEW gs \in SUBSET toMove, gs # {}
  PROVE  NextItem(gs) \in gs /\ \A h \in gs : Rank(NextItem(gs)) <= Rank(h)
<1>1. \E g \in gs : \A h \in gs : Rank(g) <= Rank(h)
  BY Ranks
<1> QED BY <1>1 DEF NextItem

\* What is passed over holds nothing, and the next item holds something.
LEMMA AheadHeld ==
  ASSUME NEW gs \in SUBSET toMove, NEW dir
  PROVE  /\ \A g \in gs \ Ahead(gs, dir) : ~Holds(dir, g)
         /\ Ahead(gs, dir) # {} => Holds(dir, NextItem(Ahead(gs, dir)))
<1>1. PICK r : r = Ahead(gs, dir)
  OBVIOUS
<1>2. \A g \in gs : Rank(g) \in Nat
  BY Ranks
<1>3. \A g \in gs : g \in r <=> \E h \in gs : Rank(h) <= Rank(g) /\ Holds(dir, h)
  BY <1>1 DEF Ahead
<1>4. \A g \in gs : Holds(dir, g) => g \in r
  BY <1>2, <1>3
<1>5. r \in SUBSET toMove /\ r \subseteq gs
  BY <1>1, AheadLeft
<1>6. ASSUME r # {} PROVE Holds(dir, NextItem(r))
  <2>1. PICK g : g = NextItem(r)
    OBVIOUS
  <2>2. g \in r /\ \A h \in r : Rank(g) <= Rank(h)
    BY <1>5, <1>6, <2>1, NextItemLeft
  <2>3. PICK h \in gs : Rank(h) <= Rank(g) /\ Holds(dir, h)
    BY <1>3, <1>5, <2>2
  <2>4. Rank(g) <= Rank(h)
    BY <1>4, <2>2, <2>3
  <2>5. Rank(g) = Rank(h)
    BY <1>2, <1>5, <2>2, <2>3, <2>4
  <2>6. g = h
    BY <1>5, <2>2, <2>3, <2>5, Ranks
  <2> QED BY <2>1, <2>3, <2>6
<1> QED BY <1>1, <1>4, <1>6

\* One item of the table is moved; the process has looked for the next.
LEMMA MoveSteps ==
  ASSUME WsOK, NEW p \in Procs, MigrateMove(p)
  PROVE  \E k, g : /\ GoodJob(k) /\ SetJob(p, k) /\ job[p].op = "moving" /\ g \in job[p].left
                   /\ job[p].into \in DOMAIN streams
                   /\ CanRename(flat, streams[job[p].into], g)
                   /\ Same(job[p], k, {"left", "moved"})
                   /\ k.left = Ahead(job[p].left \ {g}, flat)
                   /\ k.moved = job[p].moved \cup {g}
                   /\ streams' = Put(streams, job[p].into,
                                     Renamed(flat, streams[job[p].into], g))
                   /\ flat' = Clear(flat, g)
<1>1. PICK j : j = job[p]
  OBVIOUS
<1>2. PICK g : g = NextItem(j.left)
  OBVIOUS
<1>0. PICK l : l = Ahead(j.left \ {g}, flat)
  OBVIOUS
<1>3. PICK k : k = [j EXCEPT !.left = l, !.moved = @ \cup {g}]
  OBVIOUS
<1>5. GoodJob(j) /\ j.op = "moving" /\ j.left # {}
  BY <1>1 DEF WsOK, GoodJobs, MigrateMove
<1>6. g \in j.left /\ j.left \subseteq toMove
  BY <1>2, <1>5, NextItemLeft DEF GoodJob
<1>7. Same(j, k, {"left", "moved"}) /\ k.left = l /\ k.moved = j.moved \cup {g}
  <2>1. IsJob(j)
    BY <1>5 DEF GoodJob
  <2> QED BY <1>3, <2>1 DEF IsJob, JobKeys, Same
<1>8. l \subseteq toMove /\ l \subseteq Groups
  BY <1>0, <1>6, AheadLeft, GroupsDisjoint
<1>9. GoodJob(k)
  BY <1>5, <1>6, <1>7, <1>8, GroupsDisjoint DEF GoodJob, Same, JobKeys
<1>10. SetJob(p, k)
  BY <1>0, <1>1, <1>2, <1>3 DEF MigrateMove
<1>11. /\ j.into \in DOMAIN streams /\ CanRename(flat, streams[j.into], g)
       /\ streams' = Put(streams, j.into, Renamed(flat, streams[j.into], g))
       /\ flat' = Clear(flat, g)
  BY <1>1, <1>2 DEF MigrateMove
<1> QED BY <1>0, <1>1, <1>5, <1>6, <1>7, <1>9, <1>10, <1>11

\* mkdir -p of the workstream that is created.
LEMMA OpSteps ==
  ASSUME WsOK, NEW p \in Procs, MakeDir(p)
  PROVE  \E k : /\ GoodJob(k) /\ SetJob(p, k) /\ Same(job[p], k, {"op"})
                /\ k.op = "created" /\ job[p].op \in {"moving", "mkdir"}
                /\ job[p].op = "moving" => job[p].left = {}
<1>1. PICK j : j = job[p]
  OBVIOUS
<1>3. PICK k : k = [j EXCEPT !.op = "created"]
  OBVIOUS
<1>4. GoodJob(j) /\ j.op \in {"moving", "mkdir"} /\ (j.op = "moving" => j.left = {})
  BY <1>1 DEF WsOK, GoodJobs, MakeDir
<1>5. Same(j, k, {"op"}) /\ k.op = "created"
  <2>1. IsJob(j)
    BY <1>4 DEF GoodJob
  <2> QED BY <1>3, <1>4, <2>1, JobOp
<1>6. GoodJob(k)
  BY <1>4, <1>5 DEF GoodJob, Same, JobKeys, Ops
<1>7. SetJob(p, k)
  BY <1>1, <1>3 DEF MakeDir
<1> QED BY <1>1, <1>4, <1>5, <1>6, <1>7

\* complete chooses a name for the archive, makes it and reads what to move.
LEMMA ChooseSteps ==
  ASSUME WsOK, NEW p \in Procs, ChooseArchive(p)
  PROVE  \E k : /\ GoodJob(k) /\ SetJob(p, k) /\ Same(job[p], k, {"op", "into"})
                /\ job[p].op = "closing" /\ k.op = "naming" /\ k.into = Free(job[p].name)
<1>1. PICK j : j = job[p]
  OBVIOUS
<1>2. PICK s : s = Free(j.name)
  OBVIOUS
<1>3. PICK k : k = [j EXCEPT !.op = "naming", !.into = s]
  OBVIOUS
<1>4. GoodJob(j) /\ j.op = "closing"
  BY <1>1 DEF WsOK, GoodJobs, ChooseArchive
<1>5. Same(j, k, {"op", "into"}) /\ k.op = "naming" /\ k.into = s
  <2>1. IsJob(j)
    BY <1>4 DEF GoodJob
  <2> QED BY <1>3, <2>1 DEF IsJob, JobKeys, Same
<1>6. s \in Nat
  BY <1>2, FreeSuffix DEF WsOK, TreeOK, ArchivesOK
<1>7. GoodJob(k)
  BY <1>4, <1>5, <1>6 DEF GoodJob, Same, JobKeys, Ops
<1>8. SetJob(p, k)
  BY <1>1, <1>2, <1>3 DEF ChooseArchive
<1> QED BY <1>1, <1>2, <1>4, <1>5, <1>7, <1>8

LEMMA MakeSteps ==
  ASSUME WsOK, NEW p \in Procs, MakeArchive(p)
  PROVE  \E k : /\ GoodJob(k) /\ SetJob(p, k) /\ Same(job[p], k, {"op"})
                /\ job[p].op = "naming" /\ k.op = "listing"
<1>1. PICK j : j = job[p]
  OBVIOUS
<1>3. PICK k : k = [j EXCEPT !.op = "listing"]
  OBVIOUS
<1>4. GoodJob(j) /\ j.op = "naming"
  BY <1>1 DEF WsOK, GoodJobs, MakeArchive
<1>5. Same(j, k, {"op"}) /\ k.op = "listing"
  <2>1. IsJob(j)
    BY <1>4 DEF GoodJob
  <2> QED BY <1>3, <1>4, <2>1, JobOp
<1>7. GoodJob(k)
  BY <1>4, <1>5 DEF GoodJob, Same, JobKeys, Ops
<1>8. SetJob(p, k)
  BY <1>1, <1>3 DEF MakeArchive
<1> QED BY <1>1, <1>4, <1>5, <1>7, <1>8

LEMMA ListSteps ==
  ASSUME WsOK, NEW p \in Procs, ListEntries(p)
  PROVE  \E k : /\ GoodJob(k) /\ SetJob(p, k) /\ Same(job[p], k, {"op", "left"})
                /\ job[p].op = "listing" /\ k.op = "archiving"
                /\ k.left = {g \in Groups : Holds(streams[job[p].name], g)}
<1>1. PICK j : j = job[p]
  OBVIOUS
<1>2. PICK l : l = {g \in Groups : Holds(streams[j.name], g)}
  OBVIOUS
<1>3. PICK k : k = [j EXCEPT !.op = "archiving", !.left = l]
  OBVIOUS
<1>4. GoodJob(j) /\ j.op = "listing"
  BY <1>1 DEF WsOK, GoodJobs, ListEntries
<1>5. Same(j, k, {"op", "left"}) /\ k.op = "archiving" /\ k.left = l
  <2>1. IsJob(j)
    BY <1>4 DEF GoodJob
  <2> QED BY <1>3, <2>1 DEF IsJob, JobKeys, Same
<1>6. l \subseteq Groups
  BY <1>2
<1>7. GoodJob(k)
  BY <1>4, <1>5, <1>6 DEF GoodJob, Same, JobKeys, Ops
<1>8. SetJob(p, k)
  BY <1>1, <1>2, <1>3 DEF ListEntries
<1> QED BY <1>1, <1>2, <1>4, <1>5, <1>7, <1>8

\* One group is moved into the archive.
LEMMA ArchiveSteps ==
  ASSUME WsOK, NEW p \in Procs, NEW g \in Groups, ArchiveMove(p, g)
  PROVE  \E k : /\ GoodJob(k) /\ SetJob(p, k) /\ Same(job[p], k, {"left", "moved"})
                /\ k.left = job[p].left \ {g} /\ k.moved = job[p].moved \cup {g}
<1>1. PICK j : j = job[p]
  OBVIOUS
<1>0. PICK l : l = j.left \ {g}
  OBVIOUS
<1>2. PICK k : k = [j EXCEPT !.left = l, !.moved = @ \cup {g}]
  OBVIOUS
<1>3. GoodJob(j) /\ j.op = "archiving"
  BY <1>1 DEF WsOK, GoodJobs, ArchiveMove
<1>4. Same(j, k, {"left", "moved"}) /\ k.left = j.left \ {g} /\ k.moved = j.moved \cup {g}
  <2>1. IsJob(j)
    BY <1>3 DEF GoodJob
  <2> QED BY <1>0, <1>2, <2>1 DEF IsJob, JobKeys, Same
<1>5. GoodJob(k)
  BY <1>3, <1>4 DEF GoodJob, Same, JobKeys
<1>6. SetJob(p, k)
  BY <1>0, <1>1, <1>2 DEF ArchiveMove
<1> QED BY <1>1, <1>4, <1>5, <1>6

\* The health check finds a STATE.md.
Settles(p) ==
  /\ job[p].op = "resolved" /\ SetJob(p, Idle("done"))
  /\ UNCHANGED << treeVars, gsd, minted, faults, crashes >>

\* The steps that end a command.
Ends(p) == \/ MigrateRollback(p) \/ FinishCreate(p) \/ (\E g \in Groups : ArchiveRollback(p, g))
           \/ ListFails(p) \/ FinishComplete(p) \/ UnlinkPending(p) \/ Crash(p)
           \/ cmdSignalWaiting(p) \/ cmdSignalResume(p) \/ (\E e \in Entries : AddWork(p, e))
           \/ Settles(p)

\* They leave the process idle.
LEMMA EndSteps ==
  ASSUME NEW p \in Procs, Ends(p)
  PROVE  \E k : GoodJob(k) /\ SetJob(p, k) /\ k.op = "idle" /\ k.before = None
<1>1. \E reply : SetJob(p, Idle(reply))
  BY DEF Ends, MigrateRollback, FinishCreate, ArchiveRollback, ListFails, GiveUp, FinishComplete,
         UnlinkPending, Crash, cmdSignalWaiting, cmdSignalResume, AddWork, Settles
<1> QED BY <1>1, IdleGood

(***************************************************************************)
(* Every step keeps the types.                                             *)
(***************************************************************************)
\* A step that changes what processes remember and at most wsRoot.
LEMMA CreateOK ==
  ASSUME WsOK, NEW p \in Procs, NEW n \in Names, NEW migrate \in BOOLEAN, NEW m \in Names,
         cmdWorkstreamCreate(p, n, migrate, m)
  PROVE  WsOK'
<1>1. /\ UNCHANGED << flat, streams, archives, marker, gsd, minted, faults, crashes >>
      /\ wsRoot' \in BOOLEAN /\ (wsRoot => wsRoot')
  BY DEF cmdWorkstreamCreate, WsOK, TreeOK, StreamsOK
<1>2. TreeOK'
  BY <1>1 DEF WsOK, TreeOK, FlatOK, StreamsOK, ArchivesOK, MarkerOK, CountsOK
<1>3. GoodJobs'
  BY CreateSteps, SetJobEffect DEF WsOK
<1> QED BY <1>2, <1>3 DEF WsOK

\* A step that changes no file or directory.
LEMMA SameTreeOK ==
  ASSUME WsOK, GoodJobs', UNCHANGED << treeVars, gsd, minted, faults, crashes >>
  PROVE  WsOK'
BY DEF treeVars, WsOK, TreeOK, FlatOK, StreamsOK, ArchivesOK, MarkerOK, CountsOK

LEMMA LookOK ==
  ASSUME WsOK, NEW p \in Procs,
         \/ \E ws \in Names \cup {None} : Resolve(p, ws)
         \/ \E n \in Names : cmdWorkstreamComplete(p, n)
         \/ migrateToWorkstreams(p) \/ ListEntries(p) \/ Settles(p)
  PROVE  WsOK'
<1>1. GoodJobs'
  BY ResolveSteps, CompleteSteps, MigrateSteps, ListSteps, EndSteps, SetJobEffect DEF WsOK, Ends
<1>2. UNCHANGED << treeVars, gsd, minted, faults, crashes >>
  BY DEF Resolve, cmdWorkstreamComplete, migrateToWorkstreams, ListEntries, Settles
<1> QED BY <1>1, <1>2, SameTreeOK

\* complete clears the marker and chooses a name.
LEMMA ChooseOK ==
  ASSUME WsOK, NEW p \in Procs, ChooseArchive(p)
  PROVE  WsOK'
<1>1. GoodJobs'
  BY ChooseSteps, SetJobEffect DEF WsOK
<1>2. /\ UNCHANGED << flat, wsRoot, streams, archives, gsd, minted, faults, crashes >>
      /\ marker' \in {None, marker}
  BY DEF ChooseArchive
<1> QED BY <1>1, <1>2 DEF WsOK, TreeOK, FlatOK, StreamsOK, ArchivesOK, MarkerOK, CountsOK

\* The archive is there, a new one or another's.
LEMMA MakeOK ==
  ASSUME WsOK, NEW p \in Procs, MakeArchive(p)
  PROVE  WsOK'
<1>1. GoodJobs'
  BY MakeSteps, SetJobEffect DEF WsOK
<1>2. PICK a : a = Chosen(p)
  OBVIOUS
<1>3. a \in Names \X Nat
  BY <1>2 DEF MakeArchive, Chosen, WsOK, GoodJobs, GoodJob
<1>4. /\ UNCHANGED << flat, wsRoot, streams, marker, gsd, minted, faults, crashes >>
      /\ archives' = archives \/ archives' = Put(archives, a, Empty)
  BY <1>2 DEF MakeArchive
<1>5. Filed(archives) /\ DOMAIN archives \subseteq Names \X Nat /\ IsFiniteSet(DOMAIN archives)
  BY DEF WsOK, TreeOK, ArchivesOK
<1>6. ArchivesOK'
  <2>1. CASE archives' = archives
    BY <1>5, <2>1 DEF ArchivesOK
  <2>2. CASE archives' = Put(archives, a, Empty)
    <3>1. Filed(archives') /\ DOMAIN archives' = DOMAIN archives \cup {a}
      BY <1>5, <2>2, PutFiled, EmptyDir
    <3>2. IsFiniteSet(DOMAIN archives')
      BY ONLY <1>5, <3>1, FS_AddElement
    <3> QED BY <1>3, <1>5, <3>1, <3>2 DEF ArchivesOK
  <2> QED BY <1>4, <2>1, <2>2
<1> QED BY <1>1, <1>4, <1>6 DEF WsOK, TreeOK, FlatOK, StreamsOK, MarkerOK, CountsOK

\* set: the marker names a workstream, or is cleared.
LEMMA SetOK ==
  ASSUME WsOK, NEW n \in Names \cup {None}, cmdWorkstreamSet(n)
  PROVE  WsOK'
<1>1. GoodJobs'
  BY NoJobEffect DEF WsOK, cmdWorkstreamSet
<1> QED BY <1>1 DEF cmdWorkstreamSet, WsOK, TreeOK, FlatOK, StreamsOK, ArchivesOK, MarkerOK,
      CountsOK

\* todo complete, its first half: the copy.
LEMMA TodoOK ==
  ASSUME WsOK, NEW p \in Procs, NEW t \in 1 .. MaxWork, cmdTodoComplete(p, t)
  PROVE  WsOK'
<1>1. GoodJobs'
  BY TodoSteps, SetJobEffect DEF WsOK
<1>2. PICK w : w = job[p].name
  OBVIOUS
<1>3. w \in Names \cup {None}
  BY <1>2, ResolvedName DEF cmdTodoComplete
<1>4. \/ UNCHANGED << flat, wsRoot, streams >>
      \/ WriteDir(w, [planningDir(w) EXCEPT !["completed"] = @ \cup {t}])
  BY <1>2, TodoSteps
<1>5. FlatOK' /\ StreamsOK'
  <2>1. CASE UNCHANGED << flat, wsRoot, streams >>
    BY <2>1 DEF WsOK, TreeOK, FlatOK, StreamsOK
  <2>2. CASE WriteDir(w, [planningDir(w) EXCEPT !["completed"] = @ \cup {t}])
    <3>1. PICK S : S = planningDir(w)["completed"] \cup {t}
      OBVIOUS
    <3>2. S \in SUBSET (0 .. MaxWork) /\ "completed" \in Entries /\ "completed" # "waiting"
      BY <1>3, <3>1, PlanningDirGood, DirIs, EntriesAre
    <3>3. WriteDir(w, [planningDir(w) EXCEPT !["completed"] = S])
      BY <2>2, <3>1
    <3> QED BY <1>3, <3>2, <3>3, WriteEntryOK
  <2> QED BY <1>4, <2>1, <2>2
<1>6. UNCHANGED << archives, marker, gsd, minted, faults, crashes >>
  BY DEF cmdTodoComplete
<1> QED BY <1>1, <1>5, <1>6 DEF WsOK, TreeOK, ArchivesOK, MarkerOK, CountsOK

\* New work keeps the types as long as it is numbered.
LEMMA AddsOK ==
  ASSUME WsOK, NEW p \in Procs, NEW e \in Entries, e # "waiting", AddWork(p, e)
  PROVE  WsOK'
<1>1. GoodJobs'
  BY EndSteps, SetJobEffect DEF WsOK, Ends
<1>2. minted' \in 0 .. MaxWork
  BY BoundsAssumption DEF AddWork, WsOK, TreeOK, CountsOK
<1>3. FlatOK' /\ StreamsOK'
  <2>1. PICK w : w = job[p].name
    OBVIOUS
  <2>2. w \in Names \cup {None}
    BY <2>1, ResolvedName DEF AddWork
  <2>3. PICK S : S = planningDir(w)[e] \cup {minted'}
    OBVIOUS
  <2>4. S \in SUBSET (0 .. MaxWork)
    BY <1>2, <2>2, <2>3, PlanningDirGood, DirIs
  <2>5. WriteDir(w, [planningDir(w) EXCEPT ![e] = S])
    BY <2>1, <2>3 DEF AddWork
  <2> QED BY <2>2, <2>4, <2>5, WriteEntryOK
<1> QED BY <1>1, <1>2, <1>3 DEF AddWork, WsOK, TreeOK, ArchivesOK, MarkerOK, CountsOK

\* The commands that add one piece of work, and where.
LEMMA AddersAdd ==
  ASSUME NEW p
  PROVE  /\ ScaffoldPhaseDir(p) => AddWork(p, "phases")
         /\ \A e : AgentWrites(p, e) => AddWork(p, e)
         /\ RegenerateState(p) => AddWork(p, "state")
         /\ "phases" \in Entries \ {"waiting"} /\ "state" \in Entries \ {"waiting"}
         /\ "pending" \in Entries \ {"waiting"}
BY EntriesAre DEF ScaffoldPhaseDir, AgentWrites, RegenerateState

\* The signals: WAITING.json comes and goes.
LEMMA SignalOK ==
  ASSUME WsOK, NEW p \in Procs, cmdSignalWaiting(p) \/ cmdSignalResume(p)
  PROVE  WsOK'
<1>1. GoodJobs'
  BY EndSteps, SetJobEffect DEF WsOK, Ends
<1>2. PICK w : w = job[p].name
  OBVIOUS
<1>3. w \in Names \cup {None}
  BY <1>2, ResolvedName DEF cmdSignalWaiting, cmdSignalResume
<1>4. /\ {} \in SUBSET (0 .. MaxWork) /\ {Signal0} \in SUBSET (0 .. MaxWork)
      /\ "waiting" \in Entries
  BY BoundsAssumption, EntriesAre DEF Signal0
<1>5. \/ UNCHANGED << flat, wsRoot, streams >>
      \/ \E S \in {{}, {Signal0}} : WriteDir(w, [planningDir(w) EXCEPT !["waiting"] = S])
  BY <1>2 DEF cmdSignalWaiting, cmdSignalResume
<1>6. FlatOK' /\ StreamsOK'
  <2>1. CASE UNCHANGED << flat, wsRoot, streams >>
    BY <2>1 DEF WsOK, TreeOK, FlatOK, StreamsOK
  <2>2. ASSUME NEW S \in {{}, {Signal0}},
               WriteDir(w, [planningDir(w) EXCEPT !["waiting"] = S])
        PROVE  FlatOK' /\ StreamsOK'
    BY <1>3, <1>4, <2>2, WriteEntryOK
  <2> QED BY <1>5, <2>1, <2>2
<1>7. /\ UNCHANGED << archives, marker, minted, faults, crashes >>
      /\ gsd' \in {gsd, "waiting", "empty"}
  BY DEF cmdSignalWaiting, cmdSignalResume
<1> QED BY <1>1, <1>6, <1>7 DEF WsOK, TreeOK, ArchivesOK, MarkerOK, CountsOK

\* mkdir -p of a workstream.
LEMMA MkdirOK ==
  ASSUME WsOK, NEW n \in Names, wsRoot' = TRUE,
         streams' = IF n \in DOMAIN streams THEN streams ELSE Put(streams, n, Empty)
  PROVE  StreamsOK'
<1>1. Filed(streams) /\ DOMAIN streams \subseteq Names
  BY DEF WsOK, TreeOK, StreamsOK
<1>2. Filed(streams') /\ DOMAIN streams' \subseteq DOMAIN streams \cup {n}
  BY <1>1, PutFiled, EmptyDir
<1> QED BY <1>1, <1>2 DEF StreamsOK

\* The directory of the migrated work.
LEMMA PlantOK ==
  ASSUME WsOK, NEW p \in Procs, PlantDir(p)
  PROVE  WsOK'
<1>1. GoodJobs'
  BY PlantSteps, SetJobEffect DEF WsOK
<1>2. PICK n : n = job[p].into
  OBVIOUS
<1>3. /\ n \in Names /\ wsRoot' = TRUE
      /\ streams' = IF n \in DOMAIN streams THEN streams ELSE Put(streams, n, Empty)
      /\ UNCHANGED << flat, archives, marker, gsd, minted, faults, crashes >>
  BY <1>2 DEF PlantDir, WsOK, GoodJobs, GoodJob
<1>4. StreamsOK'
  BY <1>3, MkdirOK
<1> QED BY <1>1, <1>3, <1>4 DEF WsOK, TreeOK, FlatOK, ArchivesOK, MarkerOK, CountsOK

\* A move of the migration.
LEMMA MoveOK ==
  ASSUME WsOK, NEW p \in Procs, MigrateMove(p)
  PROVE  WsOK'
<1>1. PICK k, g : /\ GoodJob(k) /\ SetJob(p, k)
                  /\ job[p].into \in DOMAIN streams
                  /\ streams' = Put(streams, job[p].into,
                                    Renamed(flat, streams[job[p].into], g))
                  /\ flat' = Clear(flat, g)
  BY MoveSteps
<1>2. GoodJobs'
  BY <1>1, SetJobEffect DEF WsOK
<1>3. UNCHANGED << wsRoot, archives, marker, gsd, minted, faults, crashes >>
  BY DEF MigrateMove
<1>4. FlatOK' /\ StreamsOK'
  <2>1. PICK n : n = job[p].into /\ n \in DOMAIN streams
    BY <1>1
  <2>2. GoodDir(Renamed(flat, streams[n], g)) /\ GoodDir(Clear(flat, g))
    BY <2>1, RenamedDir, ClearDir DEF WsOK, TreeOK, FlatOK, StreamsOK, Filed
  <2>3. Filed(streams') /\ DOMAIN streams' = DOMAIN streams
    <3>1. PICK d : d = Renamed(flat, streams[n], g)
      OBVIOUS
    <3>2. GoodDir(d) /\ streams' = Put(streams, n, d)
      BY <1>1, <2>1, <2>2, <3>1
    <3>3. Filed(streams)
      BY DEF WsOK, TreeOK, StreamsOK
    <3> QED BY <2>1, <3>2, <3>3, PutFiled
  <2> QED BY <1>1, <1>3, <2>2, <2>3 DEF WsOK, TreeOK, FlatOK, StreamsOK
<1> QED BY <1>2, <1>3, <1>4 DEF WsOK, TreeOK, ArchivesOK, MarkerOK, CountsOK

\* The directory of the workstream that is created.
LEMMA OpOK ==
  ASSUME WsOK, NEW p \in Procs, MakeDir(p)
  PROVE  WsOK'
<1>1. GoodJobs'
  BY OpSteps, SetJobEffect DEF WsOK
<1>2. PICK n : n = job[p].name
  OBVIOUS
<1>3. /\ n \in Names /\ wsRoot' = TRUE
      /\ streams' = IF n \in DOMAIN streams THEN streams ELSE Put(streams, n, Empty)
      /\ UNCHANGED << flat, archives, marker, gsd, minted, faults, crashes >>
  BY <1>2 DEF MakeDir, WsOK, GoodJobs, GoodJob
<1>4. StreamsOK'
  BY <1>3, MkdirOK
<1> QED BY <1>1, <1>3, <1>4 DEF WsOK, TreeOK, FlatOK, ArchivesOK, MarkerOK, CountsOK

\* A rename that fails is counted.
LEMMA FaultType ==
  ASSUME WsOK, NEW p \in Procs, NEW stuck \in SUBSET job[p].moved, NEW real, Fault(real, stuck)
  PROVE  faults' \in 0 .. MaxFaults /\ (faults' <= faults + 1 /\ ~real => stuck = {})
<1>1. IsFiniteSet(stuck)
  <2>1. IsFiniteSet(Groups)
    <3>1. Groups = (({{"roadmap"}} \cup {{"state"}})
            \cup ({{"phases"}} \cup {{"pending", "completed"}}))
                     \cup ({{"waiting"}} \cup {{"reqs"}})
      BY DEF Groups, toMove
    <3> QED BY <3>1, FS_Singleton, FS_Union
  <2>2. stuck \subseteq Groups
    BY DEF WsOK, GoodJobs, GoodJob
  <2> QED BY <2>1, <2>2, FS_Subset
<1>2. Cardinality(stuck) \in Nat /\ (Cardinality(stuck) = 0 => stuck = {})
  BY <1>1, FS_CardinalityType, FS_EmptySet
<1> QED BY <1>2, BoundsAssumption DEF Fault, WsOK, TreeOK, CountsOK

\* A rollback of the migration, complete or not.
LEMMA MigrateRollbackOK ==
  ASSUME WsOK, NEW p \in Procs, MigrateRollback(p)
  PROVE  WsOK'
<1>1. GoodJobs'
  BY EndSteps, SetJobEffect DEF WsOK, Ends
<1>2. PICK j, g, dir, real : /\ j = job[p] /\ g = NextItem(j.left) /\ dir = planningDir(j.into)
                             /\ real = (j.into \notin DOMAIN streams \/ ~CanRename(flat, dir, g))
  OBVIOUS
<1>3. PICK stuck \in SUBSET j.moved :
        Fault(real, stuck) /\ flat' = RestoredTo(flat, dir, j.moved \ stuck)
  BY <1>2 DEF MigrateRollback
<1>4. j.into \in Names
  BY <1>2 DEF MigrateRollback, WsOK, GoodJobs, GoodJob
<1>5. FlatOK'
  BY <1>2, <1>3, <1>4, PlanningDirGood, RestoredDir DEF WsOK, TreeOK, FlatOK
<1>6. faults' \in 0 .. MaxFaults
  BY <1>2, <1>3, FaultType
<1>7. StreamsOK'
  <2>1. streams' = Drop(streams, j.into) /\ wsRoot' = (DOMAIN streams' # {})
    BY <1>2 DEF MigrateRollback
  <2>2. Filed(streams) /\ DOMAIN streams \subseteq Names
    BY DEF WsOK, TreeOK, StreamsOK
  <2>3. Filed(streams') /\ DOMAIN streams' \subseteq DOMAIN streams
    <3>1. streams' = Drop(streams, j.into) /\ Filed(streams)
      BY <2>1, <2>2
    <3>2. Filed(streams')
      BY ONLY <3>1, DropFiled
    <3>3. DOMAIN streams' = DOMAIN streams \ {j.into}
      BY ONLY <3>1, DropFiled
    <3> QED BY <3>2, <3>3
  <2> QED BY <2>1, <2>2, <2>3 DEF StreamsOK
<1>8. UNCHANGED << archives, marker, gsd, minted, crashes >>
  BY DEF MigrateRollback
<1> QED BY <1>1, <1>5, <1>6, <1>7, <1>8 DEF WsOK, TreeOK, ArchivesOK, MarkerOK, CountsOK

\* The end of create: STATE.md and the marker.
LEMMA FinishCreateOK ==
  ASSUME WsOK, NEW p \in Procs, FinishCreate(p)
  PROVE  WsOK'
<1>1. GoodJobs'
  BY EndSteps, SetJobEffect DEF WsOK, Ends
<1>2. PICK n : n = job[p].name
  OBVIOUS
<1>3. n \in Names
  BY <1>2 DEF FinishCreate, WsOK, GoodJobs, GoodJob
<1>4. UNCHANGED << flat, wsRoot, archives, gsd, faults, crashes >>
  BY DEF FinishCreate
<1>5. marker' \in {n, marker}
  BY <1>2 DEF FinishCreate
<1>6. \/ UNCHANGED << streams, minted >>
      \/ /\ n \in DOMAIN streams /\ minted < MaxWork /\ minted' = minted + 1
         /\ streams' = [streams EXCEPT ![n]["state"] = {minted + 1}]
  BY <1>2 DEF FinishCreate
<1>7. StreamsOK' /\ minted' \in 0 .. MaxWork
  <2>1. CASE UNCHANGED << streams, minted >>
    BY <1>4, <2>1 DEF WsOK, TreeOK, StreamsOK, CountsOK
  <2>2. CASE /\ n \in DOMAIN streams /\ minted < MaxWork /\ minted' = minted + 1
             /\ streams' = [streams EXCEPT ![n]["state"] = {minted + 1}]
    <3>1. minted' \in 0 .. MaxWork
      BY <2>2, BoundsAssumption DEF WsOK, TreeOK, CountsOK
    <3>2. PICK d : d = [streams[n] EXCEPT !["state"] = {minted'}]
      OBVIOUS
    <3>3. GoodDir(streams[n])
      BY <2>2 DEF WsOK, TreeOK, StreamsOK, Filed
    <3>4. GoodDir(d)
      <4>1. {minted'} \in SUBSET (0 .. MaxWork) /\ "state" \in Entries /\ "state" # "waiting"
        BY <3>1, EntriesAre
      <4>2. PICK c : c = streams[n]
        OBVIOUS
      <4>3. GoodDir(c) /\ d = [c EXCEPT !["state"] = {minted'}]
        BY <3>2, <3>3, <4>2
      <4> QED BY <4>1, <4>3, EntrySet
    <3>5. streams' = [streams EXCEPT ![n] = d]
      BY <2>2, <3>2
    <3>6. Filed(streams') /\ DOMAIN streams' = DOMAIN streams
      <4>1. Filed(streams)
        BY DEF WsOK, TreeOK, StreamsOK
      <4>2. n \in DOMAIN streams
        BY <2>2
      <4> QED BY ONLY <3>4, <3>5, <4>1, <4>2, ExceptFiled
    <3> QED BY <1>4, <3>1, <3>6 DEF WsOK, TreeOK, StreamsOK
  <2> QED BY <1>6, <2>1, <2>2
<1> QED BY <1>1, <1>3, <1>4, <1>5, <1>7 DEF WsOK, TreeOK, FlatOK, ArchivesOK, MarkerOK, CountsOK

\* A move into the archive.
LEMMA ArchiveMoveOK ==
  ASSUME WsOK, NEW p \in Procs, NEW g \in Groups, ArchiveMove(p, g)
  PROVE  WsOK'
<1>1. GoodJobs'
  BY ArchiveSteps, SetJobEffect DEF WsOK
<1>2. PICK n, a : n = job[p].name /\ a = Chosen(p)
  OBVIOUS
<1>3. /\ n \in DOMAIN streams /\ a \in DOMAIN archives
      /\ archives' = [archives EXCEPT ![a] = Renamed(streams[n], archives[a], g)]
      /\ streams' = [streams EXCEPT ![n] = Clear(streams[n], g)]
      /\ UNCHANGED << flat, wsRoot, marker, gsd, minted, faults, crashes >>
  BY <1>2 DEF ArchiveMove
<1>4. GoodDir(streams[n]) /\ GoodDir(archives[a])
  BY <1>3 DEF WsOK, TreeOK, StreamsOK, ArchivesOK, Filed
<1>5. GoodDir(Renamed(streams[n], archives[a], g)) /\ GoodDir(Clear(streams[n], g))
  BY <1>4, RenamedDir, ClearDir
<1>6. Filed(streams') /\ DOMAIN streams' = DOMAIN streams
  BY <1>3, <1>5, ExceptFiled DEF WsOK, TreeOK, StreamsOK
<1>7. Filed(archives') /\ DOMAIN archives' = DOMAIN archives
  BY <1>3, <1>5, ExceptFiled DEF WsOK, TreeOK, ArchivesOK
<1> QED BY <1>1, <1>3, <1>6, <1>7 DEF WsOK, TreeOK, FlatOK, StreamsOK, ArchivesOK, MarkerOK,
      CountsOK

\* What every failure ends with.
LEMMA GiveUpOK ==
  ASSUME WsOK, NEW p \in Procs, job[p].name \in Names, GiveUp(p)
  PROVE  ArchivesOK' /\ MarkerOK' /\ UNCHANGED << flat, wsRoot, gsd, minted, crashes >>
<1>1. PICK a : a = Chosen(p)
  OBVIOUS
<1>2. /\ archives' = Drop(archives, a) /\ marker' \in {job[p].name, marker}
      /\ UNCHANGED << flat, wsRoot, gsd, minted, crashes >>
  BY <1>1 DEF GiveUp
<1>3. Filed(archives') /\ DOMAIN archives' = DOMAIN archives \ {a}
  BY <1>2, DropFiled DEF WsOK, TreeOK, ArchivesOK
<1>4. IsFiniteSet(DOMAIN archives')
  BY <1>3, FS_Subset DEF WsOK, TreeOK, ArchivesOK
<1> QED BY <1>2, <1>3, <1>4 DEF WsOK, TreeOK, ArchivesOK, MarkerOK

\* A rollback of the archiving, complete or not.
LEMMA ArchiveRollbackOK ==
  ASSUME WsOK, NEW p \in Procs, NEW g \in Groups, ArchiveRollback(p, g)
  PROVE  WsOK'
<1>1. GoodJobs'
  BY EndSteps, SetJobEffect DEF WsOK, Ends
<1>2. PICK j, a, gone, real :
        /\ j = job[p] /\ a = Chosen(p)
        /\ gone = (j.name \notin DOMAIN streams \/ a \notin DOMAIN archives)
        /\ real = (gone \/ ~CanRename(streams[j.name], archives[a], g))
  OBVIOUS
<1>3. PICK stuck \in SUBSET j.moved :
        /\ Fault(real, stuck)
        /\ streams' = IF gone THEN streams
             ELSE [streams EXCEPT ![j.name] =
                 RestoredTo(streams[j.name], archives[a], j.moved \ stuck)]
  BY <1>2 DEF ArchiveRollback
<1>4. job[p].name \in Names /\ GiveUp(p)
  BY DEF ArchiveRollback, WsOK, GoodJobs, GoodJob
<1>5. Filed(streams') /\ DOMAIN streams' = DOMAIN streams
  <2>1. CASE gone
    BY <1>3, <2>1 DEF WsOK, TreeOK, StreamsOK
  <2>2. CASE ~gone
    <3>1. GoodDir(streams[j.name]) /\ GoodDir(archives[a]) /\ j.name \in DOMAIN streams
      BY <1>2, <2>2 DEF WsOK, TreeOK, StreamsOK, ArchivesOK, Filed
    <3>2. GoodDir(RestoredTo(streams[j.name], archives[a], j.moved \ stuck))
      BY <3>1, RestoredDir
    <3>3. PICK d : d = RestoredTo(streams[j.name], archives[a], j.moved \ stuck)
      OBVIOUS
    <3>4. streams' = [streams EXCEPT ![j.name] = d] /\ GoodDir(d)
      BY <1>3, <2>2, <3>2, <3>3
    <3>5. Filed(streams)
      BY DEF WsOK, TreeOK, StreamsOK
    <3> QED BY ONLY <3>1, <3>4, <3>5, ExceptFiled
  <2> QED BY <2>1, <2>2
<1>6. ArchivesOK' /\ MarkerOK' /\ UNCHANGED << flat, wsRoot, gsd, minted, crashes >>
  BY <1>4, GiveUpOK
<1>7. faults' \in 0 .. MaxFaults
  BY <1>2, <1>3, FaultType
<1> QED BY <1>1, <1>5, <1>6, <1>7 DEF WsOK, TreeOK, FlatOK, StreamsOK, CountsOK

\* The workstream is gone when complete reads it.
LEMMA ListFailsOK ==
  ASSUME WsOK, NEW p \in Procs, ListFails(p)
  PROVE  WsOK'
<1>1. GoodJobs'
  BY EndSteps, SetJobEffect DEF WsOK, Ends
<1>2. job[p].name \in Names /\ GiveUp(p) /\ UNCHANGED << streams, faults >>
  BY DEF ListFails, WsOK, GoodJobs, GoodJob
<1> QED BY <1>1, <1>2, GiveUpOK DEF WsOK, TreeOK, FlatOK, StreamsOK, CountsOK

\* The end of complete: rmdir.
LEMMA FinishCompleteOK ==
  ASSUME WsOK, NEW p \in Procs, FinishComplete(p)
  PROVE  WsOK'
<1>1. GoodJobs'
  BY EndSteps, SetJobEffect DEF WsOK, Ends
<1>2. /\ streams' \in {streams, Drop(streams, job[p].name)}
      /\ wsRoot' = (DOMAIN streams' # {})
      /\ UNCHANGED << flat, archives, marker, gsd, minted, faults, crashes >>
  BY DEF FinishComplete
<1>3. Filed(streams') /\ DOMAIN streams' \subseteq DOMAIN streams
  <2>1. Filed(streams)
    BY DEF WsOK, TreeOK, StreamsOK
  <2>2. streams' = streams \/ streams' = Drop(streams, job[p].name)
    BY <1>2
  <2>3. ASSUME NEW x, streams' = Drop(streams, x)
        PROVE  Filed(streams') /\ DOMAIN streams' \subseteq DOMAIN streams
    <3>1. Filed(streams')
      BY ONLY <2>1, <2>3, DropFiled
    <3>2. DOMAIN streams' = DOMAIN streams \ {x}
      BY ONLY <2>1, <2>3, DropFiled
    <3> QED BY <3>1, <3>2
  <2> QED BY ONLY <2>1, <2>2, <2>3
<1> QED BY <1>1, <1>2, <1>3 DEF WsOK, TreeOK, FlatOK, StreamsOK, ArchivesOK, MarkerOK, CountsOK

\* todo complete, its second half: the unlink.
LEMMA UnlinkOK ==
  ASSUME WsOK, NEW p \in Procs, UnlinkPending(p)
  PROVE  WsOK'
<1>1. GoodJobs'
  BY EndSteps, SetJobEffect DEF WsOK, Ends
<1>2. PICK w, S : w = job[p].name /\ S = planningDir(w)["pending"] \ {job[p].into}
  OBVIOUS
<1>3. w \in Names \cup {None}
  BY <1>2 DEF UnlinkPending, WsOK, GoodJobs, GoodJob
<1>4. S \in SUBSET (0 .. MaxWork) /\ "pending" \in Entries /\ "pending" # "waiting"
  BY <1>2, <1>3, PlanningDirGood, DirIs, EntriesAre
<1>5. \/ WriteDir(w, [planningDir(w) EXCEPT !["pending"] = S])
      \/ UNCHANGED << flat, wsRoot, streams >>
  BY <1>2 DEF UnlinkPending
<1>6. FlatOK' /\ StreamsOK'
  <2>1. CASE WriteDir(w, [planningDir(w) EXCEPT !["pending"] = S])
    BY <1>3, <1>4, <2>1, WriteEntryOK
  <2>2. CASE UNCHANGED << flat, wsRoot, streams >>
    BY <2>2 DEF WsOK, TreeOK, FlatOK, StreamsOK
  <2> QED BY <1>5, <2>1, <2>2
<1>7. UNCHANGED << archives, marker, gsd, minted, faults, crashes >>
  BY DEF UnlinkPending
<1> QED BY <1>1, <1>6, <1>7 DEF WsOK, TreeOK, ArchivesOK, MarkerOK, CountsOK

\* A process that dies leaves the tree as it is.
LEMMA CrashOK ==
  ASSUME WsOK, NEW p \in Procs, Crash(p)
  PROVE  WsOK'
<1>1. GoodJobs'
  BY EndSteps, SetJobEffect DEF WsOK, Ends
<1> QED BY <1>1 DEF Crash, treeVars, WsOK, TreeOK, FlatOK, StreamsOK, ArchivesOK, MarkerOK, CountsOK

\* Every command that begins keeps the types.
LEMMA IssueOK ==
  ASSUME WsOK, WsIssue
  PROVE  WsOK'
<1>1. ASSUME NEW p \in Procs, NEW n \in Names, NEW m \in Names, NEW migrate \in BOOLEAN,
             cmdWorkstreamCreate(p, n, migrate, m)
      PROVE  WsOK'
  BY <1>1, CreateOK
<1>2. ASSUME NEW p \in Procs, NEW n \in Names, cmdWorkstreamComplete(p, n)
      PROVE  WsOK'
  BY <1>2, LookOK
<1>3. ASSUME NEW n \in Names \cup {None}, cmdWorkstreamSet(n)
      PROVE  WsOK'
  BY <1>3, SetOK
<1>4. ASSUME NEW p \in Procs, NEW ws \in Names \cup {None}, Resolve(p, ws)
      PROVE  WsOK'
  BY <1>4, LookOK
<1> QED BY <1>1, <1>2, <1>3, <1>4 DEF WsIssue

\* So does every step of one under way.
LEMMA ContinueOK ==
  ASSUME WsOK, NEW p \in Procs, WsContinue(p) \/ RegenerateState(p) \/ Settles(p)
  PROVE  WsOK'
<1>1. ASSUME NEW g \in Groups, ArchiveMove(p, g) \/ ArchiveRollback(p, g)
      PROVE  WsOK'
  BY <1>1, ArchiveMoveOK, ArchiveRollbackOK
<1>2. ASSUME NEW t \in 1 .. MaxWork, cmdTodoComplete(p, t)
      PROVE  WsOK'
  BY <1>2, TodoOK
<1>3. ASSUME \/ ScaffoldPhaseDir(p) \/ RegenerateState(p)
             \/ \E e \in {"state", "pending"} : AgentWrites(p, e)
      PROVE  WsOK'
  BY <1>3, AddersAdd, AddsOK
<1>4. CASE \/ migrateToWorkstreams(p) \/ PlantDir(p) \/ MigrateMove(p) \/ MigrateRollback(p)
           \/ MakeDir(p) \/ FinishCreate(p)
  BY <1>4, LookOK, PlantOK, MoveOK, MigrateRollbackOK, OpOK, FinishCreateOK
<1>5. CASE \/ ChooseArchive(p) \/ MakeArchive(p) \/ ListEntries(p) \/ ListFails(p)
           \/ FinishComplete(p) \/ UnlinkPending(p)
  BY <1>5, ChooseOK, MakeOK, LookOK, ListFailsOK, FinishCompleteOK, UnlinkOK
<1>6. CASE cmdSignalWaiting(p) \/ cmdSignalResume(p) \/ Crash(p) \/ Settles(p)
  BY <1>6, SignalOK, CrashOK, LookOK
<1> QED BY <1>1, <1>2, <1>3, <1>4, <1>5, <1>6 DEF WsContinue

\* And the steps of the config commands.
LEMMA SameOK ==
  ASSUME WsOK, UNCHANGED wsVars
  PROVE  WsOK'
BY DEF wsVars, treeVars, WsOK, TreeOK, FlatOK, StreamsOK, ArchivesOK, MarkerOK, CountsOK, GoodJobs

\* A step of the whole, as the workstreams see it.
LEMMA WsNext ==
  ASSUME [Next]_vars
  PROVE  \/ UNCHANGED wsVars
         \/ WsIssue
         \/ \E p \in Procs : WsContinue(p) \/ RegenerateState(p) \/ Settles(p)
<1>1. UNCHANGED vars => UNCHANGED wsVars
  BY DEF vars
<1>2. ASSUME NEW p \in Procs, NEW e \in Editors, Health(p, e)
      PROVE  RegenerateState(p) \/ Settles(p)
  BY <1>2 DEF Health, Settles
<1> QED BY <1>1, <1>2 DEF Next, Issue, Continue

\* The types are inductive.
LEMMA WsStep ==
  ASSUME WsOK, [Next]_vars
  PROVE  WsOK'
BY WsNext, IssueOK, ContinueOK, SameOK

\* The directories a behaviour starts with.
LEMMA OldWorkDir ==
  /\ GoodDir(OldWork)
  /\ \A d : \A e \in Entries \ {"waiting"}, x \in 0 .. MaxWork :
       GoodDir(d) => GoodDir([d EXCEPT ![e] = {x}])
<1>1. \A d : \A e \in Entries \ {"waiting"}, x \in 0 .. MaxWork :
        GoodDir(d) => GoodDir([d EXCEPT ![e] = {x}])
  BY EntrySet
<1>2. PICK d, e : d = Empty /\ e = [d EXCEPT !["state"] = {2}]
  OBVIOUS
<1>3. GoodDir(d)
  BY <1>2, EmptyDir
<1>4. {"state", "phases"} \subseteq Entries \ {"waiting"} /\ 2 \in 0 .. MaxWork
        /\ 3 \in 0 .. MaxWork
  BY EntriesAre, BoundsAssumption
<1>5. GoodDir(e)
  BY <1>1, <1>2, <1>3, <1>4
<1>6. OldWork = [e EXCEPT !["phases"] = {3}]
  BY <1>2 DEF OldWork
<1> QED BY <1>1, <1>4, <1>5, <1>6

\* The initial projects are well formed.
LEMMA WsStart == WsInit => WsOK
<1> SUFFICES ASSUME WsInit PROVE WsOK
  OBVIOUS
<1>1. /\ "pending" \in Entries \ {"waiting"} /\ "roadmap" \in Entries \ {"waiting"}
      /\ "reqs" \in Entries \ {"waiting"}
      /\ 4 \in 0 .. MaxWork /\ 1 \in 0 .. MaxWork /\ 5 \in 0 .. MaxWork
  BY EntriesAre, BoundsAssumption
<1>2. PICK o, a, r, b, c, d : /\ o = OldWork
                           /\ a = [o EXCEPT !["pending"] = {4}]
                           /\ r = [a EXCEPT !["roadmap"] = {1}]
                           /\ b = [r EXCEPT !["reqs"] = {5}]
                           /\ c = [o EXCEPT !["roadmap"] = {1}]
                           /\ d = [Empty EXCEPT !["pending"] = {4}]
  OBVIOUS
<1>3. GoodDir(a) /\ GoodDir(b) /\ GoodDir(c) /\ GoodDir(d)
  <2>1. GoodDir(o) /\ GoodDir(Empty)
    BY <1>2, OldWorkDir, EmptyDir
  <2>2. GoodDir(a) /\ GoodDir(c) /\ GoodDir(d)
    BY <1>1, <1>2, <2>1, OldWorkDir
  <2>3. GoodDir(r)
    BY <1>1, <1>2, <2>2, OldWorkDir
  <2> QED BY <1>1, <1>2, <2>2, <2>3, OldWorkDir
<1>4. FlatOK
  BY <1>2, <1>3 DEF WsInit, FlatOK
<1>5. StreamsOK /\ MarkerOK
  <2>1. CASE wsRoot = FALSE /\ streams = [n \in {} |-> Empty] /\ marker = None
    BY <2>1 DEF StreamsOK, MarkerOK, Filed
  <2>2. CASE wsRoot = TRUE /\ \E n \in Names : marker = n /\ streams = [x \in {n} |-> c]
    BY <1>3, <2>2 DEF StreamsOK, MarkerOK, Filed
  <2> QED BY <1>2, <2>1, <2>2 DEF WsInit
<1>6. ArchivesOK
  <2>1. archives = [a0 \in {} |-> Empty]
    BY DEF WsInit
  <2>2. DOMAIN archives = {} /\ Filed(archives)
    BY <2>1 DEF Filed
  <2> QED BY <2>2, FS_EmptySet DEF ArchivesOK
<1>7. CountsOK
  BY BoundsAssumption DEF WsInit, CountsOK
<1>8. GoodJobs
  BY IdleGood DEF WsInit, GoodJobs
<1> QED BY <1>4, <1>5, <1>6, <1>7, <1>8 DEF WsOK, TreeOK

\* In every state the tree and the jobs are well formed.
LEMMA WsInvariant == Spec => []WsOK
<1>1. Init => WsOK
  BY WsStart DEF Init
<1> QED BY <1>1, WsStep, PTL DEF Spec

\* The invariant has the types of Workspace in it.
LEMMA WsTypes == WsOK => WsTypeOK
<1> SUFFICES ASSUME WsOK PROVE WsTypeOK
  OBVIOUS
<1>1. flat \in Directory /\ wsRoot \in BOOLEAN
  BY DEF WsOK, TreeOK, FlatOK, StreamsOK, GoodDir
<1>2. DOMAIN streams \subseteq Names /\ \A n \in DOMAIN streams : streams[n] \in Directory
  BY DEF WsOK, TreeOK, StreamsOK, Filed, GoodDir
<1>3. DOMAIN archives \subseteq Names \X Nat /\ \A a \in DOMAIN archives : archives[a] \in Directory
  BY DEF WsOK, TreeOK, ArchivesOK, Filed, GoodDir
<1>4. \A p \in Procs : job[p].left \subseteq Groups /\ job[p].moved \subseteq Groups
  BY DEF WsOK, GoodJobs, GoodJob
<1>5. marker \in Names \cup {None} /\ gsd \in {"absent", "empty", "waiting"}
      /\ minted <= MaxWork /\ faults <= MaxFaults /\ crashes \in Nat
  BY BoundsAssumption DEF WsOK, TreeOK, MarkerOK, CountsOK
<1> QED BY <1>1, <1>2, <1>3, <1>4, <1>5 DEF WsTypeOK

(***************************************************************************)
(* What follows when nobody overtakes a command: it knows, at every        *)
(* place, what it has made of the tree it found. So nothing is lost on     *)
(* the way, a rollback restores that tree, and an end with success has     *)
(* moved everything. Archives are sealed whoever runs beside.              *)
(***************************************************************************)

(***************************************************************************)
(* A directory of which some groups have been moved to another.            *)
(***************************************************************************)
Taken(d, gs)   == [e \in Entries |-> IF \E g \in gs : e \in g THEN {} ELSE d[e]]
Brought(d, gs) == [e \in Entries |-> IF \E g \in gs : e \in g THEN d[e] ELSE {}]
Held(d) == {g \in Groups : Holds(d, g)}

\* Directories with the same entries are the same.
LEMMA SameDir ==
  ASSUME NEW c, NEW d, c = [e \in Entries |-> c[e]], d = [e \in Entries |-> d[e]],
         \A e \in Entries : c[e] = d[e]
  PROVE  c = d
OBVIOUS

\* Before the first move.
LEMMA NothingMoved ==
  ASSUME NEW d, GoodDir(d)
  PROVE  Taken(d, {}) = d /\ Brought(d, {}) = Empty
<1>1. PICK c : c = Taken(d, {})
  OBVIOUS
<1>2. c = [e \in Entries |-> c[e]] /\ \A e \in Entries : c[e] = d[e]
  BY <1>1 DEF Taken
<1>3. c = d
  BY <1>2, DirIs, SameDir
<1>4. Brought(d, {}) = Empty
  BY DEF Brought, Empty
<1> QED BY <1>1, <1>3, <1>4

\* One more group is moved.
LEMMA OneMoved ==
  ASSUME NEW d, NEW gs \in SUBSET Groups, NEW g \in Groups
  PROVE  /\ Renamed(Taken(d, gs), Brought(d, gs), g) = Brought(d, gs \cup {g}) \/ g \in gs
         /\ Clear(Taken(d, gs), g) = Taken(d, gs \cup {g})
<1>1. PICK c : c = Clear(Taken(d, gs), g)
  OBVIOUS
<1>2. PICK k : k = Taken(d, gs \cup {g})
  OBVIOUS
<1>3. \A e \in Entries : c[e] = k[e]
  BY <1>1, <1>2 DEF Clear, Taken
<1>4. c = [e \in Entries |-> c[e]] /\ k = [e \in Entries |-> k[e]]
  BY <1>1, <1>2 DEF Clear, Taken
<1>5. c = k
  BY <1>3, <1>4, SameDir
<1>6. CASE g \notin gs
  <2>1. PICK r : r = Renamed(Taken(d, gs), Brought(d, gs), g)
    OBVIOUS
  <2>2. PICK b : b = Brought(d, gs \cup {g})
    OBVIOUS
  <2>3. \A e \in g : \A h \in gs : e \notin h
    BY <1>6, GroupsDisjoint
  <2>4. \A e \in Entries : r[e] = b[e]
    BY <2>1, <2>2, <2>3 DEF Renamed, Taken, Brought
  <2>5. r = [e \in Entries |-> r[e]] /\ b = [e \in Entries |-> b[e]]
    BY <2>1, <2>2 DEF Renamed, Brought
  <2>6. r = b
    BY <2>4, <2>5, SameDir
  <2> QED BY <1>1, <1>2, <1>5, <2>1, <2>2, <2>6
<1> QED BY <1>1, <1>2, <1>5, <1>6

\* A rename into the directory finds room.
LEMMA RoomToMove ==
  ASSUME NEW d, NEW gs \in SUBSET Groups, NEW g \in Groups \ gs, Holds(Taken(d, gs), g)
  PROVE  CanRename(Taken(d, gs), Brought(d, gs), g)
<1>1. PICK b : b = Brought(d, gs)
  OBVIOUS
<1>2. \A e \in g : e \in Entries /\ \A h \in gs : e \notin h
  BY GroupsDisjoint
<1>3. \A e \in g : b[e] = {}
  BY <1>1, <1>2 DEF Brought
<1>4. ~Holds(b, g)
  BY <1>3 DEF Holds
<1> QED BY <1>1, <1>4 DEF CanRename

\* What has not been moved is where it was.
LEMMA StillThere ==
  ASSUME NEW d, NEW gs \in SUBSET Groups, NEW g \in Groups \ gs
  PROVE  Holds(Taken(d, gs), g) <=> Holds(d, g)
<1>1. PICK t : t = Taken(d, gs)
  OBVIOUS
<1>2. \A e \in g : e \in Entries /\ \A h \in gs : e \notin h
  BY GroupsDisjoint
<1>3. \A e \in g : t[e] = d[e]
  BY <1>1, <1>2 DEF Taken
<1> QED BY <1>1, <1>3 DEF Holds

\* Renaming everything back restores the directory.
LEMMA AllRestored ==
  ASSUME NEW d, GoodDir(d), NEW gs \in SUBSET Groups
  PROVE  RestoredTo(Taken(d, gs), Brought(d, gs), gs) = d
<1>1. PICK t, b, r : t = Taken(d, gs) /\ b = Brought(d, gs) /\ r = RestoredTo(t, b, gs)
  OBVIOUS
<1>2. r = [e \in Entries |-> r[e]]
  BY <1>1 DEF RestoredTo
<1>3. ASSUME NEW e \in Entries PROVE r[e] = d[e]
  <2>1. r[e] = IF \E g \in gs : e \in g /\ CanRename(b, t, g) THEN b[e] ELSE t[e]
    BY <1>1 DEF RestoredTo
  <2>2. CASE \E g \in gs : e \in g
    <3>1. PICK g \in gs : e \in g
      BY <2>2
    <3>2. b[e] = d[e] /\ t[e] = {}
      BY <1>1, <3>1 DEF Brought, Taken
    <3>3. CASE d[e] = {}
      BY <2>1, <3>2, <3>3
    <3>4. CASE d[e] # {}
      <4>1. Holds(b, g)
        BY <3>1, <3>2, <3>4 DEF Holds
      <4>2. \A x \in g : x \in Entries
        BY <3>1, GroupsDisjoint
      <4>3. ~Holds(t, g)
        BY <1>1, <3>1, <4>2 DEF Holds, Taken
      <4>4. CanRename(b, t, g)
        BY <4>1, <4>3 DEF CanRename
      <4> QED BY <2>1, <3>1, <3>2, <4>4
    <3> QED BY <3>3, <3>4
  <2>3. CASE ~\E g \in gs : e \in g
    <3>1. t[e] = d[e]
      BY <1>1, <2>3 DEF Taken
    <3> QED BY <2>1, <2>3, <3>1
  <2> QED BY <2>2, <2>3
<1>4. r = d
  BY <1>2, <1>3, DirIs, SameDir
<1> QED BY <1>1, <1>4

\* When all that held something has been moved.
LEMMA AllMoved ==
  ASSUME NEW d, GoodDir(d)
  PROVE  Taken(d, Held(d)) = Empty /\ Brought(d, Held(d)) = d
<1>1. PICK t, b : t = Taken(d, Held(d)) /\ b = Brought(d, Held(d))
  OBVIOUS
<1>2. \A e \in Entries : d[e] = {} \/ \E g \in Held(d) : e \in g
  BY GroupsDisjoint DEF Held, Holds
<1>3. t = [e \in Entries |-> t[e]] /\ b = [e \in Entries |-> b[e]]
  BY <1>1 DEF Taken, Brought
<1>4. \A e \in Entries : t[e] = {} /\ b[e] = d[e]
  BY <1>1, <1>2 DEF Taken, Brought
<1>5. b = d
  BY <1>3, <1>4, DirIs, SameDir
<1>6. t = Empty
  BY <1>3, <1>4 DEF Empty
<1> QED BY <1>1, <1>5, <1>6

\* Functions with the same values are the same.
LEMMA SameFiled ==
  ASSUME NEW f, Filed(f), NEW h, Filed(h), DOMAIN f = DOMAIN h, \A x \in DOMAIN f : f[x] = h[x]
  PROVE  f = h
BY DEF Filed

(***************************************************************************)
(* What a process that has been alone since it began knows of the tree t.  *)
(***************************************************************************)
IsTree(b) == b = [flat |-> b.flat, wsRoot |-> b.wsRoot, streams |-> b.streams,
                  archives |-> b.archives, marker |-> b.marker]
TreeIs(t, f, w, s, a, m) ==
  t.flat = f /\ t.wsRoot = w /\ t.streams = s /\ t.archives = a /\ t.marker = m

\* The flat work in the directory, the rest of the tree as it was.
Moving(j, b, t) ==
  /\ j.moved \cap j.left = {}
  /\ \A g \in toMove \ (j.moved \cup j.left) : ~Holds(b.flat, g)
  /\ j.left # {} => Holds(b.flat, NextItem(j.left))
  /\ b.wsRoot = FALSE /\ DOMAIN b.streams = {} /\ DOMAIN t.streams = {j.into}
  /\ t.flat = Taken(b.flat, j.moved) /\ t.streams[j.into] = Brought(b.flat, j.moved)
  /\ t.archives = b.archives /\ t.marker = b.marker

\* All of the flat work is in the workstream.
MigratedTo(j, b, t) ==
  /\ j.into \in DOMAIN t.streams
  /\ \A g \in toMove, e \in Entries :
       e \in g => t.flat[e] = {} /\ b.flat[e] \subseteq t.streams[j.into][e]

\* The marker is cleared if it named the workstream, the archive is a new one.
Closed(j, b, t) ==
  /\ t.flat = b.flat /\ t.wsRoot = b.wsRoot /\ t.streams = b.streams
  /\ j.name \in DOMAIN b.streams /\ << j.name, j.into >> \notin DOMAIN b.archives
  /\ t.marker = IF j.active THEN None ELSE b.marker
  /\ j.active => b.marker = j.name

\* The archive is there, and empty.
Listing(j, b, t) ==
  LET a == << j.name, j.into >>
  IN  /\ Closed(j, b, t)
      /\ DOMAIN t.archives = DOMAIN b.archives \cup {a} /\ t.archives[a] = Empty
      /\ \A x \in DOMAIN b.archives : t.archives[x] = b.archives[x]

\* What held something is moved or left; nothing else has changed.
Archiving(j, b, t) ==
  LET a == << j.name, j.into >>
      d == b.streams[j.name]
  IN  /\ j.moved \cap j.left = {} /\ j.moved \cup j.left = Held(d)
      /\ t.flat = b.flat /\ t.wsRoot = b.wsRoot
      /\ j.name \in DOMAIN b.streams /\ DOMAIN t.streams = DOMAIN b.streams
      /\ t.streams[j.name] = Taken(d, j.moved)
      /\ \A n \in DOMAIN b.streams : n # j.name => t.streams[n] = b.streams[n]
      /\ a \notin DOMAIN b.archives /\ DOMAIN t.archives = DOMAIN b.archives \cup {a}
      /\ t.archives[a] = Brought(d, j.moved)
      /\ \A x \in DOMAIN b.archives : t.archives[x] = b.archives[x]
      /\ t.marker = IF j.active THEN None ELSE b.marker
      /\ j.active => b.marker = j.name

\* The todo has been copied.
Copied(j, t) ==
  \/ j.name = None /\ j.into \in t.flat["completed"]
  \/ j.name \in DOMAIN t.streams /\ j.into \in t.streams[j.name]["completed"]

\* A tree, with directories where directories belong.
GoodTree(b) == IsTree(b) /\ GoodDir(b.flat) /\ Filed(b.streams) /\ Filed(b.archives)

\* What the place in the command says of the tree before and the tree t.
Knows(j, t) ==
  /\ GoodTree(j.before)
  /\ j.op \in {"migrate", "planting"} => j.before = t /\ ~t.wsRoot
  /\ j.op = "moving" => Moving(j, j.before, t)
  /\ j.op = "mkdir" => j.into = None
  /\ j.op = "created" => j.into = None \/ MigratedTo(j, j.before, t)
  /\ j.op = "closing" => /\ j.before = t /\ j.name \in DOMAIN t.streams
                         /\ j.active => t.marker = j.name
  /\ j.op = "naming" => Closed(j, j.before, t) /\ t.archives = j.before.archives
  /\ j.op = "listing" => Listing(j, j.before, t)
  /\ j.op = "archiving" => Archiving(j, j.before, t)
  /\ j.op = "unlink" => Copied(j, t)

\* Who has been alone knows the tree.
Undisturbed == \A p \in Procs : job[p].before # None => Knows(job[p], tree)

\* The tree of this state.
LEMMA TreeFields ==
  ASSUME NEW t, t = tree
  PROVE  TreeIs(t, flat, wsRoot, streams, archives, marker) /\ IsTree(t)
BY DEF tree, TreeIs, IsTree

\* The tree of the next state.
LEMMA TreeFieldsNext ==
  ASSUME NEW t, t = tree'
  PROVE  TreeIs(t, flat', wsRoot', streams', archives', marker') /\ IsTree(t)
BY DEF tree, TreeIs, IsTree

\* The tree is one in every well-formed state.
LEMMA TreeGood == WsOK => GoodTree(tree)
<1> SUFFICES ASSUME WsOK PROVE GoodTree(tree)
  OBVIOUS
<1>1. PICK t : t = tree
  OBVIOUS
<1>2. TreeIs(t, flat, wsRoot, streams, archives, marker) /\ IsTree(t)
  BY <1>1, TreeFields
<1>3. GoodDir(t.flat) /\ Filed(t.streams) /\ Filed(t.archives)
  BY <1>2 DEF TreeIs, WsOK, TreeOK, FlatOK, StreamsOK, ArchivesOK
<1> QED BY <1>1, <1>2, <1>3 DEF GoodTree

\* The step of p that leaves it remembering k.
LEMMA KnowsStep ==
  ASSUME WsOK, NEW p \in Procs, NEW k, GoodJob(k), SetJob(p, k),
         k.before # None => Knows(k, tree')
  PROVE  Undisturbed'
<1>1. job'[p] = k /\ \A q \in Procs : q # p => job'[q].before = None
  BY SetJobEffect DEF WsOK
<1> QED BY <1>1 DEF Undisturbed

\* A command without a job leaves nobody alone.
LEMMA KnowsNothing ==
  ASSUME WsOK, NoJob
  PROVE  Undisturbed'
BY NoJobEffect DEF WsOK, Undisturbed

\* create begins: the tree is the one it remembers.
LEMMA CreateKnows ==
  ASSUME WsOK, Undisturbed, NEW p \in Procs, NEW n \in Names, NEW migrate \in BOOLEAN,
      NEW m \in Names,
         cmdWorkstreamCreate(p, n, migrate, m)
  PROVE  Undisturbed'
<1>1. PICK k : /\ GoodJob(k) /\ SetJob(p, k)
               /\ \/ k.op = "idle" /\ k.before = None
                  \/ k.op = "migrate" /\ Started(p, k) /\ UNCHANGED wsRoot /\ ~wsRoot
                  \/ k.op = "mkdir" /\ Started(p, k) /\ k.into = None
  BY CreateSteps
<1>2. k.before # None => Knows(k, tree')
  <2> SUFFICES ASSUME k.before # None PROVE Knows(k, tree')
    OBVIOUS
  <2>1. k.before = tree /\ GoodTree(k.before)
    BY <1>1, TreeGood DEF Started
  <2>2. CASE k.op = "mkdir" /\ k.into = None
    BY <1>1, <2>1, <2>2 DEF Knows
  <2>3. CASE k.op = "migrate"
    <3>1. UNCHANGED << flat, streams, archives, marker, wsRoot >> /\ ~wsRoot
      BY <1>1, <2>3 DEF cmdWorkstreamCreate
    <3>2. PICK t : t = tree'
      OBVIOUS
    <3>3. t = tree
      BY <3>1, <3>2 DEF tree
    <3>4. ~t.wsRoot
      BY <3>1, <3>3, TreeFields DEF TreeIs
    <3> QED BY <2>1, <2>3, <3>2, <3>3, <3>4 DEF Knows
  <2> QED BY <1>1, <2>2, <2>3
<1> QED BY <1>1, <1>2, KnowsStep

\* The job of p at a step of p.
LEMMA KnewBefore ==
  ASSUME WsOK, Undisturbed, NEW p \in Procs, job[p].before # None
  PROVE  Knows(job[p], tree) /\ GoodTree(job[p].before) /\ GoodJob(job[p])
BY DEF Undisturbed, Knows, WsOK, GoodJobs

\* A process that settles where it works remembers the tree.
LEMMA ResolveKnows ==
  ASSUME WsOK, Undisturbed, NEW p \in Procs, NEW ws \in Names \cup {None}, Resolve(p, ws)
  PROVE  Undisturbed'
<1>1. PICK k : GoodJob(k) /\ SetJob(p, k) /\ k.op = "resolved" /\ Started(p, k)
  BY ResolveSteps
<1>2. k.before # None => Knows(k, tree')
  BY <1>1, TreeGood DEF Started, Knows
<1> QED BY <1>1, <1>2, KnowsStep

\* complete begins: the marker has been read.
LEMMA CompleteKnows ==
  ASSUME WsOK, Undisturbed, NEW p \in Procs, NEW n \in Names, cmdWorkstreamComplete(p, n)
  PROVE  Undisturbed'
<1>1. PICK k : /\ GoodJob(k) /\ SetJob(p, k)
               /\ \/ k.op = "idle" /\ k.before = None
                  \/ /\ k.op = "closing" /\ Started(p, k) /\ n \in DOMAIN streams
                     /\ k.name = n /\ k.into = None /\ k.active = (getActiveWorkstream = n)
  BY CompleteSteps
<1>2. k.before # None => Knows(k, tree')
  <2> SUFFICES ASSUME k.before # None PROVE Knows(k, tree')
    OBVIOUS
  <2>1. /\ k.op = "closing" /\ Started(p, k) /\ n \in DOMAIN streams
        /\ k.name = n /\ k.active = (getActiveWorkstream = n)
    BY <1>1
  <2>2. k.active => marker = n
    BY <2>1, NoneAssumption DEF getActiveWorkstream
  <2>3. PICK b, t : b = tree /\ t = tree'
    OBVIOUS
  <2>4. k.before = b /\ GoodTree(b) /\ TreeIs(b, flat, wsRoot, streams, archives, marker)
    BY <2>1, <2>3, TreeGood, TreeFields DEF Started
  <2>5. t = b
    BY <2>3 DEF cmdWorkstreamComplete, treeVars, tree
  <2> QED BY <2>1, <2>2, <2>3, <2>4, <2>5 DEF Knows, TreeIs
<1> QED BY <1>1, <1>2, KnowsStep

\* complete has chosen a name no archive has.
LEMMA ChooseKnows ==
  ASSUME WsOK, Undisturbed, NEW p \in Procs, ChooseArchive(p)
  PROVE  Undisturbed'
<1>1. PICK j : j = job[p]
  OBVIOUS
<1>2. PICK k : /\ GoodJob(k) /\ SetJob(p, k) /\ Same(j, k, {"op", "into"})
               /\ j.op = "closing" /\ k.op = "naming" /\ k.into = Free(j.name)
  BY <1>1, ChooseSteps
<1>3. k.before # None => Knows(k, tree')
  <2> SUFFICES ASSUME k.before # None PROVE Knows(k, tree')
    OBVIOUS
  <2>1. k.before = j.before /\ k.name = j.name /\ k.active = j.active
    BY <1>2 DEF Same, JobKeys
  <2>2. Knows(j, tree) /\ GoodTree(j.before) /\ GoodJob(j)
    BY <1>1, <2>1, KnewBefore
  <2>3. PICK b, t, a : b = tree /\ t = tree' /\ a = << k.name, k.into >>
    OBVIOUS
  <2>4. TreeIs(b, flat, wsRoot, streams, archives, marker)
    BY <2>3, TreeFields
  <2>5. TreeIs(t, flat, wsRoot, streams, archives, marker')
        /\ marker' = IF k.active THEN None ELSE marker
    <3>1. /\ flat' = flat /\ wsRoot' = wsRoot /\ streams' = streams /\ archives' = archives
          /\ marker' = IF j.active THEN None ELSE marker
      BY <1>1 DEF ChooseArchive
    <3> QED BY <2>1, <2>3, <3>1, TreeFieldsNext
  <2>6. j.before = b /\ j.name \in DOMAIN streams /\ (j.active => marker = j.name)
    BY <1>2, <2>2, <2>3, <2>4 DEF Knows, TreeIs
  <2>7. a \notin DOMAIN archives
    BY <1>2, <2>1, <2>3, FreeSuffix DEF WsOK, TreeOK, ArchivesOK
  <2>8. Closed(k, b, t) /\ t.archives = b.archives
    BY <2>1, <2>3, <2>4, <2>5, <2>6, <2>7 DEF Closed, TreeIs
  <2> QED BY <1>2, <2>1, <2>2, <2>3, <2>6, <2>8 DEF Knows
<1> QED BY <1>2, <1>3, KnowsStep

\* An empty archive is all that is new.
LEMMA MakeKnows ==
  ASSUME WsOK, Undisturbed, NEW p \in Procs, MakeArchive(p)
  PROVE  Undisturbed'
<1>1. PICK j : j = job[p]
  OBVIOUS
<1>2. PICK k : /\ GoodJob(k) /\ SetJob(p, k) /\ Same(j, k, {"op"})
               /\ j.op = "naming" /\ k.op = "listing"
  BY <1>1, MakeSteps
<1>3. k.before # None => Knows(k, tree')
  <2> SUFFICES ASSUME k.before # None PROVE Knows(k, tree')
    OBVIOUS
  <2>1. k.before = j.before /\ k.name = j.name /\ k.into = j.into /\ k.active = j.active
    BY <1>2 DEF Same, JobKeys
  <2>2. Knows(j, tree) /\ GoodTree(j.before) /\ GoodJob(j)
    BY <1>1, <2>1, KnewBefore
  <2>3. PICK b, s, t, a : b = j.before /\ s = tree /\ t = tree' /\ a = << j.name, j.into >>
    OBVIOUS
  <2>4. TreeIs(s, flat, wsRoot, streams, archives, marker)
    BY <2>3, TreeFields
  <2>5. TreeIs(t, flat, wsRoot, streams, archives', marker)
    <3>1. flat' = flat /\ wsRoot' = wsRoot /\ streams' = streams /\ marker' = marker
      BY DEF MakeArchive
    <3> QED BY <2>3, <3>1, TreeFieldsNext
  <2>6. Closed(j, b, s) /\ s.archives = b.archives
    BY <1>2, <2>2, <2>3 DEF Knows
  <2>7. a \notin DOMAIN archives /\ archives = b.archives
    BY <2>3, <2>4, <2>6 DEF Closed, TreeIs
  <2>8. archives' = Put(archives, a, Empty)
    BY <1>1, <2>3, <2>7 DEF MakeArchive, Chosen
  <2>9. /\ DOMAIN archives' = DOMAIN archives \cup {a} /\ archives'[a] = Empty
        /\ \A x \in DOMAIN archives : archives'[x] = archives[x]
    <3>1. a \notin DOMAIN archives
      BY <2>7
    <3> QED BY ONLY <2>8, <3>1 DEF Put
  <2>10. Closed(k, b, t)
    BY <2>1, <2>4, <2>5, <2>6 DEF Closed, TreeIs
  <2>11. Listing(k, b, t)
    BY <2>1, <2>3, <2>5, <2>7, <2>9, <2>10 DEF Listing, TreeIs
  <2> QED BY <1>2, <2>1, <2>2, <2>3, <2>11 DEF Knows
<1> QED BY <1>2, <1>3, KnowsStep

\* All that holds something is left to be moved.
LEMMA ListKnows ==
  ASSUME WsOK, Undisturbed, NEW p \in Procs, ListEntries(p)
  PROVE  Undisturbed'
<1>1. PICK j : j = job[p]
  OBVIOUS
<1>2. PICK k : /\ GoodJob(k) /\ SetJob(p, k) /\ Same(j, k, {"op", "left"})
               /\ j.op = "listing" /\ k.op = "archiving"
               /\ k.left = {g \in Groups : Holds(streams[j.name], g)}
  BY <1>1, ListSteps
<1>3. k.before # None => Knows(k, tree')
  <2> SUFFICES ASSUME k.before # None PROVE Knows(k, tree')
    OBVIOUS
  <2>1. /\ k.before = j.before /\ k.name = j.name /\ k.into = j.into /\ k.active = j.active
        /\ k.moved = j.moved
    BY <1>2 DEF Same, JobKeys
  <2>2. Knows(j, tree) /\ GoodTree(j.before) /\ GoodJob(j)
    BY <1>1, <2>1, KnewBefore
  <2>3. PICK b, t, n : b = j.before /\ t = tree /\ n = j.name
    OBVIOUS
  <2>4. t = tree' /\ TreeIs(t, flat, wsRoot, streams, archives, marker)
    <3>1. tree' = tree
      BY DEF ListEntries, treeVars, tree
    <3> QED BY <2>3, <3>1, TreeFields
  <2>5. Listing(j, b, t)
    BY <1>2, <2>2, <2>3 DEF Knows
  <2>6. Closed(j, b, t)
    BY <2>5 DEF Listing
  <2>7. PICK d, a : d = b.streams[n] /\ a = << j.name, j.into >>
    OBVIOUS
  <2>8. n \in DOMAIN b.streams /\ streams = b.streams /\ GoodDir(d)
    BY <2>2, <2>3, <2>4, <2>6, <2>7 DEF Closed, TreeIs, GoodTree, Filed
  <2>9. Taken(d, {}) = d /\ Brought(d, {}) = Empty
    BY <2>8, NothingMoved
  <2>10. k.moved = {} /\ k.left = Held(d)
    BY <1>2, <2>1, <2>2, <2>3, <2>7, <2>8 DEF GoodJob, Held
  <2>11. Archiving(k, b, t)
    <3>1. k.moved \cap k.left = {} /\ k.moved \cup k.left = Held(d)
      BY <2>10
    <3>2. /\ t.flat = b.flat /\ t.wsRoot = b.wsRoot /\ t.streams = b.streams
          /\ a \notin DOMAIN b.archives
          /\ t.marker = (IF k.active THEN None ELSE b.marker) /\ (k.active => b.marker = n)
      BY <2>1, <2>3, <2>6, <2>7 DEF Closed
    <3>3. t.streams[n] = Taken(d, k.moved)
      BY <2>7, <2>9, <2>10, <3>2
    <3>4. /\ DOMAIN t.archives = DOMAIN b.archives \cup {a}
          /\ t.archives[a] = Brought(d, k.moved)
          /\ \A x \in DOMAIN b.archives : t.archives[x] = b.archives[x]
      BY <2>5, <2>7, <2>9, <2>10 DEF Listing
    <3>5. n = k.name /\ a = << k.name, k.into >> /\ d = b.streams[k.name]
      BY <2>1, <2>3, <2>7
    <3> QED BY <2>8, <3>1, <3>2, <3>3, <3>4, <3>5 DEF Archiving
  <2> QED BY <1>2, <2>1, <2>2, <2>3, <2>4, <2>11 DEF Knows
<1> QED BY <1>2, <1>3, KnowsStep

\* Where WriteDir writes.
LEMMA Written ==
  ASSUME WsOK, NEW w \in Names \cup {None}, NEW dir, GoodDir(dir), WriteDir(w, dir)
  PROVE  /\ w = None => flat' = dir /\ streams' = streams
         /\ w # None => /\ flat' = flat /\ DOMAIN streams' = DOMAIN streams \cup {w}
                        /\ streams'[w] = dir
                        /\ \A n \in DOMAIN streams : n # w => streams'[n] = streams[n]
<1>1. CASE w = None
  BY <1>1 DEF WriteDir
<1>2. CASE w # None
  <2>1. streams' = Put(streams, w, dir) /\ flat' = flat /\ Filed(streams)
    BY <1>2 DEF WriteDir, WsOK, TreeOK, StreamsOK
  <2>2. /\ DOMAIN streams' = DOMAIN streams \cup {w} /\ streams'[w] = dir
        /\ \A n \in DOMAIN streams : n # w => streams'[n] = streams[n]
    BY ONLY <2>1 DEF Put
  <2> QED BY <1>2, <2>1, <2>2
<1> QED BY <1>1, <1>2

\* todo complete: the copy is there.
LEMMA TodoKnows ==
  ASSUME WsOK, Undisturbed, NEW p \in Procs, NEW x \in 1 .. MaxWork, cmdTodoComplete(p, x)
  PROVE  Undisturbed'
<1>0. PICK j : j = job[p]
  OBVIOUS
<1>1. PICK k : /\ GoodJob(k) /\ SetJob(p, k) /\ j.op = "resolved"
               /\ \/ k.op = "idle" /\ k.before = None
                  \/ /\ Same(j, k, {"op", "into"}) /\ k.op = "unlink" /\ k.into = x
                     /\ WriteDir(j.name, [planningDir(j.name) EXCEPT !["completed"] = @ \cup {x}])
  BY <1>0, TodoSteps
<1>2. k.before # None => Knows(k, tree')
  <2> SUFFICES ASSUME k.before # None PROVE Knows(k, tree')
    OBVIOUS
  <2>1. /\ k.before = j.before /\ k.name = j.name /\ k.op = "unlink" /\ k.into = x
        /\ WriteDir(j.name, [planningDir(j.name) EXCEPT !["completed"] = @ \cup {x}])
    BY <1>1 DEF Same, JobKeys
  <2>2. PICK w, dir, S : w = j.name /\ dir = planningDir(w) /\ S = dir["completed"] \cup {x}
    OBVIOUS
  <2>3. w \in Names \cup {None}
    BY <1>0, <1>1, <2>2, ResolvedName
  <2>4. GoodDir(dir)
    BY <2>2, <2>3, PlanningDirGood
  <2>5. S \in SUBSET (0 .. MaxWork) /\ "completed" \in Entries /\ "completed" # "waiting"
    BY <2>2, <2>4, DirIs, EntriesAre
  <2>6. PICK c : c = [dir EXCEPT !["completed"] = S]
    OBVIOUS
  <2>7. GoodDir(c) /\ c["completed"] = S
    <3>1. /\ GoodDir([dir EXCEPT !["completed"] = S])
          /\ [dir EXCEPT !["completed"] = S] = [e \in Entries |-> IF e = "completed" THEN S ELSE dir[e]]
      BY ONLY <2>4, <2>5, EntrySet
    <3> QED BY ONLY <2>5, <2>6, <3>1
  <2>8. WriteDir(w, c)
    BY <2>1, <2>2, <2>6
  <2>9. PICK t : t = tree'
    OBVIOUS
  <2>10. t.flat = flat' /\ t.streams = streams'
    BY <2>9, TreeFieldsNext DEF TreeIs
  <2>11. k.name = w /\ x \in S
    BY <2>1, <2>2
  <2>12. Copied(k, t)
    <3>2. CASE w = None
      <4>1. flat' = c
        BY <2>3, <2>7, <2>8, <3>2, Written
      <4> QED BY <2>1, <2>7, <2>10, <2>11, <3>2, <4>1 DEF Copied
    <3>3. CASE w # None
      <4>1. DOMAIN streams' = DOMAIN streams \cup {w} /\ streams'[w] = c
        BY <2>3, <2>7, <2>8, <3>3, Written
      <4> QED BY <2>1, <2>7, <2>10, <2>11, <4>1 DEF Copied
    <3> QED BY <3>2, <3>3
  <2>13. GoodTree(j.before)
    BY <1>0, <2>1, KnewBefore
  <2> QED BY <2>1, <2>9, <2>12, <2>13 DEF Knows
<1> QED BY <1>1, <1>2, KnowsStep

\* The migration goes on: no workstream is there.
LEMMA MigrateKnows ==
  ASSUME WsOK, Undisturbed, NEW p \in Procs, migrateToWorkstreams(p)
  PROVE  Undisturbed'
<1>1. PICK j : j = job[p]
  OBVIOUS
<1>2. PICK k : /\ GoodJob(k) /\ SetJob(p, k) /\ j.op = "migrate"
               /\ \/ k.op = "idle" /\ k.before = None
                  \/ ~wsRoot /\ Same(j, k, {"op"}) /\ k.op = "planting"
  BY <1>1, MigrateSteps
<1>3. k.before # None => Knows(k, tree')
  <2> SUFFICES ASSUME k.before # None PROVE Knows(k, tree')
    OBVIOUS
  <2>1. k.before = j.before /\ k.op = "planting"
    BY <1>2 DEF Same, JobKeys
  <2>2. Knows(j, tree) /\ GoodTree(j.before)
    BY <1>1, <2>1, KnewBefore
  <2>3. tree' = tree
    BY DEF migrateToWorkstreams, treeVars, tree
  <2> QED BY <1>2, <2>1, <2>2, <2>3 DEF Knows
<1> QED BY <1>2, <1>3, KnowsStep

\* An empty workstream is all that is new.
LEMMA PlantKnows ==
  ASSUME WsOK, Undisturbed, NEW p \in Procs, PlantDir(p)
  PROVE  Undisturbed'
<1>1. PICK j : j = job[p]
  OBVIOUS
<1>2. PICK k : /\ GoodJob(k) /\ SetJob(p, k) /\ j.op = "planting"
               /\ Same(j, k, {"op", "left"})
               /\ k.op = "moving" /\ k.left = Ahead(toMove, flat)
  BY <1>1, PlantSteps
<1>3. k.before # None => Knows(k, tree')
  <2> SUFFICES ASSUME k.before # None PROVE Knows(k, tree')
    OBVIOUS
  <2>1. k.before = j.before /\ k.into = j.into /\ k.moved = j.moved
    BY <1>2 DEF Same, JobKeys
  <2>2. Knows(j, tree) /\ GoodTree(j.before) /\ GoodJob(j)
    BY <1>1, <2>1, KnewBefore
  <2>3. PICK b, t, n : b = tree /\ t = tree' /\ n = k.into
    OBVIOUS
  <2>4. j.before = b /\ ~b.wsRoot /\ k.moved = {}
    BY <1>2, <2>1, <2>2, <2>3 DEF Knows, GoodJob
  <2>5. TreeIs(b, flat, wsRoot, streams, archives, marker)
    BY <2>3, TreeFields
  <2>6. TreeIs(t, flat, wsRoot', streams', archives, marker)
    <3>1. flat' = flat /\ archives' = archives /\ marker' = marker
      BY DEF PlantDir
    <3> QED BY <2>3, <3>1, TreeFieldsNext
  <2>7. DOMAIN streams = {}
    BY <2>4, <2>5 DEF WsOK, TreeOK, StreamsOK, TreeIs
  <2>8. DOMAIN streams' = {n} /\ streams'[n] = Empty
    <3>1. streams' = Put(streams, n, Empty)
      BY <1>1, <2>1, <2>3, <2>7 DEF PlantDir
    <3>2. DOMAIN streams' = DOMAIN streams \cup {n} /\ streams'[n] = Empty
      BY ONLY <3>1 DEF Put
    <3> QED BY <2>7, <3>2
  <2>9. Taken(b.flat, {}) = b.flat /\ Brought(b.flat, {}) = Empty
    BY <2>2, <2>4, NothingMoved DEF GoodTree
  <2>10. Moving(k, b, t)
    <3>1. b.wsRoot = FALSE
      <4>1. wsRoot \in BOOLEAN /\ b.wsRoot = wsRoot
        BY <2>5 DEF TreeIs, WsOK, TreeOK, StreamsOK
      <4> QED BY <2>4, <4>1
    <3>2. /\ k.moved \cap k.left = {}
          /\ \A g \in toMove \ k.left : ~Holds(flat, g)
          /\ k.left # {} => Holds(flat, NextItem(k.left))
      BY <1>2, <2>4, AheadHeld
    <3>3. DOMAIN b.streams = {} /\ DOMAIN t.streams = {n}
      BY <2>5, <2>6, <2>7, <2>8 DEF TreeIs
    <3>4. t.flat = Taken(b.flat, k.moved) /\ t.streams[n] = Brought(b.flat, k.moved)
      BY <2>4, <2>5, <2>6, <2>8, <2>9 DEF TreeIs
    <3>5. t.archives = b.archives /\ t.marker = b.marker /\ b.flat = flat
      BY <2>5, <2>6 DEF TreeIs
    <3> QED BY <2>3, <2>4, <3>1, <3>2, <3>3, <3>4, <3>5 DEF Moving
  <2> QED BY <1>2, <2>1, <2>2, <2>3, <2>4, <2>10 DEF Knows
<1> QED BY <1>2, <1>3, KnowsStep

\* A move of the migration.
LEMMA MoveKnows ==
  ASSUME WsOK, Undisturbed, NEW p \in Procs, MigrateMove(p)
  PROVE  Undisturbed'
<1>1. PICK j : j = job[p]
  OBVIOUS
<1>2. PICK k, g : /\ GoodJob(k) /\ SetJob(p, k) /\ j.op = "moving" /\ g \in j.left
                  /\ Same(j, k, {"left", "moved"})
                  /\ k.left = Ahead(j.left \ {g}, flat)
                  /\ k.moved = j.moved \cup {g}
                  /\ streams' = Put(streams, j.into, Renamed(flat, streams[j.into], g))
                  /\ flat' = Clear(flat, g)
  BY <1>1, MoveSteps
<1>3. k.before # None => Knows(k, tree')
  <2> SUFFICES ASSUME k.before # None PROVE Knows(k, tree')
    OBVIOUS
  <2>1. k.before = j.before /\ k.into = j.into /\ k.op = "moving"
    BY <1>2 DEF Same, JobKeys
  <2>2. Knows(j, tree) /\ GoodTree(j.before) /\ GoodJob(j)
    BY <1>1, <2>1, KnewBefore
  <2>3. PICK b, s, t : b = j.before /\ s = tree /\ t = tree'
    OBVIOUS
  <2>4. TreeIs(s, flat, wsRoot, streams, archives, marker)
    BY <2>3, TreeFields
  <2>5. TreeIs(t, flat', wsRoot, streams', archives, marker)
    <3>1. wsRoot' = wsRoot /\ archives' = archives /\ marker' = marker
      BY DEF MigrateMove
    <3> QED BY <2>3, <3>1, TreeFieldsNext
  <2>6. Moving(j, b, s)
    BY <1>2, <2>2, <2>3 DEF Knows
  <2>7. PICK n, d : n = j.into /\ d = b.flat
    OBVIOUS
  <2>8. flat = Taken(d, j.moved) /\ streams[n] = Brought(d, j.moved) /\ DOMAIN streams = {n}
    BY <2>4, <2>6, <2>7 DEF Moving, TreeIs
  <2>9. /\ g \in toMove /\ g \in Groups /\ g \notin j.moved /\ j.moved \in SUBSET Groups
        /\ j.left \in SUBSET toMove /\ j.moved \cap j.left = {}
    BY <1>2, <2>2, <2>6, GroupsDisjoint DEF GoodJob, Moving
  <2>10. /\ b.wsRoot = FALSE /\ DOMAIN b.streams = {}
         /\ t.archives = b.archives /\ t.marker = b.marker
    BY <2>4, <2>5, <2>6 DEF Moving, TreeIs
  <2>11. flat' = Taken(d, k.moved)
    BY <1>2, <2>8, <2>9, OneMoved
  <2>12. DOMAIN streams' = {n} /\ streams'[n] = Brought(d, k.moved)
    <3>1. Renamed(flat, streams[n], g) = Brought(d, k.moved)
      BY <1>2, <2>8, <2>9, OneMoved
    <3>2. streams' = Put(streams, n, Renamed(flat, streams[n], g))
      BY <1>2, <2>7
    <3> QED BY ONLY <2>8, <3>1, <3>2 DEF Put
  <2>13. PICK l : l = j.left \ {g}
    OBVIOUS
  <2>14. l \in SUBSET toMove /\ k.left = Ahead(l, flat)
    BY <1>2, <2>9, <2>13
  <2>15. /\ \A h \in l \ k.left : ~Holds(flat, h)
         /\ k.left # {} => Holds(flat, NextItem(k.left))
         /\ k.left \subseteq l
    BY <2>14, AheadHeld, AheadLeft
  <2>16. \A h \in l : Holds(flat, h) <=> Holds(d, h)
    <3>1. \A h \in l : h \in Groups \ j.moved
      BY <2>9, <2>13, GroupsDisjoint
    <3> QED BY <2>8, <2>9, <3>1, StillThere
  <2>17. k.moved \cap k.left = {}
    BY <1>2, <2>9, <2>13, <2>15
  <2>18. k.left # {} => Holds(d, NextItem(k.left))
    <3>1. k.left # {} => NextItem(k.left) \in k.left
      BY <2>14, <2>15, NextItemLeft
    <3> QED BY <2>15, <2>16, <3>1
  <2>19. \A h \in toMove \ (k.moved \cup k.left) : ~Holds(d, h)
    <3>1. \A h \in toMove \ (j.moved \cup j.left) : ~Holds(d, h)
      BY <2>6, <2>7 DEF Moving
    <3> QED BY <1>2, <2>13, <2>15, <2>16, <3>1
  <2>20. Moving(k, b, t)
    BY <2>1, <2>5, <2>7, <2>10, <2>11, <2>12, <2>17, <2>18, <2>19 DEF Moving, TreeIs
  <2> QED BY <2>1, <2>2, <2>3, <2>20 DEF Knows
<1> QED BY <1>2, <1>3, KnowsStep

\* Nothing left to move: the flat work is in the workstream.
LEMMA MovedAll ==
  ASSUME NEW j, NEW b, NEW t, Moving(j, b, t), j.left = {}
  PROVE  MigratedTo(j, b, t)
<1>1. PICK f, d : f = t.flat /\ d = t.streams[j.into]
  OBVIOUS
<1>2. f = Taken(b.flat, j.moved) /\ d = Brought(b.flat, j.moved) /\ j.into \in DOMAIN t.streams
  BY <1>1 DEF Moving
<1>3. ASSUME NEW g \in toMove, NEW e \in Entries, e \in g
      PROVE  f[e] = {} /\ b.flat[e] \subseteq d[e]
  <2>1. CASE g \in j.moved
    BY <1>2, <1>3, <2>1 DEF Taken, Brought
  <2>2. CASE g \notin j.moved
    <3>1. b.flat[e] = {}
      BY <1>3, <2>2 DEF Moving, Holds
    <3> QED BY <1>2, <3>1 DEF Taken
  <2> QED BY <2>1, <2>2
<1> QED BY <1>1, <1>2, <1>3 DEF MigratedTo

\* The directory is made, or is there.
LEMMA OpKnows ==
  ASSUME WsOK, Undisturbed, NEW p \in Procs, MakeDir(p)
  PROVE  Undisturbed'
<1>1. PICK j : j = job[p]
  OBVIOUS
<1>2. PICK k : /\ GoodJob(k) /\ SetJob(p, k) /\ Same(j, k, {"op"})
               /\ k.op = "created" /\ j.op \in {"moving", "mkdir"}
               /\ j.op = "moving" => j.left = {}
  BY <1>1, OpSteps
<1>3. k.before # None => Knows(k, tree')
  <2> SUFFICES ASSUME k.before # None PROVE Knows(k, tree')
    OBVIOUS
  <2>1. k.before = j.before /\ k.into = j.into /\ k.name = j.name
    BY <1>2 DEF Same, JobKeys
  <2>2. Knows(j, tree) /\ GoodTree(j.before) /\ GoodJob(j)
    BY <1>1, <2>1, KnewBefore
  <2>3. PICK b, s, t : b = j.before /\ s = tree /\ t = tree'
    OBVIOUS
  <2>4. CASE j.op = "mkdir"
    BY <1>2, <2>1, <2>2, <2>4 DEF Knows
  <2>5. CASE j.op = "moving"
    <3>1. MigratedTo(j, b, s)
      BY <1>2, <2>2, <2>3, <2>5, MovedAll DEF Knows
    <3>2. TreeIs(s, flat, wsRoot, streams, archives, marker)
      BY <2>3, TreeFields
    <3>3. t.flat = flat' /\ t.streams = streams'
      BY <2>3, TreeFieldsNext DEF TreeIs
    <3>4. flat' = flat
          /\ streams' = IF j.name \in DOMAIN streams THEN streams ELSE Put(streams, j.name, Empty)
      BY <1>1 DEF MakeDir
    <3>5. /\ DOMAIN streams \subseteq DOMAIN streams'
          /\ \A n \in DOMAIN streams : streams'[n] = streams[n]
      <4>1. CASE j.name \in DOMAIN streams
        BY <3>4, <4>1
      <4>2. CASE j.name \notin DOMAIN streams
        <5>1. streams' = Put(streams, j.name, Empty)
          BY <3>4, <4>2
        <5> QED BY ONLY <4>2, <5>1 DEF Put
      <4> QED BY <4>1, <4>2
    <3>6. MigratedTo(k, b, t)
      BY <2>1, <3>1, <3>2, <3>3, <3>4, <3>5 DEF MigratedTo, TreeIs
    <3> QED BY <1>2, <2>1, <2>2, <2>3, <3>6 DEF Knows
  <2> QED BY <1>2, <2>4, <2>5
<1> QED BY <1>2, <1>3, KnowsStep

\* A move into the archive.
LEMMA ArchiveMoveKnows ==
  ASSUME WsOK, Undisturbed, NEW p \in Procs, NEW g \in Groups, ArchiveMove(p, g)
  PROVE  Undisturbed'
<1>1. PICK j : j = job[p]
  OBVIOUS
<1>2. PICK k : /\ GoodJob(k) /\ SetJob(p, k) /\ Same(j, k, {"left", "moved"})
               /\ k.left = j.left \ {g} /\ k.moved = j.moved \cup {g}
  BY <1>1, ArchiveSteps
<1>3. k.before # None => Knows(k, tree')
  <2> SUFFICES ASSUME k.before # None PROVE Knows(k, tree')
    OBVIOUS
  <2>1. /\ k.before = j.before /\ k.into = j.into /\ k.name = j.name /\ k.op = j.op
        /\ k.active = j.active
    BY <1>2 DEF Same, JobKeys
  <2>2. Knows(j, tree) /\ GoodTree(j.before) /\ GoodJob(j)
    BY <1>1, <2>1, KnewBefore
  <2>3. PICK b, s, t : b = j.before /\ s = tree /\ t = tree'
    OBVIOUS
  <2>4. TreeIs(s, flat, wsRoot, streams, archives, marker)
    BY <2>3, TreeFields
  <2>5. TreeIs(t, flat, wsRoot, streams', archives', marker)
    <3>1. flat' = flat /\ wsRoot' = wsRoot /\ marker' = marker
      BY DEF ArchiveMove
    <3> QED BY <2>3, <3>1, TreeFieldsNext
  <2>6. Archiving(j, b, s) /\ j.op = "archiving" /\ g \in j.left
    BY <1>1, <2>2, <2>3 DEF Knows, ArchiveMove
  <2>7. PICK n, a, d : n = j.name /\ a = << j.name, j.into >> /\ d = b.streams[n]
    OBVIOUS
  <2>8. /\ n \in DOMAIN streams /\ a \in DOMAIN archives
        /\ archives' = [archives EXCEPT ![a] = Renamed(streams[n], archives[a], g)]
        /\ streams' = [streams EXCEPT ![n] = Clear(streams[n], g)]
    BY <1>1, <2>7 DEF ArchiveMove, Chosen
  <2>9. streams[n] = Taken(d, j.moved) /\ archives[a] = Brought(d, j.moved)
    BY <2>4, <2>6, <2>7 DEF Archiving, TreeIs
  <2>10. g \notin j.moved /\ j.moved \in SUBSET Groups
    BY <2>2, <2>6 DEF Archiving, GoodJob
  <2>11. Clear(streams[n], g) = Taken(d, k.moved)
    BY <1>2, <2>9, <2>10, OneMoved
  <2>12. Renamed(streams[n], archives[a], g) = Brought(d, k.moved)
    BY <1>2, <2>9, <2>10, OneMoved
  <2>13. /\ DOMAIN streams' = DOMAIN streams /\ streams'[n] = Taken(d, k.moved)
         /\ \A x \in DOMAIN streams : x # n => streams'[x] = streams[x]
    BY ONLY <2>8, <2>11
  <2>14. /\ DOMAIN archives' = DOMAIN archives /\ archives'[a] = Brought(d, k.moved)
         /\ \A x \in DOMAIN archives : x # a => archives'[x] = archives[x]
    BY ONLY <2>8, <2>12
  <2>15. a = << k.name, k.into >> /\ d = b.streams[k.name] /\ n = k.name
    BY <2>1, <2>7
  <2>16. Archiving(k, b, t)
    <3>1. k.moved \cap k.left = {} /\ k.moved \cup k.left = Held(d)
      BY <1>2, <2>6, <2>7 DEF Archiving
    <3>2. /\ t.flat = b.flat /\ t.wsRoot = b.wsRoot
          /\ n \in DOMAIN b.streams /\ DOMAIN t.streams = DOMAIN b.streams
      BY <2>4, <2>5, <2>6, <2>7, <2>13 DEF Archiving, TreeIs
    <3>3. /\ t.streams[n] = Taken(d, k.moved)
          /\ \A x \in DOMAIN b.streams : x # n => t.streams[x] = b.streams[x]
      BY <2>4, <2>5, <2>6, <2>7, <2>13 DEF Archiving, TreeIs
    <3>4. /\ a \notin DOMAIN b.archives /\ DOMAIN t.archives = DOMAIN b.archives \cup {a}
          /\ t.archives[a] = Brought(d, k.moved)
          /\ \A x \in DOMAIN b.archives : t.archives[x] = b.archives[x]
      BY <2>4, <2>5, <2>6, <2>7, <2>14 DEF Archiving, TreeIs
    <3>5. t.marker = (IF k.active THEN None ELSE b.marker) /\ (k.active => b.marker = n)
      BY <2>1, <2>4, <2>5, <2>6, <2>7 DEF Archiving, TreeIs
    <3> QED BY <2>15, <3>1, <3>2, <3>3, <3>4, <3>5 DEF Archiving
  <2> QED BY <2>1, <2>2, <2>3, <2>6, <2>16 DEF Knows
<1> QED BY <1>2, <1>3, KnowsStep

\* A command that ends knows nothing more.
LEMMA EndKnows ==
  ASSUME WsOK, Undisturbed, NEW p \in Procs, Ends(p)
  PROVE  Undisturbed'
<1>1. PICK k : GoodJob(k) /\ SetJob(p, k) /\ k.before = None
  BY EndSteps
<1> QED BY <1>1, KnowsStep

\* Every command that begins, begins with what it knows.
LEMMA IssueKnows ==
  ASSUME WsOK, Undisturbed, WsIssue
  PROVE  Undisturbed'
<1>1. ASSUME NEW p \in Procs, NEW n \in Names, NEW m \in Names, NEW migrate \in BOOLEAN,
             cmdWorkstreamCreate(p, n, migrate, m)
      PROVE  Undisturbed'
  BY <1>1, CreateKnows
<1>2. ASSUME NEW p \in Procs, NEW n \in Names, cmdWorkstreamComplete(p, n)
      PROVE  Undisturbed'
  BY <1>2, CompleteKnows
<1>3. ASSUME NEW p \in Procs, NEW ws \in Names \cup {None}, Resolve(p, ws)
      PROVE  Undisturbed'
  BY <1>3, ResolveKnows
<1>4. NoJob => Undisturbed'
  BY KnowsNothing
<1> QED BY <1>1, <1>2, <1>3, <1>4 DEF WsIssue, cmdWorkstreamSet

\* Every step of one under way carries it on.
LEMMA ContinueKnows ==
  ASSUME WsOK, Undisturbed, NEW p \in Procs, WsContinue(p) \/ RegenerateState(p) \/ Settles(p)
  PROVE  Undisturbed'
<1>1. ASSUME NEW g \in Groups, ArchiveMove(p, g) PROVE Undisturbed'
  BY <1>1, ArchiveMoveKnows
<1>2. ASSUME NEW t \in 1 .. MaxWork, cmdTodoComplete(p, t) PROVE Undisturbed'
  BY <1>2, TodoKnows
<1>3. CASE \/ migrateToWorkstreams(p) \/ PlantDir(p) \/ MigrateMove(p) \/ MakeDir(p)
           \/ ChooseArchive(p) \/ MakeArchive(p) \/ ListEntries(p)
  BY <1>3, MigrateKnows, PlantKnows, MoveKnows, OpKnows, ChooseKnows, MakeKnows, ListKnows
<1>4. CASE Ends(p)
  BY <1>4, EndKnows
<1>5. CASE \/ ScaffoldPhaseDir(p) \/ RegenerateState(p)
           \/ \E e \in {"state", "pending"} : AgentWrites(p, e)
  <2>1. \E e \in Entries : AddWork(p, e)
    BY <1>5, AddersAdd
  <2> QED BY <1>4, <2>1 DEF Ends
<1> QED BY <1>1, <1>2, <1>3, <1>4, <1>5 DEF WsContinue, Ends

\* In every state, a command that nobody overtook knows what it has done to
\* the tree it found.
LEMMA KnowsInvariant == Spec => [](WsOK /\ Undisturbed)
<1>1. Init => WsOK /\ Undisturbed
  <2>1. WsInit => Undisturbed
    BY IdleGood DEF WsInit, Undisturbed
  <2> QED BY <2>1, WsStart DEF Init
<1>2. WsOK /\ Undisturbed /\ [Next]_vars => WsOK' /\ Undisturbed'
  <2> SUFFICES ASSUME WsOK, Undisturbed, [Next]_vars PROVE WsOK' /\ Undisturbed'
    OBVIOUS
  <2>1. CASE UNCHANGED wsVars
    <3>1. tree' = tree /\ job' = job
      BY <2>1 DEF wsVars, treeVars, tree
    <3> QED BY <2>1, <3>1, SameOK DEF Undisturbed
  <2> QED BY <2>1, WsNext, WsStep, IssueKnows, ContinueKnows
<1> QED BY <1>1, <1>2, PTL DEF Spec

\* The step leaves the archive as it is.
Stays(a) == a \in DOMAIN archives' /\ archives'[a] = archives[a]
\* The command is not at work on the archive.
Avoids(j, a) == j.op \in {"naming", "listing", "archiving"} => << j.name, j.into >> # a

\* Sealed, by the processes.
LEMMA SealedIs ==
  /\ \A a : a \in Sealed <=> a \in DOMAIN archives /\ \A q \in Procs : Avoids(job[q], a)
  /\ \A a : a \in Sealed' <=> a \in DOMAIN archives' /\ \A q \in Procs : Avoids(job'[q], a)
BY DEF Sealed, Avoids, Chosen

\* A step of p that settles on no sealed archive.
LEMMA AvoidsStep ==
  ASSUME WsOK, NEW a \in Sealed, NEW p \in Procs, NEW k, GoodJob(k), SetJob(p, k), Avoids(k, a),
         Stays(a)
  PROVE  a \in Sealed'
<1>1. /\ job'[p] = k
      /\ \A q \in Procs : q # p => /\ job'[q].op = job[q].op /\ job'[q].name = job[q].name
                                   /\ job'[q].into = job[q].into
  BY SetJobEffect DEF WsOK
<1>2. \A q \in Procs : Avoids(job[q], a)
  BY SealedIs
<1>3. \A q \in Procs : q # p => Avoids(job'[q], a)
  BY <1>1, <1>2 DEF Avoids
<1> QED BY <1>1, <1>3, SealedIs DEF Stays

\* Steps that end a command, or are at another place of one.
LEMMA AvoidsElse ==
  ASSUME WsOK, NEW a \in Sealed, NEW p \in Procs, NEW k, GoodJob(k), SetJob(p, k),
         k.op \notin {"naming", "listing", "archiving"}, Stays(a)
  PROVE  a \in Sealed'
<1>1. Avoids(k, a)
  BY DEF Avoids
<1> QED BY <1>1, AvoidsStep

\* A command that begins makes no archive.
LEMMA IssueSeals ==
  ASSUME WsOK, WsIssue, NEW a \in Sealed
  PROVE  Stays(a) /\ a \in Sealed'
<1>1. Stays(a)
  <2>1. archives' = archives
    BY DEF WsIssue, cmdWorkstreamCreate, cmdWorkstreamComplete, cmdWorkstreamSet, Resolve, treeVars
  <2> QED BY <2>1, SealedIs DEF Stays
<1>2. ASSUME NEW p \in Procs, NEW n \in Names, NEW m \in Names, NEW migrate \in BOOLEAN,
             cmdWorkstreamCreate(p, n, migrate, m)
      PROVE  a \in Sealed'
  <2>1. \E k : GoodJob(k) /\ SetJob(p, k) /\ k.op \in {"idle", "migrate", "mkdir"}
    BY <1>2, CreateSteps
  <2> QED BY <1>1, <2>1, AvoidsElse
<1>3. ASSUME NEW p \in Procs, NEW n \in Names, cmdWorkstreamComplete(p, n)
      PROVE  a \in Sealed'
  <2>1. \E k : GoodJob(k) /\ SetJob(p, k) /\ k.op \in {"idle", "closing"}
    BY <1>3, CompleteSteps
  <2> QED BY <1>1, <2>1, AvoidsElse
<1>4. ASSUME NEW p \in Procs, NEW ws \in Names \cup {None}, Resolve(p, ws)
      PROVE  a \in Sealed'
  <2>1. \E k : GoodJob(k) /\ SetJob(p, k) /\ k.op = "resolved"
    BY <1>4, ResolveSteps
  <2> QED BY <1>1, <2>1, AvoidsElse
<1>5. ASSUME NoJob PROVE a \in Sealed'
  <2>1. \A q \in Procs : /\ job'[q].op = job[q].op /\ job'[q].name = job[q].name
                         /\ job'[q].into = job[q].into
    BY <1>5, NoJobEffect DEF WsOK
  <2>2. \A q \in Procs : Avoids(job'[q], a)
    BY <2>1, SealedIs DEF Avoids
  <2> QED BY <1>1, <2>2, SealedIs DEF Stays
<1> QED BY <1>1, <1>2, <1>3, <1>4, <1>5 DEF WsIssue, cmdWorkstreamSet

\* A command that is at work on an archive has one of its own, and goes on with it.
LEMMA WorkSeals ==
  ASSUME WsOK, NEW p \in Procs, NEW a \in Sealed,
         \/ ChooseArchive(p) \/ MakeArchive(p) \/ ListEntries(p)
         \/ \E g \in Groups : ArchiveMove(p, g)
  PROVE  Stays(a) /\ a \in Sealed'
<1>0. a \in DOMAIN archives /\ Avoids(job[p], a)
  BY SealedIs
<1>1. PICK j, x : j = job[p] /\ x = << j.name, j.into >>
  OBVIOUS
<1>2. CASE ChooseArchive(p)
  <2>1. PICK k : /\ GoodJob(k) /\ SetJob(p, k) /\ Same(j, k, {"op", "into"})
                 /\ k.op = "naming" /\ k.into = Free(j.name)
    BY <1>1, <1>2, ChooseSteps
  <2>2. << k.name, k.into >> \notin DOMAIN archives
    BY <2>1, FreeSuffix DEF Same, JobKeys, WsOK, TreeOK, ArchivesOK
  <2>3. Avoids(k, a)
    BY <1>0, <2>2 DEF Avoids
  <2>4. Stays(a)
    BY <1>0, <1>2 DEF Stays, ChooseArchive
  <2> QED BY <2>1, <2>3, <2>4, AvoidsStep
<1>3. ASSUME NEW k, GoodJob(k), SetJob(p, k), k.name = j.name, k.into = j.into,
             j.op \in {"naming", "listing", "archiving"}, Stays(a)
      PROVE  Stays(a) /\ a \in Sealed'
  <2>1. Avoids(k, a)
    BY <1>0, <1>1, <1>3 DEF Avoids
  <2> QED BY <1>3, <2>1, AvoidsStep
<1>4. CASE MakeArchive(p)
  <2>1. PICK k : /\ GoodJob(k) /\ SetJob(p, k) /\ Same(j, k, {"op"}) /\ j.op = "naming"
    BY <1>1, <1>4, MakeSteps
  <2>2. x # a
    BY <1>0, <1>1, <2>1 DEF Avoids
  <2>3. archives' = archives \/ archives' = Put(archives, x, Empty)
    BY <1>1, <1>4 DEF MakeArchive, Chosen
  <2>4. Stays(a)
    <3>1. CASE archives' = archives
      BY <1>0, <3>1 DEF Stays
    <3>2. CASE archives' = Put(archives, x, Empty)
      BY ONLY <1>0, <2>2, <3>2 DEF Put, Stays
    <3> QED BY <2>3, <3>1, <3>2
  <2>5. k.name = j.name /\ k.into = j.into
    BY <2>1 DEF Same, JobKeys
  <2> QED BY <1>3, <2>1, <2>4, <2>5
<1>5. CASE ListEntries(p)
  <2>1. PICK k : /\ GoodJob(k) /\ SetJob(p, k) /\ Same(j, k, {"op", "left"}) /\ j.op = "listing"
    BY <1>1, <1>5, ListSteps
  <2>2. Stays(a)
    BY <1>0, <1>5 DEF Stays, ListEntries, treeVars
  <2>3. k.name = j.name /\ k.into = j.into
    BY <2>1 DEF Same, JobKeys
  <2> QED BY <1>3, <2>1, <2>2, <2>3
<1>6. ASSUME NEW g \in Groups, ArchiveMove(p, g)
      PROVE  Stays(a) /\ a \in Sealed'
  <2>1. PICK k : GoodJob(k) /\ SetJob(p, k) /\ Same(j, k, {"left", "moved"})
    BY <1>1, <1>6, ArchiveSteps
  <2>2. PICK d : d = Renamed(streams[j.name], archives[x], g)
    OBVIOUS
  <2>3. archives' = [archives EXCEPT ![x] = d] /\ j.op = "archiving"
    BY <1>1, <1>6, <2>2 DEF ArchiveMove, Chosen
  <2>4. x # a
    BY <1>0, <1>1, <2>3 DEF Avoids
  <2>5. Stays(a)
    BY ONLY <1>0, <2>3, <2>4 DEF Stays
  <2>6. k.name = j.name /\ k.into = j.into
    BY <2>1 DEF Same, JobKeys
  <2> QED BY <1>3, <2>1, <2>3, <2>5, <2>6
<1> QED BY <1>2, <1>4, <1>5, <1>6

\* A command that ends has removed no archive but its own.
LEMMA EndSeals ==
  ASSUME WsOK, NEW p \in Procs, Ends(p), NEW a \in Sealed
  PROVE  Stays(a) /\ a \in Sealed'
<1>0. a \in DOMAIN archives /\ Avoids(job[p], a)
  BY SealedIs
<1>1. UNCHANGED archives => Stays(a)
  BY <1>0 DEF Stays
<1>2. ASSUME GiveUp(p), job[p].op \in {"listing", "archiving"} PROVE Stays(a)
  <2>1. PICK x : x = << job[p].name, job[p].into >>
    OBVIOUS
  <2>2. archives' = Drop(archives, x)
    BY <1>2, <2>1 DEF GiveUp, Chosen
  <2>3. a # x
    BY <1>0, <1>2, <2>1 DEF Avoids
  <2>4. Filed(archives)
    BY DEF WsOK, TreeOK, ArchivesOK
  <2>5. DOMAIN archives' = DOMAIN archives \ {x} /\ \A y \in DOMAIN archives : y # x
          => archives'[y] = archives[y]
    BY ONLY <2>2, <2>4, DropFiled
  <2> QED BY <1>0, <2>3, <2>5 DEF Stays
<1>3. UNCHANGED archives \/ (GiveUp(p) /\ job[p].op \in {"listing", "archiving"})
  BY DEF Ends, MigrateRollback, FinishCreate, ArchiveRollback, ListFails, FinishComplete,
         UnlinkPending, Crash, cmdSignalWaiting, cmdSignalResume, AddWork, Settles, treeVars
<1>4. Stays(a)
  BY <1>1, <1>2, <1>3
<1>5. \E k : GoodJob(k) /\ SetJob(p, k) /\ k.op = "idle"
  BY EndSteps
<1> QED BY <1>4, <1>5, AvoidsElse

\* The steps of a command touch the archive it is at work on only.
LEMMA ContinueSeals ==
  ASSUME WsOK, NEW p \in Procs, WsContinue(p) \/ RegenerateState(p) \/ Settles(p), NEW a \in Sealed
  PROVE  Stays(a) /\ a \in Sealed'
<1>1. CASE \/ migrateToWorkstreams(p) \/ PlantDir(p) \/ MigrateMove(p) \/ MakeDir(p)
           \/ \E t \in 1 .. MaxWork : cmdTodoComplete(p, t)
  <2>1. archives' = archives
    BY <1>1 DEF migrateToWorkstreams, PlantDir, MigrateMove, MakeDir, cmdTodoComplete, treeVars
  <2>2. Stays(a)
    BY <2>1, SealedIs DEF Stays
  <2>3. ASSUME NEW k, GoodJob(k), SetJob(p, k),
               k.op \in {"idle", "planting", "moving", "created", "unlink"}
        PROVE  a \in Sealed'
    BY <2>2, <2>3, AvoidsElse
  <2>4. CASE migrateToWorkstreams(p)
    BY <2>2, <2>3, <2>4, MigrateSteps
  <2>5. CASE PlantDir(p)
    BY <2>2, <2>3, <2>5, PlantSteps
  <2>6. CASE MigrateMove(p)
    <3>1. \E k : GoodJob(k) /\ SetJob(p, k) /\ job[p].op = "moving"
                 /\ Same(job[p], k, {"left", "moved"})
      BY <2>6, MoveSteps
    <3>2. \E k : GoodJob(k) /\ SetJob(p, k) /\ k.op = "moving"
      BY <3>1 DEF Same, JobKeys
    <3> QED BY <2>2, <2>3, <3>2
  <2>7. CASE MakeDir(p)
    BY <2>2, <2>3, <2>7, OpSteps
  <2>8. ASSUME NEW t \in 1 .. MaxWork, cmdTodoComplete(p, t) PROVE a \in Sealed'
    <3>1. \E k : GoodJob(k) /\ SetJob(p, k) /\ k.op \in {"idle", "unlink"}
      BY <2>8, TodoSteps
    <3> QED BY <2>3, <3>1
  <2> QED BY <1>1, <2>2, <2>4, <2>5, <2>6, <2>7, <2>8
<1>2. CASE \/ ChooseArchive(p) \/ MakeArchive(p) \/ ListEntries(p)
           \/ \E g \in Groups : ArchiveMove(p, g)
  BY <1>2, WorkSeals
<1>3. CASE Ends(p)
  BY <1>3, EndSeals
<1>4. CASE \/ ScaffoldPhaseDir(p) \/ RegenerateState(p)
           \/ \E e \in {"state", "pending"} : AgentWrites(p, e)
  <2>1. \E e \in Entries : AddWork(p, e)
    BY <1>4, AddersAdd
  <2> QED BY <1>3, <2>1 DEF Ends
<1> QED BY <1>1, <1>2, <1>3, <1>4 DEF WsContinue, Ends

\* No step touches a sealed archive, or settles on it.
LEMMA ArchivesSealed ==
  ASSUME WsOK, [Next]_vars, NEW a \in Sealed
  PROVE  Stays(a) /\ a \in Sealed'
<1>1. CASE UNCHANGED wsVars
  <2>1. archives' = archives /\ job' = job
    BY <1>1 DEF wsVars, treeVars
  <2>2. a \in DOMAIN archives /\ \A q \in Procs : Avoids(job[q], a)
    BY SealedIs
  <2> QED BY <2>1, <2>2, SealedIs DEF Stays
<1> QED BY <1>1, IssueSeals, ContinueSeals, WsNext

(***************************************************************************)
(* Archives are sealed: for any number of processes, names, faults and     *)
(* crashes, an archive that no command is at work on is not written,       *)
(* removed or settled on again, because the suffix loop never hands out a  *)
(* name in use (workstream.cjs:299-303).                                   *)
(***************************************************************************)
THEOREM ArchivesStay == Spec => ArchiveSealed
<1>1. WsOK /\ [Next]_vars => [/\ Sealed \subseteq Sealed'
                              /\ \A a \in Sealed : archives'[a] = archives[a]]_wsVars
  BY ArchivesSealed DEF Stays
<1> QED BY <1>1, WsInvariant, PTL DEF Spec, ArchiveSealed

\* Two records of the list of workstreams: what each is named, what its status is.
Line(n) == [name |-> n, has_roadmap |-> streams[n]["roadmap"] # {},
            has_state |-> streams[n]["state"] # {}, status |-> StatusOf(n),
            phase_count |-> PhaseCount(n), completed_phases |-> CompletedCount(n)]

(***************************************************************************)
(* The collision check of the transition workflow and the function written *)
(* for it name the same workstreams, an unfinished one always among them,  *)
(* and list, status and progress agree on each (workstream.cjs:136-275,    *)
(* transition.md:397-421).                                                 *)
(***************************************************************************)
THEOREM CollisionsAreSeen == Spec => []CollisionsSeen
<1>1. CollisionsSeen
  <2> SUFFICES ASSUME NEW x \in Names
      PROVE  LET others == getOtherActiveWorkstreams(x) IN
      /\ others = {l.name : l \in {l \in cmdWorkstreamList :
                                      l.name # x /\ l.status # "milestone complete"}}
      /\ \A n \in DOMAIN streams \ {x} :
           CompletedCount(n) < PhaseCount(n) /\ ~(streams[n]["state"] \cap Finished # {})
             => n \in others
      /\ x \in DOMAIN streams =>
           LET s == cmdWorkstreamStatus(x) IN
           \E q \in cmdWorkstreamProgress :
             /\ q.name = x /\ q.completed = s.completed_phases
             /\ q.status = IF s.state THEN s.status ELSE "unknown"
    BY DEF CollisionsSeen
  <2>1. getOtherActiveWorkstreams(x) = {l.name : l \in {l \in cmdWorkstreamList :
                                      l.name # x /\ l.status # "milestone complete"}}
    <3>1. cmdWorkstreamList = {Line(n) : n \in DOMAIN streams}
      BY DEF cmdWorkstreamList, Line
    <3>2. \A n : Line(n).name = n /\ Line(n).status = StatusOf(n)
      BY DEF Line
    <3>3. getOtherActiveWorkstreams(x)
            = {n \in DOMAIN streams : n # x /\ StatusOf(n) # "milestone complete"}
      BY DEF getOtherActiveWorkstreams
    <3>4. PICK L : L = cmdWorkstreamList
      OBVIOUS
    <3>5. \A l \in L : l.name \in DOMAIN streams /\ l.status = StatusOf(l.name)
      BY <3>1, <3>2, <3>4
    <3>6. \A n \in DOMAIN streams : \E l \in L : l.name = n
      BY <3>1, <3>2, <3>4
    <3>7. \A n : n \in getOtherActiveWorkstreams(x)
                   <=> \E l \in L : l.name # x /\ l.status # "milestone complete" /\ n = l.name
      BY <3>3, <3>5, <3>6
    <3>8. \A n : n \in {l.name : l \in {l \in L : l.name # x /\ l.status # "milestone complete"}}
                   <=> \E l \in L : l.name # x /\ l.status # "milestone complete" /\ n = l.name
      OBVIOUS
    <3> QED BY <3>4, <3>7, <3>8
  <2>2. ASSUME NEW n \in DOMAIN streams \ {x}, ~(streams[n]["state"] \cap Finished # {})
        PROVE  n \in getOtherActiveWorkstreams(x)
    BY <2>2 DEF getOtherActiveWorkstreams, StatusOf
  <2>3. ASSUME x \in DOMAIN streams
        PROVE  LET s == cmdWorkstreamStatus(x) IN
           \E q \in cmdWorkstreamProgress :
             /\ q.name = x /\ q.completed = s.completed_phases
             /\ q.status = IF s.state THEN s.status ELSE "unknown"
    <3>1. PICK c, st : c = CompletedCount(x) /\ st = StatusOf(x)
      OBVIOUS
    <3>2. /\ cmdWorkstreamStatus(x).completed_phases = c
          /\ st = IF cmdWorkstreamStatus(x).state THEN cmdWorkstreamStatus(x).status ELSE "unknown"
      <4>1. PICK h : h = (streams[x]["state"] # {})
        OBVIOUS
      <4>2. PICK v : v = IF streams[x]["state"] = {} THEN None ELSE st
        OBVIOUS
      <4>3. /\ cmdWorkstreamStatus(x).completed_phases = c
            /\ cmdWorkstreamStatus(x).state = h /\ cmdWorkstreamStatus(x).status = v
        BY <2>3, <3>1, <4>1, <4>2 DEF cmdWorkstreamStatus
      <4>4. ~h => st = "unknown"
        BY <3>1, <4>1 DEF StatusOf
      <4>5. h => v = st
        BY <4>1, <4>2
      <4> QED BY <4>3, <4>4, <4>5
    <3>3. PICK q : q = [name |-> x, active |-> x = getActiveWorkstream, status |-> st,
            completed |-> c]
      OBVIOUS
    <3>4. q \in cmdWorkstreamProgress
      BY <2>3, <3>1, <3>3 DEF cmdWorkstreamProgress
    <3>5. q.name = x /\ q.status = st /\ q.completed = c
      BY <3>3
    <3> QED BY <3>2, <3>4, <3>5
  <2> QED BY <2>1, <2>2, <2>3
<1> QED BY <1>1, PTL

(***************************************************************************)
(* Where a piece of work is.                                               *)
(***************************************************************************)
Somewhere(x, f, s, a) ==
  /\ x \in (0 .. MaxWork) \ {Signal0}
  /\ In(x, f) \/ (\E n \in DOMAIN s : In(x, s[n])) \/ (\E k \in DOMAIN a : In(x, a[k]))
\* No work of the first tree is missing in the second.
NoneLost(f, s, a, g, t, b) == \A x : Somewhere(x, f, s, a) => Somewhere(x, g, t, b)

\* The step loses no work.
Keeps == NoneLost(flat, streams, archives, flat', streams', archives')

\* Which is what Stored says.
LEMMA KeepsStored == Keeps => Stored \subseteq Stored'
BY DEF Keeps, NoneLost, Somewhere, Stored

\* Steps that touch no directory.
LEMMA KeepsSame == UNCHANGED << flat, streams, archives >> => Keeps
BY DEF Keeps, NoneLost

\* What is moved is in the one directory or the other.
LEMMA TakenOrBrought ==
  ASSUME NEW d, NEW gs, NEW x
  PROVE  In(x, d) <=> In(x, Taken(d, gs)) \/ In(x, Brought(d, gs))
BY DEF In, Taken, Brought

\* A new directory holds no work.
LEMMA InEmpty == \A x : ~In(x, Empty)
BY EmptyDir DEF In

\* Work may be added to one directory.
LEMMA MoreInStream ==
  ASSUME NEW f, NEW s, NEW t, NEW a, NEW n,
         \A m \in DOMAIN s : m \in DOMAIN t /\ (m # n => t[m] = s[m]),
         n \in DOMAIN s => \A x : x # Signal0 /\ In(x, s[n]) => In(x, t[n])
  PROVE  NoneLost(f, s, a, f, t, a)
BY DEF NoneLost, Somewhere

\* A directory is replaced by one that holds its work.
LEMMA WriteKeeps ==
  ASSUME WsOK, NEW w \in Names \cup {None}, NEW dir, GoodDir(dir), WriteDir(w, dir),
         archives' = archives,
         \A x : x # Signal0 /\ In(x, planningDir(w)) => In(x, dir)
  PROVE  Keeps
<1>1. CASE w = None
  <2>1. flat' = dir /\ streams' = streams /\ planningDir(w) = flat
    BY <1>1, Written DEF planningDir
  <2> QED BY <2>1 DEF Keeps, NoneLost, Somewhere
<1>2. CASE w # None
  <2>1. /\ flat' = flat /\ DOMAIN streams' = DOMAIN streams \cup {w} /\ streams'[w] = dir
        /\ \A n \in DOMAIN streams : n # w => streams'[n] = streams[n]
    BY <1>2, Written
  <2>2. w \in DOMAIN streams => planningDir(w) = streams[w]
    BY <1>2 DEF planningDir, Exists
  <2>3. \A m \in DOMAIN streams : m \in DOMAIN streams' /\ (m # w => streams'[m] = streams[m])
    BY <2>1
  <2>4. w \in DOMAIN streams => \A x : x # Signal0 /\ In(x, streams[w]) => In(x, streams'[w])
    BY <2>1, <2>2
  <2>5. NoneLost(flat, streams, archives, flat, streams', archives)
    BY <2>3, <2>4, MoreInStream
  <2> QED BY <2>1, <2>5 DEF Keeps
<1> QED BY <1>1, <1>2

\* One entry of the directory replaced by a set that keeps the work of the entry.
LEMMA EntryKeeps ==
  ASSUME WsOK, NEW w \in Names \cup {None}, NEW e \in Entries, NEW S \in SUBSET (0 .. MaxWork),
         e = "waiting" => S \subseteq {Signal0},
         WriteDir(w, [planningDir(w) EXCEPT ![e] = S]), archives' = archives,
         \A x \in planningDir(w)[e] : x # Signal0 =>
           x \in S \/ \E h \in Entries \ {e} : x \in planningDir(w)[h]
  PROVE  Keeps
<1>1. PICK d : d = planningDir(w)
  OBVIOUS
<1>2. PICK c : c = [d EXCEPT ![e] = S]
  OBVIOUS
<1>3. GoodDir(d)
  BY <1>1, PlanningDirGood
<1>4. GoodDir(c) /\ c = [x \in Entries |-> IF x = e THEN S ELSE d[x]]
  <2>1. /\ e \in Entries /\ S \in SUBSET (0 .. MaxWork)
        /\ e = "waiting" => S \subseteq {Signal0}
    OBVIOUS
  <2>2. /\ GoodDir([d EXCEPT ![e] = S])
        /\ [d EXCEPT ![e] = S] = [x \in Entries |-> IF x = e THEN S ELSE d[x]]
    BY ONLY <1>3, <2>1, EntrySet
  <2> QED BY ONLY <1>2, <2>2
<1>5. WriteDir(w, c)
  BY <1>1, <1>2
<1>6. \A x : x # Signal0 /\ In(x, d) => In(x, c)
  <2>1. \A h \in Entries : c[h] = IF h = e THEN S ELSE d[h]
    BY <1>4
  <2>2. \A x \in d[e] : x # Signal0 => x \in S \/ \E h \in Entries \ {e} : x \in d[h]
    BY <1>1
  <2> QED BY <2>1, <2>2 DEF In
<1> QED BY <1>1, <1>4, <1>5, <1>6, WriteKeeps

\* New work is added to what is there.
LEMMA AddsKeeps ==
  ASSUME WsOK, NEW p \in Procs, NEW e \in Entries \ {"waiting"}, AddWork(p, e)
  PROVE  Keeps
<1>2. minted' \in 0 .. MaxWork
  BY BoundsAssumption DEF AddWork, WsOK, TreeOK, CountsOK
<1>3. PICK w : w = job[p].name
  OBVIOUS
<1>4. w \in Names \cup {None}
  BY <1>3, ResolvedName DEF AddWork
<1>5. PICK S : S = planningDir(w)[e] \cup {minted'}
  OBVIOUS
<1>6. S \in SUBSET (0 .. MaxWork)
  BY <1>2, <1>4, <1>5, PlanningDirGood, DirIs
<1>7. WriteDir(w, [planningDir(w) EXCEPT ![e] = S]) /\ archives' = archives
  BY <1>3, <1>5 DEF AddWork
<1>8. \A x \in planningDir(w)[e] : x \in S
  BY <1>5
<1> QED BY <1>4, <1>6, <1>7, <1>8, EntryKeeps

\* WAITING.json is no work.
LEMMA SignalKeeps ==
  ASSUME WsOK, NEW p \in Procs, cmdSignalWaiting(p) \/ cmdSignalResume(p)
  PROVE  Keeps
<1>2. PICK w : w = job[p].name
  OBVIOUS
<1>3. w \in Names \cup {None}
  BY <1>2, ResolvedName DEF cmdSignalWaiting, cmdSignalResume
<1>4. /\ {} \in SUBSET (0 .. MaxWork) /\ {Signal0} \in SUBSET (0 .. MaxWork)
      /\ "waiting" \in Entries
  BY BoundsAssumption, EntriesAre DEF Signal0
<1>5. \/ UNCHANGED << flat, wsRoot, streams >>
      \/ \E S \in {{}, {Signal0}} : WriteDir(w, [planningDir(w) EXCEPT !["waiting"] = S])
  BY <1>2 DEF cmdSignalWaiting, cmdSignalResume
<1>6. archives' = archives
  BY DEF cmdSignalWaiting, cmdSignalResume
<1>7. \A x \in planningDir(w)["waiting"] : x = Signal0
  BY <1>3, PlanningDirGood DEF GoodDir
<1>8. ASSUME NEW S \in {{}, {Signal0}},
             WriteDir(w, [planningDir(w) EXCEPT !["waiting"] = S])
      PROVE  Keeps
  BY <1>3, <1>4, <1>6, <1>7, <1>8, EntryKeeps
<1> QED BY <1>5, <1>6, <1>8, KeepsSame

\* todo complete copies.
LEMMA TodoKeeps ==
  ASSUME WsOK, NEW p \in Procs, NEW t \in 1 .. MaxWork, cmdTodoComplete(p, t)
  PROVE  Keeps
<1>1. PICK w : w = job[p].name
  OBVIOUS
<1>2. w \in Names \cup {None}
  BY <1>1, ResolvedName DEF cmdTodoComplete
<1>3. PICK S : S = planningDir(w)["completed"] \cup {t}
  OBVIOUS
<1>4. S \in SUBSET (0 .. MaxWork) /\ "completed" \in Entries /\ "completed" # "waiting"
  BY <1>2, <1>3, PlanningDirGood, DirIs, EntriesAre
<1>5. archives' = archives
  BY DEF cmdTodoComplete
<1>6. \/ WriteDir(w, [planningDir(w) EXCEPT !["completed"] = S])
      \/ UNCHANGED << flat, wsRoot, streams >>
  BY <1>1, <1>3 DEF cmdTodoComplete
<1>7. \A x \in planningDir(w)["completed"] : x \in S
  BY <1>3
<1>8. CASE WriteDir(w, [planningDir(w) EXCEPT !["completed"] = S])
  BY <1>2, <1>4, <1>5, <1>7, <1>8, EntryKeeps
<1> QED BY <1>5, <1>6, <1>8, KeepsSame

\* No command touches work as it begins, whoever else is running.
LEMMA IssueKeeps ==
  ASSUME WsIssue
  PROVE  Keeps
<1>1. UNCHANGED << flat, streams, archives >>
  BY DEF WsIssue, cmdWorkstreamCreate, cmdWorkstreamComplete, cmdWorkstreamSet, Resolve, treeVars
<1> QED BY <1>1, KeepsSame

\* A move in progress holds what the tree held before.
LEMMA MovingHolds ==
  ASSUME NEW j, NEW b, NEW t, Moving(j, b, t)
  PROVE  \A x : Somewhere(x, t.flat, t.streams, t.archives)
                  <=> Somewhere(x, b.flat, b.streams, b.archives)
<1>1. PICK f, s, d, n : f = t.flat /\ s = t.streams /\ d = b.flat /\ n = j.into
  OBVIOUS
<1>2. /\ f = Taken(d, j.moved) /\ DOMAIN s = {n} /\ s[n] = Brought(d, j.moved)
      /\ t.archives = b.archives /\ DOMAIN b.streams = {}
  BY <1>1 DEF Moving
<1>3. \A x : In(x, d) <=> In(x, f) \/ \E m \in DOMAIN s : In(x, s[m])
  BY <1>2, TakenOrBrought
<1> QED BY <1>1, <1>2, <1>3 DEF Somewhere

\* So does an archiving in progress.
LEMMA ArchivingHolds ==
  ASSUME NEW j, NEW b, NEW t, Archiving(j, b, t)
  PROVE  \A x : Somewhere(x, t.flat, t.streams, t.archives)
                  <=> Somewhere(x, b.flat, b.streams, b.archives)
<1>1. PICK s, r, u, v, d, n, k : /\ s = t.streams /\ r = b.streams /\ u = t.archives
                                    /\ v = b.archives
                                 /\ n = j.name /\ k = << j.name, j.into >> /\ d = r[n]
  OBVIOUS
<1>2. /\ t.flat = b.flat /\ n \in DOMAIN r /\ DOMAIN s = DOMAIN r /\ s[n] = Taken(d, j.moved)
      /\ \A m \in DOMAIN r : m # n => s[m] = r[m]
  BY <1>1 DEF Archiving
<1>3. /\ k \notin DOMAIN v /\ DOMAIN u = DOMAIN v \cup {k} /\ u[k] = Brought(d, j.moved)
      /\ \A x \in DOMAIN v : u[x] = v[x]
  BY <1>1 DEF Archiving
<1>4. \A x : In(x, d) <=> In(x, s[n]) \/ In(x, u[k])
  BY <1>2, <1>3, TakenOrBrought
<1>5. \A x : ((\E m \in DOMAIN s : In(x, s[m])) \/ (\E y \in DOMAIN u : In(x, u[y])))
               <=> ((\E m \in DOMAIN r : In(x, r[m])) \/ (\E y \in DOMAIN v : In(x, v[y])))
  <2> SUFFICES ASSUME NEW x
               PROVE  ((\E m \in DOMAIN s : In(x, s[m])) \/ (\E y \in DOMAIN u : In(x, u[y])))
               <=> ((\E m \in DOMAIN r : In(x, r[m])) \/ (\E y \in DOMAIN v : In(x, v[y])))
    OBVIOUS
  <2>1. (\E m \in DOMAIN s : In(x, s[m]))
          <=> (In(x, s[n]) \/ \E m \in DOMAIN r : m # n /\ In(x, r[m]))
    BY <1>2
  <2>2. (\E m \in DOMAIN r : In(x, r[m]))
          <=> (In(x, d) \/ \E m \in DOMAIN r : m # n /\ In(x, r[m]))
    BY <1>1, <1>2
  <2>3. (\E y \in DOMAIN u : In(x, u[y])) <=> (In(x, u[k]) \/ \E y \in DOMAIN v : In(x, v[y]))
    BY <1>3
  <2> QED BY <1>4, <2>1, <2>2, <2>3
<1> QED BY <1>1, <1>2, <1>5 DEF Somewhere

\* A migration that fails once leaves the tree as it found it.
LEMMA MigrateRestores ==
  ASSUME WsOK, Undisturbed, NEW p \in Procs, MigrateRollback(p), job[p].before # None, SingleFault
  PROVE  tree' = job[p].before
<1>1. PICK j, g, b, s, t, d, n : /\ j = job[p] /\ g = NextItem(j.left) /\ b = j.before
                                 /\ s = tree /\ t = tree' /\ d = b.flat /\ n = j.into
  OBVIOUS
<1>2. Knows(j, s) /\ GoodTree(b) /\ GoodJob(j)
  BY <1>1, KnewBefore
<1>3. j.op = "moving" /\ j.left # {}
  BY <1>1 DEF MigrateRollback
<1>4. Moving(j, b, s) /\ TreeIs(s, flat, wsRoot, streams, archives, marker)
  BY <1>1, <1>2, <1>3, TreeFields DEF Knows
<1>5. TreeIs(t, flat', wsRoot', streams', archives, marker) /\ IsTree(t) /\ IsTree(b)
  <2>1. archives' = archives /\ marker' = marker
    BY DEF MigrateRollback
  <2> QED BY <1>1, <1>2, <2>1, TreeFieldsNext DEF GoodTree
<1>6. flat = Taken(d, j.moved) /\ streams[n] = Brought(d, j.moved) /\ DOMAIN streams = {n}
  BY <1>1, <1>4 DEF Moving, TreeIs
<1>7. g \in Groups \ j.moved /\ j.moved \in SUBSET Groups /\ n \in Names
  <2>1. g \in j.left
    BY <1>1, <1>2, <1>3, NextItemLeft DEF GoodJob
  <2> QED BY <1>1, <1>2, <1>3, <1>4, <2>1 DEF GoodJob, Moving
<1>8. planningDir(n) = streams[n]
  BY <1>6, <1>7, NoneAssumption DEF planningDir, Exists
<1>9. CanRename(flat, streams[n], g)
  <2>1. Holds(d, g)
    BY <1>1, <1>3, <1>4 DEF Moving
  <2>2. Holds(Taken(d, j.moved), g)
    BY <1>7, <2>1, StillThere
  <2> QED BY <1>6, <1>7, <2>2, RoomToMove
<1>10. PICK real : real = (n \notin DOMAIN streams \/ ~CanRename(flat, planningDir(n), g))
  OBVIOUS
<1>11. ~real
  BY <1>6, <1>8, <1>9, <1>10
<1>12. PICK stuck \in SUBSET j.moved :
         Fault(real, stuck) /\ flat' = RestoredTo(flat, planningDir(n), j.moved \ stuck)
  BY <1>1, <1>10 DEF MigrateRollback
<1>13. stuck = {}
  BY <1>1, <1>11, <1>12, FaultType DEF SingleFault
<1>14. flat' = d
  <2>1. GoodDir(d)
    BY <1>1, <1>2 DEF GoodTree
  <2>2. RestoredTo(Taken(d, j.moved), Brought(d, j.moved), j.moved) = d
    BY <1>7, <2>1, AllRestored
  <2>3. j.moved \ stuck = j.moved
    BY <1>13
  <2> QED BY <1>6, <1>8, <1>12, <2>2, <2>3
<1>15. DOMAIN streams' = {} /\ Filed(streams')
  <2>1. streams' = Drop(streams, n) /\ Filed(streams)
    BY <1>1 DEF MigrateRollback, WsOK, TreeOK, StreamsOK
  <2>2. DOMAIN streams' = DOMAIN streams \ {n}
    BY ONLY <2>1, DropFiled
  <2>3. Filed(streams')
    BY ONLY <2>1, DropFiled
  <2> QED BY <1>6, <2>2, <2>3
<1>16. streams' = b.streams
  <2>1. PICK r : r = b.streams
    OBVIOUS
  <2>2. DOMAIN r = {} /\ Filed(r)
    BY <1>2, <1>4, <2>1 DEF Moving, GoodTree
  <2>3. streams' = r
    BY <1>15, <2>2, SameFiled
  <2> QED BY <2>1, <2>3
<1>17. wsRoot' = b.wsRoot
  <2>1. wsRoot' = (DOMAIN streams' # {})
    BY DEF MigrateRollback
  <2>2. wsRoot' = FALSE
    BY <1>15, <2>1
  <2> QED BY <1>4, <2>2 DEF Moving
<1>18. t.archives = b.archives /\ t.marker = b.marker
  BY <1>4, <1>5 DEF Moving, TreeIs
<1>19. t.flat = b.flat /\ t.streams = b.streams /\ t.wsRoot = b.wsRoot
  BY <1>1, <1>5, <1>14, <1>16, <1>17 DEF TreeIs
<1>20. t = b
  BY <1>5, <1>18, <1>19 DEF IsTree
<1> QED BY <1>1, <1>20

\* An archiving that fails once leaves the tree as it found it.
LEMMA ArchiveRestores ==
  ASSUME WsOK, Undisturbed, NEW p \in Procs, NEW g \in Groups, ArchiveRollback(p, g),
         job[p].before # None, SingleFault
  PROVE  tree' = job[p].before
<1>1. PICK j, b, s, t, n, a, d : /\ j = job[p] /\ b = j.before /\ s = tree /\ t = tree'
                                 /\ n = j.name /\ a = << j.name, j.into >> /\ d = b.streams[n]
  OBVIOUS
<1>2. Knows(j, s) /\ GoodTree(b) /\ GoodJob(j)
  BY <1>1, KnewBefore
<1>3. j.op = "archiving" /\ g \in j.left
  BY <1>1 DEF ArchiveRollback
<1>4. Archiving(j, b, s) /\ TreeIs(s, flat, wsRoot, streams, archives, marker)
  BY <1>1, <1>2, <1>3, TreeFields DEF Knows
<1>5. TreeIs(t, flat, wsRoot, streams', archives', marker') /\ IsTree(t) /\ IsTree(b)
  <2>1. flat' = flat /\ wsRoot' = wsRoot
    BY DEF ArchiveRollback, GiveUp
  <2> QED BY <1>1, <1>2, <2>1, TreeFieldsNext DEF GoodTree
<1>6. /\ flat = b.flat /\ wsRoot = b.wsRoot /\ n \in DOMAIN b.streams
      /\ DOMAIN streams = DOMAIN b.streams /\ streams[n] = Taken(d, j.moved)
      /\ \A m \in DOMAIN b.streams : m # n => streams[m] = b.streams[m]
  BY <1>1, <1>4 DEF Archiving, TreeIs
<1>7. /\ a \notin DOMAIN b.archives /\ DOMAIN archives = DOMAIN b.archives \cup {a}
      /\ archives[a] = Brought(d, j.moved)
      /\ \A x \in DOMAIN b.archives : archives[x] = b.archives[x]
  BY <1>1, <1>4 DEF Archiving, TreeIs
<1>8. marker = (IF j.active THEN None ELSE b.marker) /\ (j.active => b.marker = n)
  BY <1>1, <1>4 DEF Archiving, TreeIs
<1>9. g \in Groups \ j.moved /\ j.moved \in SUBSET Groups /\ g \in Held(d)
  BY <1>1, <1>2, <1>3, <1>4 DEF GoodJob, Archiving
<1>10. CanRename(streams[n], archives[a], g)
  <2>1. Holds(Taken(d, j.moved), g)
    BY <1>9, StillThere DEF Held
  <2> QED BY <1>6, <1>7, <1>9, <2>1, RoomToMove
<1>11. PICK gone, real : /\ gone = (n \notin DOMAIN streams \/ a \notin DOMAIN archives)
                         /\ real = (gone \/ ~CanRename(streams[n], archives[a], g))
  OBVIOUS
<1>12. ~gone
  BY <1>6, <1>7, <1>11
<1>13. ~real
  BY <1>10, <1>11, <1>12
<1>14. PICK stuck \in SUBSET j.moved :
        /\ Fault(real, stuck)
        /\ streams' = IF gone THEN streams
             ELSE [streams EXCEPT ![n] = RestoredTo(streams[n], archives[a], j.moved \ stuck)]
  BY <1>1, <1>11 DEF ArchiveRollback, Chosen
<1>15. stuck = {}
  BY <1>1, <1>13, <1>14, FaultType DEF SingleFault
<1>16. RestoredTo(streams[n], archives[a], j.moved \ stuck) = d
  <2>1. GoodDir(d)
    BY <1>1, <1>2, <1>6 DEF GoodTree, Filed
  <2>2. RestoredTo(Taken(d, j.moved), Brought(d, j.moved), j.moved) = d
    BY <1>9, <2>1, AllRestored
  <2>3. j.moved \ stuck = j.moved
    BY <1>15
  <2> QED BY <1>6, <1>7, <2>2, <2>3
<1>17. streams' = b.streams
  <2>1. PICK r : r = b.streams
    OBVIOUS
  <2>2. streams' = [streams EXCEPT ![n] = d] /\ Filed(streams) /\ Filed(r) /\ d = r[n]
    BY <1>1, <1>2, <1>12, <1>14, <1>16, <2>1 DEF GoodTree, WsOK, TreeOK, StreamsOK
  <2>3. /\ n \in DOMAIN r /\ DOMAIN streams = DOMAIN r
        /\ \A m \in DOMAIN r : m # n => streams[m] = r[m]
    BY <1>6, <2>1
  <2>4. \A m \in DOMAIN r : streams'[m] = r[m]
    BY ONLY <2>2, <2>3
  <2>5. DOMAIN streams' = DOMAIN r /\ streams' = [m \in DOMAIN streams' |-> streams'[m]]
    BY ONLY <2>2, <2>3
  <2>6. r = [m \in DOMAIN r |-> r[m]]
    BY <2>2 DEF Filed
  <2>7. streams' = r
    BY ONLY <2>4, <2>5, <2>6
  <2> QED BY <2>1, <2>7
<1>18. archives' = b.archives
  <2>1. PICK r : r = b.archives
    OBVIOUS
  <2>2. archives' = Drop(archives, a) /\ Filed(archives) /\ Filed(r)
    BY <1>1, <1>2, <2>1 DEF ArchiveRollback, GiveUp, Chosen, GoodTree, WsOK, TreeOK, ArchivesOK
  <2>3. Filed(archives')
    BY ONLY <2>2, DropFiled
  <2>4. DOMAIN archives' = DOMAIN archives \ {a}
        /\ \A y \in DOMAIN archives : y # a => archives'[y] = archives[y]
    BY ONLY <2>2, DropFiled
  <2>5. DOMAIN archives' = DOMAIN r /\ \A x \in DOMAIN archives' : archives'[x] = r[x]
    BY <1>7, <2>1, <2>4
  <2>6. archives' = r
    BY <2>2, <2>3, <2>5, SameFiled
  <2> QED BY <2>1, <2>6
<1>19. marker' = b.marker
  <2>1. marker' = IF j.active THEN n ELSE marker
    BY <1>1 DEF ArchiveRollback, GiveUp
  <2>2. CASE j.active
    BY <1>8, <2>1, <2>2
  <2>3. CASE ~j.active
    BY <1>8, <2>1, <2>3
  <2> QED BY <2>2, <2>3
<1>20. t.flat = b.flat /\ t.wsRoot = b.wsRoot
  BY <1>5, <1>6 DEF TreeIs
<1>21. t.streams = b.streams /\ t.archives = b.archives /\ t.marker = b.marker
  BY <1>5, <1>17, <1>18, <1>19 DEF TreeIs
<1>22. t = b
  BY <1>5, <1>20, <1>21 DEF IsTree
<1> QED BY <1>1, <1>22

\* mkdir -p of a workstream.
LEMMA MkdirKeeps ==
  ASSUME WsOK, NEW n, flat' = flat, archives' = archives,
         streams' = IF n \in DOMAIN streams THEN streams ELSE Put(streams, n, Empty)
  PROVE  Keeps
<1>3. CASE n \in DOMAIN streams
  BY <1>3, KeepsSame
<1>4. CASE n \notin DOMAIN streams
  <2>1. streams' = Put(streams, n, Empty)
    BY <1>4
  <2>2. \A m \in DOMAIN streams : m \in DOMAIN streams' /\ (m # n => streams'[m] = streams[m])
    BY ONLY <2>1 DEF Put
  <2>3. NoneLost(flat, streams, archives, flat, streams', archives)
    BY <1>4, <2>2, MoreInStream
  <2> QED BY <2>3 DEF Keeps
<1> QED BY <1>3, <1>4

\* The directories that migration and create make.
LEMMA MakesKeep ==
  ASSUME WsOK, NEW p \in Procs, PlantDir(p) \/ MakeDir(p)
  PROVE  Keeps
<1>1. PICK n : n = IF PlantDir(p) THEN job[p].into ELSE job[p].name
  OBVIOUS
<1>2. /\ flat' = flat /\ archives' = archives
      /\ streams' = IF n \in DOMAIN streams THEN streams ELSE Put(streams, n, Empty)
  BY <1>1 DEF PlantDir, MakeDir
<1> QED BY <1>2, MkdirKeeps

\* The directory that complete makes.
LEMMA MakeArchiveKeeps ==
  ASSUME WsOK, NEW p \in Procs, MakeArchive(p)
  PROVE  Keeps
<1>1. PICK k : k = Chosen(p)
  OBVIOUS
<1>2. /\ flat' = flat /\ streams' = streams
      /\ archives' = IF k \in DOMAIN archives THEN archives ELSE Put(archives, k, Empty)
  BY <1>1 DEF MakeArchive
<1>3. CASE k \in DOMAIN archives
  BY <1>2, <1>3, KeepsSame
<1>4. CASE k \notin DOMAIN archives
  <2>1. archives' = Put(archives, k, Empty)
    BY <1>2, <1>4
  <2>2. \A a \in DOMAIN archives : a \in DOMAIN archives' /\ archives'[a] = archives[a]
    BY ONLY <1>4, <2>1 DEF Put
  <2> QED BY <1>2, <2>2 DEF Keeps, NoneLost, Somewhere
<1> QED BY <1>3, <1>4

\* What a move takes from .planning/ it brings to the workstream.
LEMMA MoveKeeps ==
  ASSUME WsOK, Undisturbed, NEW p \in Procs, MigrateMove(p), job[p].before # None
  PROVE  Keeps
<1>1. PICK j, k, b, s, t : j = job[p] /\ k = job'[p] /\ b = j.before /\ s = tree /\ t = tree'
  OBVIOUS
<1>2. \E l : /\ GoodJob(l) /\ SetJob(p, l) /\ j.op = "moving"
             /\ Same(j, l, {"left", "moved"})
  BY <1>1, MoveSteps
<1>3. Same(j, k, {"left", "moved"}) /\ j.op = "moving"
  BY <1>1, <1>2, SetJobEffect DEF WsOK
<1>4. k.op = "moving" /\ k.before = b
  BY <1>1, <1>3 DEF Same, JobKeys
<1>5. Undisturbed'
  BY MoveKnows
<1>6. Knows(j, s)
  BY <1>1 DEF Undisturbed
<1>7. Knows(k, t)
  BY <1>1, <1>4, <1>5 DEF Undisturbed
<1>8. Moving(j, b, s) /\ Moving(k, b, t)
  BY <1>1, <1>3, <1>4, <1>6, <1>7 DEF Knows
<1>9. s.flat = flat /\ s.streams = streams /\ s.archives = archives
  BY <1>1, TreeFields DEF TreeIs
<1>10. t.flat = flat' /\ t.streams = streams' /\ t.archives = archives'
  BY <1>1, TreeFieldsNext DEF TreeIs
<1>11. \A x : Somewhere(x, flat, streams, archives)
               <=> Somewhere(x, b.flat, b.streams, b.archives)
  BY <1>8, <1>9, MovingHolds
<1>12. \A x : Somewhere(x, flat', streams', archives')
               <=> Somewhere(x, b.flat, b.streams, b.archives)
  BY <1>8, <1>10, MovingHolds
<1> QED BY <1>11, <1>12 DEF Keeps, NoneLost

\* What a move takes from the workstream it brings to the archive.
LEMMA ArchiveMoveKeeps ==
  ASSUME WsOK, Undisturbed, NEW p \in Procs, NEW g \in Groups, ArchiveMove(p, g),
      job[p].before # None
  PROVE  Keeps
<1>1. PICK j, k, b, s, t : j = job[p] /\ k = job'[p] /\ b = j.before /\ s = tree /\ t = tree'
  OBVIOUS
<1>2. \E l : GoodJob(l) /\ SetJob(p, l) /\ Same(j, l, {"left", "moved"})
  BY <1>1, ArchiveSteps
<1>3. Same(j, k, {"left", "moved"}) /\ j.op = "archiving"
  BY <1>1, <1>2, SetJobEffect DEF WsOK, ArchiveMove
<1>4. k.op = "archiving" /\ k.before = b
  BY <1>1, <1>3 DEF Same, JobKeys
<1>5. Undisturbed'
  BY ArchiveMoveKnows
<1>6. Knows(j, s)
  BY <1>1 DEF Undisturbed
<1>7. Knows(k, t)
  BY <1>1, <1>4, <1>5 DEF Undisturbed
<1>8. Archiving(j, b, s) /\ Archiving(k, b, t)
  BY <1>1, <1>3, <1>4, <1>6, <1>7 DEF Knows
<1>9. s.flat = flat /\ s.streams = streams /\ s.archives = archives
  BY <1>1, TreeFields DEF TreeIs
<1>10. t.flat = flat' /\ t.streams = streams' /\ t.archives = archives'
  BY <1>1, TreeFieldsNext DEF TreeIs
<1>11. \A x : Somewhere(x, flat, streams, archives)
               <=> Somewhere(x, b.flat, b.streams, b.archives)
  BY <1>8, <1>9, ArchivingHolds
<1>12. \A x : Somewhere(x, flat', streams', archives')
               <=> Somewhere(x, b.flat, b.streams, b.archives)
  BY <1>8, <1>10, ArchivingHolds
<1> QED BY <1>11, <1>12 DEF Keeps, NoneLost

\* A rollback puts everything back before it removes the directory.
LEMMA RollbackKeeps ==
  ASSUME WsOK, Undisturbed, NEW p \in Procs, job[p].before # None, SingleFault,
         MigrateRollback(p) \/ \E g \in Groups : ArchiveRollback(p, g)
  PROVE  Keeps
<1>1. PICK j, b, s, t : j = job[p] /\ b = j.before /\ s = tree /\ t = tree'
  OBVIOUS
<1>2. t = b
  BY <1>1, MigrateRestores, ArchiveRestores
<1>3. Knows(j, s)
  BY <1>1 DEF Undisturbed
<1>4. Moving(j, b, s) \/ Archiving(j, b, s)
  BY <1>1, <1>3 DEF Knows, MigrateRollback, ArchiveRollback
<1>5. s.flat = flat /\ s.streams = streams /\ s.archives = archives
  BY <1>1, TreeFields DEF TreeIs
<1>6. t.flat = flat' /\ t.streams = streams' /\ t.archives = archives'
  BY <1>1, TreeFieldsNext DEF TreeIs
<1>7. \A x : Somewhere(x, flat, streams, archives)
               <=> Somewhere(x, b.flat, b.streams, b.archives)
  BY <1>4, <1>5, MovingHolds, ArchivingHolds
<1> QED BY <1>2, <1>6, <1>7 DEF Keeps, NoneLost

\* STATE.md is written where there is none.
LEMMA FinishCreateKeeps ==
  ASSUME WsOK, NEW p \in Procs, FinishCreate(p)
  PROVE  Keeps
<1>1. PICK n : n = job[p].name
  OBVIOUS
<1>2. flat' = flat /\ archives' = archives
  BY DEF FinishCreate
<1>3. CASE streams' = streams
  BY <1>2, <1>3, KeepsSame
<1>4. CASE streams' # streams
  <2>1. /\ n \in DOMAIN streams /\ streams[n]["state"] = {}
        /\ streams' = [streams EXCEPT ![n]["state"] = {minted + 1}]
    BY <1>1, <1>4 DEF FinishCreate
  <2>2. PICK c, x0 : c = streams[n] /\ x0 = minted + 1
    OBVIOUS
  <2>3. PICK d : d = [c EXCEPT !["state"] = {x0}]
    OBVIOUS
  <2>4. streams' = [streams EXCEPT ![n] = d] /\ n \in DOMAIN streams
    BY <2>1, <2>2, <2>3
  <2>5. c = [e \in Entries |-> c[e]] /\ c["state"] = {}
    BY <2>1, <2>2, DirIs DEF WsOK, TreeOK, StreamsOK, Filed
  <2>6. \A x : In(x, c) => In(x, d)
    BY <2>3, <2>5 DEF In
  <2>7. streams'[n] = d /\ \A m \in DOMAIN streams : m \in DOMAIN streams' /\ (m # n
          => streams'[m] = streams[m])
    BY ONLY <2>4
  <2>8. NoneLost(flat, streams, archives, flat, streams', archives)
    BY <2>2, <2>6, <2>7, MoreInStream
  <2> QED BY <1>2, <2>8 DEF Keeps
<1> QED BY <1>3, <1>4

\* rmdir removes an empty directory only.
LEMMA FinishCompleteKeeps ==
  ASSUME WsOK, NEW p \in Procs, FinishComplete(p)
  PROVE  Keeps
<1>1. PICK n : n = job[p].name
  OBVIOUS
<1>2. flat' = flat /\ archives' = archives
  BY DEF FinishComplete
<1>3. CASE streams' = streams
  BY <1>2, <1>3, KeepsSame
<1>4. CASE streams' # streams
  <2>1. n \notin DOMAIN streams \/ streams[n] = Empty
    BY <1>1, <1>4 DEF FinishComplete
  <2>2. streams' = Drop(streams, n) /\ Filed(streams)
    BY <1>1, <1>4 DEF FinishComplete, WsOK, TreeOK, StreamsOK
  <2>3. DOMAIN streams' = DOMAIN streams \ {n}
        /\ \A m \in DOMAIN streams : m # n => streams'[m] = streams[m]
    BY ONLY <2>2, DropFiled
  <2>4. \A x, m : m \in DOMAIN streams /\ In(x, streams[m]) => m \in DOMAIN streams' /\
          In(x, streams'[m])
    BY <2>1, <2>3, InEmpty
  <2> QED BY <1>2, <2>4 DEF Keeps, NoneLost, Somewhere
<1> QED BY <1>3, <1>4

\* The completed copy is there before the pending one goes.
LEMMA UnlinkKeeps ==
  ASSUME WsOK, Undisturbed, NEW p \in Procs, UnlinkPending(p), job[p].before # None
  PROVE  Keeps
<1>1. PICK j, w, x0, s : j = job[p] /\ w = j.name /\ x0 = j.into /\ s = tree
  OBVIOUS
<1>2. Knows(j, s) /\ j.op = "unlink" /\ GoodJob(j)
  BY <1>1 DEF Undisturbed, UnlinkPending, WsOK, GoodJobs
<1>3. Copied(j, s) /\ w \in Names \cup {None}
  BY <1>1, <1>2 DEF Knows, GoodJob
<1>4. s.flat = flat /\ s.streams = streams
  BY <1>1, TreeFields DEF TreeIs
<1>5. x0 \in planningDir(w)["completed"]
  <2>1. CASE w = None
    <3>1. w \notin DOMAIN streams
      BY <2>1, NoneAssumption DEF WsOK, TreeOK, StreamsOK
    <3> QED BY <1>1, <1>3, <1>4, <2>1, <3>1 DEF Copied, planningDir
  <2>2. CASE w # None
    BY <1>1, <1>3, <1>4, <2>2 DEF Copied, planningDir, Exists
  <2> QED BY <2>1, <2>2
<1>6. PICK S : S = planningDir(w)["pending"] \ {x0}
  OBVIOUS
<1>7. /\ S \in SUBSET (0 .. MaxWork) /\ "pending" \in Entries /\ "pending" # "waiting"
      /\ "completed" \in Entries \ {"pending"}
  BY <1>3, <1>6, PlanningDirGood, DirIs, EntriesAre
<1>8. archives' = archives
  BY DEF UnlinkPending
<1>9. \/ WriteDir(w, [planningDir(w) EXCEPT !["pending"] = S])
      \/ UNCHANGED << flat, wsRoot, streams >>
  BY <1>1, <1>6 DEF UnlinkPending
<1>10. \A x \in planningDir(w)["pending"] : x \in S \/ x \in planningDir(w)["completed"]
  BY <1>5, <1>6
<1>11. CASE WriteDir(w, [planningDir(w) EXCEPT !["pending"] = S])
  BY <1>3, <1>7, <1>8, <1>10, <1>11, EntryKeeps
<1> QED BY <1>8, <1>9, <1>11, KeepsSame

\* A workstream that is being archived is there when it is read.
LEMMA ListSucceeds ==
  ASSUME WsOK, Undisturbed, NEW p \in Procs, job[p].before # None, ListFails(p)
  PROVE  FALSE
<1>1. PICK j, t : j = job[p] /\ t = tree
  OBVIOUS
<1>2. j.op = "listing" /\ j.name \notin DOMAIN streams /\ Knows(j, t)
  BY <1>1, KnewBefore DEF ListFails
<1>3. t.streams = streams
  BY <1>1, TreeFields DEF TreeIs
<1> QED BY <1>2, <1>3 DEF Knows, Listing, Closed

\* No step of a command that nobody overtook loses work.
LEMMA ContinueKeeps ==
  ASSUME WsOK, Undisturbed, NEW p \in Procs, WsContinue(p) \/ RegenerateState(p) \/ Settles(p),
         job[p].before # None, SingleFault
  PROVE  Keeps
<1>1. ASSUME NEW g \in Groups, ArchiveMove(p, g) PROVE Keeps
  BY <1>1, ArchiveMoveKeeps
<1>2. CASE \/ migrateToWorkstreams(p) \/ ChooseArchive(p) \/ ListEntries(p) \/ Crash(p)
           \/ Settles(p)
  <2>1. UNCHANGED << flat, streams, archives >>
    BY <1>2 DEF migrateToWorkstreams, ChooseArchive, ListEntries, Crash, Settles, treeVars
  <2> QED BY <2>1, KeepsSame
<1>3. CASE \/ ScaffoldPhaseDir(p) \/ RegenerateState(p)
           \/ \E e \in {"state", "pending"} : AgentWrites(p, e)
  <2>1. \E e \in Entries \ {"waiting"} : AddWork(p, e)
    BY <1>3, AddersAdd
  <2> QED BY <2>1, AddsKeeps
<1>4. CASE PlantDir(p) \/ MakeDir(p) \/ MakeArchive(p)
  BY <1>4, MakesKeep, MakeArchiveKeeps
<1>5. CASE MigrateMove(p)
  BY <1>5, MoveKeeps
<1>6. CASE MigrateRollback(p) \/ \E g \in Groups : ArchiveRollback(p, g)
  BY <1>6, RollbackKeeps
<1>7. CASE ListFails(p)
  BY <1>7, ListSucceeds
<1>8. CASE FinishCreate(p) \/ FinishComplete(p) \/ UnlinkPending(p)
  BY <1>8, FinishCreateKeeps, FinishCompleteKeeps, UnlinkKeeps
<1>9. CASE cmdSignalWaiting(p) \/ cmdSignalResume(p) \/ \E t \in 1 .. MaxWork : cmdTodoComplete(p, t)
  BY <1>9, SignalKeeps, TodoKeeps
<1> QED BY <1>1, <1>2, <1>3, <1>4, <1>5, <1>6, <1>7, <1>8, <1>9 DEF WsContinue

\* Only a process with a job takes such a step.
LEMMA ContinuesBusy ==
  ASSUME NEW p \in Procs, WsContinue(p) \/ RegenerateState(p) \/ Settles(p)
  PROVE  Busy(p)
BY DEF WsContinue, migrateToWorkstreams, PlantDir, MigrateMove, MigrateRollback, MakeDir,
       FinishCreate, ChooseArchive, MakeArchive, ListEntries, ListFails, ArchiveMove,
       ArchiveRollback, FinishComplete, cmdTodoComplete, UnlinkPending, cmdSignalWaiting,
       cmdSignalResume, ScaffoldPhaseDir, AgentWrites, RegenerateState, AddWork, Settles, Crash,
       Busy

(***************************************************************************)
(* No work is lost: whatever the commands do, wherever they die and        *)
(* whichever rename fails, each piece of work stays in some directory, as  *)
(* long as nobody overtakes a command under way and no rollback fails on   *)
(* top of a failure (workstream.cjs:57-61, 306-330, commands.cjs:717-721). *)
(***************************************************************************)
THEOREM NoWorkLost == Spec => NothingLost
<1>1. ASSUME WsOK, Undisturbed, [Next]_vars,
             \A p \in Procs : Busy(p) => job[p].before # None, SingleFault
      PROVE  Stored \subseteq Stored'
  <2>1. UNCHANGED wsVars => Keeps
    BY KeepsSame DEF wsVars, treeVars
  <2>2. ASSUME NEW p \in Procs, WsContinue(p) \/ RegenerateState(p) \/ Settles(p) PROVE Keeps
    BY <1>1, <2>2, ContinueKeeps, ContinuesBusy
  <2>4. Keeps
    BY <1>1, <2>1, <2>2, IssueKeeps, WsNext
  <2> QED BY <2>4, KeepsStored
<1>2. WsOK /\ Undisturbed /\ [Next]_vars =>
        [(\A p \in Procs : Busy(p) => job[p].before # None) /\ SingleFault
           => Stored \subseteq Stored']_wsVars
  BY <1>1
<1> QED BY <1>2, KnowsInvariant, PTL DEF Spec, NothingLost

\* What a command that ends owes: the consequence of AllOrNothing.
FailedOutcome(p) ==
  job'[p].reply \in {"migration_failed", "archive_failed"} /\ SingleFault => tree' = job[p].before
CreatedOutcome(p) ==
  job'[p].reply = "created" /\ job[p].into # None =>
    /\ \A g \in toMove, e \in Entries :
         e \in g => flat'[e] = {} /\ job[p].before.flat[e] \subseteq streams'[job[p].into][e]
    /\ marker' = job[p].name
CompletedOutcome(p) ==
  job'[p].reply = "completed" =>
    /\ archives' = Put(job[p].before.archives, << job[p].name, job[p].into >>,
                       job[p].before.streams[job[p].name])
    /\ streams' = Drop(job[p].before.streams, job[p].name)
    /\ wsRoot' = (DOMAIN streams' # {})
    /\ getActiveWorkstream' # job[p].name
Outcome(p) == FailedOutcome(p) /\ CreatedOutcome(p) /\ CompletedOutcome(p)

\* What a command prints as it ends.
LEMMA Replied ==
  ASSUME WsOK, NEW p \in Procs, NEW r, SetJob(p, Idle(r))
  PROVE  job'[p].reply = r
<1>1. PICK k : k = Idle(r)
  OBVIOUS
<1>2. GoodJob(k) /\ k.reply = r
  BY <1>1, IdleGood
<1>3. job'[p] = k
  BY <1>1, <1>2, SetJobEffect DEF WsOK
<1> QED BY <1>2, <1>3

\* create: the flat work is in the workstream, which is the active one.
LEMMA CreateOutcome ==
  ASSUME WsOK, Undisturbed, NEW p \in Procs, FinishCreate(p), job[p].before # None
  PROVE  Outcome(p)
<1>1. PICK j, b, s, n, m : j = job[p] /\ b = j.before /\ s = tree /\ n = j.name /\ m = j.into
  OBVIOUS
<1>2. Knows(j, s) /\ j.op = "created"
  BY <1>1 DEF Undisturbed, FinishCreate
<1>3. TreeIs(s, flat, wsRoot, streams, archives, marker)
  BY <1>1, TreeFields
<1>4. \/ SetJob(p, Idle("created")) /\ marker' = n
      \/ SetJob(p, Idle("error"))
  BY <1>1 DEF FinishCreate
<1>5. (job'[p].reply = "created" /\ marker' = n) \/ job'[p].reply = "error"
  BY <1>4, Replied
<1>6. CASE job'[p].reply = "created" /\ marker' = n /\ m # None
  <2>1. MigratedTo(j, b, s)
    BY <1>1, <1>2, <1>6 DEF Knows
  <2>2. flat' = flat
    BY DEF FinishCreate
  <2>3. \A e \in Entries : streams[m][e] \subseteq streams'[m][e]
    <3>1. CASE streams' = streams
      BY <3>1
    <3>2. CASE streams' # streams
      <4>1. /\ n \in DOMAIN streams /\ streams[n]["state"] = {}
            /\ streams' = [streams EXCEPT ![n]["state"] = {minted + 1}]
        BY <1>1, <3>2 DEF FinishCreate
      <4>2. PICK c, x0 : c = streams[n] /\ x0 = {minted + 1}
        OBVIOUS
      <4>3. PICK d : d = [c EXCEPT !["state"] = x0]
        OBVIOUS
      <4>4. streams' = [streams EXCEPT ![n] = d]
        BY <4>1, <4>2, <4>3
      <4>5. c = [e \in Entries |-> c[e]] /\ c["state"] = {}
        BY <4>1, <4>2, DirIs DEF WsOK, TreeOK, StreamsOK, Filed
      <4>6. \A e \in Entries : c[e] \subseteq d[e]
        BY <4>3, <4>5
      <4>7. m \in DOMAIN streams
        BY <1>1, <1>3, <2>1 DEF MigratedTo, TreeIs
      <4>8. streams'[m] = IF m = n THEN d ELSE streams[m]
        BY ONLY <4>1, <4>4, <4>7
      <4> QED BY <4>2, <4>6, <4>8
    <3> QED BY <3>1, <3>2
  <2>4. \A g \in toMove, e \in Entries :
          e \in g => flat[e] = {} /\ b.flat[e] \subseteq streams[m][e]
    BY <1>1, <1>3, <2>1 DEF MigratedTo, TreeIs
  <2>5. CreatedOutcome(p)
    BY <1>1, <1>6, <2>2, <2>3, <2>4 DEF CreatedOutcome
  <2> QED BY <1>6, <2>5 DEF Outcome, FailedOutcome, CompletedOutcome
<1> QED BY <1>1, <1>5, <1>6 DEF Outcome, FailedOutcome, CreatedOutcome, CompletedOutcome

\* complete: all of the workstream is in the archive, and it is gone.
LEMMA CompleteOutcome ==
  ASSUME WsOK, Undisturbed, NEW p \in Procs, FinishComplete(p), job[p].before # None
  PROVE  Outcome(p)
<1>1. PICK j, b, s, n, a, d : /\ j = job[p] /\ b = j.before /\ s = tree /\ n = j.name
                              /\ a = << j.name, j.into >> /\ d = b.streams[n]
  OBVIOUS
<1>2. Knows(j, s) /\ GoodTree(b) /\ GoodJob(j)
  BY <1>1, KnewBefore
<1>3. j.op = "archiving" /\ j.left = {}
  BY <1>1 DEF FinishComplete
<1>4. Archiving(j, b, s) /\ TreeIs(s, flat, wsRoot, streams, archives, marker)
  BY <1>1, <1>2, <1>3, TreeFields DEF Knows
<1>5. /\ n \in DOMAIN b.streams /\ DOMAIN streams = DOMAIN b.streams
      /\ streams[n] = Taken(d, j.moved) /\ j.moved = Held(d)
      /\ \A m \in DOMAIN b.streams : m # n => streams[m] = b.streams[m]
  BY <1>1, <1>3, <1>4 DEF Archiving, TreeIs
<1>6. /\ a \notin DOMAIN b.archives /\ DOMAIN archives = DOMAIN b.archives \cup {a}
      /\ archives[a] = Brought(d, j.moved)
      /\ \A x \in DOMAIN b.archives : archives[x] = b.archives[x]
  BY <1>1, <1>4 DEF Archiving, TreeIs
<1>7. GoodDir(d)
  BY <1>1, <1>2, <1>5 DEF GoodTree, Filed
<1>8. streams[n] = Empty /\ archives[a] = d
  BY <1>5, <1>6, <1>7, AllMoved
<1>9. job'[p].reply = "completed"
  BY Replied DEF FinishComplete
<1>10. archives' = Put(b.archives, a, d)
  <2>1. PICK r : r = b.archives
    OBVIOUS
  <2>2. Filed(archives) /\ archives' = archives
    BY DEF WsOK, TreeOK, ArchivesOK, FinishComplete
  <2>3. /\ DOMAIN archives = DOMAIN r \cup {a} /\ archives[a] = d
        /\ \A x \in DOMAIN r : archives[x] = r[x]
    BY <1>6, <1>8, <2>1
  <2>4. archives = [x \in DOMAIN r \cup {a} |-> archives[x]]
    BY <2>2, <2>3 DEF Filed
  <2>5. a \notin DOMAIN r
    BY <1>6, <2>1
  <2>6. archives = Put(r, a, d)
    BY ONLY <2>3, <2>4, <2>5 DEF Put
  <2> QED BY <2>1, <2>2, <2>6
<1>11. streams' = Drop(streams, n)
  BY <1>1, <1>8 DEF FinishComplete
<1>12. streams' = Drop(b.streams, n)
  <2>1. PICK r : r = b.streams
    OBVIOUS
  <2>2. Filed(r) /\ Filed(streams)
    BY <1>2, <2>1 DEF GoodTree, WsOK, TreeOK, StreamsOK
  <2>3. DOMAIN streams = DOMAIN r /\ \A m \in DOMAIN r : m # n => streams[m] = r[m]
    BY <1>5, <2>1
  <2>4. Drop(streams, n) = Drop(r, n)
    BY ONLY <2>3 DEF Drop, Restrict
  <2> QED BY <1>11, <2>1, <2>4
<1>13. n \notin DOMAIN streams'
  <2>1. Filed(streams)
    BY DEF WsOK, TreeOK, StreamsOK
  <2>2. DOMAIN streams' = DOMAIN streams \ {n}
    BY ONLY <1>11, <2>1, DropFiled
  <2> QED BY <2>2
<1>14. getActiveWorkstream' # n
  <2>1. n \in Names
    BY <1>1, <1>2, <1>3 DEF GoodJob
  <2> QED BY <1>13, <2>1, NoneAssumption DEF getActiveWorkstream
<1>15. wsRoot' = (DOMAIN streams' # {})
  BY DEF FinishComplete
<1>16. CompletedOutcome(p)
  BY <1>1, <1>10, <1>12, <1>14, <1>15 DEF CompletedOutcome
<1> QED BY <1>9, <1>16 DEF Outcome, FailedOutcome, CreatedOutcome

\* Each way a command can end.
LEMMA EndOutcome ==
  ASSUME WsOK, Undisturbed, NEW p \in Procs, WsContinue(p) \/ RegenerateState(p) \/ Settles(p),
         job[p].before # None, ~Busy(p)'
  PROVE  Outcome(p)
<1>1. ASSUME job'[p].reply \notin {"migration_failed", "archive_failed", "created", "completed"}
      PROVE  Outcome(p)
  BY <1>1 DEF Outcome, FailedOutcome, CreatedOutcome, CompletedOutcome
<1>2. ASSUME job'[p].reply \in {"migration_failed", "archive_failed"}, SingleFault
        => tree' = job[p].before
      PROVE  Outcome(p)
  BY <1>2 DEF Outcome, FailedOutcome, CreatedOutcome, CompletedOutcome
<1>3. ASSUME MigrateRollback(p) PROVE Outcome(p)
  <2>1. job'[p].reply = "migration_failed"
    BY <1>3, Replied DEF MigrateRollback
  <2> QED BY <1>2, <1>3, <2>1, MigrateRestores
<1>4. ASSUME NEW g \in Groups, ArchiveRollback(p, g) PROVE Outcome(p)
  <2>1. job'[p].reply = "archive_failed"
    BY <1>4, Replied DEF ArchiveRollback, GiveUp
  <2> QED BY <1>2, <1>4, <2>1, ArchiveRestores
<1>5. ASSUME NEW r \in {"todo_completed", "error", "done", "killed"}, SetJob(p, Idle(r))
      PROVE  Outcome(p)
  <2>1. job'[p].reply = r
    BY <1>5, Replied
  <2> QED BY <1>1, <2>1
<1>6. CASE \/ UnlinkPending(p) \/ Crash(p) \/ cmdSignalWaiting(p) \/ cmdSignalResume(p)
           \/ ScaffoldPhaseDir(p) \/ (\E e \in {"state", "pending"} : AgentWrites(p, e))
           \/ RegenerateState(p) \/ Settles(p)
  <2>1. \E r \in {"todo_completed", "error", "done", "killed"} : SetJob(p, Idle(r))
    BY <1>6 DEF UnlinkPending, Crash, cmdSignalWaiting, cmdSignalResume, ScaffoldPhaseDir,
                AgentWrites, RegenerateState, AddWork, Settles
  <2> QED BY <1>5, <2>1
<1>7. ASSUME NEW k, GoodJob(k), SetJob(p, k), k.op # "idle" PROVE FALSE
  <2>1. job'[p] = k
    BY <1>7, SetJobEffect DEF WsOK
  <2> QED BY <1>7, <2>1 DEF Busy
<1>8. ASSUME migrateToWorkstreams(p) PROVE FALSE
  <2>1. PICK j, s : j = job[p] /\ s = tree
    OBVIOUS
  <2>2. Knows(j, s) /\ j.op = "migrate"
    BY <1>8, <2>1 DEF Undisturbed, migrateToWorkstreams
  <2>3. ~wsRoot
    BY <2>1, <2>2, TreeFields DEF Knows, TreeIs
  <2>4. PICK i : i = [j EXCEPT !.op = "planting"]
    OBVIOUS
  <2>5. SetJob(p, i)
    BY <1>8, <2>1, <2>3, <2>4 DEF migrateToWorkstreams
  <2>6. GoodJob(j)
    BY <2>1 DEF WsOK, GoodJobs
  <2>7. IsJob(j) /\ i.op = "planting"
    BY <2>4, <2>6, JobOp DEF GoodJob
  <2>8. Same(j, i, {"op"})
    BY <2>4, <2>7, JobOp
  <2>9. GoodJob(i)
    BY <2>2, <2>6, <2>7, <2>8 DEF GoodJob, Same, JobKeys, Ops
  <2> QED BY <1>7, <2>5, <2>7, <2>9
<1>9. ASSUME NEW t \in 1 .. MaxWork, cmdTodoComplete(p, t) PROVE Outcome(p)
  <2>1. \/ SetJob(p, Idle("error"))
        \/ \E k : GoodJob(k) /\ SetJob(p, k) /\ k.op = "unlink"
    <3>1. CASE t \in planningDir(job[p].name)["pending"]
      <4>1. PICK k : /\ GoodJob(k) /\ SetJob(p, k)
                     /\ k.op = "idle" \/ k.op = "unlink"
        BY <1>9, TodoSteps
      <4>2. PICK j : j = job[p]
        OBVIOUS
      <4>3. PICK i : i = [j EXCEPT !.op = "unlink", !.into = t]
        OBVIOUS
      <4>4. SetJob(p, i)
        BY <1>9, <3>1, <4>2, <4>3 DEF cmdTodoComplete
      <4>5. k = job'[p] /\ i = job'[p]
        BY <4>1, <4>4, SetJobEffect DEF WsOK, SetJob
      <4>6. IsJob(j)
        BY <4>2 DEF WsOK, GoodJobs, GoodJob
      <4>7. i.op = "unlink"
        BY <4>3, <4>6 DEF IsJob, JobKeys
      <4> QED BY <4>1, <4>5, <4>7
    <3>2. CASE t \notin planningDir(job[p].name)["pending"]
      BY <1>9, <3>2 DEF cmdTodoComplete
    <3> QED BY <3>1, <3>2
  <2> QED BY <1>5, <1>7, <2>1
<1>10. ASSUME PlantDir(p) \/ MakeDir(p) PROVE FALSE
  BY <1>7, <1>10, PlantSteps, OpSteps
<1>11. ASSUME MigrateMove(p) PROVE FALSE
  <2>1. \E k : /\ GoodJob(k) /\ SetJob(p, k) /\ job[p].op = "moving"
               /\ Same(job[p], k, {"left", "moved"})
    BY <1>11, MoveSteps
  <2> QED BY <1>7, <2>1 DEF Same, JobKeys
<1>12. ASSUME ChooseArchive(p) \/ MakeArchive(p) \/ ListEntries(p) PROVE FALSE
  BY <1>7, <1>12, ChooseSteps, MakeSteps, ListSteps
<1>13. ASSUME NEW g \in Groups, ArchiveMove(p, g) PROVE FALSE
  <2>1. \E k : GoodJob(k) /\ SetJob(p, k) /\ Same(job[p], k, {"left", "moved"})
    BY <1>13, ArchiveSteps
  <2>2. job[p].op = "archiving"
    BY <1>13 DEF ArchiveMove
  <2> QED BY <1>7, <2>1, <2>2 DEF Same, JobKeys
<1>14. ~ListFails(p)
  BY ListSucceeds
<1>15. CASE FinishCreate(p) \/ FinishComplete(p)
  BY <1>15, CreateOutcome, CompleteOutcome
<1> QED BY <1>3, <1>4, <1>6, <1>8, <1>9, <1>10, <1>11, <1>12, <1>13, <1>14, <1>15 DEF WsContinue

\* Each step is one of a process, which it leaves with a job, or of none.
LEMMA StepOf ==
  ASSUME WsOK, NEW q \in Procs, WsContinue(q) \/ RegenerateState(q) \/ Settles(q)
  PROVE  \E k : GoodJob(k) /\ SetJob(q, k)
<1>1. CASE \/ migrateToWorkstreams(q) \/ PlantDir(q) \/ MigrateMove(q) \/ MakeDir(q)
           \/ ChooseArchive(q) \/ MakeArchive(q) \/ ListEntries(q)
  BY <1>1, MigrateSteps, PlantSteps, MoveSteps, OpSteps, ChooseSteps, MakeSteps, ListSteps
<1>2. ASSUME NEW g \in Groups, ArchiveMove(q, g) PROVE \E k : GoodJob(k) /\ SetJob(q, k)
  BY <1>2, ArchiveSteps
<1>3. ASSUME NEW t \in 1 .. MaxWork, cmdTodoComplete(q, t) PROVE \E k : GoodJob(k) /\ SetJob(q, k)
  BY <1>3, TodoSteps
<1>4. CASE Ends(q)
  BY <1>4, EndSteps
<1>5. CASE \/ ScaffoldPhaseDir(q) \/ RegenerateState(q)
           \/ \E e \in {"state", "pending"} : AgentWrites(q, e)
  <2>1. \E e \in Entries : AddWork(q, e)
    BY <1>5, AddersAdd
  <2> QED BY <1>4, <2>1 DEF Ends
<1> QED BY <1>1, <1>2, <1>3, <1>4, <1>5 DEF WsContinue, Ends

\* Only its own steps end a command.
LEMMA OwnEnd ==
  ASSUME WsOK, [Next]_vars, NEW p \in Procs, Busy(p), ~Busy(p)'
  PROVE  WsContinue(p) \/ RegenerateState(p) \/ Settles(p)
<1>1. ASSUME NEW q \in Procs, NEW k, GoodJob(k), SetJob(q, k)
      PROVE  q = p
  BY <1>1, SetJobEffect DEF WsOK, Busy
<1>2. ~NoJob
  BY NoJobEffect DEF WsOK, Busy
<1>3. job' # job
  BY DEF Busy
<1>4. ~UNCHANGED wsVars
  BY <1>3 DEF wsVars
<1>6. ~WsIssue
  <2>1. ASSUME NEW q \in Procs, NEW n \in Names, NEW m \in Names, NEW migrate \in BOOLEAN,
               cmdWorkstreamCreate(q, n, migrate, m)
        PROVE  FALSE
    <3>1. q = p
      BY <1>1, <2>1, CreateSteps
    <3> QED BY <2>1, <3>1 DEF cmdWorkstreamCreate
  <2>2. ASSUME NEW q \in Procs, NEW n \in Names, cmdWorkstreamComplete(q, n)
        PROVE  FALSE
    <3>1. q = p
      BY <1>1, <2>2, CompleteSteps
    <3> QED BY <2>2, <3>1 DEF cmdWorkstreamComplete
  <2>3. ASSUME NEW q \in Procs, NEW ws \in Names \cup {None}, Resolve(q, ws)
        PROVE  FALSE
    <3>1. q = p
      BY <1>1, <2>3, ResolveSteps
    <3> QED BY <2>3, <3>1 DEF Resolve
  <2> QED BY <1>2, <2>1, <2>2, <2>3 DEF WsIssue, cmdWorkstreamSet
<1>7. ASSUME NEW q \in Procs, WsContinue(q) \/ RegenerateState(q) \/ Settles(q) PROVE q = p
  BY <1>1, <1>7, StepOf
<1> QED BY <1>4, <1>6, <1>7, WsNext

(***************************************************************************)
(* create and complete are all or nothing: one that reports a failure has  *)
(* left the tree as it found it, one that reports success has moved all it *)
(* had to, into the one directory it names (workstream.cjs:45-65, 306-330).*)
(***************************************************************************)
THEOREM CommandsAreWhole == Spec => AllOrNothing
<1>1. ASSUME WsOK, Undisturbed, [Next]_vars
      PROVE [\A p \in Procs :
         LET j == job[p]
             was == j.before
             reply == job'[p].reply
         IN  Busy(p) /\ ~Busy(p)' /\ was # None =>
               /\ reply \in {"migration_failed", "archive_failed"} /\ SingleFault => tree' = was
               /\ reply = "created" /\ j.into # None =>
                    /\ \A g \in toMove, e \in Entries :
                         e \in g => flat'[e] = {} /\ was.flat[e] \subseteq streams'[j.into][e]
                    /\ marker' = j.name
               /\ reply = "completed" =>
                    /\ archives' = Put(was.archives, << j.name, j.into >>, was.streams[j.name])
                    /\ streams' = Drop(was.streams, j.name)
                    /\ wsRoot' = (DOMAIN streams' # {})
                    /\ getActiveWorkstream' # j.name]_wsVars
  <2>1. ASSUME NEW p \in Procs, Busy(p), ~Busy(p)', job[p].before # None
        PROVE  Outcome(p)
    BY <1>1, <2>1, OwnEnd, EndOutcome
  <2> QED BY <2>1 DEF Outcome, FailedOutcome, CreatedOutcome, CompletedOutcome
<1> QED BY <1>1, KnowsInvariant, PTL DEF Spec, AllOrNothing
=============================================================================
