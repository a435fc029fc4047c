--------------------------- MODULE StateFileProofs ---------------------------
(***************************************************************************)
(* What holds of STATE.md for any number of processes, tries and files:    *)
(* types, exclusion by the lock until somebody breaks it, and that front   *)
(* matter and body of whatever is on disk were derived together. Then what *)
(* every STATE.md holds: the plan counter stays in the phase, and no command*)
(* forgets the status. Every command is an edit that keeps both, deriving  *)
(* the front matter keeps both, and what processes exchange through the file*)
(* are such texts and the empty file.                                      *)
(***************************************************************************)
EXTENDS StateFile, TLAPS

Inside == {"opening", "writing", "unlocking"}
Places == {"idle", "locking", "refused"} \cup Inside

\* pend is a function on the processes.
Texts == pend = [p \in Procs |-> pend[p]]

\* The part of the types the proofs use.
Shape ==
    /\ pc \in [Procs -> Places]
    /\ lock \in Procs \cup {None}
    /\ forced \in BOOLEAN
    /\ Texts

THEOREM ShapeInvariant == Spec => []Shape
<1>1. Init => Shape
  BY DEF Init, Shape, Texts, Places
<1>2. Shape /\ [Next]_vars => Shape'
  <2> SUFFICES ASSUME Shape, [Next]_vars PROVE Shape'
    OBVIOUS
  <2> USE DEF Shape, Texts, Places, Inside
  <2>1. ASSUME NEW p \in Procs, NEW c, NEW n, Issue(p, c, n) PROVE Shape'
    BY <2>1 DEF Issue
  <2>2. ASSUME NEW p \in Procs, Command(p) PROVE Shape'
    BY <2>1, <2>2 DEF Command, PatchOrUpdate, AdvancePlan, RecordMetric, UpdateProgress,
          AddDecision, AddBlocker, ResolveBlocker, RecordSession, BeginPhase
  <2>3. ASSUME NEW p \in Procs, Continue(p) PROVE Shape'
    <3>1. CASE Acquire(p) \/ Refused(p) \/ Retry(p) \/ CannotLock(p)
      BY <3>1 DEF Acquire, Refused, Retry, CannotLock
    <3>2. CASE ClearStale(p) \/ GiveUp(p)
      BY <3>2 DEF ClearStale, GiveUp
    <3>3. CASE Truncate(p) \/ Write(p)
      BY <3>3 DEF Truncate, Write
    <3>4. CASE Unlock(p)
      BY <3>4 DEF Unlock, Exit
    <3> QED BY <2>3, <3>1, <3>2, <3>3, <3>4 DEF Continue
  <2>4. ASSUME NEW p \in Procs, Crash(p) PROVE Shape'
    BY <2>4 DEF Crash, Exit
  <2>5. CASE UNCHANGED vars
    BY <2>5 DEF vars
  <2> QED BY <2>2, <2>3, <2>4, <2>5 DEF Next
<1> QED BY <1>1, <1>2, PTL DEF Spec

(***************************************************************************)
(* Exclusion.                                                              *)
(***************************************************************************)
\* Whoever is past the lock owns it, unless somebody went on without it or
\* removed another's.
Owned == ~forced => \A p \in Procs : pc[p] \in Inside => lock = p

LEMMA OwnedInvariant == Spec => []Owned
<1>1. Init => Owned
  BY DEF Init, Owned, Inside
<1>2. Shape /\ Owned /\ [Next]_vars => Owned'
  <2> SUFFICES ASSUME Shape, Owned, [Next]_vars PROVE Owned'
    OBVIOUS
  <2> USE DEF Shape, Places, Inside, Owned
  <2>1. ASSUME NEW p \in Procs, NEW c, NEW n, Issue(p, c, n) PROVE Owned'
    BY <2>1 DEF Issue
  <2>2. ASSUME NEW p \in Procs, Command(p) PROVE Owned'
    BY <2>1, <2>2 DEF Command, PatchOrUpdate, AdvancePlan, RecordMetric, UpdateProgress,
          AddDecision, AddBlocker, ResolveBlocker, RecordSession, BeginPhase
  <2>3. ASSUME NEW p \in Procs, Continue(p) PROVE Owned'
    <3>1. CASE Acquire(p)
      BY <3>1, NoneAssumption DEF Acquire
    <3>2. CASE Refused(p) \/ Retry(p) \/ Truncate(p) \/ Write(p)
      BY <3>2 DEF Refused, Retry, Truncate, Write
    <3>3. CASE ClearStale(p) \/ GiveUp(p) \/ CannotLock(p)
      BY <3>3 DEF ClearStale, GiveUp, CannotLock
    <3>4. CASE Unlock(p)
      BY <3>4 DEF Unlock, Exit
    <3> QED BY <2>3, <3>1, <3>2, <3>3, <3>4 DEF Continue
  <2>4. ASSUME NEW p \in Procs, Crash(p) PROVE Owned'
    BY <2>4 DEF Crash, Exit
  <2>5. CASE UNCHANGED vars
    BY <2>5 DEF vars
  <2> QED BY <2>2, <2>3, <2>4, <2>5 DEF Next
<1> QED BY <1>1, <1>2, ShapeInvariant, PTL DEF Spec

\* Two processes are between lock and unlock at once only after somebody
\* removed a lock that was not its own or went on without one.
THEOREM Exclusion == Spec => []OneWriter
<1>1. Owned => OneWriter
  BY DEF Owned, OneWriter, Inside
<1> QED BY <1>1, OwnedInvariant, PTL

(***************************************************************************)
(* One consistent text.                                                    *)
(***************************************************************************)
LEMMA SyncedMirrors ==
  ASSUME NEW c
  PROVE  Mirrors(syncStateFrontmatter(c))
BY DEF Mirrors, syncStateFrontmatter, buildStateFrontmatter, Has

LEMMA EmptyMirrors == Mirrors(EmptyFile)
BY DEF Mirrors, EmptyFile, Derived

\* A text a state command made.
Made(c) == Derived(c) /\ Mirrors(c)

\* Not only what is on disk: whatever a process is about to write.
AllMirror ==
  /\ file \in InitFiles \cup {EmptyFile} \/ Made(file)
  /\ \A p \in Procs : pend[p] = EmptyFile \/ Made(pend[p])

(***************************************************************************)
(* What an edit keeps.                                                     *)
(***************************************************************************)
\* d, edited from c, still has front matter with a status when c had.
KeepsStatus(c, d) ==
  Derived(c) =>
    /\ Derived(d)
    /\ c.front.status # "unknown" => d.front.status # "unknown"

CounterFields == {"Current Plan", "Total Plans in Phase", "Plan"}

\* d, edited from c, has the plan counter of c.
KeepsCounter(c, d) ==
  \A f \in CounterFields : /\ Has(d, f) <=> Has(c, f)
                           /\ Has(c, f) => d.field[f] = c.field[f]

\* What a line of the text can say.
Fits(f, v) == (f = "Status" => v \in StatusLines) /\ (f = "Progress" => v \in Int)

\* Set changes one field and nothing else.
LEMMA SetEffect ==
  ASSUME NEW c, IsText(c), NEW f, NEW v, Fits(f, v)
  PROVE  /\ IsText(Set(c, f, v))
         /\ Set(c, f, v).front = c.front
         /\ Set(c, f, v).bold = c.bold
         /\ Set(c, f, v).position = c.position
         /\ Set(c, f, v).field =
              [g \in DOMAIN c.field \cup {f} |-> IF g = f THEN v ELSE c.field[g]]
<1> DEFINE d == Set(c, f, v)
<1>1. /\ d.front = c.front /\ d.bold = c.bold /\ d.position = c.position
      /\ d.decisions = c.decisions /\ d.blockers = c.blockers /\ d.metrics = c.metrics
      /\ d.field = [g \in DOMAIN c.field \cup {f} |-> IF g = f THEN v ELSE c.field[g]]
      /\ d = [front |-> d.front, bold |-> d.bold, field |-> d.field, position |-> d.position,
              decisions |-> d.decisions, blockers |-> d.blockers, metrics |-> d.metrics]
  BY DEF IsText, Set
<1> HIDE DEF d
<1>2. IsText(d)
  BY <1>1 DEF IsText, Has, Fits
<1>3. QED
  BY <1>1, <1>2 DEF d

\* Front matter whose status is replaced.
Restated(c, v) == [c EXCEPT !.front.status = v]

LEMMA FrontEffect ==
  ASSUME NEW c, IsText(c), c.front # None, NEW v, Fits("Status", v)
  PROVE  /\ IsText(Restated(c, v)) /\ Derived(Restated(c, v))
         /\ Restated(c, v).front.status = v /\ Restated(c, v).bold = c.bold
         /\ Restated(c, v).position = c.position /\ Restated(c, v).field = c.field
<1> DEFINE d == Restated(c, v)
<1>1. /\ d.front = [c.front EXCEPT !.status = v]
      /\ d.bold = c.bold /\ d.position = c.position /\ d.field = c.field
      /\ d.decisions = c.decisions /\ d.blockers = c.blockers /\ d.metrics = c.metrics
      /\ d = [front |-> d.front, bold |-> d.bold, field |-> d.field, position |-> d.position,
              decisions |-> d.decisions, blockers |-> d.blockers, metrics |-> d.metrics]
  BY DEF IsText, Restated
<1>2. d.front \in FrontMatter /\ d.front.status = v
  <2>1. c.front \in FrontMatter
    BY DEF IsText
  <2>2. QED
    BY <1>1, <2>1 DEF FrontMatter, StatusWords, Fits
<1> HIDE DEF d
<1>3. IsText(d)
  BY <1>1, <1>2 DEF IsText, Has
<1>4. Derived(d)
  BY <1>2, NoneAssumption DEF FrontMatter, StatusWords, Fits, Derived
<1>5. QED
  BY <1>1, <1>2, <1>3, <1>4 DEF d

\* A replaced field, wherever the search finds it, keeps status and counters.
LEMMA ReplaceEffect ==
  ASSUME NEW c, IsText(c), NEW f, NEW v, Fits(f, v)
  PROVE  LET d == stateReplaceField(c, f, v) IN
         /\ IsText(d) /\ KeepsStatus(c, d)
         /\ d.bold = c.bold /\ d.position = c.position
         /\ \A g \in CounterFields :
              /\ Has(d, g) <=> Has(c, g)
              /\ Has(c, g) => d.field[g] = IF g = f THEN v ELSE c.field[g]
<1>1. CASE stateReplaceField(c, f, v) = c /\ f \notin CounterFields
  BY <1>1 DEF KeepsStatus, Derived
<1>2. CASE ~Found(c, f)
  BY <1>2 DEF stateReplaceField, KeepsStatus, Derived, Found
<1>3. CASE Found(c, f) /\ ~Shadowed(c, f)
  <2> DEFINE d == Set(c, f, v)
  <2>1. Has(c, f) /\ stateReplaceField(c, f, v) = d
    BY <1>3 DEF stateReplaceField, Found
  <2>2. /\ IsText(d) /\ d.front = c.front /\ d.bold = c.bold /\ d.position = c.position
        /\ d.field = [g \in DOMAIN c.field \cup {f} |-> IF g = f THEN v ELSE c.field[g]]
    BY SetEffect
  <2> HIDE DEF d
  <2>3. QED
    BY <2>1, <2>2 DEF Has, KeepsStatus, Derived
<1>4. CASE Shadowed(c, f)
  <2> DEFINE d == Restated(c, v)
  <2>1. c.front # None /\ f \in {"Status", "Progress"}
    BY <1>4 DEF Shadowed, Derived
  <2>2. CASE f = "Progress"
    BY <1>1, <1>4, <2>2 DEF stateReplaceField, CounterFields, Found
  <2>3. CASE f = "Status"
    <3>1. stateReplaceField(c, f, v) = d
      BY <1>4, <2>3 DEF stateReplaceField, Found, Restated
    <3>2. /\ IsText(d) /\ Derived(d) /\ d.front.status = v
          /\ d.bold = c.bold /\ d.position = c.position /\ d.field = c.field
      BY <2>1, <2>3, FrontEffect
    <3> HIDE DEF d
    <3>3. QED
      BY <2>3, <3>1, <3>2 DEF KeepsStatus, Derived, Has, CounterFields, Fits, StatusLines
  <2>4. QED
    BY <2>1, <2>2, <2>3
<1>5. QED
  BY <1>2, <1>3, <1>4

\* d is c with v for f, if f is a counter field it has.
Replaced(c, d, f, v) ==
  /\ IsText(d) /\ KeepsStatus(c, d)
  /\ d.bold = c.bold /\ d.position = c.position
  /\ \A g \in CounterFields :
       /\ Has(d, g) <=> Has(c, g)
       /\ Has(c, g) => d.field[g] = IF g = f THEN v ELSE c.field[g]

\* The same, for a text that has a name.
LEMMA ReplaceCounter ==
  ASSUME NEW c, IsText(c), NEW f, NEW v, Fits(f, v), NEW d, d = stateReplaceField(c, f, v)
  PROVE  Replaced(c, d, f, v) /\ IsText(d)
BY ReplaceEffect DEF Replaced

\* The counter counts as long as it is kept.
LEMMA CountersKept ==
  ASSUME NEW c, NEW d, CountsPlans(c), KeepsCounter(c, d)
  PROVE  CountsPlans(d)
BY DEF CountsPlans, KeepsCounter, CounterFields

\* The text of a command: nothing to write, or one that keeps what c had.
Edit(c, d) == d # NoWrite => IsText(d) /\ CountsPlans(d) /\ KeepsStatus(c, d)

\* Replacing a field that is no counter.
LEMMA ReplaceOther ==
  ASSUME NEW c, IsText(c), CountsPlans(c), NEW f, f \notin CounterFields, NEW v, Fits(f, v)
  PROVE  Edit(c, stateReplaceField(c, f, v))
BY ReplaceEffect, CountersKept DEF Edit, KeepsCounter

\* c with other fields.
WithFields(c, lines) == [c EXCEPT !.field = lines]

\* d is c but for the fields.
SameRest(c, d) ==
  /\ d.front = c.front /\ d.bold = c.bold /\ d.position = c.position
  /\ d.decisions = c.decisions /\ d.blockers = c.blockers /\ d.metrics = c.metrics
  /\ d = [front |-> d.front, bold |-> d.bold, field |-> d.field, position |-> d.position,
          decisions |-> d.decisions, blockers |-> d.blockers, metrics |-> d.metrics]

\* Other fields leave the rest as it was.
LEMMA Rewritten ==
  ASSUME NEW c, IsText(c), NEW lines
  PROVE  SameRest(c, WithFields(c, lines)) /\ WithFields(c, lines).field = lines
BY DEF IsText, SameRest, WithFields

\* state patch, and with it state update.
LEMMA PatchEdits ==
  ASSUME NEW c, IsText(c), CountsPlans(c),
         NEW fields \in SUBSET {"Status", "Stopped At"}, NEW v, Fits("Status", v)
  PROVE  Edit(c, cmdStatePatch(c, fields, v))
<1> DEFINE shadow == Shadowed(c, "Status") /\ "Status" \in fields
           d1 == IF shadow THEN [c EXCEPT !.front.status = v] ELSE c
           lines == [f \in DOMAIN c.field |->
                       IF f \in fields /\ ~Shadowed(c, f) THEN v ELSE c.field[f]]
           d == WithFields(d1, lines)
<1>1. IsText(d1) /\ d1.field = c.field /\ KeepsStatus(c, d1)
  <2>1. CASE shadow
    <3> DEFINE e == Restated(c, v)
    <3>1. c.front # None /\ d1 = e
      BY <2>1 DEF Shadowed, Derived, Restated
    <3> HIDE DEF d1
    <3>2. IsText(e) /\ Derived(e) /\ e.front.status = v /\ e.field = c.field
      BY <3>1, FrontEffect, ZenonT(60)
    <3> HIDE DEF e
    <3>3. QED
      BY <3>1, <3>2 DEF KeepsStatus, Derived, Fits, StatusLines
  <2>2. CASE ~shadow
    BY <2>2 DEF KeepsStatus, Derived
  <2>3. QED
    BY <2>1, <2>2
<1>2. cmdStatePatch(c, fields, v) = NoWrite \/ cmdStatePatch(c, fields, v) = d
  <2>1. [c EXCEPT !.front = IF shadow THEN [@ EXCEPT !.status = v] ELSE @, !.field = lines] = d
    BY DEF IsText, WithFields
  <2>2. QED
    BY <2>1 DEF cmdStatePatch
<1> HIDE DEF d1
<1>3. /\ IsText(d) /\ d.front = d1.front /\ d.field = lines
  <2>0. d = WithFields(d1, lines)
    OBVIOUS
  <2> HIDE DEF lines, d
  <2>1. SameRest(d1, d) /\ d.field = lines
    BY <1>1, <2>0, Rewritten
  <2>2. /\ DOMAIN lines = DOMAIN c.field
        /\ \A f \in DOMAIN c.field : lines[f] = v \/ lines[f] = c.field[f]
        /\ \A f \in DOMAIN c.field : f \notin fields => lines[f] = c.field[f]
        /\ lines = [f \in DOMAIN lines |-> lines[f]]
    BY DEF lines
  <2> HIDE DEF d
  <2>3. IsText(d)
    BY <1>1, <2>1, <2>2 DEF IsText, Has, Fits, SameRest
  <2>4. QED
    BY <2>1, <2>3 DEF SameRest
<1> HIDE DEF d
<1>4. KeepsStatus(c, d) /\ KeepsCounter(c, d)
  BY <1>1, <1>3 DEF KeepsStatus, Derived, KeepsCounter, CounterFields, Has
<1>5. QED
  BY <1>2, <1>3, <1>4, CountersKept DEF Edit

\* The commands that edit one section.
LEMMA SectionEdits ==
  ASSUME NEW c, IsText(c), CountsPlans(c), NEW note
  PROVE  /\ Edit(c, cmdStateRecordMetric(c))
         /\ Edit(c, cmdStateAddDecision(c, note))
         /\ Edit(c, cmdStateAddBlocker(c, note))
         /\ Edit(c, cmdStateResolveBlocker(c, note))
<1>1. ASSUME NEW d, d.front = c.front, d.field = c.field, IsText(d) PROVE Edit(c, d)
  BY <1>1, CountersKept DEF Edit, KeepsStatus, Derived, KeepsCounter, Has
<1>2. \A v : LET d == [c EXCEPT !.metrics = v]
             IN  d.front = c.front /\ d.field = c.field /\ IsText(d)
  BY DEF IsText, Has
<1>3. \A v : LET d == [c EXCEPT !.decisions = v]
             IN  d.front = c.front /\ d.field = c.field /\ IsText(d)
  BY DEF IsText, Has
<1>4. \A v : LET d == [c EXCEPT !.blockers = v]
             IN  d.front = c.front /\ d.field = c.field /\ IsText(d)
  BY DEF IsText, Has
<1>5. Edit(c, cmdStateRecordMetric(c))
  BY <1>1, <1>2 DEF cmdStateRecordMetric, Edit
<1>6. Edit(c, cmdStateAddDecision(c, note))
  BY <1>1, <1>3 DEF cmdStateAddDecision, Edit
<1>7. Edit(c, cmdStateAddBlocker(c, note)) /\ Edit(c, cmdStateResolveBlocker(c, note))
  BY <1>1, <1>4 DEF cmdStateAddBlocker, cmdStateResolveBlocker, Edit
<1>8. QED
  BY <1>5, <1>6, <1>7

\* Progress is a number.
LEMMA PercentType ==
  ASSUME NEW counts \in [plans : Nat, summaries : Nat]
  PROVE  Percent(counts) \in Int
<1>1. CASE counts.plans = 0
  BY <1>1 DEF Percent
<1>2. CASE counts.plans # 0
  <2>1. 200 * counts.summaries + counts.plans \in Nat /\ 2 * counts.plans \in Nat \ {0}
    BY <1>2
  <2> DEFINE q == (200 * counts.summaries + counts.plans) \div (2 * counts.plans)
  <2>2. q \in Int
    BY <2>1
  <2>3. QED
    BY <1>2, <2>2 DEF Percent
<1>3. QED
  BY <1>1, <1>2

\* state update-progress and state record-session.
LEMMA FieldEdits ==
  ASSUME NEW c, IsText(c), CountsPlans(c)
  PROVE  /\ \A n \in Counts : Edit(c, cmdStateUpdateProgress(c, n))
         /\ \A v : Edit(c, cmdStateRecordSession(c, v))
<1>1. ASSUME NEW n \in Counts PROVE Edit(c, cmdStateUpdateProgress(c, n))
  <2>1. Fits("Progress", Percent(n)) /\ "Progress" \notin CounterFields
    BY PercentType, CountsAssumption DEF Fits, CounterFields
  <2>2. QED
    BY <2>1, ReplaceOther DEF cmdStateUpdateProgress, Edit
<1>2. ASSUME NEW v PROVE Edit(c, cmdStateRecordSession(c, v))
  <2>1. Fits("Stopped At", v) /\ "Stopped At" \notin CounterFields
    BY DEF Fits, CounterFields, StatusLines
  <2>2. QED
    BY <2>1, ReplaceOther DEF cmdStateRecordSession, Edit
<1>3. QED
  BY <1>1, <1>2

\* A Current Position line.
LEMMA LineEffect ==
  ASSUME NEW c, IsText(c), NEW f, NEW v, Fits(f, v)
  PROVE  LET d == SetLine(c, f, v) IN
         /\ IsText(d) /\ d.front = c.front /\ d.bold = c.bold /\ d.position = c.position
         /\ \A g : /\ Has(d, g) <=> Has(c, g)
                   /\ Has(c, g) => d.field[g] = c.field[g] \/ (g = f /\ d.field[g] = v)
<1>1. CASE SetLine(c, f, v) = c
  BY <1>1
<1>2. CASE SetLine(c, f, v) # c
  <2>1. SetLine(c, f, v) = Set(c, f, v) /\ Has(c, f)
    BY <1>2 DEF SetLine
  <2> DEFINE d == Set(c, f, v)
  <2>2. /\ IsText(d) /\ d.front = c.front /\ d.bold = c.bold /\ d.position = c.position
        /\ d.field = [g \in DOMAIN c.field \cup {f} |-> IF g = f THEN v ELSE c.field[g]]
    BY SetEffect
  <2> HIDE DEF d
  <2>3. QED
    BY <2>1, <2>2 DEF Has, d
<1>3. QED
  BY <1>1, <1>2

\* d is c with v for f, if the Current Position section has that line.
Lined(c, d, f, v) ==
  /\ d.front = c.front
  /\ \A g : /\ Has(d, g) <=> Has(c, g)
            /\ Has(c, g) => d.field[g] = c.field[g] \/ (g = f /\ d.field[g] = v)

\* The same, for a text that has a name.
LEMMA LineChanges ==
  ASSUME NEW c, IsText(c), NEW f, NEW v, Fits(f, v), NEW d, d = SetLine(c, f, v)
  PROVE  IsText(d) /\ Lined(c, d, f, v)
BY LineEffect DEF Lined

\* Any status line, in the whole text and then in the Current Position section.
LEMMA StatusEdit ==
  ASSUME NEW c, IsText(c), NEW v, Fits("Status", v)
  PROVE  LET d == SetLine(stateReplaceField(c, "Status", v), "Status", v) IN
         IsText(d) /\ KeepsStatus(c, d) /\ KeepsCounter(c, d)
<1> DEFINE d == stateReplaceField(c, "Status", v)
<1>1. "Status" \notin CounterFields
  BY DEF CounterFields
<1>2. IsText(d) /\ KeepsStatus(c, d) /\ KeepsCounter(c, d)
  BY <1>1, ReplaceEffect DEF KeepsCounter
<1> HIDE DEF d
<1> DEFINE l == SetLine(d, "Status", v)
<1>3. IsText(l) /\ l.front = d.front /\ KeepsCounter(d, l)
  BY <1>1, <1>2, LineEffect DEF KeepsCounter
<1> HIDE DEF l
<1>4. KeepsStatus(c, l) /\ KeepsCounter(c, l)
  BY <1>2, <1>3 DEF KeepsStatus, Derived, KeepsCounter
<1>5. QED
  BY <1>3, <1>4 DEF d, l

\* The counter of the next plan counts as long as there is a next plan.
LEMMA NextPlan ==
  ASSUME NEW k, k = [cur |-> k.cur, all |-> k.all],
         k.cur \in Positive, k.all \in Positive, k.cur < k.all
  PROVE  LET n == [k EXCEPT !.cur = @ + 1] IN
         /\ n \in Counter /\ n # None
         /\ n.cur \in Positive /\ n.all = k.all /\ n.cur <= n.all
<1>1. PICK i \in Nat, j \in Nat : i = k.cur /\ j = k.all /\ i > 0 /\ i < j
  BY DEF Positive
<1>2. [k EXCEPT !.cur = @ + 1] = [cur |-> i + 1, all |-> j]
  BY <1>1
<1>3. i + 1 \in Positive /\ i + 1 <= j /\ j \in Positive
  BY <1>1 DEF Positive
<1> DEFINE n == [cur |-> i + 1, all |-> j]
<1>4. n \in Counter /\ n.cur \in Positive /\ n.all = k.all /\ n.cur <= n.all
  BY <1>1, <1>3 DEF Counter
<1>5. n # None
  BY <1>4, NoneAssumption
<1> HIDE DEF n
<1>6. QED
  BY <1>2, <1>4, <1>5 DEF n

\* The next plan, in whichever form the text has, up to the last one.
LEMMA AdvanceEdits ==
  ASSUME NEW c, IsText(c), CountsPlans(c)
  PROVE  Edit(c, cmdStateAdvancePlan(c))
<1> DEFINE k == PlanCounter(c)
<1>1. SUFFICES ASSUME k.cur # None, k.all # None
               PROVE  Edit(c, cmdStateAdvancePlan(c))
  BY DEF cmdStateAdvancePlan, Edit
<1>2. /\ k.cur \in Positive /\ k.all \in Positive /\ k.cur <= k.all
      /\ k = [cur |-> k.cur, all |-> k.all]
      /\ Legacy(c) => k.cur = c.field["Current Plan"] /\ k.all = c.field["Total Plans in Phase"]
  <2>1. CASE Legacy(c)
    BY <1>1, <2>1 DEF PlanCounter, Legacy, CountsPlans, Counting, Counter
  <2>2. CASE ~Legacy(c) /\ Has(c, "Plan")
    BY <1>1, <2>2 DEF PlanCounter, CountsPlans, Counting, Counter
  <2>3. CASE ~Legacy(c) /\ ~Has(c, "Plan")
    BY <1>1, <2>3 DEF PlanCounter
  <2>4. QED
    BY <2>1, <2>2, <2>3
<1> HIDE DEF k
<1>0. k.cur \in Nat /\ k.all \in Nat
  BY ONLY <1>2 DEF Positive
<1>3. ASSUME NEW e, IsText(e), CountsPlans(e), KeepsStatus(c, e)
      PROVE  Edit(c, updateCurrentPositionFields(
                       stateReplaceField(e, "Status", "Ready for verification"),
                       "Ready for verification", None))
  <2> DEFINE status == "Ready for verification"
             l == SetLine(stateReplaceField(e, "Status", status), "Status", status)
  <2>1. Fits("Status", status)
    BY DEF Fits, StatusLines
  <2>2. IsText(l) /\ KeepsStatus(e, l) /\ KeepsCounter(e, l)
    BY <1>3, <2>1, StatusEdit
  <2> HIDE DEF l
  <2>3. CountsPlans(l) /\ KeepsStatus(c, l)
    BY <1>3, <2>2, CountersKept DEF KeepsStatus, Derived
  <2>4. QED
    BY <2>2, <2>3 DEF Edit, updateCurrentPositionFields, l
<1>4. ASSUME k.cur < k.all
      PROVE  Edit(c, AdvanceTo(c, "Ready to execute", [k EXCEPT !.cur = @ + 1]))
  <2> DEFINE status == "Ready to execute"
             n == [k EXCEPT !.cur = @ + 1]
  <2>1. /\ n \in Counter /\ n # None
        /\ n.cur \in Positive /\ n.all = k.all /\ n.cur <= n.all
    BY <1>2, <1>4, NextPlan
  <2>2. /\ Fits("Status", status) /\ Fits("Plan", n) /\ Fits("Current Plan", n.cur)
    BY DEF Fits, StatusLines
  <2> HIDE DEF n
  <2> DEFINE e == IF Legacy(c) THEN stateReplaceField(c, "Current Plan", n.cur)
                  ELSE stateReplaceField(c, "Plan", n)
  <2>3. /\ IsText(e) /\ KeepsStatus(c, e)
        /\ \A g \in CounterFields :
             /\ Has(e, g) <=> Has(c, g)
             /\ Has(c, g) => e.field[g] = IF Legacy(c) /\ g = "Current Plan" THEN n.cur
                                          ELSE IF ~Legacy(c) /\ g = "Plan" THEN n
                                          ELSE c.field[g]
    <3>1. CASE Legacy(c)
      <4>1. e = stateReplaceField(c, "Current Plan", n.cur)
        BY <3>1
      <4> HIDE DEF e
      <4>2. Replaced(c, e, "Current Plan", n.cur)
        BY <2>2, <4>1, ReplaceCounter
      <4>3. QED
        BY <3>1, <4>2 DEF Replaced
    <3>2. CASE ~Legacy(c)
      <4>1. e = stateReplaceField(c, "Plan", n)
        BY <3>2
      <4> HIDE DEF e
      <4>2. Replaced(c, e, "Plan", n)
        BY <2>2, <4>1, ReplaceCounter
      <4>3. QED
        BY <3>2, <4>2 DEF Replaced
    <3>3. QED
      BY <3>1, <3>2
  <2> HIDE DEF e
  <2> DEFINE l == SetLine(stateReplaceField(e, "Status", status), "Status", status)
  <2>4. IsText(l) /\ KeepsStatus(e, l) /\ KeepsCounter(e, l)
    BY <2>2, <2>3, StatusEdit
  <2> HIDE DEF l
  <2> DEFINE m == SetLine(l, "Plan", n)
  <2>5. /\ IsText(m) /\ m.front = l.front
        /\ \A g : /\ Has(m, g) <=> Has(l, g)
                  /\ Has(l, g) => m.field[g] = l.field[g] \/ (g = "Plan" /\ m.field[g] = n)
    <3>1. m = SetLine(l, "Plan", n)
      OBVIOUS
    <3> HIDE DEF m
    <3>2. IsText(m) /\ Lined(l, m, "Plan", n)
      BY <2>2, <2>4, <3>1, LineChanges
    <3>3. QED
      BY <3>2 DEF Lined
  <2> HIDE DEF m
  <2>6. KeepsStatus(c, m)
    BY <2>3, <2>4, <2>5 DEF KeepsStatus, Derived
  <2>7. CountsPlans(m)
    <3>1. \A g \in CounterFields :
            /\ Has(m, g) <=> Has(c, g)
            /\ Has(c, g) => \/ g = "Plan" /\ m.field[g] = n
                            \/ m.field[g] = e.field[g]
      BY <2>3, <2>4, <2>5 DEF KeepsCounter
    <3>2. CASE Legacy(c)
      BY <1>2, <2>1, <2>3, <3>1, <3>2 DEF CountsPlans, Counting, CounterFields, Legacy
    <3>3. CASE ~Legacy(c)
      BY <2>1, <2>3, <3>1, <3>3 DEF CountsPlans, Counting, CounterFields, Legacy
    <3>4. QED
      BY <3>2, <3>3
  <2>8. AdvanceTo(c, status, n) = m
    BY <2>1 DEF AdvanceTo, updateCurrentPositionFields, e, l, m
  <2>9. QED
    BY <2>5, <2>6, <2>7, <2>8 DEF Edit, n
<1>5. CASE k.cur >= k.all
  <2>1. AdvanceTo(c, "Ready for verification", None)
          = updateCurrentPositionFields(stateReplaceField(c, "Status", "Ready for verification"),
                                        "Ready for verification", None)
    BY DEF AdvanceTo
  <2>2. Edit(c, AdvanceTo(c, "Ready for verification", None))
    BY <1>3, <2>1 DEF KeepsStatus, Derived
  <2>3. QED
    BY <1>1, <1>5, <2>2 DEF cmdStateAdvancePlan, k
<1>6. CASE k.cur < k.all
  <2>1. ~(k.cur >= k.all)
    BY <1>0, <1>6
  <2>2. cmdStateAdvancePlan(c) = AdvanceTo(c, "Ready to execute", [k EXCEPT !.cur = @ + 1])
    BY <1>1, <2>1 DEF cmdStateAdvancePlan, k
  <2>3. QED
    BY <1>4, <1>6, <2>2
<1>7. QED
  BY <1>0, <1>5, <1>6

\* d is c with v for f, added if need be.
Assigned(c, d, f, v) ==
  /\ d.front = c.front
  /\ \A g : /\ Has(d, g) <=> (Has(c, g) \/ g = f)
            /\ Has(d, g) => d.field[g] = IF g = f THEN v ELSE c.field[g]

\* Set, as an assignment.
LEMMA SetAssigns ==
  ASSUME NEW c, IsText(c), NEW f, NEW v, Fits(f, v), NEW d, d = Set(c, f, v)
  PROVE  Assigned(c, d, f, v) /\ IsText(d)
<1>1. /\ IsText(d) /\ d.front = c.front
      /\ d.field = [g \in DOMAIN c.field \cup {f} |-> IF g = f THEN v ELSE c.field[g]]
  BY SetEffect
<1>2. QED
  BY <1>1 DEF Assigned, Has

\* A line of Current Position that is no counter.
LEMMA LineKeeps ==
  ASSUME NEW c, IsText(c), NEW f, f \notin CounterFields, NEW v, Fits(f, v),
         NEW d, d = SetLine(c, f, v)
  PROVE  IsText(d) /\ d.front = c.front /\ KeepsCounter(c, d)
BY LineEffect DEF KeepsCounter

\* The first plan is in every phase.
LEMMA FirstPlan == 1 \in Positive /\ \A v \in Positive : 1 <= v
BY DEF Positive

\* A new phase starts at its first plan, in both forms.
LEMMA BeginPhaseEdits ==
  ASSUME NEW c, IsText(c), CountsPlans(c), NEW phase,
         NEW n, n = None \/ n \in Positive
  PROVE  Edit(c, cmdStateBeginPhase(c, phase, n))
<1>1. PICK d1 : d1 = stateReplaceField(c, "Status", "Executing")
  OBVIOUS
<1>2. PICK d2 : d2 = stateReplaceField(d1, "Current Phase", phase)
  OBVIOUS
<1>3. PICK d3 : d3 = stateReplaceField(d2, "Current Plan", 1)
  OBVIOUS
<1>4. PICK d4 : d4 = IF n = None THEN d3 ELSE stateReplaceField(d3, "Total Plans in Phase", n)
  OBVIOUS
<1>5. PICK k : k = [cur |-> 1, all |-> n]
  OBVIOUS
<1>6. PICK d5 : d5 = Set(d4, "Phase", phase)
  OBVIOUS
<1>7. PICK d6 : d6 = Set(d5, "Plan", k)
  OBVIOUS
<1>8. PICK d7 : d7 = SetLine(d6, "Status", "Executing")
  OBVIOUS
<1>9. cmdStateBeginPhase(c, phase, n) \in {NoWrite, d4, d7}
  BY <1>1, <1>2, <1>3, <1>4, <1>5, <1>6, <1>7, <1>8 DEF cmdStateBeginPhase
<1>10. /\ Fits("Status", "Executing") /\ Fits("Current Phase", phase) /\ Fits("Current Plan", 1)
       /\ Fits("Total Plans in Phase", n) /\ Fits("Phase", phase) /\ Fits("Plan", k)
       /\ CounterFields \cap {"Status", "Current Phase", "Phase"} = {}
  BY DEF Fits, StatusLines, CounterFields
<1>11. Replaced(c, d1, "Status", "Executing") /\ IsText(d1)
  BY <1>1, <1>10, ReplaceCounter
<1>12. Replaced(d1, d2, "Current Phase", phase) /\ IsText(d2)
  BY <1>2, <1>10, <1>11, ReplaceCounter
<1>13. Replaced(d2, d3, "Current Plan", 1) /\ IsText(d3)
  BY <1>3, <1>10, <1>12, ReplaceCounter
<1>14. /\ IsText(d4) /\ KeepsStatus(d3, d4)
       /\ \A g \in CounterFields :
            /\ Has(d4, g) <=> Has(d3, g)
            /\ Has(d3, g) => \/ g = "Total Plans in Phase" /\ n # None /\ d4.field[g] = n
                             \/ d4.field[g] = d3.field[g]
  <2>1. CASE n = None
    BY <1>4, <1>13, <2>1 DEF Replaced, KeepsStatus, Derived
  <2>2. CASE n # None
    <3>1. d4 = stateReplaceField(d3, "Total Plans in Phase", n)
      BY <1>4, <2>2
    <3>2. Replaced(d3, d4, "Total Plans in Phase", n) /\ IsText(d4)
      BY <1>10, <1>13, <3>1, ReplaceCounter
    <3>3. QED
      BY <2>2, <3>2 DEF Replaced
  <2>3. QED
    BY <2>1, <2>2
<1>15. KeepsStatus(c, d4)
  BY <1>11, <1>12, <1>13, <1>14 DEF Replaced, KeepsStatus, Derived
<1>16. \A g \in CounterFields :
         /\ Has(d4, g) <=> Has(c, g)
         /\ Has(c, g) => \/ g = "Current Plan" /\ d4.field[g] = 1
                         \/ g = "Total Plans in Phase" /\ n # None /\ d4.field[g] = n
                         \/ g # "Current Plan" /\ d4.field[g] = c.field[g]
  BY <1>10, <1>11, <1>12, <1>13, <1>14 DEF Replaced
<1>17. CountsPlans(d4)
  <2>1. \A g \in {"Current Plan", "Total Plans in Phase"} :
          Has(d4, g) => d4.field[g] \in Positive \cup {None}
    BY <1>16, FirstPlan DEF CountsPlans, CounterFields
  <2>2. Has(d4, "Current Plan") => d4.field["Current Plan"] = 1
    BY <1>16 DEF CounterFields
  <2>3. Has(d4, "Total Plans in Phase") => Counting(1, d4.field["Total Plans in Phase"])
    BY <2>1, FirstPlan DEF Counting
  <2>4. Has(d4, "Plan") => Has(c, "Plan") /\ d4.field["Plan"] = c.field["Plan"]
    BY <1>16 DEF CounterFields
  <2>5. QED
    BY <2>1, <2>2, <2>3, <2>4 DEF CountsPlans
<1>18. k \in Counter /\ Counting(k.cur, k.all)
  BY <1>5, FirstPlan DEF Counter, Counting
<1>19. Assigned(d4, d5, "Phase", phase) /\ IsText(d5)
  BY <1>6, <1>10, <1>14, SetAssigns
<1>20. Assigned(d5, d6, "Plan", k) /\ IsText(d6)
  BY <1>7, <1>10, <1>19, SetAssigns
<1>21. /\ IsText(d7) /\ d7.front = d6.front /\ KeepsCounter(d6, d7)
  BY <1>8, <1>10, <1>20, LineKeeps, ZenonT(60)
<1>22. CountsPlans(d6)
  <2>1. \A g \in {"Current Plan", "Total Plans in Phase"} :
          /\ Has(d6, g) <=> Has(d4, g)
          /\ Has(d4, g) => d6.field[g] = d4.field[g]
    BY <1>19, <1>20 DEF Assigned
  <2>2. Has(d6, "Plan") /\ d6.field["Plan"] = k
    BY <1>20 DEF Assigned
  <2>3. QED
    BY <1>17, <1>18, <2>1, <2>2 DEF CountsPlans
<1>23. CountsPlans(d7) /\ KeepsStatus(c, d7)
  BY <1>15, <1>19, <1>20, <1>21, <1>22, CountersKept DEF KeepsStatus, Derived, Assigned
<1>24. QED
  BY <1>9, <1>14, <1>15, <1>17, <1>21, <1>23 DEF Edit

(***************************************************************************)
(* What every text is.                                                     *)
(***************************************************************************)
Good(c) == IsText(c) /\ CountsPlans(c)

\* The file between truncation and write.
LEMMA EmptyIsGood == Good(EmptyFile)
<1>1. EmptyFile.front = None /\ DOMAIN EmptyFile.field = {}
  BY DEF EmptyFile
<1>2. \A f : ~Has(EmptyFile, f)
  BY <1>1 DEF Has
<1>3. IsText(EmptyFile)
  <2>1. EmptyFile.field = [f \in DOMAIN EmptyFile.field |-> EmptyFile.field[f]]
    BY DEF EmptyFile
  <2>2. QED
    BY <1>1, <1>2, <2>1 DEF IsText, EmptyFile
<1>4. QED
  BY <1>2, <1>3 DEF Good, CountsPlans

\* Front matter is derived from a good text, and a status is kept.
LEMMA SyncGood ==
  ASSUME NEW c, Good(c)
  PROVE  /\ Good(syncStateFrontmatter(c)) /\ Derived(syncStateFrontmatter(c))
         /\ KeepsStatus(c, syncStateFrontmatter(c))
<1> DEFINE b == buildStateFrontmatter(c)
           d == syncStateFrontmatter(c)
<1>1. /\ b \in FrontMatter /\ b.status \in StatusWords
      /\ b.status = "unknown" => ~Has(c, "Status")
  BY DEF buildStateFrontmatter, Good, IsText, FrontMatter, StatusWords, StatusLines, Normal
<1>2. /\ d.field = c.field /\ d.bold = c.bold /\ d.position = c.position
      /\ d.decisions = c.decisions /\ d.blockers = c.blockers /\ d.metrics = c.metrics
      /\ d = [front |-> d.front, bold |-> d.bold, field |-> d.field, position |-> d.position,
              decisions |-> d.decisions, blockers |-> d.blockers, metrics |-> d.metrics]
      /\ d.front = IF b.status = "unknown" /\ Derived(c)
                   THEN [b EXCEPT !.status = c.front.status] ELSE b
  BY DEF syncStateFrontmatter
<1> HIDE DEF b, d
<1>3. d.front \in FrontMatter
  <2>1. CASE b.status = "unknown" /\ Derived(c)
    BY <1>1, <1>2, <2>1 DEF FrontMatter, StatusWords, Good, IsText, Derived
  <2>2. CASE ~(b.status = "unknown" /\ Derived(c))
    BY <1>1, <1>2, <2>2
  <2>3. QED
    BY <2>1, <2>2
<1>4. Good(d)
  BY <1>2, <1>3 DEF Good, IsText, CountsPlans, Has
<1>5. Derived(d)
  <2>1. d.front # None
    BY <1>3, NoneAssumption
  <2>2. d.front.status # None
    BY <1>1, <1>2, NoneAssumption DEF Derived, FrontMatter, StatusWords
  <2> QED BY <2>1, <2>2 DEF Derived
<1>6. Derived(c) /\ c.front.status # "unknown" => d.front.status # "unknown"
  BY <1>1, <1>2 DEF FrontMatter, StatusWords
<1>7. QED
  BY <1>4, <1>5, <1>6 DEF KeepsStatus, Derived, d

\* Every command writes what is derived from an edit of the file it read.
LEMMA CommandIssues ==
  ASSUME Good(file), NEW p \in Procs, Command(p)
  PROVE  \E c, n : Edit(file, c) /\ Issue(p, c, n)
<1> USE DEF Good
<1>1. CASE PatchOrUpdate(p)
  <2>1. Fits("Status", "Paused at a plan")
    BY DEF Fits, StatusLines
  <2>2. \A fields \in SUBSET {"Status", "Stopped At"} :
          Edit(file, cmdStatePatch(file, fields, "Paused at a plan"))
    BY <2>1, PatchEdits
  <2>3. \A f \in {"Status", "Stopped At"} :
          Edit(file, cmdStateUpdate(file, f, "Paused at a plan"))
    BY <2>2 DEF cmdStateUpdate
  <2>4. QED
    BY <1>1, <2>2, <2>3 DEF PatchOrUpdate
<1>2. CASE AdvancePlan(p)
  BY <1>2, AdvanceEdits DEF AdvancePlan
<1>3. CASE RecordMetric(p) \/ AddDecision(p) \/ AddBlocker(p) \/ ResolveBlocker(p)
  BY <1>3, SectionEdits DEF RecordMetric, AddDecision, AddBlocker, ResolveBlocker
<1>4. CASE UpdateProgress(p) \/ RecordSession(p)
  BY <1>4, FieldEdits DEF UpdateProgress, RecordSession
<1>5. CASE BeginPhase(p)
  <2>1. \A n \in (1 .. MaxPlans) \cup {None} : n = None \/ n \in Positive
    BY CountsAssumption DEF Positive
  <2>2. \A n \in (1 .. MaxPlans) \cup {None} : Edit(file, cmdStateBeginPhase(file, 2, n))
    BY <2>1, BeginPhaseEdits
  <2>3. QED
    BY <1>5, <2>2 DEF BeginPhase
<1>6. QED
  BY <1>1, <1>2, <1>3, <1>4, <1>5 DEF Command

AllGood == Good(file) /\ \A p \in Procs : Good(pend[p])

\* What an issued command is about to write.
LEMMA IssueGood ==
  ASSUME Shape, AllGood, NEW p \in Procs, NEW c, NEW n, Edit(file, c), Issue(p, c, n)
  PROVE  /\ file' = file
         /\ \/ UNCHANGED << pc, pend >>
            \/ /\ pc' = [pc EXCEPT ![p] = "locking"]
               /\ pend' = [pend EXCEPT ![p] = syncStateFrontmatter(c)]
               /\ Good(syncStateFrontmatter(c))
               /\ KeepsStatus(file, c) /\ KeepsStatus(c, syncStateFrontmatter(c))
<1>1. CASE c = NoWrite
  BY <1>1 DEF Issue
<1>2. CASE c # NoWrite
  <2>1. Good(c) /\ KeepsStatus(file, c)
    BY <1>2 DEF Edit, Good
  <2>2. QED
    BY <1>2, <2>1, SyncGood DEF Issue
<1>3. QED
  BY <1>1, <1>2

\* What is on disk, and what a process is about to write.
LEMMA AllGoodInvariant == Spec => []AllGood
<1>1. Init => AllGood
  BY EmptyIsGood, InitFilesAssumption DEF Init, AllGood, Good
<1>2. Shape /\ AllGood /\ [Next]_vars => AllGood'
  <2> SUFFICES ASSUME Shape, AllGood, [Next]_vars PROVE AllGood'
    OBVIOUS
  <2>1. ASSUME NEW p \in Procs, Command(p) PROVE AllGood'
    <3>1. PICK c, n : Edit(file, c) /\ Issue(p, c, n)
      BY <2>1, CommandIssues DEF AllGood
    <3>2. QED
      BY <3>1, IssueGood DEF AllGood, Shape, Texts
  <2>2. ASSUME NEW p \in Procs, Continue(p) PROVE AllGood'
    <3>1. CASE Acquire(p) \/ Refused(p) \/ Retry(p) \/ CannotLock(p) \/ ClearStale(p) \/ GiveUp(p)
      BY <3>1 DEF Acquire, Refused, Retry, CannotLock, ClearStale, GiveUp, AllGood
    <3>2. CASE Truncate(p)
      BY <3>2, EmptyIsGood DEF Truncate, AllGood
    <3>3. CASE Write(p)
      BY <3>3 DEF Write, AllGood
    <3>4. CASE Unlock(p)
      BY <3>4, EmptyIsGood DEF Unlock, Exit, AllGood, Shape, Texts
    <3> QED BY <2>2, <3>1, <3>2, <3>3, <3>4 DEF Continue
  <2>3. ASSUME NEW p \in Procs, Crash(p) PROVE AllGood'
    BY <2>3, EmptyIsGood DEF Crash, Exit, AllGood, Shape, Texts
  <2>4. CASE UNCHANGED vars
    BY <2>4 DEF vars, AllGood
  <2> QED BY <2>1, <2>2, <2>3, <2>4 DEF Next
<1> QED BY <1>1, <1>2, ShapeInvariant, PTL DEF Spec

(***************************************************************************)
(* One consistent text on disk.                                            *)
(***************************************************************************)
LEMMA AllMirrorInvariant == Spec => []AllMirror
<1>1. Init => AllMirror
  BY DEF Init, AllMirror
<1>2. Shape /\ AllGood /\ AllMirror /\ [Next]_vars => AllMirror'
  <2> SUFFICES ASSUME Shape, AllGood, AllMirror, [Next]_vars PROVE AllMirror'
    OBVIOUS
  <2> USE DEF Shape, Texts, AllMirror
  <2>2. ASSUME NEW p \in Procs, Command(p) PROVE AllMirror'
    <3>1. PICK c, n : Edit(file, c) /\ Issue(p, c, n)
      BY <2>2, CommandIssues DEF AllGood
    <3>2. CASE c = NoWrite
      BY <3>1, <3>2 DEF Issue
    <3>3. CASE c # NoWrite
      <4>1. /\ file' = file
            /\ pend' = [pend EXCEPT ![p] = syncStateFrontmatter(c)]
        BY <3>1, <3>3 DEF Issue
      <4>2. Good(c)
        BY <3>1, <3>3 DEF Edit, AllGood, Good
      <4>3. Made(syncStateFrontmatter(c))
        BY <4>2, SyncGood, SyncedMirrors DEF Made
      <4> QED BY <4>1, <4>3
    <3> QED BY <3>2, <3>3
  <2>3. ASSUME NEW p \in Procs, Continue(p) PROVE AllMirror'
    <3>1. CASE Acquire(p) \/ Refused(p) \/ Retry(p) \/ CannotLock(p) \/ ClearStale(p) \/ GiveUp(p)
      BY <3>1 DEF Acquire, Refused, Retry, CannotLock, ClearStale, GiveUp
    <3>2. CASE Truncate(p)
      BY <3>2 DEF Truncate
    <3>3. CASE Write(p)
      BY <3>3 DEF Write
    <3>4. CASE Unlock(p)
      BY <3>4 DEF Unlock, Exit
    <3> QED BY <2>3, <3>1, <3>2, <3>3, <3>4 DEF Continue
  <2>4. ASSUME NEW p \in Procs, Crash(p) PROVE AllMirror'
    BY <2>4 DEF Crash, Exit
  <2>5. CASE UNCHANGED vars
    BY <2>5 DEF vars
  <2> QED BY <2>2, <2>3, <2>4, <2>5 DEF Next
<1> QED BY <1>1, <1>2, ShapeInvariant, AllGoodInvariant, PTL DEF Spec

\* The STATE.md on disk is the first one, empty or one consistent text, whatever
\* races, broken locks and crashes there were (state.cjs:765-834).
THEOREM Consistent == Spec => []FrontMirrorsBody
<1>1. AllMirror => FrontMirrorsBody
  BY DEF AllMirror, FrontMirrorsBody, Made
<1> QED BY <1>1, AllMirrorInvariant, PTL

\* The plan counter stays in the phase, whatever commands, races and crashes
\* there were (state.cjs:268-322, 862).
THEOREM PlansCounted == Spec => []PlanInPhase
<1>1. AllGood => PlanInPhase
  <2> SUFFICES ASSUME AllGood PROVE PlanInPhase
    OBVIOUS
  <2> DEFINE k == PlanCounter(file)
  <2>1. k.cur # None /\ k.all # None => k.cur \in Positive /\ k.all \in Positive /\ k.cur <= k.all
    <3>1. CASE Legacy(file)
      BY <3>1 DEF AllGood, Good, PlanCounter, Legacy, CountsPlans, Counting
    <3>2. CASE ~Legacy(file) /\ Has(file, "Plan")
      BY <3>2 DEF AllGood, Good, PlanCounter, CountsPlans, Counting, Counter
    <3>3. CASE ~Legacy(file) /\ ~Has(file, "Plan")
      BY <3>3 DEF PlanCounter
    <3>4. QED
      BY <3>1, <3>2, <3>3
  <2> HIDE DEF k
  <2>2. k.cur # None /\ k.all # None => k.cur \in 1 .. k.all
    BY <2>1 DEF Positive
  <2>3. QED
    BY <2>2 DEF PlanInPhase, k
<1> QED BY <1>1, AllGoodInvariant, PTL

\* No command forgets the status of the STATE.md it read (state.cjs:771-776).
THEOREM StatusKept == Spec => StatusSurvives
<1> DEFINE Kept == \A p \in Procs :
             /\ pc[p] = "idle" /\ pc'[p] = "locking"
             /\ Derived(file) /\ file.front.status # "unknown"
             => pend'[p].front.status # "unknown"
<1>1. Shape /\ AllGood /\ [Next]_vars => [Kept]_vars
  <2> SUFFICES ASSUME Shape, AllGood, Next PROVE Kept
    OBVIOUS
  <2>1. PICK p \in Procs : Command(p) \/ Continue(p) \/ Crash(p)
    BY DEF Next
  <2>2. CASE Command(p)
    <3>1. PICK c, n : Edit(file, c) /\ Issue(p, c, n)
      BY <2>2, CommandIssues DEF AllGood
    <3>2. CASE UNCHANGED << pc, pend >>
      BY <3>2
    <3>3. CASE /\ pc' = [pc EXCEPT ![p] = "locking"]
               /\ pend' = [pend EXCEPT ![p] = syncStateFrontmatter(c)]
               /\ KeepsStatus(file, c) /\ KeepsStatus(c, syncStateFrontmatter(c))
      <4>1. pend'[p] = syncStateFrontmatter(c)
        BY <3>3 DEF Shape, Texts
      <4>2. Derived(file) /\ file.front.status # "unknown"
            => pend'[p].front.status # "unknown"
        BY <3>3, <4>1 DEF KeepsStatus, Derived
      <4>3. \A q \in Procs : q # p => pc'[q] = pc[q]
        BY <3>3 DEF Shape
      <4>4. QED
        BY <4>2, <4>3
    <3>4. QED
      BY <3>1, <3>2, <3>3, IssueGood
  <2>3. CASE Continue(p)
    <3>1. \A q \in Procs : pc[q] = "idle" => pc'[q] # "locking"
      BY <2>3 DEF Continue, Acquire, Refused, Retry, ClearStale, GiveUp, CannotLock, Truncate,
            Write, Unlock, Exit, Shape
    <3>2. QED
      BY <3>1
  <2>4. CASE Crash(p)
    <3>1. \A q \in Procs : pc[q] = "idle" => pc'[q] # "locking"
      BY <2>4 DEF Crash, Exit, Shape
    <3>2. QED
      BY <3>1
  <2>5. QED
    BY <2>1, <2>2, <2>3, <2>4
<1> QED BY <1>1, ShapeInvariant, AllGoodInvariant, PTL DEF Spec, StatusSurvives

(***************************************************************************)
(* Types.                                                                  *)
(***************************************************************************)
\* A process that is still to try has a try left; a text is there as long as
\* the process is.
Types ==
  /\ tries \in [Procs -> 0 .. MaxTries]
  /\ \A p \in Procs : pc[p] \in {"idle", "locking", "refused"} => tries[p] < MaxTries
  /\ news \in [Procs -> Notes \cup {None}]
  /\ told \subseteq Notes

\* A command adds a decision of Notes, or none.
LEMMA CommandNews ==
  ASSUME NEW p \in Procs, Command(p)
  PROVE  /\ pc[p] = "idle"
         /\ UNCHANGED << tries, told >>
         /\ \E n \in Notes \cup {None} :
              \/ UNCHANGED << pc, news >>
              \/ /\ pc' = [pc EXCEPT ![p] = "locking"]
                 /\ news' = [news EXCEPT ![p] = n]
<1>1. ASSUME NEW c, NEW n \in Notes \cup {None}, Issue(p, c, n)
      PROVE  /\ pc[p] = "idle"
             /\ UNCHANGED << tries, told >>
             /\ \E m \in Notes \cup {None} :
                  \/ UNCHANGED << pc, news >>
                  \/ /\ pc' = [pc EXCEPT ![p] = "locking"]
                     /\ news' = [news EXCEPT ![p] = m]
  BY <1>1 DEF Issue
<1>2. \E c, n : n \in Notes \cup {None} /\ Issue(p, c, n)
  BY DEF Command, PatchOrUpdate, AdvancePlan, RecordMetric, UpdateProgress,
         AddDecision, AddBlocker, ResolveBlocker, RecordSession, BeginPhase
<1> QED BY <1>1, <1>2

LEMMA TypesInvariant == Spec => []Types
<1>1. Init => Types
  BY TriesAssumption DEF Init, Types
<1>2. Shape /\ Types /\ [Next]_vars => Types'
  <2> SUFFICES ASSUME Shape, Types, [Next]_vars PROVE Types'
    OBVIOUS
  <2> USE TriesAssumption DEF Shape, Types, Places, Inside
  <2>1. ASSUME NEW p \in Procs, Command(p) PROVE Types'
    <3>1. PICK n \in Notes \cup {None} :
            /\ pc[p] = "idle"
            /\ UNCHANGED << tries, told >>
            /\ \/ UNCHANGED << pc, news >>
               \/ /\ pc' = [pc EXCEPT ![p] = "locking"]
                  /\ news' = [news EXCEPT ![p] = n]
      BY <2>1, CommandNews
    <3> QED BY <3>1
  <2>2. ASSUME NEW p \in Procs, Continue(p) PROVE Types'
    <3>1. CASE Acquire(p) \/ Refused(p) \/ GiveUp(p) \/ CannotLock(p) \/ Truncate(p) \/ Write(p)
      BY <3>1 DEF Acquire, Refused, GiveUp, CannotLock, Truncate, Write
    <3>2. CASE Retry(p) \/ ClearStale(p)
      <4>1. tries[p] \in Nat /\ tries[p] < MaxTries /\ tries' = [tries EXCEPT ![p] = tries[p] + 1]
        BY <3>2 DEF Retry, ClearStale
      <4>2. tries[p] + 1 \in 0 .. MaxTries
        BY <4>1
      <4>3. tries' \in [Procs -> 0 .. MaxTries]
        BY <4>1, <4>2
      <4>4. \A q \in Procs : q # p => tries'[q] = tries[q] /\ pc'[q] = pc[q]
        BY <3>2, <4>1 DEF Retry, ClearStale
      <4>5. pc'[p] = "locking" => tries'[p] < MaxTries
        BY <3>2, <4>1 DEF Retry, ClearStale, LastTry
      <4>6. pc'[p] \in {"locking", "opening"} /\ UNCHANGED << news, told >>
        BY <3>2 DEF Retry, ClearStale
      <4> QED BY <4>3, <4>4, <4>5, <4>6
    <3>3. CASE Unlock(p)
      BY <3>3 DEF Unlock, Exit
    <3> QED BY <2>2, <3>1, <3>2, <3>3 DEF Continue
  <2>3. ASSUME NEW p \in Procs, Crash(p) PROVE Types'
    BY <2>3 DEF Crash, Exit
  <2>4. CASE UNCHANGED vars
    BY <2>4 DEF vars
  <2> QED BY <2>1, <2>2, <2>3, <2>4 DEF Next
<1> QED BY <1>1, <1>2, ShapeInvariant, PTL DEF Spec

\* Every variable holds what it is meant to, and nobody tries the lock more
\* often than allowed (state.cjs:789-825).
THEOREM TypeCorrect == Spec => []TypeOK
<1>1. Shape /\ Types => TypeOK
  BY DEF Shape, Types, TypeOK, Places, Inside
<1> QED BY <1>1, ShapeInvariant, TypesInvariant, PTL

(***************************************************************************)
(* The readers.                                                            *)
(***************************************************************************)
\* Normalising a status twice changes nothing.
LEMMA NormalTwice ==
  ASSUME NEW status \in StatusLines
  PROVE  Normal(Normal(status)) = Normal(status) /\ Normal(status) # "unknown"
BY DEF StatusLines, Normal

\* The two ways of reading a status agree on every good text whose front matter,
\* if it has any, has a status and mirrors its body.
LEMMA ReadersOfGood ==
  ASSUME NEW c, Good(c), Mirrors(c), c.front # None => Derived(c)
  PROVE  Normal(cmdStateSnapshot(c).status) = Normal(cmdStateJson(c).status)
<1> DEFINE s == cmdStateSnapshot(c).status
           j == cmdStateJson(c).status
<1>1. s = IF Found(c, "Status") THEN stateExtractField(c, "Status") ELSE "unknown"
  BY DEF cmdStateSnapshot
<1>2. Normal("unknown") = "unknown"
  BY DEF Normal
<1>3. Has(c, "Status") => c.field["Status"] \in StatusLines
  BY DEF Good, IsText
<1>4. CASE Shadowed(c, "Status")
  BY <1>1, <1>4 DEF Found, stateExtractField, cmdStateJson, Shadowed, Derived
<1>5. CASE ~Shadowed(c, "Status") /\ c.front # None
  <2>1. Has(c, "Status")
    BY <1>5 DEF Shadowed, Derived, Good, IsText, Has
  <2>2. s = c.field["Status"] /\ j = c.front.status
    BY <1>1, <1>5, <2>1 DEF Found, stateExtractField, cmdStateJson
  <2> HIDE DEF s, j
  <2>3. j = Normal(c.field["Status"])
    BY <1>3, <1>5, <2>1, <2>2, NormalTwice DEF Mirrors
  <2>4. Normal(s) = Normal(j)
    BY <1>3, <2>1, <2>2, <2>3, NormalTwice
  <2> QED BY <2>4 DEF s, j
<1>6. CASE c.front = None
  <2>1. ~Shadowed(c, "Status")
    BY <1>6 DEF Shadowed, Derived
  <2>2. j = IF Has(c, "Status") THEN Normal(c.field["Status"]) ELSE "unknown"
    BY <1>6 DEF cmdStateJson, buildStateFrontmatter
  <2>3. s = IF Has(c, "Status") THEN c.field["Status"] ELSE "unknown"
    BY <1>1, <2>1 DEF Found, stateExtractField
  <2> HIDE DEF s, j
  <2>4. Normal(s) = Normal(j)
    BY <1>2, <1>3, <2>2, <2>3, NormalTwice
  <2> QED BY <2>4 DEF s, j
<1> QED BY <1>4, <1>5, <1>6

\* state json and state snapshot report the same status, whatever raced over
\* the file, once its front matter has one (state.cjs:541, 836).
THEOREM ReadersTellTheSame == Spec => []ReadersAgree
<1>1. AllGood /\ AllMirror => ReadersAgree
  BY ReadersOfGood, InitFilesAssumption, EmptyMirrors DEF AllGood, AllMirror, Made, ReadersAgree
<1> QED BY <1>1, AllGoodInvariant, AllMirrorInvariant, PTL

=============================================================================
