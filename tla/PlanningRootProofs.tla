----------------------------- MODULE PlanningRootProofs -----------------------------
(***************************************************************************)
(* What holds of .planning/ as a whole: its types, what the config         *)
(* commands make of config.json, and that the marker brings no workstream  *)
(* back.                                                                   *)
(***************************************************************************)
EXTENDS WorkspaceProofs, SequenceTheorems

\* A file of any kind.
IsFile(c) == c = Absent \/ c = Torn \/ c = Json([k \in DOMAIN c.key |-> c.key[k]])
\* A file that parses.
IsJson(c) == c.kind = "json" /\ c = Json([k \in DOMAIN c.key |-> c.key[k]])

IsMap(f) == f = [k \in DOMAIN f |-> f[k]]

\* Writing keys gives a file with these keys.
LEMMA JsonIs ==
  ASSUME NEW f, IsMap(f), NEW c, c = Json(f)
  PROVE  IsJson(c) /\ c.key = f
BY DEF Json, IsJson, IsMap

\* The three kinds of file.
LEMMA KindIs ==
  /\ Absent.kind = "absent" /\ Torn.kind = "torn"
  /\ \A f : Json(f).kind = "json" /\ Json(f).key = f
BY DEF Absent, Torn, Json

\* Set changes one key.
LEMMA SetIs ==
  ASSUME NEW c, IsJson(c), NEW k, NEW v
  PROVE  /\ IsJson(Set(c, k, v)) /\ DOMAIN Set(c, k, v).key = DOMAIN c.key \cup {k}
         /\ Set(c, k, v).key[k] = v
         /\ \A x \in DOMAIN c.key : x # k => Set(c, k, v).key[x] = c.key[x]
BY DEF IsJson, Set, Json

\* Without removes one key.
LEMMA WithoutIs ==
  ASSUME NEW c, IsJson(c), NEW k
  PROVE  /\ IsJson(Without(c, k)) /\ DOMAIN Without(c, k).key = DOMAIN c.key \ {k}
         /\ \A x \in DOMAIN c.key : x # k => Without(c, k).key[x] = c.key[x]
BY DEF IsJson, Without, Json

\* What loadConfig answers depends on few keys.
LEMMA AnswersAre ==
  ASSUME NEW c, IsJson(c)
  PROVE  /\ Answers(c).model_profile = Get(c, "model_profile", "model_profile", "balanced")
         /\ Answers(c).branching = Get(c, "branching_strategy", "git.branching_strategy", "none")
         /\ Answers(c).nyquist = Get(c, "nyquist_validation", "workflow.nyquist_validation", TRUE)
         /\ Answers(c).sub_repos = Get(c, "sub_repos", "planning.sub_repos", {})
BY DEF IsJson, Answers

\* The same without truth values, which the provers treat apart.
LEMMA SettingsAre ==
  ASSUME NEW c, IsJson(c)
  PROVE  /\ Answers(c).model_profile = Get(c, "model_profile", "model_profile", "balanced")
         /\ Answers(c).branching = Get(c, "branching_strategy", "git.branching_strategy", "none")
         /\ Answers(c).sub_repos = Get(c, "sub_repos", "planning.sub_repos", {})
BY AnswersAre

LEMMA NyquistIs ==
  ASSUME NEW c, IsJson(c), NEW t, t = TRUE
  PROVE  Answers(c).nyquist = Get(c, "nyquist_validation", "workflow.nyquist_validation", t)
BY AnswersAre

\* x is c with one key written.
KeyWritten(c, x, k, v) ==
  /\ IsJson(c) /\ IsJson(x)
  /\ DOMAIN x.key = DOMAIN c.key \cup {k} /\ x.key[k] = v
  /\ \A y \in DOMAIN c.key : y # k => x.key[y] = c.key[y]

\* A key that is written hides no other, and is found, flat or nested.
LEMMA GetOther ==
  ASSUME NEW c, NEW x, NEW k, NEW v, KeyWritten(c, x, k, v), NEW f, NEW n, NEW d, f # k, n # k
  PROVE  Get(x, f, n, d) = Get(c, f, n, d)
BY DEF Get, HasKey, KeyWritten

LEMMA GetFlat ==
  ASSUME NEW c, NEW x, NEW k, NEW v, KeyWritten(c, x, k, v), NEW n, NEW d
  PROVE  Get(x, k, n, d) = v
BY DEF Get, HasKey, KeyWritten

LEMMA GetNested ==
  ASSUME NEW c, NEW x, NEW k, NEW v, KeyWritten(c, x, k, v), NEW f, NEW d, f # k, ~HasKey(c, f)
  PROVE  Get(x, f, k, d) = v
BY DEF Get, HasKey, KeyWritten

\* Any other file gives the defaults.
LEMMA AnswersDefault ==
  ASSUME NEW c, c.kind # "json"
  PROVE  /\ Answers(c).model_profile = "balanced" /\ Answers(c).branching = "none"
         /\ Answers(c).nyquist = TRUE /\ Answers(c).sub_repos = {}
BY DEF Answers, Defaults

\* Two migrations are written one after the other.
LEMMA TwoWrites ==
  ASSUME NEW x, NEW y
  PROVE  << x >> \o << y >> = << x, y >>
<1>1. PICK a, b, c, d : a = << x >> /\ b = << y >> /\ c = << x, y >> /\ d = a \o b
  OBVIOUS
<1>2. /\ a \in Seq({x, y}) /\ Len(a) = 1 /\ a[1] = x
      /\ b \in Seq({x, y}) /\ Len(b) = 1 /\ b[1] = y
  BY <1>1
<1>3. c \in Seq({x, y}) /\ Len(c) = 2 /\ c[1] = x /\ c[2] = y
  BY <1>1
<1>4. /\ d \in Seq({x, y}) /\ Len(d) = 2
      /\ \A i \in 1 .. 2 : d[i] = IF i <= 1 THEN a[i] ELSE b[i - 1]
  <2>1. d = a \o b
    BY <1>1
  <2> QED BY ONLY <1>2, <2>1, ConcatProperties
<1>5. d[1] = x /\ d[2] = y
  BY <1>2, <1>4
<1>6. \A i \in 1 .. Len(d) : d[i] = c[i]
  BY <1>3, <1>4, <1>5
<1>7. c = d
  BY ONLY <1>3, <1>4, <1>6, SeqEqual
<1> QED BY <1>1, <1>7

\* The keys the commands set.
Keys == {"model_profile", "git.branching_strategy", "workflow.nyquist_validation", "commit_docs"}

\* The setting of each key, and the older key that hides it.
LEMMA SettingIs ==
  /\ Setting("git.branching_strategy") = "branching"
      /\ Setting("workflow.nyquist_validation") = "nyquist"
  /\ Setting("commit_docs") = "commit_docs" /\ Setting("model_profile") = "model_profile"
  /\ OldKey("git.branching_strategy") = "branching_strategy"
  /\ OldKey("workflow.nyquist_validation") = "nyquist_validation"
BY DEF Setting, OldKey

\* A flat commit_docs wins.
LEMMA DocsAnswer ==
  ASSUME NEW c, IsJson(c), HasKey(c, "commit_docs")
  PROVE  Answers(c).commit_docs = c.key["commit_docs"]
BY DEF IsJson, Answers, Get

\* Writing nothing keeps everything.
LEMMA KeptNothing ==
  ASSUME NEW e, e.op # "set", e.from.kind \in {"absent", "json"}
  PROVE  Kept(e, e.from)
BY DEF Kept, HasKey

\* config-set on a file that parses.
LEMMA KeptSet ==
  ASSUME NEW e, e.op = "set", IsJson(e.from), e.key \in Keys, NEW x, x = Set(e.from, e.key, e.value)
  PROVE  Kept(e, x)
<1>1. PICK c, k, v, t : c = e.from /\ k = e.key /\ v = e.value /\ t = TRUE
  OBVIOUS
<1>2. IsJson(c) /\ k \in Keys /\ x = Set(c, k, v)
  BY <1>1
<1>3. KeyWritten(c, x, k, v)
  BY <1>2, SetIs DEF KeyWritten
<1>4. IsJson(x)
  BY <1>3 DEF KeyWritten
<1>5. k # "model_profile" => Answers(x).model_profile = Answers(c).model_profile
  BY <1>2, <1>3, <1>4, GetOther, SettingsAre
<1>6. k # "git.branching_strategy" => Answers(x).branching = Answers(c).branching
  BY <1>2, <1>3, <1>4, GetOther, SettingsAre DEF Keys
<1>7. k # "workflow.nyquist_validation" => Answers(x).nyquist = Answers(c).nyquist
  <2> SUFFICES ASSUME k # "workflow.nyquist_validation"
               PROVE  Answers(x).nyquist = Answers(c).nyquist
    OBVIOUS
  <2>1. Get(x, "nyquist_validation", "workflow.nyquist_validation", t)
          = Get(c, "nyquist_validation", "workflow.nyquist_validation", t)
    BY <1>2, <1>3, GetOther DEF Keys
  <2> QED BY <1>1, <1>2, <1>4, <2>1, NyquistIs
<1>8. Answers(x).sub_repos = Answers(c).sub_repos
  BY <1>2, <1>3, <1>4, GetOther, SettingsAre DEF Keys
<1>9. ~HasKey(c, OldKey(k)) => Answers(x)[Setting(k)] = v
  <2>1. CASE k = "model_profile"
    <3>1. Answers(x).model_profile = v
      BY <1>3, <1>4, <2>1, GetFlat, SettingsAre
    <3> QED BY <2>1, <3>1, SettingIs
  <2>2. CASE k = "git.branching_strategy"
    <3>1. ~HasKey(c, "branching_strategy") => Answers(x).branching = v
      BY <1>3, <1>4, <2>2, GetNested, SettingsAre
    <3> QED BY <2>2, <3>1, SettingIs
  <2>3. CASE k = "workflow.nyquist_validation"
    <3>1. ~HasKey(c, "nyquist_validation")
            => Get(x, "nyquist_validation", "workflow.nyquist_validation", t) = v
      BY <1>3, <2>3, GetNested
    <3>2. Answers(x).nyquist = Get(x, "nyquist_validation", "workflow.nyquist_validation", t)
      BY <1>1, <1>4, NyquistIs
    <3> QED BY <2>3, <3>1, <3>2, SettingIs
  <2>4. CASE k = "commit_docs"
    <3>1. HasKey(x, "commit_docs") /\ x.key["commit_docs"] = v
      BY <1>3, <2>4 DEF KeyWritten, HasKey
    <3> QED BY <1>4, <2>4, <3>1, DocsAnswer, SettingIs
  <2> QED BY <1>2, <2>1, <2>2, <2>3, <2>4 DEF Keys
<1>10. x.kind = "json" /\ c.kind = "json" /\ \A y \in DOMAIN c.key : HasKey(x, y)
  BY <1>2, <1>3 DEF IsJson, HasKey, KeyWritten
<1>11. \A s \in {"model_profile", "branching", "nyquist"} : s # Setting(k)
         => Answers(x)[s] = Answers(c)[s]
  BY <1>5, <1>6, <1>7, SettingIs
<1> QED BY <1>1, <1>8, <1>9, <1>10, <1>11 DEF Kept

\* A file of one key: defaults but for it.
LEMMA OneKeyAnswers ==
  ASSUME NEW x, IsJson(x), NEW k \in Keys, DOMAIN x.key = {k}
  PROVE  /\ Answers(x).sub_repos = {} /\ Answers(x)[Setting(k)] = x.key[k]
         /\ k # "model_profile" => Answers(x).model_profile = "balanced"
         /\ k # "git.branching_strategy" => Answers(x).branching = "none"
         /\ k # "workflow.nyquist_validation" => Answers(x).nyquist = TRUE
<1>1. IsJson(x) /\ DOMAIN x.key = {k}
  OBVIOUS
<1>2. /\ Answers(x).sub_repos = {}
      /\ k # "model_profile" => Answers(x).model_profile = "balanced"
      /\ k # "git.branching_strategy" => Answers(x).branching = "none"
  BY <1>1, AnswersAre DEF Get, HasKey, Keys
<1>3. k # "workflow.nyquist_validation" => Answers(x).nyquist = TRUE
  BY <1>1, AnswersAre DEF Get, HasKey, Keys
<1>4. Answers(x)[Setting(k)] = x.key[k]
  <2>1. CASE k = "model_profile"
    BY <1>1, <2>1, AnswersAre, SettingIs DEF Get, HasKey
  <2>2. CASE k = "git.branching_strategy"
    BY <1>1, <2>2, AnswersAre, SettingIs DEF Get, HasKey
  <2>3. CASE k = "workflow.nyquist_validation"
    BY <1>1, <2>3, AnswersAre, SettingIs DEF Get, HasKey
  <2>4. CASE k = "commit_docs"
    BY <1>1, <2>4, DocsAnswer, SettingIs DEF HasKey
  <2> QED BY <2>1, <2>2, <2>3, <2>4 DEF Keys
<1> QED BY <1>1, <1>2, <1>3, <1>4

\* config-set where there is no file.
LEMMA KeptSetFirst ==
  ASSUME NEW e, e.op = "set", e.from.kind = "absent", e.key \in Keys,
         NEW x, x = Json([y \in {e.key} |-> e.value])
  PROVE  Kept(e, x)
<1>1. PICK c, k, v : c = e.from /\ k = e.key /\ v = e.value
  OBVIOUS
<1>0. PICK f : f = [y \in {k} |-> v] /\ x = Json(f)
  BY <1>1
<1>2. /\ c.kind = "absent" /\ k \in Keys /\ x = Json(f)
      /\ IsMap(f) /\ DOMAIN f = {k} /\ f[k] = v
  BY <1>0, <1>1 DEF IsMap
<1>3. /\ Answers(x).sub_repos = {} /\ Answers(x)[Setting(k)] = v
      /\ k # "model_profile" => Answers(x).model_profile = "balanced"
      /\ k # "git.branching_strategy" => Answers(x).branching = "none"
      /\ k # "workflow.nyquist_validation" => Answers(x).nyquist = TRUE
  <2>1. IsJson(x) /\ DOMAIN x.key = {k} /\ x.key[k] = v
    BY <1>2, JsonIs
  <2> QED BY <1>2, <2>1, OneKeyAnswers
<1>4. /\ Answers(c).model_profile = "balanced" /\ Answers(c).branching = "none"
      /\ Answers(c).nyquist = TRUE /\ Answers(c).sub_repos = {}
  BY <1>2, AnswersDefault
<1>5. \A s \in {"model_profile", "branching", "nyquist"} : s # Setting(k)
        => Answers(x)[s] = Answers(c)[s]
  BY <1>2, <1>3, <1>4, SettingIs DEF Keys
<1> QED BY <1>1, <1>2, <1>3, <1>4, <1>5 DEF Kept

\* A file of the five keys with a key function whose answers are the defaults.
LEMMA FreshAnswers ==
  /\ IsJson(buildNewProjectConfig) /\ IsJson(RepairDefaults)
  /\ \A x \in {buildNewProjectConfig, RepairDefaults} :
       /\ Answers(x).model_profile = "balanced" /\ Answers(x).branching = "none"
       /\ Answers(x).nyquist = TRUE /\ Answers(x).sub_repos = {}
<1>1. PICK b : b = buildNewProjectConfig
  OBVIOUS
<1>0. PICK f : /\ b = Json(f)
               /\ f = [k \in {"model_profile", "commit_docs", "git.branching_strategy",
                         "workflow.research", "workflow.nyquist_validation"} |->
                    CASE k = "model_profile" -> "balanced"
                      [] k = "git.branching_strategy" -> "none" [] OTHER -> TRUE]
  BY <1>1 DEF buildNewProjectConfig
<1>2. IsJson(b) /\ DOMAIN b.key = {"model_profile", "commit_docs", "git.branching_strategy",
                 "workflow.research", "workflow.nyquist_validation"}
      /\ b.key["model_profile"] = "balanced" /\ b.key["git.branching_strategy"] = "none"
      /\ b.key["workflow.nyquist_validation"] = TRUE
  <2>1. IsMap(f)
    BY <1>0 DEF IsMap
  <2>2. IsJson(b) /\ b.key = f
    BY <1>0, <2>1, JsonIs
  <2> QED BY <1>0, <2>2
<1>3. /\ Answers(b).model_profile = "balanced" /\ Answers(b).branching = "none"
      /\ Answers(b).nyquist = TRUE /\ Answers(b).sub_repos = {}
  BY <1>2, AnswersAre DEF Get, HasKey
<1>4. PICK r : r = RepairDefaults
  OBVIOUS
<1>7. PICK g : /\ r = Json(g)
               /\ g = [k \in {"model_profile", "commit_docs", "branching_strategy",
                         "workflow.research", "workflow.nyquist_validation"} |->
                    CASE k = "model_profile" -> "balanced"
                      [] k = "branching_strategy" -> "none" [] OTHER -> TRUE]
  BY <1>4 DEF RepairDefaults
<1>5. IsJson(r) /\ DOMAIN r.key = {"model_profile", "commit_docs", "branching_strategy",
                 "workflow.research", "workflow.nyquist_validation"}
      /\ r.key["model_profile"] = "balanced" /\ r.key["branching_strategy"] = "none"
      /\ r.key["workflow.nyquist_validation"] = TRUE
  <2>1. IsMap(g)
    BY <1>7 DEF IsMap
  <2>2. IsJson(r) /\ r.key = g
    BY <1>7, <2>1, JsonIs
  <2> QED BY <1>7, <2>2
<1>6. /\ Answers(r).model_profile = "balanced" /\ Answers(r).branching = "none"
      /\ Answers(r).nyquist = TRUE /\ Answers(r).sub_repos = {}
  BY <1>5, AnswersAre DEF Get, HasKey
<1> QED BY <1>1, <1>2, <1>3, <1>4, <1>5, <1>6

\* A new file says what no file says.
LEMMA KeptFresh ==
  ASSUME NEW e, e.op # "set", e.from.kind = "absent", NEW x \in {buildNewProjectConfig,
      RepairDefaults}
  PROVE  Kept(e, x)
<1>1. PICK c : c = e.from
  OBVIOUS
<1>2. /\ Answers(c).model_profile = "balanced" /\ Answers(c).branching = "none"
      /\ Answers(c).nyquist = TRUE /\ Answers(c).sub_repos = {}
  BY <1>1, AnswersDefault
<1>3. \A s \in {"model_profile", "branching", "nyquist"} : Answers(x)[s] = Answers(c)[s]
  BY <1>2, FreshAnswers
<1>4. Answers(x).sub_repos = Answers(c).sub_repos
  BY <1>2, FreshAnswers
<1> QED BY <1>1, <1>3, <1>4 DEF Kept

\* The profile set in a file that was just made.
LEMMA KeptProfile ==
  ASSUME NEW e, e.op = "set", e.from.kind = "absent", e.key = "model_profile",
         NEW x, x = Set(buildNewProjectConfig, "model_profile", e.value)
  PROVE  Kept(e, x)
<1>1. PICK c, b, v : c = e.from /\ b = buildNewProjectConfig /\ v = e.value
  OBVIOUS
<1>2. KeyWritten(b, x, "model_profile", v)
  BY <1>1, SetIs, FreshAnswers DEF KeyWritten
<1>3. /\ Answers(c).model_profile = "balanced" /\ Answers(c).branching = "none"
      /\ Answers(c).nyquist = TRUE /\ Answers(c).sub_repos = {}
  BY <1>1, AnswersDefault
<1>4. IsJson(b) /\ Answers(b).branching = "none" /\ Answers(b).nyquist = TRUE
        /\ Answers(b).sub_repos = {}
  BY <1>1, FreshAnswers
<1>5. IsJson(x)
  BY <1>2 DEF KeyWritten
<1>6. Answers(x).model_profile = v
  BY <1>2, <1>5, GetFlat, SettingsAre
<1>7. Answers(x).branching = "none" /\ Answers(x).nyquist = TRUE /\ Answers(x).sub_repos = {}
  <2>1. Answers(x).branching = "none" /\ Answers(x).sub_repos = {}
    BY <1>2, <1>4, <1>5, GetOther, SettingsAre
  <2>2. PICK t : t = TRUE
    OBVIOUS
  <2>3. Get(x, "nyquist_validation", "workflow.nyquist_validation", t)
          = Get(b, "nyquist_validation", "workflow.nyquist_validation", t)
    BY <1>2, GetOther
  <2>4. Answers(x).nyquist = Answers(b).nyquist
    BY <1>4, <1>5, <2>2, <2>3, NyquistIs
  <2> QED BY <1>4, <2>1, <2>4
<1>8. \A s \in {"model_profile", "branching", "nyquist"} : s # "model_profile"
        => Answers(x)[s] = Answers(c)[s]
  BY <1>3, <1>7
<1> QED BY <1>1, <1>3, <1>6, <1>7, <1>8, SettingIs DEF Kept

\* The Nyquist key added where it is missing.
LEMMA KeptNyquist ==
  ASSUME NEW e, e.op = "checked", IsJson(e.from), ~HasKey(e.from, "workflow.nyquist_validation"),
         NEW x, x = Set(e.from, "workflow.nyquist_validation", TRUE)
  PROVE  Kept(e, x)
<1>1. PICK c, t : c = e.from /\ t = TRUE
  OBVIOUS
<1>2. IsJson(c) /\ x = Set(c, "workflow.nyquist_validation", t)
  BY <1>1
<1>3. KeyWritten(c, x, "workflow.nyquist_validation", t)
  BY ONLY <1>2, SetIs DEF KeyWritten
<1>4. IsJson(c) /\ ~HasKey(c, "workflow.nyquist_validation")
  BY <1>1
<1>5. IsJson(x)
  BY <1>3 DEF KeyWritten
<1>6. /\ Answers(x).model_profile = Answers(c).model_profile
      /\ Answers(x).branching = Answers(c).branching
      /\ Answers(x).sub_repos = Answers(c).sub_repos
  BY ONLY <1>3, <1>4, <1>5, GetOther, SettingsAre
<1>7. Answers(x).nyquist = Answers(c).nyquist
  <2> DEFINE old(y) == Get(y, "nyquist_validation", "workflow.nyquist_validation", t)
  <2>1. old(x) = old(c)
    <3>1. CASE HasKey(c, "nyquist_validation")
      BY ONLY <1>3, <3>1 DEF KeyWritten, Get, HasKey
    <3>2. CASE ~HasKey(c, "nyquist_validation")
      <4>1. old(x) = t
        BY ONLY <1>3, <3>2, GetNested
      <4>2. old(c) = t
        BY ONLY <1>4, <3>2 DEF Get
      <4> QED BY <4>1, <4>2
    <3> QED BY <3>1, <3>2
  <2> QED BY <1>1, <1>4, <1>5, <2>1, NyquistIs
<1>8. x.kind = "json" /\ \A y \in DOMAIN c.key : HasKey(x, y)
  BY <1>3 DEF IsJson, HasKey, KeyWritten
<1>9. \A s \in {"model_profile", "branching", "nyquist"} : Answers(x)[s] = Answers(c)[s]
  BY <1>6, <1>7
<1> QED BY <1>1, <1>6, <1>8, <1>9 DEF Kept

\* The keys of the settings that loading leaves alone.
Shown == {"model_profile", "git.branching_strategy", "branching_strategy",
          "workflow.nyquist_validation", "nyquist_validation"}
LoadKeeps(c, x) ==
  /\ IsJson(c) /\ IsJson(x)
  /\ \A k \in DOMAIN c.key \ {"depth", "multiRepo"} : k \in DOMAIN x.key
  /\ \A k \in Shown : /\ k \in DOMAIN x.key <=> k \in DOMAIN c.key
                      /\ k \in DOMAIN c.key => x.key[k] = c.key[k]

\* One migration after the other.
LEMMA LoadTrans ==
  ASSUME NEW c, NEW d, NEW x, LoadKeeps(c, d), LoadKeeps(d, x)
  PROVE  LoadKeeps(c, x)
<1>1. \A k \in DOMAIN c.key \ {"depth", "multiRepo"} : k \in DOMAIN x.key
  BY DEF LoadKeeps
<1>2. \A k \in Shown : /\ k \in DOMAIN x.key <=> k \in DOMAIN c.key
                      /\ k \in DOMAIN c.key => x.key[k] = c.key[k]
  BY DEF LoadKeeps
<1> QED BY <1>1, <1>2 DEF LoadKeeps

\* A key that is not shown is set.
LEMMA SetKeeps ==
  ASSUME NEW c, IsJson(c), NEW k, k \notin Shown, NEW v
  PROVE  LoadKeeps(c, Set(c, k, v))
BY SetIs DEF LoadKeeps

\* A key of an older release is removed.
LEMMA WithoutKeeps ==
  ASSUME NEW c, IsJson(c), NEW k \in {"depth", "multiRepo"}
  PROVE  LoadKeeps(c, Without(c, k))
<1>1. k \notin Shown
  BY DEF Shown
<1> QED BY <1>1, WithoutIs DEF LoadKeeps

\* Both migrations of loadConfig are such edits.
LEMMA MigrationsKeep ==
  ASSUME NEW c, IsJson(c)
  PROVE  LoadKeeps(c, MigrateDepth(c)) /\ LoadKeeps(c, SyncRepos(c))
<1>0. LoadKeeps(c, c)
  BY DEF LoadKeeps
<1>1. LoadKeeps(c, MigrateDepth(c))
  <2>1. PICK v : v = IF c.key["depth"] = "quick" THEN "coarse" ELSE c.key["depth"]
    OBVIOUS
  <2>2. PICK d : d = Without(c, "depth")
    OBVIOUS
  <2>3. PICK x : x = Set(d, "granularity", v)
    OBVIOUS
  <2>4. LoadKeeps(c, d)
    BY <2>2, WithoutKeeps
  <2>5. LoadKeeps(d, x)
    <3>1. IsJson(d) /\ "granularity" \notin Shown
      BY <2>4 DEF LoadKeeps, Shown
    <3> QED BY <2>3, <3>1, SetKeeps
  <2>6. MigrateDepth(c) = x \/ MigrateDepth(c) = c
    BY <2>1, <2>2, <2>3 DEF MigrateDepth
  <2> QED BY <1>0, <2>4, <2>5, <2>6, LoadTrans
<1>2. LoadKeeps(c, SyncRepos(c))
  <2>1. PICK d : d = Without(c, "multiRepo")
    OBVIOUS
  <2>2. PICK f : f = FALSE
    OBVIOUS
  <2>3. PICK r : r = Repos
    OBVIOUS
  <2>4. PICK x : x = Set(d, "sub_repos", r)
    OBVIOUS
  <2>5. PICK y : y = Set(x, "planning.commit_docs", f)
    OBVIOUS
  <2>6. PICK z : z = Set(c, "sub_repos", r)
    OBVIOUS
  <2>7. "sub_repos" \notin Shown /\ "planning.commit_docs" \notin Shown
    BY DEF Shown
  <2>8. LoadKeeps(c, d) /\ IsJson(d)
    BY <2>1, WithoutKeeps DEF LoadKeeps
  <2>9. LoadKeeps(d, x) /\ IsJson(x)
    BY <2>4, <2>7, <2>8, SetKeeps DEF LoadKeeps
  <2>10. LoadKeeps(x, y)
    BY <2>5, <2>7, <2>9, SetKeeps
  <2>11. LoadKeeps(c, z)
    BY <2>6, <2>7, SetKeeps
  <2>12. LoadKeeps(c, y)
    BY <2>8, <2>9, <2>10, LoadTrans
  <2>13. SyncRepos(c) \in {c, y, z}
    BY <2>1, <2>2, <2>3, <2>4, <2>5, <2>6 DEF SyncRepos
  <2> QED BY <1>0, <2>11, <2>12, <2>13
<1> QED BY <1>1, <1>2

\* Loading keeps the answers.
LEMMA KeptLoad ==
  ASSUME NEW e, e.op = "load", NEW x, LoadKeeps(e.from, x)
  PROVE  Kept(e, x)
<1>1. PICK c : c = e.from
  OBVIOUS
<1>2. LoadKeeps(c, x) /\ IsJson(c) /\ IsJson(x)
  BY <1>1 DEF LoadKeeps
<1>3. Answers(x).model_profile = Answers(c).model_profile
  BY <1>2, AnswersAre DEF Get, HasKey, LoadKeeps, Shown
<1>4. Answers(x).branching = Answers(c).branching
  BY <1>2, AnswersAre DEF Get, HasKey, LoadKeeps, Shown
<1>5. Answers(x).nyquist = Answers(c).nyquist
  BY <1>2, AnswersAre DEF Get, HasKey, LoadKeeps, Shown
<1>6. x.kind = "json" /\ \A k \in DOMAIN c.key \ {"depth", "multiRepo"} : HasKey(x, k)
  BY <1>2 DEF LoadKeeps, IsJson, HasKey
<1>7. \A s \in {"model_profile", "branching", "nyquist"} : Answers(x)[s] = Answers(c)[s]
  BY <1>3, <1>4, <1>5
<1> QED BY <1>1, <1>6, <1>7 DEF Kept

(***************************************************************************)
(* What a process has still to do.                                         *)
(***************************************************************************)
EditKeys == {"op", "key", "value", "todo", "open", "from"}
IsEdit(e) == e = [k \in EditKeys |-> e[k]]
EditOps == {"none", "set", "new", "profile", "load", "reset", "nyquist", "checked"}

\* At most two files to write.
Writes(t, last) == t = << last >> \/ \E x : IsJson(x) /\ t = << x, last >>
IsTodo(t) == t = << >> \/ \E y : IsJson(y) /\ Writes(t, y)

\* Alone with the file since it read it: what is there when it is done.
Tracked(e, c) ==
  /\ e.from = Absent \/ IsJson(e.from)
  /\ e.op \in {"none", "set", "new", "load", "checked"} =>
       \/ e.todo = << >> /\ Kept(e, c)
       \/ \E x : IsJson(x) /\ Writes(e.todo, x) /\ Kept(e, x)
  /\ e.op = "profile" =>
       /\ e.from = Absent /\ e.key = "model_profile"
       /\ e.todo = << buildNewProjectConfig >> \/ (e.todo = << >> /\ c = buildNewProjectConfig)
  /\ e.op = "reset" => e.todo = << >> /\ e.from = Absent /\ c = e.from
  /\ e.op = "nyquist" => e.todo = << >> /\ IsJson(e.from) /\ c = e.from
                         /\ ~HasKey(c, "workflow.nyquist_validation")

\* The edit of a process when the file is c.
EditOK(e, c) ==
  /\ IsEdit(e) /\ e.op \in EditOps
  /\ e.op = "none" => e.from = Torn /\ e.todo = << >> /\ ~e.open
  /\ IsTodo(e.todo) /\ (e.open => e.todo # << >>)
  /\ e.from.kind # "torn" => Tracked(e, c)
\* The inductive invariant of the config commands.
CfgOK ==
  /\ config = Absent \/ config = Torn \/ IsJson(config)
  /\ \A p \in Editors : EditOK(edit[p], config)
  /\ cfgCrashes \in Nat

\* Lists of one and of two files.
LEMMA TodoFacts ==
  /\ \A y : << y >> # << >> /\ Head(<< y >>) = y /\ Tail(<< y >>) = << >> /\ Len(<< y >>) = 1
  /\ \A x, y : /\ << x, y >> # << >> /\ Head(<< x, y >>) = x /\ Tail(<< x, y >>) = << y >>
               /\ Len(<< x, y >>) = 2
  /\ Len(<< >>) = 0
OBVIOUS

\* A list ends with one file.
LEMMA LastWrite ==
  ASSUME NEW t, NEW x, NEW y, Writes(t, x), Writes(t, y)
  PROVE  x = y
<1>1. \A a, b : << a >> = << b >> => a = b
  OBVIOUS
<1>2. \A a, b, c, d : << a, b >> = << c, d >> => b = d
  OBVIOUS
<1>3. \A a, b, c : << a >> # << b, c >>
  OBVIOUS
<1> QED BY <1>1, <1>2, <1>3 DEF Writes

\* Another process has stepped.
LEMMA LostSight ==
  ASSUME NEW e, NEW c, EditOK(e, c), NEW d, NEW k, k = [e EXCEPT !.from = Torn]
  PROVE  EditOK(k, d) /\ k.op = e.op
<1>1. /\ IsEdit(k) /\ k.op = e.op /\ k.todo = e.todo /\ k.open = e.open /\ k.from = Torn
  BY DEF EditOK, IsEdit, EditKeys
<1>2. k.from.kind = "torn"
  BY <1>1, KindIs
<1> QED BY <1>1, <1>2 DEF EditOK

\* One process steps, the others have lost sight of the file.
LEMMA EditStep ==
  ASSUME CfgOK, NEW p \in Editors, NEW e, EditOK(e, config'), SetEdit(p, e)
  PROVE  \A q \in Editors : EditOK(edit'[q], config')
BY LostSight DEF SetEdit, CfgOK

\* A process that does nothing.
LEMMA NoEditIs == \A c : EditOK(NoEdit, c)
<1>1. PICK e : e = NoEdit
  OBVIOUS
<1>2. IsEdit(e) /\ e.op = "none" /\ e.from = Torn /\ e.todo = << >> /\ e.open = FALSE
  BY <1>1 DEF NoEdit, IsEdit, EditKeys
<1>3. e.from.kind = "torn"
  BY <1>2, KindIs
<1> QED BY <1>1, <1>2, <1>3 DEF EditOK, EditOps, IsTodo

\* What Start gives a process.
LEMMA StartIs ==
  ASSUME NEW p \in Editors, NEW op, NEW k, NEW v, NEW w, Start(p, op, k, v, w)
  PROVE  /\ UNCHANGED << config, cfgCrashes >>
         /\ \E e : /\ SetEdit(p, e) /\ IsEdit(e) /\ e.op = op /\ e.key = k /\ e.value = v
                   /\ e.todo = w /\ ~e.open /\ e.from \in {config, Torn}
<1>1. PICK i : i = Plan(op, k, v, w)
  OBVIOUS
<1>2. /\ IsEdit(i) /\ i.op = op /\ i.key = k /\ i.value = v /\ i.todo = w
      /\ ~i.open /\ i.from = config
  BY <1>1 DEF Plan, IsEdit, EditKeys
<1>3. PICK f : f = IF \A q \in Editors : ~Editing(q) THEN i.from ELSE Torn
  OBVIOUS
<1>4. PICK e : e = [i EXCEPT !.from = f]
  OBVIOUS
<1>5. SetEdit(p, e)
  BY <1>1, <1>3, <1>4 DEF Start
<1>6. /\ IsEdit(e) /\ e.op = op /\ e.key = k /\ e.value = v /\ e.todo = w
      /\ ~e.open /\ e.from = f
  BY <1>2, <1>4 DEF IsEdit, EditKeys
<1>7. f \in {config, Torn}
  BY <1>2, <1>3
<1> QED BY <1>5, <1>6, <1>7 DEF Start

\* What is on disk.
IsConfig(c) == c = Absent \/ c = Torn \/ IsJson(c)

\* A step of p leaves good edits, and one that ends a command keeps the settings.
Stepped(p) ==
  /\ IsConfig(config') /\ cfgCrashes' \in Nat
  /\ \E e : /\ SetEdit(p, e) /\ EditOK(e, config')
            /\ Editing(p) /\ e.op = "none" /\ cfgCrashes' = cfgCrashes
               /\ edit[p].from.kind # "torn" => Kept(edit[p], config')

\* Such a step keeps the invariant.
LEMMA SteppedOK ==
  ASSUME CfgOK, NEW p \in Editors, Stepped(p)
  PROVE  CfgOK'
<1>1. PICK e : SetEdit(p, e) /\ EditOK(e, config')
  BY DEF Stepped
<1>2. \A q \in Editors : EditOK(edit'[q], config')
  BY <1>1, EditStep
<1> QED BY <1>2 DEF Stepped, CfgOK, IsConfig

\* And a command that it ends keeps the settings.
LEMMA SteppedKeeps ==
  ASSUME CfgOK, NEW p \in Editors, Stepped(p), NEW q \in Editors,
         Editing(q), ~Editing(q)', cfgCrashes' = cfgCrashes, edit[q].from.kind # "torn"
  PROVE  Kept(edit[q], config')
<1>1. PICK e : /\ SetEdit(p, e) /\ EditOK(e, config')
               /\ Editing(p) /\ e.op = "none" /\ cfgCrashes' = cfgCrashes
                  /\ edit[p].from.kind # "torn" => Kept(edit[p], config')
  BY DEF Stepped
<1>2. CASE q # p
  <2>1. edit'[q].op = edit[q].op
    BY <1>1, <1>2, LostSight DEF SetEdit, CfgOK
  <2> QED BY <2>1 DEF Editing
<1>3. CASE q = p
  <2>1. edit'[p] = e
    BY <1>1 DEF SetEdit
  <2> QED BY <1>1, <1>3, <2>1 DEF Editing
<1> QED BY <1>2, <1>3

\* Alone, a command that begins so is tracked.
Tracks(op, k, v, w) ==
  \A e : IsEdit(e) /\ e.op = op /\ e.key = k /\ e.value = v /\ e.todo = w
           /\ e.from = config /\ config.kind # "torn" => Tracked(e, config)

\* A command begins.
LEMMA Begun ==
  ASSUME CfgOK, NEW p \in Editors, NEW op \in EditOps \ {"none"}, NEW k, NEW v, NEW w,
         Start(p, op, k, v, w), IsTodo(w), Tracks(op, k, v, w)
  PROVE  Stepped(p)
<1>1. PICK e : /\ SetEdit(p, e) /\ IsEdit(e) /\ e.op = op /\ e.key = k /\ e.value = v
               /\ e.todo = w /\ ~e.open /\ e.from \in {config, Torn}
  BY StartIs
<1>2. UNCHANGED << config, cfgCrashes >>
  BY StartIs
<1>3. e.from.kind # "torn" => Tracked(e, config)
  BY <1>1, KindIs DEF Tracks
<1>4. EditOK(e, config)
  BY <1>1, <1>3 DEF EditOK
<1> QED BY <1>1, <1>2, <1>4 DEF Stepped, CfgOK, IsConfig

\* What setConfigValue writes.
LEMMA SetWrites ==
  ASSUME NEW c, IsConfig(c), NEW k \in Keys, NEW v, NEW w, w = setConfigValue(c, k, v)
  PROVE  /\ IsTodo(w)
         /\ c.kind # "torn" =>
              \E x : /\ IsJson(x) /\ w = << x >>
                     /\ \A e : e.op = "set" /\ e.key = k /\ e.value = v /\ e.from = c
                          => Kept(e, x)
<1>1. CASE c = Torn
  BY <1>1, KindIs DEF setConfigValue, IsTodo
<1>2. CASE c = Absent
  <2>1. PICK f : f = [x \in {k} |-> v]
    OBVIOUS
  <2>2. PICK x : x = Json(f)
    OBVIOUS
  <2>3. w = << x >>
    BY <1>2, <2>1, <2>2, KindIs DEF setConfigValue
  <2>4. IsJson(x)
    BY <2>1, <2>2, JsonIs DEF IsMap
  <2>5. ASSUME NEW e, e.op = "set", e.key = k, e.value = v, e.from = c
        PROVE  Kept(e, x)
    <3>1. x = Json([y \in {e.key} |-> e.value])
      BY <2>1, <2>2, <2>5
    <3>2. e.from.kind = "absent"
      BY <1>2, <2>5, KindIs
    <3> QED BY <2>5, <3>1, <3>2, KeptSetFirst
  <2> QED BY <2>3, <2>4, <2>5 DEF IsTodo, Writes
<1>3. CASE IsJson(c)
  <2>1. PICK x : x = Set(c, k, v)
    OBVIOUS
  <2>2. w = << x >>
    BY <1>3, <2>1 DEF setConfigValue, IsJson
  <2>3. IsJson(x)
    BY <1>3, <2>1, SetIs
  <2>4. ASSUME NEW e, e.op = "set", e.key = k, e.value = v, e.from = c
        PROVE  Kept(e, x)
    BY <1>3, <2>1, <2>4, KeptSet
  <2> QED BY <2>2, <2>3, <2>4 DEF IsTodo, Writes
<1> QED BY <1>1, <1>2, <1>3 DEF IsConfig

\* The invariant says what is on disk.
LEMMA ConfigIs == CfgOK => IsConfig(config)
BY DEF CfgOK, IsConfig

\* config-set begins.
LEMMA SetCommand ==
  ASSUME CfgOK, NEW p \in Editors, NEW k \in Keys, NEW v,
         Start(p, "set", k, v, setConfigValue(config, k, v))
  PROVE  Stepped(p)
<1>1. PICK w : w = setConfigValue(config, k, v)
  OBVIOUS
<1>2. /\ IsTodo(w)
      /\ config.kind # "torn" =>
           \E x : /\ IsJson(x) /\ w = << x >>
                  /\ \A e : e.op = "set" /\ e.key = k /\ e.value = v /\ e.from = config
                       => Kept(e, x)
  BY <1>1, ConfigIs, SetWrites
<1>3. ASSUME NEW e, IsEdit(e), e.op = "set", e.key = k, e.value = v, e.todo = w,
             e.from = config, config.kind # "torn"
      PROVE  Tracked(e, config)
  <2>1. e.from = Absent \/ IsJson(e.from)
    BY <1>3, KindIs DEF CfgOK
  <2>2. PICK x : IsJson(x) /\ w = << x >> /\ Kept(e, x)
    BY <1>2, <1>3
  <2> QED BY <1>3, <2>1, <2>2 DEF Tracked, Writes
<1>4. Start(p, "set", k, v, w)
  BY <1>1
<1>5. Tracks("set", k, v, w)
  BY <1>3 DEF Tracks
<1> QED BY <1>2, <1>4, <1>5, Begun DEF EditOps

\* config-new-project begins.
LEMMA NewCommand ==
  ASSUME CfgOK, NEW p \in Editors, cmdConfigNewProject(p)
  PROVE  Stepped(p)
<1>1. PICK w : w = IF config.kind = "absent" THEN << buildNewProjectConfig >> ELSE << >>
  OBVIOUS
<1>2. PICK b : b = buildNewProjectConfig
  OBVIOUS
<1>3. IsJson(b)
  BY <1>2, FreshAnswers
<1>4. IsTodo(w)
  BY <1>1, <1>2, <1>3 DEF IsTodo, Writes
<1>5. ASSUME NEW e, IsEdit(e), e.op = "new", e.todo = w, e.from = config, config.kind # "torn"
      PROVE  Tracked(e, config)
  <2>1. e.from = Absent \/ IsJson(e.from)
    BY <1>5, KindIs DEF CfgOK
  <2>2. CASE config.kind = "absent"
    <3>1. Kept(e, b)
      BY <1>2, <1>5, <2>2, KeptFresh
    <3> QED BY <1>1, <1>2, <1>3, <1>5, <2>1, <2>2, <3>1 DEF Tracked, Writes
  <2>3. CASE config.kind # "absent"
    <3>1. config.kind = "json"
      BY <1>5, <2>1, <2>3, KindIs DEF IsJson
    <3>2. Kept(e, config)
      BY <1>5, <3>1, KeptNothing
    <3> QED BY <1>1, <1>5, <2>1, <2>3, <3>2 DEF Tracked
  <2> QED BY <2>2, <2>3
<1>6. Start(p, "new", "none", "none", w)
  BY <1>1 DEF cmdConfigNewProject
<1>7. Tracks("new", "none", "none", w)
  BY <1>5 DEF Tracks
<1> QED BY <1>4, <1>6, <1>7, Begun DEF EditOps

\* config-set-model-profile begins.
LEMMA ProfileCommand ==
  ASSUME CfgOK, NEW p \in Editors, NEW v, cmdConfigSetModelProfile(p, v)
  PROVE  Stepped(p)
<1>1. CASE config.kind # "absent"
  BY <1>1, SetCommand DEF cmdConfigSetModelProfile, Keys
<1>2. CASE config.kind = "absent"
  <2>1. PICK w, b : w = << b >> /\ b = buildNewProjectConfig
    OBVIOUS
  <2>2. Start(p, "profile", "model_profile", v, w)
    BY <1>2, <2>1 DEF cmdConfigSetModelProfile
  <2>3. IsTodo(w)
    BY <2>1, FreshAnswers DEF IsTodo, Writes
  <2>4. config = Absent
    BY <1>2, KindIs DEF CfgOK, IsJson
  <2>5. ASSUME NEW e, IsEdit(e), e.op = "profile", e.key = "model_profile", e.todo = w,
          e.from = config
        PROVE  Tracked(e, config)
    BY <2>1, <2>4, <2>5 DEF Tracked
  <2>6. Tracks("profile", "model_profile", v, w)
    BY <2>5 DEF Tracks
  <2> QED BY <2>2, <2>3, <2>6, Begun DEF EditOps
<1> QED BY <1>1, <1>2

\* A command loads the config.
LEMMA LoadCommand ==
  ASSUME CfgOK, NEW p \in Editors, loadConfig(p)
  PROVE  Stepped(p)
<1>1. PICK c, c1, c2 : c = config /\ c1 = MigrateDepth(c) /\ c2 = SyncRepos(c1)
  OBVIOUS
<1>2. CASE config.kind # "json"
  <2>1. PICK w : w = << >>
    OBVIOUS
  <2>2. Start(p, "load", "none", "none", w)
    BY <1>2, <2>1 DEF loadConfig
  <2>3. IsTodo(w)
    BY <2>1 DEF IsTodo
  <2>4. ASSUME NEW e, IsEdit(e), e.op = "load", e.todo = w, e.from = config, config.kind # "torn"
        PROVE  Tracked(e, config)
    <3>1. e.from = Absent /\ config.kind = "absent"
      BY <1>2, <2>4, KindIs DEF CfgOK, IsJson
    <3>2. Kept(e, config)
      BY <2>4, <3>1, KeptNothing
    <3> QED BY <2>1, <2>4, <3>1, <3>2 DEF Tracked
  <2>5. Tracks("load", "none", "none", w)
    BY <2>4 DEF Tracks
  <2> QED BY <2>2, <2>3, <2>5, Begun DEF EditOps
<1>3. CASE config.kind = "json"
  <2>1. PICK w : w = (IF c1 # c THEN << c1 >> ELSE << >>) \o (IF c2 # c1 THEN << c2 >> ELSE << >>)
    OBVIOUS
  <2>2. Start(p, "load", "none", "none", w)
    BY <1>1, <1>3, <2>1 DEF loadConfig
  <2>3. IsJson(c)
    BY <1>1, <1>3, KindIs DEF CfgOK
  <2>4. LoadKeeps(c, c1) /\ IsJson(c1)
    BY <1>1, <2>3, MigrationsKeep DEF LoadKeeps
  <2>5. LoadKeeps(c, c2) /\ IsJson(c2)
    <3>1. LoadKeeps(c1, c2)
      BY <1>1, <2>4, MigrationsKeep
    <3> QED BY <2>4, <3>1, LoadTrans DEF LoadKeeps
  <2>6. (w = << >> /\ c2 = c) \/ (Writes(w, c2))
    <3>1. CASE c1 # c /\ c2 # c1
      <4>1. w = << c1 >> \o << c2 >>
        BY <2>1, <3>1
      <4>2. w = << c1, c2 >>
        BY <4>1, TwoWrites
      <4> QED BY <2>4, <4>2 DEF Writes
    <3>2. CASE c1 # c /\ c2 = c1
      <4>1. w = << c1 >> \o << >>
        BY <2>1, <3>2
      <4>2. << c1 >> \o << >> = << c1 >>
        OBVIOUS
      <4> QED BY <3>2, <4>1, <4>2 DEF Writes
    <3>3. CASE c1 = c /\ c2 # c1
      <4>1. w = << >> \o << c2 >>
        BY <2>1, <3>3
      <4>2. << >> \o << c2 >> = << c2 >>
        OBVIOUS
      <4> QED BY <4>1, <4>2 DEF Writes
    <3>4. CASE c1 = c /\ c2 = c1
      <4>1. w = << >> \o << >>
        BY <2>1, <3>4
      <4>2. << >> \o << >> = << >>
        OBVIOUS
      <4> QED BY <3>4, <4>1, <4>2
    <3> QED BY <3>1, <3>2, <3>3, <3>4
  <2>7. IsTodo(w)
    BY <2>5, <2>6 DEF IsTodo
  <2>8. ASSUME NEW e, IsEdit(e), e.op = "load", e.todo = w, e.from = config
        PROVE  Tracked(e, config)
    <3>1. Kept(e, c2)
      BY <1>1, <2>5, <2>8, KeptLoad
    <3> QED BY <1>1, <2>3, <2>5, <2>6, <2>8, <3>1 DEF Tracked
  <2>9. Tracks("load", "none", "none", w)
    BY <2>8 DEF Tracks
  <2> QED BY <2>2, <2>7, <2>9, Begun DEF EditOps
<1> QED BY <1>2, <1>3

\* The health check notes what to repair.
LEMMA HealthCommand ==
  ASSUME CfgOK, NEW p \in Editors, cmdValidateHealth(p)
  PROVE  Stepped(p)
<1>1. PICK op : op = CASE config.kind \in {"absent", "torn"} -> "reset"
               [] config.kind = "json" /\ HasKey(config, "workflow.research")
                  /\ ~HasKey(config, "workflow.nyquist_validation") -> "nyquist"
               [] OTHER -> "checked"
  OBVIOUS
<1>2. PICK w : w = << >>
  OBVIOUS
<1>3. Start(p, op, "none", "none", w)
  BY <1>1, <1>2 DEF cmdValidateHealth
<1>4. op \in {"reset", "nyquist", "checked"}
  BY <1>1
<1>5. op = "reset" <=> config.kind \in {"absent", "torn"}
  BY <1>1
<1>6. op = "nyquist" => ~HasKey(config, "workflow.nyquist_validation")
  BY <1>1
<1>7. IsTodo(w)
  BY <1>2 DEF IsTodo
<1>8. ASSUME NEW e, IsEdit(e), e.op = op, e.todo = w, e.from = config, config.kind # "torn"
      PROVE  Tracked(e, config)
  <2>1. e.from = Absent \/ IsJson(e.from)
    BY <1>8, KindIs DEF CfgOK
  <2>2. op = "reset" => e.from = Absent
    BY <1>5, <1>8, <2>1 DEF IsJson
  <2>3. op # "reset" => IsJson(e.from)
    BY <1>5, <1>8, <2>1, KindIs
  <2>4. op = "checked" => Kept(e, config)
    BY <1>8, <2>3, KeptNothing DEF IsJson
  <2> QED BY <1>2, <1>4, <1>6, <1>8, <2>1, <2>2, <2>3, <2>4 DEF Tracked
<1>9. Tracks(op, "none", "none", w)
  BY <1>8 DEF Tracks
<1> QED BY <1>3, <1>4, <1>7, <1>9, Begun DEF EditOps

\* An edit the step keeps but for what it has to do.
LEMMA EditChange ==
  ASSUME NEW e, IsEdit(e), NEW b, NEW t, NEW k, k = [e EXCEPT !.open = b, !.todo = t]
  PROVE  /\ IsEdit(k) /\ k.op = e.op /\ k.key = e.key /\ k.value = e.value /\ k.from = e.from
         /\ k.open = b /\ k.todo = t
BY DEF IsEdit, EditKeys

\* What an edit keeps depends on what it was asked to do only.
LEMMA KeptSameEdit ==
  ASSUME NEW e, NEW k, k.op = e.op, k.key = e.key, k.value = e.value, k.from = e.from, NEW c
  PROVE  Kept(k, c) <=> Kept(e, c)
BY DEF Kept

\* Opening the file for writing empties it; what is to be written is kept.
LEMMA TruncateStep ==
  ASSUME CfgOK, NEW p \in Editors, Truncate(p)
  PROVE  Stepped(p)
<1>1. PICK i : i = edit[p]
  OBVIOUS
<1>2. EditOK(i, config) /\ i.todo # << >>
  BY <1>1 DEF CfgOK, Truncate
<1>3. PICK e : e = [i EXCEPT !.open = TRUE]
  OBVIOUS
<1>4. /\ IsEdit(e) /\ e.op = i.op /\ e.key = i.key /\ e.value = i.value /\ e.from = i.from
      /\ e.todo = i.todo
  BY <1>2, <1>3 DEF EditOK, IsEdit, EditKeys
<1>5. SetEdit(p, e) /\ config' = Torn /\ cfgCrashes' = cfgCrashes
  BY <1>1, <1>3 DEF Truncate
<1>6. i.from.kind # "torn" => Tracked(e, Torn)
  <2> SUFFICES ASSUME i.from.kind # "torn" PROVE Tracked(e, Torn)
    OBVIOUS
  <2>1. Tracked(i, config)
    BY <1>2 DEF EditOK
  <2>2. \A x : Kept(e, x) <=> Kept(i, x)
    BY <1>4, KeptSameEdit
  <2> QED BY <1>2, <1>4, <2>1, <2>2 DEF Tracked
<1>7. e.op # "none"
  <2> SUFFICES ASSUME i.op = "none" PROVE FALSE
    BY <1>4
  <2> QED BY <1>2 DEF EditOK
<1> QED BY <1>2, <1>4, <1>5, <1>6, <1>7 DEF Stepped, EditOK, IsConfig, CfgOK
\* Writing puts the next file there.
LEMMA WriteStep ==
  ASSUME CfgOK, NEW p \in Editors, Write(p)
  PROVE  Stepped(p)
<1>1. PICK i : i = edit[p]
  OBVIOUS
<1>2. EditOK(i, config) /\ i.open
  BY <1>1 DEF CfgOK, Write
<1>3. i.todo # << >> /\ i.op # "none"
  BY <1>2 DEF EditOK
<1>4. PICK t : t = Tail(i.todo)
  OBVIOUS
<1>5. PICK e : e = [i EXCEPT !.open = FALSE, !.todo = t]
  OBVIOUS
<1>6. /\ IsEdit(e) /\ e.op = i.op /\ e.key = i.key /\ e.value = i.value /\ e.from = i.from
      /\ e.todo = t /\ ~e.open
  <2>1. IsEdit(i)
    BY <1>2 DEF EditOK
  <2> QED BY <1>5, <2>1 DEF IsEdit, EditKeys
<1>7. SetEdit(p, e) /\ config' = Head(i.todo) /\ cfgCrashes' = cfgCrashes
  BY <1>1, <1>4, <1>5 DEF Write
<1>8. PICK y : IsJson(y) /\ Writes(i.todo, y)
  BY <1>2, <1>3 DEF EditOK, IsTodo
<1>9. \/ i.todo = << y >> /\ config' = y /\ t = << >>
      \/ \E x : IsJson(x) /\ i.todo = << x, y >> /\ config' = x /\ t = << y >>
  BY <1>4, <1>7, <1>8, TodoFacts DEF Writes
<1>10. IsTodo(t) /\ IsJson(config')
  BY <1>8, <1>9 DEF IsTodo, Writes
<1>11. i.from.kind # "torn" => Tracked(e, config')
  <2> SUFFICES ASSUME i.from.kind # "torn" PROVE Tracked(e, config')
    OBVIOUS
  <2>1. Tracked(i, config)
    BY <1>2 DEF EditOK
  <2>2. \A x : Kept(e, x) <=> Kept(i, x)
    BY <1>6, KeptSameEdit
  <2>3. i.from = Absent \/ IsJson(i.from)
    BY <2>1 DEF Tracked
  <2>4. CASE i.op \in {"set", "new", "load", "checked"}
    <3>1. PICK x : IsJson(x) /\ Writes(i.todo, x) /\ Kept(i, x)
      BY <1>3, <2>1, <2>4 DEF Tracked
    <3>2. x = y
      BY <1>8, <3>1, LastWrite
    <3>3. (t = << >> /\ Kept(e, config')) \/ (Writes(t, y) /\ Kept(e, y))
      BY <1>9, <2>2, <3>1, <3>2 DEF Writes
    <3> QED BY <1>6, <1>8, <2>3, <2>4, <3>3 DEF Tracked
  <2>5. CASE i.op = "profile"
    <3>1. i.from = Absent /\ i.key = "model_profile" /\ i.todo = << buildNewProjectConfig >>
      BY <1>3, <2>1, <2>5 DEF Tracked
    <3>2. t = << >> /\ config' = buildNewProjectConfig
      BY <1>4, <1>7, <3>1, TodoFacts
    <3> QED BY <1>6, <2>3, <2>5, <3>1, <3>2 DEF Tracked
  <2>6. CASE i.op \in {"reset", "nyquist"}
    BY <1>3, <2>1, <2>6 DEF Tracked
  <2> QED BY <1>2, <1>3, <2>4, <2>5, <2>6 DEF EditOK, EditOps
<1>12. EditOK(e, config')
  BY <1>2, <1>3, <1>6, <1>10, <1>11 DEF EditOK
<1> QED BY <1>3, <1>6, <1>7, <1>10, <1>12 DEF Stepped, IsConfig, CfgOK

\* The profile is set in the file that was made.
LEMMA ProfileStep ==
  ASSUME CfgOK, NEW p \in Editors, ProfileAfterEnsure(p)
  PROVE  Stepped(p)
<1>1. PICK i : i = edit[p]
  OBVIOUS
<1>2. EditOK(i, config) /\ i.op = "profile" /\ i.todo = << >> /\ ~i.open
  BY <1>1 DEF CfgOK, ProfileAfterEnsure
<1>3. PICK t : t = setConfigValue(config, i.key, i.value)
  OBVIOUS
<1>4. PICK e : e = [i EXCEPT !.op = "set", !.todo = t]
  OBVIOUS
<1>5. /\ IsEdit(e) /\ e.op = "set" /\ e.key = i.key /\ e.value = i.value /\ e.from = i.from
      /\ e.todo = t /\ e.open = i.open
  <2>1. IsEdit(i)
    BY <1>2 DEF EditOK
  <2> QED BY <1>4, <2>1 DEF IsEdit, EditKeys
<1>6. SetEdit(p, e) /\ UNCHANGED << config, cfgCrashes >>
  BY <1>1, <1>3, <1>4 DEF ProfileAfterEnsure
<1>7. IsTodo(t)
  <2>1. CASE config = Torn
    BY <1>3, <2>1, KindIs DEF setConfigValue, IsTodo
  <2>2. CASE config = Absent
    <3>1. PICK f : f = [x \in {i.key} |-> i.value]
      OBVIOUS
    <3>2. PICK x : x = Json(f)
      OBVIOUS
    <3>3. IsJson(x)
      BY <3>1, <3>2, JsonIs DEF IsMap
    <3>4. t = << x >>
      BY <1>3, <2>2, <3>1, <3>2, KindIs DEF setConfigValue
    <3> QED BY <3>3, <3>4 DEF IsTodo, Writes
  <2>3. CASE IsJson(config)
    <3>1. PICK x : x = Set(config, i.key, i.value)
      OBVIOUS
    <3>2. IsJson(x)
      BY <2>3, <3>1, SetIs
    <3>3. t = << x >>
      BY <1>3, <2>3, <3>1 DEF setConfigValue, IsJson
    <3> QED BY <3>2, <3>3 DEF IsTodo, Writes
  <2> QED BY <2>1, <2>2, <2>3 DEF CfgOK
<1>8. i.from.kind # "torn" => Tracked(e, config)
  <2> SUFFICES ASSUME i.from.kind # "torn" PROVE Tracked(e, config)
    OBVIOUS
  <2>1. i.from = Absent /\ i.key = "model_profile" /\ config = buildNewProjectConfig
    <3>1. << buildNewProjectConfig >> # << >>
      BY TodoFacts
    <3> QED BY <1>2, <3>1 DEF EditOK, Tracked
  <2>2. PICK x : x = Set(config, i.key, i.value)
    OBVIOUS
  <2>3. IsJson(config) /\ config.kind = "json"
    BY <2>1, FreshAnswers DEF IsJson
  <2>4. IsJson(x)
    BY <2>2, <2>3, SetIs
  <2>5. t = << x >>
    BY <1>3, <2>2, <2>3 DEF setConfigValue
  <2>6. e.from.kind = "absent" /\ e.key = "model_profile"
        /\ x = Set(buildNewProjectConfig, "model_profile", e.value)
    BY <1>5, <2>1, <2>2, KindIs
  <2>7. Kept(e, x)
    BY <1>5, <2>6, KeptProfile
  <2> QED BY <1>5, <2>1, <2>4, <2>5, <2>7 DEF Tracked, Writes
<1>9. EditOK(e, config)
  BY <1>2, <1>5, <1>7, <1>8 DEF EditOK, EditOps
<1> QED BY <1>5, <1>6, <1>9 DEF Stepped, IsConfig, CfgOK

\* The repairs the health check noted.
LEMMA RepairStep ==
  ASSUME CfgOK, NEW p \in Editors, Repair(p)
  PROVE  Stepped(p)
<1>1. PICK i : i = edit[p]
  OBVIOUS
<1>2. EditOK(i, config) /\ i.op \in {"reset", "nyquist"} /\ i.todo = << >> /\ ~i.open
  BY <1>1 DEF CfgOK, Repair
<1>3. PICK r : r = RepairDefaults
  OBVIOUS
<1>4. PICK y : y = Set(config, "workflow.nyquist_validation", TRUE)
  OBVIOUS
<1>5. PICK t : t = IF i.op = "reset" THEN << r >>
         ELSE IF config.kind = "json" /\ ~HasKey(config, "workflow.nyquist_validation")
         THEN << y >> ELSE << >>
  OBVIOUS
<1>6. PICK e : e = [i EXCEPT !.op = "checked", !.todo = t]
  OBVIOUS
<1>7. /\ IsEdit(e) /\ e.op = "checked" /\ e.key = i.key /\ e.value = i.value /\ e.from = i.from
      /\ e.todo = t /\ e.open = i.open
  <2>1. IsEdit(i)
    BY <1>2 DEF EditOK
  <2> QED BY <1>6, <2>1 DEF IsEdit, EditKeys
<1>8. SetEdit(p, e) /\ UNCHANGED << config, cfgCrashes >>
  BY <1>1, <1>3, <1>4, <1>5, <1>6 DEF Repair
<1>9. IsJson(r)
  BY <1>3, FreshAnswers
<1>10. config.kind = "json" => IsJson(config) /\ IsJson(y)
  BY <1>4, KindIs, SetIs DEF CfgOK
<1>11. IsTodo(t)
  BY <1>5, <1>9, <1>10 DEF IsTodo, Writes
<1>12. i.from.kind # "torn" => Tracked(e, config)
  <2> SUFFICES ASSUME i.from.kind # "torn" PROVE Tracked(e, config)
    OBVIOUS
  <2>1. Tracked(i, config)
    BY <1>2 DEF EditOK
  <2>2. CASE i.op = "reset"
    <3>1. i.from = Absent
      BY <2>1, <2>2 DEF Tracked
    <3>2. e.from.kind = "absent"
      BY <1>7, <3>1, KindIs
    <3>3. Kept(e, r)
      BY <1>3, <1>7, <3>2, KeptFresh
    <3> QED BY <1>5, <1>7, <1>9, <2>2, <3>1, <3>3 DEF Tracked, Writes
  <2>3. CASE i.op = "nyquist"
    <3>1. IsJson(i.from) /\ config = i.from /\ ~HasKey(config, "workflow.nyquist_validation")
      BY <2>1, <2>3 DEF Tracked
    <3>2. t = << y >> /\ IsJson(y)
      BY <1>5, <1>10, <2>3, <3>1 DEF IsJson
    <3>3. Kept(e, y)
      BY <1>4, <1>7, <3>1, KeptNyquist
    <3> QED BY <1>7, <3>1, <3>2, <3>3 DEF Tracked, Writes
  <2> QED BY <1>2, <2>2, <2>3
<1>13. EditOK(e, config)
  BY <1>2, <1>7, <1>11, <1>12 DEF EditOK, EditOps
<1> QED BY <1>7, <1>8, <1>13 DEF Stepped, IsConfig, CfgOK

\* A command ends or is killed.
LEMMA ExitStep ==
  ASSUME CfgOK, NEW p \in Editors, Exit(p) \/ CfgCrash(p)
  PROVE  Stepped(p)
<1>1. PICK i : i = edit[p]
  OBVIOUS
<1>2. SetEdit(p, NoEdit) /\ config' = config
  BY DEF Exit, CfgCrash
<1>3. cfgCrashes' \in Nat /\ (cfgCrashes' = cfgCrashes => Exit(p))
  BY DEF Exit, CfgCrash, CfgOK
<1>4. Exit(p) /\ i.from.kind # "torn" => Kept(i, config)
  <2> SUFFICES ASSUME Exit(p), i.from.kind # "torn" PROVE Kept(i, config)
    OBVIOUS
  <2>1. Tracked(i, config) /\ i.op \in {"set", "new", "load", "checked"} /\ i.todo = << >>
    BY <1>1 DEF CfgOK, EditOK, Exit
  <2>2. \A x : ~Writes(i.todo, x)
    BY <2>1, TodoFacts DEF Writes
  <2> QED BY <2>1, <2>2 DEF Tracked
<1>5. EditOK(NoEdit, config')
  BY NoEditIs
<1> QED BY <1>1, <1>2, <1>3, <1>4, <1>5 DEF Stepped, IsConfig, CfgOK

\* Every command begins so.
LEMMA CfgIssues ==
  ASSUME CfgOK, NEW p \in Editors, CfgIssue(p)
  PROVE  Stepped(p)
<1>1. DOMAIN NewValue \subseteq Keys
  BY DEF NewValue, Keys
<1>2. ASSUME NEW k \in DOMAIN NewValue, cmdConfigSet(p, k, NewValue[k])
      PROVE  Stepped(p)
  BY <1>1, <1>2, SetCommand DEF cmdConfigSet
<1> QED BY <1>2, ProfileCommand, NewCommand, LoadCommand DEF CfgIssue

\* Every step goes on so.
LEMMA CfgContinues ==
  ASSUME CfgOK, NEW p \in Editors, CfgContinue(p)
  PROVE  Stepped(p)
BY TruncateStep, WriteStep, ProfileStep, RepairStep, ExitStep DEF CfgContinue

\* The initial files.
LEMMA CfgStart == CfgInit => CfgOK
<1> SUFFICES ASSUME CfgInit PROVE CfgOK
  OBVIOUS
<1>1. config = Absent \/ IsJson(config)
  <2>1. config \in InitConfigs
    BY DEF CfgInit
  <2>2. CASE config = [kind |-> "absent"]
    BY <2>2 DEF Absent
  <2>3. CASE config = [kind |-> "json", key |-> [k \in DOMAIN config.key |-> config.key[k]]]
    BY <2>3 DEF IsJson, Json
  <2> QED BY <2>1, <2>2, <2>3, ConfigsAssumption
<1> QED BY <1>1, NoEditIs DEF CfgInit, CfgOK

\* A step of the whole: of one editor, or of none.
LEMMA CfgNext ==
  ASSUME CfgOK, Next
  PROVE  UNCHANGED cfgVars \/ \E p \in Editors : Stepped(p)
BY CfgIssues, CfgContinues, HealthCommand DEF Next, Issue, Continue, Health, cfgVars

\* The invariant has the types of ConfigFile in it.
LEMMA CfgTypes == CfgOK => CfgTypeOK
<1> SUFFICES ASSUME CfgOK PROVE CfgTypeOK
  OBVIOUS
<1>1. config.kind \in {"absent", "torn", "json"}
  BY KindIs DEF CfgOK, IsJson
<1>2. ASSUME NEW p \in Editors
      PROVE  /\ edit[p].op \in EditOps
             /\ edit[p].open => edit[p].todo # << >>
             /\ Len(edit[p].todo) <= 2
  <2>1. PICK i, t : i = edit[p] /\ t = i.todo
    OBVIOUS
  <2>2. i.op \in EditOps /\ IsTodo(t) /\ (i.open => t # << >>)
    BY <2>1 DEF CfgOK, EditOK
  <2>3. Len(t) <= 2
    <3>1. t = << >> \/ (\E y : t = << y >>) \/ \E x, y : t = << x, y >>
      BY <2>2 DEF IsTodo, Writes
    <3>2. PICK n : n = Len(t)
      OBVIOUS
    <3>3. n = 0 \/ n = 1 \/ n = 2
      BY <3>1, <3>2, TodoFacts
    <3>4. n <= 2
      BY ONLY <3>3
    <3> QED BY <3>2, <3>4
  <2> QED BY <2>1, <2>2, <2>3
<1> QED BY <1>1, <1>2 DEF CfgTypeOK, CfgOK, EditOps

\* In every state the file and the edits are well formed.
LEMMA CfgInvariant == Spec => []CfgOK
<1>1. Init => CfgOK
  BY CfgStart DEF Init
<1>2. CfgOK /\ [Next]_vars => CfgOK'
  <2> SUFFICES ASSUME CfgOK, [Next]_vars PROVE CfgOK'
    OBVIOUS
  <2>1. CASE UNCHANGED cfgVars
    BY <2>1 DEF cfgVars, CfgOK
  <2>2. CASE \E p \in Editors : Stepped(p)
    BY <2>2, SteppedOK
  <2>3. UNCHANGED vars => UNCHANGED cfgVars
    BY DEF vars
  <2> QED BY <2>1, <2>2, <2>3, CfgNext
<1> QED BY <1>1, <1>2, PTL DEF Spec

(***************************************************************************)
(* A config command that had the file for itself changes the setting it    *)
(* was given and keeps every other: migrations move keys, defaults fill in *)
(* what is missing (core.cjs:197-317, config.cjs:282-310,                  *)
(* verify.cjs:762-828).                                                    *)
(***************************************************************************)
THEOREM CommandsKeepSettings == Spec => SettingsKept
<1> DEFINE Whole == \A p \in Editors :
         Editing(p) /\ ~Editing(p)' /\ cfgCrashes' = cfgCrashes /\ edit[p].from.kind # "torn"
           => Kept(edit[p], config')
<1>1. CfgOK /\ [Next]_vars => [Whole]_cfgVars
  <2> SUFFICES ASSUME CfgOK, [Next]_vars, ~UNCHANGED cfgVars PROVE Whole
    OBVIOUS
  <2>1. UNCHANGED vars => UNCHANGED cfgVars
    BY DEF vars
  <2>2. \E p \in Editors : Stepped(p)
    BY <2>1, CfgNext
  <2> QED BY <2>2, SteppedKeeps
<1> QED BY <1>1, CfgInvariant, PTL DEF Spec, SettingsKept

(***************************************************************************)
(* Workstreams that are gone.                                              *)
(***************************************************************************)
\* The command does not work on the workstream.
Off(j, n) == j.op # "idle" => j.name # n /\ j.into # n

\* Gone, by the processes.
LEMMA GoneIs ==
  /\ \A n : n \in Gone <=> n \in Names /\ n \notin DOMAIN streams /\ \A p \in Procs : Off(job[p], n)
  /\ \A n : n \in Gone' <=> /\ n \in Names /\ n \notin DOMAIN streams'
                            /\ \A p \in Procs : Off(job'[p], n)
BY DEF Gone, Off, Busy

\* A step of p that makes no such directory and begins no such command, or
\* begins one whose user named the workstream.
LEMMA GoneStep ==
  ASSUME WsOK, NEW n \in Gone, NEW p \in Procs, NEW k, GoodJob(k), SetJob(p, k),
         n \notin DOMAIN streams', Off(k, n) \/ NamedBy(k, n)
  PROVE  n \in Gone' \/ NamedAgain(n)
<1>1. /\ job'[p] = k
      /\ \A q \in Procs : q # p => /\ job'[q].op = job[q].op /\ job'[q].name = job[q].name
                                   /\ job'[q].into = job[q].into
  BY SetJobEffect DEF WsOK
<1>2. \A q \in Procs : Off(job[q], n)
  BY GoneIs
<1>3. \A q \in Procs : q # p => Off(job'[q], n)
  BY <1>1, <1>2 DEF Off
<1>4. CASE NamedBy(k, n)
  BY <1>1, <1>4 DEF NamedAgain
<1>5. CASE Off(k, n)
  BY <1>1, <1>3, <1>5, GoneIs
<1> QED BY <1>4, <1>5

\* A command that begins is not led by the marker, unless it says so.
LEMMA BeginActive ==
  ASSUME NEW p, NEW op, NEW n, NEW j, j = Begin(p, op, n)
  PROVE  j.active = FALSE
<1>1. PICK i : i = Idle("none")
  OBVIOUS
<1>2. i.active = FALSE /\ IsJob(i)
  BY <1>1 DEF Idle, IsJob, JobKeys
<1>3. PICK b : b = IF Alone(p) THEN tree ELSE None
  OBVIOUS
<1>4. j = [i EXCEPT !.op = op, !.name = n, !.before = b]
  BY <1>1, <1>3 DEF Begin
<1> QED BY <1>2, <1>4 DEF IsJob, JobKeys

\* create names what it makes; its user did.
LEMMA CreateNames ==
  ASSUME WsOK, NEW p \in Procs, NEW n \in Names, NEW migrate \in BOOLEAN, NEW m \in Names,
         cmdWorkstreamCreate(p, n, migrate, m)
  PROVE  \E k : GoodJob(k) /\ SetJob(p, k) /\ (k.op = "idle" \/ ~k.active)
<1>1. PICK k : /\ GoodJob(k) /\ SetJob(p, k)
               /\ \/ k.op = "idle" /\ k.before = None
                  \/ k.op = "migrate" /\ Started(p, k) /\ UNCHANGED wsRoot /\ ~wsRoot
                  \/ k.op = "mkdir" /\ Started(p, k) /\ k.into = None
  BY CreateSteps
<1>2. PICK i : i = Idle("already_exists")
  OBVIOUS
<1>3. PICK b : b = Begin(p, "migrate", n)
  OBVIOUS
<1>4. PICK c : c = [b EXCEPT !.into = m]
  OBVIOUS
<1>5. PICK d : d = Begin(p, "mkdir", n)
  OBVIOUS
<1>6. SetJob(p, i) \/ SetJob(p, c) \/ SetJob(p, d)
  BY <1>2, <1>3, <1>4, <1>5 DEF cmdWorkstreamCreate
<1>7. k = i \/ k = c \/ k = d
  <2>1. \A y : SetJob(p, y) => job'[p] = y
    BY DEF SetJob
  <2> QED BY <1>1, <1>6, <2>1
<1>8. i.active = FALSE
  BY <1>2 DEF Idle
<1>9. b.active = FALSE /\ IsJob(b)
  BY <1>3, BeginActive, BeginIs
<1>10. c.active = FALSE
  <2>1. Same(b, c, {"into"})
    BY <1>4, <1>9, JobInto
  <2> QED BY <1>9, <2>1 DEF Same, JobKeys
<1>11. d.active = FALSE
  BY <1>5, BeginActive
<1> QED BY <1>1, <1>7, <1>8, <1>10, <1>11

\* A command that begins makes no directory.
LEMMA IssueLeaves ==
  ASSUME WsOK, WsIssue, NEW n \in Gone
  PROVE  n \in Gone' \/ NamedAgain(n)
<1>0. n \in Names /\ n \notin DOMAIN streams /\ n # None
  BY GoneIs, NoneAssumption
<1>1. n \notin DOMAIN streams'
  <2>1. streams' = streams
    BY DEF WsIssue, cmdWorkstreamCreate, cmdWorkstreamComplete, cmdWorkstreamSet, Resolve, treeVars
  <2> QED BY <1>0, <2>1
<1>2. ASSUME NEW p \in Procs, NEW x \in Names, NEW m \in Names, NEW migrate \in BOOLEAN,
             cmdWorkstreamCreate(p, x, migrate, m)
      PROVE  n \in Gone' \/ NamedAgain(n)
  <2>1. PICK k : GoodJob(k) /\ SetJob(p, k) /\ (k.op = "idle" \/ ~k.active)
    BY <1>2, CreateNames
  <2>2. Off(k, n) \/ NamedBy(k, n)
    BY <2>1 DEF Off, NamedBy
  <2> QED BY <1>1, <2>1, <2>2, GoneStep
<1>3. ASSUME NEW p \in Procs, NEW x \in Names, cmdWorkstreamComplete(p, x)
      PROVE  n \in Gone' \/ NamedAgain(n)
  <2>1. PICK k : /\ GoodJob(k) /\ SetJob(p, k)
                 /\ k.op = "idle" \/ (k.name = x /\ k.into = None /\ x \in DOMAIN streams)
    BY <1>3, CompleteSteps
  <2>2. Off(k, n)
    BY <1>0, <2>1 DEF Off
  <2> QED BY <1>1, <2>1, <2>2, GoneStep
<1>4. ASSUME NEW p \in Procs, NEW ws \in Names \cup {None}, Resolve(p, ws)
      PROVE  n \in Gone' \/ NamedAgain(n)
  <2>1. PICK k : /\ GoodJob(k) /\ SetJob(p, k) /\ k.op = "resolved" /\ k.active = (ws = None)
                 /\ k.into = None /\ k.name = IF ws # None THEN ws ELSE getActiveWorkstream
    BY <1>4, ResolveSteps
  <2>2. CASE ws = None
    <3>1. k.name = getActiveWorkstream
      BY <2>1, <2>2
    <3>2. k.name # n
      BY <1>0, <3>1, ActiveType
    <3>3. Off(k, n)
      BY <1>0, <2>1, <3>2 DEF Off
    <3> QED BY <1>1, <2>1, <3>3, GoneStep
  <2>3. CASE ws # None
    <3>1. k.op = "resolved" /\ ~k.active
      BY <2>1, <2>3
    <3>2. Off(k, n) \/ NamedBy(k, n)
      BY <3>1 DEF Off, NamedBy
    <3> QED BY <1>1, <2>1, <3>2, GoneStep
  <2> QED BY <2>2, <2>3
<1>5. ASSUME NoJob PROVE n \in Gone'
  <2>1. \A q \in Procs : /\ job'[q].op = job[q].op /\ job'[q].name = job[q].name
                         /\ job'[q].into = job[q].into
    BY <1>5, NoJobEffect DEF WsOK
  <2>2. \A q \in Procs : Off(job[q], n)
    BY GoneIs
  <2>3. \A q \in Procs : Off(job'[q], n)
    BY <2>1, <2>2 DEF Off
  <2> QED BY <1>0, <1>1, <2>3, GoneIs
<1> QED BY <1>2, <1>3, <1>4, <1>5 DEF WsIssue, cmdWorkstreamSet

\* Only the directories the command works on are made.
LEMMA MadeByName ==
  ASSUME WsOK, NEW p \in Procs, WsContinue(p) \/ RegenerateState(p) \/ Settles(p),
         NEW n \in DOMAIN streams' \ DOMAIN streams
  PROVE  n = job[p].name \/ n = job[p].into
<1>1. ASSUME NEW x, NEW d, streams' = Put(streams, x, d) PROVE n = x
  BY <1>1 DEF Put
<1>2. \A f, x : DOMAIN Drop(f, x) \subseteq DOMAIN f
  BY DEF Drop, Restrict
<1>3. ASSUME NEW w, NEW d, WriteDir(w, d) PROVE n = w
  <2>1. streams' = streams \/ streams' = Put(streams, w, d)
    BY <1>3 DEF WriteDir
  <2> QED BY <1>1, <2>1
<1>4. streams' # streams
  OBVIOUS
<1>5. CASE MakeDir(p)
  <2>1. streams' = Put(streams, job[p].name, Empty)
    BY <1>4, <1>5 DEF MakeDir
  <2> QED BY <1>1, <2>1
<1>6. CASE PlantDir(p)
  <2>1. streams' = Put(streams, job[p].into, Empty)
    BY <1>4, <1>6 DEF PlantDir
  <2> QED BY <1>1, <2>1
<1>7. CASE MigrateMove(p)
  <2>1. \E d : streams' = Put(streams, job[p].into, d)
    BY <1>7 DEF MigrateMove
  <2> QED BY <1>1, <2>1
<1>8. ASSUME NEW t \in 1 .. MaxWork, cmdTodoComplete(p, t) PROVE n = job[p].name
  <2>1. \E d : WriteDir(job[p].name, d)
    BY <1>4, <1>8 DEF cmdTodoComplete
  <2> QED BY <1>3, <2>1
<1>9. CASE UnlinkPending(p)
  <2>1. \E d : WriteDir(job[p].name, d)
    BY <1>4, <1>9 DEF UnlinkPending
  <2> QED BY <1>3, <2>1
<1>10. CASE cmdSignalWaiting(p) \/ cmdSignalResume(p)
  <2>1. \E d : WriteDir(job[p].name, d)
    BY <1>4, <1>10 DEF cmdSignalWaiting, cmdSignalResume
  <2> QED BY <1>3, <2>1
<1>11. ASSUME NEW e, AddWork(p, e) PROVE n = job[p].name
  <2>1. \E d : WriteDir(job[p].name, d)
    BY <1>11 DEF AddWork
  <2> QED BY <1>3, <2>1
<1>12. CASE FinishCreate(p)
  <2>1. streams' = streams \/ \E d : streams' = [streams EXCEPT ![job[p].name] = d]
    BY <1>12 DEF FinishCreate
  <2> QED BY <1>4, <2>1
<1>13. CASE MigrateRollback(p) \/ FinishComplete(p)
  <2>1. streams' = streams \/ \E x : streams' = Drop(streams, x)
    BY <1>13 DEF MigrateRollback, FinishComplete
  <2> QED BY <1>2, <2>1
<1>14. ASSUME NEW g, ArchiveMove(p, g) \/ ArchiveRollback(p, g) PROVE FALSE
  <2>1. streams' = streams \/ \E d : streams' = [streams EXCEPT ![job[p].name] = d]
    BY <1>14 DEF ArchiveMove, ArchiveRollback
  <2> QED BY <1>4, <2>1
<1>15. CASE \/ migrateToWorkstreams(p) \/ ChooseArchive(p) \/ MakeArchive(p) \/ ListEntries(p)
            \/ ListFails(p) \/ Crash(p) \/ Settles(p)
  BY <1>4, <1>15 DEF migrateToWorkstreams, ChooseArchive, MakeArchive, ListEntries, ListFails,
                     Crash, Settles, treeVars
<1>16. CASE \/ ScaffoldPhaseDir(p) \/ RegenerateState(p)
            \/ \E e \in {"state", "pending"} : AgentWrites(p, e)
  BY <1>11, <1>16, AddersAdd
<1> QED BY <1>5, <1>6, <1>7, <1>8, <1>9, <1>10, <1>12, <1>13, <1>14, <1>15, <1>16 DEF WsContinue

\* A step of a command leaves the process idle or at work where it was, but
\* for the archive it settles on and the todo it completes, which are numbers.
LEMMA WorksOn ==
  ASSUME WsOK, NEW p \in Procs, WsContinue(p) \/ RegenerateState(p) \/ Settles(p)
  PROVE  \E k : /\ GoodJob(k) /\ SetJob(p, k)
                /\ \/ k.op = "idle"
                   \/ k.name = job[p].name /\ (k.into = job[p].into \/ k.into \in Nat)
<1>1. CASE migrateToWorkstreams(p)
  <2>1. \E k : GoodJob(k) /\ SetJob(p, k) /\ (k.op = "idle" \/ Same(job[p], k, {"op"}))
    BY <1>1, MigrateSteps
  <2> QED BY <2>1 DEF Same, JobKeys
<1>2. CASE MakeDir(p) \/ MakeArchive(p)
  <2>1. \E k : GoodJob(k) /\ SetJob(p, k) /\ Same(job[p], k, {"op"})
    BY <1>2, OpSteps, MakeSteps
  <2> QED BY <2>1 DEF Same, JobKeys
<1>3. CASE PlantDir(p) \/ ListEntries(p)
  <2>1. \E k : GoodJob(k) /\ SetJob(p, k) /\ Same(job[p], k, {"op", "left"})
    BY <1>3, PlantSteps, ListSteps
  <2> QED BY <2>1 DEF Same, JobKeys
<1>4. CASE MigrateMove(p) \/ \E g \in Groups : ArchiveMove(p, g)
  <2>1. \E k : GoodJob(k) /\ SetJob(p, k) /\ Same(job[p], k, {"left", "moved"})
    BY <1>4, MoveSteps, ArchiveSteps
  <2> QED BY <2>1 DEF Same, JobKeys
<1>5. CASE ChooseArchive(p)
  <2>1. \E k : GoodJob(k) /\ SetJob(p, k) /\ Same(job[p], k, {"op", "into"}) /\ k.op = "naming"
    BY <1>5, ChooseSteps
  <2> QED BY <2>1 DEF Same, JobKeys, GoodJob
<1>6. ASSUME NEW t \in 1 .. MaxWork, cmdTodoComplete(p, t)
      PROVE  \E k : /\ GoodJob(k) /\ SetJob(p, k)
                    /\ k.op = "idle" \/ (k.name = job[p].name /\ k.into \in Nat)
  <2>1. PICK j : j = job[p]
    OBVIOUS
  <2>2. PICK k : /\ GoodJob(k) /\ SetJob(p, k) /\ j.op = "resolved"
                 /\ \/ k.op = "idle" /\ k.before = None
                    \/ /\ Same(j, k, {"op", "into"}) /\ k.op = "unlink" /\ k.into = t
                       /\ WriteDir(j.name, [planningDir(j.name) EXCEPT !["completed"] = @ \cup {t}])
    BY <1>6, <2>1, TodoSteps
  <2>3. k.op = "idle" \/ (Same(j, k, {"op", "into"}) /\ k.into = t)
    BY <2>2
  <2>4. t \in Nat
    BY BoundsAssumption
  <2>5. k.op = "idle" \/ (k.name = j.name /\ k.into \in Nat)
    BY <2>3, <2>4 DEF Same, JobKeys
  <2> QED BY <2>1, <2>2, <2>5
<1>7. CASE Ends(p)
  BY <1>7, EndSteps
<1>8. CASE \/ ScaffoldPhaseDir(p) \/ RegenerateState(p)
           \/ \E e \in {"state", "pending"} : AgentWrites(p, e)
  <2>1. \E e \in Entries : AddWork(p, e)
    BY <1>8, AddersAdd
  <2> QED BY <1>7, <2>1 DEF Ends
<1> QED BY <1>1, <1>2, <1>3, <1>4, <1>5, <1>6, <1>7, <1>8 DEF WsContinue, Ends

\* Nor does a command under way touch what is gone.
LEMMA ContinueLeaves ==
  ASSUME WsOK, NEW p \in Procs, WsContinue(p) \/ RegenerateState(p) \/ Settles(p), NEW n \in Gone
  PROVE  n \in Gone' \/ NamedAgain(n)
<1>1. n \in Names /\ n \notin DOMAIN streams /\ Off(job[p], n)
  BY GoneIs
<1>2. job[p].name # n /\ job[p].into # n
  BY <1>1, ContinuesBusy DEF Off, Busy
<1>3. n \notin DOMAIN streams'
  BY <1>1, <1>2, MadeByName
<1>4. PICK k : /\ GoodJob(k) /\ SetJob(p, k)
               /\ \/ k.op = "idle"
                  \/ k.name = job[p].name /\ (k.into = job[p].into \/ k.into \in Nat)
  BY WorksOn
<1>5. Off(k, n)
  BY <1>1, <1>2, <1>4, NamesAssumption DEF Off
<1> QED BY <1>3, <1>4, <1>5, GoneStep

(***************************************************************************)
(* A workstream that is gone and that nobody works in does not come back   *)
(* but by a command whose user names it: the marker counts only while its  *)
(* workstream has a directory, so a stale one leads no command that starts *)
(* later to it (core.cjs:586-597), for any number of processes and names   *)
(* and whatever raced to leave the marker stale.                           *)
(***************************************************************************)
THEOREM MarkerResurrectsNothing == Spec => NotResurrected
<1>1. WsOK /\ [Next]_vars => [\A n \in Gone : n \in Gone' \/ NamedAgain(n)]_wsVars
  BY WsNext, IssueLeaves, ContinueLeaves
<1> QED BY <1>1, WsInvariant, PTL DEF Spec, NotResurrected

\* No more commands are issued than the bound allows.
Issued == issued \in Nat /\ issued <= MaxCommands

(***************************************************************************)
(* Types of .planning/ as a whole, for any number of processes and any     *)
(* bounds: what the tree, the jobs, config.json and the edits hold.        *)
(***************************************************************************)
THEOREM TypeCorrect == Spec => []TypeOK
<1>1. Init => Issued
  BY CommandsAssumption DEF Init, Issued
<1>2. Issued /\ [Next]_vars => Issued'
  <2> SUFFICES ASSUME Issued, [Next]_vars PROVE Issued'
    OBVIOUS
  <2>1. CASE Issue
    BY <2>1, CommandsAssumption DEF Issue, Issued
  <2>2. CASE Continue
    BY <2>2 DEF Continue, Issued
  <2>3. CASE UNCHANGED vars
    BY <2>3 DEF vars, Issued
  <2> QED BY <2>1, <2>2, <2>3 DEF Next
<1>3. Spec => []Issued
  BY <1>1, <1>2, PTL DEF Spec
<1>4. WsOK /\ CfgOK /\ Issued => TypeOK
  BY WsTypes, CfgTypes DEF TypeOK, Issued
<1> QED BY <1>3, <1>4, WsInvariant, CfgInvariant, PTL
=============================================================================
