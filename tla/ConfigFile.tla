------------------------------ MODULE ConfigFile ------------------------------
(***************************************************************************)
(* .planning/config.json: the config commands, the migrations loadConfig   *)
(* makes while it reads, and the repairs of the health check.  A command   *)
(* reads the file, decides what it will write, and writes by truncating    *)
(* first; there is no lock.  Only keys the code treats differently occur.  *)
(***************************************************************************)
EXTENDS Integers, Sequences

CONSTANTS Editors,      \* processes of config commands that run at the same time
          InitConfigs,  \* files a project may start from
          Ignored,      \* .planning/ is listed in .gitignore
          Repos         \* child directories with a .git

ASSUME ConfigsAssumption ==
    \A c \in InitConfigs : c = [kind |-> "absent"] \/
      c = [kind |-> "json", key |-> [k \in DOMAIN c.key |-> c.key[k]]]

VARIABLES config,    \* the file
          edit,      \* what each process has still to do with it
          cfgCrashes \* processes that died

cfgVars == << config, edit, cfgCrashes >>

-----------------------------------------------------------------------------
(***************************************************************************)
(* The file, and what loadConfig answers from it.                          *)
(***************************************************************************)
Absent == [kind |-> "absent"]
Torn   == [kind |-> "torn"]    \* truncated, not yet written again
Json(k) == [kind |-> "json", key |-> k]

HasKey(c, k) == k \in DOMAIN c.key
Set(c, k, v) == Json([x \in DOMAIN c.key \cup {k} |-> IF x = k THEN v ELSE c.key[x]])
Without(c, k) == Json([x \in DOMAIN c.key \ {k} |-> c.key[x]])

\* A flat key wins over the nested one.
Get(c, flatKey, nested, default) ==
    IF HasKey(c, flatKey) THEN c.key[flatKey]
    ELSE IF HasKey(c, nested) THEN c.key[nested] ELSE default

Defaults == [model_profile |-> "balanced", commit_docs |-> TRUE, branching |-> "none",
             nyquist |-> TRUE, sub_repos |-> {}]

\* The settings in memory; a file that cannot be parsed gives the defaults.
Answers(c) ==
    IF c.kind # "json" THEN Defaults
    ELSE [model_profile |-> Get(c, "model_profile", "model_profile", "balanced"),
          commit_docs   |-> Get(c, "commit_docs", "planning.commit_docs", ~Ignored),
          branching     |-> Get(c, "branching_strategy", "git.branching_strategy", "none"),
          nyquist       |-> Get(c, "nyquist_validation", "workflow.nyquist_validation", TRUE),
          sub_repos     |-> Get(c, "sub_repos", "planning.sub_repos", {})]

\* depth becomes granularity; a depth it does not know keeps its text.
MigrateDepth(c) ==
    IF HasKey(c, "depth") /\ ~HasKey(c, "granularity")
    THEN Set(Without(c, "depth"), "granularity",
             IF c.key["depth"] = "quick" THEN "coarse" ELSE c.key["depth"])
    ELSE c

\* multiRepo becomes the list of repositories, a list that is there is synced.
SyncRepos(c) ==
    LET listed == Get(c, "sub_repos", "planning.sub_repos", {})
        legacy == HasKey(c, "multiRepo") /\ ~HasKey(c, "sub_repos")
                                         /\ ~HasKey(c, "planning.sub_repos")
    IN  IF Repos = {} THEN c
        ELSE IF legacy
        THEN Set(Set(Without(c, "multiRepo"), "sub_repos", Repos), "planning.commit_docs", FALSE)
        ELSE IF listed # {} /\ listed # Repos THEN Set(c, "sub_repos", Repos) ELSE c

\* buildNewProjectConfig without user-level defaults.
buildNewProjectConfig ==
    Json([k \in {"model_profile", "commit_docs", "git.branching_strategy",
                 "workflow.research", "workflow.nyquist_validation"} |->
            CASE k = "model_profile" -> "balanced"
              [] k = "git.branching_strategy" -> "none" [] OTHER -> TRUE])

\* What the health check resets the file to: the branching keys are flat here.
RepairDefaults ==
    Json([k \in {"model_profile", "commit_docs", "branching_strategy",
                 "workflow.research", "workflow.nyquist_validation"} |->
            CASE k = "model_profile" -> "balanced"
              [] k = "branching_strategy" -> "none" [] OTHER -> TRUE])

-----------------------------------------------------------------------------
(***************************************************************************)
(* Processes.  todo is what is left to write, then a command that goes on  *)
(* when that is done; from is the file the command started with, as long   *)
(* as nobody else has touched the file since.                              *)
(***************************************************************************)
NoEdit == [op |-> "none", key |-> "none", value |-> "none", todo |-> << >>,
           open |-> FALSE, from |-> Torn]
Editing(p) == edit[p].op # "none"

SetEdit(p, e) ==
    edit' = [q \in Editors |-> IF q = p THEN e ELSE [edit[q] EXCEPT !.from = Torn]]
Plan(op, k, v, writes) ==
    [op |-> op, key |-> k, value |-> v, todo |-> writes, open |-> FALSE, from |-> config]
Start(p, op, k, v, writes) ==
    /\ ~Editing(p)
    /\ SetEdit(p, [Plan(op, k, v, writes) EXCEPT
                     !.from = IF \A q \in Editors : ~Editing(q) THEN @ ELSE Torn])
    /\ UNCHANGED << config, cfgCrashes >>

\* Mutant of setConfigValue: what was read is forgotten.
setOnlyValue(c, k, v) == << Json([x \in {k} |-> v]) >>

\* setConfigValue: an absent file counts as an empty one, a torn one stops it.
setConfigValue(c, k, v) ==
    IF c.kind = "torn" THEN << >>
    ELSE IF c.kind = "absent" THEN << Json([x \in {k} |-> v]) >>
    ELSE << Set(c, k, v) >>

cmdConfigSet(p, k, v) == Start(p, "set", k, v, setConfigValue(config, k, v))

\* config-new-project and config-ensure-section.
cmdConfigNewProject(p) ==
    Start(p, "new", "none", "none",
          IF config.kind = "absent" THEN << buildNewProjectConfig >> ELSE << >>)

\* Makes sure there is a file first, and reads it again before it sets.
cmdConfigSetModelProfile(p, v) ==
    IF config.kind = "absent"
    THEN Start(p, "profile", "model_profile", v, << buildNewProjectConfig >>)
    ELSE Start(p, "set", "model_profile", v, setConfigValue(config, "model_profile", v))

ProfileAfterEnsure(p) ==
    /\ edit[p].op = "profile" /\ edit[p].todo = << >> /\ ~edit[p].open
    /\ SetEdit(p, [edit[p] EXCEPT !.op = "set",
                     !.todo = setConfigValue(config, edit[p].key, edit[p].value)])
    /\ UNCHANGED << config, cfgCrashes >>

\* loadConfig writes what it migrated: the depth, then the repositories.
loadConfig(p) ==
    IF config.kind # "json" THEN Start(p, "load", "none", "none", << >>)
    ELSE LET c1 == MigrateDepth(config)
             c2 == SyncRepos(c1)
         IN  Start(p, "load", "none", "none",
                   (IF c1 # config THEN << c1 >> ELSE << >>) \o
                   (IF c2 # c1 THEN << c2 >> ELSE << >>))

\* The health check notes the repairs and makes them at the end.
cmdValidateHealth(p) ==
    Start(p, CASE config.kind \in {"absent", "torn"} -> "reset"
               [] config.kind = "json" /\ HasKey(config, "workflow.research")
                  /\ ~HasKey(config, "workflow.nyquist_validation") -> "nyquist"
               [] OTHER -> "checked",
          "none", "none", << >>)

Repair(p) ==
    /\ edit[p].op \in {"reset", "nyquist"} /\ edit[p].todo = << >> /\ ~edit[p].open
    /\ SetEdit(p, [edit[p] EXCEPT !.op = "checked", !.todo =
         IF edit[p].op = "reset" THEN << RepairDefaults >>
         ELSE IF config.kind = "json" /\ ~HasKey(config, "workflow.nyquist_validation")
         THEN << Set(config, "workflow.nyquist_validation", TRUE) >> ELSE << >>])
    /\ UNCHANGED << config, cfgCrashes >>

\* Mutant of Truncate: the file is opened although nothing is to be written.
TruncateAnyway(p) ==
    /\ Editing(p) /\ ~edit[p].open
    /\ config' = Torn
    /\ SetEdit(p, [edit[p] EXCEPT !.open = TRUE])
    /\ UNCHANGED cfgCrashes

\* writeFileSync truncates and writes in two system calls.
Truncate(p) ==
    /\ edit[p].todo # << >> /\ ~edit[p].open
    /\ config' = Torn
    /\ SetEdit(p, [edit[p] EXCEPT !.open = TRUE])
    /\ UNCHANGED cfgCrashes

Write(p) ==
    /\ edit[p].open
    /\ config' = Head(edit[p].todo)
    /\ SetEdit(p, [edit[p] EXCEPT !.open = FALSE, !.todo = Tail(@)])
    /\ UNCHANGED cfgCrashes

Exit(p) ==
    /\ edit[p].op \in {"set", "new", "load", "checked"}
    /\ edit[p].todo = << >> /\ ~edit[p].open
    /\ SetEdit(p, NoEdit)
    /\ UNCHANGED << config, cfgCrashes >>

CfgCrash(p) ==
    /\ Editing(p)
    /\ cfgCrashes' = cfgCrashes + 1
    /\ SetEdit(p, NoEdit)
    /\ UNCHANGED config

-----------------------------------------------------------------------------
CfgInit ==
    /\ config \in InitConfigs
    /\ edit = [p \in Editors |-> NoEdit]
    /\ cfgCrashes = 0

\* One value per key suffices: none of the initial files has it.
NewValue == [k \in {"git.branching_strategy", "commit_docs", "workflow.nyquist_validation"} |->
               CASE k = "git.branching_strategy" -> "milestone" [] k = "commit_docs" -> TRUE
                 [] OTHER -> FALSE]

CfgIssue(p) ==
    \/ \E k \in DOMAIN NewValue : cmdConfigSet(p, k, NewValue[k])
    \/ cmdConfigSetModelProfile(p, "budget")
    \/ cmdConfigNewProject(p) \/ loadConfig(p)

CfgContinue(p) ==
    Truncate(p) \/ Write(p) \/ ProfileAfterEnsure(p) \/ Repair(p) \/ Exit(p) \/ CfgCrash(p)

-----------------------------------------------------------------------------
(***************************************************************************)
(* Types: what each variable holds.                                        *)
(***************************************************************************)
CfgTypeOK ==
    /\ config.kind \in {"absent", "torn", "json"}
    /\ \A p \in Editors :
         /\ edit[p].op \in {"none", "set", "new", "profile", "load", "reset", "nyquist", "checked"}
         /\ edit[p].open => edit[p].todo # << >>
         /\ Len(edit[p].todo) <= 2
    /\ cfgCrashes \in Nat

Setting(k) == CASE k = "git.branching_strategy" -> "branching"
                [] k = "workflow.nyquist_validation" -> "nyquist"
                [] k = "commit_docs" -> "commit_docs"
                [] k = "model_profile" -> "model_profile"
                [] OTHER -> "none"

\* The flat key of an older release that hides a nested one.
OldKey(k) == CASE k = "git.branching_strategy" -> "branching_strategy"
               [] k = "workflow.nyquist_validation" -> "nyquist_validation"
               [] OTHER -> "none"

\* What the command e, done, may have made of the file it started with.
Kept(e, c) ==
    LET was == Answers(e.from)
        now == Answers(c)
    IN  /\ \A s \in {"model_profile", "branching", "nyquist"} :
             ~(e.op = "set" /\ s = Setting(e.key)) => now[s] = was[s]
        /\ e.op # "load" => now.sub_repos = was.sub_repos
        /\ e.op = "set" /\ (e.from.kind = "json" => ~HasKey(e.from, OldKey(e.key)))
             => now[Setting(e.key)] = e.value
        /\ e.from.kind = "json" => c.kind = "json" /\
             \A k \in DOMAIN e.from.key \ {"depth", "multiRepo"} : HasKey(c, k)

(***************************************************************************)
(* A config command that had the file for itself changes what loadConfig   *)
(* answers in the setting it was given and in no other; a key it was given *)
(* takes effect unless an older flat key hides it; loading, creating and   *)
(* repairing change no answer but the list of repositories.  commit_docs   *)
(* is left out where the code answers it from .gitignore or migrates it    *)
(* (core.cjs:197-317, config.cjs:282-310, verify.cjs:762-828).             *)
(***************************************************************************)
SettingsKept ==
    [][\A p \in Editors :
         Editing(p) /\ ~Editing(p)' /\ cfgCrashes' = cfgCrashes /\ edit[p].from.kind # "torn"
           => Kept(edit[p], config')]_cfgVars
=============================================================================
