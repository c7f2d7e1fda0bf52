------------------------------ MODULE Bootstrap -----------------------------
(***************************************************************************)
(* A new machine: krypt init makes and records the repo, krypt setup finds *)
(* its config through that record and fills in the templates' files, krypt *)
(* doctor looks at both.  One command runs at a time; the user edits files *)
(* while one waits for answers.                                            *)
(***************************************************************************)
EXTENDS RepoInit, Setup

CONSTANTS
    Remote,     \* [Url -> the config in it]
    Cwd,        \* the repo path that is the current directory, or NoDir
    NoDir,
    NotFound,   \* no .krypt.toml
    SetupCmds,  \* the command lines setup is given
    Edits,      \* what the user may put in each target
    MaxRuns     \* bound on the commands started

ASSUME BootstrapAssumption ==
    /\ NoDir \notin RepoPath /\ Cwd \in RepoPath \cup {NoDir}
    /\ SetupCmds \subseteq [at : RepoPath \cup {NoDir}, opts : SetupCommand]
    /\ Edits \in [Place -> SUBSET (FileRecord \cup {NoFile})]
    /\ MaxRuns \in Nat

\* The configs are configs, and Place has their destinations.  A template's
\* field reads no variable but its own: another's {{key}}, read as an
\* answer, would be filled in with that one's answer.
ASSUME RemoteAssumption ==
    \A u \in Url :
        /\ WellTyped(Remote[u])
        /\ Resolves(Remote[u]) => \A i \in Here(Remote[u]) : Dst(Remote[u], i).value \in Place
        /\ \A s \in ToSet(Remote[u].order) : Remote[u].writer[s] = "generic_template" =>
              \A i \in DOMAIN Remote[u].fields[s] :
                  Reads(Remote[u].fields[s][i]) \subseteq {"none", Remote[u].fields[s][i].key}

VARIABLES
    touches,  \* the user's steps
    runs      \* commands started

vars == <<initVars, setupVars, touches, runs>>

TypeOK ==
    /\ RepoInitTypeOK
    /\ SetupTypeOK
    /\ touches \in 0..MaxTouches /\ runs \in 0..MaxRuns

Init ==
    /\ RepoInitInit /\ SetupInit
    /\ touches = 0 /\ runs = 0

(***************************************************************************)
(* Finding the config                                                      *)
(***************************************************************************)
\* The .krypt.toml at a path.  A repo checked out in part may have its
\* config already, and not yet the templates' sources.
SourceLess(cfg) ==
    [cfg EXCEPT !.templates = [i \in DOMAIN @ |-> [@[i] EXCEPT !.src = NoFile]]]

ConfigAt(p) ==
    CASE dirs[p].is = "whole" -> Remote[dirs[p].url]
      [] dirs[p].is = "part"  -> SourceLess(Remote[dirs[p].url])
      [] dirs[p].is = "stub"  -> NoPrompts
      [] OTHER -> NotFound

\* --config, else the current directory's, else the recorded one if it is
\* there; a tool config that does not load is an error.
resolve_config(flag) ==
    IF flag # NoDir THEN ConfigAt(flag)
    ELSE IF Cwd # NoDir /\ ConfigAt(Cwd) # NotFound THEN ConfigAt(Cwd)
    ELSE IF toolcfg \in Record THEN ConfigAt(toolcfg.path) ELSE NotFound

(***************************************************************************)
(* krypt doctor, as far as it reads this state                             *)
(***************************************************************************)
OkIf(b, otherwise) == IF b THEN "ok" ELSE otherwise

RecordedDir == dirs[toolcfg.path]

check_tool_config == OkIf(toolcfg \in Record, "fail")

check_repo_path == OkIf(toolcfg \in Record /\ RecordedDir.is # "absent", "fail")

check_git_repo == OkIf(toolcfg \in Record /\ RecordedDir.is \in {"part", "whole"}, "fail")

\* git status, which sees what a checkout has not reached as deleted.
check_working_tree ==
    IF check_git_repo = "fail" THEN "fail" ELSE OkIf(RecordedDir.is = "whole", "warn")

\* The commands that run hooks, and what doctor says of a config's hooks.
PHASES == {"post-update", "post-setup"}

\* Mutant: a predicate that cannot be evaluated counts as one that is false.
check_hooksLenient(cfg) ==
    LET hooks == ToSet(cfg.hooks)
    IN  CASE \E h \in hooks : h.when \notin PHASES -> "warn"
          [] hooks = {} -> "n/a"
          [] OTHER -> "ok"

check_hooks(cfg) ==
    LET hooks == ToSet(cfg.hooks)
    IN  CASE \E h \in hooks : h.when \notin PHASES -> "warn"
          [] hooks = {} -> "n/a"
          [] \E h \in hooks : eval(h.atoms, Machine, cfg.paths) = "error" -> "warn"
          [] OTHER -> "ok"

(***************************************************************************)
(* The commands and the user                                               *)
(***************************************************************************)
Quiet == ipc = "idle" /\ spc = "idle"

Launch == Quiet /\ runs < MaxRuns /\ runs' = runs + 1 /\ UNCHANGED touches

LaunchInit == Launch /\ \E c \in InitCmds : StartInit(c) /\ UNCHANGED setupVars

LaunchSetup ==
    /\ Launch
    /\ \E c \in SetupCmds :
          /\ resolve_config(c.at) # NotFound
          /\ StartSetup(c.opts, resolve_config(c.at))
    /\ UNCHANGED initVars

RunInit == InitStep /\ UNCHANGED <<setupVars, touches, runs>>
RunSetup == SetupStep /\ UNCHANGED <<initVars, touches, runs>>

User ==
    /\ touches < MaxTouches /\ touches' = touches + 1
    /\ \/ \E d \in Place : \E f \in Edits[d] : Touch(d, f) /\ UNCHANGED initVars
       \/ /\ Quiet
          /\ \/ \E p \in RepoPath, d \in Dir \ {Is("stub")} : MoveRepo(p, d)
             \/ BreakRecord
          /\ UNCHANGED setupVars
    /\ UNCHANGED runs

Next == LaunchInit \/ LaunchSetup \/ RunInit \/ RunSetup \/ User

Spec == Init /\ [][Next]_vars

(***************************************************************************)
(* Safety                                                                  *)
(***************************************************************************)

\* krypt init without --force never changes a directory that has something
\* in it, except the clone it is making.
OwnDirsKept ==
    [][\A p \in RepoPath : dirs'[p] # dirs[p] /\ touches' = touches /\ NotEmpty(dirs[p]) =>
          icmd.force \/ (ipc = "make" /\ dirs[p].is = "part")]_vars

\* Init leaves what the other commands need: once it has finished, they find
\* its repo's config through the tool config, from any other directory, and
\* doctor only misses git in the stub of --bare.
InitLeavesConfig ==
    ipc = "done" =>
        /\ ConfigAt(toolcfg.path) = IF icmd.bare THEN NoPrompts ELSE Remote[icmd.url]
        /\ check_tool_config = "ok" /\ check_repo_path = "ok"
        /\ ~icmd.bare => check_git_repo = "ok" /\ check_working_tree = "ok"

\* Setup changes a file only once the section it is for has all its answers,
\* and only in a real run whose sections all exist.  Whatever the user has
\* changed there since the first question, it keeps of a Hyprland file every
\* line it did not ask about.  Of a gitconfig it keeps the variables it did
\* not ask about whose line is `key = value` under a plain header, and only
\* those: the other lines go, and with them the variables written otherwise.
TouchesOnlyAnswers ==
    [][\A d \in Place : files'[d] # files[d] /\ touches' = touches =>
          /\ ~scmd.dry /\ Answered /\ HasTarget(Current) /\ Target(Current) = d
          /\ ToSet(Requested(scmd, scfg)) \subseteq ToSet(scfg.order) \cup platform_skipped(scfg)
          /\ \A k \in Key \ DOMAIN collected :
                \/ scfg.writer[Current] \notin {"gitconfig", "hypr_vars"}
                \/ scfg.writer[Current] = "gitconfig" /\ Contents(files[d]).vals[k] \in {Loose, Wrapped}
                \/ files'[d].vals[k] = Contents(files[d]).vals[k]
          /\ scfg.writer[Current] = "hypr_vars" =>
                Contents(files[d]).rest \subseteq files'[d].rest]_vars

\* A post-setup hook that setup silently leaves out because its predicate
\* cannot be evaluated is one doctor warns about.
SkippedHooksShow ==
    spc = "done" /\ ~scmd.skip_hooks /\ ~scmd.dry =>
        \A h \in ToSet(scfg.hooks) :
            h.when = "post-setup" /\ h \notin report.hooks =>
                check_hooks(scfg) = "warn" \/ eval(h.atoms, Machine, scfg.paths) = "false"

\* What setup, the hooks and doctor resolve, they resolve soundly.
ResolverSound == runs = 0 => ResolveSound

(***************************************************************************)
(* What the repository says of itself and the code does not keep           *)
(***************************************************************************)

\* write_gitconfig: "Existing sections/keys not in `values` are preserved."
\* The variables of a gitconfig that setup did not ask about are as they were.
GitKeysPreserved ==
    [][\A d \in Place :
          files'[d] # files[d] /\ touches' = touches /\ scfg.writer[Current] = "gitconfig" =>
              \A k \in Key \ DOMAIN collected :
                  files'[d].vals[k] = Contents(files[d]).vals[k]]_vars
=============================================================================
