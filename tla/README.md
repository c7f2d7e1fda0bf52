# krypt in TLA+

krypt is a dotfiles manager written in Rust. It keeps a git repository of
configuration files (the *sources*), copies them to their places under `$HOME`
(the *destinations*) as `.krypt.toml` says, and records in a *manifest* what it
wrote where, so that it can tell its own files from ones the user has edited.
Around that core it pulls the repo (`update`), saves edits back (`adopt`), runs
hooks and user-defined commands, and has a setup wizard and a package installer.

This directory holds TLA+ modules translated from that code, the TLC
configurations that check them on small instances, and TLAPS proofs of the
properties that matter most. `PROJECT.json` lists the runs, the source lines each
definition models, one mutant per checked property, the hazards and the theorems.

## 1. The system

| Component | Source (`crates/krypt-core/src` unless said) | State it keeps | Operations | Modelled in |
|---|---|---|---|---|
| manifest | `manifest.rs` | `manifest.json`: destination to source, kind, hash | load, save, upsert, classify | `Manifest` |
| planner, conflict narrowing | `copy.rs`, `deploy.rs` 298-360 | none | plan, narrow, execute | `Copy` |
| link, unlink, relink | `deploy.rs`, `copy.rs`, CLI `main.rs` | destinations, manifest | the three commands, prune | `Store`, `Deploy`, `Krypt` |
| adopt | `adopt.rs`, `main.rs` | sources, manifest | save edits back, import files | `Adopt`, `Krypt` |
| update | `update.rs` | branch, index, work tree, stash | stash, fetch, fast-forward, pop, link, hooks | `Update` |
| process execution | `runner.rs` 188-240 | child, writer thread, two pipes | `exec` | `Exec` |
| step runner | `runner.rs` | captures, report | `execute_steps`, `handle_failure` | `Runner` |
| dispatch | `dispatch.rs` | none | run or list `[[command]]`s | `Dispatch` |
| hooks | `hooks.rs` | summary | run a phase | `Hooks` |
| setup wizard | `setup.rs`, `main.rs` | answers, the files it writes | prompts, write sections, hooks | `Setup`, `Bootstrap` |
| init, tool config | `init.rs`, `tool_config.rs` | repo directory, tool config | check, wipe, clone, record | `RepoInit`, `Bootstrap` |
| config includes | `include.rs` | none | depth and cycle checks, merge | `Include` |
| package dependencies | `krypt-pkg`: `deps.rs`, `scoop.rs`, `manager.rs` | the system's packages | plan, prepare, ask, install, check | `Deps`, `Packages` |
| package manager drivers | `krypt-pkg`: `apt.rs`, `pacman.rs`, ... | none | exists, is_installed, install | `Packages` |
| config schema | `config/` | none | parse, validate, step variables | entry types; `Include`, `Setup` |
| paths, predicates | `paths/`, `predicate.rs` | none | `${VAR}` strings, `if` grammar | `Paths`, `Predicate` |
| doctor | `doctor.rs` | none | read and report | `Doctor`, `Bootstrap` |
| process lookup | `krypt-platform` | none | PATH lookup | which PATH only, in `Packages` |
| notify, battery | `notify.rs`, `battery.rs` | a log file | platform commands, sysfs | no |

### How the parts interact

```
            .krypt.toml    git index      user
                 |             |           |
   repo work tree (sources) ---+-- link: plan, narrow, copy, prune --> $HOME
        ^    ^                 |                                        |
        |    +---- adopt ------+------------------<---------------------+
        |                      |
   update: stash, pull, pop    manifest.json  (read and written by
        then link, then hooks                  link, unlink, relink, adopt)
```

Components call each other as functions of one process; they share state only
through files: the destinations, the repo, `.krypt.toml` and `manifest.json`.
Nothing locks any of them, so two krypt processes, or krypt and an editor, can
interleave at every file-system call. Inside a process there is concurrency in one
place: `exec` writes a child's standard input from a thread while the caller
drains its output. `init` and the rest meet in the tool config, which says where
the repo is; `setup` writes some of the files `link` deploys as templates; `deps`
shares nothing with them but the config, and the machine with the user.

### What is hard, and what makes each part correct

- **link / unlink / relink.** A crash or an I/O error between two copies leaves
  the disk ahead of the manifest, which is saved last. After that a destination
  can hold what krypt wrote with no entry to say so, and an entry can describe
  bytes that are no longer there. Correct means: nothing the user wrote is
  overwritten or deleted without `--force`; an edited template is never touched; a
  command that completes alone brings disk and manifest to what was asked,
  whatever came before; a dry run writes nothing.
- **adopt.** Copies edits over sources one by one and saves the manifest once,
  then imports and saves per file. Correct means: no drift left on what it was
  asked to save, no source overwritten except with an edit of it or by `--force`.
- **update.** Moves the user's uncommitted changes to the stash, moves the branch,
  then the files, and brings the changes back. Correct means: no edit is lost at
  any point of failure; link never runs over a half-restored tree.
- **exec.** Two bounded pipes and three parties. Correct means: it always
  returns, with all of the output.
- **runner and hooks.** Steps fail, are gated or ignored. Correct means: captures
  come from steps that succeeded, every step is counted once, a phase ends.
- **dispatch.** Listing and running choose among platform-gated entries by
  different code. Correct means: they agree.
- **init.** A clone can fail or be killed at any point, after a forced init has
  removed the old repo. Correct means: the tool config is written last and only of a
  repo that is whole; nothing of the user's is replaced without `--force`.
- **setup.** Questions take minutes, and each section writes its own file when its
  last question is answered. Correct means: a failure leaves whole sections behind; what
  was not asked is kept, as far as the writer can parse it, whatever the user did to the file
  meanwhile; an unattended run can be repeated.
- **doctor.** Correct means: what it passes is in order, what it warns about is not.
- **deps.** Any of several managers can fail at any of four stages, for some of the
  packages. Correct means: every entry comes out once, and truly; a toolchain a run
  installs is found by the crates after it.
- **includes, paths, predicates.** Recursive algorithms with their own idea of a
  cycle. Correct means: they end, and accept what their definition accepts.

The hazards, each at its line with the properties that cover it, are in
`PROJECT.json`.

## 2. Modules

```
Manifest <- Copy <- Store <- Deploy -+
                        \--- Adopt --+- Krypt <- KryptRefines <- Doctor <- MCKrypt
                                                 (Custody)
Update <- MCUpdate
Exec <- Runner <- Dispatch <- Hooks <- MCHooks
Paths <- Predicate <- Setup -+
                  RepoInit --+- Bootstrap <- MCBootstrap
                   Include --+
                  Packages --+- Deps <- MCDeps
```

Invariants and proofs, each on the specification above it:

```
Krypt     <- KryptInv     <- KryptTypes <- KryptProofs (with KryptRefines)
Doctor    <- KryptGoals   <- KryptGoalProofs (with KryptTypes)
Update    <- UpdateInv    <- UpdateProofs
Hooks     <- HooksInv     <- HooksProofs (with ListProofs)
Bootstrap <- BootstrapInv <- BootstrapProofs (with ListProofs)
Deps      <- DepsInv      <- DepsProofs (with ListProofs)
```

**Manifest** has entries, the classification of an entry against a file
(clean, drifted, missing) and the operators that upsert and forget entries. A
file is a content value; SHA-256 is taken to be injective, so a hash is the
content itself. An `Unreadable` file exists and cannot be hashed (a directory, no
permission): the code treats it as drifted but not as a template edit.

**Copy** is the planner and `narrow_conflicts`, as pure operators: platform gates,
globs that follow the git index, and the order of the rules (krypt's own bytes, the
source's bytes already, template, force).

**Store** is what the commands share - destinations, repo, index, config, manifest
- and the user's steps on it. Two history variables, `wrote` and `adopted`, collect
what krypt has written to each destination and saved from it; no action reads them.

**Deploy** is link, unlink and relink, a program counter per process and one
action per file-system effect: `Load`, `RemoveFile`, `SaveUnlinked`, `MakePlan`,
`LoadAndNarrow`, `CopyFile`, `HashCopy` (the destination is hashed by a second
read), `Prune`, `SaveLinked`. `Abort` ends a command anywhere: a crash, or any I/O
error, because the code's `?` returns without saving.

**Adopt** is `cmd_adopt`: `adopt_edits`, then `adopt` for each named path.

**Krypt** composes them. `Racing` says whether commands and edits may overlap a
running command; `disturbed` is a history of the commands beside which somebody
else has stepped, so that convergence can be asked of a command that ran alone
even in a behaviour where others raced before it.

**Custody** is what all of that promises, without its commands: a home directory
where krypt has some bytes in custody (it wrote them, or saved them) and the rest
are the user's, which leave only by the user's hand or under `--force`; files change one at a
time, and the manifest claims only bytes that were in custody. **KryptRefines** maps Krypt onto it:
custody is `Known`, the claim is the manifest's hashes, `--force` is whether a
forced command runs. **Doctor** is the checks of `krypt doctor` on that state.

**Update** is one run after another of `update`: the repository is a branch,
commits with an ancestor relation, an index, a work tree and a stash. gix is
external: its fetch, stash, checkout and three-way merge do what `update.rs`
relies on. A stash writes its entry (`StashPush`), then resets the work tree file by file
(`ResetPath`); the index on disk stays as it was, because the code hands gix a copy. `StashNothing` is
gix's `NoLocalChanges`. A pop merges path by path, and where both sides have changed one
file its contents (`Combine`: a file with both changes, or conflict markers). `StashBeside`
is the user's own `git stash` in another terminal during a run; `MaxStash` bounds the entries.
`RemovePathFails` is the code's `let _ = remove_file`. Histories: `mine` of what the user typed (or
a clean merge made of it), `torn` of runs that left the work tree behind the branch, `beside` of
runs during which the user has stashed.

**Exec** is the child, the writer thread and the caller over pipes of `PipeSize`.
**Runner** is `execute_steps` on it: predicates, interpolation and captures,
`on_fail` and `ignore_failure`. **Dispatch** chooses and lists commands.
**Hooks** runs phases and commands on the runner, with `HookSummary`.

**Paths** is the resolver as a recursive function of a text or a name and the names
being resolved around it (`resolve_text`, `resolve_expr`, `resolve_var`, `lookup_var` and
`resolve_builtin` are the code's functions), with the built-ins of each platform. Texts are names
with their tokens and a `Length`: a fallback is part of a text and shorter than it. **Predicate** is the
`if` of a hook or a step on it.

**Setup** is `cmd_setup` and `setup.rs`: `StartSetup` does everything that comes
before the first question, then `AskField` and `SkipField` take one field each,
and `WriteSection` the whole write of one section, hooks last. A file is its variables and its
other lines. Answers are sets: any value from a person, the one the default makes
with `--yes`. A variable has a value, which in a template may be the placeholder itself
(`Hole`: `$key = {{key}}` read for a default gives that text), or in a gitconfig is written in a
way git reads and setup's parser does not (`Loose`, `Wrapped`; `Cut` is what is left of the latter).
Every section's file is read for defaults, whatever its writer (`ReadBy`): a gitconfig or an env file just
has no `$name = value` lines. `took` and `byHand` are histories of the answers and of the user's
edits during the run.

**RepoInit** is `init.rs` step by step over directories that are absent, empty, a
plain file, somebody's, a checkout in part or whole, or the bare stub. **Bootstrap**
composes the two: `resolve_config` finds a config through the tool config, and
doctor's checks of the repo, the config and the hooks are operators on the state.

**Include** is the loading of a config: the walk over included files as a
recursive function of the chain of files (`Included` is one turn of the code's loop), the
merge, validation, step variables.
**Packages** is a machine: which programs krypt and its runner can spawn, what each
package manager answers and what its install may leave behind when it fails, and the
PATH that Windows gives new processes. **Deps** is `cmd_deps` on it, one action per
stage of a source (a manager's or cargo's share of a group).

The MC modules give each a small instance. **Lists** has what the proofs need of
sequences and the libraries define in a form that cannot be reasoned about: how often an
element is in a sequence, and the elements of it that are in a set. The `...Inv` modules and
**KryptGoals** hold the inductive invariants, the `...Proofs` modules the proofs
(section 4).

## 3. What is checked

| Run | Module, cfg | Shows |
|---|---|---|
| `krypt` | `MCKrypt`, `Krypt.cfg` | custody and convergence over sequences of commands with crashes |
| `race` | `MCKrypt`, `KryptRace.cfg` | convergence after commands raced |
| `update` | `MCUpdate`, `Update.cfg` | no edit lost by update, restored before link, link sees the pulled tree |
| `hooks` | `MCHooks`, `Hooks.cfg` | pipes, captures, counters, dispatch; every job ends |
| `setup` | `MCBootstrap`, `Setup.cfg` | a new machine from init to doctor, with failures and the user beside it |
| `deps` | `MCDeps`, `Deps.cfg` | every entry accounted for, truly; loading of includes |
| `clobber`, `shared` | `MCKrypt`, `Krypt*.cfg` | two disagreements of deploy with its documentation |
| `stash`, `beside` | `MCUpdate`, `Update*.cfg` | two disagreements of update with its own |
| `pipe` | `MCHooks`, `HooksPipe.cfg` | one of the runner with its own |
| `gitkeys` | `MCBootstrap`, `SetupGitKeys.cfg` | one of setup with its own |

### Deploy and adopt (`krypt`, `race`)

- `RecordsKnown`: the manifest records only hashes of bytes krypt wrote or saved.
  Every overwrite and deletion is decided by "matches the manifest", so this is
  what that test is worth.
- `NoSilentLoss`: without `--force` no command destroys bytes krypt neither wrote
  nor saved.
- `TemplateEditsSurvive`: no command, forced or not, changes a template filled in
  on this machine.
- `LinkConverges`: after a link that completed alone, each destination planned once
  holds its source and is recorded so, or was left because it is the user's; and
  the manifest lists nothing that was not planned.
- `UnlinkClears`: after an unlink that completed alone the manifest lists only
  files that drifted, after `--force` only template edits.
- `AdoptSettlesDrift`: once adopt has saved, only what it was not to touch drifts.
- `LinkLeavesGreen`: after a link that reported no conflict and kept only plain
  filled-in templates, doctor is all green, whatever was there before.
- `KeepsCustody`: Krypt implements `Custody` - every step of every command, of adopt, of
  the user and of a crash is one of `Custody`'s or a stutter.
- `DryRunReadOnly`: no step of a dry run writes.
- `SourcesKept`: what krypt writes over a source is what some destination holds at that moment, and
  that destination is an edited file deployed from this very source, or a file adopt was asked
  to import under this name, which was free unless `--force`.

Bounds of `krypt`: two destinations, two sources, three contents (two versions of
a source, one the user's), three commands and two user steps. That is what the
hazards need: a first command that leaves something half done, an edit or a config
change, a second command that builds on it and, for the adopt cases, a third. The
configs of `MCConfigs` grow and lose an entry, turn a link into a template, gate
one to a platform, follow the index with a glob, and deploy two sources to one
destination. Every command is run plain and with `--force`, but a forced relink, which is a forced unlink and
a forced link, only dry. In `race`, two deploy processes and one adopter contend for one
destination with `Racing = TRUE`: three commands are two that race and one that
comes after. The two deploy processes are interchangeable (`SYMMETRY`); the three
properties of that run are all invariants, for which the reduction is sound.
The custody properties are not asked of `race`, and are not true there: krypt
classifies and then acts without a lock, so an edit in between is lost.

`CHECK_DEADLOCK FALSE` in these runs: with the bound on commands and edits used up
there is nothing left to do.

### Update (`update`)

- `EditsKept`: what the user put at a tracked path and has not replaced is, at
  every step of every run, in the work tree, on the stash or in the branch's
  history.
- `RestoredBeforeLink`: when a run that stashed comes to link, its entry is off the stash and no other
  with it, and each change in it is back in the work tree, alone or combined with the
  branch's own change of that file; unless the user has stashed during the run (see `beside` below).
- `LinksHead`: what is linked is the fetched commit and the user's edits, with
  nothing of the commit before it, unless a run was cut short inside the
  fast-forward (the code has no recovery for that) or a file could not be removed.

Two files, four contents (one the combination of two others) and four commits: the remote goes from `c0` to `c1` and `c3`, the
user may commit `c2`, which diverges; all change `f`, `c1` drops `g`, `c3` brings it back and
drops `f`. So pulls that are up to date, fast-forward and diverged, merges that are clean, clean by contents and
conflicting, and a path that comes, goes and comes back while the user has a file there, all occur. Two
user or remote steps and two stash entries: an edit and a push, or an edit and a stash beside the run,
are all it takes to disturb a pull. Runs are not bounded, and deadlock is checked.

### Commands and hooks (`hooks`)

- `OutputWhole`: exec returns all the child wrote, once it has exited.
- `CaptureFlow`: a step is given, for each capture it names, the output of the
  latest earlier step that had that capture and succeeded.
- `RunAccounts`, `HooksAccount`: a run and a phase that succeed have counted every
  step and hook once, and absorbed only failures they may.
- `ListedIsRun`: a name that is listed runs one of its listed entries, and one that is not
  does not run.
- `JobsEnd` (liveness): every command and every phase ends.

The programs of `MCProgram` are a filter, one that reads all its input first, one
that writes first, one that only writes and fails, and two that do nothing; with
pipes of two units, up to four units of input and three or four of output, each
pipe fills in each order. The step lists pass captures on, overwrite them, fail in
every `on_fail` mode, and hold the badly shaped steps; the command lists are
every gating of two entries under two names and three under one.

**Fairness** is assumed only here, and only what the code has: weak fairness of
krypt's main thread, of the caller in `exec`, of the writer thread (the operating
system schedules both), and of the child, which is a program that makes progress
whenever it is not blocked on a pipe. A child that never exits would make krypt
wait for ever: `exec` has no timeout. `Krypt` and `Update` state no fairness and
claim no liveness.

### A new machine (`setup`)

- `RecordTruthful`: the tool config names a repo init had made there, whole, unless a
  forced init or the user has changed that directory since.
- `InitLeavesConfig`: once init has finished, the other commands find its config
  from any directory, and doctor passes the repo.
- `OwnDirsKept`: init without `--force` changes no directory that has something in
  it but the clone it is making.
- `TouchesOnlyAnswers`: a file changes only when its section is answered. Whatever the user has done
  there since the first question, every line of a Hyprland file that was not asked about is kept,
  and of a gitconfig the variables not asked about that setup can parse: one `key = value` line
  under a plain header. Its other lines go, and the variables written otherwise with them (`gitkeys` below).
- `EarlierSectionsWritten`: at every point of a run, the sections behind it are whole
  in their files.
- `UnattendedStable`: `--yes` run again on what it left neither fails nor changes it, for
  every section whose fields read only the variables they set themselves (`OwnVariables`), and in a
  template only where the template leaves them to be filled in.
- `SkippedHooksShow`: a hook left out because its predicate cannot be evaluated is one doctor
  warns about.
- `ResolverSound`: the resolver succeeds exactly when nothing a text stands on is
  undefined, malformed or circular (checked on every platform, override and environment of
  `MCPathCases` before the first command).

Two repos, two remotes whose configs have every writer, field type, kind of default
and gate, a template whose source is not checked out, a section for another
platform, one without a template and one with an unknown writer, and hooks with
every kind of predicate. Three commands (an init, a setup, and another of either) and two user steps:
an edit while a question is open and one more before or after, or a repo put in place by
hand. The edits of `MCEdits` fit the place: a gitconfig that setup parses only in part, the template as
link deploys it with its placeholders, a file that is gone. One command runs at a time. `CHECK_DEADLOCK FALSE`, as the bounds run out.

### Dependencies and includes (`deps`)

- `EachSettled`: at the end each entry of each selected group is in exactly one
  list of the report, as often as it is written, and each unserved group is named.
- `ReportTrue`: what a run reports as installed is there; when nothing failed, so
  is everything the groups list.
- `ToolchainReached`: no crate fails for want of a cargo that this run's own
  installs brought, unless the PATH refresh failed and was reported.
- `LoadSound`: a tree of files loads exactly when all that its walks reach is valid, none is
  longer than the limit and the steps' variables are known; it then lists the dependency
  groups in the order of the walks, one for each way a walk leads to where it is written, and has
  each setting from the last walk to have it; and
  `Cycle` is the error only of a tree in which some walk comes to a file again. A walk is the
  places taken in the includes from the root down, so the reference knows nothing of the order of
  errors, of a list of visited files or of merging two configs.

Five machines (Windows with scoop and winget, Arch with and without paru, Debian without
sudo, a Mac), two config trees for the runs, one of them circular, and about a thousand more for
`LoadSound`; two runs, two failures anywhere, two steps of the user. `MaxDepth` is 2 here and
8 in the code: with four files there are walks shorter than it, equal to it and longer.
A failure is bounded because a third one meets no new code: the stages do not look
back at each other.

### Where the code and its documentation disagree

1. `clobber`: adopt records an imported file before the user has pasted its
   `[[link]]` block; a link in between finds the entry stale and clean and deletes
   the user's file from `$HOME`. The bytes are in the repo.
2. `shared`: two edited destinations of one source are adopted one over the other.
3. `stash`: a pull that fails after the auto-stash leaves the changes on the stash
   without a word.
4. `beside`: the pop takes the latest stash entry, not the one this run pushed: if the user has
   stashed meanwhile, theirs is restored, the run's stays on the stash, and the
   report says it was restored.
5. `pipe`: a child that fails without reading its input gives an I/O error, not a
   result with its status.
6. `gitkeys`: a gitconfig is parsed line by line and written anew, so a key without a value,
   a key under a header with a comment behind it and the continuation lines of a long value, none
   of them asked about, are not written back.

Runs 1 to 4 use a next-state relation without crashes, so that the disagreement
is not a crash's doing.

Met while modelling and left without a run, as nothing else hangs on them: a program that cannot be spawned ends a phase even with
`ignore_failure` (runner.rs:602, against hooks.rs:54-56); of two sections one template names, the second replaces
the file with the first one's answers in it (setup.rs:806, against config/schema.rs:188-189);
`unlink --force` goes by the kind the manifest recorded, so an edited file that the
config has made a `[[template]]` since is deleted (docs/migrating-from-bash.md:127-129
excepts templates); init.rs:11-13 promises `krypt init --repo-path` without a URL, which is `MissingUrl`;
a `hypr_vars` field that reads (`read_var`, or a default from one) a variable another field of its
section sets, or that has the key of another, makes a second `krypt setup --yes` answer otherwise
than the first, and validation does not forbid it (setup.rs:590; hence `OwnVariables`);
`resolve_step_vars` resolves with the built-ins alone, and its comment speaks of `[paths]`
too; hooks and doctor evaluate a `file_exists` with the `[paths]` overrides, commands
without; `write_gitconfig` drops comments; winget's batch stops at the
first package that fails and reports those before it, which landed, as failed; an
unknown `--group` succeeds with nothing done; `deps --check` "without installing
anything" has scoop install git when a bucket is missing.

## 4. What is proved

Every property of the passing runs is a theorem but one (`JobsEnd`, see below): it holds for any number of processes, paths,
contents, configs, programs and command lines, and without the runs' bounds.

| Module | Theorems | Racing |
|---|---|---|
| `KryptTypes` | `TypeCorrect` (`TypeOK`) | any |
| `KryptProofs` | `RecordsAreKnown` (`RecordsKnown`), `NothingLostSilently` (`NoSilentLoss`), `TemplatesKept` (`TemplateEditsSurvive`), `CustodyKept` (`KeepsCustody`) | FALSE |
| `KryptGoalProofs` | `LinkSettles` (`LinkConverges`), `UnlinkSettles` (`UnlinkClears`), `AdoptSettles` (`AdoptSettlesDrift`), `GreenAfterLink` (`LinkLeavesGreen`) | any |
| | `DryRunsReadOnly` (`DryRunReadOnly`), `SourcesSurvive` (`SourcesKept`) | FALSE |
| `UpdateProofs` | `UpdateTyped` (`TypeOK`), `EditsSurvive` (`EditsKept`), `RestoredFirst` (`RestoredBeforeLink`), `LinkedIsHead` (`LinksHead`) | |
| `HooksProofs` | `HooksTyped` (`TypeOK`), `OutputIsWhole` (`OutputWhole`), `CapturesFlow` (`CaptureFlow`), `RunsAccount` (`RunAccounts`), `PhasesAccount` (`HooksAccount`), `RunIsListed` (`ListedIsRun`) | |
| `BootstrapProofs` | `BootstrapTyped` (`TypeOK`), `RecordIsTrue` (`RecordTruthful`), `InitIsEnough` (`InitLeavesConfig`), `OthersKept` (`OwnDirsKept`), `AnswersLand` (`EarlierSectionsWritten`), `OnlyAnswers` (`TouchesOnlyAnswers`), `SilentSkipsShow` (`SkippedHooksShow`), `UnattendedIsStable` (`UnattendedStable`), `ResolverIsRight` (`ResolverSound`) | |
| `DepsProofs` | `DepsTyped` (`TypeOK`), `EntriesSettled` (`EachSettled`), `ReportsTrue` (`ReportTrue`), `ToolchainIsFound` (`ToolchainReached`), `LoadsRight` (`LoadSound`) | |

`ListProofs` has the lemmas on naturals and sequences. Each argument is an inductive
invariant; TLC checked each on the instances before it was proved.

**Types of Krypt.** `TypeOK` alone is not inductive: a record is read out of the
plan at `next`, out of the manifest copy at an edited destination, and `ImportSrc`
must be a source when it is recorded. `TypeInv` adds those three facts.

**Custody** (`CustodyInv`). "Matches the manifest" justifies an
overwrite when it is decided, but the overwrite happens later; so the invariant
carries each decision to the step that acts on it. One command runs at a time
(`Alone`); the manifest and every in-memory copy of it record only known bytes
(`KnownIn`); what a command has doomed is expendable or is being forced
(`DoomedSafe`); a plan follows the config and copies only onto nothing
(`PlanFollowsConfig`, `FreshSafe`), and once narrowed only onto what is expendable,
what already equals the source, or a forced link (`CopySafe`); a copy being hashed
is still the one written (`HashKnown`), a source being recorded still the one
imported (`ImportKnown`). There is one lemma per action (`...Safe`), frame lemmas
for the actors that do not move, and `NextCustody` combines them. The action
properties follow because every step that touches a destination is a `RemoveFile`
or a `CopyFile` (`TouchedBy`) and the invariant says what each may touch
(`TouchedSafe`). `CustodyKept` is the refinement step by step: each action of Krypt is
mapped to a step of `Custody` or a stutter, with the invariant before and after it.

**Convergence** (`GoalInv`). For a process that nobody has stepped beside, each place
in its command has a partial goal: what has been copied is in place and in memory
(`CopiedSoFar`), what is not copied is not krypt's (`LeftAlone`), memory is the manifest
until prune forgets what is stale (`MemOnCourse`), and for doctor, the plan is of the
config there is (`PlanOfConfig`). `disturbed` is what makes it inductive under races:
another actor's step either leaves the files alone or puts the process into `disturbed`,
where nothing more is claimed of it. Nothing is assumed of the state the command started
from, which is the point: races, crashes and failed copies came before.

**Update** (`PullInv`). From the push to the pop the run's entry is the latest on the
stash, unless the user has stashed beside it (`StashOnCourse`), and was made at a commit the branch has not left
(`StashBehind`); a path not yet reset is in the entry as the work tree has it (`ResetOnCourse`);
past the dirty check, or past the stash, the work tree is the branch's commit (`CleanToPull`: the index
too, if nothing was stashed); while the work tree follows the branch, a path not yet brought over is
still as committed (`TreeOnCourse`), so what is overwritten is in the history. Two things came
out of the attempt. `EditsKept` was false of an earlier `UpdatePath`: a file of the user's
at a path that one pull drops from the index and a later one adds back is untracked in between,
and `is_dirty` does not see it. TLC finds it in 24 states with four commits, which
`MCUpdate` now has; the code does that, and the property is about tracked paths, so
`UpdatePath` now says that an untracked file in the way is lost. And `LinksHead` needs that
a path holds the branch's version, the user's or a conflict's markers (`OwnFiles`),
which is what a conflicting pop leaves behind.

**Commands and hooks** (`JobInv`). `ExecInv`: what the child has written is in the pipe or
has been read, and the caller stops only on an empty pipe of a child that has exited.
`CapturesInv`: a capture holds the output of the last of the steps that provided it.
`ReportInv`, `PhaseInv`: the counters are the numbers of steps, and hooks, with each fate.

**A new machine** (`BootstrapInv`). `InitOnCourse`: init works on a path it found free,
wiped under `--force` or made itself, and reaches the record only past a whole clone.
`OnCourse`: a run works on one config that passed every check before the first question,
and each section has the file that config gives it; so `Written` is applied to the answers of
the section just asked, and `EarlierSectionsWritten` is carried from section to section.
The types needed what a config is said to be (`WellTyped`). The attempt found
`CASE` expressions whose guards overlap (`builtin`, `eval_atom`, `is_installed`, `exists`), of which
TLC takes the first arm and TLA+ any; they are `IF` chains now, as the code is.

**Unattended setup** (the last part of `BootstrapInv`). The property compares a run with one that
has not happened yet, so the invariant says what the answers have been so far: those `--yes` gives
on what the section's file holds, while nobody edits it (`AnsweringUnattended`), which are then written
over that very file (`WrittenUnattended`, `AnsweredUnattended`). Asked again on the result, each default is the
old one or the answer just given, because the writers that patch a file or fill in a template put a field's
answer where its reader looks and `OwnVariables` keeps other fields away from there; so the answers repeat, and each writer
writes over its own output what it wrote before. Without `OwnVariables` this fails, which the attempt found
and TLC's instance, in which fields read their own variables, does not show.

**The resolver.** A text is resolved with the names being resolved around it. Going on either
reaches a shorter text inside the same names or enters one more name, and names are finitely
many: that gives a rank (`Length` and the names not yet entered) by which the recursive function exists and
can be reasoned about. One half of `ResolverSound` goes down the rank: what resolves has met
nothing broken, and a name met inside itself is an error. The other half needs that
`Reach` is closed: each of its rounds adds a text or name or changes nothing, and there are as many
rounds as texts and names.

**Loading.** `IncludeSound` is proved of every tree, not of the instance's. The walks below a walk
that can be read are itself and, for each of its turns, those below that hop (`BelowSplits`); what
comes from an earlier turn precedes what comes from a later one (`PartPrecedes`). `Stands` is what a config
has gathered from a set of walks, and merging the configs of two sets, all of the first before all of the
second, stands for their union (`StandsMerges`): a group of the first has as many ahead of it as before,
one of the second has all of the first ahead of it too (`AheadSplits`), and of the settings the later
one wins. `Right` adds when there
is such a config at all, and is carried over the turns of one file (`RightIncluded`) and then from the
deepest chains up (`ExpandRight`). It says of a walk that goes round only that it is an error;
that the depth limit alone would have found it (`RoundIsEndless`: each file of the round
includes another of it, so there are walks of every length) makes the two sides meet, and shows
that the cycle check decides which error is reported, never whether there is one.

**Dependencies** (`DepsInv`). The types alone need that a tree of includes loads to a config
of groups, by induction from the deepest chain of files up: a chain past `MaxDepth` includes
nothing more. `SharesInv` and `SourceInv` say what the source in hand is: its entries are all
cargo's or all its manager's, it has been noted as used, and winget has installed what it has been
handed. Three invariants carry the properties through a run. `EachAccounted`: for every entry,
the lists of the report and what is still to do (`Unsettled`: the batch, then the queue) together
hold it as often as it was asked for - at the start because the shares `sources` makes of a group are
all of it, then because each stage moves entries from one to the other. `NothingForgotten`:
while nothing has failed, an entry that is due is on the machine or waits for its source.
`CargoInv`: a cargo that an install of the run has brought is on its PATH, or is registered and the
refresh is still to come, or that has failed. `EachSettled` needs the counting at the end only;
the invariant has to say it at every stage, since a failure may send the batch to the report at any of them.
`ToolchainIsFound` then needs that the answer "no cargo" is given only in the stages that ask
(`QueriesLookUp`).

**Induction** over data is derived, not taken from the library, whose induction theorems have an
operator for a parameter: that strict inclusion of finite sets is well-founded gives `Least`, that
gives `Induct` (for a set of numbers, up to a bound) and that gives `Recursion`, that a function
defined by recursion on `0..n` exists. With them a recursive function like `Among` or `eval`
can be unfolded by lemma. Where a property goes
through such a function the model uses it and not `SelectSeq`.

**Assumptions**: the named `ASSUME`s of the modules (distinct sentinels, `Host` a
platform, configs, remotes, edits and command lines well typed, destinations of configs in
`Place`, `Proc` and `Adopter` disjoint, `Before` an order of commits, some package that brings
git and none that brings git and cargo; finitely many texts and names, a fallback shorter than
its text; includes that are files and lists that are lists), which TLC evaluates on
the instances; SHA-256 injective; an atomic rename in a copy and in a manifest save; and, where
the table says FALSE, commands and edits one at a time.

**Only model-checked**: `JobsEnd`, because liveness and its fairness are beyond the prover.

## 5. What is left out

- The JSON and TOML text, paths as strings, reports and exit codes, logging.
- `hash_src`, `repo_commit` and the manifest's timestamps: nothing reads them back.
- A copy is atomic (the code writes a temporary file and renames it). Symlinked
  destinations, modes and directories are not told apart from plain files.
- Untracked files in `update`, which gix's `is_dirty` does not see: what its checkout does with
  one in the way is outside this repository, and is taken to overwrite it.
- Errors while reading the child's output, and grandchildren that keep a pipe open.
- Predicates are nondeterministic wherever `Hooks` evaluates them, twice for a
  hook; `Predicate` has what they mean.
- In `Setup` a section's write is one atomic step (it is one rename), and a template's source stands for its
  content, whose placeholders, where read back, are on `$key = {{key}}` lines. A file sets each variable once;
  a `Wrapped` variable of a gitconfig ends a section setup does not otherwise ask about, and what is
  under a header setup cannot parse joins the section before it, where it has no namesake. The `setup` of `setup.rs` that takes no destinations is called by nothing but tests.
- In `Deploy` and `Adopt`, hashing a file once it is copied (`HashCopy`, which also hashes the source),
  copying an edit with its hash (`CopyEdit`) and recording an import (`RecordImport`) are one step
  each; failures inside them are `Abort`s, before or after the step.
- In `Update`, gix's status, merge and stash are external: `IsDirty`, `Combine` and `StashPush` say what
  of them is assumed.
- In `RepoInit`, a directory that cannot be read, which the emptiness check takes for an empty one, and what happens to a directory between init's check and its clone.
- In `Packages`, arguments and output formats; versions of crates, dnf's `@groups` (which
  are never seen installed) and virtual packages; a query that fails where the exit
  status is the answer says "no" only of what is not there.
- In `Include`, glob syntax, canonical paths (two names of a file are the file) and TOML.
- Of doctor, the detected package manager, which is information, and whether the
  manifest file is there at all: it is after any link, where `LinkLeavesGreen` looks.
- notify and battery: wrappers over one platform command or file each. A
  notification succeeds or fails in `Runner`.

## 6. Plan

Order of work, the most important behaviour first:

1. *(done)* `Manifest`, `Copy`, `Store`, `Deploy`, `Adopt`, `Krypt` with the runs
   `krypt` and `race`; `KryptInv`, `KryptTypes`, `KryptProofs`.
2. *(done)* `Update` with `update`; `Exec`, `Runner`, `Dispatch`, `Hooks` with
   `hooks`.
3. *(done)* `Paths`, `Predicate`, `Setup`, `RepoInit`, `Bootstrap` with `setup`.
4. *(done)* `Include`, `Packages`, `Deps` with `deps`.
5. *(done)* `Custody`, `KryptRefines`, `Doctor`, checked in `krypt`.
6. *(done)* Proofs of `Krypt`'s convergence, dry runs, sources and refinement.
7. *(done)* Proofs of `Update`, `Hooks` and `Bootstrap`.
8. *(done)* Proofs of `Deps`: types, `ReportTrue`, `ToolchainReached`, and `EachSettled` by
   counting.
9. *(done)* Proofs of `UnattendedStable`, `ResolverSound` and `LoadSound`, the properties that
   are inductions over data.
10. What no run asks yet: the hazards of `PROJECT.json` that have a note in place of a property.
