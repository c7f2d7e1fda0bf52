---------------------------- MODULE BootstrapInv ----------------------------
(***************************************************************************)
(* The inductive invariant of Bootstrap, in named parts: where init is and *)
(* what it has made, and what a setup run has loaded, asked and written.   *)
(***************************************************************************)
EXTENDS Bootstrap

\* What init is to make of the command's path.
Made(c) == IF c.bare THEN Is("stub") ELSE [is |-> "whole", url |-> c.url]

\* Init wipes only under --force, and clones only into what it found free or
\* has begun itself: a path it works on has a record it has outlived, if any.
InitOnCourse ==
    /\ ipc # "idle" => icmd \in InitCmds /\ (icmd.bare \/ icmd.url # NoUrl)
    /\ ipc = "wipe" => icmd.force
    /\ ipc = "make" =>
          \/ dirs[icmd.path].is \in {"absent", "empty", "file"}
          \/ /\ ~icmd.bare /\ icmd.path \in lost
             /\ dirs[icmd.path] = [is |-> "part", url |-> icmd.url]
    /\ ipc \in {"save", "done"} => dirs[icmd.path] = Made(icmd)
    /\ ipc = "done" => toolcfg = [path |-> icmd.path, url |-> IF icmd.bare THEN NoUrl ELSE icmd.url]

RepoInv == RepoInitTypeOK /\ InitOnCourse /\ RecordTruthful

\* One command runs at a time.
OneCommand == ipc = "idle" \/ spc = "idle"

\* The configs a run can have loaded.
Loadable == {Remote[u] : u \in Url} \cup {SourceLess(Remote[u]) : u \in Url} \cup {NoPrompts}

\* Between runs nothing of the last one is left but the files.
Rests ==
    /\ scmd = NoSetup /\ scfg = NoPrompts /\ targets = NoTargets
    /\ queue = << >> /\ fi = 1 /\ collected = << >>
    /\ report = NoReport /\ took = << >> /\ byHand = {}

\* A run works on one config, which passed every check before its first
\* question, and for each section on the file that config gives it.
OnCourse ==
    /\ scfg \in Loadable
    /\ Valid(scfg) /\ Resolves(scfg) /\ NamesKnown(scmd, scfg)
    /\ targets = IF scmd.dry THEN NoTargets ELSE template_targets(scfg)
    /\ spc = "ask" => queue # << >>

\* The answers are to fields of the sections they are kept for.
AnswersTyped ==
    \A s \in DOMAIN took : DOMAIN took[s] \subseteq Key

\* A run that is done has run the hooks its command line and config select.
HooksRun ==
    spc = "done" =>
        report.hooks = IF scmd.skip_hooks \/ scmd.dry THEN {} ELSE ActiveHooks(scfg)

\* While the file of the current section is not edited, --yes has answered
\* the fields so far as it would on what the file holds now.
AnsweringUnattended ==
    spc = "ask" /\ scmd.yes =>
        /\ fi \in 1..(Len(Fields) + 1)
        /\ HasTarget(Current) /\ Target(Current) \notin byHand =>
              UnattendedUpTo(scfg, Current, ReadBy(scfg, Current, OnDisk(Current)))[fi - 1]
                = [failed |-> FALSE, ans |-> collected]

\* The answers of a section that is done are those --yes gives on the file
\* it was written over, and the file is those answers written over it.
WrittenUnattended(s, f) ==
    /\ scfg.writer[s] \in Writer
    /\ scfg.writer[s] = "generic_template" => targets.srcs[s] # NoFile
    /\ Unattended(scfg, s, ReadBy(scfg, s, f)) = [failed |-> FALSE, ans |-> took[s]]
    /\ files[Target(s)] = Written(scfg.writer[s], f, targets.srcs[s], took[s])

AnsweredUnattended ==
    scmd.yes => \A s \in DOMAIN took :
        Done(s) /\ Alone(s) => \E f \in FileRecord \cup {NoFile} : WrittenUnattended(s, f)

SetupInv ==
    /\ SetupTypeOK
    /\ spc = "idle" => Rests
    /\ spc # "idle" => OnCourse
    /\ AnswersTyped /\ HooksRun
    /\ EarlierSectionsWritten
    /\ AnsweringUnattended /\ AnsweredUnattended

BootstrapInv == RepoInv /\ SetupInv /\ OneCommand /\ TypeOK
=============================================================================
