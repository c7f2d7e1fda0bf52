------------------------------- MODULE Update -------------------------------
(***************************************************************************)
(* krypt update (krypt-core/src/update.rs): stash the work tree's          *)
(* uncommitted changes, fetch, fast-forward the branch and the work tree,  *)
(* restore the stash, link.  Every git operation is gix's; what gix does   *)
(* is modelled from what the code says it relies on.                       *)
(*                                                                         *)
(*   check - stash - (reset)* - fetch - fast-forward - (path)* - index     *)
(*         - pop - link                                                    *)
(***************************************************************************)
EXTENDS Sequences, Naturals

CONSTANTS
    Path,      \* files of the repo
    Blob,      \* what a file can hold
    Gone,      \* no such file
    Markers,   \* a file with merge conflict markers
    Commit,    \* the commits there may be
    Tree,      \* the files of each commit
    Before,    \* <<a, b>>: a is b or an ancestor of b
    Combine,   \* gix's merge of two changes of one file, given their base: a
               \* file with both, or the markers of a conflict
    MaxTouches, \* bound on the user's and the remote's steps
    MaxStash    \* bound on the entries of the stash

WorkFile == Blob \cup {Gone, Markers}
Files == [Path -> WorkFile]

ASSUME UpdateAssumption ==
    /\ Gone \notin Blob /\ Markers \notin Blob /\ Gone # Markers
    /\ Tree \in [Commit -> [Path -> Blob \cup {Gone}]]
    /\ Before \subseteq Commit \X Commit
    /\ \A c \in Commit : <<c, c>> \in Before
    /\ \A a, b, c \in Commit : <<a, b>> \in Before /\ <<b, c>> \in Before => <<a, c>> \in Before
    /\ Combine \in [Blob \X Blob \X Blob -> Blob \cup {Markers}]
    /\ MaxTouches \in Nat /\ MaxStash \in Nat

StashEntry == [base : Commit, files : Files]

VARIABLES
    head,      \* the commit the local branch names
    index,     \* the index
    work,      \* the work tree
    stash,     \* refs/stash, latest first
    remote,    \* the branch at the remote
    tracking,  \* what was last fetched of it
    step,      \* where update is
    stash_oid, \* the entry this run has pushed, if any: << >> or <<entry>>
    todo,      \* the paths it has still to bring to the new commit
    opts,      \* its options
    outcome,   \* how the last run ended
    mine,      \* history: what the user has put at each path, or a clean merge
               \* has made of it, not overwritten or lost as an untracked file since
    torn,      \* history: a run left the work tree behind its branch
    beside,    \* history: the user has stashed something during the run
    touches    \* user and remote steps taken

vars == <<head, index, work, stash, remote, tracking, step, stash_oid, todo,
          opts, outcome, mine, torn, beside, touches>>

Options == [dry : BOOLEAN, no_stash : BOOLEAN]
StepName == {"idle", "check", "stash", "reset", "fetch", "resolve", "tree", "pop", "link", "hooks"}

\* "stopped": an error of the pull, or a crash; "kept": AutoStashConflict.
Outcome == {"none", "ok", "refused", "stopped", "kept", "unlinked"}

TypeOK ==
    /\ head \in Commit /\ remote \in Commit /\ tracking \in Commit
    /\ index \in [Path -> Blob \cup {Gone}] /\ work \in Files
    /\ stash \in Seq(StashEntry)
    /\ step \in StepName
    /\ stash_oid \in Seq(StashEntry) /\ Len(stash_oid) <= 1
    /\ todo \in SUBSET Path
    /\ opts \in Options
    /\ outcome \in Outcome
    /\ mine \in [Path -> SUBSET WorkFile]
    /\ torn \in BOOLEAN /\ beside \in BOOLEAN
    /\ touches \in Nat

\* A clone with nothing uncommitted, somewhere on the remote's branch or off it.
Init ==
    /\ head \in Commit /\ remote \in Commit
    /\ tracking = head
    /\ index = Tree[head] /\ work = Tree[head]
    /\ stash = << >>
    /\ step = "idle"
    /\ stash_oid = << >>
    /\ todo = {}
    /\ opts = [dry |-> FALSE, no_stash |-> FALSE]
    /\ outcome = "none"
    /\ mine = [p \in Path |-> {}]
    /\ torn = FALSE /\ beside = FALSE
    /\ touches = 0

git == <<head, index, work, stash, remote, tracking>>
run == <<stash_oid, todo, opts>>
history == <<mine, torn, beside, touches>>

\* Untracked files do not make the work tree dirty.
Dirty ==
    \/ index # Tree[head]
    \/ \E p \in Path : index[p] # Gone /\ work[p] # index[p]

(***************************************************************************)
(* The user and the remote                                                 *)
(***************************************************************************)
Touch == step = "idle" /\ touches < MaxTouches /\ touches' = touches + 1

\* A tracked file is edited or deleted.
EditFile(p, f) ==
    /\ Touch
    /\ index[p] # Gone
    /\ work[p] # f
    /\ work' = [work EXCEPT ![p] = f]
    /\ mine' = [mine EXCEPT ![p] = (@ \ {work[p]}) \cup ({f} \ {Tree[head][p]})]
    /\ UNCHANGED <<head, index, stash, remote, tracking, step, run, outcome, torn, beside>>

\* git commit -a.
CommitAll(c) ==
    /\ Touch
    /\ head # c /\ <<head, c>> \in Before
    /\ work = Tree[c]
    /\ head' = c
    /\ index' = Tree[c]
    /\ UNCHANGED <<work, stash, remote, tracking, step, run, outcome, mine, torn, beside>>

Push(c) ==
    /\ Touch
    /\ remote # c
    /\ remote' = c
    /\ UNCHANGED <<head, index, work, stash, tracking, step, run, outcome, mine, torn, beside>>

\* While update waits for the remote, or before it pops, the user edits a
\* tracked file and runs git stash in another terminal.
StashBeside(p, f) ==
    /\ step \in {"fetch", "resolve", "pop"} /\ ~Dirty
    /\ touches < MaxTouches /\ touches' = touches + 1
    /\ index[p] # Gone /\ f # index[p]
    /\ Len(stash) < MaxStash
    /\ stash' = <<[base |-> head, files |-> [index EXCEPT ![p] = f]]>> \o stash
    /\ mine' = [mine EXCEPT ![p] = @ \cup {f}]
    /\ beside' = TRUE
    /\ UNCHANGED <<head, index, work, remote, tracking, step, run, outcome, torn>>

(***************************************************************************)
(* update                                                                  *)
(***************************************************************************)
Start(o) ==
    /\ step = "idle"
    /\ step' = "check"
    /\ opts' = o
    /\ stash_oid' = << >>
    /\ todo' = {}
    /\ outcome' = "none"
    /\ beside' = FALSE
    /\ UNCHANGED <<git, mine, torn, touches>>

Finish(o) ==
    /\ step' = "idle"
    /\ outcome' = o
    /\ UNCHANGED <<git, run, history>>

\* is_dirty says of no changed work tree that it is clean, but may take an
\* unchanged one for dirty.
IsDirty == {Dirty, TRUE}

Refuse ==
    /\ step = "check"
    /\ opts.no_stash /\ TRUE \in IsDirty
    /\ Finish("refused")

CheckDirty ==
    /\ step = "check"
    /\ \E dirty \in IsDirty :
          /\ ~(dirty /\ opts.no_stash)
          /\ step' = IF opts.dry THEN "link" ELSE IF dirty THEN "stash" ELSE "fetch"
    /\ UNCHANGED <<git, run, outcome, history>>

\* What gix finds to stash, untracked files included.
LocalChanges == index # Tree[head] \/ work # Tree[head]

\* The work tree as it is goes on the stash, before any file of it is touched.
StashPush ==
    /\ step = "stash" /\ LocalChanges
    /\ Len(stash) < MaxStash
    /\ LET e == [base |-> head, files |-> work]
       IN  stash' = <<e>> \o stash /\ stash_oid' = <<e>>
    /\ todo' = Path
    /\ step' = "reset"
    /\ UNCHANGED <<head, index, work, remote, tracking, opts, outcome, history>>

\* gix's NoLocalChanges: the tree was clean after all.
StashNothing ==
    /\ step = "stash" /\ ~LocalChanges
    /\ step' = "fetch"
    /\ UNCHANGED <<git, run, outcome, history>>

\* File by file, the work tree goes back to the branch's commit.
ResetPath(p) ==
    /\ step = "reset" /\ p \in todo
    /\ work' = [work EXCEPT ![p] = Tree[head][p]]
    /\ todo' = todo \ {p}
    /\ UNCHANGED <<head, index, stash, remote, tracking, step, stash_oid, opts, outcome, history>>

\* The index on disk stays as it was: gix works on a copy.
ResetDone ==
    /\ step = "reset" /\ todo = {}
    /\ step' = "fetch"
    /\ UNCHANGED <<git, run, outcome, history>>

Fetch ==
    /\ step = "fetch"
    /\ tracking' = remote
    /\ step' = "resolve"
    /\ UNCHANGED <<head, index, work, stash, remote, run, outcome, history>>

\* Where a pulled, or an up-to-date, work tree goes next.
AfterPull == IF stash_oid # << >> THEN "pop" ELSE "link"

UpToDate ==
    /\ step = "resolve"
    /\ head = tracking
    /\ step' = AfterPull
    /\ UNCHANGED <<git, run, outcome, history>>

NotFastForward ==
    /\ step = "resolve"
    /\ <<head, tracking>> \notin Before
    /\ Finish("stopped")

\* Mutant: any fetched commit is taken.
FastForwardAny ==
    /\ step = "resolve"
    /\ head # tracking
    /\ head' = tracking
    /\ todo' = Path
    /\ step' = "tree"
    /\ UNCHANGED <<index, work, stash, remote, tracking, stash_oid, opts, outcome, history>>

\* The branch is moved first, the work tree follows.
FastForward ==
    /\ step = "resolve"
    /\ head # tracking /\ <<head, tracking>> \in Before
    /\ head' = tracking
    /\ todo' = Path
    /\ step' = "tree"
    /\ UNCHANGED <<index, work, stash, remote, tracking, stash_oid, opts, outcome, history>>

\* Paths the new commit drops come first.
Due(p) == Tree[head][p] # Gone => \A q \in todo : Tree[head][q] # Gone

\* Mutant: files the new commit drops are left in the work tree.
UpdatePathNoDelete(p) ==
    /\ step = "tree"
    /\ p \in todo /\ Due(p)
    /\ work' = [work EXCEPT ![p] = IF Tree[head][p] # Gone THEN Tree[head][p] ELSE @]
    /\ todo' = todo \ {p}
    /\ UNCHANGED <<head, index, stash, remote, tracking, step, stash_oid, opts, outcome, history>>

\* A file of the new commit is checked out; one of the index that it does
\* not have is removed.  An untracked file in the way, if none was stashed, is
\* written over.
UpdatePath(p) ==
    /\ step = "tree"
    /\ p \in todo /\ Due(p)
    /\ work' = [work EXCEPT ![p] =
                   IF Tree[head][p] # Gone \/ index[p] # Gone THEN Tree[head][p] ELSE @]
    /\ mine' = IF stash_oid = << >> /\ index[p] = Gone /\ work[p] \notin {Gone, work'[p]}
               THEN [mine EXCEPT ![p] = @ \ {work[p]}] ELSE mine
    /\ todo' = todo \ {p}
    /\ UNCHANGED <<head, index, stash, remote, tracking, step, stash_oid, opts, outcome,
                   torn, beside, touches>>

\* A file that cannot be removed stays: the error is dropped.
RemovePathFails(p) ==
    /\ step = "tree"
    /\ p \in todo
    /\ Tree[head][p] = Gone /\ index[p] # Gone
    /\ todo' = todo \ {p}
    /\ torn' = TRUE
    /\ UNCHANGED <<git, step, stash_oid, opts, outcome, mine, beside, touches>>

WriteIndex ==
    /\ step = "tree" /\ todo = {}
    /\ index' = Tree[head]
    /\ step' = AfterPull
    /\ UNCHANGED <<head, work, stash, remote, tracking, run, outcome, history>>

\* Both the stash and the branch have changed a path, and not alike.
BothChanged(p) ==
    /\ stash[1].files[p] # Tree[stash[1].base][p]
    /\ Tree[head][p] \notin {Tree[stash[1].base][p], stash[1].files[p]}

\* The stash's change of a path, merged into the branch's version: a path
\* both have changed is merged by its contents, unless one side has no file.
Merged(p) ==
    LET base == Tree[stash[1].base][p]
        ours == Tree[head][p]
        theirs == stash[1].files[p]
    IN  CASE theirs = base                           -> ours
          [] ours \in {base, theirs}                 -> theirs
          [] BothChanged(p) /\ {base, ours, theirs} \subseteq Blob
                                                     -> Combine[<<base, ours, theirs>>]
          [] OTHER                                   -> Markers

Conflicting == \E p \in Path : Merged(p) = Markers /\ stash[1].files[p] # Markers

\* A path whose two changes went into one file.
Combined(p) == BothChanged(p) /\ Merged(p) # Markers

\* Mutant: the entry is merged, and left on the stash.
PopApplies ==
    /\ step = "pop"
    /\ ~Conflicting
    /\ work' = [p \in Path |-> Merged(p)]
    /\ step' = "link"
    /\ UNCHANGED <<head, index, stash, remote, tracking, run, outcome, history>>

\* The latest stash is merged into the work tree and dropped, whoever made it.
Pop ==
    /\ step = "pop"
    /\ ~Conflicting
    /\ work' = [p \in Path |-> Merged(p)]
    /\ stash' = Tail(stash)
    /\ step' = "link"
    /\ mine' = [p \in Path |-> IF Combined(p) THEN (mine[p] \ {stash[1].files[p]}) \cup {Merged(p)}
                               ELSE mine[p]]
    /\ UNCHANGED <<head, index, remote, tracking, run, outcome, torn, beside, touches>>

\* Mutant: the merged files are staged, markers and all.
PopConflictsStages ==
    /\ step = "pop"
    /\ Conflicting
    /\ work' = [p \in Path |-> Merged(p)]
    /\ index' = work'
    /\ step' = "idle"
    /\ outcome' = "kept"
    /\ UNCHANGED <<head, stash, remote, tracking, run, history>>

\* Conflicts are left in the work tree, the entry on the stash, and update
\* stops before link.
PopConflicts ==
    /\ step = "pop"
    /\ Conflicting
    /\ work' = [p \in Path |-> Merged(p)]
    /\ step' = "idle"
    /\ outcome' = "kept"
    /\ mine' = [p \in Path |-> IF Combined(p) THEN mine[p] \cup {Merged(p)} ELSE mine[p]]
    /\ UNCHANGED <<head, index, stash, remote, tracking, run, torn, beside, touches>>

\* link succeeds, or fails and ends the run.
Link == step = "link" /\ step' = "hooks" /\ UNCHANGED <<git, run, outcome, history>>
LinkFails == step = "link" /\ Finish("unlinked")

\* Post-update hooks have run: the report, or an UpdateError::Hook.
Hooks == step = "hooks" /\ \E o \in {"ok", "unlinked"} : Finish(o)

\* Any error of the pull: the code's `?` returns at once.
PullFails ==
    /\ step \in {"check", "stash", "reset", "fetch", "resolve", "pop"}
    /\ Finish("stopped")

\* A crash, or an error while the work tree is being brought to the commit.
Stop ==
    /\ step # "idle"
    /\ step' = "idle"
    /\ outcome' = "stopped"
    /\ torn' = (torn \/ step = "tree")
    /\ UNCHANGED <<git, run, mine, beside, touches>>

User ==
    \/ \E p \in Path, f \in WorkFile \ {Markers} : EditFile(p, f) \/ StashBeside(p, f)
    \/ \E c \in Commit : CommitAll(c) \/ Push(c)

Pull ==
    \/ CheckDirty \/ Refuse
    \/ StashPush \/ StashNothing \/ (\E p \in Path : ResetPath(p)) \/ ResetDone
    \/ Fetch
    \/ UpToDate \/ NotFastForward \/ FastForward
    \/ (\E p \in Path : UpdatePath(p) \/ RemovePathFails(p)) \/ WriteIndex
    \/ Pop \/ PopConflicts \/ PullFails

Next ==
    \/ User
    \/ \E o \in Options : Start(o)
    \/ Pull
    \/ Link \/ LinkFails \/ Hooks
    \/ Stop

Spec == Init /\ [][Next]_vars

(***************************************************************************)
(* Safety                                                                  *)
(***************************************************************************)

\* Whatever the user has put at a tracked path and not overwritten is in the
\* work tree, on the stash, or in the branch's history, at every step of a
\* run and after every failed or crashed one.  (A file the index has dropped
\* is untracked: see UpdatePath.)
Committed(p, f) == \E c \in Commit : <<c, head>> \in Before /\ Tree[c][p] = f

EditsKept ==
    \A p \in Path : \A f \in mine[p] :
        \/ work[p] = f
        \/ \E i \in DOMAIN stash : stash[i].files[p] = f
        \/ Committed(p, f)

\* When update comes to link after a stash, the entry it pushed is off the
\* stash, and no other with it, and every change in it is back in the work
\* tree, alone or combined with the branch's own of that file; unless the user
\* has stashed something on top of it during the run.
RestoredBeforeLink ==
    [][step # "link" /\ step' = "link" /\ stash_oid # << >> /\ ~beside =>
         LET e == stash_oid[1]
         IN  /\ stash = <<e>> \o stash'
             /\ \A p \in Path : e.files[p] # Tree[e.base][p] =>
                   \/ work'[p] = e.files[p]
                   \/ /\ Tree[head][p] \notin {Tree[e.base][p], e.files[p]}
                      /\ work'[p] = Combine[<<Tree[e.base][p], Tree[head][p], e.files[p]>>]
                      /\ work'[p] # Markers]_vars

\* What a pull links is the fetched commit and the user's own edits (or the
\* markers of a conflict left unresolved), with nothing left of the commit
\* before it, unless a run was cut short inside the fast-forward.
LinksHead ==
    step = "link" /\ ~opts.dry /\ ~torn =>
        /\ head = tracking
        /\ \A p \in Path : work[p] \in {Tree[head][p], Markers} \cup mine[p]

\* "By default a dirty working tree is auto-stashed before the pull and
\* restored afterwards": a run that stashed has ended with its entry off the
\* stash, or has said so (AutoStashConflict).
StashRestored ==
    step = "idle" /\ stash_oid # << >> /\ outcome # "kept" =>
        \A i \in DOMAIN stash : stash[i] # stash_oid[1]

\* "stashed - true if the working tree was auto-stashed and restored": when a
\* run that has stashed reports success, each change it stashed is in the work
\* tree, unless the branch has changed that file too; whatever the user has
\* stashed meanwhile.
StashedIsRestored ==
    [][step = "hooks" /\ outcome' = "ok" /\ stash_oid # << >> =>
         LET e == stash_oid[1]
         IN  \A p \in Path : \/ e.files[p] \in {Tree[e.base][p], work[p]}
                            \/ Tree[head][p] # Tree[e.base][p]]_vars
=============================================================================
