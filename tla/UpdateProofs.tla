---------------------------- MODULE UpdateProofs ----------------------------
(***************************************************************************)
(* update keeps the user's edits, restores what it stashed before it       *)
(* links, and links the fetched commit: for every set of paths, contents   *)
(* and commits, every history and any number of the user's steps.          *)
(***************************************************************************)
EXTENDS UpdateInv, TLAPS

(***************************************************************************)
(* The stash as a sequence, latest first                                   *)
(***************************************************************************)

\* git stash push: the new entry is the latest, the others are one further.
LEMMA Pushed ==
    ASSUME NEW S, NEW e \in S, NEW s \in Seq(S)
    PROVE  /\ <<e>> \o s \in Seq(S)
           /\ <<e>> \o s # << >>
           /\ (<<e>> \o s)[1] = e
           /\ \A i \in DOMAIN (<<e>> \o s) : i = 1 \/ (i - 1 \in DOMAIN s /\ (<<e>> \o s)[i] = s[i - 1])
           /\ \A i \in DOMAIN s : i + 1 \in DOMAIN (<<e>> \o s) /\ (<<e>> \o s)[i + 1] = s[i]
  OBVIOUS

\* git stash drop: the latest entry goes, the others are one nearer.
LEMMA Dropped ==
    ASSUME NEW S, NEW s \in Seq(S), s # << >>
    PROVE  /\ Tail(s) \in Seq(S)
           /\ \A i \in DOMAIN Tail(s) : i + 1 \in DOMAIN s /\ Tail(s)[i] = s[i + 1]
           /\ \A i \in DOMAIN s : i = 1 \/ (i - 1 \in DOMAIN Tail(s) /\ Tail(s)[i - 1] = s[i])
  OBVIOUS

\* The latest entry of a stash that has one.
LEMMA Latest ==
    ASSUME NEW S, NEW s \in Seq(S), s # << >>
    PROVE  s[1] \in S /\ 1 \in DOMAIN s
  OBVIOUS

(***************************************************************************)
(* Types                                                                   *)
(***************************************************************************)

\* A file merged is one of the three, a combination of them or the markers.
LEMMA MergedFile ==
    ASSUME UpdateAssumption, TypeOK, stash # << >>, NEW p \in Path
    PROVE  Merged(p) \in WorkFile
  <1>1. stash[1] \in StashEntry
    BY Latest DEF TypeOK
  <1> DEFINE base == Tree[stash[1].base][p]
             ours == Tree[head][p]
             theirs == stash[1].files[p]
  <1>2. theirs \in WorkFile /\ ours \in WorkFile
    BY <1>1 DEF TypeOK, UpdateAssumption, StashEntry, Files, WorkFile
  <1>3. {base, ours, theirs} \subseteq Blob => Combine[<<base, ours, theirs>>] \in WorkFile
    <2> HIDE DEF base, ours, theirs
    <2> QED
      BY DEF UpdateAssumption, WorkFile
  <1>4. Merged(p) \in {ours, theirs, Markers} \/
           ({base, ours, theirs} \subseteq Blob /\ Merged(p) = Combine[<<base, ours, theirs>>])
    BY DEF Merged, BothChanged
  <1> QED
    BY <1>2, <1>3, <1>4 DEF WorkFile

LEMMA MergedFiles ==
    ASSUME UpdateAssumption, TypeOK, stash # << >>
    PROVE  [p \in Path |-> Merged(p)] \in Files
  BY MergedFile DEF Files

\* What the user and the remote do between runs keeps the types.
LEMMA UserTyped ==
    ASSUME UpdateAssumption, TypeOK, User
    PROVE  TypeOK'
  <1>1. ASSUME NEW p \in Path, NEW f \in WorkFile \ {Markers}, EditFile(p, f)
        PROVE  TypeOK'
    BY <1>1 DEF EditFile, Touch, TypeOK, Files, run
  <1>2. ASSUME NEW c \in Commit, CommitAll(c)
        PROVE  TypeOK'
    BY <1>2 DEF CommitAll, Touch, TypeOK, run, UpdateAssumption
  <1>3. ASSUME NEW c \in Commit, Push(c)
        PROVE  TypeOK'
    BY <1>3 DEF Push, Touch, TypeOK, run
  <1>4. ASSUME NEW p \in Path, NEW f \in WorkFile \ {Markers}, StashBeside(p, f)
        PROVE  TypeOK'
    <2> DEFINE e == [base |-> head, files |-> [index EXCEPT ![p] = f]]
    <2>1. e \in StashEntry
      BY DEF TypeOK, StashEntry, Files, WorkFile
    <2>2. <<e>> \o stash \in Seq(StashEntry)
      BY <2>1, Pushed DEF TypeOK
    <2>3. mine' \in [Path -> SUBSET WorkFile] /\ touches' \in Nat
      BY <1>4 DEF StashBeside, TypeOK
    <2> QED
      BY <1>4, <2>2, <2>3 DEF StashBeside, TypeOK, run
  <1> QED
    BY <1>1, <1>2, <1>3, <1>4 DEF User

\* So does every step of a pull.
LEMMA PullTyped ==
    ASSUME UpdateAssumption, TypeOK, StashOnCourse, Pull
    PROVE  TypeOK'
  <1>1. CASE CheckDirty
    BY <1>1 DEF CheckDirty, TypeOK, StepName, git, run, history
  <1>2. CASE Refuse
    BY <1>2 DEF Refuse, Finish, TypeOK, StepName, Outcome, git, run, history
  <1>3. CASE StashPush
    <2> DEFINE e == [base |-> head, files |-> work]
    <2>1. e \in StashEntry
      BY DEF TypeOK, StashEntry
    <2>2. <<e>> \o stash \in Seq(StashEntry) /\ <<e>> \in Seq(StashEntry) /\ Len(<<e>>) = 1
      BY <2>1, Pushed DEF TypeOK
    <2>3. stash' \in Seq(StashEntry) /\ stash_oid' \in Seq(StashEntry) /\ Len(stash_oid') <= 1
      BY <1>3, <2>2 DEF StashPush
    <2> QED
      BY <1>3, <2>3 DEF StashPush, TypeOK, StepName, history
  <1>4. CASE Fetch
    BY <1>4 DEF Fetch, TypeOK, StepName, run, history
  <1>5. CASE UpToDate
    BY <1>5 DEF UpToDate, AfterPull, TypeOK, StepName, git, run, history
  <1>6. CASE NotFastForward
    BY <1>6 DEF NotFastForward, Finish, TypeOK, StepName, Outcome, git, run, history
  <1>7. CASE FastForward
    BY <1>7 DEF FastForward, TypeOK, StepName, history
  <1>8. ASSUME NEW p \in Path, UpdatePath(p)
        PROVE  TypeOK'
    <2>1. Tree[head][p] \in WorkFile
      BY DEF TypeOK, UpdateAssumption, WorkFile
    <2>2. work' \in Files
      BY <1>8, <2>1 DEF UpdatePath, TypeOK, Files
    <2>3. mine' \in [Path -> SUBSET WorkFile]
      BY <1>8 DEF UpdatePath, TypeOK
    <2> QED
      BY <1>8, <2>2, <2>3 DEF UpdatePath, TypeOK, history
  <1>9. ASSUME NEW p \in Path, RemovePathFails(p)
        PROVE  TypeOK'
    BY <1>9 DEF RemovePathFails, TypeOK, git
  <1>10. CASE WriteIndex
    BY <1>10 DEF WriteIndex, AfterPull, TypeOK, UpdateAssumption, StepName, run, history
  <1>11. CASE Pop
    <2>1. stash # << >>
      BY <1>11 DEF Pop, StashOnCourse, Pulling
    <2>2. stash' \in Seq(StashEntry) /\ work' \in Files
      BY <1>11, <2>1, Dropped, MergedFiles DEF Pop, TypeOK
    <2>3. mine' \in [Path -> SUBSET WorkFile]
      BY <1>11, <2>1, MergedFile DEF Pop, TypeOK
    <2> QED
      BY <1>11, <2>2, <2>3 DEF Pop, TypeOK, StepName, run, history
  <1>12. CASE PopConflicts
    <2>1. stash # << >>
      BY <1>12 DEF PopConflicts, StashOnCourse, Pulling
    <2>2. work' \in Files
      BY <1>12, <2>1, MergedFiles DEF PopConflicts
    <2>3. mine' \in [Path -> SUBSET WorkFile]
      BY <1>12, <2>1, MergedFile DEF PopConflicts, TypeOK
    <2> QED
      BY <1>12, <2>2, <2>3 DEF PopConflicts, TypeOK, StepName, Outcome, run, history
  <1>13. CASE PullFails
    BY <1>13 DEF PullFails, Finish, TypeOK, StepName, Outcome, git, run, history
  <1>14. CASE StashNothing \/ ResetDone
    BY <1>14 DEF StashNothing, ResetDone, TypeOK, StepName, git, run, history
  <1>15. ASSUME NEW p \in Path, ResetPath(p)
         PROVE  TypeOK'
    <2>1. Tree[head][p] \in WorkFile
      BY DEF TypeOK, UpdateAssumption, WorkFile
    <2>2. work' \in Files
      BY <1>15, <2>1 DEF ResetPath, TypeOK, Files
    <2> QED
      BY <1>15, <2>2 DEF ResetPath, TypeOK, history
  <1> QED
    BY <1>1, <1>2, <1>3, <1>4, <1>5, <1>6, <1>7, <1>8, <1>9, <1>10, <1>11, <1>12, <1>13, <1>14,
       <1>15
    DEF Pull

\* And what surrounds it.
LEMMA RestTyped ==
    ASSUME TypeOK,
           (\E o \in Options : Start(o)) \/ Link \/ LinkFails \/ Hooks \/ Stop
    PROVE  TypeOK'
  <1>1. ASSUME NEW o \in Options, Start(o)
        PROVE  TypeOK'
    <2>1. stash_oid' \in Seq(StashEntry) /\ Len(stash_oid') <= 1
      BY <1>1 DEF Start
    <2>2. beside' \in BOOLEAN /\ todo' \in SUBSET Path /\ step' \in StepName /\ outcome' \in Outcome
      BY <1>1 DEF Start, StepName, Outcome
    <2> QED
      BY <1>1, <2>1, <2>2 DEF Start, TypeOK, git
  <1>2. CASE Link
    BY <1>2 DEF Link, TypeOK, StepName, git, run, history
  <1>3. CASE LinkFails \/ Hooks
    BY <1>3 DEF LinkFails, Hooks, Finish, TypeOK, StepName, Outcome, git, run, history
  <1>4. CASE Stop
    BY <1>4 DEF Stop, TypeOK, StepName, Outcome, git, run
  <1> QED
    BY <1>1, <1>2, <1>3, <1>4

LEMMA NextTyped ==
    ASSUME UpdateAssumption, TypeOK, StashOnCourse, [Next]_vars
    PROVE  TypeOK'
  <1>1. CASE UNCHANGED vars
    BY <1>1 DEF vars, TypeOK
  <1> QED
    BY <1>1, UserTyped, PullTyped, RestTyped DEF Next

(***************************************************************************)
(* What is committed stays committed                                       *)
(***************************************************************************)

LEMMA EditsKeptOn ==
    ASSUME UpdateAssumption, EditsKept, UNCHANGED <<work, stash, mine>>,
           head \in Commit, head' \in Commit, <<head, head'>> \in Before
    PROVE  EditsKept'
  <1>1. SUFFICES ASSUME NEW p \in Path, NEW f \in mine[p], Committed(p, f)
                 PROVE  Committed(p, f)'
    BY DEF EditsKept
  <1>2. PICK c \in Commit : <<c, head>> \in Before /\ Tree[c][p] = f
    BY <1>1 DEF Committed
  <1> QED
    BY <1>2 DEF Committed, UpdateAssumption

LEMMA HeadCommitted ==
    ASSUME UpdateAssumption, head \in Commit, NEW p \in Path
    PROVE  Committed(p, Tree[head][p])
  BY DEF Committed, UpdateAssumption

(***************************************************************************)
(* The user                                                                *)
(***************************************************************************)

\* An edit takes the place of what it overwrites, in the tree and in mine.
LEMMA EditKeeps ==
    ASSUME UpdateAssumption, TypeOK, RunInv,
           NEW p \in Path, NEW f \in WorkFile, EditFile(p, f)
    PROVE  RunInv'
  <1>1. /\ step = "idle" /\ step' = "idle"
        /\ UNCHANGED <<head, index, stash, stash_oid, torn, beside>>
        /\ work' = [work EXCEPT ![p] = f]
        /\ mine' = [mine EXCEPT ![p] = (@ \ {work[p]}) \cup ({f} \ {Tree[head][p]})]
    BY DEF EditFile, Touch, run
  <1>2. PullInv'
    <2>1. \A q \in Path : Own(q) => Own(q)'
      BY <1>1 DEF Own, TypeOK, Files
    <2>2. OwnFiles'
      BY <1>1, <2>1 DEF RunInv, PullInv, OwnFiles, Pulling
    <2> QED
      BY <1>1, <2>2 DEF RunInv, PullInv, StashOnCourse, StashBehind, ResetOnCourse, CleanToPull,
                        TreeOnCourse, PopOnCourse, TracksHead, Pulling, Stashed
  <1>3. EditsKept'
    <2> SUFFICES ASSUME NEW q \in Path, NEW x \in mine'[q]
                 PROVE  \/ work'[q] = x
                        \/ \E i \in DOMAIN stash : stash[i].files[q] = x
                        \/ \E c \in Commit : <<c, head>> \in Before /\ Tree[c][q] = x
      BY <1>1 DEF EditsKept, Committed
    <2>1. CASE q # p
      BY <1>1, <2>1 DEF RunInv, EditsKept, Committed, TypeOK, Files
    <2>2. CASE q = p /\ x = f
      BY <1>1, <2>2 DEF TypeOK, Files
    <2>3. CASE q = p /\ x # f
      BY <1>1, <2>3 DEF RunInv, EditsKept, Committed, TypeOK, Files
    <2> QED
      BY <2>1, <2>2, <2>3
  <1> QED
    BY <1>1, <1>2, <1>3 DEF RunInv, LinksHead

\* A commit moves the branch on, to what the work tree holds.
LEMMA CommitKeeps ==
    ASSUME UpdateAssumption, TypeOK, RunInv, NEW c \in Commit, CommitAll(c)
    PROVE  RunInv'
  <1>1. /\ step = "idle" /\ step' = "idle"
        /\ <<head, c>> \in Before /\ head' = c /\ head \in Commit
        /\ work = Tree[c] /\ index' = Tree[c]
        /\ UNCHANGED <<work, stash, stash_oid, mine, torn, beside>>
    BY DEF CommitAll, Touch, run, TypeOK
  <1>2. StashBehind'
    BY <1>1, UpdateAssumption DEF RunInv, PullInv, StashBehind, TypeOK, StashEntry,
                                  UpdateAssumption
  <1>3. OwnFiles'
    BY <1>1 DEF RunInv, PullInv, OwnFiles, Own, Pulling
  <1>4. EditsKept'
    BY <1>1, EditsKeptOn DEF RunInv
  <1> QED
    BY <1>1, <1>2, <1>3, <1>4
    DEF RunInv, PullInv, StashOnCourse, ResetOnCourse, CleanToPull, TreeOnCourse, PopOnCourse,
        TracksHead,
        Pulling, Stashed, LinksHead

LEMMA PushKeeps ==
    ASSUME RunInv, NEW c \in Commit, Push(c)
    PROVE  RunInv'
  BY DEF Push, Touch, run, RunInv, PullInv, StashOnCourse, StashBehind, ResetOnCourse,
         CleanToPull,
         TreeOnCourse, PopOnCourse, OwnFiles, Own, TracksHead, Pulling, Stashed, EditsKept,
         Committed, LinksHead

(***************************************************************************)
(* The ends of a run, and its beginning                                    *)
(***************************************************************************)

\* A run that ends, well or not, leaves everything where it is; one that is
\* cut short inside the fast-forward says so.
LEMMA EndKeeps ==
    ASSUME RunInv, UNCHANGED <<git, stash_oid, mine>>, step' = "idle",
           step = "tree" => torn', torn => torn', beside => beside'
    PROVE  RunInv'
  BY DEF git, RunInv, PullInv, StashOnCourse, StashBehind, ResetOnCourse, CleanToPull,
         TreeOnCourse,
         PopOnCourse, OwnFiles, Own, TracksHead, Pulling, Stashed, EditsKept, Committed, LinksHead

LEMMA Ends ==
    ASSUME RunInv,
           Refuse \/ NotFastForward \/ PullFails \/ LinkFails \/ Hooks \/ Stop
    PROVE  RunInv'
  <1>1. CASE Stop
    <2>1. /\ UNCHANGED <<git, stash_oid, mine, beside>>
          /\ step' = "idle" /\ torn' = (torn \/ step = "tree")
      BY <1>1 DEF Stop, run
    <2> QED
      BY <2>1, EndKeeps
  <1>2. CASE Refuse \/ NotFastForward \/ PullFails \/ LinkFails \/ Hooks
    <2>1. /\ UNCHANGED <<git, stash_oid, mine, torn, beside>>
          /\ step' = "idle" /\ step # "tree"
      BY <1>2 DEF Refuse, NotFastForward, PullFails, LinkFails, Hooks, Finish, run, history
    <2> QED
      BY <2>1, EndKeeps
  <1> QED
    BY <1>1, <1>2

LEMMA StartKeeps ==
    ASSUME RunInv, NEW o \in Options, Start(o)
    PROVE  RunInv'
  BY DEF Start, git, history, RunInv, PullInv, StashOnCourse, StashBehind, ResetOnCourse,
         CleanToPull,
         TreeOnCourse, PopOnCourse, OwnFiles, Own, TracksHead, Pulling, Stashed, EditsKept,
         Committed, LinksHead

LEMMA LinkKeeps ==
    ASSUME RunInv, Link
    PROVE  RunInv'
  BY DEF Link, git, run, history, RunInv, PullInv, StashOnCourse, StashBehind, ResetOnCourse,
         CleanToPull,
         TreeOnCourse, PopOnCourse, OwnFiles, Own, TracksHead, Pulling, Stashed, EditsKept,
         Committed, LinksHead

(***************************************************************************)
(* The pull                                                                *)
(***************************************************************************)

\* A tree that is not dirty is clean to pull over.
LEMMA CheckKeeps ==
    ASSUME RunInv, CheckDirty
    PROVE  RunInv'
  <1>1. /\ step = "check" /\ ~Stashed
        /\ UNCHANGED <<git, run, history>>
        /\ \/ step' = "link" /\ opts.dry
           \/ step' = "stash"
           \/ step' = "fetch" /\ ~Dirty
    <2>1. PICK dirty \in IsDirty :
             step' = IF opts.dry THEN "link" ELSE IF dirty THEN "stash" ELSE "fetch"
      BY DEF CheckDirty
    <2>2. ~dirty => ~Dirty
      BY DEF IsDirty
    <2> QED
      BY <2>1, <2>2 DEF CheckDirty, RunInv, PullInv, StashOnCourse
  <1>2. CleanToPull'
    BY <1>1 DEF git, run, ResetOnCourse, CleanToPull, Dirty, Stashed
  <1>3. StashOnCourse' /\ OwnFiles'
    BY <1>1 DEF git, run, history, RunInv, PullInv, StashOnCourse, OwnFiles, Own, Pulling, Stashed
  <1>4. LinksHead'
    BY <1>1 DEF git, run, history, LinksHead, Stashed
  <1> QED
    BY <1>1, <1>2, <1>3, <1>4
    DEF git, run, history, RunInv, PullInv, StashBehind, ResetOnCourse, TreeOnCourse, PopOnCourse,
        TracksHead, EditsKept, Committed

\* What the work tree holds is the latest entry, made at the branch's commit.
LEMMA StashKeeps ==
    ASSUME UpdateAssumption, TypeOK, RunInv, StashPush
    PROVE  RunInv'
  <1> DEFINE e == [base |-> head, files |-> work]
  <1>1. /\ step = "stash" /\ step' = "reset" /\ todo' = Path
        /\ stash' = <<e>> \o stash /\ stash_oid' = <<e>>
        /\ UNCHANGED <<head, index, work, mine, torn, beside>>
    BY DEF StashPush, history
  <1>2. e \in StashEntry /\ head \in Commit /\ stash \in Seq(StashEntry)
    BY DEF TypeOK, StashEntry
  <1>3. /\ stash' # << >> /\ stash'[1] = e
        /\ \A i \in DOMAIN stash' : i = 1 \/ (i - 1 \in DOMAIN stash /\ stash'[i] = stash[i - 1])
        /\ \A i \in DOMAIN stash : i + 1 \in DOMAIN stash' /\ stash'[i + 1] = stash[i]
        /\ 1 \in DOMAIN stash'
    BY <1>1, <1>2, Pushed
  <1>4. StashOnCourse' /\ ResetOnCourse' /\ CleanToPull'
    BY <1>1, <1>3 DEF StashOnCourse, ResetOnCourse, CleanToPull, Pulling, Stashed
  <1>5. StashBehind'
    <2>1. <<head, head>> \in Before
      BY <1>2 DEF UpdateAssumption
    <2> QED
      BY <1>1, <1>3, <2>1 DEF RunInv, PullInv, StashBehind
  <1>6. OwnFiles'
    BY <1>1, <1>3 DEF RunInv, PullInv, OwnFiles, Own
  <1>7. EditsKept'
    <2> SUFFICES ASSUME NEW q \in Path, NEW x \in mine[q]
                 PROVE  \/ work[q] = x
                        \/ \E i \in DOMAIN stash' : stash'[i].files[q] = x
                        \/ Committed(q, x)
      BY <1>1 DEF EditsKept, Committed
    <2>1. CASE \E i \in DOMAIN stash : stash[i].files[q] = x
      BY <1>3, <2>1
    <2> QED
      BY <2>1 DEF RunInv, EditsKept
  <1> QED
    BY <1>1, <1>4, <1>5, <1>6, <1>7
    DEF RunInv, PullInv, TreeOnCourse, PopOnCourse, TracksHead, LinksHead

\* Nothing to stash: the work tree is the branch's commit.
LEMMA NothingKeeps ==
    ASSUME RunInv, StashNothing
    PROVE  RunInv'
  BY DEF StashNothing, LocalChanges, git, run, history, RunInv, PullInv, StashOnCourse,
         StashBehind, ResetOnCourse, CleanToPull, TreeOnCourse, PopOnCourse, OwnFiles, Own,
         TracksHead, Pulling, Stashed, EditsKept, Committed, LinksHead

\* A file that goes back to the branch's version is on the stash as it was.
LEMMA ResetKeeps ==
    ASSUME TypeOK, RunInv, NEW p \in Path, ResetPath(p)
    PROVE  RunInv'
  <1>1. /\ step = "reset" /\ step' = "reset"
        /\ p \in todo /\ todo' = todo \ {p}
        /\ work' = [work EXCEPT ![p] = Tree[head][p]]
        /\ UNCHANGED <<head, index, stash, stash_oid, mine, torn, beside>>
    BY DEF ResetPath, history
  <1>2. work'[p] = Tree[head][p] /\ \A q \in Path : q # p => work'[q] = work[q]
    BY <1>1 DEF TypeOK, Files
  <1>3. ResetOnCourse'
    BY <1>1, <1>2 DEF RunInv, PullInv, ResetOnCourse, TypeOK
  <1>4. OwnFiles'
    BY <1>1, <1>2 DEF RunInv, PullInv, OwnFiles, Own, Pulling, Stashed
  <1>5. stash[1].files[p] = work[p] /\ 1 \in DOMAIN stash
    BY <1>1, Latest DEF RunInv, PullInv, ResetOnCourse, StashOnCourse, Pulling, TypeOK
  <1>6. EditsKept'
    <2> SUFFICES ASSUME NEW q \in Path, NEW x \in mine[q]
                 PROVE  \/ work'[q] = x
                        \/ \E i \in DOMAIN stash : stash[i].files[q] = x
                        \/ Committed(q, x)
      BY <1>1 DEF EditsKept, Committed
    <2>1. CASE q = p /\ work[p] = x
      BY <1>5, <2>1
    <2> QED
      BY <1>2, <2>1 DEF RunInv, EditsKept
  <1> QED
    BY <1>1, <1>3, <1>4, <1>6
    DEF RunInv, PullInv, StashOnCourse, StashBehind, CleanToPull, TreeOnCourse, PopOnCourse,
        TracksHead, LinksHead, Pulling, Stashed

\* Every file is the branch's.
LEMMA ResetDoneKeeps ==
    ASSUME RunInv, ResetDone
    PROVE  RunInv'
  BY DEF ResetDone, git, run, history, RunInv, PullInv, StashOnCourse, StashBehind,
         ResetOnCourse, CleanToPull, TreeOnCourse, PopOnCourse, OwnFiles, Own, TracksHead,
         Pulling, Stashed, EditsKept, Committed, LinksHead

\* What the user stashes meanwhile is one entry more, on top.
LEMMA BesideKeeps ==
    ASSUME UpdateAssumption, TypeOK, RunInv,
           NEW p \in Path, NEW f \in WorkFile, StashBeside(p, f)
    PROVE  RunInv'
  <1> DEFINE e == [base |-> head, files |-> [index EXCEPT ![p] = f]]
  <1>1. /\ step \in {"fetch", "resolve", "pop"} /\ step' = step
        /\ index = Tree[head] /\ beside'
        /\ stash' = <<e>> \o stash
        /\ mine' = [mine EXCEPT ![p] = @ \cup {f}]
        /\ UNCHANGED <<head, index, work, tracking, stash_oid, torn>>
    BY DEF StashBeside, Dirty, run
  <1>2. e.base = head /\ e.files = [index EXCEPT ![p] = f]
    OBVIOUS
  <1>3. /\ stash' # << >> /\ stash'[1] = e
        /\ \A i \in DOMAIN stash' : i = 1 \/ (i - 1 \in DOMAIN stash /\ stash'[i] = stash[i - 1])
        /\ \A i \in DOMAIN stash : i + 1 \in DOMAIN stash' /\ stash'[i + 1] = stash[i]
        /\ 1 \in DOMAIN stash'
    <2>1. stash \in Seq(StashEntry) /\ e \in StashEntry
      BY DEF TypeOK, StashEntry, Files, WorkFile
    <2> HIDE DEF e
    <2> QED
      BY <1>1, <2>1, Pushed
  <1>4. /\ mine'[p] = mine[p] \cup {f}
        /\ \A q \in Path : q # p => mine'[q] = mine[q]
        /\ e.files[p] = f
        /\ \A q \in Path : q # p => e.files[q] = Tree[head][q]
    BY <1>1, <1>2 DEF TypeOK
  <1> HIDE DEF e
  <1>5. StashBehind'
    <2>1. <<head, head>> \in Before
      BY DEF UpdateAssumption, TypeOK
    <2> QED
      BY <1>1, <1>2, <1>3, <2>1 DEF RunInv, PullInv, StashBehind
  <1>6. OwnFiles'
    <2>1. \A q \in Path : Own(q) => Own(q)'
      BY <1>1, <1>4 DEF Own
    <2>2. \A q \in Path : stash'[1].files[q] \in {Tree[stash'[1].base][q], Markers} \cup mine'[q]
      BY <1>2, <1>3, <1>4
    <2> QED
      BY <1>1, <2>1, <2>2 DEF RunInv, PullInv, OwnFiles
  <1>7. EditsKept'
    <2> SUFFICES ASSUME NEW q \in Path, NEW x \in mine'[q]
                 PROVE  \/ work[q] = x
                        \/ \E i \in DOMAIN stash' : stash'[i].files[q] = x
                        \/ Committed(q, x)
      BY <1>1 DEF EditsKept, Committed
    <2>1. CASE q = p /\ x = f
      BY <1>3, <1>4, <2>1
    <2>2. CASE x \in mine[q]
      <3>1. CASE \E i \in DOMAIN stash : stash[i].files[q] = x
        BY <1>3, <3>1
      <3> QED
        BY <2>2, <3>1 DEF RunInv, EditsKept
    <2> QED
      BY <1>4, <2>1, <2>2
  <1> QED
    BY <1>1, <1>3, <1>5, <1>6, <1>7
    DEF RunInv, PullInv, StashOnCourse, ResetOnCourse, CleanToPull, TreeOnCourse, PopOnCourse,
        TracksHead, Pulling, Stashed, Committed, LinksHead

LEMMA FetchKeeps ==
    ASSUME RunInv, Fetch
    PROVE  RunInv'
  BY DEF Fetch, run, history, RunInv, PullInv, StashOnCourse, StashBehind, ResetOnCourse,
         CleanToPull,
         TreeOnCourse, PopOnCourse, OwnFiles, Own, TracksHead, Pulling, Stashed, EditsKept,
         Committed, LinksHead

\* Nothing to pull: the branch is at the fetched commit as it stands.
LEMMA UpToDateKeeps ==
    ASSUME UpdateAssumption, TypeOK, RunInv, UpToDate
    PROVE  RunInv'
  <1>1. /\ step = "resolve" /\ head = tracking
        /\ UNCHANGED <<git, run, history>>
        /\ \/ Stashed /\ step' = "pop"
           \/ ~Stashed /\ step' = "link"
    BY DEF UpToDate, AfterPull, Stashed
  <1>2. StashOnCourse' /\ OwnFiles' /\ TracksHead'
    BY <1>1 DEF git, run, history, RunInv, PullInv, StashOnCourse, OwnFiles, Own, Pulling,
                Stashed, TracksHead
  <1>3. PopOnCourse'
    <2>1. Stashed => \A p \in Path : Committed(p, work[p])
      BY <1>1, HeadCommitted DEF RunInv, PullInv, ResetOnCourse, CleanToPull, TypeOK
    <2> QED
      BY <1>1, <2>1 DEF git, PopOnCourse, Committed
  <1>4. LinksHead'
    BY <1>1 DEF git, run, history, RunInv, PullInv, OwnFiles, Own, Stashed, LinksHead
  <1> QED
    BY <1>1, <1>2, <1>3, <1>4
    DEF git, run, history, RunInv, PullInv, StashBehind, ResetOnCourse, CleanToPull, TreeOnCourse,
        EditsKept, Committed

\* The branch moves on; every path is still to be brought over.
LEMMA FastForwardKeeps ==
    ASSUME UpdateAssumption, TypeOK, RunInv, FastForward
    PROVE  RunInv'
  <1>1. /\ step = "resolve" /\ step' = "tree"
        /\ <<head, tracking>> \in Before /\ head' = tracking
        /\ todo' = Path
        /\ UNCHANGED <<index, work, stash, tracking, stash_oid, mine, torn, beside>>
    BY DEF FastForward, history
  <1>2. head \in Commit /\ tracking \in Commit /\ stash \in Seq(StashEntry)
    BY DEF TypeOK
  <1>3. StashBehind'
    <2> SUFFICES ASSUME NEW i \in DOMAIN stash
                 PROVE  <<stash[i].base, tracking>> \in Before
      BY <1>1 DEF StashBehind
    <2>1. stash[i].base \in Commit
      <3>1. stash[i] \in StashEntry
        BY <1>2
      <3> QED
        BY <3>1 DEF StashEntry
    <2>2. <<stash[i].base, head>> \in Before
      BY DEF RunInv, PullInv, StashBehind
    <2> QED
      BY <1>1, <1>2, <2>1, <2>2 DEF UpdateAssumption
  <1>4. TreeOnCourse'
    <2>1. \A p \in Path : Stashed \/ index[p] # Gone =>
             \E c \in Commit : <<c, tracking>> \in Before /\ Tree[c][p] = work[p]
      BY <1>1, <1>2 DEF RunInv, PullInv, CleanToPull
    <2>2. \A p \in Path : ~Stashed =>
             \E c \in Commit : <<c, tracking>> \in Before /\ Tree[c][p] = index[p]
      BY <1>1, <1>2 DEF RunInv, PullInv, CleanToPull
    <2> QED
      BY <1>1, <2>1, <2>2 DEF TreeOnCourse, Committed, Stashed
  <1>5. OwnFiles'
    <2>1. ~torn => \A p \in Path : index[p] = Gone => work[p] \in {Gone, Markers} \cup mine[p]
      BY <1>1 DEF RunInv, PullInv, OwnFiles, Own
    <2> QED
      BY <1>1, <2>1 DEF RunInv, PullInv, OwnFiles, Pulling, Stashed
  <1>6. EditsKept'
    BY <1>1, <1>2, EditsKeptOn DEF RunInv
  <1> QED
    BY <1>1, <1>3, <1>4, <1>5, <1>6
    DEF RunInv, PullInv, StashOnCourse, ResetOnCourse, CleanToPull, PopOnCourse, TracksHead,
        Pulling, Stashed, LinksHead

\* A path is brought over: what it held is committed, or was not tracked.
LEMMA UpdatePathKeeps ==
    ASSUME UpdateAssumption, TypeOK, RunInv, NEW p \in Path, UpdatePath(p)
    PROVE  RunInv'
  <1>1. /\ step = "tree" /\ step' = "tree"
        /\ p \in todo /\ todo' = todo \ {p}
        /\ work' = [work EXCEPT ![p] =
                       IF Tree[head][p] # Gone \/ index[p] # Gone THEN Tree[head][p] ELSE @]
        /\ mine' = IF ~Stashed /\ index[p] = Gone /\ work[p] \notin {Gone, work'[p]}
                   THEN [mine EXCEPT ![p] = @ \ {work[p]}] ELSE mine
        /\ UNCHANGED <<head, index, stash, tracking, stash_oid, torn, beside>>
    BY DEF UpdatePath, Stashed
  <1>2. /\ Stashed \/ index[p] # Gone => Committed(p, work[p])
        /\ ~Stashed => Committed(p, index[p])
    BY <1>1 DEF RunInv, PullInv, TreeOnCourse
  <1>3. /\ work'[p] = IF Tree[head][p] # Gone \/ index[p] # Gone THEN Tree[head][p] ELSE work[p]
        /\ \A q \in Path : q # p => work'[q] = work[q] /\ mine'[q] = mine[q]
        /\ mine'[p] = IF ~Stashed /\ index[p] = Gone /\ work[p] \notin {Gone, work'[p]}
                      THEN mine[p] \ {work[p]} ELSE mine[p]
    BY <1>1 DEF TypeOK, Files
  <1>4. Committed(p, Tree[head][p])
    BY HeadCommitted DEF TypeOK
  <1>5. TreeOnCourse'
    <2>1. Stashed => Committed(p, work'[p])
      BY <1>2, <1>3, <1>4
    <2>2. \A q \in Path : q # p => Committed(q, work[q]) = Committed(q, work'[q])
      BY <1>3
    <2>3. UNCHANGED <<head, index, stash_oid>> /\ step' = "tree" /\ todo' = todo \ {p}
      BY <1>1
    <2>4. \A q \in Path : \A x : Committed(q, x)' <=> Committed(q, x)
      BY <2>3 DEF Committed
    <2>5. \A q \in todo \ {p} : /\ Stashed \/ index[q] # Gone => Committed(q, work'[q])
                                /\ ~Stashed => Committed(q, index[q])
      BY <1>1, <1>3 DEF RunInv, PullInv, TreeOnCourse, TypeOK
    <2>6. \A q \in Path \ (todo \ {p}) : Stashed => Committed(q, work'[q])
      BY <1>1, <2>1, <2>2 DEF RunInv, PullInv, TreeOnCourse
    <2> QED
      BY <2>3, <2>5, <2>6 DEF TreeOnCourse, Committed, Stashed
  <1>6. OwnFiles'
    <2>1. Stashed => mine' = mine
      BY <1>1, <1>2
    <2>2. ~torn => Own(p)'
      BY <1>1, <1>3 DEF RunInv, PullInv, OwnFiles, Own
    <2>3. \A q \in Path : q # p /\ Own(q) => Own(q)'
      BY <1>1, <1>3 DEF Own
    <2> QED
      BY <1>1, <1>3, <2>1, <2>2, <2>3 DEF RunInv, PullInv, OwnFiles, Stashed, Pulling
  <1>7. EditsKept'
    <2> SUFFICES ASSUME NEW q \in Path, NEW x \in mine'[q]
                 PROVE  \/ work'[q] = x
                        \/ \E i \in DOMAIN stash : stash[i].files[q] = x
                        \/ Committed(q, x)
      <3>1. UNCHANGED <<head, stash>>
        BY <1>1
      <3> QED
        BY <3>1 DEF EditsKept, Committed
    <2>1. x \in mine[q]
      BY <1>3
    <2>2. CASE q # p
      BY <1>3, <2>1, <2>2 DEF RunInv, EditsKept
    <2>3. CASE q = p /\ work[p] = x
      BY <1>2, <1>3, <1>4, <2>3
    <2>4. CASE q = p /\ work[p] # x
      BY <2>1, <2>4 DEF RunInv, EditsKept
    <2> QED
      BY <2>2, <2>3, <2>4
  <1> QED
    BY <1>1, <1>5, <1>6, <1>7
    DEF RunInv, PullInv, StashOnCourse, StashBehind, ResetOnCourse, CleanToPull, PopOnCourse,
        TracksHead,
        Pulling, Stashed, LinksHead

\* What could not be removed is a file of a commit behind the branch.
LEMMA RemoveFailsKeeps ==
    ASSUME TypeOK, RunInv, NEW p \in Path, RemovePathFails(p)
    PROVE  RunInv'
  <1>1. /\ step = "tree" /\ step' = "tree" /\ torn'
        /\ p \in todo /\ todo' = todo \ {p}
        /\ UNCHANGED <<git, stash_oid, mine, beside>>
    BY DEF RemovePathFails
  <1>2. TreeOnCourse'
    BY <1>1 DEF git, RunInv, PullInv, TreeOnCourse, Committed, Stashed
  <1> QED
    BY <1>1, <1>2
    DEF git, RunInv, PullInv, StashOnCourse, StashBehind, ResetOnCourse, CleanToPull,
        PopOnCourse, OwnFiles,
        TracksHead, Pulling, Stashed, EditsKept, Committed, LinksHead

\* Every path is brought over: the index follows.
LEMMA WriteIndexKeeps ==
    ASSUME TypeOK, RunInv, WriteIndex
    PROVE  RunInv'
  <1>1. /\ step = "tree" /\ todo = {} /\ index' = Tree[head]
        /\ UNCHANGED <<head, work, stash, tracking, stash_oid, opts, mine, torn, beside>>
        /\ \/ Stashed /\ step' = "pop"
           \/ ~Stashed /\ step' = "link"
    BY DEF WriteIndex, AfterPull, run, history, Stashed
  <1>2. PopOnCourse'
    BY <1>1 DEF RunInv, PullInv, TreeOnCourse, PopOnCourse, Committed
  <1>3. OwnFiles' /\ StashOnCourse' /\ TracksHead'
    BY <1>1 DEF RunInv, PullInv, OwnFiles, Own, StashOnCourse, TracksHead, Pulling, Stashed
  <1>4. LinksHead'
    BY <1>1 DEF RunInv, PullInv, OwnFiles, Own, TracksHead, LinksHead, Stashed
  <1> QED
    BY <1>1, <1>2, <1>3, <1>4
    DEF RunInv, PullInv, StashBehind, ResetOnCourse, CleanToPull, TreeOnCourse, EditsKept,
        Committed

(***************************************************************************)
(* The pop                                                                 *)
(***************************************************************************)

\* What a merge puts in a file, without the CASE.
LEMMA MergedCases ==
    ASSUME NEW p \in Path
    PROVE  LET base == Tree[stash[1].base][p]
               theirs == stash[1].files[p]
           IN  \/ theirs = base /\ Merged(p) = Tree[head][p]
               \/ theirs # base /\ Merged(p) \in {theirs, Markers}
               \/ /\ Combined(p)
                  /\ Merged(p) = Combine[<<base, Tree[head][p], theirs>>]
  <1> DEFINE base == Tree[stash[1].base][p]
             ours == Tree[head][p]
             theirs == stash[1].files[p]
  <1>1. theirs = base => Merged(p) = ours
    BY DEF Merged, BothChanged
  <1>2. theirs # base /\ ours \in {base, theirs} => Merged(p) = theirs
    BY DEF Merged, BothChanged
  <1>3. CASE theirs # base /\ ours \notin {base, theirs}
    <2>1. Merged(p) \in {Combine[<<base, ours, theirs>>], Markers}
      BY <1>3 DEF Merged, BothChanged
    <2> QED
      BY <1>3, <2>1 DEF Combined, BothChanged
  <1> QED
    BY <1>1, <1>2, <1>3

\* A merge loses nothing of the entry, which is still there, is combined or
\* had no conflict, and nothing of the work tree, which was committed.
LEMMA MergeKeeps ==
    ASSUME UpdateAssumption, TypeOK, RunInv, step = "pop",
           NEW p \in Path, NEW f \in mine[p],
           ~ \E i \in DOMAIN stash : i # 1 /\ stash[i].files[p] = f,
           Combined(p) => f # stash[1].files[p],
           ~Conflicting
    PROVE  Merged(p) = f \/ Committed(p, f)
  <1>1. stash # << >> /\ stash[1] \in StashEntry /\ 1 \in DOMAIN stash
    BY Latest DEF RunInv, PullInv, StashOnCourse, Pulling, TypeOK
  <1>2. CASE work[p] = f
    BY <1>2 DEF RunInv, PullInv, PopOnCourse
  <1>3. CASE stash[1].files[p] = f
    <2>1. CASE f = Tree[stash[1].base][p]
      <3>1. <<stash[1].base, head>> \in Before /\ stash[1].base \in Commit
        BY <1>1 DEF RunInv, PullInv, StashBehind, StashEntry
      <3> QED
        BY <2>1, <3>1 DEF Committed
    <2>2. CASE f # Tree[stash[1].base][p]
      BY <1>3, <2>2, MergedCases DEF Conflicting
    <2> QED
      BY <2>1, <2>2
  <1> QED
    BY <1>2, <1>3 DEF RunInv, EditsKept

\* A merged file is the branch's, the user's, both in one or markers.
LEMMA MergedOwn ==
    ASSUME RunInv, step = "pop", ~torn, NEW p \in Path
    PROVE  Combined(p) \/ Merged(p) \in {Tree[head][p], Markers} \cup mine[p]
  <1>1. stash[1].files[p] \in {Tree[stash[1].base][p], Markers} \cup mine[p]
    BY DEF RunInv, PullInv, OwnFiles, StashOnCourse, Pulling
  <1> QED
    BY <1>1, MergedCases

\* The entry is back in the work tree and off the stash.
LEMMA PopKeeps ==
    ASSUME UpdateAssumption, TypeOK, RunInv, Pop
    PROVE  RunInv'
  <1>1. /\ step = "pop" /\ step' = "link" /\ ~Conflicting
        /\ work' = [p \in Path |-> Merged(p)]
        /\ stash' = Tail(stash)
        /\ mine' = [p \in Path |-> IF Combined(p)
                                  THEN (mine[p] \ {stash[1].files[p]}) \cup {Merged(p)}
                                  ELSE mine[p]]
        /\ UNCHANGED <<head, index, tracking, stash_oid, opts, torn, beside>>
    BY DEF Pop, run
  <1>2. stash # << >> /\ stash \in Seq(StashEntry) /\ head = tracking
    BY <1>1 DEF RunInv, PullInv, StashOnCourse, TracksHead, Pulling, TypeOK
  <1>3. /\ \A i \in DOMAIN stash' : i + 1 \in DOMAIN stash /\ stash'[i] = stash[i + 1]
        /\ \A i \in DOMAIN stash : i = 1 \/ (i - 1 \in DOMAIN stash' /\ stash'[i - 1] = stash[i])
    BY <1>1, <1>2, Dropped
  <1>4. StashBehind'
    BY <1>1, <1>3 DEF RunInv, PullInv, StashBehind
  <1>5. ~torn => \A p \in Path : work'[p] \in {Tree[head][p], Markers} \cup mine'[p]
    BY <1>1, MergedOwn
  <1>6. OwnFiles' /\ LinksHead'
    BY <1>1, <1>2, <1>5 DEF RunInv, PullInv, OwnFiles, Own, LinksHead, Pulling
  <1>7. EditsKept'
    <2> SUFFICES ASSUME NEW q \in Path, NEW x \in mine'[q]
                 PROVE  \/ Merged(q) = x
                        \/ \E i \in DOMAIN stash' : stash'[i].files[q] = x
                        \/ Committed(q, x)
      <3>1. head' = head /\ \A p \in Path : work'[p] = Merged(p)
        BY <1>1
      <3> QED
        BY <3>1 DEF EditsKept, Committed
    <2>1. CASE \E i \in DOMAIN stash : i # 1 /\ stash[i].files[q] = x
      BY <1>3, <2>1
    <2>2. CASE Merged(q) # x
      <3>1. x \in mine[q] /\ (Combined(q) => x # stash[1].files[q])
        BY <1>1, <2>2
      <3> QED
        BY <1>1, <2>1, <3>1, MergeKeeps
    <2> QED
      BY <2>2
  <1> QED
    BY <1>1, <1>4, <1>6, <1>7
    DEF RunInv, PullInv, StashOnCourse, ResetOnCourse, CleanToPull, TreeOnCourse, PopOnCourse,
        TracksHead, Pulling

\* A conflict leaves the entry where it is.
LEMMA PopConflictsKeeps ==
    ASSUME UpdateAssumption, TypeOK, RunInv, PopConflicts
    PROVE  RunInv'
  <1>1. /\ step = "pop" /\ step' = "idle"
        /\ work' = [p \in Path |-> Merged(p)]
        /\ mine' = [p \in Path |-> IF Combined(p) THEN mine[p] \cup {Merged(p)} ELSE mine[p]]
        /\ UNCHANGED <<head, index, stash, tracking, stash_oid, opts, torn, beside>>
    BY DEF PopConflicts, run
  <1>2. OwnFiles'
    BY <1>1, MergedOwn DEF RunInv, PullInv, OwnFiles, Own, Pulling
  <1>3. EditsKept'
    <2> SUFFICES ASSUME NEW q \in Path, NEW x \in mine'[q]
                 PROVE  \/ Merged(q) = x
                        \/ \E i \in DOMAIN stash : stash[i].files[q] = x
                        \/ Committed(q, x)
      <3>1. UNCHANGED <<head, stash>> /\ \A p \in Path : work'[p] = Merged(p)
        BY <1>1
      <3> QED
        BY <3>1 DEF EditsKept, Committed
    <2> QED
      BY <1>1 DEF RunInv, PullInv, PopOnCourse, EditsKept
  <1> QED
    BY <1>1, <1>2, <1>3
    DEF RunInv, PullInv, StashOnCourse, StashBehind, ResetOnCourse, CleanToPull, TreeOnCourse,
        PopOnCourse, TracksHead, Pulling, Stashed, LinksHead

\* The one step from a stash to link is the pop of the entry this run pushed.
LEMMA LinkAfterPop ==
    ASSUME UpdateAssumption, TypeOK, RunInv, [Next]_vars,
           step # "link", step' = "link", Stashed
    PROVE  Pop
  <1>1. ~UNCHANGED vars
    BY DEF vars
  <1>2. ~User
    BY DEF User, EditFile, CommitAll, Push, StashBeside, Touch
  <1>3. ~ \E o \in Options : Start(o)
    BY DEF Start
  <1>4. ~(Link \/ LinkFails \/ Hooks \/ Stop)
    BY DEF Link, LinkFails, Hooks, Finish, Stop
  <1>5. ~(CheckDirty \/ UpToDate \/ WriteIndex)
    BY DEF CheckDirty, UpToDate, WriteIndex, AfterPull, RunInv, PullInv, StashOnCourse, Stashed
  <1>6. ~(Refuse \/ StashPush \/ StashNothing \/ ResetDone \/ Fetch \/ NotFastForward)
    BY DEF Refuse, StashPush, StashNothing, ResetDone, Fetch, NotFastForward, Finish
  <1>7. ~(FastForward \/ PopConflicts \/ PullFails)
    BY DEF FastForward, PopConflicts, PullFails, Finish
  <1>8. ~ \E p \in Path : ResetPath(p) \/ UpdatePath(p) \/ RemovePathFails(p)
    BY DEF ResetPath, UpdatePath, RemovePathFails
  <1> QED
    BY <1>1, <1>2, <1>3, <1>4, <1>5, <1>6, <1>7, <1>8 DEF Next, Pull

LEMMA PopRestores ==
    ASSUME UpdateAssumption, TypeOK, RunInv, Pop, ~beside
    PROVE  LET e == stash_oid[1]
           IN  /\ stash = <<e>> \o stash'
               /\ \A p \in Path : e.files[p] # Tree[e.base][p] =>
                     \/ work'[p] = e.files[p]
                     \/ /\ Tree[head][p] \notin {Tree[e.base][p], e.files[p]}
                        /\ work'[p] = Combine[<<Tree[e.base][p], Tree[head][p], e.files[p]>>]
                        /\ work'[p] # Markers
  <1>1. /\ step = "pop" /\ ~Conflicting
        /\ work' = [p \in Path |-> Merged(p)]
        /\ stash' = Tail(stash)
    BY DEF Pop
  <1>2. stash # << >> /\ stash[1] = stash_oid[1] /\ stash \in Seq(StashEntry)
    BY <1>1 DEF RunInv, PullInv, StashOnCourse, Pulling, TypeOK
  <1>3. stash = <<stash[1]>> \o Tail(stash)
    BY <1>2
  <1>4. ASSUME NEW p \in Path, stash[1].files[p] # Tree[stash[1].base][p]
        PROVE  \/ Merged(p) = stash[1].files[p]
               \/ /\ Tree[head][p] \notin {Tree[stash[1].base][p], stash[1].files[p]}
                  /\ Merged(p) = Combine[<<Tree[stash[1].base][p], Tree[head][p], stash[1].files[p]>>]
                  /\ Merged(p) # Markers
    BY <1>1, <1>4, MergedCases DEF Combined, BothChanged, Conflicting
  <1> QED
    BY <1>1, <1>2, <1>3, <1>4

(***************************************************************************)
(* Every step, every behaviour                                             *)
(***************************************************************************)

LEMMA InitGood ==
    ASSUME UpdateAssumption, Init
    PROVE  TypeOK /\ RunInv
  <1>1. TypeOK
    <2>1. index \in [Path -> Blob \cup {Gone}] /\ work \in Files
      BY DEF Init, UpdateAssumption, Files, WorkFile
    <2>2. stash \in Seq(StashEntry) /\ stash_oid \in Seq(StashEntry) /\ Len(stash_oid) <= 1
      BY DEF Init
    <2>3. mine \in [Path -> SUBSET WorkFile] /\ todo \in SUBSET Path /\ opts \in Options
      BY DEF Init, Options
    <2> QED
      BY <2>1, <2>2, <2>3 DEF Init, TypeOK, StepName, Outcome
  <1>2. RunInv
    BY DEF Init, RunInv, PullInv, StashOnCourse, StashBehind, ResetOnCourse, CleanToPull,
           TreeOnCourse,
           PopOnCourse, OwnFiles, Own, TracksHead, Pulling, Stashed, EditsKept, LinksHead
  <1> QED
    BY <1>1, <1>2

LEMMA NextKeeps ==
    ASSUME UpdateAssumption, TypeOK, RunInv, [Next]_vars
    PROVE  RunInv'
  <1>1. CASE UNCHANGED vars
    <2>1. UNCHANGED vars
      BY <1>1
    <2>2. PullInv'
      BY <2>1 DEF vars, RunInv, PullInv, StashOnCourse, StashBehind, ResetOnCourse, CleanToPull,
                  TreeOnCourse, PopOnCourse, OwnFiles, Own, TracksHead, Pulling, Stashed,
                  Committed
    <2>3. EditsKept' /\ LinksHead'
      BY <2>1 DEF vars, RunInv, EditsKept, Committed, LinksHead
    <2> QED
      BY <2>2, <2>3 DEF RunInv
  <1>2. CASE User
    BY <1>2, EditKeeps, CommitKeeps, PushKeeps, BesideKeeps DEF User
  <1>3. CASE Pull
    BY <1>3, CheckKeeps, Ends, StashKeeps, NothingKeeps, ResetKeeps, ResetDoneKeeps, FetchKeeps, UpToDateKeeps, FastForwardKeeps,
       UpdatePathKeeps, RemoveFailsKeeps, WriteIndexKeeps, PopKeeps, PopConflictsKeeps DEF Pull
  <1> QED
    BY <1>1, <1>2, <1>3, StartKeeps, LinkKeeps, Ends DEF Next

LEMMA SpecRuns == Spec => [](TypeOK /\ RunInv)
  <1>1. TypeOK /\ RunInv /\ [Next]_vars => (TypeOK /\ RunInv)'
    BY UpdateAssumption, NextTyped, NextKeeps DEF RunInv, PullInv
  <1> QED
    BY UpdateAssumption, InitGood, <1>1, PTL DEF Spec

\* Every variable of update keeps its type.
THEOREM UpdateTyped == Spec => []TypeOK
  BY SpecRuns, PTL

\* At every step of every run, and after every failed or crashed one, what
\* the user has put at a tracked path is in the work tree, on the stash or in
\* the branch's history.
THEOREM EditsSurvive == Spec => []EditsKept
  BY SpecRuns, PTL DEF RunInv

\* update never comes to link without what it stashed, in the work tree and
\* off the stash.
THEOREM RestoredFirst == Spec => RestoredBeforeLink
  <1>1. ASSUME TypeOK, RunInv, [Next]_vars,
               step # "link", step' = "link", stash_oid # << >>, ~beside
        PROVE  LET e == stash_oid[1]
               IN  /\ stash = <<e>> \o stash'
                   /\ \A p \in Path : e.files[p] # Tree[e.base][p] =>
                         \/ work'[p] = e.files[p]
                         \/ /\ Tree[head][p] \notin {Tree[e.base][p], e.files[p]}
                            /\ work'[p] = Combine[<<Tree[e.base][p], Tree[head][p], e.files[p]>>]
                            /\ work'[p] # Markers
    <2>1. Pop
      BY <1>1, UpdateAssumption, LinkAfterPop DEF Stashed
    <2> QED
      BY <1>1, <2>1, UpdateAssumption, PopRestores
  <1> QED
    BY <1>1, SpecRuns, PTL DEF Spec, RestoredBeforeLink

\* What a pull links is the fetched commit and the user's own edits.
THEOREM LinkedIsHead == Spec => []LinksHead
  BY SpecRuns, PTL DEF RunInv
=============================================================================
