----------------------------- MODULE UpdateInv ------------------------------
(***************************************************************************)
(* The inductive invariant behind Update's properties: what every step of  *)
(* a pull may rely on about the repository it works in.                    *)
(***************************************************************************)
EXTENDS Update

\* From the push to the pop, the run's entry is on the stash, the latest
\* unless the user has stashed since.
Pulling == step \in {"reset", "fetch", "resolve", "tree", "pop"}
Stashed == stash_oid # << >>

StashOnCourse ==
    /\ step \in {"check", "stash"} => ~Stashed
    /\ step \in {"reset", "pop"} => Stashed
    /\ Pulling /\ Stashed => stash # << >>
    /\ Pulling /\ Stashed /\ ~beside => stash[1] = stash_oid[1]

\* Every entry was made at a commit the branch has not left.
StashBehind == \A i \in DOMAIN stash : <<stash[i].base, head>> \in Before

\* A path not yet reset is in the entry as the work tree has it.
ResetOnCourse ==
    step = "reset" =>
        /\ \A p \in todo : stash[1].files[p] = work[p]
        /\ \A p \in Path \ todo : work[p] = Tree[head][p]

\* Past the dirty check, the index and every tracked file are the branch's;
\* past a stash every file is, and the index may be behind.
CleanToPull ==
    step \in {"fetch", "resolve"} =>
        /\ ~Stashed => index = Tree[head]
        /\ \A p \in Path : Stashed \/ index[p] # Gone => work[p] = Tree[head][p]

\* While the work tree follows the branch, a path not yet brought over holds
\* nothing that was not committed, unless it is untracked, and with a stash
\* one brought over holds nothing either.
TreeOnCourse ==
    step = "tree" =>
        /\ \A p \in todo : /\ Stashed \/ index[p] # Gone => Committed(p, work[p])
                           /\ ~Stashed => Committed(p, index[p])
        /\ \A p \in Path \ todo : Stashed => Committed(p, work[p])

PopOnCourse == step = "pop" => \A p \in Path : Committed(p, work[p])

\* A path holds the branch's version, the user's, or a conflict's markers.
Own(p) == work[p] \in {Tree[head][p], Markers} \cup mine[p]

OwnFiles ==
    ~torn =>
        /\ step # "tree" => index = Tree[head] /\ \A p \in Path : Own(p)
        /\ step = "tree" =>
              /\ \A p \in todo : index[p] = Gone => work[p] \in {Gone, Markers} \cup mine[p]
              /\ \A p \in Path \ todo : Own(p)
        /\ Pulling /\ Stashed =>
              \A p \in Path : stash[1].files[p] \in
                                  {Tree[stash[1].base][p], Markers} \cup mine[p]

TracksHead == step \in {"tree", "pop"} => head = tracking

PullInv ==
    /\ StashOnCourse /\ StashBehind
    /\ ResetOnCourse /\ CleanToPull /\ TreeOnCourse /\ PopOnCourse
    /\ OwnFiles /\ TracksHead

\* What every step of a run keeps, besides the types.
RunInv == PullInv /\ EditsKept /\ LinksHead
=============================================================================
