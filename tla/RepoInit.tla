------------------------------ MODULE RepoInit ------------------------------
(***************************************************************************)
(* krypt init (krypt-core/src/init.rs): make a directory the dotfiles      *)
(* repo, then record it in the tool config, where the other commands find  *)
(* it.  A clone is gix's and leaves what it likes when it fails; the user  *)
(* can move either aside, and a crash can come between any two steps.      *)
(***************************************************************************)
EXTENDS Naturals, Sequences

CONSTANTS
    RepoPath,  \* directories that can be the repo
    Url,       \* remotes
    NoUrl,     \* init --bare, or no URL given
    NoRecord,  \* no tool config file
    BrokenRecord, \* one that does not load
    InitCmds   \* the command lines init is given

ASSUME InitAssumption ==
    /\ NoUrl \notin Url
    /\ InitCmds \subseteq [path : RepoPath, url : Url \cup {NoUrl}, bare : BOOLEAN, force : BOOLEAN]

\* A directory: not there, empty, a plain file in its place, something else
\* of the user's, a remote checked out in part or whole, or the bare stub.
Dir == [is : {"absent", "empty", "file", "other", "stub"}, url : {NoUrl}]
         \cup [is : {"part", "whole"}, url : Url]
Is(k) == [is |-> k, url |-> NoUrl]

\* What the tool config file records.
Record == [path : RepoPath, url : Url \cup {NoUrl}]

ASSUME RecordAssumption == NoRecord \notin Record /\ BrokenRecord \notin Record

VARIABLES
    dirs,     \* what is at each repo path
    toolcfg,  \* the tool config
    ipc,      \* where init is
    icmd,     \* its command line
    lost      \* history: paths that have changed other than by finishing init

initVars == <<dirs, toolcfg, ipc, icmd, lost>>

NoInit == [path |-> CHOOSE p \in RepoPath : TRUE, url |-> NoUrl, bare |-> TRUE, force |-> FALSE]

RepoInitTypeOK ==
    /\ dirs \in [RepoPath -> Dir]
    /\ toolcfg \in Record \cup {NoRecord, BrokenRecord}
    /\ ipc \in {"idle", "prepare", "wipe", "make", "save", "done"}
    /\ icmd \in InitCmds \cup {NoInit}
    /\ lost \subseteq RepoPath

RepoInitInit ==
    /\ dirs \in [RepoPath -> {Is("absent"), Is("empty"), Is("file"), Is("other")}]
    /\ toolcfg = NoRecord
    /\ ipc = "idle" /\ icmd = NoInit
    /\ lost = {}

EndInit == ipc' = "idle" /\ icmd' = NoInit

\* With neither a URL nor --bare it ends here (MissingUrl).
StartInit(c) ==
    /\ ipc = "idle"
    /\ c.url # NoUrl \/ c.bare
    /\ ipc' = "prepare" /\ icmd' = c
    /\ UNCHANGED <<dirs, toolcfg, lost>>

\* A file in the repo's place cannot be listed, and passes for empty.
NotEmpty(d) == d.is \in {"other", "stub", "part", "whole"}

\* Mutant: only a directory with a .krypt.toml counts as taken.
RepoExistsIfKrypt == NotEmpty(dirs[icmd.path]) /\ dirs[icmd.path].is # "other" /\ ~icmd.force

RepoExists == NotEmpty(dirs[icmd.path]) /\ ~icmd.force

prepare_repo_path ==
    /\ ipc = "prepare"
    /\ \/ RepoExists /\ EndInit /\ UNCHANGED <<dirs, lost>>
       \/ /\ ~RepoExists
          /\ ipc' = IF NotEmpty(dirs[icmd.path]) THEN "wipe" ELSE "make"
          /\ UNCHANGED <<dirs, icmd, lost>>
    /\ UNCHANGED toolcfg

\* remove_dir_all gets through, or fails with some of the files gone.
Wipe ==
    /\ ipc = "wipe"
    /\ \/ dirs' = [dirs EXCEPT ![icmd.path] = Is("absent")] /\ ipc' = "make" /\ icmd' = icmd
       \/ dirs' = [dirs EXCEPT ![icmd.path] = Is("other")] /\ EndInit
    /\ lost' = lost \cup {icmd.path}
    /\ UNCHANGED toolcfg

Makeable == dirs[icmd.path].is \in {"absent", "empty"}

\* Mutant: the stub of .krypt.toml is not written.
init_bareEmpty ==
    /\ ipc = "make" /\ icmd.bare /\ Makeable
    /\ dirs' = [dirs EXCEPT ![icmd.path] = Is("empty")]
    /\ ipc' = "save"
    /\ UNCHANGED <<toolcfg, icmd, lost>>

init_bare ==
    /\ ipc = "make" /\ icmd.bare /\ Makeable
    /\ dirs' = [dirs EXCEPT ![icmd.path] = Is("stub")]
    /\ ipc' = "save"
    /\ UNCHANGED <<toolcfg, icmd, lost>>

\* gix checks the remote out file by file, ...
CloneSome ==
    /\ ipc = "make" /\ ~icmd.bare /\ Makeable
    /\ dirs' = [dirs EXCEPT ![icmd.path] = [is |-> "part", url |-> icmd.url]]
    /\ lost' = lost \cup {icmd.path}
    /\ UNCHANGED <<toolcfg, ipc, icmd>>

\* Mutant: init records a clone that was fetched and not checked out.
CloneDoneFetched ==
    /\ ipc = "make" /\ dirs[icmd.path].is = "part"
    /\ ipc' = "save"
    /\ UNCHANGED <<dirs, toolcfg, icmd, lost>>

\* ... to the end, ...
CloneDone ==
    /\ ipc = "make" /\ dirs[icmd.path].is = "part"
    /\ dirs' = [dirs EXCEPT ![icmd.path] = [is |-> "whole", url |-> icmd.url]]
    /\ ipc' = "save"
    /\ UNCHANGED <<toolcfg, icmd, lost>>

\* ... or it fails, and removes what it made or leaves it.
MakeFails ==
    /\ ipc = "make"
    /\ \/ dirs' = dirs
       \/ dirs[icmd.path].is = "part" /\ dirs' = [dirs EXCEPT ![icmd.path] = Is("absent")]
    /\ EndInit
    /\ UNCHANGED <<toolcfg, lost>>

\* The tool config is replaced by one rename.
ToolConfigSave ==
    /\ ipc = "save"
    /\ toolcfg' = [path |-> icmd.path, url |-> IF icmd.bare THEN NoUrl ELSE icmd.url]
    /\ lost' = lost \ {icmd.path}
    /\ ipc' = "done"
    /\ UNCHANGED <<dirs, icmd>>

InitReturns == ipc = "done" /\ EndInit /\ UNCHANGED <<dirs, toolcfg, lost>>

\* Killed, or out of disk.
InitDies == ipc \notin {"idle", "done"} /\ EndInit /\ UNCHANGED <<dirs, toolcfg, lost>>

InitStep ==
    \/ prepare_repo_path \/ Wipe \/ init_bare
    \/ CloneSome \/ CloneDone \/ MakeFails
    \/ ToolConfigSave \/ InitReturns \/ InitDies

\* The user moves the repo, puts something in its place, or breaks the
\* tool config; not in the instant between init's check and its clone.
MoveRepo(p, d) ==
    /\ ipc = "idle"
    /\ dirs[p] # d
    /\ dirs' = [dirs EXCEPT ![p] = d]
    /\ lost' = lost \cup {p}
    /\ UNCHANGED <<toolcfg, ipc, icmd>>

BreakRecord ==
    /\ ipc = "idle"
    /\ toolcfg # BrokenRecord
    /\ toolcfg' = BrokenRecord
    /\ UNCHANGED <<dirs, ipc, icmd, lost>>

(***************************************************************************)
(* What init leaves                                                        *)
(***************************************************************************)

\* The tool config names a repo init had made there, whole - or one that a
\* later forced init, or the user, has since taken apart.  A failed or
\* killed init is never recorded.
RecordTruthful ==
    toolcfg \in Record /\ toolcfg.path \notin lost =>
        dirs[toolcfg.path] =
            IF toolcfg.url = NoUrl THEN Is("stub") ELSE [is |-> "whole", url |-> toolcfg.url]
=============================================================================
