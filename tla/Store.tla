------------------------------- MODULE Store --------------------------------
(***************************************************************************)
(* What krypt's commands and its user share: the destinations, the repo's  *)
(* work tree and index, .krypt.toml and the manifest file; and what the    *)
(* user does to them.                                                      *)
(***************************************************************************)
EXTENDS Copy

CONSTANTS
    Configs,    \* the configs the user may write
    BadConfig,  \* a .krypt.toml that does not load or resolve
    MaxEdits    \* bound on the user's steps

ASSUME ConfigAssumption ==
    /\ Configs \subseteq Seq(ConfigEntry)
    /\ BadConfig \notin Configs
    /\ MaxEdits \in Nat

VARIABLES
    disk,      \* what each destination holds
    repo,      \* what each source holds
    tracked,   \* the sources in the git index
    config,    \* .krypt.toml
    manifest,  \* manifest.json
    wrote,     \* history: every content krypt has written to a destination
    adopted,   \* history: every content krypt has copied from it to the repo
    edits      \* user steps taken

storeVars == <<disk, repo, tracked, config, manifest, wrote, adopted, edits>>

StoreTypeOK ==
    /\ disk \in [Dst -> File]
    /\ repo \in [Src -> RepoFile]
    /\ tracked \in SUBSET Src
    /\ config \in Configs \cup {BadConfig}
    /\ manifest \in ManifestType
    /\ wrote \in [Dst -> SUBSET Content]
    /\ adopted \in [Dst -> SUBSET Content]
    /\ edits \in Nat

\* A machine krypt has never run on, with whatever files it already has.
StoreInit ==
    /\ disk \in [Dst -> File]
    /\ repo \in [Src -> RepoFile]
    /\ tracked = {s \in Src : repo[s] # Absent}
    /\ config \in Configs
    /\ manifest = EmptyManifest
    /\ wrote = [d \in Dst |-> {}]
    /\ adopted = [d \in Dst |-> {}]
    /\ edits = 0

\* The contents krypt may give up at d: it wrote them or saved them.
Known(d) == wrote[d] \cup adopted[d]

(***************************************************************************)
(* The user: edits a destination, pulls or edits a source, edits the       *)
(* config.  Every step counts against MaxEdits.                            *)
(***************************************************************************)
Edit == edits < MaxEdits /\ edits' = edits + 1

EditDst(d, f) ==
    /\ Edit
    /\ disk[d] # f
    /\ disk' = [disk EXCEPT ![d] = f]
    /\ UNCHANGED <<repo, tracked, config, manifest, wrote, adopted>>

\* A commit or a pull changes a source; an added file is tracked.
EditSrc(s, f) ==
    /\ Edit
    /\ repo[s] # f
    /\ repo' = [repo EXCEPT ![s] = f]
    /\ tracked' = IF f = Absent THEN tracked \ {s} ELSE tracked \cup {s}
    /\ UNCHANGED <<disk, config, manifest, wrote, adopted>>

EditConfig(c) ==
    /\ Edit
    /\ config # c
    /\ config' = c
    /\ UNCHANGED <<disk, repo, tracked, manifest, wrote, adopted>>

User ==
    \/ \E d \in Dst, f \in File : EditDst(d, f)
    \/ \E s \in Src, f \in RepoFile : EditSrc(s, f)
    \/ \E c \in Configs \cup {BadConfig} : EditConfig(c)
=============================================================================
