------------------------------ MODULE Manifest ------------------------------
(***************************************************************************)
(* The deploy manifest of krypt-core/src/manifest.rs: what krypt wrote at  *)
(* each destination, and how an entry compares with the file found there.  *)
(*                                                                         *)
(* A file is its bytes.  SHA-256 is taken to be injective, so the hash of  *)
(* readable bytes is the bytes themselves.  hash_src, repo_commit and the  *)
(* timestamps are recorded by the code and never read back: left out.      *)
(***************************************************************************)
CONSTANTS
    Dst,         \* destination paths
    Src,         \* repo-relative source paths
    Content,     \* bytes a readable file can hold
    Absent,      \* no file at the path
    Unreadable,  \* a file that exists and cannot be hashed
    NoEntry      \* the manifest has no entry for a destination

Kind == {"link", "template"}

\* What a path under $HOME holds, and what a path of the repo holds.
File == Content \cup {Absent, Unreadable}
RepoFile == Content \cup {Absent}

Entry == [src : Src, kind : Kind, hash : Content]
ManifestType == [Dst -> Entry \cup {NoEntry}]

ASSUME SentinelAssumption ==
    /\ Absent \notin Content
    /\ Unreadable \notin Content
    /\ Absent # Unreadable
    /\ NoEntry \notin Entry

\* Manifest::new; a manifest file that is not there reads as this one.
EmptyManifest == [d \in Dst |-> NoEntry]

Status(e, f) ==
    IF f = Absent THEN "missing" ELSE IF f = e.hash THEN "clean" ELSE "drifted"

\* A template destination edited on this machine; an unreadable one is not.
IsLocalEdit(e, f) ==
    /\ e.kind = "template"
    /\ Status(e, f) = "drifted"
    /\ f # Unreadable

\* `upd` holds the entries to upsert and NoEntry everywhere else.
RecordAll(m, upd) == [d \in Dst |-> IF upd[d] = NoEntry THEN m[d] ELSE upd[d]]

ForgetAll(m, D) == [d \in Dst |-> IF d \in D THEN NoEntry ELSE m[d]]

\* The destinations the manifest lists that satisfy a status.
WithStatus(m, disk, st) ==
    {d \in Dst : m[d] # NoEntry /\ Status(m[d], disk[d]) = st}
=============================================================================
