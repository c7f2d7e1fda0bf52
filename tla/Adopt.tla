------------------------------- MODULE Adopt --------------------------------
(***************************************************************************)
(* krypt adopt (cmd_adopt in krypt-cli/src/main.rs over adopt_edits and    *)
(* adopt of krypt-core/src/adopt.rs): the edits made to deployed files are *)
(* copied back to their sources, then each named path the manifest does    *)
(* not list is imported as a new source.                                   *)
(*                                                                         *)
(*   load - copy edit* - save - (import - record)*                         *)
(***************************************************************************)
EXTENDS Store

CONSTANTS
    Adopter,    \* the processes that can run adopt
    Adoptions,  \* the command lines they are given
    NoSrc,      \* no source: no --src, or a path outside $HOME
    HomeSrc     \* the source a destination under $HOME is imported as

Adoption == [only : SUBSET Dst, src : Src \cup {NoSrc}, dry : BOOLEAN, force : BOOLEAN]

NoAdoption == [only |-> {}, src |-> NoSrc, dry |-> FALSE, force |-> FALSE]

ASSUME AdoptAssumption ==
    /\ NoSrc \notin Src
    /\ HomeSrc \in [Dst -> Src \cup {NoSrc}]
    /\ Adoptions \subseteq Adoption

VARIABLES
    apc,      \* where each adopter is
    acmd,     \* its command line
    amem,     \* its copy of the manifest
    edited,   \* the drifted destinations it has still to copy back
    updated,  \* the entries for those it has copied
    imports,  \* the named destinations the manifest does not list
    current   \* the one copied into the repo and not yet recorded, if any

adoptVars == <<apc, acmd, amem, edited, updated, imports, current>>

APC == {"idle", "load", "edits", "import", "record"}

AdoptTypeOK ==
    /\ apc \in [Adopter -> APC]
    /\ acmd \in [Adopter -> Adoption]
    /\ amem \in [Adopter -> ManifestType]
    /\ edited \in [Adopter -> SUBSET Dst]
    /\ updated \in [Adopter -> ManifestType]
    /\ imports \in [Adopter -> SUBSET Dst]
    /\ current \in [Adopter -> SUBSET Dst]

AdoptInit ==
    /\ apc = [q \in Adopter |-> "idle"]
    /\ acmd = [q \in Adopter |-> NoAdoption]
    /\ amem = [q \in Adopter |-> EmptyManifest]
    /\ edited = [q \in Adopter |-> {}]
    /\ updated = [q \in Adopter |-> EmptyManifest]
    /\ imports = [q \in Adopter |-> {}]
    /\ current = [q \in Adopter |-> {}]

AAt(q, l) == apc[q] = l
AGoto(q, l) == apc' = [apc EXCEPT ![q] = l]

AdoptExit(q) ==
    /\ AGoto(q, "idle")
    /\ acmd' = [acmd EXCEPT ![q] = NoAdoption]
    /\ amem' = [amem EXCEPT ![q] = EmptyManifest]
    /\ edited' = [edited EXCEPT ![q] = {}]
    /\ updated' = [updated EXCEPT ![q] = EmptyManifest]
    /\ imports' = [imports EXCEPT ![q] = {}]
    /\ current' = [current EXCEPT ![q] = {}]
    /\ UNCHANGED storeVars

\* --src names the source of exactly one destination, one not deployed yet.
Accepted(a) ==
    a.src # NoSrc => \E d \in Dst : a.only = {d} /\ manifest[d] = NoEntry

StartAdopt(q, a) ==
    /\ AAt(q, "idle")
    /\ Accepted(a)
    /\ AGoto(q, "load")
    /\ acmd' = [acmd EXCEPT ![q] = a]
    /\ UNCHANGED <<amem, edited, updated, imports, current, storeVars>>

(***************************************************************************)
(* adopt_edits                                                             *)
(***************************************************************************)

\* The drifted destinations whose edits a command adopts; a template only
\* when it is named.
Adoptable(m, only) ==
    {d \in WithStatus(m, disk, "drifted") :
        \/ d \in only
        \/ only = {} /\ m[d].kind # "template"}

LoadEdits(q) ==
    /\ AAt(q, "load")
    /\ amem' = [amem EXCEPT ![q] = manifest]
    /\ edited' = [edited EXCEPT ![q] =
                     IF acmd[q].dry THEN {} ELSE Adoptable(manifest, acmd[q].only)]
    /\ imports' = [imports EXCEPT ![q] = {d \in acmd[q].only : manifest[d] = NoEntry}]
    /\ AGoto(q, "edits")
    /\ UNCHANGED <<acmd, updated, current, storeVars>>

\* What a copy of d into source s leaves behind.
Saved(d, s) ==
    /\ repo' = [repo EXCEPT ![s] = disk[d]]
    /\ adopted' = [adopted EXCEPT ![d] = @ \cup {disk[d]}]
    /\ UNCHANGED <<disk, tracked, config, wrote, edits>>

\* One edit is copied over its source and hashed there.
CopyEdit(q, d) ==
    /\ AAt(q, "edits")
    /\ d \in edited[q]
    /\ disk[d] \in Content
    /\ Saved(d, amem[q][d].src)
    /\ edited' = [edited EXCEPT ![q] = @ \ {d}]
    /\ updated' = [updated EXCEPT ![q][d] = [amem[q][d] EXCEPT !.hash = disk[d]]]
    /\ UNCHANGED <<apc, acmd, amem, imports, current, manifest>>

\* A file that cannot be read ends the command: the edits copied so far
\* stay in the repo, unrecorded.
CopyEditFails(q, d) ==
    /\ AAt(q, "edits")
    /\ d \in edited[q]
    /\ disk[d] \notin Content
    /\ AdoptExit(q)

\* Mutant: the refreshed hashes are not saved.
SaveEditsUnrecorded(q) ==
    /\ AAt(q, "edits") /\ edited[q] = {}
    /\ manifest' = IF acmd[q].dry THEN manifest ELSE amem[q]
    /\ AGoto(q, "import")
    /\ UNCHANGED <<acmd, amem, edited, updated, imports, current,
                   disk, repo, tracked, config, wrote, adopted, edits>>

SaveEdits(q) ==
    /\ AAt(q, "edits") /\ edited[q] = {}
    /\ manifest' = IF acmd[q].dry THEN manifest ELSE RecordAll(amem[q], updated[q])
    /\ AGoto(q, "import")
    /\ UNCHANGED <<acmd, amem, edited, updated, imports, current,
                   disk, repo, tracked, config, wrote, adopted, edits>>

(***************************************************************************)
(* adopt, once per destination left                                        *)
(***************************************************************************)
ImportSrc(q, d) == IF acmd[q].src # NoSrc THEN acmd[q].src ELSE HomeSrc[d]

\* Mutant: an existing source is overwritten without --force.
ImportableAlways(q, d) ==
    /\ disk[d] \in Content
    /\ ImportSrc(q, d) # NoSrc

\* Mutant: nothing is asked of the file to import.
ImportableMissing(q, d) ==
    /\ ImportSrc(q, d) # NoSrc
    /\ acmd[q].force \/ repo[ImportSrc(q, d)] = Absent

\* There is a readable file, a name for it, and no source of that name
\* unless --force.
Importable(q, d) ==
    /\ disk[d] \in Content
    /\ ImportSrc(q, d) # NoSrc
    /\ acmd[q].force \/ repo[ImportSrc(q, d)] = Absent

\* A destination that cannot be imported, or a dry run: on to the next.
SkipImport(q, d) ==
    /\ AAt(q, "import")
    /\ d \in imports[q]
    /\ ~Importable(q, d) \/ acmd[q].dry
    /\ imports' = [imports EXCEPT ![q] = @ \ {d}]
    /\ UNCHANGED <<apc, acmd, amem, edited, updated, current, storeVars>>

CopyImport(q, d) ==
    /\ AAt(q, "import")
    /\ d \in imports[q]
    /\ Importable(q, d) /\ ~acmd[q].dry
    /\ Saved(d, ImportSrc(q, d))
    /\ imports' = [imports EXCEPT ![q] = @ \ {d}]
    /\ current' = [current EXCEPT ![q] = {d}]
    /\ AGoto(q, "record")
    /\ UNCHANGED <<acmd, amem, edited, updated, manifest>>

\* The new source is hashed and recorded in the manifest as it is then.
RecordImport(q, d) ==
    /\ AAt(q, "record")
    /\ d \in current[q]
    /\ LET s == ImportSrc(q, d)
       IN  manifest' = IF repo[s] = Absent THEN manifest
                       ELSE [manifest EXCEPT ![d] =
                               [src |-> s, kind |-> "link", hash |-> repo[s]]]
    /\ current' = [current EXCEPT ![q] = {}]
    /\ AGoto(q, "import")
    /\ UNCHANGED <<acmd, amem, edited, updated, imports,
                   disk, repo, tracked, config, wrote, adopted, edits>>

AdoptReturn(q) ==
    /\ AAt(q, "import")
    /\ imports[q] = {}
    /\ AdoptExit(q)

\* A crash, or an I/O error anywhere, saves nothing more.
AdoptAbort(q) == ~AAt(q, "idle") /\ AdoptExit(q)

AdoptStep(q) ==
    \/ LoadEdits(q) \/ SaveEdits(q) \/ AdoptReturn(q)
    \/ \E d \in Dst :
         \/ CopyEdit(q, d) \/ CopyEditFails(q, d)
         \/ SkipImport(q, d) \/ CopyImport(q, d) \/ RecordImport(q, d)
=============================================================================
