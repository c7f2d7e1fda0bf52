-------------------------- MODULE BootstrapProofs ---------------------------
(***************************************************************************)
(* What krypt init records is there, and what krypt setup has been told is *)
(* in its files: for any repos, remotes and configs, any commands in any   *)
(* number, and whatever the user does meanwhile.                           *)
(***************************************************************************)
EXTENDS BootstrapInv, ListProofs, SequenceTheorems

(***************************************************************************)
(* krypt init                                                              *)
(***************************************************************************)

LEMMA DirTypes ==
    /\ \A k \in {"absent", "empty", "file", "other", "stub"} : Is(k) \in Dir
    /\ \A u \in Url : [is |-> "whole", url |-> u] \in Dir /\ [is |-> "part", url |-> u] \in Dir
    /\ \A d \in Dir : d.is \in {"part", "whole"} => d.url \in Url
  BY DEF Dir, Is

\* A path other than one that is being made or wiped keeps what it is, and
\* so does its record.
LEMMA InitStepKeeps ==
    ASSUME RepoInv, InitStep
    PROVE  RepoInv'
  <1> USE DEF RepoInv
  <1> DEFINE p == icmd.path
  <1>0. /\ ipc \in {"idle", "prepare", "wipe", "make", "save", "done"}
        /\ dirs \in [RepoPath -> Dir] /\ toolcfg \in Record \cup {NoRecord, BrokenRecord}
        /\ icmd \in InitCmds \cup {NoInit} /\ lost \subseteq RepoPath
    BY DEF RepoInitTypeOK
  <1>1. ipc # "idle" => p \in RepoPath /\ icmd.url \in Url \cup {NoUrl} /\ (icmd.bare \/ icmd.url \in Url)
    BY InitAssumption DEF InitOnCourse
  <1>2. CASE ipc' = "idle" /\ icmd' = NoInit /\ dirs' = dirs /\ UNCHANGED <<toolcfg, lost>>
    BY <1>0, <1>2 DEF RepoInitTypeOK, InitOnCourse, RecordTruthful
  <1>3. CASE prepare_repo_path
    <2>1. CASE RepoExists
      BY <1>2, <1>3, <2>1 DEF prepare_repo_path, EndInit
    <2>2. CASE ~RepoExists
      <3>1. /\ ipc = "prepare" /\ UNCHANGED <<dirs, icmd, lost, toolcfg>>
            /\ ipc' = IF NotEmpty(dirs[p]) THEN "wipe" ELSE "make"
        BY <1>3, <2>2 DEF prepare_repo_path
      <3>2. RepoInitTypeOK'
        BY <1>0, <3>1 DEF RepoInitTypeOK
      <3>3. InitOnCourse'
        <4>1. p \in RepoPath /\ dirs[p] \in Dir
          BY <1>0, <1>1, <3>1
        <4>2. ipc' = "wipe" => icmd.force
          BY <2>2, <3>1 DEF RepoExists
        <4>3. ipc' = "make" => dirs[p].is \in {"absent", "empty", "file"}
          BY <3>1, <4>1 DEF NotEmpty, Dir
        <4> QED
          BY <3>1, <4>2, <4>3 DEF InitOnCourse
      <3> QED
        BY <3>1, <3>2, <3>3 DEF RecordTruthful
    <2> QED
      BY <2>1, <2>2
  <1>4. CASE Wipe
    <2>1. /\ ipc = "wipe" /\ toolcfg' = toolcfg /\ lost' = lost \cup {p} /\ p \in RepoPath
          /\ icmd \in InitCmds
      BY <1>1, <1>4 DEF Wipe, InitOnCourse
    <2>2. PICK k \in {"absent", "other"} : dirs' = [dirs EXCEPT ![p] = Is(k)]
      BY <1>4 DEF Wipe
    <2>3. \/ ipc' = "make" /\ icmd' = icmd /\ dirs' = [dirs EXCEPT ![p] = Is("absent")]
          \/ ipc' = "idle" /\ icmd' = NoInit
      BY <1>4 DEF Wipe, EndInit
    <2>4. RepoInitTypeOK'
      BY <1>0, <2>1, <2>2, <2>3, DirTypes DEF RepoInitTypeOK
    <2>5. InitOnCourse'
      BY <1>0, <2>1, <2>3 DEF InitOnCourse, Is
    <2>6. RecordTruthful'
      <3>1. \A q \in RepoPath : q # p => dirs'[q] = dirs[q]
        BY <1>0, <2>2
      <3>2. toolcfg \in Record => toolcfg.path \in RepoPath
        BY DEF Record
      <3> QED
        BY <2>1, <3>1, <3>2 DEF RecordTruthful
    <2> QED
      BY <2>4, <2>5, <2>6
  <1>5. CASE init_bare
    <2>1. /\ ipc = "make" /\ icmd.bare /\ Makeable /\ ipc' = "save"
          /\ dirs' = [dirs EXCEPT ![p] = Is("stub")] /\ UNCHANGED <<toolcfg, icmd, lost>>
          /\ p \in RepoPath /\ icmd \in InitCmds
      BY <1>1, <1>5 DEF init_bare, InitOnCourse
    <2>2. RepoInitTypeOK'
      BY <1>0, <2>1, DirTypes DEF RepoInitTypeOK
    <2>3. InitOnCourse'
      BY <1>0, <2>1 DEF InitOnCourse, Made
    <2>4. RecordTruthful'
      <3>1. \A q \in RepoPath : q # p => dirs'[q] = dirs[q]
        BY <1>0, <2>1
      <3>2. toolcfg \in Record => toolcfg.path \in RepoPath
        BY DEF Record
      <3>3. dirs[p].is \in {"absent", "empty"}
        BY <2>1 DEF Makeable
      <3> QED
        BY <2>1, <3>1, <3>2, <3>3 DEF RecordTruthful, Is
    <2> QED
      BY <2>2, <2>3, <2>4
  <1>6. CASE CloneSome
    <2>1. /\ ipc = "make" /\ ~icmd.bare /\ lost' = lost \cup {p} /\ UNCHANGED <<toolcfg, ipc, icmd>>
          /\ dirs' = [dirs EXCEPT ![p] = [is |-> "part", url |-> icmd.url]]
          /\ p \in RepoPath /\ icmd \in InitCmds /\ icmd.url \in Url
      BY <1>1, <1>6 DEF CloneSome, InitOnCourse
    <2>2. RepoInitTypeOK'
      BY <1>0, <2>1, DirTypes DEF RepoInitTypeOK
    <2>3. InitOnCourse'
      BY <1>0, <2>1 DEF InitOnCourse
    <2>4. RecordTruthful'
      <3>1. \A q \in RepoPath : q # p => dirs'[q] = dirs[q]
        BY <1>0, <2>1
      <3>2. toolcfg \in Record => toolcfg.path \in RepoPath
        BY DEF Record
      <3> QED
        BY <2>1, <3>1, <3>2 DEF RecordTruthful
    <2> QED
      BY <2>2, <2>3, <2>4
  <1>7. CASE CloneDone
    <2>1. /\ ipc = "make" /\ dirs[p].is = "part" /\ UNCHANGED <<toolcfg, lost, icmd>> /\ ipc' = "save"
          /\ dirs' = [dirs EXCEPT ![p] = [is |-> "whole", url |-> icmd.url]]
          /\ p \in RepoPath /\ icmd \in InitCmds
      BY <1>1, <1>7 DEF CloneDone, InitOnCourse
    <2>2. ~icmd.bare /\ p \in lost /\ icmd.url \in Url
      BY <1>1, <2>1 DEF InitOnCourse
    <2>3. RepoInitTypeOK'
      BY <1>0, <2>1, <2>2, DirTypes DEF RepoInitTypeOK
    <2>4. InitOnCourse'
      BY <1>0, <2>1, <2>2 DEF InitOnCourse, Made
    <2>5. RecordTruthful'
      <3>1. \A q \in RepoPath : q # p => dirs'[q] = dirs[q]
        BY <1>0, <2>1
      <3>2. toolcfg \in Record => toolcfg.path \in RepoPath
        BY DEF Record
      <3> QED
        BY <2>1, <2>2, <3>1, <3>2 DEF RecordTruthful
    <2> QED
      BY <2>3, <2>4, <2>5
  <1>8. CASE MakeFails
    <2>1. CASE dirs' = dirs
      BY <1>2, <1>8, <2>1 DEF MakeFails, EndInit
    <2>2. CASE dirs' # dirs
      <3>1. /\ ipc = "make" /\ dirs[p].is = "part" /\ UNCHANGED <<toolcfg, lost>>
            /\ ipc' = "idle" /\ icmd' = NoInit /\ p \in RepoPath
            /\ dirs' = [dirs EXCEPT ![p] = Is("absent")]
        BY <1>1, <1>8, <2>2 DEF MakeFails, EndInit
      <3>2. p \in lost
        BY <3>1 DEF InitOnCourse
      <3>3. RepoInitTypeOK'
        BY <1>0, <3>1, DirTypes DEF RepoInitTypeOK
      <3>4. RecordTruthful'
        <4>1. \A q \in RepoPath : q # p => dirs'[q] = dirs[q]
          BY <1>0, <3>1
        <4>2. toolcfg \in Record => toolcfg.path \in RepoPath
          BY DEF Record
        <4> QED
          BY <3>1, <3>2, <4>1, <4>2 DEF RecordTruthful
      <3> QED
        BY <3>1, <3>3, <3>4 DEF InitOnCourse
    <2> QED
      BY <2>1, <2>2
  <1>9. CASE ToolConfigSave
    <2> DEFINE r == [path |-> p, url |-> IF icmd.bare THEN NoUrl ELSE icmd.url]
    <2>1. /\ ipc = "save" /\ toolcfg' = r /\ lost' = lost \ {p} /\ ipc' = "done"
          /\ UNCHANGED <<dirs, icmd>> /\ p \in RepoPath /\ icmd \in InitCmds
      BY <1>1, <1>9 DEF ToolConfigSave, InitOnCourse
    <2>2. r \in Record /\ dirs[p] = Made(icmd)
      BY <1>1, <2>1 DEF Record, InitOnCourse
    <2>3. RepoInitTypeOK'
      BY <1>0, <2>1, <2>2 DEF RepoInitTypeOK
    <2>4. InitOnCourse'
      BY <1>0, <2>1, <2>2 DEF InitOnCourse, Made
    <2>5. RecordTruthful'
      <3>1. dirs[p] = IF r.url = NoUrl THEN Is("stub") ELSE [is |-> "whole", url |-> r.url]
        BY <1>1, <2>1, <2>2, InitAssumption DEF Made
      <3> QED
        BY <2>1, <3>1 DEF RecordTruthful
    <2> QED
      BY <2>3, <2>4, <2>5
  <1>10. CASE InitReturns \/ InitDies
    BY <1>2, <1>10 DEF InitReturns, InitDies, EndInit
  <1> QED
    BY <1>3, <1>4, <1>5, <1>6, <1>7, <1>8, <1>9, <1>10 DEF InitStep

\* Starting init, and the user between two commands, leave what init made.
LEMMA StartInitKeeps ==
    ASSUME RepoInv, \E c \in InitCmds : StartInit(c)
    PROVE  RepoInv'
  <1> USE DEF RepoInv
  <1>1. PICK c \in InitCmds : StartInit(c)
    OBVIOUS
  <1>2. RepoInitTypeOK' /\ InitOnCourse' /\ RecordTruthful'
    BY <1>1 DEF StartInit, RepoInitTypeOK, InitOnCourse, RecordTruthful
  <1> QED
    BY <1>2

LEMMA MoveRepoKeeps ==
    ASSUME RepoInv, \E p \in RepoPath, d \in Dir : MoveRepo(p, d)
    PROVE  RepoInv'
  <1> USE DEF RepoInv
  <1>1. PICK p \in RepoPath, d \in Dir : MoveRepo(p, d)
    OBVIOUS
  <1>2. /\ ipc = "idle" /\ dirs' = [dirs EXCEPT ![p] = d] /\ lost' = lost \cup {p}
        /\ UNCHANGED <<toolcfg, ipc, icmd>> /\ dirs \in [RepoPath -> Dir]
    BY <1>1 DEF MoveRepo, RepoInitTypeOK
  <1>3. RepoInitTypeOK'
    BY <1>2 DEF RepoInitTypeOK
  <1>4. \A q \in RepoPath : q # p => dirs'[q] = dirs[q]
    BY <1>2
  <1>5. toolcfg \in Record => toolcfg.path \in RepoPath
    BY DEF Record
  <1> QED
    BY <1>2, <1>3, <1>4, <1>5 DEF InitOnCourse, RecordTruthful

LEMMA BreakRecordKeeps ==
    ASSUME RepoInv, BreakRecord
    PROVE  RepoInv'
  <1>1. /\ ipc = "idle" /\ toolcfg' = BrokenRecord /\ UNCHANGED <<dirs, ipc, icmd, lost>>
    BY DEF BreakRecord
  <1>2. BrokenRecord \notin Record
    BY RecordAssumption
  <1> QED
    BY <1>1, <1>2 DEF RepoInv, RepoInitTypeOK, InitOnCourse, RecordTruthful

LEMMA InitStart ==
    ASSUME RepoInitInit
    PROVE  RepoInv
  <1>1. NoRecord \notin Record
    BY RecordAssumption
  <1> QED
    BY <1>1, DirTypes DEF RepoInitInit, RepoInv, RepoInitTypeOK, InitOnCourse, RecordTruthful

(***************************************************************************)
(* The configs setup can load                                              *)
(***************************************************************************)

\* A config whose templates lost their sources is still the same config.
LEMMA SourceLessSame ==
    ASSUME NEW cfg, WellTyped(cfg)
    PROVE  /\ WellTyped(SourceLess(cfg))
           /\ Resolves(SourceLess(cfg)) = Resolves(cfg)
           /\ Here(SourceLess(cfg)) = Here(cfg)
           /\ \A i \in Here(cfg) : Dst(SourceLess(cfg), i) = Dst(cfg, i)
  <1> DEFINE less == SourceLess(cfg)
             bare(t) == [t EXCEPT !.src = NoFile]
  <1>1. /\ DOMAIN less = DOMAIN NoPrompts /\ less.order = cfg.order /\ less.fields = cfg.fields
        /\ less.hooks = cfg.hooks /\ less.paths = cfg.paths
        /\ less.templates = [i \in DOMAIN cfg.templates |-> bare(cfg.templates[i])]
    BY DEF SourceLess, WellTyped, NoPrompts
  <1>2. \A t \in TemplateType :
           /\ bare(t) \in TemplateType /\ bare(t).platforms = t.platforms /\ bare(t).dst = t.dst
           /\ bare(t).prompts = t.prompts
    BY DEF TemplateType
  <1>3. cfg.templates \in Seq(TemplateType)
    BY DEF WellTyped
  <1> DEFINE ts == cfg.templates
             us == less.templates
  <1>4. /\ us \in Seq(TemplateType) /\ DOMAIN us = DOMAIN ts
        /\ \A i \in DOMAIN ts : us[i].platforms = ts[i].platforms /\ us[i].dst = ts[i].dst
    <2>1. /\ Len(ts) \in Nat /\ DOMAIN ts = 1..Len(ts)
          /\ \A i \in DOMAIN ts : ts[i] \in TemplateType
      BY <1>3
    <2>2. us = [i \in 1..Len(ts) |-> bare(ts[i])]
      BY <1>1, <2>1
    <2> HIDE DEF ts, us, bare
    <2>3. \A i \in 1..Len(ts) : bare(ts[i]) \in TemplateType
      BY <1>2, <2>1
    <2>4. us \in Seq(TemplateType)
      BY <2>1, <2>2, <2>3, IsASeq
    <2> QED
      BY <1>2, <2>1, <2>2, <2>4
  <1>5. WellTyped(less)
    BY <1>1, <1>4 DEF WellTyped
  <1>6. Here(less) = Here(cfg)
    BY <1>4 DEF Here
  <1>7. \A i \in Here(cfg) : Dst(less, i) = Dst(cfg, i)
    BY <1>1, <1>4 DEF Dst, Here
  <1>8. Resolves(less) = Resolves(cfg)
    BY <1>6, <1>7 DEF Resolves
  <1> QED
    BY <1>5, <1>6, <1>7, <1>8

LEMMA LoadableTyped ==
    ASSUME NEW cfg \in Loadable
    PROVE  /\ WellTyped(cfg)
           /\ Resolves(cfg) => \A i \in Here(cfg) : Dst(cfg, i).value \in Place
  <1>1. CASE cfg \in {Remote[u] : u \in Url}
    BY <1>1, RemoteAssumption
  <1>2. CASE cfg \in {SourceLess(Remote[u]) : u \in Url}
    <2>1. PICK u \in Url : cfg = SourceLess(Remote[u])
      BY <1>2
    <2> QED
      BY <2>1, RemoteAssumption, SourceLessSame
  <1>3. CASE cfg = NoPrompts
    <2>1. << >> \in Seq(Section) /\ << >> \in Seq(TemplateType) /\ << >> \in Seq(HookType)
      OBVIOUS
    <2>2. /\ cfg.order = << >> /\ cfg.fields = << >> /\ cfg.templates = << >> /\ cfg.hooks = << >>
      BY <1>3 DEF NoPrompts
    <2>3. ToSet(<< >>) = {} /\ DOMAIN << >> = {}
      BY DEF ToSet
    <2>4. << >> \in [{} -> Seq(FieldType)]
      OBVIOUS
    <2> QED
      BY <1>3, <2>1, <2>2, <2>3, <2>4 DEF WellTyped, Here
  <1> QED
    BY <1>1, <1>2, <1>3 DEF Loadable

\* The target of a section that has one is a template for this machine, and
\* its destination a place.
LEMMA TargetsTyped ==
    ASSUME NEW cfg \in Loadable, Resolves(cfg)
    PROVE  /\ template_targets(cfg).dsts \in [Wired(cfg) -> Place]
           /\ template_targets(cfg).srcs \in [Wired(cfg) -> FileRecord \cup {NoFile}]
  <1>1. WellTyped(cfg) /\ \A i \in Here(cfg) : Dst(cfg, i).value \in Place
    BY LoadableTyped
  <1>2. cfg.templates \in Seq(TemplateType)
    BY <1>1 DEF WellTyped
  <1>3. ASSUME NEW x \in Wired(cfg)
        PROVE  TargetOf(cfg, x) \in Here(cfg)
    <2> DEFINE S == Naming(cfg, Here(cfg), x)
               n == Len(cfg.templates)
    <2>1. S # {} /\ S \subseteq Here(cfg)
      BY <1>3 DEF Wired, Naming
    <2>2. n \in Nat /\ S \in SUBSET (0..n)
      BY <1>2, <2>1 DEF Here
    <2> HIDE DEF S, n
    <2>3. \E k \in S : \A m \in S : m <= k
      BY <2>1, <2>2, Greatest
    <2>4. \E k \in S : \A m \in S : k >= m
      BY <2>2, <2>3
    <2>5. Max(S) \in S
      BY <2>4 DEF Max
    <2> QED
      BY <2>1, <2>5 DEF TargetOf, S
  <1>4. \A i \in Here(cfg) : cfg.templates[i].src \in FileRecord \cup {NoFile}
    <2>1. \A i \in Here(cfg) : cfg.templates[i] \in TemplateType
      BY <1>2 DEF Here
    <2>2. \A t \in TemplateType : t.src \in FileRecord \cup {NoFile}
      BY DEF TemplateType
    <2> QED
      BY <2>1, <2>2
  <1> QED
    BY <1>1, <1>3, <1>4 DEF template_targets

\* The least of the elements of a set of naturals is one of them.
LEMMA MinIn ==
    ASSUME NEW S \in SUBSET Nat, S # {}
    PROVE  Min(S) \in S
  BY Least DEF Min

\* A default is an answer or there is none.
LEMMA DefaultTyped ==
    ASSUME NEW field \in FieldType, NEW got, NEW f \in FileRecord \cup {NoFile},
           \A k \in DOMAIN got : got[k] \in Answer
    PROVE  resolve_default(field, got, f) \in Answer \cup {Unset}
  <1>1. ASSUME NEW k
        PROVE  read_hypr_var(f, k) \in Answer \cup {Unset}
    <2>1. CASE k = "none" \/ f = NoFile \/ k \notin Key
      BY <2>1 DEF read_hypr_var
    <2>2. CASE f \in FileRecord /\ k \in Key /\ k # "none" /\ f # NoFile
      BY DEF read_hypr_var
    <2> QED
      BY <2>1, <2>2
  <1>2. ASSUME NEW from
        PROVE  Lookup(from, got, f) \in Answer \cup {Unset}
    <2>1. \A n \in DOMAIN Machine.known : Machine.known[n] \in Answer
      BY SetupAssumption
    <2>2. CASE from.is \in {"git", "env"}
      BY <2>1, <2>2 DEF Lookup
    <2>3. CASE from.is = "field"
      BY <2>3 DEF Lookup
    <2>4. CASE from.is = "read_var"
      BY <1>1, <2>4 DEF Lookup
    <2>5. CASE from.is \notin {"git", "env", "field", "read_var"}
      BY <2>5 DEF Lookup
    <2> QED
      BY <2>2, <2>3, <2>4, <2>5
  <1>3. field.default \in Answer \cup {Unset}
    BY DEF FieldType
  <1> DEFINE c == <<read_hypr_var(f, field.read_var), Lookup(field.from, got, f), field.default>>
  <1>4. DOMAIN c = 1..3 /\ \A i \in 1..3 : c[i] \in Answer \cup {Unset}
    BY <1>1, <1>2, <1>3
  <1> HIDE DEF c
  <1>5. FirstOf(c) \in Answer \cup {Unset}
    <2> DEFINE set == {i \in DOMAIN c : c[i] # Unset}
    <2>1. CASE set = {}
      BY <2>1 DEF FirstOf
    <2>2. CASE set # {}
      <3>1. set \in SUBSET Nat /\ set \subseteq 1..3
        BY <1>4
      <3>2. Min(set) \in set
        <4> HIDE DEF set
        <4> QED
          BY <2>2, <3>1, MinIn
      <3>3. FirstOf(c) = c[Min(set)]
        BY <2>2 DEF FirstOf
      <3> QED
        BY <1>4, <3>1, <3>2, <3>3
    <2> QED
      BY <2>1, <2>2
  <1> QED
    BY <1>5 DEF resolve_default, c

LEMMA AnswersAreAnswers ==
    ASSUME NEW field, NEW default \in Answer \cup {Unset}, NEW yes
    PROVE  Answers(field, default, yes) \subseteq Answer
  <1>1. {"true", "false"} \cup Ints \cup {Empty} \cup Val \subseteq Answer
    BY DEF Answer
  <1>2. CASE field.type = "bool"
    BY <1>1, <1>2 DEF Answers
  <1>3. CASE field.type = "int"
    BY <1>1, <1>3 DEF Answers
  <1>4. CASE field.type \notin {"bool", "int"}
    BY <1>1, <1>4 DEF Answers
  <1> QED
    BY <1>2, <1>3, <1>4

(***************************************************************************)
(* What the writers write                                                  *)
(***************************************************************************)

LEMMA ContentsTyped ==
    ASSUME NEW f \in FileRecord \cup {NoFile}
    PROVE  Contents(f) \in FileRecord /\ Blank \in FileRecord
  BY DEF Contents, Blank, FileRecord, Form

LEMMA OverlayTyped ==
    ASSUME NEW vals \in [Key -> Form], NEW ans, NEW K \in SUBSET DOMAIN ans,
           \A k \in DOMAIN ans : ans[k] \in Answer
    PROVE  /\ Overlay(vals, ans, K) \in [Key -> Form]
           /\ \A k \in K \cap Key : Overlay(vals, ans, K)[k] = ans[k]
           /\ \A k \in Key \ K : Overlay(vals, ans, K)[k] = vals[k]
  BY DEF Overlay, Form

\* Reading a gitconfig changes no variable that is a line of its own, and a
\* second reading none at all.
LEMMA ReparsedIs ==
    ASSUME NEW v \in Form
    PROVE  /\ Reparsed(v) \in Form /\ Reparsed(Reparsed(v)) = Reparsed(v)
           /\ v \notin {Loose, Wrapped} => Reparsed(v) = v
           /\ \A a \in Answer : Reparsed(a) = a
  BY SetupAssumption DEF Reparsed, Form

AnswersOK(ans) == DOMAIN ans \subseteq Key /\ \A k \in DOMAIN ans : ans[k] \in Answer

\* What is in file g, that a writer made of file f.  Every answer that is
\* not empty is there, except where a template has no hole for it; gitconfig
\* and Hyprland files keep what was not asked about, the ones as far as it is
\* parsed, the others with every other line.
Takes(g, w, f, src, ans) ==
    /\ \A k \in NonEmpty(ans) :
          \/ w = "generic_template" /\ src.vals[k] # Hole
          \/ g.vals[k] = ans[k]
    /\ \A k \in Key \ DOMAIN ans :
          \/ w \notin {"gitconfig", "hypr_vars"}
          \/ w = "gitconfig" /\ Contents(f).vals[k] \in {Loose, Wrapped}
          \/ g.vals[k] = Contents(f).vals[k]
    /\ w = "hypr_vars" => g.rest = Contents(f).rest

LEMMA WrittenTyped ==
    ASSUME NEW w \in Writer, NEW f \in FileRecord \cup {NoFile}, NEW src \in FileRecord \cup {NoFile},
           w = "generic_template" => src # NoFile, NEW ans, AnswersOK(ans)
    PROVE  /\ Written(w, f, src, ans) \in FileRecord
           /\ Takes(Written(w, f, src, ans), w, f, src, ans)
  <1> USE DEF AnswersOK, Takes
  <1>1. NonEmpty(ans) \subseteq DOMAIN ans
    BY DEF NonEmpty
  <1>2. /\ Contents(f).vals \in [Key -> Form] /\ Contents(f).rest \subseteq Line
        /\ Blank.vals \in [Key -> Form]
    BY ContentsTyped DEF FileRecord
  <1>3. CASE w = "gitconfig"
    <2> DEFINE vals == [k \in Key |-> Reparsed(Contents(f).vals[k])]
    <2>1. Written(w, f, src, ans) = [vals |-> Overlay(vals, ans, NonEmpty(ans)), rest |-> {}]
      BY <1>3 DEF Written, write_gitconfig
    <2>2. /\ vals \in [Key -> Form]
          /\ \A k \in Key : Contents(f).vals[k] \notin {Loose, Wrapped} =>
                vals[k] = Contents(f).vals[k]
      BY <1>2, ReparsedIs
    <2> HIDE DEF vals
    <2>3. Written(w, f, src, ans) \in FileRecord
      BY <1>1, <2>1, <2>2, OverlayTyped DEF FileRecord
    <2> QED
      BY <1>1, <1>3, <2>1, <2>2, <2>3, OverlayTyped
  <1>4. CASE w = "hypr_vars"
    <2>1. Written(w, f, src, ans)
            = [vals |-> Overlay(Contents(f).vals, ans, DOMAIN ans), rest |-> Contents(f).rest]
      BY <1>4 DEF Written, write_hypr_vars
    <2>2. Written(w, f, src, ans) \in FileRecord
      BY <1>1, <1>2, <2>1, OverlayTyped DEF FileRecord
    <2> QED
      BY <1>1, <1>2, <1>4, <2>1, <2>2, OverlayTyped
  <1>5. CASE w = "env"
    <2>1. Written(w, f, src, ans) = [vals |-> Overlay(Blank.vals, ans, NonEmpty(ans)), rest |-> {}]
      BY <1>5 DEF Written, write_env
    <2>2. Written(w, f, src, ans) \in FileRecord
      BY <1>1, <1>2, <2>1, OverlayTyped DEF FileRecord
    <2> QED
      BY <1>1, <1>2, <1>5, <2>1, <2>2, OverlayTyped
  <1>6. CASE w = "generic_template"
    <2> DEFINE K == {k \in DOMAIN ans : src.vals[k] = Hole}
    <2>1. src \in FileRecord
      BY <1>6
    <2>2. src.vals \in [Key -> Form] /\ src.rest \subseteq Line
      BY <2>1 DEF FileRecord
    <2>3. Written(w, f, src, ans) = [src EXCEPT !.vals = Overlay(@, ans, K)]
      BY <1>6 DEF Written, write_generic_template
    <2>4. Overlay(src.vals, ans, K) \in [Key -> Form]
      BY <2>2, OverlayTyped
    <2>5. /\ Written(w, f, src, ans) \in FileRecord
          /\ Written(w, f, src, ans).vals = Overlay(src.vals, ans, K)
      BY <2>1, <2>3, <2>4 DEF FileRecord
    <2>6. \A k \in NonEmpty(ans) : src.vals[k] # Hole \/ Overlay(src.vals, ans, K)[k] = ans[k]
      BY <1>1, <2>2, OverlayTyped
    <2> QED
      BY <1>6, <2>5, <2>6
  <1> QED
    BY <1>3, <1>4, <1>5, <1>6 DEF Writer

(***************************************************************************)
(* Unattended runs                                                         *)
(***************************************************************************)

\* The first of three candidates that is set.
LEMMA FirstOfThree ==
    ASSUME NEW x, NEW y, NEW z
    PROVE  FirstOf(<<x, y, z>>) = IF x # Unset THEN x ELSE IF y # Unset THEN y ELSE z
  <1> DEFINE c == <<x, y, z>>
             set == {i \in DOMAIN c : c[i] # Unset}
  <1>1. DOMAIN c = 1..3 /\ c[1] = x /\ c[2] = y /\ c[3] = z
    OBVIOUS
  <1>2. FirstOf(c) = IF set = {} THEN Unset ELSE c[Min(set)]
    BY DEF FirstOf
  <1> HIDE DEF c
  <1>3. set \in SUBSET Nat /\ set \subseteq {1, 2, 3}
    BY <1>1
  <1>4. /\ x # Unset => 1 \in set
        /\ y # Unset => 2 \in set
        /\ z # Unset => 3 \in set
        /\ x = Unset => 1 \notin set
        /\ y = Unset => 2 \notin set
        /\ z = Unset => 3 \notin set
    BY <1>1
  <1> HIDE DEF set
  <1>5. ASSUME NEW k \in set, \A m \in set : k <= m
        PROVE  Min(set) = k
    <2>1. Min(set) \in set /\ \A m \in set : Min(set) <= m
      BY <1>5 DEF Min
    <2>2. Min(set) <= k /\ k <= Min(set) /\ k \in Nat /\ Min(set) \in Nat
      BY <1>3, <1>5, <2>1
    <2> QED
      BY <2>2
  <1>6. CASE x # Unset
    <2>1. Min(set) = 1
      BY <1>3, <1>4, <1>5, <1>6
    <2> QED
      BY <1>1, <1>2, <1>4, <1>6, <2>1 DEF c
  <1>7. CASE x = Unset /\ y # Unset
    <2>1. Min(set) = 2
      BY <1>3, <1>4, <1>5, <1>7
    <2> QED
      BY <1>1, <1>2, <1>4, <1>7, <2>1 DEF c
  <1>8. CASE x = Unset /\ y = Unset /\ z # Unset
    <2>1. Min(set) = 3
      BY <1>3, <1>4, <1>5, <1>8
    <2> QED
      BY <1>1, <1>2, <1>4, <1>8, <2>1 DEF c
  <1>9. CASE x = Unset /\ y = Unset /\ z = Unset
    <2>1. set = {}
      BY <1>3, <1>4, <1>9
    <2> QED
      BY <1>2, <1>9, <2>1 DEF c
  <1> QED
    BY <1>6, <1>7, <1>8, <1>9

\* What --yes answers is one answer, and the one it gives again if that is
\* what it finds.
LEMMA YesAnswers ==
    ASSUME NEW field, NEW default \in Answer \cup {Unset},
           NEW a \in Answers(field, default, TRUE)
    PROVE  Answers(field, default, TRUE) = {a} /\ Answers(field, a, TRUE) = {a}
  <1>1. a \in Answer /\ a # Unset
    BY AnswersAreAnswers, SetupAssumption
  <1>2. CASE field.type = "bool"
    BY <1>2 DEF Answers
  <1>3. CASE field.type = "int"
    BY <1>3 DEF Answers
  <1>4. CASE field.type \notin {"bool", "int"}
    BY <1>1, <1>4 DEF Answers
  <1> QED
    BY <1>2, <1>3, <1>4

Given == UNION {[K -> Answer] : K \in SUBSET Key}
Progress == [failed : BOOLEAN, ans : Given]

LEMMA GivenIs ==
    ASSUME NEW got
    PROVE  got \in Given => DOMAIN got \subseteq Key /\ \A k \in DOMAIN got : got[k] \in Answer
  BY DEF Given

LEMMA IsGiven ==
    ASSUME NEW K \in SUBSET Key, NEW got \in [K -> Answer]
    PROVE  got \in Given
  BY DEF Given

\* What an answer to one more field makes of those before it.
NextIs(next, acc, field, f) ==
    LET default == resolve_default(field, acc.ans, f)
        answers == Answers(field, default, TRUE)
    IN  /\ default \in Answer \cup {Unset}
        /\ next \in Progress
        /\ acc.failed \/ Gated(field, acc.ans) => next = acc
        /\ ~acc.failed /\ ~Gated(field, acc.ans) =>
              /\ answers = {} => next.failed
              /\ \A a \in answers :
                    next = [failed |-> FALSE, ans |-> With(acc.ans, field.key, a)]

LEMMA NextAnswerSteps ==
    ASSUME NEW acc \in Progress, NEW field \in FieldType, NEW f \in FileRecord \cup {NoFile}
    PROVE  NextIs(NextAnswer(acc, field, f), acc, field, f)
  <1> DEFINE d == resolve_default(field, acc.ans, f)
             next == NextAnswer(acc, field, f)
             v == Answers(field, d, TRUE)
             with(a) == With(acc.ans, field.key, a)
  <1>1. acc.ans \in Given /\ acc.failed \in BOOLEAN
    BY DEF Progress
  <1>2. DOMAIN acc.ans \subseteq Key /\ \A k \in DOMAIN acc.ans : acc.ans[k] \in Answer
    BY <1>1, GivenIs
  <1>3. d \in Answer \cup {Unset}
    BY <1>2, DefaultTyped
  <1>4. next = IF acc.failed \/ Gated(field, acc.ans) THEN acc
               ELSE IF v = {} THEN [failed |-> TRUE, ans |-> acc.ans]
               ELSE [failed |-> FALSE, ans |-> with(CHOOSE a \in v : TRUE)]
    BY DEF NextAnswer
  <1> HIDE DEF d, next, v
  <1>5. v \subseteq Answer
    BY <1>3, AnswersAreAnswers DEF v
  <1>6. field.key \in Key
    BY DEF FieldType
  <1>7. ASSUME NEW a \in v
        PROVE  with(a) \in Given
    <2> DEFINE K == DOMAIN acc.ans \cup {field.key}
    <2>1. with(a) \in [K -> Answer] /\ K \in SUBSET Key
      BY <1>2, <1>5, <1>6 DEF With
    <2> QED
      BY <2>1, IsGiven
  <1>8. ASSUME NEW a \in v
        PROVE  (CHOOSE b \in v : TRUE) = a
    <2>1. v = {a}
      BY <1>3, YesAnswers DEF v
    <2> QED
      BY <2>1
  <1>9. next \in Progress
    <2>1. v # {} => (CHOOSE a \in v : TRUE) \in v
      OBVIOUS
    <2>2. v # {} => with(CHOOSE a \in v : TRUE) \in Given
      BY <1>7, <2>1
    <2> HIDE DEF with
    <2> QED
      BY <1>1, <1>4, <2>2 DEF Progress
  <1>10. ASSUME ~acc.failed, ~Gated(field, acc.ans), NEW a \in v
         PROVE  next = [failed |-> FALSE, ans |-> with(a)]
    BY <1>4, <1>8, <1>10
  <1>11. (acc.failed \/ Gated(field, acc.ans) => next = acc)
         /\ (~acc.failed /\ ~Gated(field, acc.ans) /\ v = {} => next.failed)
    BY <1>4
  <1> QED
    BY <1>3, <1>9, <1>10, <1>11 DEF NextIs, d, next, v

\* What --yes answers to a section exists, field by field.
UpToSteps(u, fields, f) ==
    /\ u \in [0..Len(fields) -> Progress]
    /\ u[0] = [failed |-> FALSE, ans |-> << >>]
    /\ \A n \in 1..Len(fields) : u[n] = NextAnswer(u[n - 1], fields[n], f)

LEMMA UnattendedSteps ==
    ASSUME NEW cfg, NEW s, NEW f \in FileRecord \cup {NoFile}, cfg.fields[s] \in Seq(FieldType)
    PROVE  /\ UpToSteps(UnattendedUpTo(cfg, s, f), cfg.fields[s], f)
           /\ Unattended(cfg, s, f) = UnattendedUpTo(cfg, s, f)[Len(cfg.fields[s])]
  <1> DEFINE fields == cfg.fields[s]
             N == Len(fields)
             base == [failed |-> FALSE, ans |-> << >>]
             Next1(h, n) == IF n = 0 THEN base ELSE NextAnswer(h[n - 1], fields[n], f)
             step == [n \in 1..N |-> [acc \in Progress |-> NextAnswer(acc, fields[n], f)]]
             u == CHOOSE h : h = [n \in 0..N |-> Next1(h, n)]
  <1>1. UnattendedUpTo(cfg, s, f) = u
    BY DEF UnattendedUpTo
  <1>2. N \in Nat /\ \A n \in 1..N : fields[n] \in FieldType
    OBVIOUS
  <1> HIDE DEF N, fields
  <1>3. base \in Progress
    <2>1. << >> \in [{} -> Answer] /\ {} \in SUBSET Key
      OBVIOUS
    <2>2. << >> \in Given
      BY <2>1, IsGiven
    <2> QED
      BY <2>2 DEF Progress
  <1>4. \A n \in 1..N, acc \in Progress : NextAnswer(acc, fields[n], f) \in Progress
    BY <1>2, NextAnswerSteps DEF NextIs
  <1>5. step \in Steps(N, Progress)
    BY <1>4 DEF Steps
  <1>6. PICK h \in Iterates(N, Progress, base, step) : TRUE
    <2>1. Iterates(N, Progress, base, step) # {}
      <3> HIDE DEF step, base
      <3> QED
        BY <1>2, <1>3, <1>5, Recursion
    <2> QED
      BY <2>1
  <1>7. h \in [0..N -> Progress] /\ h[0] = base /\ \A n \in 1..N : h[n] = step[n][h[n - 1]]
    BY <1>6 DEF Iterates
  <1>8. ASSUME NEW n \in 1..N
        PROVE  h[n] = NextAnswer(h[n - 1], fields[n], f)
    <2>1. n - 1 \in 0..N
      BY <1>2
    <2>2. h[n] = step[n][h[n - 1]] /\ h[n - 1] \in Progress
      BY <1>7, <2>1
    <2> QED
      BY <2>2
  <1>9. ASSUME NEW n \in 0..N
        PROVE  h[n] = Next1(h, n)
    <2>1. n # 0 => n \in 1..N
      BY <1>2
    <2> HIDE DEF base
    <2> QED
      BY <1>7, <1>8, <2>1
  <1>10. h = [n \in 0..N |-> Next1(h, n)]
    BY <1>7, <1>9
  <1>11. u = [n \in 0..N |-> Next1(u, n)]
    BY <1>10
  <1> HIDE DEF u
  <1>12. DOMAIN u = 0..N /\ \A n \in 0..N : u[n] = Next1(u, n)
    <2> HIDE DEF Next1
    <2> QED
      BY <1>11
  <1>13. u[0] = base /\ \A n \in 1..N : u[n] = NextAnswer(u[n - 1], fields[n], f)
    <2>1. 0 \in 0..N /\ \A n \in 1..N : n \in 0..N /\ n # 0
      BY <1>2
    <2> HIDE DEF base
    <2> QED
      BY <1>12, <2>1
  <1> DEFINE G == {n \in 0..N : u[n] \in Progress}
  <1>14. 0 \in G
    BY <1>2, <1>3, <1>13
  <1>15. ASSUME NEW n \in 1..N, n - 1 \in G
         PROVE  n \in G
    BY <1>2, <1>4, <1>13, <1>15
  <1>16. 0..N \subseteq G
    <2> HIDE DEF G
    <2> QED
      BY <1>2, <1>14, <1>15, Induct
  <1>17. u \in [0..N -> Progress]
    BY <1>11, <1>16
  <1>18. UpToSteps(u, fields, f)
    BY <1>13, <1>17 DEF UpToSteps, N
  <1> QED
    BY <1>1, <1>18 DEF Unattended, N, fields

\* What holds after some field stays so to the last one.
LEMMA FromHere ==
    ASSUME NEW N \in Nat, NEW m \in 0..N, NEW S, m \in S,
           \A i \in 1..N : m < i /\ i - 1 \in S => i \in S
    PROVE  N \in S
  <1> DEFINE G == {i \in 0..N : m <= i => i \in S}
  <1>1. 0 \in G
    OBVIOUS
  <1>2. ASSUME NEW i \in 1..N, i - 1 \in G
        PROVE  i \in G
    BY <1>2
  <1> HIDE DEF G
  <1>3. 0..N \subseteq G
    BY <1>1, <1>2, Induct
  <1> QED
    BY <1>3 DEF G

\* The answer to field n is the one its default makes, and is there at the
\* end.
Lasts(u, fields, f, n) ==
    LET key == fields[n].key
        a == u[n].ans[key]
    IN  /\ key \in DOMAIN u[Len(fields)].ans /\ u[Len(fields)].ans[key] = a
        /\ a \in Answers(fields[n], resolve_default(fields[n], u[n - 1].ans, f), TRUE)
        /\ u[n] = [failed |-> FALSE, ans |-> With(u[n - 1].ans, key, a)]

\* In a section that --yes answers no field fails, and what a field is
\* answered is in the answers at the end unless another field has its key.
LEMMA AnswersLast ==
    ASSUME NEW fields \in Seq(FieldType), NEW f \in FileRecord \cup {NoFile},
           NEW u, UpToSteps(u, fields, f), ~u[Len(fields)].failed
    PROVE  /\ \A n \in 0..Len(fields) : ~u[n].failed
           /\ DOMAIN u[Len(fields)].ans \subseteq Keys(fields)
           /\ \A n \in 1..Len(fields) :
                 /\ ~Gated(fields[n], u[n - 1].ans)
                 /\ \A j \in DOMAIN fields : j # n => fields[j].key # fields[n].key
                 => Lasts(u, fields, f, n)
  <1> DEFINE N == Len(fields)
             d(n) == resolve_default(fields[n], u[n - 1].ans, f)
             with(n, a) == With(u[n - 1].ans, fields[n].key, a)
  <1>1. /\ N \in Nat /\ DOMAIN fields = 1..N
        /\ \A n \in 1..N : fields[n] \in FieldType /\ n - 1 \in 0..N /\ n \in 0..N
    OBVIOUS
  <1>2. /\ u \in [0..N -> Progress] /\ u[0] = [failed |-> FALSE, ans |-> << >>]
        /\ \A n \in 1..N : u[n] = NextAnswer(u[n - 1], fields[n], f)
    BY DEF UpToSteps
  <1>3. ASSUME NEW n \in 1..N
        PROVE  /\ d(n) \in Answer \cup {Unset}
               /\ u[n - 1].failed \/ Gated(fields[n], u[n - 1].ans) => u[n] = u[n - 1]
               /\ ~u[n - 1].failed /\ ~Gated(fields[n], u[n - 1].ans) =>
                     /\ Answers(fields[n], d(n), TRUE) = {} => u[n].failed
                     /\ \A a \in Answers(fields[n], d(n), TRUE) :
                           u[n] = [failed |-> FALSE, ans |-> with(n, a)]
    <2> DEFINE acc == u[n - 1]
               field == fields[n]
    <2>1. acc \in Progress /\ field \in FieldType /\ u[n] = NextAnswer(acc, field, f)
      BY <1>1, <1>2
    <2> HIDE DEF acc, field
    <2>2. NextIs(u[n], acc, field, f)
      BY <2>1, NextAnswerSteps
    <2> QED
      BY <2>2 DEF NextIs, acc, field
  <1> HIDE DEF N, d
  <1>4. ASSUME NEW n \in 0..N
        PROVE  ~u[n].failed
    <2> DEFINE S == {i \in 0..N : u[i].failed}
    <2>1. SUFFICES ASSUME n \in S
                   PROVE  N \in S
      BY DEF N
    <2>2. \A i \in 1..N : i - 1 \in S => i \in S
      BY <1>1, <1>3
    <2> HIDE DEF S
    <2> QED
      BY <1>1, <2>1, <2>2, FromHere
  <1>5. ASSUME NEW n \in 1..N, ~Gated(fields[n], u[n - 1].ans)
        PROVE  \E a \in Answers(fields[n], d(n), TRUE) : u[n] = [failed |-> FALSE, ans |-> with(n, a)]
    <2>1. ~u[n - 1].failed /\ ~u[n].failed
      BY <1>1, <1>4
    <2> HIDE DEF with
    <2> QED
      BY <1>3, <1>5, <2>1
  <1>6. DOMAIN u[N].ans \subseteq Keys(fields)
    <2> DEFINE S == {i \in 0..N : DOMAIN u[i].ans \subseteq Keys(fields)}
    <2>1. 0 \in S
      BY <1>1, <1>2
    <2>2. ASSUME NEW i \in 1..N, i - 1 \in S
          PROVE  i \in S
      <3>1. fields[i].key \in Keys(fields)
        BY <1>1 DEF Keys
      <3>2. CASE Gated(fields[i], u[i - 1].ans)
        BY <1>1, <1>3, <2>2, <3>2
      <3>3. CASE ~Gated(fields[i], u[i - 1].ans)
        <4>1. PICK b \in Answers(fields[i], d(i), TRUE) : u[i] = [failed |-> FALSE, ans |-> with(i, b)]
          BY <1>5, <3>3
        <4>2. DOMAIN u[i].ans = DOMAIN u[i - 1].ans \cup {fields[i].key}
          BY <4>1 DEF With
        <4> QED
          BY <1>1, <2>2, <3>1, <4>2
      <3> QED
        BY <3>2, <3>3
    <2> HIDE DEF S
    <2>3. N \in S
      BY <1>1, <2>1, <2>2, FromHere
    <2> QED
      BY <2>3 DEF S
  <1>7. ASSUME NEW n \in 1..N, ~Gated(fields[n], u[n - 1].ans),
               \A j \in DOMAIN fields : j # n => fields[j].key # fields[n].key
        PROVE  Lasts(u, fields, f, n)
    <2> DEFINE key == fields[n].key
    <2>1. PICK a \in Answers(fields[n], d(n), TRUE) : u[n] = [failed |-> FALSE, ans |-> with(n, a)]
      BY <1>5, <1>7
    <2>2. key \in DOMAIN u[n].ans /\ u[n].ans[key] = a
      BY <2>1 DEF With
    <2> DEFINE S == {i \in 0..N : key \in DOMAIN u[i].ans /\ u[i].ans[key] = a}
    <2>3. n \in S
      BY <1>1, <2>2
    <2>4. ASSUME NEW i \in 1..N, n < i, i - 1 \in S
          PROVE  i \in S
      <3>1. i # n /\ i \in DOMAIN fields /\ fields[i].key # key
        BY <1>1, <1>7, <2>4
      <3>2. CASE Gated(fields[i], u[i - 1].ans)
        BY <1>1, <1>3, <2>4, <3>2
      <3>3. CASE ~Gated(fields[i], u[i - 1].ans)
        <4>1. PICK b \in Answers(fields[i], d(i), TRUE) : u[i] = [failed |-> FALSE, ans |-> with(i, b)]
          BY <1>5, <3>3
        <4>2. key \in DOMAIN u[i].ans /\ u[i].ans[key] = u[i - 1].ans[key]
          BY <2>4, <3>1, <4>1 DEF With
        <4> QED
          BY <1>1, <2>4, <4>2
      <3> QED
        BY <3>2, <3>3
    <2> HIDE DEF S
    <2>5. N \in S
      BY <1>1, <2>3, <2>4, FromHere
    <2>6. key \in DOMAIN u[N].ans /\ u[N].ans[key] = a
      BY <2>5 DEF S
    <2> QED
      BY <2>1, <2>2, <2>6 DEF Lasts, N, d
  <1> QED
    BY <1>4, <1>6, <1>7 DEF N

\* A file that holds a field's answer, and is as it was in the other
\* variables the field reads, gives its default or that answer.
LEMMA DefaultAgain ==
    ASSUME NEW field \in FieldType, NEW got, NEW f \in FileRecord \cup {NoFile},
           NEW g \in FileRecord, NEW a \in Answer,
           \A k \in (Reads(field) \cap Key) \ {"none"} :
              g.vals[k] = IF k = field.key THEN a ELSE Contents(f).vals[k]
    PROVE  resolve_default(field, got, g) \in {resolve_default(field, got, f), a}
  <1> DEFINE x(h) == read_hypr_var(h, field.read_var)
             y(h) == Lookup(field.from, got, h)
  <1>1. a # Unset /\ Unset \notin Answer /\ g # NoFile
    BY SetupAssumption
  <1>2. ASSUME NEW k \in Reads(field)
        PROVE  read_hypr_var(g, k) \in {read_hypr_var(f, k), a}
    <2>1. CASE k = "none" \/ k \notin Key
      BY <2>1 DEF read_hypr_var
    <2>2. CASE k # "none" /\ k \in Key /\ k = field.key
      <3>1. g.vals[k] = a
        BY <1>2, <2>2
      <3> QED
        BY <1>1, <2>2, <3>1 DEF read_hypr_var
    <2>3. CASE k # "none" /\ k \in Key /\ k # field.key
      <3>1. g.vals[k] = Contents(f).vals[k]
        BY <1>2, <2>3
      <3>2. CASE f = NoFile
        <4>1. g.vals[k] = Unset
          BY <2>3, <3>1, <3>2 DEF Contents, Blank
        <4> QED
          BY <1>1, <2>3, <3>2, <4>1 DEF read_hypr_var
      <3>3. CASE f # NoFile
        BY <1>1, <2>3, <3>1, <3>3 DEF read_hypr_var, Contents
      <3> QED
        BY <3>2, <3>3
    <2> QED
      BY <2>1, <2>2, <2>3
  <1>3. x(g) \in {x(f), a}
    BY <1>2 DEF Reads
  <1>4. y(g) \in {y(f), a}
    <2>1. CASE field.from.is = "read_var"
      <3>1. read_hypr_var(g, field.from.name) \in {read_hypr_var(f, field.from.name), a}
        BY <1>2, <2>1 DEF Reads
      <3> QED
        BY <2>1, <3>1 DEF Lookup
    <2>2. CASE field.from.is # "read_var"
      BY <2>2 DEF Lookup
    <2> QED
      BY <2>1, <2>2
  <1>5. \A h : resolve_default(field, got, h) =
            IF x(h) # Unset THEN x(h) ELSE IF y(h) # Unset THEN y(h) ELSE field.default
    BY FirstOfThree DEF resolve_default
  <1> HIDE DEF x, y
  <1> QED
    BY <1>1, <1>3, <1>4, <1>5

\* Fields that read no variable another one sets.
Apart(fields) ==
    \A i, j \in DOMAIN fields :
        i # j => fields[j].key \notin {fields[i].key} \cup Reads(fields[i])

\* Where the fields read it, file g is f with these answers.
Holds(g, ans, f, fields) ==
    \A i \in DOMAIN fields : \A k \in (Reads(fields[i]) \cap Key) \ {"none"} :
        IF k \in DOMAIN ans THEN g.vals[k] = ans[k]
        ELSE k # fields[i].key => g.vals[k] = Contents(f).vals[k]

\* Asked again of a file with its answers, --yes answers the same.
LEMMA AnsweredAgain ==
    ASSUME NEW fields \in Seq(FieldType), Apart(fields),
           NEW f \in FileRecord \cup {NoFile}, NEW g \in FileRecord,
           NEW u, UpToSteps(u, fields, f), ~u[Len(fields)].failed,
           NEW v, UpToSteps(v, fields, g),
           Holds(g, u[Len(fields)].ans, f, fields)
    PROVE  v[Len(fields)] = u[Len(fields)]
  <1> DEFINE N == Len(fields)
             last == u[N].ans
             G == {n \in 0..N : v[n] = u[n]}
  <1>1. N \in Nat /\ DOMAIN fields = 1..N
    OBVIOUS
  <1>2. 0 \in G
    BY DEF UpToSteps
  <1>3. ASSUME NEW n \in 1..N, n - 1 \in G
        PROVE  n \in G
    <2> DEFINE field == fields[n]
               acc == u[n - 1]
               a == u[n].ans[field.key]
               with(b) == With(acc.ans, field.key, b)
    <2>1. /\ field \in FieldType /\ acc \in Progress /\ v[n - 1] = acc /\ n \in 0..N
          /\ v[n] = NextAnswer(acc, field, g) /\ ~acc.failed /\ field.key \in Key
      <3>1. field \in FieldType /\ n - 1 \in 0..N /\ v[n - 1] = acc
        BY <1>3
      <3>2. acc \in Progress /\ v[n] = NextAnswer(acc, field, g)
        BY <3>1 DEF UpToSteps
      <3>3. ~acc.failed
        BY <3>1, AnswersLast
      <3>4. field.key \in Key
        BY <3>1 DEF FieldType
      <3> QED
        BY <3>1, <3>2, <3>3, <3>4
    <2>2. CASE Gated(field, acc.ans)
      <3>1. u[n] = NextAnswer(acc, field, f)
        BY DEF UpToSteps
      <3> HIDE DEF field, acc
      <3>2. NextIs(u[n], acc, field, f) /\ NextIs(v[n], acc, field, g)
        BY <2>1, <3>1, NextAnswerSteps
      <3>3. u[n] = acc /\ v[n] = acc
        BY <2>2, <3>2 DEF NextIs
      <3> QED
        BY <2>1, <3>3
    <2>3. CASE ~Gated(field, acc.ans)
      <3>1. \A j \in DOMAIN fields : j # n => fields[j].key # field.key /\ fields[j].key \notin Reads(field)
        BY <1>1 DEF Apart
      <3>2. /\ field.key \in DOMAIN last /\ last[field.key] = a
            /\ a \in Answers(field, resolve_default(field, acc.ans, f), TRUE)
            /\ u[n] = [failed |-> FALSE, ans |-> with(a)]
        <4>1. Lasts(u, fields, f, n)
          BY <2>3, <3>1, AnswersLast
        <4> QED
          BY <4>1 DEF Lasts
      <3>3. DOMAIN last \subseteq Keys(fields)
        BY AnswersLast
      <3>4. ASSUME NEW k \in (Reads(field) \cap Key) \ {"none"}
            PROVE  g.vals[k] = IF k = field.key THEN a ELSE Contents(f).vals[k]
        <4>0. n \in DOMAIN fields
          BY <1>1
        <4>1. CASE k = field.key
          BY <3>2, <4>0, <4>1 DEF Holds
        <4>2. CASE k # field.key
          <5>1. k \notin Keys(fields)
            BY <3>1, <4>2 DEF Keys
          <5> QED
            BY <3>3, <4>0, <4>2, <5>1 DEF Holds
        <4> QED
          BY <4>1, <4>2
      <3> HIDE DEF field, acc, a, with
      <3> DEFINE d == resolve_default(field, acc.ans, f)
                 e == resolve_default(field, acc.ans, g)
      <3>5. d \in Answer \cup {Unset} /\ NextIs(v[n], acc, field, g)
        <4>1. NextIs(NextAnswer(acc, field, f), acc, field, f) /\ NextIs(v[n], acc, field, g)
          BY <2>1, NextAnswerSteps
        <4> QED
          BY <4>1 DEF NextIs
      <3>6. a \in Answers(field, d, TRUE)
        BY <3>2
      <3>7. ASSUME a \in Answer
            PROVE  e \in {d, a}
        BY <2>1, <3>4, <3>7, DefaultAgain
      <3> HIDE DEF d
      <3>8. a \in Answer
        BY <3>5, <3>6, AnswersAreAnswers
      <3>9. Answers(field, d, TRUE) = {a} /\ Answers(field, a, TRUE) = {a}
        BY <3>5, <3>6, YesAnswers
      <3>10. a \in Answers(field, e, TRUE)
        BY <3>7, <3>8, <3>9
      <3>11. v[n] = [failed |-> FALSE, ans |-> with(a)]
        BY <2>1, <2>3, <3>5, <3>10 DEF NextIs, with
      <3> QED
        BY <2>1, <3>2, <3>11
    <2> QED
      BY <2>2, <2>3
  <1> HIDE DEF G, N
  <1>4. 0..N \subseteq G
    BY <1>1, <1>2, <1>3, Induct
  <1> QED
    BY <1>1, <1>4 DEF G, N

\* A template has a place for what the fields read.
Fillable(fields, src) ==
    \A i \in DOMAIN fields : \A k \in Reads(fields[i]) \ {"none"} :
        k = fields[i].key /\ src.vals[k] = Hole

\* A writer leaves its own file as it is.
Settles(w, f, src, ans) ==
    LET g == Written(w, f, src, ans)
    IN  g \in FileRecord /\ Written(w, g, src, ans) = g

LEMMA WrittenAgain ==
    ASSUME NEW w \in Writer, NEW f \in FileRecord \cup {NoFile}, NEW src \in FileRecord \cup {NoFile},
           w = "generic_template" => src # NoFile, NEW ans, AnswersOK(ans)
    PROVE  Settles(w, f, src, ans)
  <1> SUFFICES ASSUME NEW g, g = Written(w, f, src, ans)
               PROVE  g \in FileRecord /\ Written(w, g, src, ans) = g
    BY DEF Settles
  <1>1. g \in FileRecord /\ g # NoFile /\ Contents(g) = g
    <2>1. g \in FileRecord
      BY WrittenTyped
    <2>2. NoFile \notin FileRecord
      BY SetupAssumption
    <2> QED
      BY <2>1, <2>2 DEF Contents
  <1> SUFFICES Written(w, g, src, ans) = g
    BY <1>1
  <1>2. ASSUME NEW vals, NEW K
        PROVE  Overlay(Overlay(vals, ans, K), ans, K) = Overlay(vals, ans, K)
    BY DEF Overlay
  <1>3. CASE w = "gitconfig"
    <2> DEFINE re(h) == [k \in Key |-> Reparsed(Contents(h).vals[k])]
               K == NonEmpty(ans)
    <2>1. \A h : Written(w, h, src, ans) = [vals |-> Overlay(re(h), ans, K), rest |-> {}]
      BY <1>3 DEF Written, write_gitconfig
    <2>2. g.vals = Overlay(re(f), ans, K) /\ g.vals \in [Key -> Form]
      BY <1>1, <2>1 DEF FileRecord
    <2>3. Contents(f).vals \in [Key -> Form] /\ K \subseteq DOMAIN ans
      BY ContentsTyped DEF FileRecord, NonEmpty
    <2>4. ASSUME NEW k \in Key
          PROVE  Reparsed(g.vals[k]) = g.vals[k]
      <3>1. g.vals[k] = IF k \in K THEN ans[k] ELSE Reparsed(Contents(f).vals[k])
        BY <2>2 DEF Overlay
      <3>2. CASE k \in K
        <4>1. ans[k] \in Answer
          BY <2>3, <3>2 DEF AnswersOK
        <4>2. g.vals[k] \in Form
          BY <2>2
        <4> QED
          BY <3>1, <3>2, <4>1, <4>2, ReparsedIs
      <3>3. CASE k \notin K
        <4>1. Contents(f).vals[k] \in Form
          BY <2>3
        <4> QED
          BY <3>1, <3>3, <4>1, ReparsedIs
      <3> QED
        BY <3>2, <3>3
    <2>5. re(g) = g.vals
      BY <1>1, <2>2, <2>4
    <2> HIDE DEF re, K
    <2>6. Written(w, g, src, ans) = g
      BY <1>2, <2>1, <2>2, <2>5
    <2> QED
      BY <1>3, <2>6
  <1>4. CASE w = "hypr_vars"
    <2>1. \A h : Written(w, h, src, ans)
                   = [vals |-> Overlay(Contents(h).vals, ans, DOMAIN ans), rest |-> Contents(h).rest]
      BY <1>4 DEF Written, write_hypr_vars
    <2>2. g.vals = Overlay(Contents(f).vals, ans, DOMAIN ans) /\ g.rest = Contents(f).rest
      BY <2>1
    <2> QED
      BY <1>1, <1>2, <2>1, <2>2
  <1>5. CASE w = "env"
    BY <1>5 DEF Written
  <1>6. CASE w = "generic_template"
    BY <1>6 DEF Written
  <1> QED
    BY <1>1, <1>3, <1>4, <1>5, <1>6 DEF Writer

\* What the fields read of a file is in it as it was answered.
LEMMA WrittenHolds ==
    ASSUME NEW w \in {"hypr_vars", "generic_template"}, NEW f, NEW src, NEW ans,
           NEW g, g = Written(w, f, src, ans), NEW fields,
           w = "generic_template" => src \in FileRecord /\ Fillable(fields, src)
    PROVE  Holds(g, ans, f, fields)
  <1>1. CASE w = "hypr_vars"
    <2>1. g.vals = Overlay(Contents(f).vals, ans, DOMAIN ans)
      BY <1>1 DEF Written, write_hypr_vars
    <2> QED
      BY <2>1 DEF Overlay, Holds
  <1>2. CASE w = "generic_template"
    <2>1. g = [src EXCEPT !.vals = Overlay(@, ans, {k \in DOMAIN ans : src.vals[k] = Hole})]
      BY <1>2 DEF Written, write_generic_template
    <2>2. g.vals = Overlay(src.vals, ans, {k \in DOMAIN ans : src.vals[k] = Hole})
      BY <2>1 DEF FileRecord
    <2> QED
      BY <1>2, <2>2 DEF Overlay, Holds, Fillable
  <1> QED
    BY <1>1, <1>2

\* What --yes wrote, it writes again: asked of the file as it is now, it
\* answers what it answered then.
Repeats(cfg, s, src, g) ==
    LET again == Unattended(cfg, s, ReadBy(cfg, s, g))
    IN  ~again.failed /\ Written(cfg.writer[s], g, src, again.ans) = g

LEMMA StableAgain ==
    ASSUME NEW cfg, NEW s, cfg.fields[s] \in Seq(FieldType), cfg.writer[s] \in Writer,
           NEW f \in FileRecord \cup {NoFile}, NEW src \in FileRecord \cup {NoFile},
           cfg.writer[s] = "generic_template" => src # NoFile,
           OwnVariables(cfg, s, src),
           NEW ans, Unattended(cfg, s, ReadBy(cfg, s, f)) = [failed |-> FALSE, ans |-> ans],
           NEW g, g = Written(cfg.writer[s], f, src, ans)
    PROVE  Repeats(cfg, s, src, g)
  <1> DEFINE fields == cfg.fields[s]
             w == cfg.writer[s]
             u == UnattendedUpTo(cfg, s, ReadBy(cfg, s, f))
             v == UnattendedUpTo(cfg, s, ReadBy(cfg, s, g))
             N == Len(fields)
  <1>1. ReadBy(cfg, s, f) \in FileRecord \cup {NoFile}
    BY DEF ReadBy
  <1>2. /\ UpToSteps(u, fields, ReadBy(cfg, s, f))
        /\ u[N] = [failed |-> FALSE, ans |-> ans]
    BY <1>1, UnattendedSteps
  <1>3. AnswersOK(ans)
    <2>1. u[N] \in Progress
      BY <1>2 DEF UpToSteps
    <2>2. ans \in Given
      BY <1>2, <2>1 DEF Progress
    <2> QED
      BY <2>2, GivenIs DEF AnswersOK
  <1>w. w \in Writer /\ g = Written(w, f, src, ans) /\ (w = "generic_template" => src # NoFile)
    OBVIOUS
  <1> HIDE DEF w
  <1>4. g \in FileRecord /\ Written(w, g, src, ans) = g
    <2>1. Settles(w, f, src, ans)
      BY <1>3, <1>w, WrittenAgain
    <2> QED
      BY <1>w, <2>1 DEF Settles
  <1>5. CASE w \in {"gitconfig", "env"}
    <2>1. ReadBy(cfg, s, g) = ReadBy(cfg, s, f)
      BY <1>5 DEF ReadBy, w
    <2> QED
      BY <1>4, <2>1 DEF Repeats, w
  <1>6. CASE w \in {"hypr_vars", "generic_template"}
    <2>1. ReadBy(cfg, s, f) = f /\ ReadBy(cfg, s, g) = g
      BY <1>6 DEF ReadBy, w
    <2>2. UpToSteps(v, fields, g) /\ Unattended(cfg, s, g) = v[N]
      BY <1>4, <2>1, UnattendedSteps
    <2>3. Apart(fields)
      BY <1>6 DEF OwnVariables, Apart, w
    <2>4. Holds(g, ans, f, fields)
      <3>1. w = "generic_template" => Fillable(fields, src)
        BY DEF OwnVariables, Fillable, w
      <3>2. w = "generic_template" => src \in FileRecord
        BY <1>w
      <3> HIDE DEF fields
      <3> QED
        BY <1>6, <1>w, <3>1, <3>2, WrittenHolds
    <2>5. fields \in Seq(FieldType)
      OBVIOUS
    <2>6. UpToSteps(u, fields, f) /\ ~u[Len(fields)].failed /\ u[Len(fields)].ans = ans
      BY <1>2, <2>1
    <2> HIDE DEF u, v, fields
    <2>7. Holds(g, u[Len(fields)].ans, f, fields)
      BY <2>4, <2>6
    <2>8. v[Len(fields)] = u[Len(fields)]
      BY <1>4, <2>2, <2>3, <2>5, <2>6, <2>7, AnsweredAgain
    <2> QED
      BY <1>2, <1>4, <2>1, <2>2, <2>8 DEF Repeats, w
  <1> QED
    BY <1>5, <1>6, <1>w DEF Writer

(***************************************************************************)
(* krypt setup                                                             *)
(***************************************************************************)

\* At rest there is nothing to be wrong but the files.
AtRest == spc = "idle" /\ Rests /\ files \in [Place -> FileRecord \cup {NoFile}]

LEMMA RestsInv == AtRest => SetupInv
  <1> SUFFICES ASSUME AtRest
               PROVE  SetupInv
    OBVIOUS
  <1> USE DEF AtRest
  <1>1. scfg.order = << >> /\ ToSet(scfg.order) = {}
    BY DEF Rests, NoPrompts, ToSet
  <1>2. NoSetup \in SetupCommand
    <2>1. << >> \in Seq(Section)
      OBVIOUS
    <2> QED
      BY <2>1 DEF NoSetup, SetupCommand
  <1>3. << >> \in Seq({}) /\ DOMAIN << >> = {}
    OBVIOUS
  <1>4. SetupTypeOK
    <2>1. << >> \in Seq(Section) /\ << >> \in Seq(Place)
      OBVIOUS
    <2>2. report \in Report
      BY <2>1 DEF Rests, NoReport, Report
    <2> QED
      BY <1>1, <1>2, <1>3, <2>2 DEF SetupTypeOK, Rests
  <1>5. AnswersTyped /\ HooksRun /\ EarlierSectionsWritten
    BY <1>3 DEF AnswersTyped, HooksRun, EarlierSectionsWritten, Done, Rests
  <1>6. AnsweringUnattended /\ AnsweredUnattended
    BY <1>3 DEF AnsweringUnattended, AnsweredUnattended, Rests
  <1> QED
    BY <1>4, <1>5, <1>6 DEF SetupInv

LEMMA EndSetupKeeps ==
    ASSUME SetupInv, EndSetup
    PROVE  SetupInv'
  <1>1. AtRest'
    BY DEF EndSetup, AtRest, Rests, SetupInv, SetupTypeOK
  <1> QED
    BY <1>1, RestsInv, PTL

\* Nothing a section has left changes while questions are asked.
LEMMA EarlierUnchanged ==
    ASSUME EarlierSectionsWritten, AnsweredUnattended,
           UNCHANGED <<files, scmd, scfg, targets, took, byHand>>
    PROVE  EarlierSectionsWritten' /\ AnsweredUnattended'
  <1>1. EarlierSectionsWritten'
    BY DEF EarlierSectionsWritten, Done, Alone, Landed, HasTarget, Target
  <1>2. AnsweredUnattended'
    BY DEF AnsweredUnattended, WrittenUnattended, Done, Alone, HasTarget, Target
  <1> QED
    BY <1>1, <1>2

\* What a run is about while it asks.
LEMMA AskingTyped ==
    ASSUME SetupTypeOK, OnCourse, spc = "ask"
    PROVE  /\ Current \in ToSet(scfg.order) /\ Tail(queue) \in Seq(ToSet(scfg.order))
           /\ Fields \in Seq(FieldType)
           /\ HasTarget(Current) => /\ Target(Current) \in Place /\ ~scmd.dry
                                    /\ targets.srcs[Current] \in FileRecord \cup {NoFile}
           /\ \A x \in DOMAIN targets.dsts : Target(x) \in Place
           /\ OnDisk(Current) \in FileRecord \cup {NoFile}
  <1>1. OnCourse /\ SetupTypeOK /\ queue # << >>
    BY DEF OnCourse
  <1>2. queue \in Seq(ToSet(scfg.order))
    BY <1>1 DEF SetupTypeOK
  <1>3. Current \in ToSet(scfg.order) /\ Tail(queue) \in Seq(ToSet(scfg.order))
    <2> DEFINE S == ToSet(scfg.order)
    <2> HIDE DEF S
    <2>1. queue \in Seq(S)
      BY <1>2 DEF S
    <2>2. Head(queue) \in S /\ Tail(queue) \in Seq(S)
      BY <1>1, <2>1
    <2> QED
      BY <2>2 DEF S, Current
  <1>4. WellTyped(scfg)
    BY <1>1, LoadableTyped DEF OnCourse
  <1>5. Fields \in Seq(FieldType)
    BY <1>3, <1>4 DEF WellTyped, Fields
  <1>6. /\ \A x \in DOMAIN targets.dsts : Target(x) \in Place
        /\ HasTarget(Current) => /\ Target(Current) \in Place /\ ~scmd.dry
                                 /\ targets.srcs[Current] \in FileRecord \cup {NoFile}
    <2>1. CASE scmd.dry
      <3>1. DOMAIN targets.dsts = {}
        BY <1>1, <2>1 DEF OnCourse, NoTargets
      <3> QED
        BY <3>1 DEF HasTarget
    <2>2. CASE ~scmd.dry
      <3>1. targets = template_targets(scfg) /\ scfg \in Loadable /\ Resolves(scfg)
        BY <1>1, <2>2 DEF OnCourse
      <3>2. /\ targets.dsts \in [Wired(scfg) -> Place]
            /\ targets.srcs \in [Wired(scfg) -> FileRecord \cup {NoFile}]
        BY <3>1, TargetsTyped
      <3> QED
        BY <2>2, <3>2 DEF HasTarget, Target
    <2> QED
      BY <2>1, <2>2
  <1>7. OnDisk(Current) \in FileRecord \cup {NoFile}
    BY <1>1, <1>6 DEF OnDisk, SetupTypeOK
  <1> QED
    BY <1>3, <1>5, <1>6, <1>7

LEMMA AskingFacts ==
    ASSUME SetupInv, spc = "ask"
    PROVE  /\ Current \in ToSet(scfg.order) /\ Tail(queue) \in Seq(ToSet(scfg.order))
           /\ Fields \in Seq(FieldType)
           /\ HasTarget(Current) => /\ Target(Current) \in Place /\ ~scmd.dry
                                    /\ targets.srcs[Current] \in FileRecord \cup {NoFile}
           /\ \A x \in DOMAIN targets.dsts : Target(x) \in Place
           /\ OnDisk(Current) \in FileRecord \cup {NoFile}
  <1>1. SetupTypeOK /\ OnCourse
    BY DEF SetupInv
  <1> QED
    BY <1>1, AskingTyped

\* What --yes has answered to the current section, as steps.
LEMMA AskingSteps ==
    ASSUME SetupTypeOK, OnCourse, spc = "ask"
    PROVE  UpToSteps(UnattendedUpTo(scfg, Current, ReadBy(scfg, Current, OnDisk(Current))), Fields,
                     ReadBy(scfg, Current, OnDisk(Current)))
  <1>1. OnDisk(Current) \in FileRecord \cup {NoFile} /\ scfg.fields[Current] \in Seq(FieldType)
    BY AskingTyped DEF Fields
  <1>2. ReadBy(scfg, Current, OnDisk(Current)) \in FileRecord \cup {NoFile}
    BY <1>1 DEF ReadBy
  <1> QED
    BY <1>1, <1>2, UnattendedSteps DEF Fields

\* A section starts with no answers.
Fresh == SetupTypeOK /\ OnCourse /\ fi = 1 /\ collected = << >>

LEMMA UnattendedStart == Fresh => AnsweringUnattended
  <1> SUFFICES ASSUME SetupTypeOK, OnCourse, fi = 1, collected = << >>, spc = "ask"
               PROVE  AnsweringUnattended
    BY DEF Fresh, AnsweringUnattended
  <1> DEFINE u == UnattendedUpTo(scfg, Current, ReadBy(scfg, Current, OnDisk(Current)))
  <1>1. Fields \in Seq(FieldType)
    BY AskingTyped
  <1>2. u[0] = [failed |-> FALSE, ans |-> << >>]
    BY AskingSteps DEF UpToSteps
  <1>3. fi \in 1..(Len(Fields) + 1) /\ u[fi - 1] = [failed |-> FALSE, ans |-> collected]
    BY <1>1, <1>2
  <1> QED
    BY <1>3 DEF AnsweringUnattended

LEMMA StartSetupKeeps ==
    ASSUME SetupInv,
           \E c \in SetupCommand, cfg \in Loadable : StartSetup(c, cfg)
    PROVE  SetupInv'
  <1>1. PICK c \in SetupCommand, cfg \in Loadable : StartSetup(c, cfg)
    OBVIOUS
  <1>2. /\ spc = "idle" /\ Valid(cfg) /\ Resolves(cfg) /\ NamesKnown(c, cfg)
        /\ spc' = (IF Sections(c, cfg) = << >> THEN "hooks" ELSE "ask")
        /\ scmd' = c /\ scfg' = cfg
        /\ targets' = IF c.dry THEN NoTargets ELSE template_targets(cfg)
        /\ queue' = Sections(c, cfg)
        /\ UNCHANGED <<files, fi, collected, report, took, byHand>>
    BY <1>1 DEF StartSetup
  <1>3. Rests /\ SetupTypeOK
    BY <1>2 DEF SetupInv
  <1>4. took' = << >> /\ DOMAIN took' = {} /\ collected' = << >> /\ DOMAIN collected' = {}
        /\ fi' = 1 /\ byHand' = {} /\ files' \in [Place -> FileRecord \cup {NoFile}]
    BY <1>2, <1>3 DEF Rests, SetupTypeOK
  <1>5. Sections(c, cfg) \in Seq(ToSet(cfg.order))
    <2>1. Requested(c, cfg) \in Seq(Section)
      <3>1. c.named \in Seq(Section)
        BY DEF SetupCommand
      <3>2. cfg.order \in Seq(Section)
        BY LoadableTyped DEF WellTyped
      <3> QED
        BY <3>1, <3>2 DEF Requested
    <2>2. Sections(c, cfg) \in Seq(Section)
      BY <2>1, AmongSet DEF Sections
    <2>3. ToSet(Sections(c, cfg)) \subseteq ToSet(cfg.order)
      BY <1>2 DEF NamesKnown
    <2> DEFINE q == Sections(c, cfg)
    <2> HIDE DEF q
    <2>4. q \in Seq(Section) /\ ToSet(q) \subseteq ToSet(cfg.order)
      BY <2>2, <2>3 DEF q
    <2>5. \A i \in 1..Len(q) : q[i] \in ToSet(cfg.order)
      <3>1. DOMAIN q = 1..Len(q)
        BY <2>4
      <3> QED
        BY <2>4, <3>1 DEF ToSet
    <2>6. q \in Seq(ToSet(cfg.order))
      BY <2>4, <2>5, IsASeq
    <2> QED
      BY <2>6 DEF q
  <1>6. SetupTypeOK'
    <2>1. spc' \in {"idle", "ask", "hooks", "done"} /\ scmd' \in SetupCommand
      BY <1>2
    <2>2. queue' \in Seq(ToSet(scfg'.order))
      BY <1>2, <1>5
    <2>3. report' \in Report
      BY <1>2, <1>3 DEF SetupTypeOK
    <2> QED
      BY <1>4, <2>1, <2>2, <2>3 DEF SetupTypeOK
  <1>7. OnCourse'
    BY <1>2 DEF OnCourse
  <1>8. AnswersTyped' /\ EarlierSectionsWritten' /\ AnsweredUnattended'
    BY <1>4 DEF AnswersTyped, EarlierSectionsWritten, AnsweredUnattended, Done
  <1>9. spc' # "idle" /\ HooksRun'
    BY <1>2 DEF HooksRun
  <1>10. AnsweringUnattended'
    <2>1. Fresh'
      BY <1>4, <1>6, <1>7 DEF Fresh
    <2> QED
      BY <2>1, UnattendedStart, PTL
  <1> QED
    BY <1>6, <1>7, <1>8, <1>9, <1>10 DEF SetupInv

LEMMA SkipFieldKeeps ==
    ASSUME SetupInv, SkipField
    PROVE  SetupInv'
  <1>1. /\ spc = "ask" /\ fi' = fi + 1
        /\ UNCHANGED <<files, spc, scmd, scfg, targets, queue, collected, report, took, byHand>>
    BY DEF SkipField, Asking
  <1>2. SetupTypeOK'
    BY <1>1 DEF SetupInv, SetupTypeOK
  <1>3. OnCourse' /\ AnswersTyped' /\ HooksRun'
    BY <1>1 DEF SetupInv, OnCourse, AnswersTyped, HooksRun
  <1>4. EarlierSectionsWritten' /\ AnsweredUnattended'
    BY <1>1, EarlierUnchanged DEF SetupInv
  <1>5. AnsweringUnattended'
    <2>1. SetupTypeOK /\ OnCourse /\ AnsweringUnattended /\ Fields \in Seq(FieldType)
      BY <1>1, AskingFacts DEF SetupInv
    <2>2. fi \in 1..Len(Fields) /\ Gated(Fields[fi], collected)
      BY <2>1 DEF SkipField, Asking
    <2> DEFINE f == ReadBy(scfg, Current, OnDisk(Current))
               u == UnattendedUpTo(scfg, Current, f)
    <2>3. UpToSteps(u, Fields, f) /\ f \in FileRecord \cup {NoFile}
      BY <1>1, <2>1, AskingSteps, AskingTyped DEF ReadBy
    <2>4. ASSUME u[fi - 1] = [failed |-> FALSE, ans |-> collected]
          PROVE  u[fi] = [failed |-> FALSE, ans |-> collected]
      <3> DEFINE field == Fields[fi]
      <3> HIDE DEF u, f, field
      <3>1. u[fi - 1] \in Progress /\ u[fi] = NextAnswer(u[fi - 1], field, f) /\ field \in FieldType
        BY <2>1, <2>2, <2>3 DEF UpToSteps, field
      <3>2. NextIs(u[fi], u[fi - 1], field, f)
        BY <2>3, <3>1, NextAnswerSteps
      <3> QED
        BY <2>2, <2>4, <3>2 DEF NextIs, field
    <2> QED
      BY <1>1, <2>1, <2>2, <2>4
      DEF AnsweringUnattended, Current, Fields, HasTarget, Target, OnDisk
  <1> QED
    BY <1>1, <1>2, <1>3, <1>4, <1>5 DEF SetupInv

LEMMA AskFieldKeeps ==
    ASSUME SetupInv, AskField
    PROVE  SetupInv'
  <1> DEFINE field == Fields[fi]
  <1>1. /\ spc = "ask" /\ fi \in DOMAIN Fields /\ fi' = fi + 1
        /\ UNCHANGED <<files, spc, scmd, scfg, targets, queue, report, took, byHand>>
    BY DEF AskField, Asking
  <1>2. PICK v \in Answers(field, Default(field), scmd.yes) :
              collected' = With(collected, field.key, v)
    BY DEF AskField
  <1>3. field \in FieldType /\ OnDisk(Current) \in FileRecord \cup {NoFile}
    BY <1>1, AskingFacts
  <1>4. DOMAIN collected \subseteq Key /\ \A k \in DOMAIN collected : collected[k] \in Answer
    BY DEF SetupInv, SetupTypeOK
  <1>5. v \in Answer /\ field.key \in Key
    <2>1. Default(field) \in Answer \cup {Unset}
      <3> DEFINE d == field
      <3>1. d \in FieldType
        BY <1>3
      <3> HIDE DEF d
      <3>2. resolve_default(d, collected, ReadBy(scfg, Current, OnDisk(Current))) \in Answer \cup {Unset}
        BY <1>3, <1>4, <3>1, DefaultTyped DEF ReadBy
      <3> QED
        BY <3>2 DEF Default, d
    <2>2. v \in Answer
      BY <1>2, <2>1, AnswersAreAnswers
    <2> QED
      BY <1>3, <2>2 DEF FieldType
  <1>6. DOMAIN collected' \subseteq Key /\ \A k \in DOMAIN collected' : collected'[k] \in Answer
    BY <1>2, <1>4, <1>5 DEF With
  <1>7. SetupTypeOK'
    BY <1>1, <1>6 DEF SetupInv, SetupTypeOK
  <1>8. OnCourse' /\ AnswersTyped' /\ HooksRun'
    BY <1>1 DEF SetupInv, OnCourse, AnswersTyped, HooksRun
  <1>9. EarlierSectionsWritten' /\ AnsweredUnattended'
    BY <1>1, EarlierUnchanged DEF SetupInv
  <1>10. AnsweringUnattended'
    <2>1. SetupTypeOK /\ OnCourse /\ AnsweringUnattended /\ Fields \in Seq(FieldType)
      BY <1>1, AskingFacts DEF SetupInv
    <2>2. fi \in 1..Len(Fields) /\ ~Gated(field, collected)
      BY <1>1, <2>1 DEF AskField
    <2> DEFINE f == ReadBy(scfg, Current, OnDisk(Current))
               u == UnattendedUpTo(scfg, Current, f)
    <2>3. UpToSteps(u, Fields, f) /\ f \in FileRecord \cup {NoFile}
      BY <1>1, <2>1, AskingSteps, AskingTyped DEF ReadBy
    <2>4. ASSUME u[fi - 1] = [failed |-> FALSE, ans |-> collected], scmd.yes
          PROVE  u[fi] = [failed |-> FALSE, ans |-> collected']
      <3>1. scmd.yes = TRUE
        BY <2>1, <2>4 DEF SetupTypeOK, SetupCommand
      <3>2. v \in Answers(field, resolve_default(field, collected, f), TRUE)
        BY <1>2, <3>1 DEF Default
      <3> HIDE DEF u, f, field
      <3>3. u[fi - 1] \in Progress /\ u[fi] = NextAnswer(u[fi - 1], field, f) /\ field \in FieldType
        BY <1>3, <2>1, <2>2, <2>3 DEF UpToSteps, field
      <3>4. NextIs(u[fi], u[fi - 1], field, f)
        BY <2>3, <3>3, NextAnswerSteps
      <3>5. u[fi - 1].failed = FALSE /\ u[fi - 1].ans = collected
        BY <2>4
      <3>6. u[fi] = [failed |-> FALSE, ans |-> With(collected, field.key, v)]
        BY <2>2, <3>2, <3>4, <3>5 DEF NextIs
      <3> QED
        BY <1>2, <3>6
    <2> QED
      BY <1>1, <2>1, <2>2, <2>4
      DEF AnsweringUnattended, Current, Fields, HasTarget, Target, OnDisk
  <1> QED
    BY <1>1, <1>7, <1>8, <1>9, <1>10 DEF SetupInv

\* What writing a section does to its file: the answers land.
LEMMA WriteLands ==
    ASSUME SetupInv, WriteSection, HasTarget(Current)
    PROVE  /\ files' \in [Place -> FileRecord \cup {NoFile}]
           /\ files'[Target(Current)] \in FileRecord
           /\ \A d \in Place : d # Target(Current) => files'[d] = files[d]
           /\ Takes(files'[Target(Current)], scfg.writer[Current], files[Target(Current)],
                    targets.srcs[Current], collected)
  <1> DEFINE w == scfg.writer[Current]
             d == Target(Current)
             f == files[d]
             g == Written(w, f, Source, collected)
  <1>1. spc = "ask" /\ w \in Writer /\ (w = "generic_template" => Source # NoFile)
    BY DEF WriteSection, Answered
  <1>2. files' = [files EXCEPT ![d] = g]
    BY DEF WriteSection
  <1>3. d \in Place /\ Source \in FileRecord \cup {NoFile} /\ Source = targets.srcs[Current]
    BY <1>1, AskingFacts DEF Source
  <1>4. files \in [Place -> FileRecord \cup {NoFile}] /\ AnswersOK(collected)
    BY DEF SetupInv, SetupTypeOK, AnswersOK
  <1>5. f \in FileRecord \cup {NoFile}
    BY <1>3, <1>4
  <1>6. g \in FileRecord /\ Takes(g, w, f, Source, collected)
    <2> HIDE DEF w, f
    <2> QED
      BY <1>1, <1>3, <1>4, <1>5, WrittenTyped
  <1> HIDE DEF w, d, f, g
  <1>7. files'[d] = g /\ \A e \in Place : e # d => files'[e] = files[e]
    BY <1>2, <1>3, <1>4
  <1>8. files' \in [Place -> FileRecord \cup {NoFile}]
    BY <1>2, <1>3, <1>4, <1>6
  <1>9. Takes(files'[d], w, f, targets.srcs[Current], collected)
    BY <1>3, <1>6, <1>7
  <1> QED
    BY <1>6, <1>7, <1>8, <1>9 DEF w, d, f

LEMMA WriteSectionKeeps ==
    ASSUME SetupInv, WriteSection
    PROVE  SetupInv'
  <1>1. /\ spc = "ask" /\ queue' = Tail(queue) /\ fi' = 1 /\ collected' = << >>
        /\ took' = With(took, Current, collected)
        /\ spc' = (IF Tail(queue) = << >> THEN "hooks" ELSE "ask")
        /\ UNCHANGED <<scmd, scfg, targets, byHand>>
        /\ (~HasTarget(Current) => files' = files)
        /\ report' = [report EXCEPT
                        !.sections_run = Append(@, Current),
                        !.files_written = IF HasTarget(Current) THEN Append(@, Target(Current)) ELSE @]
    BY DEF WriteSection, Answered
  <1>2. /\ SetupTypeOK /\ OnCourse /\ AnswersTyped /\ EarlierSectionsWritten
        /\ DOMAIN collected \subseteq Key /\ \A k \in DOMAIN collected : collected[k] \in Answer
        /\ DOMAIN took \subseteq ToSet(scfg.order)
    BY <1>1 DEF SetupInv, SetupTypeOK
  <1>3. /\ Current \in ToSet(scfg.order) /\ Tail(queue) \in Seq(ToSet(scfg.order))
        /\ \A x \in DOMAIN targets.dsts : Target(x) \in Place
    BY <1>1, AskingFacts
  <1>4. /\ DOMAIN took' = DOMAIN took \cup {Current} /\ took'[Current] = collected
        /\ \A x \in DOMAIN took \ {Current} : took'[x] = took[x]
    BY <1>1 DEF With
  <1>5. SetupTypeOK'
    <2>1. files' \in [Place -> FileRecord \cup {NoFile}]
      BY <1>1, <1>2, WriteLands DEF SetupTypeOK
    <2>2. DOMAIN collected' = {}
      BY <1>1
    <2>3. spc' \in {"idle", "ask", "hooks", "done"} /\ fi' \in Nat \ {0}
      BY <1>1
    <2>4. report' \in Report
      <3>1. report \in Report /\ Current \in Section
        BY <1>2, <1>3, LoadableTyped DEF SetupTypeOK, OnCourse, WellTyped, ToSet
      <3>2. HasTarget(Current) => Target(Current) \in Place
        BY <1>3 DEF HasTarget
      <3>3. report.sections_run \in Seq(Section) /\ report.files_written \in Seq(Place)
        BY <3>1 DEF Report
      <3>4. Append(report.sections_run, Current) \in Seq(Section)
        BY <3>1, <3>3
      <3>5. HasTarget(Current) => Append(report.files_written, Target(Current)) \in Seq(Place)
        BY <3>2, <3>3
      <3> QED
        BY <1>1, <3>1, <3>3, <3>4, <3>5 DEF Report
    <2> QED
      BY <1>1, <1>2, <1>3, <1>4, <2>1, <2>2, <2>3, <2>4 DEF SetupTypeOK
  <1>6. OnCourse'
    BY <1>1, <1>2 DEF OnCourse
  <1>7. AnswersTyped'
    BY <1>2, <1>4 DEF AnswersTyped
  <1>8. EarlierSectionsWritten'
    <2> SUFFICES ASSUME NEW x \in Section, Done(x)', Alone(x)', NEW k \in NonEmpty(took'[x])
                 PROVE  \/ /\ scfg.writer[x] = "generic_template"
                           /\ targets.srcs[x].vals[k] # Hole
                        \/ files'[Target(x)] # NoFile /\ files'[Target(x)].vals[k] = took'[x][k]
      BY <1>1 DEF EarlierSectionsWritten, Landed, Target
    <2>1. /\ x \in DOMAIN took \cup {Current} /\ HasTarget(x) /\ Target(x) \notin byHand
          /\ \A r \in DOMAIN targets.dsts \ {x} : Target(r) # Target(x)
          /\ Target(x) \in Place
      BY <1>1, <1>3, <1>4 DEF Done, Alone, HasTarget, Target
    <2>2. CASE x = Current
      <3>1. /\ HasTarget(Current) /\ took'[x] = collected
        BY <1>4, <2>1, <2>2
      <3>2. /\ files'[Target(Current)] \in FileRecord
            /\ \/ scfg.writer[Current] = "generic_template" /\ targets.srcs[Current].vals[k] # Hole
               \/ files'[Target(Current)].vals[k] = collected[k]
        BY <1>4, <2>2, <3>1, WriteLands DEF Takes
      <3>3. NoFile \notin FileRecord
        BY SetupAssumption
      <3> QED
        BY <2>2, <3>1, <3>2, <3>3
    <2>3. CASE x # Current
      <3>1. x \in DOMAIN took /\ took'[x] = took[x]
        BY <1>4, <2>1, <2>3
      <3>2. Landed(x)
        BY <1>2, <2>1, <3>1 DEF EarlierSectionsWritten, Done, Alone
      <3>3. files'[Target(x)] = files[Target(x)]
        <4>1. CASE HasTarget(Current)
          <5>1. Target(x) # Target(Current)
            BY <2>1, <2>3, <4>1 DEF HasTarget
          <5> QED
            BY <2>1, <4>1, <5>1, WriteLands
        <4> QED
          BY <1>1, <4>1
      <3> QED
        BY <3>1, <3>2, <3>3 DEF Landed
    <2> QED
      BY <2>2, <2>3
  <1>9. spc' # "idle" /\ HooksRun'
    BY <1>1 DEF HooksRun
  <1>10. AnsweringUnattended'
    <2>1. Fresh'
      BY <1>1, <1>5, <1>6 DEF Fresh
    <2> QED
      BY <2>1, UnattendedStart, PTL
  <1>11. AnsweredUnattended'
    <2> SUFFICES ASSUME scmd.yes, NEW x \in DOMAIN took', Done(x)', Alone(x)'
                 PROVE  \E f \in FileRecord \cup {NoFile} : WrittenUnattended(x, f)'
      BY <1>1 DEF AnsweredUnattended
    <2>1. /\ x \in DOMAIN took \cup {Current} /\ HasTarget(x) /\ Target(x) \notin byHand
          /\ \A r \in DOMAIN targets.dsts \ {x} : Target(r) # Target(x)
          /\ Target(x) \in Place /\ Target(x)' = Target(x)
      BY <1>1, <1>3, <1>4 DEF Done, Alone, HasTarget, Target
    <2>2. CASE x = Current
      <3>0. PICK f \in FileRecord \cup {NoFile} : f = files[Target(Current)]
        BY <1>2, <2>1, <2>2 DEF SetupTypeOK
      <3>1. /\ scfg.writer[Current] \in Writer /\ HasTarget(Current)
            /\ scfg.writer[Current] = "generic_template" => targets.srcs[Current] # NoFile
            /\ files' = [files EXCEPT ![Target(Current)] =
                            Written(scfg.writer[Current], @, targets.srcs[Current], collected)]
        BY <2>1, <2>2 DEF WriteSection, Source
      <3>3. Unattended(scfg, Current, ReadBy(scfg, Current, f)) = [failed |-> FALSE, ans |-> collected]
        <4>1. AnsweringUnattended /\ Fields \in Seq(FieldType)
          BY <1>1, AskingFacts DEF SetupInv
        <4>2. fi \notin DOMAIN Fields
          BY DEF WriteSection, Answered
        <4>3. fi - 1 = Len(Fields)
          BY <1>1, <4>1, <4>2 DEF AnsweringUnattended
        <4>4. OnDisk(Current) = f
          BY <3>0, <3>1 DEF OnDisk
        <4> QED
          BY <1>1, <2>1, <2>2, <4>1, <4>3, <4>4 DEF AnsweringUnattended, Unattended, Fields
      <3>4. /\ files'[Target(Current)]
                 = Written(scfg.writer[Current], f, targets.srcs[Current], collected)
            /\ took'[Current] = collected
        BY <1>2, <1>4, <2>1, <2>2, <3>0, <3>1 DEF SetupTypeOK
      <3>5. WrittenUnattended(x, f)'
        BY <1>1, <2>1, <2>2, <3>1, <3>3, <3>4 DEF WrittenUnattended
      <3> QED
        BY <3>5
    <2>3. CASE x # Current
      <3>1. x \in DOMAIN took /\ took'[x] = took[x]
        BY <1>4, <2>1, <2>3
      <3>2. PICK f \in FileRecord \cup {NoFile} : WrittenUnattended(x, f)
        <4>1. AnsweredUnattended /\ Done(x) /\ Alone(x)
          BY <2>1, <3>1 DEF SetupInv, Done, Alone
        <4> QED
          BY <3>1, <4>1 DEF AnsweredUnattended
      <3>3. files'[Target(x)] = files[Target(x)]
        <4>1. CASE HasTarget(Current)
          <5>1. Target(x) # Target(Current)
            BY <2>1, <2>3, <4>1 DEF HasTarget
          <5> QED
            BY <2>1, <4>1, <5>1, WriteLands
        <4> QED
          BY <1>1, <4>1
      <3>4. WrittenUnattended(x, f)'
        BY <1>1, <2>1, <3>1, <3>2, <3>3 DEF WrittenUnattended
      <3> QED
        BY <3>4
    <2> QED
      BY <2>2, <2>3
  <1> QED
    BY <1>5, <1>6, <1>7, <1>8, <1>9, <1>10, <1>11 DEF SetupInv

LEMMA RunHooksKeeps ==
    ASSUME SetupInv, RunHooks
    PROVE  SetupInv'
  <1>1. /\ spc = "hooks" /\ spc' = "done"
        /\ report' = [report EXCEPT !.hooks = IF scmd.skip_hooks \/ scmd.dry THEN {} ELSE ActiveHooks(scfg)]
        /\ UNCHANGED <<files, scmd, scfg, targets, queue, fi, collected, took, byHand>>
    BY DEF RunHooks
  <1>2. report \in Report /\ WellTyped(scfg)
    BY <1>1, LoadableTyped DEF SetupInv, SetupTypeOK, OnCourse
  <1>3. ActiveHooks(scfg) \subseteq HookType
    BY <1>2 DEF ActiveHooks, WellTyped, ToSet
  <1>4. report' \in Report /\ HooksRun'
    BY <1>1, <1>2, <1>3 DEF Report, HooksRun
  <1>5. SetupTypeOK' /\ OnCourse' /\ AnswersTyped'
    BY <1>1, <1>4 DEF SetupInv, SetupTypeOK, OnCourse, AnswersTyped
  <1>6. EarlierSectionsWritten' /\ AnsweredUnattended'
    BY <1>1, EarlierUnchanged DEF SetupInv
  <1>7. AnsweringUnattended'
    BY <1>1 DEF AnsweringUnattended
  <1> QED
    BY <1>1, <1>4, <1>5, <1>6, <1>7 DEF SetupInv

LEMMA SetupStepKeeps ==
    ASSUME SetupInv, SetupStep
    PROVE  SetupInv'
  <1>1. CASE RequiredFieldHasNoDefault \/ WriteFails \/ AbortSetup \/ SetupReturns
    <2>1. EndSetup
      BY <1>1 DEF RequiredFieldHasNoDefault, WriteFails, AbortSetup, SetupReturns
    <2> QED
      BY <2>1, EndSetupKeeps
  <1> QED
    BY <1>1, SkipFieldKeeps, AskFieldKeeps, WriteSectionKeeps, RunHooksKeeps DEF SetupStep

\* An edit takes its file out of those setup answers for.
LEMMA TouchKeeps ==
    ASSUME SetupInv, \E d \in Place, f \in FileRecord \cup {NoFile} : Touch(d, f)
    PROVE  SetupInv'
  <1>1. PICK d \in Place, f \in FileRecord \cup {NoFile} : Touch(d, f)
    OBVIOUS
  <1>2. /\ files' = [files EXCEPT ![d] = f]
        /\ byHand' = (IF spc = "idle" THEN {} ELSE byHand \cup {d})
        /\ UNCHANGED <<spc, scmd, scfg, targets, queue, fi, collected, report, took>>
    BY <1>1 DEF Touch
  <1>3. SetupTypeOK'
    BY <1>2 DEF SetupInv, SetupTypeOK
  <1>4. CASE spc = "idle"
    <2>1. AtRest'
      BY <1>2, <1>3, <1>4 DEF SetupInv, Rests, AtRest, SetupTypeOK
    <2> QED
      BY <2>1, RestsInv, PTL
  <1>5. CASE spc # "idle"
    <2>1. OnCourse' /\ AnswersTyped' /\ HooksRun'
      BY <1>2, <1>5 DEF SetupInv, OnCourse, AnswersTyped, HooksRun
    <2>2. EarlierSectionsWritten'
      <3> SUFFICES ASSUME NEW x \in Section, Done(x)', Alone(x)'
                   PROVE  Landed(x)'
        BY DEF EarlierSectionsWritten
      <3>1. Done(x) /\ Alone(x) /\ Target(x) # d
        BY <1>2, <1>5 DEF Done, Alone, HasTarget, Target
      <3>2. Landed(x)
        BY <3>1 DEF SetupInv, EarlierSectionsWritten
      <3>3. files'[Target(x)] = files[Target(x)] /\ Target(x)' = Target(x)
        BY <1>2, <3>1 DEF SetupInv, SetupTypeOK, Target
      <3> QED
        BY <1>2, <3>2, <3>3 DEF Landed
    <2>3. AnsweringUnattended'
      <3>1. Target(Current) # d => OnDisk(Current)' = OnDisk(Current)
        BY <1>2 DEF SetupInv, SetupTypeOK, OnDisk, HasTarget, Target, Current
      <3> QED
        BY <1>2, <1>5, <3>1 DEF SetupInv, AnsweringUnattended, Current, Fields, HasTarget, Target
    <2>4. AnsweredUnattended'
      <3> SUFFICES ASSUME scmd.yes, NEW x \in DOMAIN took, Done(x)', Alone(x)'
                   PROVE  \E g \in FileRecord \cup {NoFile} : WrittenUnattended(x, g)'
        BY <1>2 DEF AnsweredUnattended
      <3>1. Done(x) /\ Alone(x) /\ Target(x) # d
        BY <1>2, <1>5 DEF Done, Alone, HasTarget, Target
      <3>2. PICK g \in FileRecord \cup {NoFile} : WrittenUnattended(x, g)
        BY <3>1 DEF SetupInv, AnsweredUnattended
      <3>3. files'[Target(x)] = files[Target(x)] /\ Target(x)' = Target(x)
        BY <1>2, <3>1 DEF SetupInv, SetupTypeOK, Target
      <3>4. WrittenUnattended(x, g)'
        BY <1>2, <3>2, <3>3 DEF WrittenUnattended
      <3> QED
        BY <3>4
    <2> QED
      BY <1>2, <1>3, <1>5, <2>1, <2>2, <2>3, <2>4 DEF SetupInv
  <1> QED
    BY <1>4, <1>5

(***************************************************************************)
(* Predicates                                                              *)
(***************************************************************************)
Verdicts == {"true", "false", "error"}

\* A predicate is true, false or cannot be evaluated.
LEMMA EvalVerdict ==
    ASSUME NEW atoms \in Seq(AtomType), NEW machine, NEW paths
    PROVE  eval(atoms, machine, paths) \in Verdicts
  <1> DEFINE one(a) == LET v == eval_atom(a, machine, paths) IN IF a.neg THEN Negated(v) ELSE v
             N == Len(atoms)
             Next1(h, n) == IF n = 0 THEN "true"
                            ELSE IF h[n - 1] = "true" THEN one(atoms[n]) ELSE h[n - 1]
             step == [n \in 1..N |-> [x \in Verdicts |-> IF x = "true" THEN one(atoms[n]) ELSE x]]
  <1>1. N \in Nat /\ "true" \in Verdicts
    BY DEF Verdicts
  <1>2. ASSUME NEW a \in AtomType
        PROVE  one(a) \in Verdicts
    <2>1. \A b : Verdict(b) \in Verdicts
      BY DEF Verdict, Verdicts
    <2>2. eval_atom(a, machine, paths) \in Verdicts
      <3>1. CASE a.kind \notin AtomKind \/ a.arg = NoArg
        BY <3>1 DEF eval_atom, Verdicts, AtomKind
      <3>2. CASE a.kind = "command_exists" /\ a.arg # NoArg
        BY <2>1, <3>2 DEF eval_atom, AtomKind
      <3>3. CASE a.kind = "env" /\ a.arg # NoArg
        BY <2>1, <3>3 DEF eval_atom, AtomKind
      <3>4. CASE a.kind = "platform" /\ a.arg # NoArg
        BY <2>1, <3>4 DEF eval_atom, AtomKind, Verdicts
      <3>5. CASE a.kind = "file_exists" /\ a.arg # NoArg
        BY <2>1, <3>5 DEF eval_atom, AtomKind, Verdicts
      <3> QED
        BY <3>1, <3>2, <3>3, <3>4, <3>5 DEF AtomKind
    <2>3. \A v \in Verdicts : Negated(v) \in Verdicts
      BY DEF Negated, Verdicts
    <2> QED
      BY <2>2, <2>3
  <1>3. step \in Steps(N, Verdicts)
    <2> SUFFICES ASSUME NEW n \in 1..N, NEW x \in Verdicts
                 PROVE  (IF x = "true" THEN one(atoms[n]) ELSE x) \in Verdicts
      BY DEF Steps
    <2>1. atoms[n] \in AtomType
      OBVIOUS
    <2> QED
      BY <1>2, <2>1
  <1>4. PICK h \in Iterates(N, Verdicts, "true", step) : TRUE
    <2>1. Iterates(N, Verdicts, "true", step) # {}
      <3> HIDE DEF N, step
      <3> QED
        BY <1>1, <1>3, Recursion
    <2> QED
      BY <2>1
  <1>5. h \in [0..N -> Verdicts] /\ h[0] = "true" /\ \A n \in 1..N : h[n] = step[n][h[n - 1]]
    BY <1>4 DEF Iterates
  <1>6. ASSUME NEW n \in 0..N
        PROVE  h[n] = Next1(h, n)
    <2>1. CASE n = 0
      BY <1>5, <2>1
    <2>2. CASE n # 0
      <3>1. n \in 1..N /\ n - 1 \in 0..N
        BY <2>2
      <3>2. h[n] = step[n][h[n - 1]] /\ h[n - 1] \in Verdicts
        BY <1>5, <3>1
      <3> HIDE DEF one, N
      <3>3. step[n][h[n - 1]] = IF h[n - 1] = "true" THEN one(atoms[n]) ELSE h[n - 1]
        BY <3>1, <3>2
      <3> QED
        BY <2>2, <3>2, <3>3
    <2> QED
      BY <2>1, <2>2
  <1> HIDE DEF one
  <1>7. h = [n \in 0..N |-> Next1(h, n)]
    BY <1>5, <1>6
  <1> DEFINE u == CHOOSE f : f = [n \in 0..N |-> Next1(f, n)]
  <1>8. u = [n \in 0..N |-> Next1(u, n)]
    BY <1>7
  <1>9. eval(atoms, machine, paths) = u[N]
    BY DEF eval, one
  <1> HIDE DEF u
  <1> DEFINE G == {n \in 0..N : u[n] \in Verdicts}
  <1>10. 0 \in G
    BY <1>1, <1>8
  <1>11. ASSUME NEW n \in 1..N, n - 1 \in G
         PROVE  n \in G
    <2>1. /\ n \in 0..N /\ n # 0 /\ u[n - 1] \in Verdicts /\ atoms[n] \in AtomType
      BY <1>11
    <2>2. u[n] = Next1(u, n)
      BY <1>8, <2>1, Zenon
    <2>3. one(atoms[n]) \in Verdicts
      BY <1>2, <2>1
    <2> QED
      BY <2>1, <2>2, <2>3
  <1> HIDE DEF G, N
  <1>12. 0..N \subseteq G
    BY <1>1, <1>10, <1>11, Induct
  <1> QED
    BY <1>1, <1>9, <1>12 DEF G

(***************************************************************************)
(* The whole                                                               *)
(***************************************************************************)

\* A config that is found is one that can be loaded.
LEMMA FoundLoadable ==
    ASSUME RepoInv, NEW flag \in RepoPath \cup {NoDir}, resolve_config(flag) # NotFound
    PROVE  resolve_config(flag) \in Loadable
  <1>1. ASSUME NEW p \in RepoPath
        PROVE  ConfigAt(p) \in Loadable \cup {NotFound}
    <2>1. dirs[p] \in Dir
      BY DEF RepoInv, RepoInitTypeOK
    <2>2. dirs[p].is \in {"part", "whole"} => dirs[p].url \in Url
      BY <2>1, DirTypes
    <2> QED
      BY <2>2 DEF ConfigAt, Loadable
  <1>2. Cwd # NoDir => Cwd \in RepoPath
    BY BootstrapAssumption
  <1>3. toolcfg \in Record => toolcfg.path \in RepoPath
    BY DEF Record
  <1> QED
    BY <1>1, <1>2, <1>3 DEF resolve_config

LEMMA RepoUnchanged ==
    ASSUME RepoInv, UNCHANGED initVars
    PROVE  RepoInv'
  <1>1. UNCHANGED <<dirs, toolcfg, ipc, icmd, lost>>
    BY DEF initVars
  <1> QED
    BY <1>1 DEF RepoInv, RepoInitTypeOK, InitOnCourse, RecordTruthful

LEMMA SetupUnchanged ==
    ASSUME SetupInv, UNCHANGED setupVars
    PROVE  SetupInv'
  <1>1. UNCHANGED <<files, spc, scmd, scfg, targets, queue, fi, collected, report, took, byHand>>
    BY DEF setupVars
  <1>2. SetupTypeOK' /\ (spc' = "idle" => Rests') /\ (spc' # "idle" => OnCourse')
    BY <1>1 DEF SetupInv, SetupTypeOK, Rests, OnCourse
  <1>3. AnswersTyped' /\ HooksRun'
    BY <1>1 DEF SetupInv, AnswersTyped, HooksRun
  <1>4. EarlierSectionsWritten' /\ AnsweredUnattended'
    BY <1>1, EarlierUnchanged DEF SetupInv
  <1>5. AnsweringUnattended'
    BY <1>1 DEF SetupInv, AnsweringUnattended, Current, Fields, HasTarget, Target, OnDisk
  <1> QED
    BY <1>2, <1>3, <1>4, <1>5 DEF SetupInv

LEMMA InitHolds == Init => BootstrapInv
  <1> SUFFICES ASSUME Init
               PROVE  BootstrapInv
    OBVIOUS
  <1>1. RepoInv /\ RepoInitTypeOK /\ ipc = "idle"
    BY InitStart DEF Init, RepoInitInit, RepoInv
  <1>2. AtRest
    BY DEF Init, SetupInit, AtRest, Rests
  <1>3. SetupInv
    BY <1>2, RestsInv
  <1>4. touches \in 0..MaxTouches /\ runs \in 0..MaxRuns
    BY SetupAssumption, BootstrapAssumption DEF Init
  <1> QED
    BY <1>1, <1>3, <1>4 DEF BootstrapInv, OneCommand, TypeOK, SetupInv

LEMMA NextKeeps == BootstrapInv /\ [Next]_vars => BootstrapInv'
  <1> SUFFICES ASSUME BootstrapInv, [Next]_vars
               PROVE  BootstrapInv'
    OBVIOUS
  <1>0. /\ RepoInv /\ SetupInv /\ OneCommand
        /\ touches \in 0..MaxTouches /\ runs \in 0..MaxRuns /\ MaxTouches \in Nat /\ MaxRuns \in Nat
    BY SetupAssumption, BootstrapAssumption DEF BootstrapInv, TypeOK
  <1>1. CASE LaunchInit
    <2>1. /\ Quiet /\ runs < MaxRuns /\ runs' = runs + 1 /\ touches' = touches
          /\ UNCHANGED setupVars /\ \E c \in InitCmds : StartInit(c)
      BY <1>1 DEF LaunchInit, Launch
    <2>2. RepoInv' /\ SetupInv'
      BY <1>0, <2>1, StartInitKeeps, SetupUnchanged
    <2>3. OneCommand'
      BY <2>1 DEF Quiet, OneCommand, setupVars
    <2>4. touches' \in 0..MaxTouches /\ runs' \in 0..MaxRuns
      BY <1>0, <2>1
    <2> QED
      BY <2>2, <2>3, <2>4 DEF BootstrapInv, TypeOK, RepoInv, SetupInv
  <1>2. CASE LaunchSetup
    <2>1. /\ Quiet /\ runs < MaxRuns /\ runs' = runs + 1 /\ touches' = touches
          /\ UNCHANGED initVars
      BY <1>2 DEF LaunchSetup, Launch
    <2>2. PICK c \in SetupCmds : /\ resolve_config(c.at) # NotFound
                                 /\ StartSetup(c.opts, resolve_config(c.at))
      BY <1>2 DEF LaunchSetup
    <2>3. c.at \in RepoPath \cup {NoDir} /\ c.opts \in SetupCommand
      BY BootstrapAssumption
    <2>4. resolve_config(c.at) \in Loadable
      BY <1>0, <2>2, <2>3, FoundLoadable
    <2>5. \E o \in SetupCommand, cfg \in Loadable : StartSetup(o, cfg)
      BY <2>2, <2>3, <2>4
    <2>6. RepoInv' /\ SetupInv'
      BY <1>0, <2>1, <2>5, StartSetupKeeps, RepoUnchanged
    <2>7. OneCommand'
      BY <2>1 DEF Quiet, OneCommand, initVars
    <2>8. touches' \in 0..MaxTouches /\ runs' \in 0..MaxRuns
      BY <1>0, <2>1
    <2> QED
      BY <2>6, <2>7, <2>8 DEF BootstrapInv, TypeOK, RepoInv, SetupInv
  <1>3. CASE RunInit
    <2>1. InitStep /\ UNCHANGED setupVars /\ UNCHANGED <<touches, runs>>
      BY <1>3 DEF RunInit
    <2>2. RepoInv' /\ SetupInv'
      BY <1>0, <2>1, InitStepKeeps, SetupUnchanged
    <2>3. ipc # "idle"
      BY <2>1 DEF InitStep, prepare_repo_path, Wipe, init_bare, CloneSome, CloneDone, MakeFails,
                  ToolConfigSave, InitReturns, InitDies
    <2>4. OneCommand'
      BY <1>0, <2>1, <2>3 DEF OneCommand, setupVars
    <2> QED
      BY <1>0, <2>1, <2>2, <2>4 DEF BootstrapInv, TypeOK, RepoInv, SetupInv
  <1>4. CASE RunSetup
    <2>1. SetupStep /\ UNCHANGED initVars /\ UNCHANGED <<touches, runs>>
      BY <1>4 DEF RunSetup
    <2>2. RepoInv' /\ SetupInv'
      BY <1>0, <2>1, SetupStepKeeps, RepoUnchanged
    <2>3. spc # "idle"
      BY <2>1 DEF SetupStep, SkipField, AskField, RequiredFieldHasNoDefault, WriteSection, WriteFails,
                  RunHooks, AbortSetup, SetupReturns, Asking, Answered
    <2>4. OneCommand'
      BY <1>0, <2>1, <2>3 DEF OneCommand, initVars
    <2> QED
      BY <1>0, <2>1, <2>2, <2>4 DEF BootstrapInv, TypeOK, RepoInv, SetupInv
  <1>5. CASE User
    <2>1. touches < MaxTouches /\ touches' = touches + 1 /\ runs' = runs
      BY <1>5 DEF User
    <2>2. touches' \in 0..MaxTouches /\ runs' \in 0..MaxRuns
      BY <1>0, <2>1
    <2>3. CASE \E d \in Place : \E f \in Edits[d] : Touch(d, f) /\ UNCHANGED initVars
      <3>1. /\ \E d \in Place, f \in FileRecord \cup {NoFile} : Touch(d, f)
            /\ UNCHANGED initVars /\ spc' = spc
        BY <2>3, BootstrapAssumption DEF Touch
      <3>2. RepoInv' /\ SetupInv'
        BY <1>0, <3>1, TouchKeeps, RepoUnchanged
      <3>3. OneCommand'
        BY <1>0, <3>1 DEF OneCommand, initVars
      <3> QED
        BY <2>2, <3>2, <3>3 DEF BootstrapInv, TypeOK, RepoInv, SetupInv
    <2>4. CASE /\ Quiet /\ UNCHANGED setupVars
               /\ (\E p \in RepoPath, d \in Dir \ {Is("stub")} : MoveRepo(p, d)) \/ BreakRecord
      <3>1. RepoInv'
        BY <1>0, <2>4, MoveRepoKeeps, BreakRecordKeeps
      <3>2. SetupInv' /\ OneCommand'
        BY <1>0, <2>4, SetupUnchanged DEF Quiet, OneCommand, setupVars
      <3> QED
        BY <2>2, <3>1, <3>2 DEF BootstrapInv, TypeOK, RepoInv, SetupInv
    <2> QED
      BY <1>5, <2>3, <2>4 DEF User
  <1>6. CASE UNCHANGED vars
    <2>1. UNCHANGED initVars /\ UNCHANGED setupVars /\ UNCHANGED <<touches, runs, ipc, spc>>
      BY <1>6 DEF vars, initVars, setupVars
    <2>2. RepoInv' /\ SetupInv'
      BY <1>0, <2>1, RepoUnchanged, SetupUnchanged
    <2> QED
      BY <1>0, <2>1, <2>2 DEF BootstrapInv, OneCommand, TypeOK, RepoInv, SetupInv
  <1> QED
    BY <1>1, <1>2, <1>3, <1>4, <1>5, <1>6 DEF Next

LEMMA BootstrapInvariant == Spec => []BootstrapInv
  BY InitHolds, NextKeeps, PTL DEF Spec

\* Every variable has its type: what a run writes are files, for any config
\* and any answers.
THEOREM BootstrapTyped == Spec => []TypeOK
  <1>1. BootstrapInv => TypeOK
    BY DEF BootstrapInv
  <1> QED
    BY <1>1, BootstrapInvariant, PTL

\* What the tool config names is there and whole, unless a forced init or the
\* user has been at it: no failure or crash of init is ever recorded.
THEOREM RecordIsTrue == Spec => []RecordTruthful
  <1>1. BootstrapInv => RecordTruthful
    BY DEF BootstrapInv, RepoInv
  <1> QED
    BY <1>1, BootstrapInvariant, PTL

\* A finished init has left a repo the other commands find.
THEOREM InitIsEnough == Spec => []InitLeavesConfig
  <1>1. BootstrapInv => InitLeavesConfig
    <2> SUFFICES ASSUME BootstrapInv, ipc = "done"
                 PROVE  /\ ConfigAt(toolcfg.path) = IF icmd.bare THEN NoPrompts ELSE Remote[icmd.url]
                        /\ check_tool_config = "ok" /\ check_repo_path = "ok"
                        /\ ~icmd.bare => check_git_repo = "ok" /\ check_working_tree = "ok"
      BY DEF InitLeavesConfig
    <2>1. /\ icmd \in InitCmds /\ (icmd.bare \/ icmd.url # NoUrl)
          /\ toolcfg = [path |-> icmd.path, url |-> IF icmd.bare THEN NoUrl ELSE icmd.url]
          /\ dirs[icmd.path] = Made(icmd)
      BY DEF BootstrapInv, RepoInv, InitOnCourse
    <2>2. toolcfg \in Record /\ toolcfg.path = icmd.path
      BY <2>1, InitAssumption DEF Record
    <2>3. RecordedDir = Made(icmd)
      BY <2>1, <2>2 DEF RecordedDir
    <2>4. ConfigAt(toolcfg.path) = IF icmd.bare THEN NoPrompts ELSE Remote[icmd.url]
      BY <2>1, <2>2 DEF ConfigAt, Made, Is
    <2> QED
      BY <2>2, <2>3, <2>4 DEF check_tool_config, check_repo_path, check_git_repo, check_working_tree,
                              OkIf, Made, Is
  <1> QED
    BY <1>1, BootstrapInvariant, PTL

\* No directory with something in it is changed by an init that was not
\* forced, except the clone it is making.
THEOREM OthersKept == Spec => OwnDirsKept
  <1>1. BootstrapInv /\ [Next]_vars =>
          [\A p \in RepoPath : dirs'[p] # dirs[p] /\ touches' = touches /\ NotEmpty(dirs[p]) =>
              icmd.force \/ (ipc = "make" /\ dirs[p].is = "part")]_vars
    <2> SUFFICES ASSUME BootstrapInv, Next, NEW p \in RepoPath, dirs'[p] # dirs[p],
                        touches' = touches, NotEmpty(dirs[p])
                 PROVE  icmd.force \/ (ipc = "make" /\ dirs[p].is = "part")
      BY Zenon
    <2>1. touches \in Nat /\ dirs \in [RepoPath -> Dir] /\ InitOnCourse
      BY SetupAssumption DEF BootstrapInv, TypeOK, RepoInv, RepoInitTypeOK
    <2>2. InitStep
      <3>1. ~User
        BY <2>1 DEF User
      <3>2. ~LaunchInit /\ ~LaunchSetup /\ ~RunSetup
        BY DEF LaunchInit, LaunchSetup, RunSetup, StartInit, initVars
      <3> QED
        BY <3>1, <3>2 DEF Next, RunInit
    <2>3. CASE Wipe
      BY <2>1, <2>3 DEF Wipe, InitOnCourse
    <2>4. CASE init_bare \/ CloneSome
      <3>1. dirs[p].is \in {"absent", "empty"}
        BY <2>1, <2>4 DEF init_bare, CloneSome, Makeable
      <3> QED
        BY <3>1 DEF NotEmpty
    <2>5. CASE CloneDone \/ MakeFails
      BY <2>1, <2>5 DEF CloneDone, MakeFails
    <2> QED
      BY <2>2, <2>3, <2>4, <2>5 DEF InitStep, prepare_repo_path, ToolConfigSave, InitReturns, InitDies
  <1> QED
    BY <1>1, BootstrapInvariant, PTL DEF Spec, OwnDirsKept

\* The answers of every section a run has been through are in its file,
\* however the run ends.
THEOREM AnswersLand == Spec => []EarlierSectionsWritten
  <1>1. BootstrapInv => EarlierSectionsWritten
    BY DEF BootstrapInv, SetupInv
  <1> QED
    BY <1>1, BootstrapInvariant, PTL

\* A hook setup leaves out without a word, doctor warns about.
THEOREM SilentSkipsShow == Spec => []SkippedHooksShow
  <1>1. BootstrapInv => SkippedHooksShow
    <2> SUFFICES ASSUME BootstrapInv, spc = "done", ~scmd.skip_hooks, ~scmd.dry,
                        NEW h \in ToSet(scfg.hooks), h.when = "post-setup", h \notin report.hooks,
                        eval(h.atoms, Machine, scfg.paths) # "false"
                 PROVE  check_hooks(scfg) = "warn"
      BY DEF SkippedHooksShow
    <2>1. scfg \in Loadable /\ report.hooks = ActiveHooks(scfg)
      BY DEF BootstrapInv, SetupInv, OnCourse, HooksRun
    <2>2. h \in HookType
      BY <2>1, LoadableTyped DEF WellTyped, ToSet
    <2>3. h.atoms \in Seq(AtomType)
      BY <2>2 DEF HookType
    <2>4. eval(h.atoms, Machine, scfg.paths) = "error"
      BY <2>1, <2>3, EvalVerdict DEF ActiveHooks, default_predicate_evaluator, Verdicts
    <2> QED
      BY <2>4 DEF check_hooks
  <1> QED
    BY <1>1, BootstrapInvariant, PTL

\* The sections of a run are those it was asked for, but for the ones only
\* other platforms' templates name.
LEMMA AllRequestedKnown ==
    ASSUME SetupInv, spc = "ask"
    PROVE  ToSet(Requested(scmd, scfg)) \subseteq ToSet(scfg.order) \cup platform_skipped(scfg)
  <1>1. scfg \in Loadable /\ NamesKnown(scmd, scfg) /\ scmd \in SetupCommand
    BY DEF SetupInv, OnCourse, SetupTypeOK
  <1>2. Requested(scmd, scfg) \in Seq(Section)
    <2>1. scmd.named \in Seq(Section) /\ scfg.order \in Seq(Section)
      BY <1>1, LoadableTyped DEF SetupCommand, WellTyped
    <2> QED
      BY <2>1 DEF Requested
  <1>3. ToSet(Sections(scmd, scfg)) = ToSet(Requested(scmd, scfg)) \cap (Section \ platform_skipped(scfg))
    BY <1>2, AmongSet DEF Sections
  <1>4. ToSet(Requested(scmd, scfg)) \subseteq Section
    BY <1>2 DEF ToSet
  <1> QED
    BY <1>1, <1>3, <1>4 DEF NamesKnown

\* Setup changes only the file of the section whose questions are answered:
\* of a Hyprland file it keeps every line that was not asked about, of a
\* gitconfig the variables that are lines of their own, for any files
\* (write_gitconfig, write_hypr_vars).
THEOREM OnlyAnswers == Spec => TouchesOnlyAnswers
  <1>1. ASSUME BootstrapInv, Next, NEW d \in Place, files'[d] # files[d], touches' = touches
        PROVE  /\ ~scmd.dry /\ Answered /\ HasTarget(Current) /\ Target(Current) = d
               /\ ToSet(Requested(scmd, scfg)) \subseteq ToSet(scfg.order) \cup platform_skipped(scfg)
               /\ \A k \in Key \ DOMAIN collected :
                     \/ scfg.writer[Current] \notin {"gitconfig", "hypr_vars"}
                     \/ scfg.writer[Current] = "gitconfig" /\ Contents(files[d]).vals[k] \in {Loose, Wrapped}
                     \/ files'[d].vals[k] = Contents(files[d]).vals[k]
               /\ scfg.writer[Current] = "hypr_vars" => Contents(files[d]).rest \subseteq files'[d].rest
    <2>1. SetupInv /\ touches \in Nat
      BY <1>1, SetupAssumption DEF BootstrapInv, TypeOK
    <2>2. WriteSection
      <3>1. ~User
        BY <1>1, <2>1 DEF User
      <3>2. ~LaunchInit /\ ~LaunchSetup /\ ~RunInit
        BY <1>1 DEF LaunchInit, LaunchSetup, RunInit, StartSetup, setupVars
      <3>3. SetupStep
        BY <1>1, <3>1, <3>2 DEF Next, RunSetup
      <3> QED
        BY <1>1, <3>3 DEF SetupStep, SkipField, AskField, RequiredFieldHasNoDefault, WriteFails,
                          RunHooks, AbortSetup, SetupReturns, EndSetup
    <2>3. Answered /\ HasTarget(Current) /\ spc = "ask"
      BY <1>1, <2>2 DEF WriteSection, Answered
    <2>4. Target(Current) \in Place /\ ~scmd.dry
      BY <2>1, <2>3, AskingFacts
    <2>5. /\ \A e \in Place : e # Target(Current) => files'[e] = files[e]
          /\ Takes(files'[Target(Current)], scfg.writer[Current], files[Target(Current)],
                   targets.srcs[Current], collected)
      BY <2>1, <2>2, <2>3, WriteLands
    <2>6. Target(Current) = d
      BY <1>1, <2>5
    <2>7. ToSet(Requested(scmd, scfg)) \subseteq ToSet(scfg.order) \cup platform_skipped(scfg)
      BY <2>1, <2>3, AllRequestedKnown
    <2> QED
      BY <2>3, <2>4, <2>5, <2>6, <2>7 DEF Takes
  <1> DEFINE Step == \A d \in Place : files'[d] # files[d] /\ touches' = touches =>
          /\ ~scmd.dry /\ Answered /\ HasTarget(Current) /\ Target(Current) = d
          /\ ToSet(Requested(scmd, scfg)) \subseteq ToSet(scfg.order) \cup platform_skipped(scfg)
          /\ \A k \in Key \ DOMAIN collected :
                \/ scfg.writer[Current] \notin {"gitconfig", "hypr_vars"}
                \/ scfg.writer[Current] = "gitconfig" /\ Contents(files[d]).vals[k] \in {Loose, Wrapped}
                \/ files'[d].vals[k] = Contents(files[d]).vals[k]
          /\ scfg.writer[Current] = "hypr_vars" =>
                Contents(files[d]).rest \subseteq files'[d].rest
  <1>2. BootstrapInv /\ [Next]_vars => [Step]_vars
    <2> SUFFICES ASSUME BootstrapInv, Next
                 PROVE  Step
      OBVIOUS
    <2> QED
      BY <1>1
  <1> QED
    BY <1>2, BootstrapInvariant, PTL DEF Spec, TouchesOnlyAnswers

LEMMA UnattendedHolds ==
    ASSUME SetupInv
    PROVE  UnattendedStable
  <1> SUFFICES ASSUME spc = "done", scmd.yes, NEW s \in Section, Done(s), Alone(s),
                      OwnVariables(scfg, s, targets.srcs[s])
               PROVE  LET f == files[Target(s)]
                          again == Unattended(scfg, s, ReadBy(scfg, s, f))
                      IN  /\ ~again.failed
                          /\ Written(scfg.writer[s], f, targets.srcs[s], again.ans) = f
    BY DEF UnattendedStable
  <1>1. PICK f \in FileRecord \cup {NoFile} : WrittenUnattended(s, f)
    BY DEF SetupInv, AnsweredUnattended, Done
  <1>2. scfg.fields[s] \in Seq(FieldType)
    <2>1. s \in ToSet(scfg.order) /\ WellTyped(scfg)
      BY LoadableTyped DEF SetupInv, SetupTypeOK, OnCourse, Done
    <2> QED
      BY <2>1 DEF WellTyped
  <1>3. targets.srcs[s] \in FileRecord \cup {NoFile}
    <2>1. targets = IF scmd.dry THEN NoTargets ELSE template_targets(scfg)
      BY DEF SetupInv, OnCourse
    <2>2. ~scmd.dry
      BY <2>1 DEF Done, HasTarget, NoTargets
    <2>3. /\ targets.dsts \in [Wired(scfg) -> Place]
          /\ targets.srcs \in [Wired(scfg) -> FileRecord \cup {NoFile}]
      BY <2>1, <2>2, TargetsTyped DEF SetupInv, OnCourse
    <2> QED
      BY <2>3 DEF Done, HasTarget
  <1> DEFINE g == files[Target(s)]
             src == targets.srcs[s]
             ans == took[s]
  <1>4. /\ scfg.writer[s] \in Writer /\ (scfg.writer[s] = "generic_template" => src # NoFile)
        /\ Unattended(scfg, s, ReadBy(scfg, s, f)) = [failed |-> FALSE, ans |-> ans]
        /\ g = Written(scfg.writer[s], f, src, ans)
    BY <1>1 DEF WrittenUnattended
  <1>5. OwnVariables(scfg, s, src) /\ src \in FileRecord \cup {NoFile}
    BY <1>3
  <1> HIDE DEF g, src, ans
  <1>6. Repeats(scfg, s, src, g)
    BY <1>2, <1>4, <1>5, StableAgain
  <1> QED
    BY <1>6 DEF Repeats, g, src

\* Unattended setup, for any config and any machine: run with --yes again on
\* what it left, a section whose fields read only their own variables is
\* answered without a failure and its file comes out as it is
\* (resolve_default, process_section and the writers of setup.rs).
THEOREM UnattendedIsStable == Spec => []UnattendedStable
  <1>1. BootstrapInv => UnattendedStable
    BY UnattendedHolds DEF BootstrapInv
  <1> QED
    BY <1>1, BootstrapInvariant, PTL

(***************************************************************************)
(* Paths.  A name that is being resolved is not resolved again, so a       *)
(* resolution is of a text, or of a name, with the names it is within: its *)
(* rank falls as a text gets shorter and as one more name is entered.  The *)
(* resolver thus exists as the function the code computes, and by          *)
(* induction on the rank it fails exactly where something it stands on     *)
(* cannot be resolved or stands on itself.                                 *)
(***************************************************************************)

(***************************************************************************)
(* What a name stands on                                                   *)
(***************************************************************************)
\* A case the resolver is run in.
PathCase(overrides) ==
    /\ DOMAIN overrides \subseteq Name
    /\ \A n \in DOMAIN overrides : overrides[n] \in Text

Things == Text \cup Name

LEMMA TokensTyped ==
    ASSUME NEW t \in Text
    PROVE  /\ Tokens[t] \in Seq(Token)
           /\ \A k \in ToSet(Tokens[t]) :
                 /\ k.is \in {"lit", "bad", "var", "env"}
                 /\ k.is = "var" => k.name \in Name
                 /\ k.is = "env" => k.or \in Text \cup {NoText}
                 /\ k.is = "env" /\ k.or # NoText => k.or \in Text /\ Length[k.or] < Length[t]
  <1>1. Tokens[t] \in Seq(Token)
    BY PathsAssumption
  <1>2. ASSUME NEW k \in ToSet(Tokens[t])
        PROVE  k \in Token
    BY <1>1, <1>2 DEF ToSet
  <1> QED
    BY <1>1, <1>2, PathsAssumption DEF Token

LEMMA UsesTyped ==
    ASSUME NEW x \in Things, NEW pf, NEW overrides, PathCase(overrides), NEW env
    PROVE  Uses(x, pf, overrides, env) \subseteq Things
  <1>1. CASE x \in Text
    BY <1>1, TokensTyped DEF Uses, Things, TokensOf
  <1>2. CASE x \notin Text
    BY <1>2, PathsAssumption DEF Uses, Things, PathCase
  <1> QED
    BY <1>1, <1>2

\* C is closed: whatever something of it stands on is of it.
Closed(C, pf, overrides, env) == \A y \in C : Uses(y, pf, overrides, env) \subseteq C

\* r has what is reached in each number of steps.
ReachedBy(r, x, pf, overrides, env) ==
    /\ r[0] = Uses(x, pf, overrides, env)
    /\ \A n \in 1..Cardinality(Things) :
          r[n] = r[n - 1] \cup UNION {Uses(y, pf, overrides, env) : y \in r[n - 1]}
    /\ Reach(x, pf, overrides, env) = r[Cardinality(Things)]

LEMMA ReachSteps ==
    ASSUME NEW x \in Things, NEW pf, NEW overrides, PathCase(overrides), NEW env
    PROVE  \E r \in [0..Cardinality(Things) -> SUBSET Things] : ReachedBy(r, x, pf, overrides, env)
  <1> DEFINE N == Cardinality(Things)
             uses(y) == Uses(y, pf, overrides, env)
             grow(S) == S \cup UNION {uses(y) : y \in S}
             step == [n \in 1..N |-> [S \in SUBSET Things |-> grow(S)]]
             body(h) == [n \in 0..N |-> IF n = 0 THEN uses(x) ELSE grow(h[n - 1])]
             reach == CHOOSE h : h = body(h)
  <1>1. N \in Nat
    BY PathsAssumption, FS_Union, FS_CardinalityType DEF Things
  <1>2. uses(x) \in SUBSET Things /\ \A S \in SUBSET Things : grow(S) \in SUBSET Things
    BY UsesTyped
  <1>3. step \in Steps(N, SUBSET Things)
    <2> HIDE DEF grow, N
    <2> QED
      BY <1>2 DEF Steps
  <1>4. PICK f \in Iterates(N, SUBSET Things, uses(x), step) : TRUE
    <2> HIDE DEF step, uses, N
    <2> QED
      BY <1>1, <1>2, <1>3, Recursion
  <1>5. /\ f \in [0..N -> SUBSET Things] /\ f[0] = uses(x)
        /\ \A n \in 1..N : f[n] = grow(f[n - 1])
    <2> HIDE DEF grow, N, uses
    <2>1. /\ f \in [0..N -> SUBSET Things] /\ f[0] = uses(x)
          /\ \A n \in 1..N : f[n] = step[n][f[n - 1]]
      BY <1>4 DEF Iterates
    <2>2. \A n \in 1..N : n - 1 \in 0..N
      BY <1>1
    <2> QED
      BY <2>1, <2>2
  <1>6. f = body(f)
    <2> HIDE DEF grow, uses, N
    <2>1. \A n \in 0..N : n = 0 \/ n \in 1..N
      BY <1>1
    <2> QED
      BY <1>1, <1>5, <2>1
  <1>7. reach = body(reach)
    <2> HIDE DEF body
    <2> QED
      BY <1>6
  <1>8. Reach(x, pf, overrides, env) = reach[N]
    BY DEF Reach, Things
  <1> HIDE DEF reach, grow, uses, N
  <1>9. /\ reach = [n \in 0..N |-> reach[n]] /\ reach[0] = uses(x)
        /\ \A n \in 1..N : reach[n] = grow(reach[n - 1])
    BY <1>1, <1>7
  <1> DEFINE G == {n \in 0..N : reach[n] \in SUBSET Things}
  <1>10. 0 \in G
    BY <1>1, <1>2, <1>9
  <1>11. ASSUME NEW n \in 1..N, n - 1 \in G
         PROVE  n \in G
    <2>1. reach[n - 1] \in SUBSET Things /\ n \in 0..N
      BY <1>1, <1>11
    <2>2. reach[n] \in SUBSET Things
      BY <1>2, <1>9, <2>1
    <2> QED
      BY <2>1, <2>2
  <1> HIDE DEF G
  <1>12. 0..N \subseteq G
    BY <1>1, <1>10, <1>11, Induct
  <1>13. reach \in [0..N -> SUBSET Things]
    <2>1. \A n \in 0..N : reach[n] \in SUBSET Things
      BY <1>12 DEF G
    <2> QED
      BY <1>9, <2>1
  <1> QED
    BY <1>8, <1>9, <1>13 DEF grow, uses, N, ReachedBy

\* What a name stands on is what it uses and all that stands on; for there
\* are no more steps to take than there are names and texts.
LEMMA ReachIsClosed ==
    ASSUME NEW x \in Things, NEW pf, NEW overrides, PathCase(overrides), NEW env
    PROVE  /\ Reach(x, pf, overrides, env) \subseteq Things
           /\ Uses(x, pf, overrides, env) \subseteq Reach(x, pf, overrides, env)
           /\ Closed(Reach(x, pf, overrides, env), pf, overrides, env)
           /\ \A C : Closed(C, pf, overrides, env) /\ Uses(x, pf, overrides, env) \subseteq C
                 => Reach(x, pf, overrides, env) \subseteq C
  <1> DEFINE N == Cardinality(Things)
             uses(y) == Uses(y, pf, overrides, env)
             closed(C) == \A y \in C : uses(y) \subseteq C
  <1>0. IsFiniteSet(Things) /\ N \in Nat
    BY PathsAssumption, FS_Union, FS_CardinalityType DEF Things
  <1>1. PICK r \in [0..N -> SUBSET Things] :
            /\ r[0] = uses(x)
            /\ \A n \in 1..N : r[n] = r[n - 1] \cup UNION {uses(y) : y \in r[n - 1]}
            /\ Reach(x, pf, overrides, env) = r[N]
    <2>1. PICK r \in [0..N -> SUBSET Things] : ReachedBy(r, x, pf, overrides, env)
      BY ReachSteps
    <2> QED
      BY <2>1 DEF ReachedBy
  <1>2. \A y \in Things : uses(y) \subseteq Things
    BY UsesTyped
  <1> HIDE DEF N, uses
  <1> DEFINE G == {n \in 0..N : closed(r[n]) \/ Cardinality(r[n]) >= n}
             K == {n \in 0..N : uses(x) \subseteq r[n]}
  <1>3. \A n \in 0..N : IsFiniteSet(r[n]) /\ Cardinality(r[n]) \in Nat
    BY <1>0, <1>1, FS_Subset, FS_CardinalityType
  <1>4. 0 \in G /\ 0 \in K
    BY <1>0, <1>1, <1>3
  <1>5. ASSUME NEW n \in 1..N, n - 1 \in G
        PROVE  n \in G
    <2> DEFINE p == r[n - 1]
               q == r[n]
    <2>1. n - 1 \in 0..N /\ n \in 0..N
      BY <1>0
    <2>2. p \subseteq q /\ q = p \cup UNION {uses(y) : y \in p}
      BY <1>1
    <2>3. IsFiniteSet(p) /\ IsFiniteSet(q) /\ Cardinality(p) \in Nat /\ Cardinality(q) \in Nat
      BY <1>3, <2>1
    <2>4. closed(p) \/ Cardinality(p) >= n - 1
      BY <1>5
    <2> HIDE DEF p, q
    <2>5. CASE closed(p)
      <3>1. q = p
        BY <2>2, <2>5
      <3> QED
        BY <2>1, <2>5, <3>1 DEF p, q
    <2>6. CASE ~closed(p)
      <3>1. q # p
        BY <2>2, <2>6
      <3>2. Cardinality(p) < Cardinality(q)
        BY <2>2, <2>3, <3>1, FS_Subset
      <3>3. Cardinality(q) >= n
        BY <2>3, <2>4, <2>6, <3>2
      <3> QED
        BY <2>1, <3>3 DEF q
    <2> QED
      BY <2>5, <2>6
  <1>6. ASSUME NEW n \in 1..N, n - 1 \in K
        PROVE  n \in K
    BY <1>0, <1>1, <1>6
  <1>7. N \in G /\ N \in K
    <2> HIDE DEF G, K
    <2>1. 0..N \subseteq G
      BY <1>0, <1>4, <1>5, Induct
    <2>2. 0..N \subseteq K
      BY <1>0, <1>4, <1>6, Induct
    <2> QED
      BY <1>0, <2>1, <2>2
  <1>8. closed(r[N])
    <2>1. CASE Cardinality(r[N]) >= N
      <3> DEFINE q == r[N]
      <3>1. q \subseteq Things /\ IsFiniteSet(q) /\ Cardinality(q) \in Nat
        BY <1>0, <1>1, <1>3
      <3>2. Cardinality(q) >= N
        BY <2>1
      <3> HIDE DEF q
      <3>3. q = Things
        BY <1>0, <3>1, <3>2, FS_Subset DEF N
      <3> QED
        BY <1>2, <3>3 DEF q
    <2> QED
      BY <1>7, <2>1
  <1>9. ASSUME NEW C, Closed(C, pf, overrides, env), uses(x) \subseteq C
        PROVE  r[N] \subseteq C
    <2> DEFINE H == {n \in 0..N : r[n] \subseteq C}
    <2>1. \A y \in C : uses(y) \subseteq C
      BY <1>9 DEF Closed, uses
    <2>2. 0 \in H
      BY <1>0, <1>1, <1>9
    <2>3. ASSUME NEW n \in 1..N, n - 1 \in H
          PROVE  n \in H
      BY <1>0, <1>1, <2>1, <2>3
    <2> HIDE DEF H
    <2>4. 0..N \subseteq H
      BY <1>0, <2>2, <2>3, Induct
    <2> QED
      BY <1>0, <2>4 DEF H
  <1>10. r[N] \subseteq Things /\ uses(x) \subseteq r[N]
    BY <1>0, <1>1, <1>7
  <1> QED
    BY <1>1, <1>8, <1>9, <1>10 DEF Closed, uses

\* So what x stands on is the things it uses, each with what that stands on.
LEMMA ReachSplits ==
    ASSUME NEW x \in Things, NEW pf, NEW overrides, PathCase(overrides), NEW env
    PROVE  LET reach(y) == Reach(y, pf, overrides, env)
               uses == Uses(x, pf, overrides, env)
           IN  /\ reach(x) \subseteq Things /\ uses \subseteq Things
               /\ \A y \in reach(x) : reach(y) \subseteq reach(x)
               /\ reach(x) = UNION {{u} \cup reach(u) : u \in uses}
  <1> DEFINE reach(y) == Reach(y, pf, overrides, env)
             uses(y) == Uses(y, pf, overrides, env)
             closed(C) == \A y \in C : uses(y) \subseteq C
             all == UNION {{u} \cup reach(u) : u \in uses(x)}
  <1>1. \A y \in Things :
            /\ reach(y) \subseteq Things /\ uses(y) \subseteq reach(y) /\ closed(reach(y))
            /\ \A C : closed(C) /\ uses(y) \subseteq C => reach(y) \subseteq C
    BY ReachIsClosed DEF Closed
  <1>2. \A y \in Things : uses(y) \subseteq Things
    BY UsesTyped
  <1> HIDE DEF reach, uses
  <1>3. ASSUME NEW y \in reach(x)
        PROVE  reach(y) \subseteq reach(x)
    <2>1. y \in Things /\ uses(y) \subseteq reach(x) /\ closed(reach(x))
      BY <1>1
    <2> QED
      BY <1>1, <2>1
  <1>4. reach(x) \subseteq all
    <2>1. uses(x) \subseteq all
      OBVIOUS
    <2>2. ASSUME NEW y \in all
          PROVE  uses(y) \subseteq all
      <3>1. PICK u \in uses(x) : y = u \/ y \in reach(u)
        OBVIOUS
      <3>2. u \in Things
        BY <1>2
      <3>3. uses(y) \subseteq reach(u)
        BY <1>1, <3>1, <3>2
      <3> QED
        BY <3>3
    <2> HIDE DEF all
    <2>3. closed(all)
      BY <2>2
    <2> QED
      BY <1>1, <2>1, <2>3
  <1>5. all \subseteq reach(x)
    <2> SUFFICES ASSUME NEW u \in uses(x)
                 PROVE  {u} \cup reach(u) \subseteq reach(x)
      OBVIOUS
    <2>1. u \in reach(x)
      BY <1>1
    <2> QED
      BY <1>3, <2>1
  <1>6. reach(x) = all
    BY <1>4, <1>5
  <1>7. reach(x) \subseteq Things /\ uses(x) \subseteq Things
    BY <1>1, <1>2
  <1> QED
    BY <1>3, <1>6, <1>7 DEF reach, uses

(***************************************************************************)
(* The resolver comes to an end                                            *)
(***************************************************************************)
\* What it is asked: a thing, with the names being resolved around it.
Goals == Things \X SUBSET Name

\* Each question it asks in turn ranks below the one it has been asked: a name
\* is resolved with one name more around it, a fallback is a shorter text.
Ranks(rank) ==
    \A S \in SUBSET Name :
        /\ \A t \in Text :
              /\ \A n \in Name \ S : rank[<<n, S>>] < rank[<<t, S>>]
              /\ \A u \in Text : Length[u] < Length[t] => rank[<<u, S>>] < rank[<<t, S>>]
        /\ \A n \in Name : \A x \in Text \cup (Name \ (S \cup {n})) :
              rank[<<x, S \cup {n}>>] < rank[<<n, S>>]

LEMMA LongestText == \E L \in Nat : \A t \in Text : Length[t] <= L
  <1> DEFINE B(T) == \E L \in Nat : \A t \in T : Length[t] <= L
             N == Cardinality(Text)
  <1>1. IsFiniteSet(Text) /\ N \in Nat
    BY PathsAssumption, FS_CardinalityType
  <1>2. PICK f : f \in Bijection(1..N, Text)
    BY <1>1, FS_NatBijection, FS_CardinalityType DEF ExistsBijection
  <1> DEFINE G == {n \in 0..N : \E L \in Nat : \A i \in 1..n : Length[f[i]] <= L}
  <1>3. f \in [1..N -> Text] /\ \A t \in Text : \E i \in 1..N : f[i] = t
    BY <1>2 DEF Bijection, Surjection, Injection
  <1>4. \A i \in 1..N : Length[f[i]] \in Nat
    BY <1>3, PathsAssumption
  <1>5. 0 \in G
    BY <1>1
  <1>6. ASSUME NEW n \in 1..N, n - 1 \in G
        PROVE  n \in G
    <2>1. PICK L \in Nat : \A i \in 1..(n - 1) : Length[f[i]] <= L
      BY <1>6
    <2> DEFINE K == IF Length[f[n]] <= L THEN L ELSE Length[f[n]]
    <2>2. K \in Nat /\ Length[f[n]] <= K /\ L <= K
      BY <1>4
    <2>3. ASSUME NEW i \in 1..n
          PROVE  Length[f[i]] <= K
      <3>1. i = n \/ i \in 1..(n - 1)
        BY <1>1
      <3>2. i \in 1..N /\ Length[f[i]] \in Nat
        BY <1>1, <1>4
      <3> QED
        BY <2>1, <2>2, <3>1, <3>2
    <2>4. n \in 0..N
      BY <1>1
    <2> QED
      BY <2>2, <2>3, <2>4
  <1> HIDE DEF G
  <1>7. N \in G
    <2>1. 0..N \subseteq G
      BY <1>1, <1>5, <1>6, Induct
    <2> QED
      BY <1>1, <2>1
  <1> QED
    BY <1>3, <1>7 DEF G

LEMMA RankExists == \E M \in Nat : \E rank \in [Goals -> 0..M] : Ranks(rank)
  <1>1. PICK L \in Nat : \A t \in Text : Length[t] <= L
    BY LongestText
  <1> DEFINE N == Cardinality(Name)
             W == L + 3
             out(S) == Cardinality(Name \ S)
             at(x, S) == IF x \in Text THEN Length[x] + 1 ELSE IF x \in S THEN L + 2 ELSE 0
             rank == [g \in Goals |-> W * out(g[2]) + at(g[1], g[2])]
             M == W * N + W
  <1>2. IsFiniteSet(Name) /\ N \in Nat /\ W \in Nat /\ Text \cap Name = {}
    BY PathsAssumption, FS_CardinalityType
  <1>3. ASSUME NEW S \in SUBSET Name
        PROVE  /\ IsFiniteSet(Name \ S) /\ out(S) \in 0..N
               /\ \A n \in Name \ S : out(S) = out(S \cup {n}) + 1 /\ out(S \cup {n}) \in Nat
    <2>1. IsFiniteSet(Name \ S) /\ out(S) \in Nat /\ out(S) <= N
      BY <1>2, FS_Subset, FS_CardinalityType
    <2>2. ASSUME NEW n \in Name \ S
          PROVE  out(S) = out(S \cup {n}) + 1 /\ out(S \cup {n}) \in Nat
      <3>1. Name \ (S \cup {n}) = (Name \ S) \ {n}
        OBVIOUS
      <3>2. Cardinality((Name \ S) \ {n}) = Cardinality(Name \ S) - 1
        BY <2>1, <2>2, FS_RemoveElement
      <3>3. IsFiniteSet((Name \ S) \ {n})
        BY <2>1, FS_Subset
      <3>4. out(S \cup {n}) \in Nat
        BY <3>1, <3>3, FS_CardinalityType
      <3>5. out(S \cup {n}) = out(S) - 1
        BY <3>1, <3>2
      <3> HIDE DEF out
      <3> QED
        BY <2>1, <3>4, <3>5
    <2> QED
      BY <2>1, <2>2
  <1>4. \A x \in Things : \A S \in SUBSET Name : at(x, S) \in 0..(L + 2)
    BY <1>1, PathsAssumption DEF Things
  <1> HIDE DEF out, at, W, N
  <1>5. \A a \in Nat, b \in Nat : a <= b => W * a \in Nat /\ W * a <= W * b
    BY <1>2
  <1>6. \A a \in Nat : W * (a + 1) = W * a + W /\ W * a \in Nat
    BY <1>2
  <1>7. ASSUME NEW g \in Goals
        PROVE  rank[g] \in 0..M
    <2>1. g[1] \in Things /\ g[2] \in SUBSET Name
      BY DEF Goals
    <2>2. out(g[2]) \in 0..N /\ at(g[1], g[2]) \in 0..(L + 2)
      BY <1>3, <1>4, <2>1
    <2>3. W * out(g[2]) \in Nat /\ W * N \in Nat /\ W * out(g[2]) <= W * N
      BY <1>2, <1>5, <2>2
    <2> HIDE DEF M
    <2>4. rank[g] = W * out(g[2]) + at(g[1], g[2])
      OBVIOUS
    <2> DEFINE p == W * out(g[2])
               q == W * N
               r == at(g[1], g[2])
    <2>5. p \in Nat /\ q \in Nat /\ p <= q /\ r \in 0..(L + 2) /\ W = L + 3 /\ M = q + W
      BY <2>2, <2>3 DEF M, W
    <2>6. rank[g] = p + r
      BY <2>4
    <2> HIDE DEF p, q, r, rank
    <2> QED
      BY <2>5, <2>6
  <1>8. \A x \in Things : \A S \in SUBSET Name : rank[<<x, S>>] = W * out(S) + at(x, S)
    BY DEF Goals
  <1> HIDE DEF rank, M
  <1>9. Ranks(rank)
    <2> SUFFICES ASSUME NEW S \in SUBSET Name
                 PROVE  /\ \A t \in Text :
                              /\ \A n \in Name \ S : rank[<<n, S>>] < rank[<<t, S>>]
                              /\ \A u \in Text : Length[u] < Length[t] => rank[<<u, S>>] < rank[<<t, S>>]
                        /\ \A n \in Name : \A x \in Text \cup (Name \ (S \cup {n})) :
                              rank[<<x, S \cup {n}>>] < rank[<<n, S>>]
      BY DEF Ranks
    <2> DEFINE w == W * out(S)
    <2>1. w \in Nat
      <3>1. out(S) \in 0..N
        BY <1>3
      <3>2. out(S) \in Nat
        BY <1>2, <3>1
      <3> QED
        BY <1>6, <3>2
    <2>2. \A x \in Things : rank[<<x, S>>] = w + at(x, S)
      BY <1>8
    <2> HIDE DEF w
    <2>3. \A t \in Text : at(t, S) = Length[t] + 1 /\ Length[t] \in Nat /\ t \in Things
      BY PathsAssumption DEF at, Things
    <2>4. \A n \in Name \ S : at(n, S) = 0 /\ n \in Things
      BY <1>2 DEF at, Things
    <2>5. \A n \in Name \cap S : at(n, S) = L + 2 /\ n \in Things
      BY <1>2 DEF at, Things
    <2>6. ASSUME NEW t \in Text, NEW n \in Name \ S
          PROVE  rank[<<n, S>>] < rank[<<t, S>>]
      BY <2>1, <2>2, <2>3, <2>4
    <2>7. ASSUME NEW t \in Text, NEW u \in Text, Length[u] < Length[t]
          PROVE  rank[<<u, S>>] < rank[<<t, S>>]
      BY <2>1, <2>2, <2>3, <2>7
    <2>8. ASSUME NEW n \in Name, NEW x \in Text \cup (Name \ (S \cup {n}))
          PROVE  rank[<<x, S \cup {n}>>] < rank[<<n, S>>]
      <3>1. CASE n \in S
        <4>1. S \cup {n} = S /\ at(n, S) = L + 2 /\ n \in Things
          BY <2>5, <3>1
        <4>2. at(x, S) \in 0..(L + 1) /\ x \in Things
          BY <1>1, <2>3, <2>4, <4>1
        <4> QED
          BY <2>1, <2>2, <4>1, <4>2
      <3>2. CASE n \notin S
        <4> DEFINE T == S \cup {n}
                   v == W * out(T)
        <4>1. out(S) = out(T) + 1 /\ out(T) \in Nat /\ T \in SUBSET Name
          BY <1>3, <3>2
        <4>2. w = v + W /\ v \in Nat
          BY <1>6, <4>1 DEF w
        <4>3. x \in Things /\ at(x, T) \in 0..(L + 2) /\ rank[<<x, T>>] = v + at(x, T)
          BY <1>4, <1>8, <4>1 DEF Things
        <4>4. rank[<<n, S>>] = w
          BY <2>1, <2>2, <2>4, <3>2
        <4>5. W = L + 3
          BY DEF W
        <4> DEFINE a == at(x, T)
        <4>6. a \in 0..(L + 2) /\ rank[<<x, T>>] = v + a
          BY <4>3
        <4> HIDE DEF v, a, T
        <4>7. v + a < v + W
          BY <4>2, <4>5, <4>6
        <4> QED
          BY <4>2, <4>4, <4>6, <4>7 DEF T
      <3> QED
        BY <3>1, <3>2
    <2> QED
      BY <2>6, <2>7, <2>8
  <1>10. rank \in [Goals -> 0..M] /\ M \in Nat
    <2>1. M \in Nat
      <3>1. W * N \in Nat
        BY <1>2, <1>6
      <3> QED
        BY <1>2, <3>1 DEF M
    <2>2. rank = [g \in Goals |-> rank[g]]
      BY DEF rank
    <2> QED
      BY <1>7, <2>1, <2>2
  <1> QED
    BY <1>9, <1>10

\* What a text's tokens come to, one after the other.
JoinedBy(u, t, env, around, expand) ==
    /\ u[0] = Good(<< >>)
    /\ \A i \in 1..Len(Tokens[t]) :
          u[i] = Joined(u[i - 1], resolve_expr(Tokens[t][i], env, around, expand))
    /\ resolve_text(t, env, around, expand) = u[Len(Tokens[t])]

LEMMA JoinedSteps ==
    ASSUME NEW t \in Text, NEW env, NEW around, NEW expand
    PROVE  \E u : JoinedBy(u, t, env, around, expand)
  <1> DEFINE base == Good(<< >>)
             N == Len(Tokens[t])
             step(x, n) == Joined(x, resolve_expr(Tokens[t][n], env, around, expand))
             Fits(f, m) == /\ f[0] = base /\ \A i \in 1..m : f[i] = step(f[i - 1], i)
                           /\ f = [i \in 0..m |-> f[i]]
             G == {m \in 0..N : \E f : Fits(f, m)}
  <1>0. N \in Nat
    BY TokensTyped
  <1> HIDE DEF step, base
  <1>1. 0 \in G
    <2>1. Fits([i \in 0..0 |-> base], 0)
      OBVIOUS
    <2> HIDE DEF Fits
    <2> QED
      BY <1>0, <2>1
  <1>2. ASSUME NEW m \in 1..N, m - 1 \in G
        PROVE  m \in G
    <2>1. PICK f : Fits(f, m - 1)
      BY <1>2
    <2> DEFINE x == step(f[m - 1], m)
               g == [i \in 0..m |-> IF i = m THEN x ELSE f[i]]
    <2>2. g[0] = base
      BY <2>1
    <2>3. ASSUME NEW i \in 1..m
          PROVE  g[i] = step(g[i - 1], i)
      <3>1. i - 1 \in 0..m /\ i - 1 # m /\ g[i - 1] = f[i - 1]
        OBVIOUS
      <3>2. CASE i = m
        BY <3>1, <3>2
      <3>3. CASE i # m
        <4>1. i \in 1..(m - 1) /\ g[i] = f[i]
          BY <3>3
        <4> QED
          BY <2>1, <3>1, <4>1
      <3> QED
        BY <3>2, <3>3
    <2>4. g = [i \in 0..m |-> g[i]]
      OBVIOUS
    <2>5. Fits(g, m)
      <3> HIDE DEF g
      <3> QED
        BY <2>2, <2>3, <2>4
    <2> HIDE DEF Fits, g
    <2> QED
      BY <1>0, <2>5
  <1>3. N \in G
    <2> HIDE DEF G, N
    <2>1. 0..N \subseteq G
      BY <1>0, <1>1, <1>2, Induct
    <2> QED
      BY <1>0, <2>1
  <1>4. PICK f : Fits(f, N)
    BY <1>3
  <1> DEFINE body(h) == [n \in 0..N |-> IF n = 0 THEN base ELSE step(h[n - 1], n)]
             upto == CHOOSE h : h = body(h)
  <1>5. f = body(f)
    <2>1. ASSUME NEW n \in 0..N
          PROVE  f[n] = IF n = 0 THEN base ELSE step(f[n - 1], n)
      <3>1. n = 0 \/ n \in 1..N
        BY <1>0
      <3> QED
        BY <1>4, <3>1
    <2>2. [n \in 0..N |-> f[n]] = body(f)
      BY <2>1
    <2> QED
      BY <1>4, <2>2
  <1>6. upto = body(upto)
    <2> HIDE DEF body
    <2> QED
      BY <1>5
  <1>7. resolve_text(t, env, around, expand) = upto[N]
    BY DEF resolve_text, base, step
  <1> HIDE DEF upto, N
  <1>8. upto[0] = base /\ \A n \in 1..N : upto[n] = step(upto[n - 1], n)
    BY <1>0, <1>6
  <1>9. JoinedBy(upto, t, env, around, expand)
    BY <1>7, <1>8 DEF JoinedBy, base, step, N
  <1> QED
    BY <1>9

\* A text resolves when each token of it does.
LEMMA TextResolves ==
    ASSUME NEW t \in Text, NEW env, NEW around, NEW expand
    PROVE  resolve_text(t, env, around, expand).err = "none"
             <=> \A k \in ToSet(Tokens[t]) : resolve_expr(k, env, around, expand).err = "none"
  <1> DEFINE N == Len(Tokens[t])
             v(i) == resolve_expr(Tokens[t][i], env, around, expand)
  <1>0. N \in Nat /\ ToSet(Tokens[t]) = {Tokens[t][i] : i \in 1..N}
    BY TokensTyped DEF ToSet
  <1>1. PICK u : JoinedBy(u, t, env, around, expand)
    BY JoinedSteps
  <1>2. /\ u[0] = Good(<< >>) /\ \A i \in 1..N : u[i] = Joined(u[i - 1], v(i))
        /\ resolve_text(t, env, around, expand) = u[N]
    BY <1>1 DEF JoinedBy
  <1> DEFINE G == {n \in 0..N : u[n].err = "none" <=> \A i \in 1..n : v(i).err = "none"}
  <1> HIDE DEF N, v
  <1>3. \A x, y : Joined(x, y).err = "none" <=> x.err = "none" /\ y.err = "none"
    BY DEF Joined, Good
  <1>4. 0 \in G
    BY <1>0, <1>2 DEF Good
  <1>5. ASSUME NEW n \in 1..N, n - 1 \in G
        PROVE  n \in G
    <2>1. n \in 0..N /\ \A i \in 1..n : i = n \/ i \in 1..(n - 1)
      BY <1>0
    <2>2. 1..(n - 1) \subseteq 1..n /\ n \in 1..n
      BY <1>0
    <2>3. u[n].err = "none" <=> u[n - 1].err = "none" /\ v(n).err = "none"
      BY <1>2, <1>3
    <2> QED
      BY <1>5, <2>1, <2>2, <2>3
  <1> HIDE DEF G
  <1>6. N \in G
    <2>1. 0..N \subseteq G
      BY <1>0, <1>4, <1>5, Induct
    <2> QED
      BY <1>0, <2>1
  <1>7. resolve_text(t, env, around, expand).err = "none" <=> \A i \in 1..N : v(i).err = "none"
    BY <1>2, <1>6 DEF G
  <1> QED
    BY <1>0, <1>7 DEF v, N

\* And it comes to the same with resolvers that agree on each token.
LEMMA TextLocal ==
    ASSUME NEW t \in Text, NEW env, NEW around, NEW x, NEW y,
           \A k \in ToSet(Tokens[t]) : resolve_expr(k, env, around, x) = resolve_expr(k, env, around, y)
    PROVE  resolve_text(t, env, around, x) = resolve_text(t, env, around, y)
  <1> DEFINE N == Len(Tokens[t])
             v(i) == resolve_expr(Tokens[t][i], env, around, x)
             w(i) == resolve_expr(Tokens[t][i], env, around, y)
  <1>0. N \in Nat /\ ToSet(Tokens[t]) = {Tokens[t][i] : i \in 1..N}
    BY TokensTyped DEF ToSet
  <1>1. \A i \in 1..N : v(i) = w(i)
    BY <1>0
  <1>2. PICK u : JoinedBy(u, t, env, around, x)
    BY JoinedSteps
  <1>3. PICK z : JoinedBy(z, t, env, around, y)
    BY JoinedSteps
  <1>4. /\ u[0] = Good(<< >>) /\ \A i \in 1..N : u[i] = Joined(u[i - 1], v(i))
        /\ resolve_text(t, env, around, x) = u[N]
    BY <1>2 DEF JoinedBy
  <1>5. /\ z[0] = Good(<< >>) /\ \A i \in 1..N : z[i] = Joined(z[i - 1], w(i))
        /\ resolve_text(t, env, around, y) = z[N]
    BY <1>3 DEF JoinedBy
  <1> DEFINE G == {n \in 0..N : u[n] = z[n]}
  <1> HIDE DEF N, v, w
  <1>6. 0 \in G
    BY <1>0, <1>4, <1>5
  <1>7. ASSUME NEW n \in 1..N, n - 1 \in G
        PROVE  n \in G
    <2>1. n \in 0..N /\ u[n - 1] = z[n - 1] /\ v(n) = w(n)
      BY <1>0, <1>1, <1>7
    <2> QED
      BY <1>4, <1>5, <2>1
  <1> HIDE DEF G
  <1>8. N \in G
    <2>1. 0..N \subseteq G
      BY <1>0, <1>6, <1>7, Induct
    <2> QED
      BY <1>0, <2>1
  <1> QED
    BY <1>4, <1>5, <1>8 DEF G

\* One call of the resolver.
Call(g, pf, overrides, env, expand) ==
    IF g[1] \in Text THEN resolve_text(g[1], env, g[2], expand)
    ELSE lookup_var(g[1], pf, overrides, env, g[2] \cup {g[1]}, expand)

\* It depends on the calls that rank below it only.
LEMMA CallLocal ==
    ASSUME NEW pf, NEW overrides, PathCase(overrides), NEW env, NEW M \in Nat,
           NEW rank \in [Goals -> 0..M], Ranks(rank), NEW g \in Goals, NEW x, NEW y,
           \A h \in Goals : rank[h] < rank[g] => x[h] = y[h]
    PROVE  Call(g, pf, overrides, env, x) = Call(g, pf, overrides, env, y)
  <1> DEFINE a == g[1]
             S == g[2]
  <1>0. a \in Things /\ S \in SUBSET Name /\ g = <<a, S>>
    BY DEF Goals
  <1> HIDE DEF a, S
  <1>1. CASE a \in Text
    <2>1. ASSUME NEW k \in ToSet(Tokens[a])
          PROVE  resolve_expr(k, env, S, x) = resolve_expr(k, env, S, y)
      <3>0. /\ k.is \in {"lit", "bad", "var", "env"}
            /\ k.is = "var" => k.name \in Name
            /\ k.is = "env" => k.or \in Text \cup {NoText}
            /\ k.is = "env" /\ k.or # NoText => k.or \in Text /\ Length[k.or] < Length[a]
        BY <1>1, TokensTyped
      <3>1. CASE k.is = "var" /\ k.name \notin S
        <4>1. <<k.name, S>> \in Goals /\ rank[<<k.name, S>>] < rank[<<a, S>>]
          BY <1>0, <1>1, <3>0, <3>1 DEF Ranks, Goals, Things
        <4>2. x[<<k.name, S>>] = y[<<k.name, S>>]
          BY <1>0, <4>1
        <4> QED
          BY <3>1, <4>2 DEF resolve_expr, resolve_var
      <3>2. CASE k.is = "env" /\ k.or # NoText
        <4>1. <<k.or, S>> \in Goals /\ rank[<<k.or, S>>] < rank[<<a, S>>]
          BY <1>0, <1>1, <3>0, <3>2 DEF Ranks, Goals, Things
        <4>2. x[<<k.or, S>>] = y[<<k.or, S>>]
          BY <1>0, <4>1
        <4> QED
          BY <3>2, <4>2 DEF resolve_expr
      <3>3. CASE ~(k.is = "var" /\ k.name \notin S) /\ ~(k.is = "env" /\ k.or # NoText)
        BY <3>0, <3>3 DEF resolve_expr, resolve_var
      <3> QED
        BY <3>1, <3>2, <3>3
    <2>2. resolve_text(a, env, S, x) = resolve_text(a, env, S, y)
      BY <1>1, <2>1, TextLocal
    <2> QED
      BY <1>1, <2>2 DEF Call, a, S
  <1>2. CASE a \notin Text
    <2> DEFINE T == S \cup {a}
    <2>0. a \in Name /\ T \in SUBSET Name
      BY <1>0, <1>2 DEF Things
    <2>1. \A b \in Text \cup (Name \ T) : x[<<b, T>>] = y[<<b, T>>]
      <3> SUFFICES ASSUME NEW b \in Text \cup (Name \ T)
                   PROVE  x[<<b, T>>] = y[<<b, T>>]
        OBVIOUS
      <3>1. <<b, T>> \in Goals /\ rank[<<b, T>>] < rank[<<a, S>>]
        BY <1>0, <2>0 DEF Ranks, Goals, Things
      <3> QED
        BY <1>0, <3>1
    <2>2. a \in DOMAIN overrides => x[<<overrides[a], T>>] = y[<<overrides[a], T>>]
      BY <2>1 DEF PathCase
    <2>3. resolve_var("HOME", T, x) = resolve_var("HOME", T, y)
      BY <2>1, PathsAssumption DEF resolve_var
    <2> HIDE DEF T
    <2>4. lookup_var(a, pf, overrides, env, T, x) = lookup_var(a, pf, overrides, env, T, y)
      BY <2>2, <2>3 DEF lookup_var, resolve_builtin
    <2> QED
      BY <1>2, <2>4 DEF Call, a, S, T
  <1> QED
    BY <1>1, <1>2

\* So the resolver is defined everywhere, and is what its definition says.
IsResolver(x, pf, overrides, env) == x = [g \in Goals |-> Call(g, pf, overrides, env, x)]

LEMMA ResolverExists ==
    ASSUME NEW pf, NEW overrides, PathCase(overrides), NEW env
    PROVE  \E x : IsResolver(x, pf, overrides, env)
  <1>0. PICK M \in Nat : \E rank \in [Goals -> 0..M] : Ranks(rank)
    BY RankExists
  <1>1. PICK rank \in [Goals -> 0..M] : Ranks(rank)
    BY <1>0
  <1> DEFINE call(g, x) == Call(g, pf, overrides, env, x)
             Fits(x, m) == x = [g \in Goals |-> x[g]] /\ \A g \in Goals : rank[g] < m => x[g] = call(g, x)
             N == M + 1
             G == {n \in 0..N : \E x : Fits(x, n)}
  <1>2. N \in Nat /\ \A g \in Goals : rank[g] \in 0..M
    OBVIOUS
  <1>3. ASSUME NEW g \in Goals, NEW x, NEW y, \A h \in Goals : rank[h] < rank[g] => x[h] = y[h]
        PROVE  call(g, x) = call(g, y)
    BY <1>1, <1>3, CallLocal
  <1> HIDE DEF call
  <1>4. 0 \in G
    <2>1. Fits([g \in Goals |-> << >>], 0)
      BY <1>2
    <2> HIDE DEF Fits
    <2> QED
      BY <1>2, <2>1
  <1>5. ASSUME NEW n \in 1..N, n - 1 \in G
        PROVE  n \in G
    <2>1. PICK x : Fits(x, n - 1)
      BY <1>5
    <2> DEFINE y == [g \in Goals |-> IF rank[g] < n THEN call(g, x) ELSE x[g]]
    <2>2. \A h \in Goals : rank[h] < n - 1 => x[h] = y[h]
      BY <1>2, <2>1
    <2>3. ASSUME NEW g \in Goals, rank[g] < n
          PROVE  y[g] = call(g, y)
      <3>1. \A h \in Goals : rank[h] < rank[g] => rank[h] < n - 1
        BY <1>2, <2>3
      <3>2. call(g, x) = call(g, y)
        <4> HIDE DEF y
        <4> QED
          BY <1>3, <2>2, <3>1
      <3> QED
        BY <2>3, <3>2
    <2>4. y = [g \in Goals |-> y[g]]
      OBVIOUS
    <2> HIDE DEF y
    <2>5. Fits(y, n)
      BY <2>3, <2>4
    <2> HIDE DEF Fits
    <2> QED
      BY <1>2, <2>5
  <1>6. N \in G
    <2> HIDE DEF G, N
    <2>1. 0..N \subseteq G
      BY <1>2, <1>4, <1>5, Induct
    <2> QED
      BY <1>2, <2>1
  <1>7. PICK x : Fits(x, N)
    BY <1>6
  <1>8. x = [g \in Goals |-> call(g, x)]
    <2>1. \A g \in Goals : x[g] = call(g, x)
      BY <1>2, <1>7
    <2>2. x = [g \in Goals |-> x[g]]
      BY <1>7
    <2> QED
      BY <2>1, <2>2
  <1> QED
    BY <1>8 DEF call, IsResolver

LEMMA ResolverCalls ==
    ASSUME NEW pf, NEW overrides, PathCase(overrides), NEW env, NEW g \in Goals
    PROVE  Resolver(pf, overrides, env)[g] = Call(g, pf, overrides, env, Resolver(pf, overrides, env))
  <1> DEFINE body(h) == [d \in Goals |-> Call(d, pf, overrides, env, h)]
             expand == CHOOSE h : h = body(h)
  <1>1. \E x : x = body(x)
    <2>1. PICK x : IsResolver(x, pf, overrides, env)
      BY ResolverExists
    <2> QED
      BY <2>1 DEF IsResolver
  <1>2. expand = body(expand)
    <2> HIDE DEF body
    <2> QED
      BY <1>1
  <1>3. Resolver(pf, overrides, env) = expand
    BY DEF Resolver, Call, Goals, Things
  <1> HIDE DEF expand
  <1> QED
    BY <1>2, <1>3

(***************************************************************************)
(* ResolverSound                                                           *)
(***************************************************************************)
\* Nothing that x stands on, x included, is broken or stands on itself.
Whole(x, pf, overrides, env) ==
    \A y \in {x} \cup Reach(x, pf, overrides, env) :
        ~Broken(y, pf, overrides, env) /\ y \notin Reach(y, pf, overrides, env)

\* It is enough that x is not broken and what it uses is whole: what stands
\* on itself is used by something that does.
LEMMA WholeSplits ==
    ASSUME NEW x \in Things, NEW pf, NEW overrides, PathCase(overrides), NEW env
    PROVE  Whole(x, pf, overrides, env)
             <=> /\ ~Broken(x, pf, overrides, env)
                 /\ \A u \in Uses(x, pf, overrides, env) : Whole(u, pf, overrides, env)
  <1> DEFINE reach(y) == Reach(y, pf, overrides, env)
             uses == Uses(x, pf, overrides, env)
             broken(y) == Broken(y, pf, overrides, env)
             whole(y) == \A z \in {y} \cup reach(y) : ~broken(z) /\ z \notin reach(z)
  <1>1. /\ uses \subseteq Things
        /\ \A y \in reach(x) : reach(y) \subseteq reach(x)
        /\ reach(x) = UNION {{u} \cup reach(u) : u \in uses}
    BY ReachSplits
  <1>2. \A u \in uses : \A y \in reach(u) : reach(y) \subseteq reach(u)
    BY <1>1, ReachSplits
  <1> HIDE DEF reach, uses, broken
  <1>3. ASSUME whole(x), NEW u \in uses
        PROVE  whole(u)
    BY <1>1, <1>3
  <1>4. ASSUME ~broken(x), \A u \in uses : whole(u)
        PROVE  whole(x)
    <2>1. \A z \in reach(x) : ~broken(z) /\ z \notin reach(z)
      BY <1>1, <1>4
    <2>2. x \notin reach(x)
      BY <2>1
    <2> QED
      BY <1>4, <2>1, <2>2
  <1>5. whole(x) <=> ~broken(x) /\ \A u \in uses : whole(u)
    BY <1>3, <1>4
  <1> QED
    BY <1>5 DEF Whole, reach, uses, broken

\* Where a resolver stands on the things an asked one uses.
ShouldResolve(x, S, pf, overrides, env) ==
    Whole(x, pf, overrides, env) /\ ({x} \cup Reach(x, pf, overrides, env)) \cap S = {}

LEMMA BuiltinElse ==
    ASSUME NEW n, NEW pf
    PROVE  builtin_var(n, pf).else \in {"none", "home", "tmp"}
  BY DEF builtin_var

\* A text resolves when it has no malformed token and what it uses resolves.
LEMMA TextCase ==
    ASSUME NEW pf, NEW overrides, PathCase(overrides), NEW env,
           NEW t \in Text, NEW S \in SUBSET Name, NEW expand,
           \A u \in Uses(t, pf, overrides, env) : u \in Text \/ u \notin S =>
               (expand[<<u, S>>].err = "none" <=> ShouldResolve(u, S, pf, overrides, env))
    PROVE  resolve_text(t, env, S, expand).err = "none" <=> ShouldResolve(t, S, pf, overrides, env)
  <1> DEFINE uses == Uses(t, pf, overrides, env)
             reach(y) == Reach(y, pf, overrides, env)
             whole(y) == Whole(y, pf, overrides, env)
             ok(u) == (u \in Text \/ u \notin S) /\ expand[<<u, S>>].err = "none"
             bad == \E k \in ToSet(Tokens[t]) : k.is = "bad"
  <1>0. t \in Things /\ t \notin S /\ Text \cap Name = {}
    BY PathsAssumption DEF Things
  <1>1. uses = {k.name : k \in {j \in ToSet(Tokens[t]) : j.is = "var"}}
                 \cup {k.or : k \in {j \in ToSet(Tokens[t]) :
                                       j.is = "env" /\ ~IsSet(env, j.key) /\ j.or # NoText}}
    BY DEF Uses, TokensOf
  <1>2. (\A k \in ToSet(Tokens[t]) : resolve_expr(k, env, S, expand).err = "none")
          <=> ~bad /\ \A u \in uses : ok(u)
    <2>0. \A e : Bad(e).err = e /\ \A v : Good(v).err = "none"
      BY DEF Good, Bad
    <2>1. ASSUME NEW k \in ToSet(Tokens[t])
          PROVE  resolve_expr(k, env, S, expand).err = "none" <=>
                    /\ k.is # "bad"
                    /\ k.is = "var" => ok(k.name)
                    /\ k.is = "env" /\ ~IsSet(env, k.key) /\ k.or # NoText => ok(k.or)
      <3>1. /\ k.is \in {"lit", "bad", "var", "env"}
            /\ k.is = "var" => k.name \in Name
            /\ k.is = "env" /\ k.or # NoText => k.or \in Text
        BY TokensTyped
      <3>2. CASE k.is = "lit"
        BY <2>0, <3>2 DEF resolve_expr
      <3>3. CASE k.is = "bad"
        BY <2>0, <3>3 DEF resolve_expr
      <3>4. CASE k.is = "var"
        BY <1>0, <2>0, <3>1, <3>4 DEF resolve_expr, resolve_var
      <3>5. CASE k.is = "env"
        BY <2>0, <3>1, <3>5 DEF resolve_expr
      <3> QED
        BY <3>1, <3>2, <3>3, <3>4, <3>5
    <2> HIDE DEF ok, uses
    <2> QED
      BY <1>1, <2>1
  <1>3. bad <=> Broken(t, pf, overrides, env)
    BY <1>0 DEF Broken, TokensOf, Things
  <1>4. \A u \in uses : ok(u) <=> ShouldResolve(u, S, pf, overrides, env)
    BY DEF ShouldResolve
  <1>5. /\ reach(t) = UNION {{u} \cup reach(u) : u \in uses}
        /\ whole(t) <=> ~Broken(t, pf, overrides, env) /\ \A u \in uses : whole(u)
    BY <1>0, ReachSplits, WholeSplits
  <1>6. resolve_text(t, env, S, expand).err = "none" <=> ~bad /\ \A u \in uses : ok(u)
    BY <1>2, TextResolves
  <1> HIDE DEF uses, ok, bad
  <1>7. \A u \in uses : ok(u) <=> whole(u) /\ ({u} \cup reach(u)) \cap S = {}
    BY <1>4 DEF ShouldResolve
  <1> HIDE DEF whole, reach
  <1>8. (\A u \in uses : ({u} \cup reach(u)) \cap S = {}) <=> ({t} \cup reach(t)) \cap S = {}
    BY <1>0, <1>5
  <1>9. resolve_text(t, env, S, expand).err = "none" <=> whole(t) /\ ({t} \cup reach(t)) \cap S = {}
    BY <1>3, <1>5, <1>6, <1>7, <1>8
  <1> QED
    BY <1>9 DEF ShouldResolve, whole, reach

\* A name that stands for one other thing resolves when that does, with the
\* name among those being resolved.
LEMMA OneUse ==
    ASSUME NEW pf, NEW overrides, PathCase(overrides), NEW env,
           NEW n \in Name, NEW S \in SUBSET Name, n \notin S, NEW u,
           Uses(n, pf, overrides, env) = {u}, ~Broken(n, pf, overrides, env)
    PROVE  ShouldResolve(u, S \cup {n}, pf, overrides, env) <=> ShouldResolve(n, S, pf, overrides, env)
  <1> DEFINE reach(y) == Reach(y, pf, overrides, env)
             whole(y) == Whole(y, pf, overrides, env)
  <1>1. n \in Things
    BY DEF Things
  <1>2. reach(n) = {u} \cup reach(u)
    BY <1>1, ReachSplits
  <1>3. whole(n) <=> whole(u)
    BY <1>1, WholeSplits
  <1>4. whole(n) => n \notin reach(n)
    BY DEF Whole
  <1> HIDE DEF reach, whole
  <1>5. whole(u) /\ ({u} \cup reach(u)) \cap (S \cup {n}) = {}
          <=> whole(n) /\ ({n} \cup reach(n)) \cap S = {}
    BY <1>2, <1>3, <1>4
  <1> QED
    BY <1>5 DEF ShouldResolve, reach, whole

LEMMA NameCase ==
    ASSUME NEW pf, NEW overrides, PathCase(overrides), NEW env,
           NEW n \in Name, NEW S \in SUBSET Name, n \notin S, NEW expand,
           \A u \in Text \cup (Name \ (S \cup {n})) :
               expand[<<u, S \cup {n}>>].err = "none" <=> ShouldResolve(u, S \cup {n}, pf, overrides, env)
    PROVE  lookup_var(n, pf, overrides, env, S \cup {n}, expand).err = "none"
             <=> ShouldResolve(n, S, pf, overrides, env)
  <1> DEFINE T == S \cup {n}
             uses == Uses(n, pf, overrides, env)
             broken == Broken(n, pf, overrides, env)
             b == builtin_var(n, pf)
             found == FirstSet(env, b.keys)
             ok == lookup_var(n, pf, overrides, env, T, expand).err = "none"
  <1>0. n \notin Text /\ n \in Things /\ "HOME" \in Name
    BY PathsAssumption DEF Things
  <1>1. \A e : Bad(e).err = e /\ \A v : Good(v).err = "none"
    BY DEF Good, Bad
  <1>2. CASE n \in DOMAIN overrides
    <2>1. overrides[n] \in Text /\ uses = {overrides[n]} /\ ~broken
      BY <1>0, <1>2 DEF PathCase, Uses, Broken
    <2>2. ok <=> expand[<<overrides[n], T>>].err = "none"
      BY <1>2 DEF lookup_var
    <2> QED
      BY <2>1, <2>2, OneUse
  <1>3. CASE n \notin DOMAIN overrides
    <2>0. lookup_var(n, pf, overrides, env, T, expand) = resolve_builtin(n, pf, env, T, expand)
      BY <1>3 DEF lookup_var
    <2>1. CASE ~WrongPlatform(n, pf) /\ found = << >> /\ b.else = "home"
      <3>1. uses = {"HOME"} /\ ~broken
        BY <1>0, <1>3, <2>1 DEF Uses, Broken
      <3>2. ok <=> "HOME" \notin T /\ expand[<<"HOME", T>>].err = "none"
        <4>1. resolve_builtin(n, pf, env, T, expand) = UnderHome(resolve_var("HOME", T, expand), n)
          BY <2>1 DEF resolve_builtin
        <4>2. \A h : UnderHome(h, n).err = "none" <=> h.err = "none"
          BY <1>1 DEF UnderHome
        <4>3. resolve_var("HOME", T, expand).err = "none"
                <=> "HOME" \notin T /\ expand[<<"HOME", T>>].err = "none"
          BY <1>1 DEF resolve_var
        <4> QED
          BY <2>0, <4>1, <4>2, <4>3
      <3>3. "HOME" \in T => ~ShouldResolve("HOME", T, pf, overrides, env)
        BY DEF ShouldResolve
      <3>4. ShouldResolve("HOME", T, pf, overrides, env) <=> ShouldResolve(n, S, pf, overrides, env)
        BY <3>1, OneUse
      <3> QED
        BY <1>0, <3>2, <3>3, <3>4
    <2>2. CASE ~(~WrongPlatform(n, pf) /\ found = << >> /\ b.else = "home")
      <3>1. uses = {}
        BY <1>0, <1>3, <2>2 DEF Uses
      <3>2. Reach(n, pf, overrides, env) = {}
        BY <1>0, <3>1, ReachSplits
      <3>3. ShouldResolve(n, S, pf, overrides, env) <=> ~broken
        BY <3>2 DEF ShouldResolve, Whole
      <3>4. broken <=> WrongPlatform(n, pf) \/ (b.else = "none" /\ found = << >>)
        BY <1>0, <1>3 DEF Broken
      <3>5. b.else \in {"none", "home", "tmp"}
        BY BuiltinElse
      <3> HIDE DEF b, broken
      <3>6. ok <=> ~WrongPlatform(n, pf) /\ (found # << >> \/ b.else = "tmp")
        BY <1>1, <2>0, <2>2, <3>5 DEF resolve_builtin, b
      <3> QED
        BY <2>2, <3>3, <3>4, <3>5, <3>6
    <2> QED
      BY <2>1, <2>2
  <1> QED
    BY <1>2, <1>3

LEMMA ResolverResolves ==
    ASSUME NEW pf, NEW overrides, PathCase(overrides), NEW env,
           NEW x \in Things, NEW S \in SUBSET Name, x \notin S
    PROVE  Resolver(pf, overrides, env)[<<x, S>>].err = "none" <=> ShouldResolve(x, S, pf, overrides, env)
  <1> DEFINE expand == Resolver(pf, overrides, env)
             right(g) == expand[g].err = "none" <=> ShouldResolve(g[1], g[2], pf, overrides, env)
  <1>0. PICK M \in Nat : \E rank \in [Goals -> 0..M] : Ranks(rank)
    BY RankExists
  <1>1. PICK rank \in [Goals -> 0..M] : Ranks(rank)
    BY <1>0
  <1> DEFINE N == M + 1
             G == {m \in 0..N : \A g \in Goals : rank[g] < m /\ g[1] \notin g[2] => right(g)}
  <1>2. N \in Nat /\ \A g \in Goals : rank[g] \in 0..M
    OBVIOUS
  <1>3. \A g \in Goals : expand[g] = Call(g, pf, overrides, env, expand)
    BY ResolverCalls
  <1>4. ASSUME NEW g \in Goals, g[1] \notin g[2],
               \A h \in Goals : rank[h] < rank[g] /\ h[1] \notin h[2] => right(h)
        PROVE  right(g)
    <2> DEFINE a == g[1]
               T == g[2]
    <2>0. a \in Things /\ T \in SUBSET Name /\ g = <<a, T>> /\ a \notin T /\ Text \cap Name = {}
      BY <1>4, PathsAssumption DEF Goals
    <2>1. expand[g] = Call(g, pf, overrides, env, expand)
      BY <1>3
    <2> HIDE DEF expand, a, T
    <2>2. CASE a \in Text
      <3>1. ASSUME NEW u \in Uses(a, pf, overrides, env), u \in Text \/ u \notin T
            PROVE  expand[<<u, T>>].err = "none" <=> ShouldResolve(u, T, pf, overrides, env)
        <4>1. u \in Things
          BY <2>0, UsesTyped
        <4>2. u \notin T
          BY <2>0, <3>1
        <4>3. u \in Text => Length[u] < Length[a]
          <5>1. CASE u \in Text
            <6>1. PICK k \in ToSet(Tokens[a]) : k.is = "env" /\ k.or # NoText /\ k.or = u
              <7>1. \A k \in ToSet(Tokens[a]) : k.is = "var" => k.name \in Name
                BY <2>2, TokensTyped
              <7> QED
                BY <2>0, <2>2, <5>1, <7>1 DEF Uses, TokensOf
            <6> QED
              BY <2>2, <6>1, TokensTyped
          <5> QED
            BY <5>1
        <4>4. <<u, T>> \in Goals /\ rank[<<u, T>>] < rank[<<a, T>>]
          BY <1>1, <2>0, <2>2, <4>1, <4>2, <4>3 DEF Ranks, Goals, Things
        <4>5. right(<<u, T>>)
          BY <1>4, <2>0, <4>2, <4>4
        <4> QED
          BY <4>5
      <3>2. resolve_text(a, env, T, expand).err = "none" <=> ShouldResolve(a, T, pf, overrides, env)
        BY <2>0, <2>2, <3>1, TextCase
      <3> QED
        BY <2>1, <2>2, <3>2 DEF Call, a, T
    <2>3. CASE a \notin Text
      <3> DEFINE U == T \cup {a}
      <3>0. a \in Name /\ U \in SUBSET Name
        BY <2>0, <2>3 DEF Things
      <3>1. ASSUME NEW u \in Text \cup (Name \ U)
            PROVE  expand[<<u, U>>].err = "none" <=> ShouldResolve(u, U, pf, overrides, env)
        <4>1. <<u, U>> \in Goals /\ rank[<<u, U>>] < rank[<<a, T>>]
          BY <1>1, <2>0, <3>0 DEF Ranks, Goals, Things
        <4>2. u \notin U
          BY <2>0, <3>0
        <4>3. right(<<u, U>>)
          BY <1>4, <2>0, <4>1, <4>2
        <4> QED
          BY <4>3
      <3>2. lookup_var(a, pf, overrides, env, T \cup {a}, expand).err = "none"
              <=> ShouldResolve(a, T, pf, overrides, env)
        BY <2>0, <3>0, <3>1, NameCase
      <3> QED
        BY <2>1, <2>3, <3>2 DEF Call, a, T
    <2> QED
      BY <2>2, <2>3
  <1> HIDE DEF right, expand
  <1>5. 0 \in G
    BY <1>2
  <1>6. ASSUME NEW m \in 1..N, m - 1 \in G
        PROVE  m \in G
    <2> SUFFICES ASSUME NEW g \in Goals, rank[g] < m, g[1] \notin g[2]
                 PROVE  right(g)
      BY <1>2
    <2>1. \A h \in Goals : rank[h] < rank[g] => rank[h] < m - 1
      BY <1>2
    <2>2. \A h \in Goals : rank[h] < rank[g] /\ h[1] \notin h[2] => right(h)
      BY <1>6, <2>1
    <2> QED
      BY <1>4, <2>2
  <1>7. N \in G
    <2> HIDE DEF G, N
    <2>1. 0..N \subseteq G
      BY <1>2, <1>5, <1>6, Induct
    <2> QED
      BY <1>2, <2>1
  <1>8. right(<<x, S>>)
    <2>1. <<x, S>> \in Goals
      BY DEF Goals
    <2>2. rank[<<x, S>>] < N
      BY <1>2, <2>1
    <2> QED
      BY <1>7, <2>1, <2>2
  <1> QED
    BY <1>8 DEF right, expand

LEMMA ResolverIsSound == ResolveSound
  <1> SUFFICES ASSUME NEW c \in PathCases, NEW x \in Things
               PROVE  Resolver(c.platform, c.overrides, c.env)[<<x, {}>>].err = "none"
                        <=> Whole(x, c.platform, c.overrides, c.env)
    BY DEF ResolveSound, Whole, Things
  <1>1. PathCase(c.overrides)
    BY PathsAssumption DEF PathCase
  <1>2. Resolver(c.platform, c.overrides, c.env)[<<x, {}>>].err = "none"
          <=> ShouldResolve(x, {}, c.platform, c.overrides, c.env)
    BY <1>1, ResolverResolves
  <1> QED
    BY <1>2 DEF ShouldResolve

\* krypt's paths, for any texts, names, overrides and environments: a path is
\* resolved exactly when nothing it stands on is unknown or stands on itself,
\* and a cycle is found by the name that is being resolved already and never
\* by running on (resolve_text, resolve_var and resolve_builtin of paths.rs).
THEOREM ResolverIsRight == Spec => []ResolverSound
  <1>1. ResolverSound
    BY ResolverIsSound DEF ResolverSound
  <1> QED
    BY <1>1, PTL

=============================================================================
