-------------------------------- MODULE Setup -------------------------------
(***************************************************************************)
(* krypt setup (krypt-core/src/setup.rs and cmd_setup of the CLI): resolve *)
(* where each prompt section's answers go, then for each section ask its   *)
(* fields one by one and write its file, then run the post-setup hooks.    *)
(* The user may edit any of the files while questions are open.            *)
(*                                                                         *)
(* A file that setup writes is its variables, each set once, and the rest  *)
(* of its lines.  A variable has a value, which may be Hole, the {{key}}   *)
(* of a template that is not filled in.  In a gitconfig it can also be     *)
(* written in ways that git reads and setup does not: Loose, by its name   *)
(* alone or under a header with more after its ], and Wrapped, over        *)
(* several lines; Cut is the first of those lines without the others.      *)
(* (What is under such a header, setup moves to the section before it,     *)
(* where no variable has its name here; a Wrapped variable ends a section  *)
(* that has no variable setup asks about.)                                 *)
(***************************************************************************)
EXTENDS Predicate, Lists

CONSTANTS
    Section,    \* prompt sections, and names that are none
    Key,        \* variables
    Val,        \* answers a string field can be given, "" aside
    Ints,       \* those an int field can be given
    Hole,
    Unset, Loose, Wrapped, Cut,
    NoFile,     \* no file there
    Line,       \* the lines of a file that set no variable, and have no =
    Place,      \* resolved destinations: values of Paths
    Machine,    \* the machine: Predicate's host, and what git: and env: defaults find
    MaxTouches  \* bound on the user's edits

Empty == "empty"
Answer == Val \cup Ints \cup {"true", "false", Empty, Hole}
Form == Answer \cup {Unset, Loose, Wrapped, Cut}
Writer == {"gitconfig", "hypr_vars", "env", "generic_template"}

FileRecord == [vals : [Key -> Form], rest : SUBSET Line]

ASSUME SetupAssumption ==
    /\ Hole \notin Val \cup Ints \cup {"true", "false", Empty}
    /\ Unset \notin Answer /\ {Loose, Wrapped} \cap (Answer \cup {Unset, Cut}) = {}
    /\ Cut \notin Answer \cup {Unset}
    /\ NoFile \notin FileRecord
    /\ Machine.known \in [DOMAIN Machine.known -> Answer \ {Empty}]
    /\ MaxTouches \in Nat

Blank == [vals |-> [k \in Key |-> Unset], rest |-> {}]
Contents(f) == IF f = NoFile THEN Blank ELSE f

(***************************************************************************)
(* The config, as far as setup reads it: `order` its sections by name,     *)
(* `fields` and `writer` of each, `templates`, `paths` and `hooks`.  A     *)
(* template's src stands for what is in it, NoFile if it is missing.       *)
(***************************************************************************)
NoPrompts == [order |-> << >>, fields |-> << >>, writer |-> << >>,
              templates |-> << >>, paths |-> << >>, hooks |-> << >>]

FieldType ==
    [key : Key, type : STRING, optional : BOOLEAN, requires : Key \cup {"none"},
     read_var : Key \cup {"none"}, default : Answer \cup {Unset},
     from : [is : {"none"}] \cup [is : {"git", "env", "field", "read_var"}, name : STRING]]
TemplateType ==
    [dst : Text, src : FileRecord \cup {NoFile}, prompts : Seq(Section), platforms : SUBSET STRING]
HookType == [id : STRING, when : STRING, atoms : Seq(AtomType)]

\* What deserializing a .krypt.toml makes of it, valid or not.
WellTyped(cfg) ==
    /\ DOMAIN cfg = DOMAIN NoPrompts
    /\ cfg.order \in Seq(Section) /\ ToSet(cfg.order) \subseteq DOMAIN cfg.fields
    /\ cfg.fields \in [DOMAIN cfg.fields -> Seq(FieldType)]
    /\ cfg.templates \in Seq(TemplateType)
    /\ cfg.hooks \in Seq(HookType)

Keys(fields) == {fields[i].key : i \in DOMAIN fields}

\* What the parser insists on; a writer it does not know passes.
validate_prompt_section(fields) ==
    /\ fields # << >>
    /\ \A i \in DOMAIN fields :
          /\ fields[i].requires \in Keys(fields) \cup {"none"}
          /\ fields[i].type \in {"string", "bool", "int"}

Valid(cfg) ==
    /\ \A s \in ToSet(cfg.order) : validate_prompt_section(cfg.fields[s])
    /\ \A i \in DOMAIN cfg.templates :
          /\ cfg.templates[i].platforms # {}
          /\ cfg.templates[i].platforms \subseteq {"linux", "macos", "windows"}

\* The templates link would deploy on this machine.
Here(cfg) == {i \in DOMAIN cfg.templates : Machine.platform \in cfg.templates[i].platforms}

Dst(cfg, i) == resolve(Machine.platform, cfg.paths, Machine.vars, cfg.templates[i].dst)

Naming(cfg, I, s) == {i \in I : s \in ToSet(cfg.templates[i].prompts)}

Wired(cfg) == {s \in Section : Naming(cfg, Here(cfg), s) # {}}

\* Of the templates that name a section the last one is its target.
TargetOf(cfg, s) == Max(Naming(cfg, Here(cfg), s))

\* Sections that only other platforms' templates name.
platform_skipped(cfg) ==
    {s \in Section : Naming(cfg, DOMAIN cfg.templates, s) # {}} \ Wired(cfg)

Resolves(cfg) == \A i \in Here(cfg) : Dst(cfg, i).err = "none"

template_targets(cfg) ==
    [dsts |-> [s \in Wired(cfg) |-> Dst(cfg, TargetOf(cfg, s)).value],
     srcs |-> [s \in Wired(cfg) |->
                 cfg.templates[TargetOf(cfg, s)].src]]

(***************************************************************************)
(* Defaults                                                                *)
(***************************************************************************)
\* A `$name = value` line of the destination, filled in or not.
read_hypr_var(f, k) ==
    IF k = "none" \/ f = NoFile \/ k \notin Key THEN Unset
    ELSE IF f.vals[k] \in Answer THEN f.vals[k] ELSE Unset

Lookup(from, collected, f) ==
    CASE from.is \in {"git", "env"} ->
            IF from.name \in DOMAIN Machine.known THEN Machine.known[from.name] ELSE Unset
      [] from.is = "field" ->
            IF from.name \in DOMAIN collected /\ collected[from.name] # Empty
            THEN collected[from.name] ELSE Unset
      [] from.is = "read_var" -> read_hypr_var(f, from.name)
      [] OTHER -> Unset

FirstOf(candidates) ==
    LET set == {i \in DOMAIN candidates : candidates[i] # Unset}
    IN  IF set = {} THEN Unset ELSE candidates[Min(set)]

\* The file's own value, then default_from, then the literal default.
resolve_default(field, collected, f) ==
    FirstOf(<<read_hypr_var(f, field.read_var), Lookup(field.from, collected, f), field.default>>)

\* Every section's file is read for defaults; the variables of a gitconfig
\* or an env file are not on such lines.
ReadBy(cfg, s, f) == IF cfg.writer[s] \in {"gitconfig", "env"} THEN NoFile ELSE f

Gated(field, collected) ==
    field.requires # "none" /\ (field.requires \in DOMAIN collected => collected[field.requires] = Empty)

\* Mutant: an int variable that is blank in the file is an error.
AnswersNoBlank(field, default, yes) ==
    CASE field.type = "int" /\ yes ->
            IF default \in Ints THEN {default}
            ELSE IF field.optional /\ default = Unset THEN {Empty} ELSE {}
      [] field.type = "bool" -> {"true", "false"}
      [] OTHER -> IF default # Unset THEN {default} ELSE {Empty}

\* The answers a field can be given: what the user types, over the default
\* if there is one, or with --yes the one the default makes.  None: a
\* required field has no default.
Answers(field, default, yes) ==
    CASE field.type = "bool" ->
            IF yes THEN {IF default = "true" THEN "true" ELSE "false"} ELSE {"true", "false"}
      [] field.type = "int" ->
            IF ~yes THEN Ints
            ELSE IF default \in Ints THEN {default}
            ELSE IF field.optional THEN {Empty} ELSE {}
      [] OTHER ->
            IF ~yes THEN Val \cup {Empty} \cup ({default} \ {Unset})
            ELSE IF default # Unset THEN {default}
            ELSE IF field.optional THEN {Empty} ELSE {}

(***************************************************************************)
(* Writers                                                                 *)
(***************************************************************************)
Overlay(vals, ans, K) == [k \in Key |-> IF k \in K THEN ans[k] ELSE vals[k]]
NonEmpty(ans) == {k \in DOMAIN ans : ans[k] # Empty}

\* Mutant: the variables the run did not ask about are dropped.
write_gitconfigAfresh(f, ans) ==
    [vals |-> Overlay(Blank.vals, ans, NonEmpty(ans)), rest |-> {}]

\* What a variable is once the file has been read line by line, for a header
\* or a `key = value`, and written anew from those.
Reparsed(v) ==
    CASE v = Loose -> Unset
      [] v = Wrapped -> Cut
      [] OTHER -> v

\* Keeps the other variables it can parse, and no other line.
write_gitconfig(f, ans) ==
    [vals |-> Overlay([k \in Key |-> Reparsed(Contents(f).vals[k])], ans, NonEmpty(ans)),
     rest |-> {}]

\* Mutant: a variable the file does not set yet is not appended.
write_hypr_varsPatch(f, ans) ==
    [vals |-> Overlay(Contents(f).vals, ans, {k \in DOMAIN ans : Contents(f).vals[k] # Unset}),
     rest |-> Contents(f).rest]

\* Patches its lines, the empty answers included, and keeps every other one.
write_hypr_vars(f, ans) ==
    [vals |-> Overlay(Contents(f).vals, ans, DOMAIN ans), rest |-> Contents(f).rest]

\* The file is these variables and nothing else.
write_env(ans) == [vals |-> Overlay(Blank.vals, ans, NonEmpty(ans)), rest |-> {}]

\* The template again, with the holes that were asked about filled in.
write_generic_template(src, ans) ==
    [src EXCEPT !.vals = Overlay(@, ans, {k \in DOMAIN ans : src.vals[k] = Hole})]

Written(writer, f, src, ans) ==
    CASE writer = "gitconfig" -> write_gitconfig(f, ans)
      [] writer = "hypr_vars" -> write_hypr_vars(f, ans)
      [] writer = "env"       -> write_env(ans)
      [] writer = "generic_template" -> write_generic_template(src, ans)

(***************************************************************************)
(* A run                                                                   *)
(***************************************************************************)
VARIABLES
    files,      \* what each target holds
    spc,        \* where the run is
    scmd,       \* its command line
    scfg,       \* the config it loaded
    targets,    \* where its sections go: dsts and srcs by section
    queue,      \* the sections still to run
    fi,         \* the field it asks next
    collected,  \* the answers to the current section
    report,     \* what it reports: sections run, files written, hooks run
    took,       \* history: the answers of every section of this run
    byHand      \* history: the targets edited since the run began

setupVars == <<files, spc, scmd, scfg, targets, queue, fi, collected, report, took, byHand>>

\* `named` are the sections of --prompts; none named, all of them.
SetupCommand == [named : Seq(Section), yes : BOOLEAN, dry : BOOLEAN, skip_hooks : BOOLEAN]
NoSetup == [named |-> << >>, yes |-> FALSE, dry |-> FALSE, skip_hooks |-> FALSE]
NoTargets == [dsts |-> << >>, srcs |-> << >>]
Report == [sections_run : Seq(Section), files_written : Seq(Place), hooks : SUBSET HookType]
NoReport == [sections_run |-> << >>, files_written |-> << >>, hooks |-> {}]
SetupTypeOK ==
    /\ files \in [Place -> FileRecord \cup {NoFile}]
    /\ spc \in {"idle", "ask", "hooks", "done"}
    /\ scmd \in SetupCommand
    /\ queue \in Seq(ToSet(scfg.order))
    /\ fi \in Nat \ {0}
    /\ DOMAIN collected \subseteq Key
    /\ \A k \in DOMAIN collected : collected[k] \in Answer
    /\ report \in Report
    /\ DOMAIN took \subseteq ToSet(scfg.order)
    /\ byHand \subseteq Place

SetupInit ==
    /\ files \in [Place -> {NoFile}]
    /\ spc = "idle" /\ scmd = NoSetup /\ scfg = NoPrompts /\ targets = NoTargets
    /\ queue = << >> /\ fi = 1 /\ collected = << >>
    /\ report = NoReport /\ took = << >> /\ byHand = {}

\* The process ends; the files stay as they are.
EndSetup ==
    /\ spc' = "idle"
    /\ scmd' = NoSetup /\ scfg' = NoPrompts /\ targets' = NoTargets
    /\ queue' = << >> /\ fi' = 1 /\ collected' = << >>
    /\ report' = NoReport /\ took' = << >> /\ byHand' = {}
    /\ UNCHANGED files

Requested(c, cfg) == IF c.named = << >> THEN cfg.order ELSE c.named

Sections(c, cfg) == Among(Requested(c, cfg), Section \ platform_skipped(cfg))

\* Mutant: one known name is enough.
NamesKnownSome(c, cfg) ==
    ToSet(Sections(c, cfg)) = {} \/ ToSet(Sections(c, cfg)) \cap ToSet(cfg.order) # {}

NamesKnown(c, cfg) == ToSet(Sections(c, cfg)) \subseteq ToSet(cfg.order)

\* The config that was found loads, every destination resolves and every
\* section asked for exists; a run that fails here has touched nothing.
StartSetup(c, cfg) ==
    /\ spc = "idle"
    /\ Valid(cfg) /\ Resolves(cfg)
    /\ NamesKnown(c, cfg)
    /\ spc' = IF Sections(c, cfg) = << >> THEN "hooks" ELSE "ask"
    /\ scmd' = c /\ scfg' = cfg
    /\ targets' = IF c.dry THEN NoTargets ELSE template_targets(cfg)
    /\ queue' = Sections(c, cfg)
    /\ UNCHANGED <<files, fi, collected, report, took, byHand>>

\* A dry run has no targets.
HasTarget(s) == s \in DOMAIN targets.dsts
Target(s) == targets.dsts[s]
OnDisk(s) == IF HasTarget(s) THEN files[Target(s)] ELSE NoFile

Current == Head(queue)
Fields == scfg.fields[Current]
Default(field) ==
    resolve_default(field, collected, ReadBy(scfg, Current, OnDisk(Current)))

\* An answer is added to those before it, or replaces the one to its key.
With(answers, key, v) ==
    [k \in DOMAIN answers \cup {key} |-> IF k = key THEN v ELSE answers[k]]

Asking == spc = "ask" /\ fi \in DOMAIN Fields

SkipField ==
    /\ Asking /\ Gated(Fields[fi], collected)
    /\ fi' = fi + 1
    /\ UNCHANGED <<files, spc, scmd, scfg, targets, queue, collected, report, took, byHand>>

AskField ==
    /\ Asking /\ ~Gated(Fields[fi], collected)
    /\ \E v \in Answers(Fields[fi], Default(Fields[fi]), scmd.yes) :
          collected' = With(collected, Fields[fi].key, v)
    /\ fi' = fi + 1
    /\ UNCHANGED <<files, spc, scmd, scfg, targets, queue, report, took, byHand>>

\* --yes finds a required field without a default: the run fails, and the
\* sections before this one stay written.
RequiredFieldHasNoDefault ==
    /\ Asking /\ ~Gated(Fields[fi], collected)
    /\ Answers(Fields[fi], Default(Fields[fi]), scmd.yes) = {}
    /\ EndSetup

Answered == spc = "ask" /\ fi \notin DOMAIN Fields
Source == targets.srcs[Current]

\* An unknown writer, or a template whose source is missing, is met only
\* here, with the questions asked.
WriteFails ==
    /\ Answered /\ HasTarget(Current)
    /\ \/ scfg.writer[Current] \notin Writer
       \/ scfg.writer[Current] = "generic_template" /\ Source = NoFile
    /\ EndSetup

\* The section's file is read again and replaced by one rename; without a
\* target the answers go nowhere.
WriteSection ==
    /\ Answered
    /\ HasTarget(Current) =>
          /\ scfg.writer[Current] \in Writer
          /\ scfg.writer[Current] = "generic_template" => Source # NoFile
    /\ files' = IF HasTarget(Current)
                THEN [files EXCEPT ![Target(Current)] =
                         Written(scfg.writer[Current], @, Source, collected)]
                ELSE files
    /\ report' = [report EXCEPT
                    !.sections_run = Append(@, Current),
                    !.files_written = IF HasTarget(Current) THEN Append(@, Target(Current)) ELSE @]
    /\ took' = With(took, Current, collected)
    /\ queue' = Tail(queue) /\ fi' = 1 /\ collected' = << >>
    /\ spc' = IF Tail(queue) = << >> THEN "hooks" ELSE "ask"
    /\ UNCHANGED <<scmd, scfg, targets, byHand>>

\* The post-setup hooks whose predicate holds; Hooks has how each one runs.
ActiveHooks(cfg) ==
    {h \in ToSet(cfg.hooks) :
        h.when = "post-setup" /\ default_predicate_evaluator(h.atoms, Machine, cfg.paths)}

RunHooks ==
    /\ spc = "hooks"
    /\ report' = [report EXCEPT !.hooks =
                     IF scmd.skip_hooks \/ scmd.dry THEN {} ELSE ActiveHooks(scfg)]
    /\ spc' = "done"
    /\ UNCHANGED <<files, scmd, scfg, targets, queue, fi, collected, took, byHand>>

\* Ctrl-C, a crash, or an I/O error: nothing is undone.
AbortSetup == spc \in {"ask", "hooks"} /\ EndSetup

SetupReturns == spc = "done" /\ EndSetup

SetupStep ==
    \/ SkipField \/ AskField \/ RequiredFieldHasNoDefault
    \/ WriteSection \/ WriteFails \/ RunHooks \/ AbortSetup \/ SetupReturns

\* The user changes a target, questions open or not.
Touch(d, f) ==
    /\ files[d] # f
    /\ files' = [files EXCEPT ![d] = f]
    /\ byHand' = IF spc = "idle" THEN {} ELSE byHand \cup {d}
    /\ UNCHANGED <<spc, scmd, scfg, targets, queue, fi, collected, report, took>>

(***************************************************************************)
(* What a run leaves                                                       *)
(***************************************************************************)

\* The answers section s got are in its file; a template without a place
\* for one has none to put it.
Landed(s) ==
    \A k \in NonEmpty(took[s]) :
        \/ /\ scfg.writer[s] = "generic_template"
           /\ targets.srcs[s].vals[k] # Hole
        \/ files[Target(s)] # NoFile /\ files[Target(s)].vals[k] = took[s][k]

Done(s) == s \in DOMAIN took /\ HasTarget(s) /\ Target(s) \notin byHand
Alone(s) == \A r \in DOMAIN targets.dsts \ {s} : Target(r) # Target(s)

\* The sections before the one a run is at, or fails at, are complete in
\* their files: one file per section, each whole, none undone.
EarlierSectionsWritten == \A s \in Section : Done(s) /\ Alone(s) => Landed(s)

\* A field that is not gated is answered with what its default makes; the
\* first that has no answer fails the section.
NextAnswer(acc, field, f) ==
    LET v == Answers(field, resolve_default(field, acc.ans, f), TRUE)
    IN  IF acc.failed \/ Gated(field, acc.ans) THEN acc
        ELSE IF v = {} THEN [failed |-> TRUE, ans |-> acc.ans]
        ELSE [failed |-> FALSE, ans |-> With(acc.ans, field.key, CHOOSE a \in v : TRUE)]

\* What --yes has answered to the first n fields of a section whose file is f.
UnattendedUpTo(cfg, s, f) ==
    LET upto[n \in 0..Len(cfg.fields[s])] ==
            IF n = 0 THEN [failed |-> FALSE, ans |-> << >>]
            ELSE NextAnswer(upto[n - 1], cfg.fields[s][n], f)
    IN  upto

Unattended(cfg, s, f) == UnattendedUpTo(cfg, s, f)[Len(cfg.fields[s])]

\* The variables of its file that a field's default is looked up in.
Reads(field) ==
    {field.read_var} \cup (IF field.from.is = "read_var" THEN {field.from.name} ELSE {})

\* A field reads no variable that another one of its section sets, and in
\* a template only its own, which the template leaves to be filled in.
OwnVariables(cfg, s, src) ==
    LET fields == cfg.fields[s]
    IN  /\ cfg.writer[s] \in {"hypr_vars", "generic_template"} =>
              \A i, j \in DOMAIN fields :
                  i # j => fields[j].key \notin {fields[i].key} \cup Reads(fields[i])
        /\ cfg.writer[s] = "generic_template" =>
              \A i \in DOMAIN fields : \A k \in Reads(fields[i]) \ {"none"} :
                  k = fields[i].key /\ src.vals[k] = Hole

\* An unattended run is stable: run again on what it left, each section
\* whose fields read their own variables answers without failing and
\* writes the very same file.
UnattendedStable ==
    spc = "done" /\ scmd.yes =>
        \A s \in Section : Done(s) /\ Alone(s) /\ OwnVariables(scfg, s, targets.srcs[s]) =>
            LET f == files[Target(s)]
                again == Unattended(scfg, s, ReadBy(scfg, s, f))
            IN  /\ ~again.failed
                /\ Written(scfg.writer[s], f, targets.srcs[s], again.ans) = f
=============================================================================
