------------------------------ MODULE Include -------------------------------
(***************************************************************************)
(* Loading a .krypt.toml (krypt-core/src/include.rs and config/parse.rs):  *)
(* each file is parsed and validated, the files its globs name are merged  *)
(* into it one after the other, each with its own includes expanded, and   *)
(* at last the ${VAR}s in the steps of what came of it are resolved.       *)
(*                                                                         *)
(* A tree gives each file its contents, or Missing; `include` is what the  *)
(* globs match, sorted, a file twice if two names of it do.                *)
(***************************************************************************)
EXTENDS Lists, TLC

CONSTANTS
    File,       \* config files
    Root,       \* the one that is loaded
    Missing,    \* a name that cannot be read
    MaxDepth,   \* DEFAULT_MAX_DEPTH, 8 in the code
    KnownVar,   \* names the built-ins (without [paths]) or the environment define
    IncludeCases \* the trees to check it on

ASSUME IncludeAssumption == Root \in File /\ MaxDepth \in Nat

(***************************************************************************)
(* Validation                                                              *)
(***************************************************************************)
validate_platform(names) == names # {} /\ names \subseteq {"linux", "macos", "windows"}

validate_link(l) == l.src # l.src_glob /\ validate_platform(l.platform)

\* A step is of one kind; its args are that kind's strings.
validate_step(s) ==
    /\ Cardinality(s.kinds) = 1
    /\ "notify" \in s.kinds => Len(s.args) \in 1..2
    /\ s.on_fail \in {"none", "abort", "notify", "ignore", "prompt"}

validate(f) ==
    /\ \A l \in ToSet(f.links) : validate_link(l)
    /\ \A h \in ToSet(f.hooks) : h # << >>
    /\ \A c \in ToSet(f.commands) :
          /\ validate_platform(c.platform)
          /\ c.steps # << >> /\ \A s \in ToSet(c.steps) : validate_step(s)

(***************************************************************************)
(* Merging and expanding                                                   *)
(***************************************************************************)
Own(f) == [name |-> f.name, paths |-> f.paths, links |-> f.links,
           hooks |-> f.hooks, commands |-> f.commands, deps |-> f.deps]

merge_map(base, later) ==
    [k \in DOMAIN base \cup DOMAIN later |-> IF k \in DOMAIN later THEN later[k] ELSE base[k]]

\* Lists are appended; of a table and of the meta fields the later one wins.
merge(base, later) ==
    [name |-> IF later.name = "" THEN base.name ELSE later.name,
     paths |-> merge_map(base.paths, later.paths),
     links |-> base.links \o later.links,
     hooks |-> base.hooks \o later.hooks,
     commands |-> base.commands \o later.commands,
     deps |-> base.deps \o later.deps]

Loaded(cfg) == [err |-> "none", cfg |-> cfg]
Failed(e) == [err |-> e]

read_file(tree, f) ==
    IF tree[f] = Missing THEN Failed("Io")
    ELSE IF validate(tree[f]) THEN Loaded(Own(tree[f])) ELSE Failed("Config")

\* Mutant: the depth check counts files instead of hops.
TooDeepByOne(visited) == Len(visited) >= MaxDepth

TooDeep(visited) == Len(visited) > MaxDepth

\* The file at the end of the chain `visited` includes f, whose config is sub.
\* Only the chain is looked at for a cycle: two files may include a third.
Included(sofar, visited, f, sub) ==
    IF sofar.err # "none" THEN sofar
    ELSE IF TooDeep(visited) THEN Failed("DepthExceeded")
    ELSE IF f \in ToSet(visited) THEN Failed("Cycle")
    ELSE IF sub.err # "none" THEN sub
    ELSE Loaded(merge(sofar.cfg, sub.cfg))

\* The config of the file at the end of the chain `visited`, given those of
\* the chains that go on from it.
Chained(tree, visited, expand) ==
    LET own == read_file(tree, Last(visited))
        include == tree[Last(visited)].include
        merged[n \in 0..Len(include)] ==
            IF n = 0 THEN own
            ELSE Included(merged[n - 1], visited, include[n],
                          expand[Append(visited, include[n])])
    IN  IF own.err # "none" THEN own ELSE merged[Len(include)]

\* The chains of includes, each named by its files from the first on.
Chains == Seq(File) \ {<< >>}

expand_includes(tree) ==
    LET expand[visited \in Chains] == Chained(tree, visited, expand)
    IN  expand[<<Root>>]

\* The arguments in which a ${VAR} is resolved on loading.
Args(cfg) ==
    UNION ({ToSet(h) : h \in ToSet(cfg.hooks)}
             \cup {ToSet(s.args) \cup s.input :
                     s \in UNION {ToSet(c.steps) : c \in ToSet(cfg.commands)}})

resolve_step_vars(cfg) ==
    IF \E a \in Args(cfg) : a.var /\ a.text \notin KnownVar
    THEN Failed("UnknownStepVar") ELSE Loaded(cfg)

load_with_includes(tree) ==
    LET all == expand_includes(tree)
    IN  IF all.err # "none" THEN all ELSE resolve_step_vars(all.cfg)

(***************************************************************************)
(* What a tree stands for, by its walks: a walk is the places taken in the *)
(* includes from the root down, and the files it has come by.  The         *)
(* reference loading is checked against.                                   *)
(***************************************************************************)
Readable(tree, f) == tree[f] # Missing /\ validate(tree[f])

At(w) == Last(w.files)

\* The walk that goes on from w by its i-th include.
Further(tree, w, i) ==
    [by |-> Append(w.by, i), files |-> Append(w.files, tree[At(w)].include[i])]

\* The walks of n hops; none goes on from a file that cannot be read.
Walks(tree) ==
    LET walks[n \in 0..(MaxDepth + 1)] ==
            IF n = 0 THEN {[by |-> << >>, files |-> <<Root>>]}
            ELSE UNION {{Further(tree, w, i) : i \in DOMAIN tree[At(w)].include} :
                        w \in {v \in walks[n - 1] : Readable(tree, At(v))}}
    IN  walks

AllWalks(tree) == UNION {Walks(tree)[n] : n \in 0..MaxDepth}

\* In the order of the merge v comes before w if, from where they part, v has
\* ended or takes an earlier turn.
Precedes(v, w) ==
    \E i \in DOMAIN w.by :
        /\ \A j \in 1..(i - 1) : j \in DOMAIN v.by /\ v.by[j] = w.by[j]
        /\ i \in DOMAIN v.by => v.by[i] < w.by[i]

\* The places at which the files walked to have a group, and those of them
\* that come before p.
Places(tree, walks) == UNION {{<<w, i>> : i \in DOMAIN tree[At(w)].deps} : w \in walks}

GroupAt(tree, p) == tree[At(p[1])].deps[p[2]]

AheadOf(tree, walks, p) ==
    {q \in Places(tree, walks) : Precedes(q[1], p[1]) \/ (q[1] = p[1] /\ q[2] < p[2])}

\* A tree loads exactly when every file some walk reaches can be read, no
\* walk goes further than the limit - so none goes round in a circle - and
\* every ${VAR} of a step is known.  Then the groups of the files walked to are
\* those of the config, in the order of the walks, and a setting is the one of
\* the last walk to a file that has it.
IncludeSound(tree) ==
    LET got == load_with_includes(tree)
        walks == AllWalks(tree)
        files == {At(w) : w \in walks}
        having(k) == {w \in walks : k \in DOMAIN tree[At(w)].paths}
        last(S) == CHOOSE w \in S : \A v \in S : v = w \/ Precedes(v, w)
    IN  /\ got.err = "none" <=>
              /\ \A f \in files : Readable(tree, f)
              /\ Walks(tree)[MaxDepth + 1] = {}
              /\ \A f \in files : \A a \in Args(Own(tree[f])) : a.var => a.text \in KnownVar
        /\ got.err = "none" =>
              /\ Len(got.cfg.deps) = Cardinality(Places(tree, walks))
              /\ \A p \in Places(tree, walks) :
                    got.cfg.deps[Cardinality(AheadOf(tree, walks, p)) + 1] = GroupAt(tree, p)
              /\ DOMAIN got.cfg.paths = UNION {DOMAIN tree[f].paths : f \in files}
              /\ \A k \in DOMAIN got.cfg.paths :
                    got.cfg.paths[k] = tree[At(last(having(k)))].paths[k]
        /\ got.err = "Cycle" => \E w \in walks : ~IsInjective(w.files)
=============================================================================
