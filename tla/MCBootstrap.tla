----------------------------- MODULE MCBootstrap ----------------------------
(***************************************************************************)
(* Instances of Bootstrap for TLC.                                         *)
(***************************************************************************)
EXTENDS Bootstrap

CONSTANTS r1, r2, u1, u2

\* Texts: destinations under variables, a fallback, and overrides that are
\* circular, nested or malformed.
MCTokens ==
    LET var(n) == [is |-> "var", name |-> n]
        lit(p) == [is |-> "lit", piece |-> p]
        env(k, t) == [is |-> "env", key |-> k, or |-> t]
    IN  [t_git |-> <<var("XDG_CONFIG"), lit("git")>>,
         t_apps |-> <<var("OUT"), lit("apps")>>,
         t_env |-> <<env("ENVFILE", "t_home")>>,
         t_home |-> <<var("HOME"), lit("env")>>,
         t_out |-> <<var("HOME"), lit("out")>>,
         t_cycle |-> <<env("UNSET", NoText), var("XDG_DATA"), lit("up")>>,
         t_self |-> <<env("OUTDIR", "t_apps")>>,
         t_bad |-> <<[is |-> "bad"]>>,
         t_win |-> <<var("WIN_APPDATA"), lit("win")>>]

MCText == DOMAIN MCTokens

\* A text with a fallback is longer than the fallback.
MCLength == [t \in MCText |-> CASE t \in {"t_env", "t_self"} -> 2 [] OTHER -> 1]

MCName == {"HOME", "XDG_CONFIG", "XDG_DATA", "XDG_RUNTIME", "WIN_APPDATA", "OUT"}

MCPathCases ==
    [platform : {"linux", "windows"},
     overrides : {[HOME |-> h, OUT |-> o] : h \in {"t_cycle", "t_out", "t_env"},
                                            o \in {"t_out", "t_self", "t_bad", "t_win"}}
                   \cup {[OUT |-> o] : o \in {"t_out", "t_self", "t_bad", "t_win"}}
                   \cup {[XDG_DATA |-> "t_cycle"]},
     env : {[HOME |-> <<"me">>, OUTDIR |-> << >>], [USERPROFILE |-> <<"me">>, APPDATA |-> <<"app">>],
            [HOME |-> <<"me">>, XDG_DATA_HOME |-> <<"data">>, OUTDIR |-> <<"o">>,
             ENVFILE |-> <<"envfile">>],
            [TMPDIR |-> <<"tmp2">>]}]

MCMachine ==
    [platform |-> "linux",
     commands |-> {"swaymsg"},
     env |-> {"DISPLAY"},
     files |-> {<<"me", "out">>},
     vars |-> [HOME |-> <<"me">>],
     known |-> [user_name |-> "v1"]]

\* Where the destinations of the configs below come to be on it.
GitFile == <<"me", "XDG_CONFIG", "git">>
AppsFile == <<"me", "out", "apps">>
EnvFile == <<"me", "env">>
MCPlace == {GitFile, AppsFile, EnvFile}

Field(key) == [key |-> key, type |-> "string", optional |-> FALSE, requires |-> "none",
               read_var |-> "none", from |-> [is |-> "none"], default |-> Unset]
From(f, is, name) == [f EXCEPT !.from = [is |-> is, name |-> name]]
Reading(f) == [f EXCEPT !.read_var = f.key]
Default_(f, v) == [f EXCEPT !.default = v]

Src(holes, lines) ==
    [vals |-> [k \in Key |-> IF k \in holes THEN Hole ELSE Unset], rest |-> lines]

AnyOS == {"linux", "macos", "windows"}
Template(dst, src, prompts, platforms) ==
    [dst |-> dst, src |-> src, prompts |-> prompts, platforms |-> platforms]

Hook(id, when, atoms) == [id |-> id, when |-> when, atoms |-> atoms]
Atom(kind, arg) == [neg |-> FALSE, kind |-> kind, arg |-> arg]
Not(a) == [a EXCEPT !.neg = TRUE]

\* A git identity, Hyprland variables, an env file whose template may be
\* gone, a section for Windows only and one without a template.
MCHome ==
    [order |-> <<"apps", "env", "git", "loose", "win">>,
     fields |-> [
        git |-> <<From(Field("a"), "git", "user_name"),
                  [Field("b") EXCEPT !.requires = "a", !.optional = TRUE,
                                     !.from = [is |-> "field", name |-> "a"]]>>,
        apps |-> <<Default_(Reading(Field("a")), "v2"),
                   [Reading(Field("b")) EXCEPT !.type = "int", !.optional = TRUE]>>,
        env |-> <<[Reading(Field("a")) EXCEPT !.type = "bool"], Default_(Field("b"), "v1")>>,
        loose |-> <<[Field("a") EXCEPT !.type = "bool"]>>,
        win |-> <<Field("a")>>],
     writer |-> [git |-> "gitconfig", apps |-> "hypr_vars", env |-> "generic_template",
                 loose |-> "noop", win |-> "env"],
     templates |-> <<Template("t_git", Src({}, {"comment"}), <<"git">>, AnyOS),
                     Template("t_apps", Src({}, {}), <<"apps">>, {"linux"}),
                     Template("t_env", Src({"a"}, {"comment"}), <<"env">>, AnyOS),
                     Template("t_win", Src({"a"}, {}), <<"win">>, {"windows"})>>,
     paths |-> [OUT |-> "t_out"],
     hooks |-> <<Hook("reload", "post-setup", <<Atom("command_exists", "swaymsg"),
                                                 Not(Atom("env", "SSH"))>>),
                 Hook("files", "post-setup", <<Atom("file_exists", "t_out")>>),
                 Hook("mac", "post-setup", <<Atom("platform", "macos"), Atom("typo", "x")>>),
                 Hook("broken", "post-setup", <<Atom("file_exists", "t_win")>>)>>]

\* One env file for two sections, a required field without a default and a
\* writer no one knows.
MCOther ==
    [order |-> <<"env", "git", "loose", "odd">>,
     fields |-> [env |-> <<Default_(Field("a"), "v1")>>,
                 git |-> <<Default_(Field("b"), "v2")>>,
                 loose |-> <<Field("a")>>,
                 odd |-> <<[Field("c") EXCEPT !.optional = TRUE]>>],
     writer |-> [loose |-> "env", env |-> "env", git |-> "env", odd |-> "odd"],
     templates |-> <<Template("t_git", Src({}, {}), <<"git">>, {"macos"}),
                     Template("t_env", Src({}, {}), <<"env", "git">>, {"linux"}),
                     Template("t_apps", Src({}, {}), <<"odd">>, AnyOS)>>,
     paths |-> [OUT |-> "t_out"],
     hooks |-> <<Hook("typo", "post-instal", << >>)>>]

MCRemote == [u \in Url |-> IF u = u1 THEN MCHome ELSE MCOther]

MCInitCmds ==
    {[path |-> r1, url |-> u, bare |-> FALSE, force |-> f] : u \in Url, f \in BOOLEAN}
      \cup {[path |-> r1, url |-> NoUrl, bare |-> b, force |-> FALSE] : b \in BOOLEAN}

Opts(named, yes) == [named |-> named, yes |-> yes, dry |-> FALSE, skip_hooks |-> FALSE]
MCSetupCmds ==
    {[at |-> NoDir, opts |-> o] : o \in
        {Opts(<< >>, TRUE), Opts(<<"apps", "git">>, FALSE), Opts(<<"git", "odd">>, TRUE), Opts(<<"win">>, TRUE),
         [Opts(<<"apps">>, TRUE) EXCEPT !.dry = TRUE]}}
      \cup {[at |-> r2, opts |-> [Opts(<<"env", "git">>, TRUE) EXCEPT !.skip_hooks = TRUE]]}

\* What a user leaves: variables set by hand, unset ones, other lines, a
\* gitconfig that setup parses in part, the template as link has deployed it.
File(a, b, c, lines) ==
    [vals |-> [k \in Key |-> CASE k = "a" -> a [] k = "b" -> b [] OTHER -> c], rest |-> lines]

MCEdits ==
    [d \in MCPlace |->
        CASE d = GitFile -> {NoFile, File(Unset, "v1", "v2", {"comment"}), File(Loose, "v1", Wrapped, {})}
          [] d = AppsFile -> {NoFile, File(Unset, "v1", "v2", {"comment"}), File(Hole, Hole, Unset, {})}
          [] OTHER -> {NoFile, File("true", Unset, "v2", {})}]

\* What init is given is absent, taken or a plain file; the other directory,
\* the current one, is empty until the user puts something there.
MCInit ==
    /\ Init
    /\ dirs[r1] \in {Is("absent"), Is("other"), Is("file")}
    /\ dirs[r2] = Is("absent")

MCSpec == MCInit /\ [][Next]_vars
=============================================================================
