------------------------------- MODULE MCDeps -------------------------------
(***************************************************************************)
(* Instances of Deps for TLC.                                              *)
(***************************************************************************)
EXTENDS Deps

(***************************************************************************)
(* Machines                                                                *)
(***************************************************************************)
Offering(os, programs, offers) ==
    [os |-> os, root |-> FALSE, programs |-> programs, aur |-> {}, addable |-> {"extras"},
     brings |-> [p \in Pkg |-> CASE p = "git" -> {"git"} [] p = "rustup" -> {"cargo"} [] OTHER -> {}],
     offers |-> [m \in Source |-> IF m \in DOMAIN offers THEN offers[m] ELSE {}]]

Crates == [cargo |-> {"crate"}]

MCHost ==
    {Offering("windows", {"scoop", "winget"},
              [scoop |-> {"git", "rustup", "term"}, winget |-> {"rustup", "term"}] @@ Crates),
     [Offering("linux", {"pacman", "curl", "sudo", "git"}, [pacman |-> {"git", "rustup"}] @@ Crates)
        EXCEPT !.aur = {"term"}],
     [Offering("linux", {"pacman", "paru", "git"}, [pacman |-> {"git", "rustup"}] @@ Crates)
        EXCEPT !.aur = {"term"}],
     Offering("linux", {"apt"}, [apt |-> {"git", "rustup"}]),
     Offering("macos", {"brew", "git"}, [brew |-> {"git", "rustup", "term"}] @@ Crates)}

(***************************************************************************)
(* Config trees                                                            *)
(***************************************************************************)
E(pkg) == [src |-> "native", pkg |-> pkg, bucket |-> NoBucket]
In(bucket, pkg) == [E(pkg) EXCEPT !.bucket = bucket]
Crate == [E("crate") EXCEPT !.src = "cargo"]

Lists(lists) == [m \in Manager |-> IF m \in DOMAIN lists THEN lists[m] ELSE << >>]
DepsGroup(name, platforms, lists) == [group |-> name, platforms |-> platforms, lists |-> Lists(lists)]

Core ==
    DepsGroup("core", {},
        [scoop |-> <<In("extras", "term"), E("rustup")>>,
         pacman |-> <<E("rustup"), E("term")>>,
         brew |-> <<In("extras", "term"), E("rustup")>>,
         apt |-> <<E("git"), E("gone")>>])
Tools ==
    DepsGroup("tools", {"all"},
        [scoop |-> <<Crate, In("fonts", "term")>>, winget |-> <<Crate>>,
         pacman |-> <<E("git"), Crate>>, brew |-> <<Crate>>])
Desktop ==
    DepsGroup("desktop", {"windows", "macos"}, [winget |-> <<E("rustup"), E("gone")>>, dnf |-> <<E("git")>>])

Plain == [include |-> << >>, name |-> "", paths |-> << >>, links |-> << >>,
          hooks |-> << >>, commands |-> << >>, deps |-> << >>]
Tree(f1, f2, f3, f4) ==
    [f \in File |-> CASE f = "f1" -> f1 [] f = "f2" -> f2 [] f = "f3" -> f3 [] f = "f4" -> f4]

Deps_(includes, groups) == [Plain EXCEPT !.include = includes, !.deps = groups]

MCHomes ==
    {Tree(Deps_(<<"f2", "f3">>, <<Core>>), Deps_(<< >>, <<Desktop>>), Deps_(<< >>, <<Tools>>), Missing),
     Tree(Deps_(<<"f2">>, << >>), Deps_(<<"f1">>, <<Core>>), Missing, Missing)}

Cmd(manager, group) == [NoCmd EXCEPT !.manager = manager, !.group = group]
MCCmds ==
    {NoCmd, Cmd("winget", NoChoice), Cmd("brew", "tools"), Cmd("choco", NoChoice),
     [NoCmd EXCEPT !.check = TRUE], [NoCmd EXCEPT !.dry = TRUE]}

(***************************************************************************)
(* Trees for loading: chains, cycles, diamonds, a file twice, one that is  *)
(* missing and ones that are not valid.                                    *)
(***************************************************************************)
Lit == [var |-> FALSE, text |-> "x"]
Var(n) == [var |-> TRUE, text |-> n]
Step(args) == [kinds |-> {"run"}, args |-> args, input |-> {}, on_fail |-> "none"]
Command(steps) == [platform |-> {"linux"}, steps |-> steps]
ALink == [src |-> TRUE, src_glob |-> FALSE, platform |-> {"linux", "macos"}]

BadFiles ==
    {Missing,
     [Plain EXCEPT !.links = <<[ALink EXCEPT !.src_glob = TRUE]>>],
     [Plain EXCEPT !.links = <<[ALink EXCEPT !.platform = {}]>>],
     [Plain EXCEPT !.hooks = << << >> >>],
     [Plain EXCEPT !.hooks = << <<Var("HOME"), Var("GONE")>> >>],
     [Plain EXCEPT !.commands = <<Command(<< >>)>>],
     [Plain EXCEPT !.commands = <<Command(<<[Step(<<Lit>>) EXCEPT !.kinds = {"run", "pipe"}]>>)>>],
     [Plain EXCEPT !.commands = <<Command(<<[Step(<<Lit, Lit, Lit>>) EXCEPT !.kinds = {"notify"}]>>)>>],
     [Plain EXCEPT !.commands = <<Command(<<[Step(<<Lit>>) EXCEPT !.on_fail = "retry"]>>)>>],
     [Plain EXCEPT !.commands = <<Command(<<[Step(<<Lit>>) EXCEPT !.input = {Var("GONE")}]>>)>>]}

Numbered(f, includes) ==
    [Plain EXCEPT !.include = includes, !.name = IF f = "f3" THEN "" ELSE f,
                  !.paths = IF f = "f4" THEN [q |-> f] ELSE [p |-> f, q |-> f],
                  !.deps = <<DepsGroup(f, {}, << >>)>>
                             \o IF f = "f4" THEN <<DepsGroup("core", {}, << >>), DepsGroup("core", {}, << >>)>>
                                ELSE << >>,
                  !.links = <<ALink>>, !.hooks = << <<Lit, Var("HOME")>> >>,
                  !.commands = <<Command(<<Step(<<Var("HOME")>>)>>)>>]

UpTo2(S) == {<< >>} \cup {<<a>> : a \in S} \cup {<<a, b>> : a \in S, b \in S}

MCIncludeCases ==
    {Tree(Numbered("f1", i1), Numbered("f2", i2), Numbered("f3", i3), f4) :
        i1 \in UpTo2({"f2", "f3"}), i2 \in UpTo2({"f3", "f4"}), i3 \in UpTo2({"f1", "f4"}),
        f4 \in {Numbered("f4", << >>), Numbered("f4", <<"f2">>), Missing}}
      \cup {Tree(Numbered("f1", <<"f2", "f4">>), Numbered("f2", i2), Numbered("f3", <<"f4">>), f4) :
        i2 \in {<< >>, <<"f3">>}, f4 \in BadFiles}
=============================================================================
