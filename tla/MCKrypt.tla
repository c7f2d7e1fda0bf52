------------------------------ MODULE MCKrypt -------------------------------
(***************************************************************************)
(* Instances of Krypt for TLC: two destinations, two sources, three file   *)
(* contents (c1 and c2 versions of a source, u what a user typed).         *)
(***************************************************************************)
EXTENDS Doctor, TLC

CONSTANTS d1, d2, s1, s2, c1, c2, u, linux, windows

Link(s, d) == [src |-> s, dst |-> d, kind |-> "link", glob |-> FALSE,
               platforms |-> {linux, windows}]
Template(s, d) == [Link(s, d) EXCEPT !.kind = "template"]
Glob(s, d) == [Link(s, d) EXCEPT !.glob = TRUE]
Gated(e, pf) == [e EXCEPT !.platforms = {pf}]

\* The config grows a second entry, loses it, turns a link into a template,
\* is gated, or deploys one destination twice.
MCConfigs == {
    <<Link(s1, d1), Template(s2, d2)>>,
    <<Template(s1, d1)>>,
    <<Glob(s1, d1), Gated(Glob(s2, d2), linux)>>,
    <<Link(s1, d1), Link(s2, d1)>> }

Cmd(op, dry, force, pf) == [op |-> op, dry |-> dry, force |-> force, platform |-> pf]

\* A forced relink, which is a forced unlink and then a forced link, is dry.
MCCommands ==
    {Cmd(op, FALSE, FALSE, linux) : op \in Op}
      \cup {Cmd("link", FALSE, TRUE, linux), Cmd("unlink", FALSE, TRUE, linux),
            Cmd("relink", TRUE, TRUE, linux), Cmd("link", FALSE, FALSE, windows)}

MCAdoptions ==
    {[only |-> S, src |-> NoSrc, dry |-> FALSE, force |-> FALSE] : S \in {{}, {d1}, {d1, d2}}}
      \cup {[only |-> {d2}, src |-> s1, dry |-> FALSE, force |-> TRUE],
            [only |-> {d1, d2}, src |-> NoSrc, dry |-> TRUE, force |-> FALSE]}

\* d2 is outside $HOME.
MCHomeSrc == [d \in Dst |-> IF d = d1 THEN s1 ELSE NoSrc]

\* The user's own file may be at d1 already, or one at each place; every
\* source is there.
MCInit ==
    /\ Init
    /\ \E D \in {{}, {d1}, Dst} : disk = [d \in Dst |-> IF d \in D THEN u ELSE Absent]
    /\ \A s \in Src : repo[s] = c1

\* One destination, contended by two deploy commands, an adopt and the user.
RaceConfigs == {<<Link(s1, d1)>>, <<Template(s1, d1)>>, << >>}
RaceCommands == {Cmd(op, FALSE, FALSE, linux) : op \in Op} \cup {Cmd("unlink", FALSE, TRUE, linux)}
RaceAdoptions == {[only |-> {}, src |-> NoSrc, dry |-> FALSE, force |-> FALSE],
                  [only |-> {d1}, src |-> NoSrc, dry |-> FALSE, force |-> TRUE]}

\* One source deployed to two destinations.
SharedConfigs == {<<Link(s1, d1), Link(s1, d2)>>}

\* d1 is the user's own, and adopted.
ImportConfigs == {<<Link(s2, d2)>>}
ImportAdoptions == {[only |-> {d1}, src |-> NoSrc, dry |-> FALSE, force |-> FALSE]}

ProcSymmetry == Permutations(Proc)

MCSpec == MCInit /\ [][Next]_vars

\* The same without a crash or an I/O error.
NextUncrashed ==
    \/ UserStep
    \/ \E p \in Proc : StartCommand(p) \/ Run(p)
    \/ \E q \in Adopter : StartAdoption(q) \/ RunAdopt(q)

MCUncrashed == MCInit /\ [][NextUncrashed]_vars
=============================================================================
