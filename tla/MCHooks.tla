------------------------------- MODULE MCHooks ------------------------------
(***************************************************************************)
(* Instances of Hooks for TLC.                                             *)
(***************************************************************************)
EXTENDS Hooks

CONSTANTS v, w, setup, update, linux, windows, menu, other, a1, a2

Prog(o, s) == [ops |-> o, status |-> s]

\* A filter, a program that reads to the end before it writes, one that
\* writes before it reads, and two that do not read.
MCProgram == {
    Prog(<<"read", "write", "read", "write", "read", "write">>, 0),
    Prog(<<"read", "read", "read", "read", "write", "write", "write">>, 0),
    Prog(<<"write", "write", "write", "read", "read", "read", "read">>, 0),
    Prog(<<"write", "write", "write">>, 1),
    Prog(<< >>, 0), Prog(<< >>, 1) }

Run == [kind |-> "run", argv |-> TRUE, uses |-> {}, capture |-> NoVar, gated |-> FALSE,
        on_fail |-> "abort", ignore_failure |-> FALSE]
Pipe == [Run EXCEPT !.kind = "pipe"]
Note == [Run EXCEPT !.kind = "notify"]

\* Pipelines through captures, each step failing in every way, and the
\* badly shaped steps.
MCSteplists == {
    <<[Run EXCEPT !.capture = v, !.on_fail = "ignore"], [Pipe EXCEPT !.uses = {v}, !.capture = v],
      [Note EXCEPT !.uses = {v}]>>,
    <<[Run EXCEPT !.capture = v], [Run EXCEPT !.capture = v, !.on_fail = "prompt"],
      [Pipe EXCEPT !.uses = {v, w}, !.gated = TRUE]>>,
    <<[Pipe EXCEPT !.capture = w, !.ignore_failure = TRUE, !.gated = TRUE],
      [Run EXCEPT !.uses = {w}, !.on_fail = "notify"]>>,
    <<[Note EXCEPT !.on_fail = "ignore"], [Note EXCEPT !.on_fail = "prompt"], Note>>,
    <<[Run EXCEPT !.argv = FALSE]>>, <<[Note EXCEPT !.capture = v]>> }

Hook(ph, g, i) == [when |-> ph, gated |-> g, ignore_failure |-> i]

MCHooklists == {
    << >>,
    <<Hook(update, FALSE, TRUE), Hook(setup, FALSE, FALSE), Hook(update, TRUE, FALSE)>>,
    <<Hook(update, TRUE, TRUE), Hook(update, FALSE, TRUE)>> }

Entry(g, n, gate, ss) == [group |-> g, name |-> n, gate |-> gate, steps |-> ss]

\* Each of the step lists as the one command, and every config of two
\* commands under two names or of three under one.
Short(N) == [group : {menu}, name : N, gate : SUBSET Platform, steps : {<<Note>>}]

MCCommandlists ==
    {<<Entry(other, a1, {}, ss)>> : ss \in MCSteplists}
      \cup [1..2 -> Short(Name)] \cup [1..3 -> Short({a1})]

\* One pipe step, alone.
LonePipe == {<<Entry(menu, a1, {}, <<Pipe>>)>>}
NoHooks == {}
=============================================================================
