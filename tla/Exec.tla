-------------------------------- MODULE Exec --------------------------------
(***************************************************************************)
(* RealProcessExec::exec of krypt-core/src/runner.rs: a child process, the *)
(* thread that writes its stdin, and the caller, which drains its output   *)
(* and reaps it.  The operating system's two pipes between them hold       *)
(* PipeSize units of data each; stderr is drained as stdout is: left out.  *)
(***************************************************************************)
EXTENDS Naturals, Sequences

CONSTANTS
    PipeSize,   \* units a pipe holds
    Program     \* what the spawned programs do

\* The reads and writes a program makes, one unit each, before it exits.
ProgramType == [ops : Seq({"read", "write"}), status : Nat]

ASSUME ExecAssumption == PipeSize \in Nat \ {0} /\ Program \subseteq ProgramType

VARIABLES
    exec,      \* "idle", "running", or how the call returned: "result", "error"
    ops,       \* what the child has still to do
    status,    \* its exit status
    alive,     \* whether it is running
    writer,    \* the stdin thread: none, writing, closed, or broken (EPIPE)
    left,      \* input it has still to write
    inpipe,    \* units in the stdin pipe
    outpipe,   \* units in the stdout pipe
    printed,   \* history: units the child has written
    stdout     \* units the caller has read

execVars == <<exec, ops, status, alive, writer, left, inpipe, outpipe, printed, stdout>>

ExecTypeOK ==
    /\ exec \in {"idle", "running", "result", "error"}
    /\ ops \in Seq({"read", "write"})
    /\ status \in Nat
    /\ alive \in BOOLEAN
    /\ writer \in {"none", "writing", "closed", "broken"}
    /\ left \in Nat
    /\ inpipe \in 0..PipeSize
    /\ outpipe \in 0..PipeSize
    /\ printed \in Nat /\ stdout \in Nat

ExecInit ==
    /\ exec = "idle"
    /\ ops = << >> /\ status = 0 /\ alive = FALSE
    /\ writer = "none" /\ left = 0
    /\ inpipe = 0 /\ outpipe = 0
    /\ printed = 0 /\ stdout = 0

\* The child is spawned, and a thread for its input if it is to have one.
Spawn(prog, piped, input) ==
    /\ exec' = "running"
    /\ ops' = prog.ops /\ status' = prog.status /\ alive' = TRUE
    /\ writer' = IF piped THEN "writing" ELSE "none"
    /\ left' = input
    /\ inpipe' = 0 /\ outpipe' = 0
    /\ printed' = 0 /\ stdout' = 0

(***************************************************************************)
(* The child.  Without a stdin it reads /dev/null.                         *)
(***************************************************************************)
Eof == inpipe = 0 /\ writer \in {"none", "closed"}

ChildReads ==
    /\ alive /\ ops # << >> /\ Head(ops) = "read"
    /\ inpipe > 0 \/ Eof
    /\ inpipe' = IF inpipe > 0 THEN inpipe - 1 ELSE 0
    /\ ops' = Tail(ops)
    /\ UNCHANGED <<exec, status, alive, writer, left, outpipe, printed, stdout>>

ChildWrites ==
    /\ alive /\ ops # << >> /\ Head(ops) = "write"
    /\ outpipe < PipeSize
    /\ outpipe' = outpipe + 1
    /\ printed' = printed + 1
    /\ ops' = Tail(ops)
    /\ UNCHANGED <<exec, status, alive, writer, left, inpipe, stdout>>

ChildExits ==
    /\ alive /\ ops = << >>
    /\ alive' = FALSE
    /\ UNCHANGED <<exec, ops, status, writer, left, inpipe, outpipe, printed, stdout>>

Child == ChildReads \/ ChildWrites \/ ChildExits

(***************************************************************************)
(* The stdin thread: write_all, then the pipe is dropped.                  *)
(***************************************************************************)
WriteInput ==
    /\ writer = "writing" /\ left > 0
    /\ alive /\ inpipe < PipeSize
    /\ inpipe' = inpipe + 1
    /\ left' = left - 1
    /\ UNCHANGED <<exec, ops, status, alive, writer, outpipe, printed, stdout>>

CloseInput ==
    /\ writer = "writing" /\ left = 0
    /\ writer' = "closed"
    /\ UNCHANGED <<exec, ops, status, alive, left, inpipe, outpipe, printed, stdout>>

\* Nobody is left to read what is written.
BreakInput ==
    /\ writer = "writing" /\ left > 0
    /\ ~alive
    /\ writer' = "broken"
    /\ UNCHANGED <<exec, ops, status, alive, left, inpipe, outpipe, printed, stdout>>

Writer == WriteInput \/ CloseInput \/ BreakInput

(***************************************************************************)
(* The caller: wait_with_output, then the thread is joined.                *)
(***************************************************************************)

\* Mutant: all the input is written before any output is read.
DrainAfterInput ==
    /\ exec = "running" /\ outpipe > 0
    /\ writer # "writing"
    /\ outpipe' = outpipe - 1
    /\ stdout' = stdout + 1
    /\ UNCHANGED <<exec, ops, status, alive, writer, left, inpipe, printed>>

Drain ==
    /\ exec = "running" /\ outpipe > 0
    /\ outpipe' = outpipe - 1
    /\ stdout' = stdout + 1
    /\ UNCHANGED <<exec, ops, status, alive, writer, left, inpipe, printed>>

\* Mutant: the child is reaped without reading its output to the end.
ReapEarly ==
    /\ exec = "running" /\ ~alive
    /\ writer # "writing"
    /\ exec' = IF writer = "broken" THEN "error" ELSE "result"
    /\ UNCHANGED <<ops, status, alive, writer, left, inpipe, outpipe, printed, stdout>>

\* An error of the thread is the call's, whatever the child's status.
Reap ==
    /\ exec = "running" /\ ~alive
    /\ outpipe = 0
    /\ writer # "writing"
    /\ exec' = IF writer = "broken" THEN "error" ELSE "result"
    /\ UNCHANGED <<ops, status, alive, writer, left, inpipe, outpipe, printed, stdout>>

ExecStep == Child \/ Writer \/ Drain \/ Reap
=============================================================================
