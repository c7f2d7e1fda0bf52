------------------------------ MODULE Predicate -----------------------------
(***************************************************************************)
(* The `if` of a hook or a step (krypt-core/src/predicate.rs): a comma-    *)
(* separated conjunction of possibly negated atoms, evaluated left to      *)
(* right.  An atom is [neg, kind, arg]; a machine what the atoms ask about *)
(* (platform, commands on PATH, environment, existing files).              *)
(***************************************************************************)
EXTENDS Paths

AtomKind == {"command_exists", "env", "platform", "file_exists"}

NoArg == "no argument"  \* nothing after the colon

AtomType == [neg : BOOLEAN, kind : STRING, arg : Text \cup STRING]

\* What one atom says, negation aside: "true", "false" or "error".  A
\* file_exists path is resolved first, with the resolver of the caller.
Verdict(b) == IF b THEN "true" ELSE "false"

eval_atom(a, host, paths) ==
    IF a.kind \notin AtomKind \/ a.arg = NoArg THEN "error"
    ELSE CASE a.kind = "command_exists" -> Verdict(a.arg \in host.commands)
           [] a.kind = "env" -> Verdict(a.arg \in host.env)
           [] a.kind = "platform" ->
                 IF a.arg \in {"linux", "macos", "windows"} THEN Verdict(a.arg = host.platform)
                 ELSE "error"
           [] a.kind = "file_exists" ->
                 LET path == resolve(host.platform, paths, host.vars, a.arg)
                 IN  IF path.err # "none" THEN "error" ELSE Verdict(path.value \in host.files)

Negated(v) == CASE v = "true" -> "false" [] v = "false" -> "true" [] OTHER -> v

\* The first atom that is not true decides; those after it are not looked at.
eval(atoms, host, paths) ==
    LET one(a) == LET v == eval_atom(a, host, paths) IN IF a.neg THEN Negated(v) ELSE v
        upto[n \in 0..Len(atoms)] ==
            IF n = 0 THEN "true"
            ELSE LET before == upto[n - 1]
                 IN  IF before = "true" THEN one(atoms[n]) ELSE before
    IN  upto[Len(atoms)]

\* A predicate that cannot be evaluated skips its hook or step.
default_predicate_evaluator(atoms, host, paths) == eval(atoms, host, paths) = "true"
=============================================================================
