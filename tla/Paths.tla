------------------------------- MODULE Paths --------------------------------
(***************************************************************************)
(* The path resolver of krypt-core/src/paths: ${NAME}, ${env:V} and        *)
(* ${env:V:-fallback} in a destination, the [paths] overrides, and the     *)
(* built-in variables that derive from HOME.                               *)
(*                                                                         *)
(* A text is a name for its tokens, a value the sequence of its pieces: a  *)
(* text to resolve is Tokens[t], a sequence of                             *)
(*   [is |-> "lit", piece]  [is |-> "var", name]  [is |-> "bad"]           *)
(*   [is |-> "env", key, or], `or` a text, or NoText without a fallback.   *)
(***************************************************************************)
EXTENDS Lists

CONSTANTS
    Text,     \* the texts of the config: destinations, overrides, fallbacks
    NoText,   \* an ${env:V} without a fallback
    Tokens,   \* [Text -> Seq(Token)]
    Length,   \* [Text -> Nat], their lengths
    Name,     \* the variable names in use
    PathCases \* platforms, overrides and environments to check it on

Token ==
    [is : {"lit"}, piece : STRING] \cup [is : {"bad"}] \cup [is : {"var"}, name : Name]
      \cup [is : {"env"}, key : STRING, or : Text \cup {NoText}]

\* A fallback is shorter than the text it is a part of.
ASSUME PathsAssumption ==
    /\ NoText \notin Text /\ Text \cap Name = {} /\ "HOME" \in Name
    /\ IsFiniteSet(Text) /\ IsFiniteSet(Name)
    /\ Tokens \in [Text -> Seq(Token)] /\ Length \in [Text -> Nat]
    /\ \A t \in Text : \A k \in ToSet(Tokens[t]) :
          k.is = "env" /\ k.or # NoText => Length[k.or] < Length[t]
    /\ \A c \in PathCases :
          /\ DOMAIN c.overrides \subseteq Name
          /\ \A n \in DOMAIN c.overrides : c.overrides[n] \in Text

Good(v) == [err |-> "none", value |-> v]
Bad(e) == [err |-> e, value |-> << >>]

\* How a platform defines a built-in: the environment variables it is read
\* from, the first non-empty one winning; otherwise a path under HOME, a
\* fixed one, or none.
builtin_var(n, pf) ==
    LET from(keys, else) == [keys |-> keys, else |-> else]
        win == pf = "windows"
    IN  CASE n = "HOME" -> from(IF win THEN <<"USERPROFILE">> ELSE <<"HOME">>, "none")
          [] n = "XDG_CONFIG"  -> from(<<"XDG_CONFIG_HOME">>, "home")
          [] n = "XDG_DATA"    -> from(<<"XDG_DATA_HOME">>, "home")
          [] n = "XDG_STATE"   -> from(<<"XDG_STATE_HOME">>, "home")
          [] n = "XDG_CACHE"   -> from(<<"XDG_CACHE_HOME">>, "home")
          [] n = "XDG_RUNTIME" -> from(<<"XDG_RUNTIME_DIR">> \o
                                       (IF win THEN <<"TEMP", "TMP">> ELSE <<"TMPDIR">>), "tmp")
          [] n \in {"LOCAL_BIN", "DOCUMENTS"} -> from(<< >>, "home")
          [] n = "MAC_LIBRARY" /\ pf = "macos" -> from(<< >>, "home")
          [] n = "WIN_LOCALAPPDATA" /\ win -> from(<<"LOCALAPPDATA">>, "none")
          [] n = "WIN_APPDATA" /\ win -> from(<<"APPDATA">>, "none")
          [] OTHER -> from(<< >>, "none")

\* The names that only another platform has.
WrongPlatform(n, pf) ==
    \/ n \in {"WIN_LOCALAPPDATA", "WIN_APPDATA"} /\ pf # "windows"
    \/ n = "MAC_LIBRARY" /\ pf # "macos"

IsSet(env, k) == k \in DOMAIN env /\ env[k] # << >>

FirstSet(env, keys) == Those(keys, LAMBDA k : IsSet(env, k))

\* Mutant: an unresolvable HOME is taken for an empty one.
UnderHomeAnyway(h, n) == Good(Append(h.value, n))

UnderHome(h, n) == IF h.err # "none" THEN h ELSE Good(Append(h.value, n))

\* The resolver as a function of what is resolved, a text or a name, and the
\* names being resolved around it; `expand` is that function.
resolve_var(n, around, expand) == IF n \in around THEN Bad("Cycle") ELSE expand[<<n, around>>]

resolve_expr(k, env, around, expand) ==
    IF k.is = "lit" THEN Good(<<k.piece>>)
    ELSE IF k.is = "bad" THEN Bad("Malformed")
    ELSE IF k.is = "var" THEN resolve_var(k.name, around, expand)
    ELSE IF IsSet(env, k.key) THEN Good(env[k.key])
    ELSE IF k.or = NoText THEN Good(<< >>) ELSE expand[<<k.or, around>>]

Joined(sofar, v) ==
    IF sofar.err # "none" THEN sofar
    ELSE IF v.err # "none" THEN v ELSE Good(sofar.value \o v.value)

resolve_text(t, env, around, expand) ==
    LET upto[i \in 0..Len(Tokens[t])] ==
            IF i = 0 THEN Good(<< >>)
            ELSE Joined(upto[i - 1], resolve_expr(Tokens[t][i], env, around, expand))
    IN  upto[Len(Tokens[t])]

resolve_builtin(n, pf, env, around, expand) ==
    LET b == builtin_var(n, pf)
        found == FirstSet(env, b.keys)
    IN  IF WrongPlatform(n, pf) THEN Bad("WrongPlatform")
        ELSE IF found # << >> THEN Good(env[Head(found)])
        ELSE IF b.else = "home" THEN UnderHome(resolve_var("HOME", around, expand), n)
        ELSE IF b.else = "tmp" THEN Good(<<"tmp">>)
        ELSE Bad("UnknownVar")

\* An override is tried before a built-in, and a built-in under HOME resolves
\* HOME anew, so it follows an override.
lookup_var(n, pf, overrides, env, around, expand) ==
    IF n \in DOMAIN overrides THEN expand[<<overrides[n], around>>]
    ELSE resolve_builtin(n, pf, env, around, expand)

Resolver(pf, overrides, env) ==
    LET expand[g \in (Text \cup Name) \X SUBSET Name] ==
            IF g[1] \in Text THEN resolve_text(g[1], env, g[2], expand)
            ELSE lookup_var(g[1], pf, overrides, env, g[2] \cup {g[1]}, expand)
    IN  expand

resolve(pf, overrides, env, t) == Resolver(pf, overrides, env)[<<t, {}>>]

(***************************************************************************)
(* What a name stands for, as a relation: the reference the resolver is    *)
(* checked against.                                                        *)
(***************************************************************************)
TokensOf(t) == ToSet(Tokens[t])

\* The texts and names one step away from x; those of an unused fallback are
\* not.
Uses(x, pf, overrides, env) ==
    IF x \in Text
    THEN {k.name : k \in {j \in TokensOf(x) : j.is = "var"}}
           \cup {k.or : k \in {j \in TokensOf(x) :
                                 j.is = "env" /\ ~IsSet(env, j.key) /\ j.or # NoText}}
    ELSE IF x \in DOMAIN overrides THEN {overrides[x]}
    ELSE IF /\ ~WrongPlatform(x, pf)
            /\ builtin_var(x, pf).else = "home"
            /\ FirstSet(env, builtin_var(x, pf).keys) = << >>
         THEN {"HOME"} ELSE {}

\* Everything x stands on; x itself when it stands on itself.
Reach(x, pf, overrides, env) ==
    LET step(S) == S \cup UNION {Uses(y, pf, overrides, env) : y \in S}
        reach[n \in 0..Cardinality(Text \cup Name)] ==
            IF n = 0 THEN Uses(x, pf, overrides, env) ELSE step(reach[n - 1])
    IN  reach[Cardinality(Text \cup Name)]

Broken(x, pf, overrides, env) ==
    \/ x \in Text /\ \E k \in TokensOf(x) : k.is = "bad"
    \/ /\ x \in Name \ DOMAIN overrides
       /\ \/ WrongPlatform(x, pf)
          \/ /\ builtin_var(x, pf).else = "none"
             /\ FirstSet(env, builtin_var(x, pf).keys) = << >>

\* A destination or variable resolves exactly when nothing it stands on is
\* undefined, malformed or defined in terms of itself: through overrides of
\* built-ins, built-ins under HOME and the fallbacks in use, and no others.
ResolveSound ==
    \A c \in PathCases :
        LET reach(x) == Reach(x, c.platform, c.overrides, c.env)
        IN  \A x \in Text \cup Name :
                Resolver(c.platform, c.overrides, c.env)[<<x, {}>>].err = "none"
                  <=> \A y \in {x} \cup reach(x) :
                          ~Broken(y, c.platform, c.overrides, c.env) /\ y \notin reach(y)
=============================================================================
