------------------------------ MODULE DepsProofs -----------------------------
(***************************************************************************)
(* What is proved of krypt deps, for every set of machines, packages,      *)
(* config trees and command lines.                                         *)
(***************************************************************************)
EXTENDS DepsInv, ListProofs

(***************************************************************************)
(* Loading: whatever the tree, the groups of the config it loads to are    *)
(* groups.                                                                 *)
(***************************************************************************)
\* The steps in which a file's includes are merged into it.
MergedBy(u, tree, visited, expand) ==
    LET include == tree[Last(visited)].include
    IN  /\ u[0] = read_file(tree, Last(visited))
        /\ \A n \in 1..Len(include) :
              u[n] = Included(u[n - 1], visited, include[n], expand[Append(visited, include[n])])
        /\ Chained(tree, visited, expand) = u[Len(include)]

LEMMA MergedSteps ==
    ASSUME NEW tree, NEW visited, NEW expand,
           tree[Last(visited)].include \in Seq(File),
           read_file(tree, Last(visited)).err = "none"
    PROVE  \E u : MergedBy(u, tree, visited, expand)
  <1> DEFINE own == read_file(tree, Last(visited))
             include == tree[Last(visited)].include
             N == Len(include)
             step(x, n) == Included(x, visited, include[n], expand[Append(visited, include[n])])
             Fits(f, m) == /\ f[0] = own /\ \A i \in 1..m : f[i] = step(f[i - 1], i)
                           /\ f = [i \in 0..m |-> f[i]]
             Good == {m \in 0..N : \E f : Fits(f, m)}
  <1>0. N \in Nat
    OBVIOUS
  <1> HIDE DEF step, own
  <1>1. 0 \in Good
    <2>1. Fits([i \in 0..0 |-> own], 0)
      OBVIOUS
    <2> HIDE DEF Fits
    <2> QED
      BY <1>0, <2>1
  <1>2. ASSUME NEW m \in 1..N, m - 1 \in Good
        PROVE  m \in Good
    <2>1. PICK f : Fits(f, m - 1)
      BY <1>2
    <2> DEFINE x == step(f[m - 1], m)
               g == [i \in 0..m |-> IF i = m THEN x ELSE f[i]]
    <2>2. g[0] = own
      BY <2>1
    <2>3. ASSUME NEW i \in 1..m
          PROVE  g[i] = step(g[i - 1], i)
      <3>1. i - 1 \in 0..m /\ i - 1 # m /\ g[i - 1] = f[i - 1]
        OBVIOUS
      <3>2. CASE i = m
        BY <3>1, <3>2
      <3>3. CASE i # m
        <4>1. i \in 1..(m - 1) /\ g[i] = f[i]
          BY <3>3
        <4> QED
          BY <2>1, <3>1, <4>1
      <3> QED
        BY <3>2, <3>3
    <2>4. g = [i \in 0..m |-> g[i]]
      OBVIOUS
    <2>5. Fits(g, m)
      <3> HIDE DEF g
      <3> QED
        BY <2>2, <2>3, <2>4
    <2> HIDE DEF Fits, g
    <2> QED
      BY <2>5
  <1>3. N \in Good
    <2> HIDE DEF Good, N
    <2>1. 0..N \subseteq Good
      BY <1>0, <1>1, <1>2, Induct
    <2> QED
      BY <1>0, <2>1
  <1>4. PICK f : Fits(f, N)
    BY <1>3
  <1> DEFINE body(h) == [n \in 0..N |-> IF n = 0 THEN own ELSE step(h[n - 1], n)]
             merged == CHOOSE h : h = body(h)
  <1>5. f = body(f)
    <2>1. ASSUME NEW n \in 0..N
          PROVE  f[n] = IF n = 0 THEN own ELSE step(f[n - 1], n)
      <3>1. n = 0 \/ n \in 1..N
        OBVIOUS
      <3> QED
        BY <1>4, <3>1
    <2>2. [n \in 0..N |-> f[n]] = body(f)
      BY <2>1
    <2> QED
      BY <1>4, <2>2
  <1>6. merged = body(merged)
    <2> HIDE DEF body
    <2> QED
      BY <1>5
  <1>7. Chained(tree, visited, expand) = merged[N]
    BY DEF Chained, own, step
  <1> HIDE DEF merged
  <1>8. merged[0] = own /\ \A n \in 1..N : merged[n] = step(merged[n - 1], n)
    BY <1>0, <1>6
  <1>9. MergedBy(merged, tree, visited, expand)
    BY <1>7, <1>8 DEF MergedBy, own, step
  <1> QED
    BY <1>9

\* It depends on the config of the chains one hop longer only, and at the
\* depth limit on no other.
LEMMA ChainedLocal ==
    ASSUME NEW tree, NEW visited, NEW x, NEW y,
           read_file(tree, Last(visited)).err = "none" =>
               tree[Last(visited)].include \in Seq(File),
           \/ TooDeep(visited)
           \/ \A f \in File : x[Append(visited, f)] = y[Append(visited, f)]
    PROVE  Chained(tree, visited, x) = Chained(tree, visited, y)
  <1> DEFINE own == read_file(tree, Last(visited))
             include == tree[Last(visited)].include
             N == Len(include)
  <1>1. CASE own.err # "none"
    BY <1>1 DEF Chained
  <1>2. CASE own.err = "none"
    <2>0. include \in Seq(File) /\ N \in Nat
      BY <1>2
    <2>1. PICK u : MergedBy(u, tree, visited, x)
      BY <1>2, <2>0, MergedSteps
    <2>2. PICK v : MergedBy(v, tree, visited, y)
      BY <1>2, <2>0, MergedSteps
    <2> DEFINE step(h, z, n) == Included(z, visited, include[n], h[Append(visited, include[n])])
               G == {n \in 0..N : u[n] = v[n]}
    <2>3. /\ u[0] = own /\ v[0] = own
          /\ \A n \in 1..N : u[n] = step(x, u[n - 1], n)
          /\ \A n \in 1..N : v[n] = step(y, v[n - 1], n)
          /\ Chained(tree, visited, x) = u[N] /\ Chained(tree, visited, y) = v[N]
      BY <2>1, <2>2 DEF MergedBy
    <2>4. ASSUME NEW n \in 1..N, NEW z
          PROVE  step(x, z, n) = step(y, z, n)
      <3>1. include[n] \in File
        BY <2>0
      <3>2. CASE TooDeep(visited)
        BY <3>2 DEF Included
      <3>3. CASE ~TooDeep(visited)
        BY <3>1, <3>3
      <3> QED
        BY <3>2, <3>3
    <2> HIDE DEF step
    <2>5. 0 \in G
      BY <2>0, <2>3
    <2>6. ASSUME NEW n \in 1..N, n - 1 \in G
          PROVE  n \in G
      <3>1. n \in 0..N /\ u[n - 1] = v[n - 1]
        BY <2>0, <2>6
      <3>2. step(x, u[n - 1], n) = step(y, u[n - 1], n)
        BY <2>4
      <3> QED
        BY <2>3, <3>1, <3>2
    <2>7. N \in G
      <3> HIDE DEF G, N
      <3>1. 0..N \subseteq G
        BY <2>0, <2>5, <2>6, Induct
      <3> QED
        BY <2>0, <3>1
    <2> QED
      BY <2>3, <2>7
  <1> QED
    BY <1>1, <1>2

\* A config that has been loaded lists groups.
Typed(got) == got.err = "none" => got.cfg.deps \in Seq(Group)

LEMMA IncludedTyped ==
    ASSUME NEW sofar, NEW visited, NEW f, NEW sub,
           Typed(sofar), TooDeep(visited) \/ Typed(sub)
    PROVE  Typed(Included(sofar, visited, f, sub))
  <1>1. CASE sofar.err # "none"
    BY <1>1 DEF Included
  <1>2. CASE sofar.err = "none"
    <2> DEFINE got == Included(sofar, visited, f, sub)
    <2>1. \A e : Failed(e).err = e
      BY DEF Failed
    <2>2. CASE TooDeep(visited)
      BY <1>2, <2>1, <2>2 DEF Included, Typed
    <2>3. CASE ~TooDeep(visited) /\ f \in ToSet(visited)
      BY <1>2, <2>1, <2>3 DEF Included, Typed
    <2>4. CASE ~TooDeep(visited) /\ f \notin ToSet(visited) /\ sub.err # "none"
      BY <1>2, <2>4 DEF Included, Typed
    <2>5. CASE ~TooDeep(visited) /\ f \notin ToSet(visited) /\ sub.err = "none"
      <3>1. got = Loaded(merge(sofar.cfg, sub.cfg))
        BY <1>2, <2>5 DEF Included
      <3>2. got.cfg.deps = sofar.cfg.deps \o sub.cfg.deps
        <4> DEFINE c == merge(sofar.cfg, sub.cfg)
        <4>1. c.deps = sofar.cfg.deps \o sub.cfg.deps
          <5> HIDE DEF got
          <5> QED
            BY DEF merge
        <4> HIDE DEF c
        <4>2. got.cfg = c
          BY <3>1 DEF Loaded, c
        <4> QED
          BY <4>1, <4>2
      <3>3. sofar.cfg.deps \in Seq(Group) /\ sub.cfg.deps \in Seq(Group)
        BY <1>2, <2>5 DEF Typed
      <3>4. got.cfg.deps \in Seq(Group)
        <4> DEFINE a == sofar.cfg.deps
                   b == sub.cfg.deps
        <4>1. a \in Seq(Group) /\ b \in Seq(Group)
          BY <3>3
        <4> HIDE DEF a, b
        <4>2. a \o b \in Seq(Group)
          BY <4>1, ConcatProperties
        <4> QED
          BY <3>2, <4>2 DEF a, b
      <3> QED
        BY <3>4 DEF Typed
    <2> QED
      BY <2>2, <2>3, <2>4, <2>5
  <1> QED
    BY <1>1, <1>2

LEMMA ChainedTyped ==
    ASSUME NEW tree, NEW visited, NEW expand,
           Typed(read_file(tree, Last(visited))),
           read_file(tree, Last(visited)).err = "none" =>
               tree[Last(visited)].include \in Seq(File),
           \/ TooDeep(visited)
           \/ \A f \in File : Typed(expand[Append(visited, f)])
    PROVE  Typed(Chained(tree, visited, expand))
  <1> DEFINE own == read_file(tree, Last(visited))
             include == tree[Last(visited)].include
             N == Len(include)
             sub(n) == expand[Append(visited, include[n])]
  <1>1. CASE own.err # "none"
    BY <1>1 DEF Chained
  <1>2. CASE own.err = "none"
    <2>0. include \in Seq(File) /\ N \in Nat
      BY <1>2
    <2>1. PICK u : MergedBy(u, tree, visited, expand)
      BY <1>2, <2>0, MergedSteps
    <2> DEFINE G == {n \in 0..N : Typed(u[n])}
    <2>2. /\ u[0] = own
          /\ \A n \in 1..N : u[n] = Included(u[n - 1], visited, include[n], sub(n))
          /\ Chained(tree, visited, expand) = u[N]
      BY <2>1 DEF MergedBy
    <2>3. 0 \in G
      BY <2>0, <2>2
    <2>4. ASSUME NEW n \in 1..N, n - 1 \in G
          PROVE  n \in G
      <3>1. include[n] \in File /\ n \in 0..N /\ Typed(u[n - 1])
        BY <2>0, <2>4
      <3>2. TooDeep(visited) \/ Typed(sub(n))
        BY <3>1
      <3> DEFINE z == u[n - 1]
                 s == sub(n)
                 f == include[n]
      <3>3. u[n] = Included(z, visited, f, s)
        BY <2>2
      <3>4. Typed(z) /\ (TooDeep(visited) \/ Typed(s))
        BY <3>1, <3>2
      <3> HIDE DEF z, s, f, sub
      <3>5. Typed(Included(z, visited, f, s))
        BY <3>4, IncludedTyped
      <3> QED
        BY <3>1, <3>3, <3>5
    <2>5. N \in G
      <3> HIDE DEF G, N, sub
      <3>1. 0..N \subseteq G
        BY <2>0, <2>3, <2>4, Induct
      <3> QED
        BY <2>0, <3>1
    <2> QED
      BY <2>2, <2>5
  <1> QED
    BY <1>1, <1>2

\* Every file a tree has includes files and lists groups.
Plain_(tree) ==
    \A f \in File :
        tree[f] # Missing => tree[f].include \in Seq(File) /\ tree[f].deps \in Seq(Group)

LEMMA OwnTyped ==
    ASSUME NEW tree, Plain_(tree), NEW visited \in Chains
    PROVE  /\ Typed(read_file(tree, Last(visited)))
           /\ read_file(tree, Last(visited)).err = "none" =>
                  tree[Last(visited)].include \in Seq(File)
  <1> DEFINE f == Last(visited)
  <1>1. f \in File
    BY DEF Chains, Last
  <1> HIDE DEF f
  <1>2. CASE tree[f] = Missing
    BY <1>2 DEF read_file, Failed, Typed, f
  <1>3. CASE tree[f] # Missing /\ ~validate(tree[f])
    BY <1>3 DEF read_file, Failed, Typed, f
  <1>4. CASE tree[f] # Missing /\ validate(tree[f])
    <2>1. read_file(tree, f) = Loaded(Own(tree[f]))
      BY <1>4 DEF read_file
    <2>2. Own(tree[f]).deps = tree[f].deps
      BY DEF Own
    <2>3. Typed(read_file(tree, f))
      BY <1>1, <1>4, <2>1, <2>2 DEF Loaded, Typed, Plain_
    <2> QED
      BY <1>1, <1>4, <2>3 DEF Plain_, f
  <1> QED
    BY <1>2, <1>3, <1>4

LEMMA ChainOn ==
    ASSUME NEW visited \in Chains, NEW f \in File
    PROVE  /\ Append(visited, f) \in Chains
           /\ Len(visited) \in Nat /\ Len(visited) >= 1
           /\ Len(Append(visited, f)) = Len(visited) + 1
  BY AppendProperties, EmptySeq DEF Chains

\* expand_includes is defined on every chain: at the depth limit it does not
\* look further, and up to there each length rests on the next.
LEMMA ExpandExists ==
    ASSUME NEW tree, Plain_(tree)
    PROVE  \E x : x = [visited \in Chains |-> Chained(tree, visited, x)]
  <1> DEFINE N == MaxDepth
             Fits(x, l) == /\ x = [v \in Chains |-> x[v]]
                           /\ \A v \in Chains : Len(v) > l => x[v] = Chained(tree, v, x)
             Good == {n \in 0..N : \E x : Fits(x, N - n)}
  <1>0. N \in Nat
    BY IncludeAssumption
  <1>1. 0 \in Good
    <2> DEFINE x == [v \in Chains |-> Chained(tree, v, << >>)]
    <2>1. ASSUME NEW v \in Chains, Len(v) > N
          PROVE  Chained(tree, v, << >>) = Chained(tree, v, x)
      <3>1. TooDeep(v)
        BY <2>1 DEF TooDeep
      <3> HIDE DEF x
      <3> QED
        BY <3>1, OwnTyped, ChainedLocal
    <2>2. x = [v \in Chains |-> x[v]]
      OBVIOUS
    <2>3. Fits(x, N)
      <3>1. \A v \in Chains : Len(v) > N => x[v] = Chained(tree, v, x)
        BY <2>1
      <3> HIDE DEF x
      <3> QED
        BY <2>2, <3>1
    <2>4. N - 0 = N /\ 0 \in 0..N
      BY <1>0
    <2> HIDE DEF Fits, x
    <2>5. Fits(x, N - 0)
      BY <2>3, <2>4
    <2> QED
      BY <2>4, <2>5
  <1>2. ASSUME NEW n \in 1..N, n - 1 \in Good
        PROVE  n \in Good
    <2> DEFINE l == N - n
    <2>0. l \in Nat /\ l + 1 = N - (n - 1)
      BY <1>0
    <2>1. PICK x : Fits(x, l + 1)
      BY <1>2, <2>0
    <2> DEFINE y == [v \in Chains |-> IF Len(v) = l + 1 THEN Chained(tree, v, x) ELSE x[v]]
    <2>2. ASSUME NEW v \in Chains, Len(v) > l
          PROVE  y[v] = Chained(tree, v, y)
      <3>1. \A f \in File : x[Append(v, f)] = y[Append(v, f)]
        <4> TAKE f \in File
        <4>1. /\ Append(v, f) \in Chains /\ Len(v) \in Nat
              /\ Len(Append(v, f)) = Len(v) + 1
          BY ChainOn
        <4>2. Len(Append(v, f)) # l + 1
          BY <2>0, <2>2, <4>1
        <4> QED
          BY <4>1, <4>2
      <3>2. Chained(tree, v, x) = Chained(tree, v, y)
        <4> HIDE DEF y
        <4> QED
          BY <3>1, OwnTyped, ChainedLocal
      <3>3. y[v] = Chained(tree, v, x)
        <4>1. CASE Len(v) = l + 1
          BY <4>1
        <4>2. CASE Len(v) # l + 1
          <5>1. Len(v) \in Nat
            BY DEF Chains
          <5>2. Len(v) > l + 1
            BY <2>0, <2>2, <4>2, <5>1
          <5> QED
            BY <2>1, <4>2, <5>2
        <4> QED
          BY <4>1, <4>2
      <3> QED
        BY <3>2, <3>3
    <2>3. Fits(y, l)
      <3>1. y = [v \in Chains |-> y[v]]
        OBVIOUS
      <3> HIDE DEF y
      <3> QED
        BY <2>2, <3>1
    <2> HIDE DEF Fits, y
    <2>4. \E z : Fits(z, N - n)
      BY <2>3
    <2> QED
      BY <1>0, <2>4
  <1>3. N \in Good
    <2> HIDE DEF Good, N
    <2>1. 0..N \subseteq Good
      BY <1>0, <1>1, <1>2, Induct
    <2> QED
      BY <1>0, <2>1
  <1>4. PICK x : Fits(x, 0)
    BY <1>0, <1>3
  <1>5. \A v \in Chains : x[v] = Chained(tree, v, x)
    <2> TAKE v \in Chains
    <2>1. Len(v) > 0
      BY EmptySeq DEF Chains
    <2> QED
      BY <1>4, <2>1
  <1>6. x = [v \in Chains |-> Chained(tree, v, x)]
    BY <1>4, <1>5
  <1> QED
    BY <1>6

LEMMA ExpandTyped ==
    ASSUME NEW tree, Plain_(tree)
    PROVE  Typed(expand_includes(tree))
  <1> DEFINE body(h) == [v \in Chains |-> Chained(tree, v, h)]
             x == CHOOSE h : h = body(h)
             N == MaxDepth
             G == {n \in 0..N : \A v \in Chains : Len(v) > N - n => Typed(x[v])}
  <1>0. N \in Nat
    BY IncludeAssumption
  <1>1. x = body(x)
    <2>1. \E h : h = body(h)
      BY ExpandExists
    <2> HIDE DEF body
    <2> QED
      BY <2>1
  <1>2. expand_includes(tree) = x[<<Root>>]
    BY DEF expand_includes
  <1> HIDE DEF x
  <1>3. \A v \in Chains : x[v] = Chained(tree, v, x)
    BY <1>1
  <1>4. 0 \in G
    <2>1. ASSUME NEW v \in Chains, Len(v) > N - 0
          PROVE  Typed(x[v])
      <3>1. TooDeep(v)
        BY <1>0, <2>1 DEF TooDeep
      <3>2. Typed(Chained(tree, v, x))
        BY <3>1, OwnTyped, ChainedTyped
      <3> QED
        BY <1>3, <3>2
    <2> QED
      BY <1>0, <2>1
  <1>5. ASSUME NEW n \in 1..N, n - 1 \in G
        PROVE  n \in G
    <2>1. ASSUME NEW v \in Chains, Len(v) > N - n
          PROVE  Typed(x[v])
      <3>1. \A f \in File : Typed(x[Append(v, f)])
        <4> TAKE f \in File
        <4>1. /\ Append(v, f) \in Chains /\ Len(v) \in Nat
              /\ Len(Append(v, f)) = Len(v) + 1
          BY ChainOn
        <4>2. Len(Append(v, f)) > N - (n - 1)
          BY <1>0, <2>1, <4>1
        <4> QED
          BY <1>5, <4>1, <4>2
      <3>2. Typed(Chained(tree, v, x))
        BY <3>1, OwnTyped, ChainedTyped
      <3> QED
        BY <1>3, <3>2
    <2> QED
      BY <1>0, <2>1
  <1>6. N \in G
    <2> HIDE DEF G, N
    <2>1. 0..N \subseteq G
      BY <1>0, <1>4, <1>5, Induct
    <2> QED
      BY <1>0, <2>1
  <1>7. <<Root>> \in Chains /\ Len(<<Root>>) > N - N
    BY <1>0, IncludeAssumption DEF Chains
  <1> QED
    BY <1>2, <1>6, <1>7

LEMMA LoadedTyped ==
    ASSUME NEW tree \in Homes, load_with_includes(tree).err = "none"
    PROVE  load_with_includes(tree).cfg.deps \in Seq(Group)
  <1> DEFINE all == expand_includes(tree)
  <1>1. Typed(all)
    BY DepsAssumption, ExpandTyped DEF Plain_
  <1> HIDE DEF all
  <1>2. CASE all.err # "none"
    BY <1>2 DEF load_with_includes, all
  <1>3. CASE all.err = "none"
    <2>1. load_with_includes(tree) = resolve_step_vars(all.cfg)
      BY <1>3 DEF load_with_includes, all
    <2>2. resolve_step_vars(all.cfg) \in {Failed("UnknownStepVar"), Loaded(all.cfg)}
      BY DEF resolve_step_vars
    <2>3. Failed("UnknownStepVar").err # "none" /\ Loaded(all.cfg).cfg = all.cfg
      BY DEF Failed, Loaded
    <2>4. load_with_includes(tree).cfg = all.cfg
      BY <2>1, <2>2, <2>3
    <2> QED
      BY <1>1, <1>3, <2>4 DEF Typed
  <1> QED
    BY <1>2, <1>3

(***************************************************************************)
(* Loading: walks and the chains of the recursion                          *)
(***************************************************************************)
Listed(tree) ==
    \A f \in File :
        tree[f] # Missing =>
            /\ tree[f].include \in Seq(File) /\ tree[f].deps \in Seq(Group)
            /\ tree[f].hooks \in Seq(ToSet(tree[f].hooks))
            /\ tree[f].commands \in Seq(ToSet(tree[f].commands))

Walk == [by : Seq(Nat), files : Seq(File)]
Home == [by |-> << >>, files |-> <<Root>>]

\* One hop more of each of S that ends in a file that can be read.
Hops(tree, S) ==
    UNION {{Further(tree, w, i) : i \in DOMAIN tree[At(w)].include} :
           w \in {v \in S : Readable(tree, At(v))}}

IsWalk(tree, w) ==
    /\ w \in Walk /\ Len(w.files) = Len(w.by) + 1 /\ w.files[1] = Root
    /\ \A i \in 1..Len(w.by) :
          /\ Readable(tree, w.files[i])
          /\ w.by[i] \in DOMAIN tree[w.files[i]].include
          /\ w.files[i + 1] = tree[w.files[i]].include[w.by[i]]

LEMMA WalkFields ==
    ASSUME NEW w \in Walk
    PROVE  /\ w.by \in Seq(Nat) /\ w.files \in Seq(File)
           /\ Len(w.by) \in Nat /\ Len(w.files) \in Nat
           /\ w = [by |-> w.by, files |-> w.files]
  BY DEF Walk

\* v goes one hop on from w.
Hop(tree, w, i, v) ==
    /\ At(w) \in File /\ At(w) = w.files[Len(w.files)]
    /\ tree[At(w)].include \in Seq(File) /\ i \in Nat
    /\ v \in Walk /\ Len(v.by) = Len(w.by) + 1 /\ Len(v.files) = Len(w.files) + 1
    /\ v.files = Append(w.files, tree[At(w)].include[i])
    /\ \A j \in 1..Len(w.by) : v.by[j] = w.by[j]
    /\ v.by[Len(w.by) + 1] = i
    /\ \A j \in 1..Len(w.files) : v.files[j] = w.files[j]
    /\ v.files[Len(w.files) + 1] = tree[At(w)].include[i]
    /\ At(v) = tree[At(w)].include[i]

LEMMA FurtherIs ==
    ASSUME NEW tree, Listed(tree), NEW w \in Walk, Len(w.files) = Len(w.by) + 1,
           Readable(tree, At(w)), NEW i \in DOMAIN tree[At(w)].include
    PROVE  Hop(tree, w, i, Further(tree, w, i))
  <1> DEFINE f == tree[At(w)].include[i]
             b == Append(w.by, i)
             c == Append(w.files, f)
  <1>1. /\ At(w) \in File
        /\ At(w) = w.files[Len(w.files)]
    BY WalkFields DEF At, Last
  <1>2. tree[At(w)].include \in Seq(File)
    BY <1>1 DEF Readable, Listed
  <1>3. i \in Nat /\ f \in File
    BY <1>2
  <1>4. Further(tree, w, i) = [by |-> b, files |-> c]
    BY DEF Further
  <1>5. b \in Seq(Nat) /\ Len(b) = Len(w.by) + 1 /\ b[Len(w.by) + 1] = i
        /\ \A j \in 1..Len(w.by) : b[j] = w.by[j]
    BY <1>3, WalkFields, AppendProperties
  <1> HIDE DEF f
  <1>6. c \in Seq(File) /\ Len(c) = Len(w.files) + 1 /\ c[Len(w.files) + 1] = f
        /\ \A j \in 1..Len(w.files) : c[j] = w.files[j]
    BY <1>3, WalkFields, AppendProperties
  <1> HIDE DEF b, c
  <1>7. /\ Further(tree, w, i) \in Walk
        /\ Further(tree, w, i).by = b
        /\ Further(tree, w, i).files = c
    BY <1>4, <1>5, <1>6 DEF Walk
  <1>8. At(Further(tree, w, i)) = f
    BY <1>6, <1>7 DEF At, Last
  <1> QED
    BY <1>1, <1>2, <1>3, <1>5, <1>6, <1>7, <1>8 DEF f, c, Hop

LEMMA WalksSteps ==
    ASSUME NEW tree, Listed(tree)
    PROVE  /\ Walks(tree)[0] = {Home}
           /\ \A n \in 1..(MaxDepth + 1) : Walks(tree)[n] = Hops(tree, Walks(tree)[n - 1])
  <1> DEFINE N == MaxDepth + 1
             W == {w \in Walk : Len(w.files) = Len(w.by) + 1}
             D == SUBSET W
             step == [n \in 1..N |-> [S \in D |-> Hops(tree, S)]]
             body(h) == [n \in 0..N |-> IF n = 0 THEN {Home} ELSE Hops(tree, h[n - 1])]
  <1>0. N \in Nat
    BY IncludeAssumption
  <1>1. {Home} \in D
    <2>1. Home \in Walk
      BY IncludeAssumption DEF Home, Walk
    <2>2. Len(Home.files) = Len(Home.by) + 1
      BY DEF Home
    <2> QED
      BY <2>1, <2>2
  <1>2. ASSUME NEW S \in D
        PROVE  Hops(tree, S) \in D
    <2> SUFFICES ASSUME NEW w \in S, Readable(tree, At(w)), NEW i \in DOMAIN tree[At(w)].include
                 PROVE  Further(tree, w, i) \in W
      BY DEF Hops
    <2>1. w \in Walk /\ Len(w.files) = Len(w.by) + 1 /\ Len(w.by) \in Nat
      BY WalkFields
    <2>2. Hop(tree, w, i, Further(tree, w, i))
      BY <2>1, FurtherIs
    <2> QED
      BY <2>1, <2>2 DEF Hop
  <1>3. step \in Steps(N, D)
    <2> HIDE DEF D
    <2> QED
      BY <1>2 DEF Steps
  <1>4. PICK f \in [0..N -> D] : f[0] = {Home} /\ \A n \in 1..N : f[n] = step[n][f[n - 1]]
    <2> HIDE DEF D, step, N
    <2> QED
      BY <1>0, <1>1, <1>3, Recursion DEF Iterates
  <1>5. f = body(f)
    <2>1. \A n \in 1..N : f[n] = Hops(tree, f[n - 1])
      <3> TAKE n \in 1..N
      <3>1. f[n - 1] \in D
        BY <1>0, <1>4
      <3> HIDE DEF D
      <3> QED
        BY <1>4, <3>1
    <2>2. ASSUME NEW n \in 0..N
          PROVE  f[n] = IF n = 0 THEN {Home} ELSE Hops(tree, f[n - 1])
      <3>1. n = 0 \/ n \in 1..N
        BY <1>0
      <3> QED
        BY <1>4, <2>1, <3>1
    <2> HIDE DEF D
    <2> QED
      BY <2>2, <1>4
  <1> DEFINE x == CHOOSE h : h = body(h)
  <1>6. x = body(x)
    <2> HIDE DEF body
    <2> QED
      BY <1>5
  <1>7. Walks(tree) = x
    BY DEF Walks, Hops, Home
  <1> HIDE DEF x
  <1>8. x[0] = {Home}
    BY <1>0, <1>6
  <1>9. ASSUME NEW n \in 1..N
        PROVE  x[n] = Hops(tree, x[n - 1])
    <2>1. n \in 0..N /\ n # 0
      BY <1>0
    <2> QED
      BY <1>6, <2>1
  <1> QED
    BY <1>7, <1>8, <1>9

LEMMA WalksAre ==
    ASSUME NEW tree, Listed(tree)
    PROVE  \A n \in 0..(MaxDepth + 1) : \A w :
              w \in Walks(tree)[n] <=> IsWalk(tree, w) /\ Len(w.by) = n
  <1> DEFINE N == MaxDepth + 1
             Are(n) == \A w : w \in Walks(tree)[n] <=> IsWalk(tree, w) /\ Len(w.by) = n
             G == {n \in 0..N : Are(n)}
  <1>0. N \in Nat
    BY IncludeAssumption
  <1>1. 0 \in G
    <2>1. ASSUME NEW w, IsWalk(tree, w), Len(w.by) = 0
          PROVE  w = Home
      <3>1. w \in Walk /\ Len(w.files) = 1 /\ w.files[1] = Root
        BY <2>1 DEF IsWalk
      <3>2. w.by = << >> /\ w.files = <<Root>>
        BY <2>1, <3>1, WalkFields
      <3> QED
        BY <3>1, <3>2, WalkFields DEF Home
    <2>2. IsWalk(tree, Home) /\ Len(Home.by) = 0
      <3>1. Home \in Walk
        BY IncludeAssumption DEF Home, Walk
      <3>2. Len(Home.by) = 0 /\ Len(Home.files) = 1 /\ Home.files[1] = Root
        BY DEF Home
      <3> QED
        BY <3>1, <3>2 DEF IsWalk
    <2>3. Walks(tree)[0] = {Home}
      BY WalksSteps
    <2> QED
      BY <1>0, <2>1, <2>2, <2>3
  <1>2. ASSUME NEW n \in 1..N, n - 1 \in G
        PROVE  n \in G
    <2>0. /\ Walks(tree)[n] = Hops(tree, Walks(tree)[n - 1])
          /\ Are(n - 1)
          /\ n \in Nat
      BY <1>2, WalksSteps
    <2>1. ASSUME NEW w, IsWalk(tree, w), Len(w.by) = n - 1, Readable(tree, At(w)),
                 NEW i \in DOMAIN tree[At(w)].include
          PROVE  IsWalk(tree, Further(tree, w, i)) /\ Len(Further(tree, w, i).by) = n
      <3> DEFINE v == Further(tree, w, i)
      <3>1. /\ w \in Walk
            /\ Len(w.files) = Len(w.by) + 1
            /\ w.files[1] = Root
        BY <2>1 DEF IsWalk
      <3>2. /\ v \in Walk /\ Len(v.by) = n /\ Len(v.files) = n + 1
            /\ \A j \in 1..(n - 1) : v.by[j] = w.by[j]
            /\ v.by[n] = i
            /\ \A j \in 1..n : v.files[j] = w.files[j]
            /\ v.files[n + 1] = tree[At(w)].include[i]
            /\ At(w) = w.files[n]
        <4> DEFINE l == Len(w.by)
                   m == Len(w.files)
        <4>0. Hop(tree, w, i, v)
          BY <2>1, <3>1, FurtherIs
        <4>1. /\ v \in Walk /\ Len(v.by) = l + 1 /\ Len(v.files) = m + 1
              /\ \A j \in 1..l : v.by[j] = w.by[j]
              /\ v.by[l + 1] = i
              /\ \A j \in 1..m : v.files[j] = w.files[j]
              /\ v.files[m + 1] = tree[At(w)].include[i]
              /\ At(w) = w.files[m]
          <5> HIDE DEF v
          <5> QED
            BY <4>0 DEF Hop
        <4>2. l = n - 1 /\ l + 1 = n /\ m = n
          BY <2>0, <2>1, <3>1
        <4> HIDE DEF v, l, m
        <4> QED
          BY <4>1, <4>2
      <3> HIDE DEF v
      <3>3. ASSUME NEW j \in 1..Len(v.by)
            PROVE  /\ Readable(tree, v.files[j])
                   /\ v.by[j] \in DOMAIN tree[v.files[j]].include
                   /\ v.files[j + 1] = tree[v.files[j]].include[v.by[j]]
        <4>1. CASE j = n
          <5>1. v.files[j] = At(w) /\ v.by[j] = i /\ v.files[j + 1] = tree[At(w)].include[i]
            BY <2>0, <3>2, <4>1
          <5> QED
            BY <2>1, <5>1
        <4>2. CASE j # n
          <5>1. /\ j \in 1..(n - 1) /\ j \in 1..n /\ j + 1 \in 1..n
                /\ j \in 1..Len(w.by)
            BY <2>0, <2>1, <3>2, <4>2
          <5>2. /\ v.files[j] = w.files[j] /\ v.by[j] = w.by[j]
                /\ v.files[j + 1] = w.files[j + 1]
            BY <3>2, <5>1
          <5> QED
            BY <2>1, <5>1, <5>2 DEF IsWalk
        <4> QED
          BY <4>1, <4>2
      <3>4. v.files[1] = Root
        BY <2>0, <3>1, <3>2
      <3>5. IsWalk(tree, v)
        BY <3>2, <3>3, <3>4 DEF IsWalk
      <3> QED
        BY <3>2, <3>5 DEF v
    <2>2. ASSUME NEW v, IsWalk(tree, v), Len(v.by) = n
          PROVE  \E w : /\ IsWalk(tree, w) /\ Len(w.by) = n - 1 /\ Readable(tree, At(w))
                        /\ \E i \in DOMAIN tree[At(w)].include : v = Further(tree, w, i)
      <3> DEFINE b == SubSeq(v.by, 1, n - 1)
                 c == SubSeq(v.files, 1, n)
                 w == [by |-> b, files |-> c]
                 i == v.by[n]
      <3>1. /\ v \in Walk /\ Len(v.files) = n + 1
            /\ v.by \in Seq(Nat) /\ v.files \in Seq(File)
            /\ v.files[1] = Root
        BY <2>2, WalkFields DEF IsWalk
      <3>2. /\ b \in Seq(Nat) /\ Len(b) = n - 1
            /\ \A j \in 1..(n - 1) : b[j] = v.by[j]
        BY <2>0, <2>2, <3>1
      <3>3. /\ c \in Seq(File) /\ Len(c) = n
            /\ \A j \in 1..n : c[j] = v.files[j]
        BY <2>0, <3>1
      <3>4. v.by = Append(b, v.by[n])
        BY <2>0, <2>2, <3>1
      <3>5. v.files = Append(c, v.files[n + 1])
        BY <2>0, <3>1
      <3> HIDE DEF b, c
      <3>6. w \in Walk /\ w.by = b /\ w.files = c /\ At(w) = v.files[n]
        BY <2>0, <3>2, <3>3 DEF Walk, At, Last
      <3>7. /\ Readable(tree, v.files[n])
            /\ i \in DOMAIN tree[v.files[n]].include
            /\ v.files[n + 1] = tree[v.files[n]].include[i]
        BY <2>0, <2>2 DEF IsWalk
      <3>8. ASSUME NEW j \in 1..Len(w.by)
            PROVE  /\ Readable(tree, w.files[j])
                   /\ w.by[j] \in DOMAIN tree[w.files[j]].include
                   /\ w.files[j + 1] = tree[w.files[j]].include[w.by[j]]
        <4>1. j \in 1..(n - 1) /\ j \in 1..n /\ j + 1 \in 1..n /\ j \in 1..Len(v.by)
          BY <2>0, <2>2, <3>2, <3>6
        <4>2. /\ w.files[j] = v.files[j] /\ w.by[j] = v.by[j]
              /\ w.files[j + 1] = v.files[j + 1]
          BY <3>2, <3>3, <3>6, <4>1
        <4> QED
          BY <2>2, <4>1, <4>2 DEF IsWalk
      <3>9. IsWalk(tree, w) /\ Len(w.by) = n - 1
        <4>1. w.files[1] = Root /\ Len(w.files) = Len(w.by) + 1
          BY <2>0, <3>1, <3>2, <3>3, <3>6
        <4> QED
          BY <3>2, <3>6, <3>8, <4>1 DEF IsWalk
      <3>10. v = Further(tree, w, i)
        <4>1. v = [by |-> v.by, files |-> v.files]
          BY <3>1, WalkFields
        <4>2. Further(tree, w, i) = [by |-> Append(b, i), files |-> Append(c, v.files[n + 1])]
          BY <3>6, <3>7 DEF Further
        <4> QED
          BY <3>4, <3>5, <4>1, <4>2
      <3>11. i \in DOMAIN tree[At(w)].include /\ Readable(tree, At(w))
        BY <3>6, <3>7
      <3> HIDE DEF w, i
      <3> QED
        BY <3>9, <3>10, <3>11
    <2>3. ASSUME NEW v
          PROVE  v \in Walks(tree)[n] <=> IsWalk(tree, v) /\ Len(v.by) = n
      <3>1. v \in Walks(tree)[n] <=>
                \E w \in Walks(tree)[n - 1] :
                    /\ Readable(tree, At(w))
                    /\ \E i \in DOMAIN tree[At(w)].include : v = Further(tree, w, i)
        BY <2>0 DEF Hops
      <3> QED
        BY <2>0, <2>1, <2>2, <3>1
    <2> QED
      BY <1>0, <2>3
  <1>3. 0..N \subseteq G
    <2> HIDE DEF G, N
    <2> QED
      BY <1>0, <1>1, <1>2, Induct
  <1> QED
    BY <1>3

\* Every walk, and those of one hop too many.
Every(tree) == UNION {Walks(tree)[n] : n \in 0..(MaxDepth + 1)}

LEMMA EveryIs ==
    ASSUME NEW tree, Listed(tree)
    PROVE  \A w : w \in Every(tree) <=> IsWalk(tree, w) /\ Len(w.by) \in 0..(MaxDepth + 1)
  BY WalksAre DEF Every

\* Walk v passes where w ends.
Past(w, v) ==
    /\ Len(w.by) <= Len(v.by)
    /\ \A j \in 1..Len(w.by) : v.by[j] = w.by[j]
    /\ \A j \in 1..Len(w.files) : v.files[j] = w.files[j]

Below(tree, w) == {v \in Every(tree) : Past(w, v)}

\* Of them w, and those that take one of its first n turns.
Part(tree, w, n) ==
    {v \in Every(tree) : v = w \/ \E i \in 1..n : Past(Further(tree, w, i), v)}

LEMMA IsWalkShape ==
    ASSUME NEW tree, NEW w, IsWalk(tree, w)
    PROVE  /\ w \in Walk /\ w.by \in Seq(Nat) /\ w.files \in Seq(File)
           /\ Len(w.by) \in Nat /\ Len(w.files) = Len(w.by) + 1
           /\ w = [by |-> w.by, files |-> w.files]
           /\ At(w) = w.files[Len(w.by) + 1] /\ At(w) \in File
  <1>1. w \in Walk /\ Len(w.files) = Len(w.by) + 1
    BY DEF IsWalk
  <1> QED
    BY <1>1, WalkFields DEF At, Last

LEMMA FurtherIsWalk ==
    ASSUME NEW tree, Listed(tree), NEW w, IsWalk(tree, w), Readable(tree, At(w)),
           NEW i \in DOMAIN tree[At(w)].include
    PROVE  IsWalk(tree, Further(tree, w, i)) /\ Hop(tree, w, i, Further(tree, w, i))
  <1> DEFINE v == Further(tree, w, i)
             l == Len(w.by)
  <1>1. /\ w \in Walk /\ l \in Nat /\ Len(w.files) = l + 1
    BY IsWalkShape
  <1>2. Hop(tree, w, i, v)
    BY <1>1, FurtherIs
  <1> HIDE DEF v
  <1>3. /\ v \in Walk /\ Len(v.by) = l + 1 /\ Len(v.files) = l + 2
        /\ \A j \in 1..l : v.by[j] = w.by[j]
        /\ v.by[l + 1] = i
        /\ \A j \in 1..(l + 1) : v.files[j] = w.files[j]
        /\ v.files[l + 2] = tree[At(w)].include[i]
        /\ At(w) = w.files[l + 1]
    BY <1>1, <1>2 DEF Hop
  <1>4. ASSUME NEW j \in 1..Len(v.by)
        PROVE  /\ Readable(tree, v.files[j])
               /\ v.by[j] \in DOMAIN tree[v.files[j]].include
               /\ v.files[j + 1] = tree[v.files[j]].include[v.by[j]]
    <2>1. CASE j = l + 1
      <3>1. v.files[j] = At(w) /\ v.by[j] = i /\ v.files[j + 1] = tree[At(w)].include[i]
        BY <1>1, <1>3, <2>1
      <3> QED
        BY <3>1
    <2>2. CASE j # l + 1
      <3>1. j \in 1..l /\ j \in 1..(l + 1) /\ j + 1 \in 1..(l + 1)
        BY <1>1, <1>3, <2>2
      <3>2. /\ v.files[j] = w.files[j] /\ v.by[j] = w.by[j]
            /\ v.files[j + 1] = w.files[j + 1]
        BY <1>3, <3>1
      <3> QED
        BY <3>1, <3>2 DEF IsWalk
    <2> QED
      BY <2>1, <2>2
  <1>5. v.files[1] = Root
    BY <1>1, <1>3 DEF IsWalk
  <1>6. IsWalk(tree, v)
    BY <1>1, <1>3, <1>4, <1>5 DEF IsWalk
  <1> QED
    BY <1>2, <1>6 DEF v

LEMMA PastSplits ==
    ASSUME NEW tree, Listed(tree), NEW w, IsWalk(tree, w), NEW v, IsWalk(tree, v), Past(w, v)
    PROVE  \/ v = w
           \/ Readable(tree, At(w)) /\ \E i \in DOMAIN tree[At(w)].include :
                                          Past(Further(tree, w, i), v)
  <1> DEFINE l == Len(w.by)
             i == v.by[l + 1]
             x == Further(tree, w, i)
  <1>1. /\ w \in Walk /\ w.by \in Seq(Nat) /\ w.files \in Seq(File)
        /\ l \in Nat /\ Len(w.files) = l + 1
        /\ w = [by |-> w.by, files |-> w.files]
        /\ At(w) = w.files[l + 1]
    BY IsWalkShape
  <1>2. /\ v.by \in Seq(Nat) /\ v.files \in Seq(File)
        /\ Len(v.by) \in Nat /\ Len(v.files) = Len(v.by) + 1
        /\ v = [by |-> v.by, files |-> v.files]
    BY IsWalkShape
  <1>3. /\ l <= Len(v.by)
        /\ \A j \in 1..l : v.by[j] = w.by[j]
        /\ \A j \in 1..(l + 1) : v.files[j] = w.files[j]
    BY <1>1 DEF Past
  <1>4. CASE Len(v.by) = l
    <2>1. v.by = w.by
      <3>1. Len(v.by) = Len(w.by) /\ \A j \in 1..Len(v.by) : v.by[j] = w.by[j]
        BY <1>3, <1>4
      <3> QED
        BY <1>1, <1>2, <3>1, SeqEqual
    <2>2. v.files = w.files
      <3>1. Len(v.files) = Len(w.files) /\ \A j \in 1..Len(v.files) : v.files[j] = w.files[j]
        BY <1>1, <1>2, <1>3, <1>4
      <3> QED
        BY <1>1, <1>2, <3>1, SeqEqual
    <2> QED
      BY <1>1, <1>2, <2>1, <2>2
  <1>5. CASE Len(v.by) # l
    <2>1. l + 1 \in 1..Len(v.by) /\ l + 1 \in 1..(l + 1)
      BY <1>1, <1>2, <1>3, <1>5
    <2>2. /\ Readable(tree, v.files[l + 1])
          /\ i \in DOMAIN tree[v.files[l + 1]].include
          /\ v.files[l + 2] = tree[v.files[l + 1]].include[i]
      BY <1>1, <2>1 DEF IsWalk
    <2>3. v.files[l + 1] = At(w)
      BY <1>1, <1>3, <2>1
    <2>4. Hop(tree, w, i, x)
      BY <1>1, <2>2, <2>3, FurtherIs
    <2> HIDE DEF x, i
    <2>5. /\ Len(x.by) = l + 1 /\ Len(x.files) = l + 2
          /\ \A j \in 1..l : x.by[j] = w.by[j]
          /\ x.by[l + 1] = i
          /\ \A j \in 1..(l + 1) : x.files[j] = w.files[j]
          /\ x.files[l + 2] = tree[At(w)].include[i]
      BY <1>1, <2>4 DEF Hop
    <2>6. \A j \in 1..Len(x.by) : v.by[j] = x.by[j]
      <3> TAKE j \in 1..Len(x.by)
      <3>1. j \in 1..l \/ j = l + 1
        BY <1>1, <2>5
      <3>2. CASE j \in 1..l
        BY <1>3, <2>5, <3>2
      <3>3. CASE j = l + 1
        BY <2>5, <3>3 DEF i
      <3> QED
        BY <3>1, <3>2, <3>3
    <2>7. \A j \in 1..Len(x.files) : v.files[j] = x.files[j]
      <3> TAKE j \in 1..Len(x.files)
      <3>1. j \in 1..(l + 1) \/ j = l + 2
        BY <1>1, <2>5
      <3>2. CASE j \in 1..(l + 1)
        BY <1>3, <2>5, <3>2
      <3>3. CASE j = l + 2
        BY <2>2, <2>3, <2>5, <3>3
      <3> QED
        BY <3>1, <3>2, <3>3
    <2>8. Past(x, v)
      BY <1>1, <1>2, <1>3, <1>5, <2>5, <2>6, <2>7 DEF Past
    <2> QED
      BY <2>2, <2>3, <2>8 DEF x
  <1> QED
    BY <1>4, <1>5

\* A walk past a hop on from w is past w, longer, and takes that turn.
LEMMA PastHop ==
    ASSUME NEW tree, Listed(tree), NEW w, IsWalk(tree, w), Readable(tree, At(w)),
           NEW i \in DOMAIN tree[At(w)].include,
           NEW v, Past(Further(tree, w, i), v)
    PROVE  /\ Past(w, v) /\ Len(v.by) > Len(w.by) /\ v.by[Len(w.by) + 1] = i
  <1> DEFINE l == Len(w.by)
             x == Further(tree, w, i)
  <1>1. l \in Nat /\ Len(w.files) = l + 1 /\ w \in Walk
    BY IsWalkShape
  <1>2. Hop(tree, w, i, x)
    BY <1>1, FurtherIs
  <1>0. Past(x, v)
    OBVIOUS
  <1> HIDE DEF x
  <1>3. /\ Len(x.by) = l + 1 /\ Len(x.files) = l + 2
        /\ \A j \in 1..l : x.by[j] = w.by[j]
        /\ x.by[l + 1] = i
        /\ \A j \in 1..(l + 1) : x.files[j] = w.files[j]
    BY <1>1, <1>2 DEF Hop
  <1>4. /\ l + 1 <= Len(v.by)
        /\ \A j \in 1..(l + 1) : v.by[j] = x.by[j]
        /\ \A j \in 1..(l + 2) : v.files[j] = x.files[j]
    BY <1>0, <1>3 DEF Past
  <1>5. \A j \in 1..l : v.by[j] = w.by[j]
    BY <1>1, <1>3, <1>4
  <1>6. \A j \in 1..Len(w.files) : v.files[j] = w.files[j]
    BY <1>1, <1>3, <1>4
  <1>7. Len(v.by) > l /\ l <= Len(v.by) /\ v.by[l + 1] = i
    <2>1. Len(v.by) > l /\ l <= Len(v.by)
      BY <1>1, <1>4
    <2>2. l + 1 \in 1..(l + 1)
      BY <1>1
    <2> QED
      BY <1>3, <1>4, <2>1, <2>2
  <1> QED
    BY <1>5, <1>6, <1>7 DEF Past

LEMMA PartNext ==
    ASSUME NEW tree, NEW w, NEW n \in Nat \ {0}
    PROVE  Part(tree, w, n) = Part(tree, w, n - 1) \cup Below(tree, Further(tree, w, n))
  <1>1. 1..n = 1..(n - 1) \cup {n}
    OBVIOUS
  <1> HIDE DEF Past, Further, Every
  <1> QED
    BY <1>1 DEF Part, Below

LEMMA BelowSplits ==
    ASSUME NEW tree, Listed(tree), NEW w \in Every(tree)
    PROVE  /\ Part(tree, w, 0) = {w}
           /\ ~Readable(tree, At(w)) => Below(tree, w) = {w}
           /\ Readable(tree, At(w)) => Below(tree, w) = Part(tree, w, Len(tree[At(w)].include))
  <1>1. IsWalk(tree, w)
    BY EveryIs
  <1>2. Past(w, w)
    BY <1>1, IsWalkShape DEF Past
  <1>3. Part(tree, w, 0) = {w}
    <2>1. 1..0 = {}
      OBVIOUS
    <2> QED
      BY <2>1 DEF Part
  <1>4. ASSUME ~Readable(tree, At(w))
        PROVE  Below(tree, w) = {w}
    <2>1. \A v \in Below(tree, w) : v = w
      BY <1>1, <1>4, EveryIs, PastSplits DEF Below
    <2> QED
      BY <1>2, <2>1 DEF Below
  <1>5. ASSUME Readable(tree, At(w))
        PROVE  Below(tree, w) = Part(tree, w, Len(tree[At(w)].include))
    <2>0. DOMAIN tree[At(w)].include = 1..Len(tree[At(w)].include)
      BY <1>1, <1>5, IsWalkShape DEF Readable, Listed
    <2>1. ASSUME NEW v \in Below(tree, w)
          PROVE  v \in Part(tree, w, Len(tree[At(w)].include))
      <3>1. v \in Every(tree) /\ Past(w, v) /\ IsWalk(tree, v)
        BY EveryIs DEF Below
      <3>2. v = w \/ \E i \in DOMAIN tree[At(w)].include : Past(Further(tree, w, i), v)
        BY <1>1, <3>1, PastSplits
      <3> QED
        BY <2>0, <3>1, <3>2 DEF Part
    <2>2. ASSUME NEW v \in Part(tree, w, Len(tree[At(w)].include))
          PROVE  v \in Below(tree, w)
      <3>1. v \in Every(tree)
        BY DEF Part
      <3>2. CASE v = w
        BY <1>2, <3>1, <3>2 DEF Below
      <3>3. CASE v # w
        <4>1. PICK i \in DOMAIN tree[At(w)].include : Past(Further(tree, w, i), v)
          BY <2>0, <3>3 DEF Part
        <4>2. Past(w, v)
          BY <1>1, <1>5, <4>1, PastHop
        <4> QED
          BY <3>1, <4>2 DEF Below
      <3> QED
        BY <3>2, <3>3
    <2> QED
      BY <2>1, <2>2
  <1> QED
    BY <1>3, <1>4, <1>5

LEMMA PrecedesOnce ==
    ASSUME NEW tree, NEW v, IsWalk(tree, v), NEW w, IsWalk(tree, w), Precedes(v, w)
    PROVE  v # w /\ ~Precedes(w, v)
  <1>1. /\ v.by \in Seq(Nat) /\ w.by \in Seq(Nat)
        /\ Len(v.by) \in Nat /\ Len(w.by) \in Nat
        /\ DOMAIN v.by = 1..Len(v.by) /\ DOMAIN w.by = 1..Len(w.by)
    BY IsWalkShape
  <1>2. PICK i \in DOMAIN w.by :
            /\ \A j \in 1..(i - 1) : j \in DOMAIN v.by /\ v.by[j] = w.by[j]
            /\ i \in DOMAIN v.by => v.by[i] < w.by[i]
    BY DEF Precedes
  <1>3. v # w
    <2> SUFFICES ASSUME v = w PROVE FALSE
      OBVIOUS
    <2>1. w.by[i] < w.by[i] /\ w.by[i] \in Nat
      BY <1>1, <1>2
    <2> QED
      BY <2>1
  <1>4. ~Precedes(w, v)
    <2> SUFFICES ASSUME NEW k \in DOMAIN v.by,
                        \A j \in 1..(k - 1) : j \in DOMAIN w.by /\ w.by[j] = v.by[j],
                        k \in DOMAIN w.by => w.by[k] < v.by[k]
                 PROVE  FALSE
      BY DEF Precedes
    <2>1. i \in Nat /\ k \in Nat /\ i >= 1 /\ k >= 1
      BY <1>1
    <2>2. CASE i = k
      <3>1. v.by[i] < w.by[i] /\ w.by[i] < v.by[i]
        BY <1>2, <2>2
      <3>2. v.by[i] \in Nat /\ w.by[i] \in Nat
        BY <1>1, <1>2, <2>2
      <3> QED
        BY <3>1, <3>2
    <2>3. CASE i < k
      <3>1. i \in 1..(k - 1) /\ i \in DOMAIN v.by
        BY <1>1, <2>1, <2>3
      <3>2. w.by[i] = v.by[i]
        BY <3>1
      <3>3. v.by[i] < w.by[i]
        BY <1>2, <3>1
      <3>4. v.by[i] \in Nat
        BY <1>1, <3>1
      <3> QED
        BY <3>2, <3>3, <3>4
    <2>4. CASE k < i
      <3>1. k \in 1..(i - 1) /\ k \in DOMAIN w.by
        BY <1>1, <2>1, <2>4
      <3>2. v.by[k] = w.by[k]
        BY <1>2, <3>1
      <3>3. w.by[k] < v.by[k]
        BY <3>1
      <3>4. v.by[k] \in Nat
        BY <1>1, ElementOfSeq
      <3> QED
        BY <3>2, <3>3, <3>4
    <2> QED
      BY <2>1, <2>2, <2>3, <2>4
  <1> QED
    BY <1>3, <1>4

\* What takes an earlier turn, or ends, comes before.
LEMMA PartPrecedes ==
    ASSUME NEW tree, Listed(tree), NEW w, IsWalk(tree, w), Readable(tree, At(w)),
           NEW n \in DOMAIN tree[At(w)].include,
           NEW v \in Part(tree, w, n - 1), NEW u \in Below(tree, Further(tree, w, n))
    PROVE  Precedes(v, u)
  <1> DEFINE l == Len(w.by)
  <1>0. n \in Nat /\ n >= 1 /\ \A i \in 1..(n - 1) : i \in DOMAIN tree[At(w)].include
    <2>1. tree[At(w)].include \in Seq(File)
      BY IsWalkShape DEF Readable, Listed
    <2> QED
      BY <2>1
  <1>1. l \in Nat
    BY IsWalkShape
  <1>2. IsWalk(tree, v) /\ IsWalk(tree, u)
    BY EveryIs DEF Part, Below
  <1>3. /\ DOMAIN v.by = 1..Len(v.by) /\ DOMAIN u.by = 1..Len(u.by)
        /\ Len(v.by) \in Nat /\ Len(u.by) \in Nat
    BY <1>2, IsWalkShape
  <1>4. Past(w, u) /\ Len(u.by) > l /\ u.by[l + 1] = n
    BY PastHop DEF Below
  <1>5. l + 1 \in DOMAIN u.by
    BY <1>1, <1>3, <1>4
  <1>6. CASE v = w
    <2>1. l + 1 \notin DOMAIN v.by /\ \A j \in 1..l : j \in DOMAIN v.by /\ v.by[j] = u.by[j]
      BY <1>1, <1>3, <1>4, <1>6 DEF Past
    <2> QED
      BY <1>1, <1>5, <2>1 DEF Precedes
  <1>7. CASE v # w
    <2>1. PICK i \in 1..(n - 1) : Past(Further(tree, w, i), v)
      BY <1>7 DEF Part
    <2>2. i \in DOMAIN tree[At(w)].include
      BY <1>0
    <2>3. Past(w, v) /\ Len(v.by) > l /\ v.by[l + 1] = i
      BY <2>1, <2>2, PastHop
    <2>4. \A j \in 1..l : j \in DOMAIN v.by /\ v.by[j] = u.by[j]
      BY <1>1, <1>3, <1>4, <2>3 DEF Past
    <2>5. v.by[l + 1] < u.by[l + 1]
      BY <1>0, <1>4, <2>3
    <2> QED
      BY <1>1, <1>5, <2>4, <2>5 DEF Precedes
  <1> QED
    BY <1>6, <1>7

(***************************************************************************)
(* What a config has gathered from a set of walks                          *)
(***************************************************************************)
IsList(s) == s \in Seq(ToSet(s))

Ordered(tree, deps, S) ==
    /\ IsFiniteSet(Places(tree, S)) /\ Len(deps) = Cardinality(Places(tree, S))
    /\ \A p \in Places(tree, S) : deps[Cardinality(AheadOf(tree, S, p)) + 1] = GroupAt(tree, p)

Having(tree, S, k) == {w \in S : k \in DOMAIN tree[At(w)].paths}

\* Each setting is that of the last walk to have it.
LastOf(tree, paths, S, k, u) ==
    /\ u \in Having(tree, S, k) /\ paths[k] = tree[At(u)].paths[k]
    /\ \A v \in Having(tree, S, k) : v = u \/ Precedes(v, u)

Settings(tree, paths, S) ==
    /\ DOMAIN paths = UNION {DOMAIN tree[At(w)].paths : w \in S}
    /\ \A k \in DOMAIN paths : \E u : LastOf(tree, paths, S, k, u)

ArgsOf(tree, S) == UNION {Args(Own(tree[At(w)])) : w \in S}

Stands(tree, cfg, S) ==
    /\ cfg.deps \in Seq(Group) /\ Ordered(tree, cfg.deps, S)
    /\ Settings(tree, cfg.paths, S)
    /\ IsList(cfg.hooks) /\ IsList(cfg.commands) /\ Args(cfg) = ArgsOf(tree, S)

LEMMA SeqIsList ==
    ASSUME NEW T, NEW s \in Seq(T)
    PROVE  IsList(s)
  <1>1. s \in Seq(Range(s))
    BY SeqOfRange
  <1>2. Range(s) = ToSet(s)
    BY DEF Range, ToSet
  <1> QED
    BY <1>1, <1>2 DEF IsList

LEMMA ListsConcat ==
    ASSUME NEW s, IsList(s), NEW t, IsList(t)
    PROVE  IsList(s \o t) /\ ToSet(s \o t) = ToSet(s) \cup ToSet(t)
  <1> DEFINE T == ToSet(s) \cup ToSet(t)
  <1>1. s \in Seq(T) /\ t \in Seq(T)
    <2>1. s \in Seq(ToSet(s)) /\ t \in Seq(ToSet(t))
      BY DEF IsList
    <2> DEFINE A == ToSet(s)
               B == ToSet(t)
    <2> HIDE DEF A, B
    <2> QED
      BY <2>1 DEF A, B
  <1> HIDE DEF T
  <1>2. ToSet(s \o t) = ToSet(s) \cup ToSet(t) /\ s \o t \in Seq(T)
    BY <1>1, ConcatSet, ConcatProperties
  <1> QED
    BY <1>2 DEF IsList, T

\* No place is ahead of itself, so there are fewer ahead of it than there are.
LEMMA FewerAhead ==
    ASSUME NEW tree, NEW S, \A w \in S : IsWalk(tree, w) /\ IsList(tree[At(w)].deps),
           IsFiniteSet(Places(tree, S)), NEW p \in Places(tree, S)
    PROVE  Cardinality(AheadOf(tree, S, p)) + 1 \in 1..Cardinality(Places(tree, S))
  <1> DEFINE P == Places(tree, S)
             A == AheadOf(tree, S, p)
  <1>1. A \subseteq P \ {p}
    <2>1. PICK w \in S : \E i \in DOMAIN tree[At(w)].deps : p = <<w, i>>
      BY DEF Places
    <2>2. PICK i \in DOMAIN tree[At(w)].deps : p = <<w, i>>
      BY <2>1
    <2>3. i \in Nat
      BY DEF IsList
    <2>4. p[1] = w /\ p[2] = i
      BY <2>2
    <2>5. ~Precedes(w, w)
      BY PrecedesOnce
    <2>6. p \notin A
      BY <2>3, <2>4, <2>5 DEF AheadOf
    <2> QED
      BY <2>6 DEF AheadOf
  <1> HIDE DEF P, A
  <1>2. IsFiniteSet(P) /\ p \in P
    BY DEF P
  <1>3. Cardinality(P \ {p}) = Cardinality(P) - 1 /\ IsFiniteSet(P \ {p})
    BY <1>2, FS_RemoveElement
  <1>4. IsFiniteSet(A) /\ Cardinality(A) <= Cardinality(P \ {p})
    BY <1>1, <1>3, FS_Subset
  <1>5. Cardinality(A) \in Nat /\ Cardinality(P) \in Nat
    BY <1>2, <1>4, FS_CardinalityType
  <1>6. Cardinality(A) + 1 \in 1..Cardinality(P)
    BY <1>3, <1>4, <1>5
  <1> QED
    BY <1>6 DEF A, P

\* Of two sets of walks, one all before the other, the places of the first
\* are ahead of those of the second, and of the first none of the second's.
FirstThen(tree, S, T) ==
    /\ Places(tree, S \cup T) = Places(tree, S) \cup Places(tree, T)
    /\ Places(tree, S) \cap Places(tree, T) = {}
    /\ \A p \in Places(tree, S) : AheadOf(tree, S \cup T, p) = AheadOf(tree, S, p)
    /\ \A p \in Places(tree, T) :
          AheadOf(tree, S \cup T, p) = Places(tree, S) \cup AheadOf(tree, T, p)

LEMMA AheadSplits ==
    ASSUME NEW tree, NEW S, NEW T,
           \A w \in S \cup T : IsWalk(tree, w) /\ IsList(tree[At(w)].deps),
           \A v \in S : \A u \in T : Precedes(v, u)
    PROVE  FirstThen(tree, S, T)
  <1>1. Places(tree, S \cup T) = Places(tree, S) \cup Places(tree, T)
    BY DEF Places
  <1>2. /\ \A p \in Places(tree, S) : p[1] \in S
        /\ \A p \in Places(tree, T) : p[1] \in T
    BY DEF Places
  <1>3. \A v \in S : \A u \in T : v # u /\ ~Precedes(u, v)
    BY PrecedesOnce
  <1>4. Places(tree, S) \cap Places(tree, T) = {}
    BY <1>2, <1>3
  <1>5. ASSUME NEW p \in Places(tree, S)
        PROVE  AheadOf(tree, S \cup T, p) = AheadOf(tree, S, p)
    BY <1>1, <1>2, <1>3 DEF AheadOf
  <1>6. ASSUME NEW p \in Places(tree, T)
        PROVE  AheadOf(tree, S \cup T, p) = Places(tree, S) \cup AheadOf(tree, T, p)
    BY <1>1, <1>2 DEF AheadOf
  <1> QED
    BY <1>1, <1>4, <1>5, <1>6 DEF FirstThen

LEMMA OrderedMerges ==
    ASSUME NEW tree, NEW S, NEW T,
           \A w \in S \cup T : IsWalk(tree, w) /\ IsList(tree[At(w)].deps),
           \A v \in S : \A u \in T : Precedes(v, u),
           NEW a \in Seq(Group), NEW b \in Seq(Group),
           Ordered(tree, a, S), Ordered(tree, b, T)
    PROVE  Ordered(tree, a \o b, S \cup T)
  <1> DEFINE P == Places(tree, S)
             Q == Places(tree, T)
             m == Len(a)
             n == Len(b)
             c == a \o b
  <1>1. /\ IsFiniteSet(P) /\ m = Cardinality(P) /\ m \in Nat
        /\ IsFiniteSet(Q) /\ n = Cardinality(Q) /\ n \in Nat
    BY DEF Ordered
  <1>2. /\ Places(tree, S \cup T) = P \cup Q /\ P \cap Q = {}
        /\ \A p \in P : AheadOf(tree, S \cup T, p) = AheadOf(tree, S, p)
        /\ \A p \in Q : AheadOf(tree, S \cup T, p) = P \cup AheadOf(tree, T, p)
    <2>1. FirstThen(tree, S, T)
      BY AheadSplits
    <2> QED
      BY <2>1 DEF FirstThen
  <1>3. /\ Len(c) = m + n
        /\ \A i \in 1..m : c[i] = a[i]
        /\ \A i \in 1..n : c[m + i] = b[i]
    BY <1>1, ConcatProperties
  <1> HIDE DEF c
  <1>4. IsFiniteSet(P \cup Q) /\ Cardinality(P \cup Q) = m + n
    <2>1. Cardinality(P \cap Q) = 0
      BY <1>2, FS_EmptySet
    <2> HIDE DEF P, Q, m, n
    <2>2. /\ IsFiniteSet(P \cup Q)
          /\ Cardinality(P \cup Q) = Cardinality(P) + Cardinality(Q) - Cardinality(P \cap Q)
      BY <1>1, FS_Union
    <2> QED
      BY <1>1, <2>1, <2>2
  <1>5. ASSUME NEW p \in P
        PROVE  c[Cardinality(AheadOf(tree, S \cup T, p)) + 1] = GroupAt(tree, p)
    <2> DEFINE k == Cardinality(AheadOf(tree, S, p)) + 1
    <2>1. k \in 1..m
      BY <1>1, FewerAhead
    <2>2. a[k] = GroupAt(tree, p)
      BY DEF Ordered
    <2> HIDE DEF k, m
    <2>3. c[k] = GroupAt(tree, p)
      BY <1>3, <2>1, <2>2
    <2> QED
      BY <1>2, <2>3 DEF k
  <1>6. ASSUME NEW p \in Q
        PROVE  c[Cardinality(AheadOf(tree, S \cup T, p)) + 1] = GroupAt(tree, p)
    <2> DEFINE A == AheadOf(tree, T, p)
               k == Cardinality(A) + 1
    <2>1. k \in 1..n
      BY <1>1, FewerAhead
    <2>2. b[k] = GroupAt(tree, p)
      BY DEF Ordered
    <2>3. A \subseteq Q
      BY DEF AheadOf
    <2> HIDE DEF A, P, Q, m, n
    <2>4. IsFiniteSet(A) /\ P \cap A = {}
      BY <1>1, <1>2, <2>3, FS_Subset
    <2>5. Cardinality(A) \in Nat
      BY <2>4, FS_CardinalityType
    <2>6. Cardinality(P \cup A) = m + Cardinality(A)
      <3>1. Cardinality(P \cap A) = 0
        BY <2>4, FS_EmptySet
      <3>2. Cardinality(P \cup A) = Cardinality(P) + Cardinality(A) - Cardinality(P \cap A)
        BY <1>1, <2>4, FS_Union
      <3> QED
        BY <1>1, <2>5, <3>1, <3>2
    <2>7. Cardinality(P \cup A) + 1 = m + k
      BY <1>1, <2>5, <2>6
    <2>8. c[m + k] = GroupAt(tree, p)
      BY <1>3, <2>1, <2>2
    <2>9. AheadOf(tree, S \cup T, p) = P \cup A
      BY <1>2 DEF A
    <2> QED
      BY <2>7, <2>8, <2>9
  <1> HIDE DEF P, Q, m, n
  <1> QED
    BY <1>2, <1>3, <1>4, <1>5, <1>6 DEF Ordered, c

LEMMA SettingsMerge ==
    ASSUME NEW tree, NEW S, NEW T, NEW p, NEW q,
           Settings(tree, p, S), Settings(tree, q, T),
           \A v \in S : \A u \in T : Precedes(v, u)
    PROVE  Settings(tree, merge_map(p, q), S \cup T)
  <1> DEFINE r == merge_map(p, q)
             D(U) == UNION {DOMAIN tree[At(w)].paths : w \in U}
  <1>1. /\ DOMAIN r = DOMAIN q \cup DOMAIN p
        /\ \A k \in DOMAIN q : r[k] = q[k]
        /\ \A k \in DOMAIN p \ DOMAIN q : r[k] = p[k]
    BY DEF merge_map
  <1> HIDE DEF r
  <1>2. DOMAIN p = D(S) /\ DOMAIN q = D(T) /\ D(S \cup T) = D(S) \cup D(T)
    BY DEF Settings
  <1>3. ASSUME NEW k \in DOMAIN r
        PROVE  \E u : LastOf(tree, r, S \cup T, k, u)
    <2>1. Having(tree, S \cup T, k) = Having(tree, S, k) \cup Having(tree, T, k)
      BY DEF Having
    <2>2. CASE k \in DOMAIN q
      <3>1. PICK u : LastOf(tree, q, T, k, u)
        BY <2>2 DEF Settings
      <3>2. u \in T /\ \A v \in Having(tree, S, k) : Precedes(v, u)
        BY <3>1 DEF LastOf, Having
      <3>3. LastOf(tree, r, S \cup T, k, u)
        BY <1>1, <2>1, <2>2, <3>1, <3>2 DEF LastOf
      <3> QED
        BY <3>3
    <2>3. CASE k \notin DOMAIN q
      <3>1. k \in DOMAIN p /\ Having(tree, T, k) = {}
        BY <1>1, <1>2, <2>3 DEF Having
      <3>2. PICK u : LastOf(tree, p, S, k, u)
        BY <3>1 DEF Settings
      <3>3. LastOf(tree, r, S \cup T, k, u)
        BY <1>1, <2>1, <2>3, <3>1, <3>2 DEF LastOf
      <3> QED
        BY <3>3
    <2> QED
      BY <2>2, <2>3
  <1>4. DOMAIN r = D(S \cup T)
    BY <1>1, <1>2
  <1> QED
    BY <1>3, <1>4 DEF Settings, r

LEMMA ArgsMerge ==
    ASSUME NEW a, NEW b, IsList(a.hooks), IsList(a.commands), IsList(b.hooks), IsList(b.commands)
    PROVE  /\ Args(merge(a, b)) = Args(a) \cup Args(b)
           /\ IsList(merge(a, b).hooks) /\ IsList(merge(a, b).commands)
  <1> DEFINE c == merge(a, b)
  <1>1. c.hooks = a.hooks \o b.hooks /\ c.commands = a.commands \o b.commands
    BY DEF merge
  <1> HIDE DEF c
  <1>2. /\ IsList(c.hooks) /\ IsList(c.commands)
        /\ ToSet(c.hooks) = ToSet(a.hooks) \cup ToSet(b.hooks)
        /\ ToSet(c.commands) = ToSet(a.commands) \cup ToSet(b.commands)
    BY <1>1, ListsConcat
  <1>3. Args(c) = Args(a) \cup Args(b)
    BY <1>2 DEF Args
  <1> QED
    BY <1>2, <1>3 DEF c

LEMMA StandsMerges ==
    ASSUME NEW tree, NEW S, NEW T, NEW a, NEW b,
           Stands(tree, a, S), Stands(tree, b, T),
           \A w \in S \cup T : IsWalk(tree, w) /\ IsList(tree[At(w)].deps),
           \A v \in S : \A u \in T : Precedes(v, u)
    PROVE  Stands(tree, merge(a, b), S \cup T)
  <1> DEFINE c == merge(a, b)
  <1>1. c.deps = a.deps \o b.deps /\ c.paths = merge_map(a.paths, b.paths)
    BY DEF merge
  <1>2. /\ a.deps \in Seq(Group) /\ b.deps \in Seq(Group)
        /\ Ordered(tree, a.deps, S) /\ Ordered(tree, b.deps, T)
        /\ Settings(tree, a.paths, S) /\ Settings(tree, b.paths, T)
        /\ IsList(a.hooks) /\ IsList(a.commands) /\ IsList(b.hooks) /\ IsList(b.commands)
        /\ Args(a) = ArgsOf(tree, S) /\ Args(b) = ArgsOf(tree, T)
    BY DEF Stands
  <1>3. Args(c) = Args(a) \cup Args(b) /\ IsList(c.hooks) /\ IsList(c.commands)
    BY <1>2, ArgsMerge
  <1> HIDE DEF c
  <1>4. Settings(tree, c.paths, S \cup T)
    BY <1>1, <1>2, SettingsMerge
  <1> DEFINE d == a.deps
             e == b.deps
  <1>5. c.deps \in Seq(Group) /\ Ordered(tree, c.deps, S \cup T)
    <2>1. d \in Seq(Group) /\ e \in Seq(Group) /\ Ordered(tree, d, S) /\ Ordered(tree, e, T)
      BY <1>2
    <2> HIDE DEF d, e
    <2>2. d \o e \in Seq(Group) /\ Ordered(tree, d \o e, S \cup T)
      BY <2>1, OrderedMerges, ConcatProperties
    <2> QED
      BY <1>1, <2>2 DEF d, e
  <1>6. ArgsOf(tree, S \cup T) = ArgsOf(tree, S) \cup ArgsOf(tree, T)
    BY DEF ArgsOf
  <1> QED
    BY <1>2, <1>3, <1>4, <1>5, <1>6 DEF Stands, c

LEMMA Turns ==
    ASSUME NEW w, NEW n \in Nat
    PROVE  /\ IsFiniteSet({<<w, i>> : i \in 1..n})
           /\ Cardinality({<<w, i>> : i \in 1..n}) = n
  <1> DEFINE I == 1..n
             W == {<<w, i>> : i \in I}
             h == [i \in I |-> <<w, i>>]
  <1>1. IsFiniteSet(I) /\ Cardinality(I) = n
    BY FS_Interval
  <1> HIDE DEF I
  <1>2. h \in [I -> W] /\ IsInjective(h) /\ \A x \in W : \E i \in I : h[i] = x
    BY DEF IsInjective
  <1> HIDE DEF h, W
  <1>3. ExistsBijection(I, W)
    BY <1>2 DEF ExistsBijection, Bijection, Injection, Surjection
  <1>4. IsFiniteSet(W) /\ Cardinality(W) = n
    BY <1>1, <1>3, FS_Bijection
  <1> QED
    BY <1>4 DEF W, I

\* A file that can be read stands for itself.
LEMMA OwnStands ==
    ASSUME NEW tree, Listed(tree), NEW w, IsWalk(tree, w), Readable(tree, At(w))
    PROVE  Stands(tree, Own(tree[At(w)]), {w})
  <1> DEFINE f == tree[At(w)]
             c == Own(f)
  <1>1. /\ c.deps = f.deps /\ c.paths = f.paths
        /\ c.hooks = f.hooks /\ c.commands = f.commands
    BY DEF Own
  <1>2. f.deps \in Seq(Group) /\ IsList(f.hooks) /\ IsList(f.commands)
    BY IsWalkShape DEF Readable, Listed, IsList
  <1>3. ArgsOf(tree, {w}) = Args(c)
    BY DEF ArgsOf
  <1> HIDE DEF c
  <1> DEFINE n == Len(f.deps)
             P == Places(tree, {w})
             A(i) == AheadOf(tree, {w}, <<w, i>>)
  <1>0. n \in Nat /\ DOMAIN f.deps = 1..n /\ ~Precedes(w, w)
    BY <1>2, PrecedesOnce
  <1>4. P = {<<w, i>> : i \in 1..n}
    BY <1>0 DEF Places
  <1>5. IsFiniteSet(P) /\ Cardinality(P) = n
    BY <1>0, <1>4, Turns
  <1>7. ASSUME NEW i \in 1..n
        PROVE  Cardinality(A(i)) + 1 = i /\ GroupAt(tree, <<w, i>>) = f.deps[i]
    <2>1. A(i) = {<<w, j>> : j \in 1..(i - 1)}
      <3> HIDE DEF f, n
      <3>1. A(i) = {q \in P : q[2] < i}
        <4>1. \A q \in P : q[1] = w
          BY <1>4
        <4>2. A(i) = {q \in P : Precedes(q[1], w) \/ (q[1] = w /\ q[2] < i)}
          BY DEF AheadOf
        <4> HIDE DEF A, P
        <4> QED
          BY <1>0, <4>1, <4>2
      <3>2. \A j \in 1..n : j < i <=> j \in 1..(i - 1)
        BY <1>0
      <3>3. \A j \in 1..(i - 1) : j \in 1..n
        BY <1>0
      <3> HIDE DEF A, P
      <3> QED
        BY <1>4, <3>1, <3>2, <3>3
    <2>2. Cardinality(A(i)) = i - 1
      <3> HIDE DEF A
      <3>1. i - 1 \in Nat
        BY <1>0
      <3>2. Cardinality({<<w, j>> : j \in 1..(i - 1)}) = i - 1
        BY <3>1, Turns
      <3> QED
        BY <2>1, <3>2
    <2> HIDE DEF A
    <2> QED
      BY <2>2 DEF GroupAt
  <1>8. Ordered(tree, f.deps, {w})
    <2> SUFFICES ASSUME NEW p \in P
                 PROVE  f.deps[Cardinality(AheadOf(tree, {w}, p)) + 1] = GroupAt(tree, p)
      BY <1>5 DEF Ordered
    <2>1. PICK i \in 1..n : p = <<w, i>>
      BY <1>4
    <2> QED
      BY <1>7, <2>1
  <1>6. Settings(tree, f.paths, {w})
    <2>1. ASSUME NEW k \in DOMAIN f.paths
          PROVE  LastOf(tree, f.paths, {w}, k, w)
      BY DEF LastOf, Having
    <2> QED
      BY <2>1 DEF Settings
  <1> QED
    BY <1>1, <1>2, <1>3, <1>6, <1>8 DEF Stands, c

(***************************************************************************)
(* The recursion over the chains gathers what the walks below them stand   *)
(* for                                                                     *)
(***************************************************************************)
Fine(tree, S) == \A v \in S : Len(v.by) <= MaxDepth /\ Readable(tree, At(v))

Right(tree, got, S) ==
    /\ got.err = "none" => Fine(tree, S) /\ Stands(tree, got.cfg, S)
    /\ Fine(tree, S) /\ (\A v \in S : IsInjective(v.files)) => got.err = "none"
    /\ got.err = "Cycle" => \E v \in S : Len(v.by) <= MaxDepth /\ ~IsInjective(v.files)

\* A walk that comes to a file again could be gone on without end.
LEMMA RoundIsEndless ==
    ASSUME NEW tree, Listed(tree), NEW v \in Every(tree), ~IsInjective(v.files)
    PROVE  \E w \in Every(tree) : Len(w.by) = MaxDepth + 1
  <1> DEFINE N == MaxDepth + 1
  <1>0. N \in Nat /\ N = MaxDepth + 1
    BY IncludeAssumption
  <1>1. /\ IsWalk(tree, v) /\ v.files \in Seq(File)
        /\ Len(v.by) \in Nat /\ Len(v.files) = Len(v.by) + 1
    BY EveryIs, IsWalkShape
  <1>2. PICK i \in 1..Len(v.files), j \in 1..Len(v.files) : i < j /\ v.files[i] = v.files[j]
    <2>1. PICK a \in 1..Len(v.files), b \in 1..Len(v.files) : v.files[a] = v.files[b] /\ a # b
      BY <1>1 DEF IsInjective
    <2>2. a < b \/ b < a
      BY <1>1, <2>1
    <2> QED
      BY <2>1, <2>2
  <1> DEFINE Z == {v.files[k] : k \in 1..(j - 1)}
  <1>3. ASSUME NEW z \in Z
        PROVE  Readable(tree, z) /\ \E m \in DOMAIN tree[z].include : tree[z].include[m] \in Z
    <2>1. PICK k \in 1..(j - 1) : z = v.files[k]
      OBVIOUS
    <2>2. k \in 1..Len(v.by)
      BY <1>1, <1>2
    <2>3. /\ Readable(tree, z) /\ v.by[k] \in DOMAIN tree[z].include
          /\ v.files[k + 1] = tree[z].include[v.by[k]]
      BY <1>1, <2>1, <2>2 DEF IsWalk
    <2>4. v.files[k + 1] \in Z
      <3>1. CASE k + 1 = j
        <4>1. v.files[k + 1] = v.files[i] /\ i \in 1..(j - 1)
          BY <1>1, <1>2, <3>1
        <4> QED
          BY <4>1
      <3>2. CASE k + 1 # j
        <4>1. k + 1 \in 1..(j - 1)
          BY <1>2, <3>2
        <4> QED
          BY <4>1
      <3> QED
        BY <3>1, <3>2
    <2> QED
      BY <2>3, <2>4
  <1>4. Root \in Z
    <2>1. 1 \in 1..(j - 1) /\ v.files[1] = Root
      BY <1>1, <1>2 DEF IsWalk
    <2> QED
      BY <2>1
  <1> HIDE DEF Z
  <1> DEFINE Ends(n) == \E w \in Every(tree) : Len(w.by) = n /\ At(w) \in Z
             G == {n \in 0..N : Ends(n)}
  <1>5. 0 \in G
    <2>1. Home \in Walks(tree)[0]
      BY WalksSteps
    <2>2. Home \in Every(tree) /\ Len(Home.by) = 0
      BY <1>0, <2>1, WalksAre DEF Every
    <2>3. At(Home) = Root
      BY DEF Home, At, Last
    <2> QED
      BY <1>0, <1>4, <2>2, <2>3
  <1>6. ASSUME NEW n \in 1..N, n - 1 \in G
        PROVE  n \in G
    <2>1. PICK w \in Every(tree) : Len(w.by) = n - 1 /\ At(w) \in Z
      BY <1>6
    <2>2. IsWalk(tree, w)
      BY <2>1, EveryIs
    <2>3. PICK m \in DOMAIN tree[At(w)].include : tree[At(w)].include[m] \in Z
      BY <1>3, <2>1
    <2>4. Readable(tree, At(w))
      BY <1>3, <2>1
    <2> DEFINE u == Further(tree, w, m)
    <2>5. IsWalk(tree, u) /\ Hop(tree, w, m, u)
      BY <2>2, <2>4, FurtherIsWalk
    <2> HIDE DEF u
    <2>6. Len(u.by) = n /\ At(u) \in Z
      BY <2>1, <2>3, <2>5, <1>0 DEF Hop
    <2>7. u \in Every(tree)
      BY <1>0, <2>5, <2>6, EveryIs
    <2>8. Ends(n)
      BY <2>6, <2>7
    <2> QED
      BY <2>8
  <1>7. N \in G
    <2> HIDE DEF G, N
    <2>1. 0..N \subseteq G
      BY <1>0, <1>5, <1>6, Induct
    <2> QED
      BY <1>0, <2>1
  <1> QED
    BY <1>7

LEMMA RightIncluded ==
    ASSUME NEW tree, Listed(tree), NEW w \in Every(tree), Len(w.by) <= MaxDepth,
           Readable(tree, At(w)), NEW n \in DOMAIN tree[At(w)].include,
           NEW z, NEW sub, Right(tree, z, Part(tree, w, n - 1)),
           ~TooDeep(w.files) => Right(tree, sub, Below(tree, Further(tree, w, n)))
    PROVE  Right(tree, Included(z, w.files, tree[At(w)].include[n], sub), Part(tree, w, n))
  <1> DEFINE f == tree[At(w)].include[n]
             got == Included(z, w.files, f, sub)
             u == Further(tree, w, n)
             S == Part(tree, w, n - 1)
             T == Below(tree, u)
  <1>0. /\ IsWalk(tree, w) /\ MaxDepth \in Nat
        /\ Len(w.by) \in Nat /\ Len(w.files) = Len(w.by) + 1
        /\ n \in Nat \ {0}
    <2>1. IsWalk(tree, w)
      BY EveryIs
    <2>2. tree[At(w)].include \in Seq(File)
      BY <2>1, IsWalkShape DEF Readable, Listed
    <2>3. n \in Nat \ {0}
      BY <2>2
    <2> QED
      BY <2>1, <2>3, IsWalkShape, IncludeAssumption
  <1>1. Part(tree, w, n) = S \cup T
    BY <1>0, PartNext
  <1>2. IsWalk(tree, u) /\ Hop(tree, w, n, u)
    BY <1>0, FurtherIsWalk
  <1>3. u \in T
    <2>1. Past(u, u)
      BY <1>2, IsWalkShape DEF Past
    <2>2. Len(u.by) \in 0..(MaxDepth + 1)
      BY <1>0, <1>2 DEF Hop
    <2>3. u \in Every(tree)
      BY <1>2, <2>2, EveryIs
    <2> QED
      BY <2>1, <2>3 DEF Below
  <1>4. \A a \in S : \A b \in T : Precedes(a, b)
    BY <1>0, PartPrecedes
  <1>6. /\ u.files = Append(w.files, f) /\ Len(u.by) = Len(w.by) + 1
        /\ w.files \in Seq(File) /\ f \in File
    BY <1>0, <1>2, IsWalkShape DEF Hop
  <1> HIDE DEF f, u, S, T, got
  <1>7. \A e : Failed(e).err = e
    BY DEF Failed
  <1>8. CASE z.err # "none"
    <2>1. got = z
      BY <1>8 DEF Included, got
    <2> QED
      BY <1>1, <1>8, <2>1 DEF Right, Fine, S, T, u, got, f
  <1>9. CASE z.err = "none" /\ TooDeep(w.files)
    <2>1. got = Failed("DepthExceeded")
      BY <1>9 DEF Included, got
    <2>2. got.err = "DepthExceeded"
      BY <1>7, <2>1
    <2>3. ~(Len(u.by) <= MaxDepth)
      BY <1>0, <1>6, <1>9 DEF TooDeep
    <2>4. ~Fine(tree, S \cup T)
      BY <1>3, <2>3 DEF Fine
    <2>5. Right(tree, got, S \cup T)
      BY <2>2, <2>4 DEF Right
    <2> QED
      BY <1>1, <2>5 DEF got, f
  <1>10. CASE z.err = "none" /\ ~TooDeep(w.files) /\ f \in ToSet(w.files)
    <2>1. got = Failed("Cycle")
      BY <1>10 DEF Included, got
    <2>2. got.err = "Cycle"
      BY <1>7, <2>1
    <2>3. Len(u.by) <= MaxDepth
      BY <1>0, <1>6, <1>10 DEF TooDeep
    <2>4. ~IsInjective(u.files)
      <3>1. PICK k \in DOMAIN w.files : w.files[k] = f
        BY <1>10 DEF ToSet
      <3> DEFINE l == Len(w.files)
      <3>2. /\ l \in Nat /\ k \in 1..l
            /\ DOMAIN u.files = 1..(l + 1)
            /\ \A m \in 1..l : u.files[m] = w.files[m]
            /\ u.files[l + 1] = f
        <4> DEFINE c == w.files
        <4>1. c \in Seq(File) /\ k \in DOMAIN c
          BY <1>6
        <4> HIDE DEF c
        <4>2. /\ Len(c) \in Nat /\ k \in 1..Len(c)
              /\ DOMAIN Append(c, f) = 1..(Len(c) + 1)
              /\ \A m \in 1..Len(c) : Append(c, f)[m] = c[m]
              /\ Append(c, f)[Len(c) + 1] = f
          BY <1>6, <4>1, AppendProperties
        <4> QED
          BY <1>6, <4>2 DEF c
      <3>3. u.files[k] = u.files[l + 1] /\ k # l + 1 /\ k \in 1..(l + 1) /\ l + 1 \in 1..(l + 1)
        BY <3>1, <3>2
      <3> HIDE DEF l
      <3> QED
        BY <3>2, <3>3 DEF IsInjective
    <2>5. Right(tree, got, S \cup T)
      BY <1>3, <2>2, <2>3, <2>4 DEF Right
    <2> QED
      BY <1>1, <2>5 DEF got, f
  <1>11. CASE z.err = "none" /\ ~TooDeep(w.files) /\ f \notin ToSet(w.files) /\ sub.err # "none"
    <2>1. got = sub
      BY <1>11 DEF Included, got
    <2>2. Right(tree, sub, T)
      BY <1>11 DEF T, u
    <2>3. Right(tree, got, S \cup T)
      BY <1>11, <2>1, <2>2 DEF Right, Fine
    <2> QED
      BY <1>1, <2>3 DEF got, f
  <1>12. CASE z.err = "none" /\ ~TooDeep(w.files) /\ f \notin ToSet(w.files) /\ sub.err = "none"
    <2>1. got = Loaded(merge(z.cfg, sub.cfg))
      BY <1>12 DEF Included, got
    <2>2. got.err = "none" /\ got.cfg = merge(z.cfg, sub.cfg)
      BY <2>1 DEF Loaded
    <2>3. Right(tree, sub, T) /\ Right(tree, z, S)
      BY <1>12 DEF T, u, S
    <2>4. /\ Fine(tree, S) /\ Stands(tree, z.cfg, S)
          /\ Fine(tree, T) /\ Stands(tree, sub.cfg, T)
      BY <1>12, <2>3 DEF Right
    <2>6. Fine(tree, S \cup T)
      BY <2>4 DEF Fine
    <2>8. \A v \in S \cup T : IsWalk(tree, v) /\ IsList(tree[At(v)].deps)
      <3> TAKE v \in S \cup T
      <3>1. IsWalk(tree, v)
        BY EveryIs DEF S, T, Part, Below
      <3>2. At(v) \in File /\ Readable(tree, At(v))
        BY <2>6, <3>1, IsWalkShape DEF Fine
      <3>3. tree[At(v)].deps \in Seq(Group)
        BY <3>2 DEF Readable, Listed
      <3> QED
        BY <3>1, <3>3, SeqIsList
    <2>5. Stands(tree, got.cfg, S \cup T)
      BY <1>4, <2>2, <2>4, <2>8, StandsMerges
    <2>7. Right(tree, got, S \cup T)
      BY <2>2, <2>5, <2>6 DEF Right
    <2> QED
      BY <1>1, <2>7 DEF got, f
  <1> QED
    BY <1>8, <1>9, <1>10, <1>11, <1>12

LEMMA RightChained ==
    ASSUME NEW tree, Listed(tree), NEW w \in Every(tree), Len(w.by) <= MaxDepth, NEW expand,
           \/ TooDeep(w.files)
           \/ \A v \in Every(tree) :
                  Len(v.by) = Len(w.by) + 1 => Right(tree, expand[v.files], Below(tree, v))
    PROVE  Right(tree, Chained(tree, w.files, expand), Below(tree, w))
  <1> DEFINE own == read_file(tree, At(w))
             include == tree[At(w)].include
             N == Len(include)
  <1>0. IsWalk(tree, w) /\ At(w) \in File /\ At(w) = Last(w.files)
    BY EveryIs, IsWalkShape DEF At
  <1>1. CASE ~Readable(tree, At(w))
    <2>1. own.err \in {"Io", "Config"}
      BY <1>1 DEF read_file, Readable, Failed
    <2>2. Chained(tree, w.files, expand) = own
      BY <1>0, <2>1 DEF Chained
    <2>3. Below(tree, w) = {w} /\ ~Fine(tree, {w})
      BY <1>1, BelowSplits DEF Fine
    <2> HIDE DEF own
    <2> QED
      BY <2>1, <2>2, <2>3 DEF Right
  <1>2. CASE Readable(tree, At(w))
    <2>1. own = Loaded(Own(tree[At(w)])) /\ own.err = "none" /\ own.cfg = Own(tree[At(w)])
      BY <1>2 DEF read_file, Readable, Loaded
    <2>2. include \in Seq(File) /\ N \in Nat /\ DOMAIN include = 1..N
      BY <1>0, <1>2 DEF Readable, Listed
    <2>3. PICK u : MergedBy(u, tree, w.files, expand)
      BY <1>0, <2>1, <2>2, MergedSteps
    <2>4. /\ u[0] = own
          /\ \A n \in 1..N :
                u[n] = Included(u[n - 1], w.files, include[n], expand[Append(w.files, include[n])])
          /\ Chained(tree, w.files, expand) = u[N]
      BY <1>0, <2>3 DEF MergedBy
    <2> DEFINE G == {n \in 0..N : Right(tree, u[n], Part(tree, w, n))}
    <2>5. 0 \in G
      <3>1. Part(tree, w, 0) = {w}
        BY BelowSplits
      <3>2. Stands(tree, own.cfg, {w}) /\ Fine(tree, {w})
        BY <1>0, <1>2, <2>1, OwnStands DEF Fine
      <3> HIDE DEF own
      <3>3. Right(tree, own, {w})
        BY <2>1, <3>2 DEF Right
      <3>4. Right(tree, u[0], Part(tree, w, 0))
        BY <2>4, <3>1, <3>3
      <3>5. 0 \in 0..N
        BY <2>2
      <3> HIDE DEF N
      <3> QED
        BY <3>4, <3>5
    <2>6. ASSUME NEW n \in 1..N, n - 1 \in G
          PROVE  n \in G
      <3> DEFINE v == Further(tree, w, n)
                 sub == expand[Append(w.files, include[n])]
                 z == u[n - 1]
      <3>1. n \in DOMAIN include /\ n \in 0..N
        BY <2>2
      <3>2. IsWalk(tree, v) /\ Hop(tree, w, n, v)
        BY <1>0, <1>2, <3>1, FurtherIsWalk
      <3> HIDE DEF v
      <3>3. v.files = Append(w.files, include[n]) /\ Len(v.by) = Len(w.by) + 1
        BY <3>2 DEF Hop
      <3>4. v \in Every(tree)
        <4>1. Len(v.by) \in 0..(MaxDepth + 1)
          BY <1>0, <3>3, IsWalkShape, IncludeAssumption
        <4> QED
          BY <3>2, <4>1, EveryIs
      <3>5. ~TooDeep(w.files) => Right(tree, sub, Below(tree, v))
        BY <3>3, <3>4
      <3>6. Right(tree, z, Part(tree, w, n - 1))
        BY <2>6
      <3>7. u[n] = Included(z, w.files, include[n], sub)
        BY <2>4
      <3> HIDE DEF sub, z, include
      <3>8. Right(tree, Included(z, w.files, tree[At(w)].include[n], sub), Part(tree, w, n))
        BY <1>2, <3>1, <3>5, <3>6, RightIncluded DEF v, include
      <3> QED
        BY <3>1, <3>7, <3>8 DEF include
    <2>7. N \in G
      <3> HIDE DEF G, N
      <3>1. 0..N \subseteq G
        BY <2>2, <2>5, <2>6, Induct
      <3> QED
        BY <2>2, <3>1
    <2>8. Below(tree, w) = Part(tree, w, N)
      BY <1>2, BelowSplits
    <2> QED
      BY <2>4, <2>7, <2>8
  <1> QED
    BY <1>1, <1>2

LEMMA ListedPlain ==
    ASSUME NEW tree, Listed(tree)
    PROVE  Plain_(tree)
  BY DEF Listed, Plain_

LEMMA HomeIs ==
    ASSUME NEW tree, Listed(tree)
    PROVE  /\ Home \in Every(tree) /\ Len(Home.by) = 0 /\ Home.files = <<Root>>
           /\ Below(tree, Home) = Every(tree)
  <1>1. Home \in Every(tree)
    <2>1. 0 \in 0..(MaxDepth + 1)
      BY IncludeAssumption
    <2> QED
      BY <2>1, WalksSteps DEF Every
  <1>2. Len(Home.by) = 0 /\ Home.files = <<Root>> /\ Len(Home.files) = 1 /\ Home.files[1] = Root
    BY DEF Home
  <1>3. ASSUME NEW v \in Every(tree)
        PROVE  Past(Home, v)
    <2>1. IsWalk(tree, v) /\ v.files[1] = Root /\ Len(v.by) \in Nat
      BY EveryIs, IsWalkShape DEF IsWalk
    <2> HIDE DEF Home
    <2> QED
      BY <1>2, <2>1 DEF Past
  <1> QED
    BY <1>1, <1>2, <1>3 DEF Below

LEMMA ExpandRight ==
    ASSUME NEW tree, Listed(tree)
    PROVE  Right(tree, expand_includes(tree), Every(tree))
  <1> DEFINE body(h) == [c \in Chains |-> Chained(tree, c, h)]
             x == CHOOSE h : h = body(h)
             N == MaxDepth
             AllRight(n) == \A w \in Every(tree) :
                                Len(w.by) = N - n => Right(tree, x[w.files], Below(tree, w))
             G == {n \in 0..N : AllRight(n)}
  <1>0. N \in Nat /\ N = MaxDepth
    BY IncludeAssumption
  <1>1. x = body(x)
    <2>1. \E h : h = body(h)
      BY ListedPlain, ExpandExists
    <2> HIDE DEF body
    <2> QED
      BY <2>1
  <1>2. expand_includes(tree) = x[<<Root>>]
    BY DEF expand_includes
  <1> HIDE DEF x
  <1>3. ASSUME NEW w \in Every(tree)
        PROVE  /\ x[w.files] = Chained(tree, w.files, x)
               /\ Len(w.by) \in Nat /\ Len(w.files) = Len(w.by) + 1
    <2>1. /\ w.files \in Seq(File) /\ Len(w.by) \in Nat /\ Len(w.files) = Len(w.by) + 1
      BY EveryIs, IsWalkShape
    <2>2. w.files \in Chains
      BY <2>1, EmptySeq DEF Chains
    <2> QED
      BY <1>1, <2>1, <2>2
  <1>4. 0 \in G
    <2>1. ASSUME NEW w \in Every(tree), Len(w.by) = N - 0
          PROVE  Right(tree, x[w.files], Below(tree, w))
      <3>1. TooDeep(w.files) /\ Len(w.by) <= MaxDepth
        BY <1>0, <1>3, <2>1 DEF TooDeep
      <3>2. Right(tree, Chained(tree, w.files, x), Below(tree, w))
        BY <3>1, RightChained
      <3> QED
        BY <1>3, <3>2
    <2> QED
      BY <1>0, <2>1
  <1>5. ASSUME NEW n \in 1..N, n - 1 \in G
        PROVE  n \in G
    <2>1. ASSUME NEW w \in Every(tree), Len(w.by) = N - n
          PROVE  Right(tree, x[w.files], Below(tree, w))
      <3>1. /\ Len(w.by) <= MaxDepth
            /\ Len(w.by) + 1 = N - (n - 1)
        BY <1>0, <1>3, <2>1
      <3>2. AllRight(n - 1)
        BY <1>5
      <3>3. \A v \in Every(tree) :
                Len(v.by) = Len(w.by) + 1 => Right(tree, x[v.files], Below(tree, v))
        BY <3>1, <3>2
      <3>4. Right(tree, Chained(tree, w.files, x), Below(tree, w))
        BY <3>1, <3>3, RightChained
      <3> QED
        BY <1>3, <3>4
    <2> QED
      BY <1>0, <2>1
  <1>6. N \in G
    <2> HIDE DEF G, N
    <2>1. 0..N \subseteq G
      BY <1>0, <1>4, <1>5, Induct
    <2> QED
      BY <1>0, <2>1
  <1>7. /\ Home \in Every(tree) /\ Len(Home.by) = N - N /\ Home.files = <<Root>>
        /\ Below(tree, Home) = Every(tree)
    BY <1>0, HomeIs
  <1>8. AllRight(N)
    BY <1>6
  <1> HIDE DEF N
  <1>9. Right(tree, x[Home.files], Below(tree, Home))
    BY <1>7, <1>8
  <1> QED
    BY <1>2, <1>7, <1>9

\* The last of the walks with a setting is the only one.
LEMMA LastIs ==
    ASSUME NEW tree, NEW paths, NEW S, NEW k, NEW u, LastOf(tree, paths, S, k, u),
           \A w \in S : IsWalk(tree, w)
    PROVE  u = CHOOSE w \in Having(tree, S, k) :
                   \A v \in Having(tree, S, k) : v = w \/ Precedes(v, w)
  <1> DEFINE H == Having(tree, S, k)
             Latest(w) == w \in H /\ \A v \in H : v = w \/ Precedes(v, w)
  <1>1. Latest(u)
    BY DEF LastOf
  <1>2. ASSUME NEW w, Latest(w)
        PROVE  w = u
    <2>1. /\ w = u \/ Precedes(u, w)
          /\ w = u \/ Precedes(w, u)
      BY <1>1, <1>2
    <2>2. IsWalk(tree, w) /\ IsWalk(tree, u)
      BY <1>1, <1>2 DEF Having
    <2> QED
      BY <2>1, <2>2, PrecedesOnce
  <1> HIDE DEF H
  <1> QED
    BY <1>1, <1>2 DEF H

LEMMA LoadingIsSound ==
    ASSUME NEW tree, Listed(tree)
    PROVE  IncludeSound(tree)
  <1> DEFINE all == expand_includes(tree)
             got == load_with_includes(tree)
             walks == AllWalks(tree)
             files == {At(w) : w \in walks}
             having(k) == {w \in walks : k \in DOMAIN tree[At(w)].paths}
             last(S) == CHOOSE w \in S : \A v \in S : v = w \/ Precedes(v, w)
             Deep == Walks(tree)[MaxDepth + 1]
             Read == \A f \in files : Readable(tree, f)
             Known == \A f \in files : \A a \in Args(Own(tree[f])) : a.var => a.text \in KnownVar
  <1>0. MaxDepth \in Nat
    BY IncludeAssumption
  <1>1. Every(tree) = walks \cup Deep
    <2>1. 0..(MaxDepth + 1) = 0..MaxDepth \cup {MaxDepth + 1}
      BY <1>0
    <2> QED
      BY <2>1 DEF Every, AllWalks
  <1>2. /\ \A w \in walks : IsWalk(tree, w) /\ Len(w.by) <= MaxDepth
        /\ \A w \in Deep : IsWalk(tree, w) /\ Len(w.by) = MaxDepth + 1
    BY <1>0, WalksAre DEF AllWalks
  <1>3. Right(tree, all, Every(tree))
    BY ExpandRight
  <1> HIDE DEF all, walks, Deep
  <1>4. ASSUME all.err = "none"
        PROVE  Deep = {} /\ Read /\ Every(tree) = walks /\ Stands(tree, all.cfg, walks)
    <2>1. Fine(tree, Every(tree)) /\ Stands(tree, all.cfg, Every(tree))
      BY <1>3, <1>4 DEF Right
    <2>2. Deep = {}
      BY <1>0, <1>1, <1>2, <2>1 DEF Fine
    <2>3. Every(tree) = walks
      BY <1>1, <2>2
    <2> QED
      BY <2>1, <2>2, <2>3 DEF Fine
  <1>5. ASSUME Deep = {}, Read
        PROVE  all.err = "none"
    <2>1. Every(tree) = walks
      BY <1>1, <1>5
    <2>2. Fine(tree, Every(tree))
      BY <1>2, <1>5, <2>1 DEF Fine
    <2>3. \A v \in Every(tree) : IsInjective(v.files)
      <3> SUFFICES ASSUME NEW v \in Every(tree), ~IsInjective(v.files)
                   PROVE  FALSE
        OBVIOUS
      <3>1. PICK w \in Every(tree) : Len(w.by) = MaxDepth + 1
        BY RoundIsEndless
      <3>2. Len(w.by) <= MaxDepth
        BY <1>2, <2>1
      <3> QED
        BY <1>0, <3>1, <3>2
    <2> QED
      BY <1>3, <2>2, <2>3 DEF Right
  <1>6. ASSUME all.err # "none"
        PROVE  got = all
    BY <1>6 DEF load_with_includes, all
  <1>7. ASSUME all.err = "none"
        PROVE  /\ got.err = "none" <=> Known
               /\ got.err \in {"none", "UnknownStepVar"}
               /\ got.err = "none" => got.cfg = all.cfg
    <2> DEFINE Unknown == \E a \in Args(all.cfg) : a.var /\ a.text \notin KnownVar
    <2>1. got = resolve_step_vars(all.cfg)
      BY <1>7 DEF load_with_includes, all
    <2>2. got = IF Unknown THEN Failed("UnknownStepVar") ELSE Loaded(all.cfg)
      BY <2>1 DEF resolve_step_vars
    <2>3. /\ Failed("UnknownStepVar").err = "UnknownStepVar"
          /\ Loaded(all.cfg).err = "none" /\ Loaded(all.cfg).cfg = all.cfg
      BY DEF Failed, Loaded
    <2>4. Args(all.cfg) = UNION {Args(Own(tree[f])) : f \in files}
      BY <1>4, <1>7 DEF Stands, ArgsOf
    <2>5. Unknown <=> ~Known
      BY <2>4
    <2> HIDE DEF Unknown, Known, got
    <2> QED
      BY <2>2, <2>3, <2>5
  <1>8. got.err = "none" <=> /\ Read
                             /\ Deep = {}
                             /\ Known
    <2> HIDE DEF got, Read, Known
    <2>1. CASE all.err = "none"
      BY <1>4, <1>7, <2>1
    <2>2. CASE all.err # "none"
      BY <1>5, <1>6, <2>2
    <2> QED
      BY <2>1, <2>2
  <1>9. ASSUME got.err = "none"
        PROVE  /\ Len(got.cfg.deps) = Cardinality(Places(tree, walks))
               /\ \A p \in Places(tree, walks) :
                      got.cfg.deps[Cardinality(AheadOf(tree, walks, p)) + 1] = GroupAt(tree, p)
               /\ DOMAIN got.cfg.paths = UNION {DOMAIN tree[f].paths : f \in files}
               /\ \A k \in DOMAIN got.cfg.paths :
                      got.cfg.paths[k] = tree[At(last(having(k)))].paths[k]
    <2> HIDE DEF got
    <2>1. all.err = "none" /\ got.cfg = all.cfg
      BY <1>6, <1>7, <1>9
    <2>2. Stands(tree, got.cfg, walks) /\ Read
      BY <1>4, <2>1
    <2> DEFINE cfg == got.cfg
    <2> HIDE DEF cfg
    <2>3. /\ Ordered(tree, cfg.deps, walks)
          /\ Settings(tree, cfg.paths, walks)
      BY <2>2 DEF Stands, cfg
    <2>4. /\ Len(cfg.deps) = Cardinality(Places(tree, walks))
          /\ \A p \in Places(tree, walks) :
                cfg.deps[Cardinality(AheadOf(tree, walks, p)) + 1] = GroupAt(tree, p)
      BY <2>3 DEF Ordered
    <2>5. DOMAIN cfg.paths = UNION {DOMAIN tree[f].paths : f \in files}
      BY <2>3 DEF Settings
    <2>6. ASSUME NEW k \in DOMAIN cfg.paths
          PROVE  cfg.paths[k] = tree[At(last(having(k)))].paths[k]
      <3>1. PICK u : LastOf(tree, cfg.paths, walks, k, u)
        BY <2>3 DEF Settings
      <3>2. having(k) = Having(tree, walks, k)
        BY DEF Having
      <3>3. u = CHOOSE w \in Having(tree, walks, k) :
                    \A v \in Having(tree, walks, k) : v = w \/ Precedes(v, w)
        BY <1>2, <3>1, LastIs
      <3>4. u = last(having(k))
        BY <3>2, <3>3
      <3> HIDE DEF having, last
      <3> QED
        BY <3>1, <3>4 DEF LastOf
    <2> HIDE DEF files, having, last
    <2> QED
      BY <2>4, <2>5, <2>6 DEF cfg
  <1>10. ASSUME got.err = "Cycle"
         PROVE  \E w \in walks : ~IsInjective(w.files)
    <2> HIDE DEF got
    <2>1. all.err = "Cycle"
      BY <1>6, <1>7, <1>10
    <2>2. PICK v \in Every(tree) : Len(v.by) <= MaxDepth /\ ~IsInjective(v.files)
      BY <1>3, <2>1 DEF Right
    <2>3. v \in walks
      BY <1>0, <1>1, <1>2, <2>2
    <2> QED
      BY <2>2, <2>3
  <1> HIDE DEF got, having, last
  <1> QED
    BY <1>8, <1>9, <1>10 DEF IncludeSound, got, walks, Deep, having, last

\* LoadSound for every tree of the assumption: a config loads exactly when
\* all that its includes reach can be read, none goes round or too deep and
\* its steps' variables are known; it then holds what the files hold, as
\* often as they are included, and of a setting the last (load_with_includes).
THEOREM LoadsRight == Spec => []LoadSound
  <1>1. \A t \in IncludeCases : IncludeSound(t)
    BY DepsAssumption, LoadingIsSound DEF Listed
  <1>2. LoadSound
    BY <1>1 DEF LoadSound
  <1> QED
    BY <1>2, PTL

(***************************************************************************)
(* Planning                                                                *)
(***************************************************************************)
LEMMA ThoseIs ==
    ASSUME NEW T, NEW s \in Seq(T), NEW S
    PROVE  /\ Among(s, S) \in Seq(T)
           /\ ToSet(Among(s, S)) = ToSet(s) \cap S
           /\ ToSet(s) \subseteq T
  <1>1. ToSet(s) \subseteq T
    BY DEF ToSet
  <1> QED
    BY <1>1, AmongSet

LEMMA GroupsTyped ==
    ASSUME NEW c, NEW groups \in Seq(Group)
    PROVE  /\ Selected(c, groups) \in Seq(Group)
           /\ ForPlatform(groups) \in Seq(Group)
  BY AmongSet DEF Selected, ForPlatform, Those

\* What the sources of a queue are.
Item == [m : Source, es : Seq(Entry)]

LEMMA ManagersTyped ==
    ASSUME NEW c, host \in Host
    PROVE  candidate_managers(c) \in Seq(Manager)
  <1>1. candidate_managers(c) \in {detect_all, pick_by_name(c.manager)}
    BY DEF candidate_managers
  <1>2. pick_by_name(c.manager) \in Seq(Manager)
    <2>1. CASE c.manager \in Manager
      BY <2>1 DEF pick_by_name
    <2>2. CASE c.manager \notin Manager
      BY <2>2 DEF pick_by_name
    <2> QED
      BY <2>1, <2>2
  <1>3. candidates_for_os(host.os) \in Seq(Manager)
    <2>1. host.os \in {"linux", "macos", "windows"}
      BY PackagesAssumption
    <2>2. /\ <<"brew">> \in Seq(Manager) /\ <<"scoop", "winget">> \in Seq(Manager)
          /\ <<"pacman", "dnf", "apt">> \in Seq(Manager)
      BY DEF Manager
    <2> DEFINE os == host.os
    <2> HIDE DEF os
    <2>3. CASE os = "macos"
      BY <2>2, <2>3 DEF candidates_for_os, os
    <2>4. CASE os = "windows"
      BY <2>2, <2>4 DEF candidates_for_os, os
    <2>5. CASE os = "linux"
      BY <2>2, <2>5 DEF candidates_for_os, os
    <2> QED
      BY <2>1, <2>3, <2>4, <2>5 DEF os
  <1>4. detect_all \in Seq(Manager)
    BY <1>3, AmongSet DEF detect_all
  <1> QED
    BY <1>1, <1>2, <1>4

\* Owner, Served and Asked of any groups and managers.
ServedIn(g, managers) == \E m \in ToSet(managers) : g.lists[m] # << >>

ListingIn(g, ms) == {i \in DOMAIN ms : g.lists[ms[i]] # << >>}

OwnerIn(g, ms) ==
    LET listing == ListingIn(g, ms)
    IN  ms[CHOOSE i \in listing : \A j \in listing : i <= j]

AskedIn(groups, managers) ==
    FlattenSeq([i \in DOMAIN groups |->
        IF ServedIn(groups[i], managers) THEN groups[i].lists[OwnerIn(groups[i], managers)]
        ELSE << >>])

UnservedIn(groups, managers, n) ==
    {i \in DOMAIN groups : groups[i].group = n /\ ~ServedIn(groups[i], managers)}

LEMMA OwnerIsFirst ==
    ASSUME NEW g \in Group, NEW ms \in Seq(Manager)
    PROVE  /\ Listing(g, ms) # << >> <=> ServedIn(g, ms)
           /\ ServedIn(g, ms) => /\ Head(Listing(g, ms)) = OwnerIn(g, ms)
                                 /\ OwnerIn(g, ms) \in Manager
  <1> DEFINE S == {m \in Manager : g.lists[m] # << >>}
             I == ListingIn(g, ms)
  <1>1. /\ Listing(g, ms) = Among(ms, S)
        /\ Among(ms, S) \in Seq(Manager) /\ ToSet(Among(ms, S)) = ToSet(ms) \cap S
    BY AmongSet DEF Listing
  <1>2. ServedIn(g, ms) <=> ToSet(ms) \cap S # {}
    BY DEF ServedIn, ToSet
  <1>3. Among(ms, S) # << >> <=> ToSet(Among(ms, S)) # {}
    <2> DEFINE l == Among(ms, S)
    <2>1. l \in Seq(Manager)
      BY <1>1
    <2> HIDE DEF l
    <2>2. l # << >> <=> ToSet(l) # {}
      BY <2>1, SetOfEmpty
    <2> QED
      BY <2>2 DEF l
  <1>4. ASSUME ServedIn(g, ms)
        PROVE  Head(Among(ms, S)) = OwnerIn(g, ms) /\ OwnerIn(g, ms) \in Manager
    <2>1. I \in SUBSET Nat /\ I # {}
      BY <1>4 DEF ServedIn, ListingIn, ToSet
    <2>2. \E i \in I : \A j \in I : i <= j
      <3> HIDE DEF I
      <3> QED
        BY <2>1, Least
    <2> DEFINE k == CHOOSE i \in I : \A j \in I : i <= j
    <2>3. k \in I /\ \A j \in I : k <= j
      <3> HIDE DEF I
      <3> QED
        BY <2>2
    <2>4. OwnerIn(g, ms) = ms[k]
      BY DEF OwnerIn
    <2> HIDE DEF k
    <2>5. /\ k \in DOMAIN ms /\ ms[k] \in Manager /\ ms[k] \in S
          /\ \A j \in DOMAIN ms : ms[j] \in S => k <= j
      BY <2>3 DEF ListingIn
    <2>6. Head(Among(ms, S)) = ms[k]
      <3> HIDE DEF S
      <3> QED
        BY <2>5, AmongFirst
    <2> QED
      BY <2>4, <2>5, <2>6
  <1> QED
    BY <1>1, <1>2, <1>3, <1>4

(***************************************************************************)
(* What a queue still has to do                                            *)
(***************************************************************************)
EntriesOf == [x \in Item |-> x.es]

LEMMA ToDoIs ==
    ASSUME NEW q \in Seq(Item)
    PROVE  /\ ToDo(q) = FlattenSeq(Mapped(EntriesOf, q))
           /\ EntriesOf \in Maps(Item, Seq(Entry))
           /\ Mapped(EntriesOf, q) \in Seq(Seq(Entry))
  <1>1. EntriesOf \in Maps(Item, Seq(Entry))
    <2>1. \A x \in Item : x.es \in Seq(Entry)
      BY DEF Item
    <2> QED
      BY <2>1 DEF EntriesOf, Maps
  <1>2. \A i \in DOMAIN q : q[i] \in Item
    OBVIOUS
  <1>3. [i \in DOMAIN q |-> q[i].es] = Mapped(EntriesOf, q)
    BY <1>2 DEF Mapped, EntriesOf
  <1> DEFINE U == Seq(Entry)
  <1>4. Mapped(EntriesOf, q) \in Seq(U)
    <2> HIDE DEF U
    <2>1. EntriesOf \in Maps(Item, U)
      BY <1>1 DEF U
    <2> QED
      BY <2>1, MappedType
  <1> QED
    BY <1>1, <1>3, <1>4, Zenon DEF ToDo

LEMMA ToDoTyped ==
    ASSUME NEW q \in Seq(Item)
    PROVE  ToDo(q) \in Seq(Entry)
  <1> DEFINE s == Mapped(EntriesOf, q)
  <1>1. s \in Seq(Seq(Entry)) /\ ToDo(q) = FlattenSeq(s)
    BY ToDoIs
  <1> HIDE DEF s
  <1> QED
    BY <1>1, FlatType

LEMMA ToDoConcat ==
    ASSUME NEW q \in Seq(Item), NEW r \in Seq(Item)
    PROVE  ToDo(q \o r) = ToDo(q) \o ToDo(r)
  <1> DEFINE a == Mapped(EntriesOf, q)
             b == Mapped(EntriesOf, r)
             c == q \o r
             U == Seq(Entry)
  <1>1. a \in Seq(Seq(Entry)) /\ ToDo(q) = FlattenSeq(a)
    BY ToDoIs
  <1>2. b \in Seq(Seq(Entry)) /\ ToDo(r) = FlattenSeq(b)
    BY ToDoIs
  <1>3. ToDo(c) = FlattenSeq(Mapped(EntriesOf, c))
    <2>1. c \in Seq(Item)
      BY ConcatProperties
    <2> HIDE DEF c
    <2> QED
      BY <2>1, ToDoIs
  <1>4. Mapped(EntriesOf, q \o r) = a \o b
    <2>1. EntriesOf \in Maps(Item, U)
      BY ToDoIs
    <2> HIDE DEF U
    <2> QED
      BY <2>1, MappedConcat
  <1>5. FlattenSeq(a \o b) = FlattenSeq(a) \o FlattenSeq(b)
    <2> HIDE DEF a, b
    <2> QED
      BY <1>1, <1>2, FlatConcat
  <1> QED
    BY <1>1, <1>2, <1>3, <1>4, <1>5, Zenon

LEMMA ToDoEmpty == ToDo(<< >>) = << >>
  <1>1. [i \in DOMAIN << >> |-> << >>[i].es] = << >>
    OBVIOUS
  <1> QED
    BY <1>1, FlatEmpty DEF ToDo

LEMMA ToDoOne ==
    ASSUME NEW x \in Item
    PROVE  ToDo(<<x>>) = x.es
  <1>1. [i \in DOMAIN <<x>> |-> <<x>>[i].es] = <<x.es>>
    OBVIOUS
  <1>2. x.es \in Seq(Entry)
    BY DEF Item
  <1> QED
    BY <1>1, <1>2, FlatOne DEF ToDo

LEMMA ToDoNext ==
    ASSUME NEW q \in Seq(Item), q # << >>, NEW e
    PROVE  /\ Head(q) \in Item /\ Tail(q) \in Seq(Item)
           /\ Count(ToDo(q), e) = Count(Head(q).es, e) + Count(ToDo(Tail(q)), e)
  <1> DEFINE h == Head(q)
             r == Tail(q)
  <1>1. h \in Item /\ r \in Seq(Item) /\ <<h>> \in Seq(Item)
    OBVIOUS
  <1>2. q = <<h>> \o r
    OBVIOUS
  <1> HIDE DEF h, r
  <1>3. ToDo(<<h>> \o r) = ToDo(<<h>>) \o ToDo(r)
    BY <1>1, ToDoConcat
  <1>4. ToDo(q) = h.es \o ToDo(r)
    BY <1>1, <1>2, <1>3, ToDoOne, Zenon
  <1>5. h.es \in Seq(Entry) /\ ToDo(r) \in Seq(Entry)
    BY <1>1, ToDoTyped DEF Item
  <1> DEFINE x == h.es
             y == ToDo(r)
  <1>6. Count(x \o y, e) = Count(x, e) + Count(y, e)
    <2>1. x \in Seq(Entry) /\ y \in Seq(Entry)
      BY <1>5
    <2> HIDE DEF x, y
    <2> QED
      BY <2>1, CountConcat
  <1> QED
    BY <1>1, <1>4, <1>6 DEF h, r

(***************************************************************************)
(* The plan settles what is asked for                                      *)
(***************************************************************************)
\* Queue q has the entries L that manager m was chosen for: natives for m,
\* crates for cargo, and each as often.
Shares(q) == \A x \in ToSet(q) : \A e \in ToSet(x.es) : x.m = "cargo" <=> e.src = "cargo"

Covers(q, m, L) ==
    \A e \in ToSet(L) : \E x \in ToSet(q) :
        x.m = (IF e.src = "cargo" THEN "cargo" ELSE m) /\ e \in ToSet(x.es)

LEMMA ShareIs ==
    ASSUME NEW L \in Seq(Entry), NEW src \in {"native", "cargo"}
    PROVE  LET s == Those(L, LAMBDA e : e.src = src)
           IN  /\ s \in Seq(Entry)
               /\ ToSet(s) = {e \in ToSet(L) : e.src = src}
               /\ \A e : Count(s, e) = IF e.src = src THEN Count(L, e) ELSE 0
  <1> DEFINE S == {e \in ToSet(L) : e.src = src}
             s == Among(L, S)
  <1>1. s \in Seq(Entry) /\ ToSet(s) = ToSet(L) \cap S
    <2> HIDE DEF S
    <2> QED
      BY AmongSet
  <1>2. ASSUME NEW e
        PROVE  Count(s, e) = IF e.src = src THEN Count(L, e) ELSE 0
    <2>1. Count(s, e) = IF e \in S THEN Count(L, e) ELSE 0
      <3> HIDE DEF S
      <3> QED
        BY CountAmong
    <2>2. e \notin ToSet(L) => Count(L, e) = 0
      BY CountAbsent
    <2> HIDE DEF s
    <2> QED
      BY <2>1, <2>2
  <1> QED
    BY <1>1, <1>2 DEF Those

LEMMA SourcesOK ==
    ASSUME NEW g \in Group, NEW ms \in Seq(Manager), ServedIn(g, ms)
    PROVE  /\ sources(g, ms) \in Seq(Item)
           /\ Shares(sources(g, ms))
           /\ Covers(sources(g, ms), OwnerIn(g, ms), g.lists[OwnerIn(g, ms)])
           /\ \A e \in Entry : Count(ToDo(sources(g, ms)), e) = Count(g.lists[OwnerIn(g, ms)], e)
  <1> DEFINE m == OwnerIn(g, ms)
             L == g.lists[m]
             N == Those(L, LAMBDA e : e.src = "native")
             C == Those(L, LAMBDA e : e.src = "cargo")
             A == [m |-> m, es |-> N]
             B == [m |-> "cargo", es |-> C]
             two == <<A, B>>
             S == {x \in ToSet(two) : x.es # << >>}
             q == Among(two, S)
  <1>1. m \in Manager /\ Head(Listing(g, ms)) = m
    BY OwnerIsFirst
  <1>2. L \in Seq(Entry)
    BY <1>1 DEF Group
  <1>3. sources(g, ms) = q
    BY <1>1 DEF sources, Those
  <1> HIDE DEF m, L
  <1>4. /\ N \in Seq(Entry) /\ C \in Seq(Entry)
        /\ ToSet(N) = {e \in ToSet(L) : e.src = "native"}
        /\ ToSet(C) = {e \in ToSet(L) : e.src = "cargo"}
        /\ \A e : Count(N, e) = IF e.src = "native" THEN Count(L, e) ELSE 0
        /\ \A e : Count(C, e) = IF e.src = "cargo" THEN Count(L, e) ELSE 0
    BY <1>2, ShareIs
  <1>5. ToSet(L) \subseteq Entry /\ \A e \in Entry : e.src \in {"native", "cargo"}
    <2>1. ToSet(L) \subseteq Entry
      BY <1>2 DEF ToSet
    <2>2. \A e \in Entry : e.src \in {"native", "cargo"}
      BY DEF Entry
    <2> QED
      BY <2>1, <2>2
  <1> HIDE DEF N, C
  <1>6. A \in Item /\ B \in Item /\ m # "cargo"
    BY <1>1, <1>4 DEF Item, Source, Manager
  <1>7. two \in Seq(Item) /\ ToSet(two) = {A, B}
    <2> HIDE DEF A, B
    <2> QED
      BY <1>6 DEF ToSet
  <1>8. A.m = m /\ A.es = N /\ B.m = "cargo" /\ B.es = C
    OBVIOUS
  <1>9. q \in Seq(Item) /\ ToSet(q) = {x \in {A, B} : x.es # << >>}
    <2> HIDE DEF A, B
    <2>1. q \in Seq(Item) /\ ToSet(q) = ToSet(two) \cap S
      <3> HIDE DEF S, two
      <3> QED
        BY <1>7, AmongSet
    <2> HIDE DEF q, two
    <2> QED
      BY <1>7, <2>1
  <1>10. (N # << >> <=> ToSet(N) # {}) /\ (C # << >> <=> ToSet(C) # {})
    BY <1>4, SetOfEmpty
  <1> DEFINE a == A
             b == B
  <1>11. ASSUME NEW e \in Entry
         PROVE  Count(ToDo(q), e) = Count(L, e)
    <2>1. Count(N, e) + Count(C, e) = Count(L, e)
      <3>1. e.src \in {"native", "cargo"} /\ Count(L, e) \in Nat
        BY <1>2, <1>5, CountType
      <3> QED
        BY <1>4, <3>1
    <2>2. Count(<< >>, e) = 0
      BY CountNone
    <2>3. Count(N, e) \in Nat /\ Count(C, e) \in Nat
      BY <1>4, CountType
    <2> HIDE DEF A, B, S
    <2>4. Among(<<A>>, S) = IF A \in S THEN <<A>> ELSE << >>
      <3> DEFINE z == << >>
      <3>1. z \in Seq(Item) /\ Among(z, S) = z
        BY AmongEmpty
      <3>2. Append(z, A) = <<A>>
        OBVIOUS
      <3> HIDE DEF z
      <3>3. Among(Append(z, A), S) = IF A \in S THEN Append(z, A) ELSE z
        BY <1>6, <3>1, AmongAppend
      <3>4. Among(<<A>>, S) = IF A \in S THEN <<A>> ELSE z
        BY <3>2, <3>3, Zenon
      <3> QED
        BY <3>4 DEF z
    <2>5. q = IF B \in S THEN Append(Among(<<A>>, S), B) ELSE Among(<<A>>, S)
      <3> DEFINE z == <<A>>
      <3>1. z \in Seq(Item) /\ Append(z, B) = two
        BY <1>6, Pair
      <3> HIDE DEF z, two
      <3>2. Among(Append(z, B), S) = IF B \in S THEN Append(Among(z, S), B) ELSE Among(z, S)
        BY <1>6, <3>1, AmongAppend
      <3>3. q = IF B \in S THEN Append(Among(z, S), B) ELSE Among(z, S)
        BY <3>1, <3>2, Zenon
      <3> QED
        BY <3>3 DEF z
    <2>6. (A \in S <=> N # << >>) /\ (B \in S <=> C # << >>)
      <3> HIDE DEF two
      <3> QED
        BY <1>7, <1>8 DEF S
    <2> HIDE DEF q, S
    <2>7. ToDo(<<A>>) = N /\ ToDo(<<B>>) = C
      BY <1>6, <1>8, ToDoOne
    <2>8. CASE A \in S /\ B \in S
      <3>1. q = <<A, B>>
        <4>1. q = Append(<<A>>, B)
          BY <2>4, <2>5, <2>8, Zenon
        <4> QED
          BY <1>6, <4>1, Pair
      <3>2. <<A, B>> = <<A>> \o <<B>> /\ <<A>> \in Seq(Item) /\ <<B>> \in Seq(Item)
        BY <1>6, Pair
      <3>3. ToDo(<<A>> \o <<B>>) = ToDo(<<A>>) \o ToDo(<<B>>)
        <4> DEFINE x == <<A>>
                   y == <<B>>
        <4>1. x \in Seq(Item) /\ y \in Seq(Item)
          BY <3>2
        <4> HIDE DEF x, y
        <4>2. ToDo(x \o y) = ToDo(x) \o ToDo(y)
          BY <4>1, ToDoConcat
        <4> QED
          BY <4>2 DEF x, y
      <3>4. ToDo(q) = N \o C
        BY <2>7, <3>1, <3>2, <3>3, Zenon
      <3>5. Count(N \o C, e) = Count(N, e) + Count(C, e)
        BY <1>4, CountConcat
      <3> QED
        BY <2>1, <3>4, <3>5
    <2>9. CASE A \in S /\ B \notin S
      <3>1. q = <<A>>
        BY <2>4, <2>5, <2>9
      <3>2. ToDo(q) = N
        BY <2>7, <3>1, Zenon
      <3>3. Count(C, e) = 0
        BY <2>2, <2>6, <2>9
      <3> QED
        BY <2>1, <2>3, <3>2, <3>3
    <2>10. CASE A \notin S /\ B \in S
      <3>1. q = <<B>>
        BY <2>4, <2>5, <2>10
      <3>2. ToDo(q) = C
        BY <2>7, <3>1, Zenon
      <3>3. Count(N, e) = 0
        BY <2>2, <2>6, <2>10
      <3> QED
        BY <2>1, <2>3, <3>2, <3>3
    <2>11. CASE A \notin S /\ B \notin S
      <3>1. q = << >>
        BY <2>4, <2>5, <2>11
      <3>2. ToDo(q) = << >>
        BY <3>1, ToDoEmpty
      <3>3. Count(N, e) = 0 /\ Count(C, e) = 0
        BY <2>2, <2>6, <2>11
      <3> QED
        BY <2>1, <2>2, <3>2, <3>3
    <2> QED
      BY <2>8, <2>9, <2>10, <2>11
  <1> HIDE DEF q, A, B
  <1>12. Shares(q)
    BY <1>4, <1>6, <1>8, <1>9 DEF Shares
  <1>13. Covers(q, m, L)
    <2> SUFFICES ASSUME NEW e \in ToSet(L)
                 PROVE  \E x \in ToSet(q) :
                            x.m = (IF e.src = "cargo" THEN "cargo" ELSE m) /\ e \in ToSet(x.es)
      BY DEF Covers
    <2>1. CASE e.src = "cargo"
      <3>1. e \in ToSet(C)
        BY <1>4, <2>1
      <3>2. B \in ToSet(q)
        BY <1>8, <1>9, <1>10, <3>1
      <3> QED
        BY <1>8, <2>1, <3>1, <3>2
    <2>2. CASE e.src = "native"
      <3>1. e \in ToSet(N)
        BY <1>4, <2>2
      <3>2. A \in ToSet(q)
        BY <1>8, <1>9, <1>10, <3>1
      <3> QED
        BY <1>8, <2>2, <3>1, <3>2
    <2> QED
      BY <1>5, <2>1, <2>2
  <1> QED
    BY <1>3, <1>9, <1>11, <1>12, <1>13 DEF m, L

\* The plan by one group more.
LEMMA PlanAppend ==
    ASSUME NEW gs \in Seq(Group), NEW g \in Group, NEW ms \in Seq(Manager),
           plan_groups(gs, ms) \in Seq(Item)
    PROVE  plan_groups(Append(gs, g), ms) =
             IF ServedIn(g, ms) THEN plan_groups(gs, ms) \o sources(g, ms)
             ELSE plan_groups(gs, ms)
  <1> DEFINE U == Seq(Item)
             S == {x \in Group : ServedIn(x, ms)}
             f == [x \in Group |-> IF ServedIn(x, ms) THEN sources(x, ms) ELSE << >>]
             plan(P) == FlattenSeq(Mapped(f, P))
             tt == Append(gs, g)
  <1>1. f \in Maps(Group, U)
    <2> SUFFICES ASSUME NEW x \in Group
                 PROVE  (IF ServedIn(x, ms) THEN sources(x, ms) ELSE << >>) \in Seq(Item)
      BY DEF Maps
    <2> QED
      BY SourcesOK
  <1>2. ASSUME NEW s \in Seq(Group)
        PROVE  plan_groups(s, ms) = plan(Among(s, S)) /\ Among(s, S) \in Seq(Group)
    <2> DEFINE R == {x \in ToSet(s) : Listing(x, ms) # << >>}
               P == Among(s, R)
    <2>1. \A x \in ToSet(s) : x \in R <=> x \in S
      <3> TAKE x \in ToSet(s)
      <3>1. x \in Group
        BY DEF ToSet
      <3> QED
        BY <3>1, OwnerIsFirst
    <2>2. plan_groups(s, ms) = FlattenSeq([i \in DOMAIN P |-> sources(P[i], ms)])
      BY DEF plan_groups, Those
    <2> HIDE DEF R, S
    <2>3. P = Among(s, S)
      BY <2>1, AmongSame
    <2>4. P \in Seq(Group) /\ ToSet(P) = ToSet(s) \cap R
      BY AmongSet
    <2> HIDE DEF P
    <2>5. \A i \in DOMAIN P : P[i] \in Group /\ P[i] \in S
      <3> TAKE i \in DOMAIN P
      <3>1. P[i] \in ToSet(P)
        BY DEF ToSet
      <3> QED
        BY <2>1, <2>4, <3>1
    <2>6. [i \in DOMAIN P |-> sources(P[i], ms)] = Mapped(f, P)
      BY <2>5 DEF Mapped, S
    <2> QED
      BY <2>2, <2>3, <2>4, <2>6
  <1>3. tt \in Seq(Group)
    BY AppendProperties
  <1> DEFINE P == Among(gs, S)
             Q == Among(tt, S)
  <1>4. plan_groups(gs, ms) = plan(P) /\ P \in Seq(Group)
    BY <1>2
  <1>5. plan_groups(tt, ms) = plan(Q)
    <2> HIDE DEF tt
    <2> QED
      BY <1>2, <1>3
  <1>6. Q = IF g \in S THEN Append(P, g) ELSE P
    <2> HIDE DEF S
    <2> QED
      BY AmongAppend
  <1> HIDE DEF f, P, Q, S, U
  <1>7. CASE g \in S
    <2>1. Mapped(f, Append(P, g)) = Append(Mapped(f, P), f[g]) /\ Mapped(f, P) \in Seq(U)
      BY <1>1, <1>4, MappedAppend, MappedType
    <2>2. f[g] = sources(g, ms) /\ f[g] \in U
      BY <1>1, <1>7 DEF f, S, Maps
    <2> DEFINE x == Mapped(f, P)
               y == f[g]
    <2>3. FlattenSeq(Append(x, y)) = FlattenSeq(x) \o y
      <3>1. x \in Seq(Seq(Item)) /\ y \in Seq(Item)
        BY <2>1, <2>2 DEF U
      <3> HIDE DEF x, y
      <3> QED
        BY <3>1, FlatAppend
    <2>4. plan(Q) = plan(P) \o sources(g, ms)
      BY <1>6, <1>7, <2>1, <2>2, <2>3, Zenon
    <2> QED
      BY <1>4, <1>5, <1>7, <2>4, Zenon DEF S
  <1>8. CASE g \notin S
    <2>1. Q = P /\ ~ServedIn(g, ms)
      BY <1>6, <1>8 DEF S
    <2> QED
      BY <1>4, <1>5, <2>1, Zenon
  <1> QED
    BY <1>7, <1>8

\* What is asked for by one group more.
LEMMA AskedAppend ==
    ASSUME NEW gs \in Seq(Group), NEW g \in Group, NEW ms \in Seq(Manager)
    PROVE  /\ AskedIn(gs, ms) \in Seq(Entry)
           /\ AskedIn(Append(gs, g), ms) =
                AskedIn(gs, ms) \o (IF ServedIn(g, ms) THEN g.lists[OwnerIn(g, ms)] ELSE << >>)
  <1> DEFINE U == Seq(Entry)
             f == [x \in Group |-> IF ServedIn(x, ms) THEN x.lists[OwnerIn(x, ms)] ELSE << >>]
             tt == Append(gs, g)
  <1>1. f \in Maps(Group, U)
    <2> SUFFICES ASSUME NEW x \in Group
                 PROVE  (IF ServedIn(x, ms) THEN x.lists[OwnerIn(x, ms)] ELSE << >>) \in Seq(Entry)
      BY DEF Maps
    <2>1. ServedIn(x, ms) => OwnerIn(x, ms) \in Manager
      BY OwnerIsFirst
    <2>2. \A m \in Manager : x.lists[m] \in Seq(Entry)
      BY DEF Group
    <2> QED
      BY <2>1, <2>2
  <1>2. ASSUME NEW s \in Seq(Group)
        PROVE  AskedIn(s, ms) = FlattenSeq(Mapped(f, s))
    <2>1. \A i \in DOMAIN s : s[i] \in Group
      OBVIOUS
    <2>2. [i \in DOMAIN s |-> IF ServedIn(s[i], ms) THEN s[i].lists[OwnerIn(s[i], ms)] ELSE << >>]
            = Mapped(f, s)
      BY <2>1 DEF Mapped
    <2> QED
      BY <2>2, Zenon DEF AskedIn
  <1>3. tt \in Seq(Group)
    BY AppendProperties
  <1>4. AskedIn(tt, ms) = FlattenSeq(Mapped(f, tt))
    <2> HIDE DEF tt, f
    <2> QED
      BY <1>2, <1>3
  <1> HIDE DEF U
  <1> DEFINE x == Mapped(f, gs)
             y == f[g]
  <1>5. Mapped(f, tt) = Append(x, y) /\ x \in Seq(U) /\ y \in U
    <2> HIDE DEF f
    <2> QED
      BY <1>1, MappedAppend, MappedType DEF Maps
  <1>6. y = IF ServedIn(g, ms) THEN g.lists[OwnerIn(g, ms)] ELSE << >>
    OBVIOUS
  <1>7. FlattenSeq(Append(x, y)) = FlattenSeq(x) \o y /\ FlattenSeq(x) \in Seq(Entry)
    <2>1. x \in Seq(Seq(Entry)) /\ y \in Seq(Entry)
      BY <1>5 DEF U
    <2> HIDE DEF x, y
    <2> QED
      BY <2>1, FlatAppend, FlatType
  <1>8. AskedIn(gs, ms) = FlattenSeq(x)
    <2> HIDE DEF f
    <2> QED
      BY <1>2
  <1> HIDE DEF x, y, f
  <1> QED
    BY <1>4, <1>5, <1>6, <1>7, <1>8, Zenon

\* What is unavailable by one group more.
LEMMA UnavailableAppend ==
    ASSUME NEW gs \in Seq(Group), NEW g \in Group, NEW ms \in Seq(Manager)
    PROVE  /\ unavailable(gs, ms) \in Seq(GroupName)
           /\ unavailable(Append(gs, g), ms) =
                IF ServedIn(g, ms) THEN unavailable(gs, ms)
                ELSE Append(unavailable(gs, ms), g.group)
  <1> DEFINE S == {x \in Group : ~ServedIn(x, ms)}
             f == [x \in Group |-> x.group]
             tt == Append(gs, g)
  <1>1. f \in Maps(Group, GroupName)
    <2>1. \A x \in Group : x.group \in GroupName
      BY DEF Group
    <2> QED
      BY <2>1 DEF Maps
  <1>2. ASSUME NEW s \in Seq(Group)
        PROVE  unavailable(s, ms) = Mapped(f, Among(s, S)) /\ Among(s, S) \in Seq(Group)
    <2> DEFINE R == {x \in ToSet(s) : Listing(x, ms) = << >>}
               P == Among(s, R)
    <2>1. \A x \in ToSet(s) : x \in R <=> x \in S
      <3> TAKE x \in ToSet(s)
      <3>1. x \in Group
        BY DEF ToSet
      <3> QED
        BY <3>1, OwnerIsFirst
    <2>2. unavailable(s, ms) = [i \in DOMAIN P |-> P[i].group]
      BY DEF unavailable, Those
    <2> HIDE DEF R, S
    <2>3. P = Among(s, S)
      BY <2>1, AmongSame
    <2>4. P \in Seq(Group)
      BY AmongSet
    <2> HIDE DEF P
    <2>5. \A i \in DOMAIN P : P[i] \in Group
      BY <2>4
    <2>6. [i \in DOMAIN P |-> P[i].group] = Mapped(f, P)
      BY <2>5 DEF Mapped
    <2> QED
      BY <2>2, <2>3, <2>4, <2>6
  <1>3. tt \in Seq(Group)
    BY AppendProperties
  <1> DEFINE P == Among(gs, S)
             Q == Among(tt, S)
  <1>4. unavailable(gs, ms) = Mapped(f, P) /\ P \in Seq(Group)
    <2> HIDE DEF f, S
    <2> QED
      BY <1>2
  <1>5. unavailable(tt, ms) = Mapped(f, Q)
    <2> HIDE DEF tt, f, S
    <2> QED
      BY <1>2, <1>3
  <1>6. Q = IF g \in S THEN Append(P, g) ELSE P
    <2> HIDE DEF S
    <2> QED
      BY AmongAppend
  <1>7. f[g] = g.group
    OBVIOUS
  <1> HIDE DEF f, P, Q
  <1>8. /\ Mapped(f, P) \in Seq(GroupName)
        /\ Mapped(f, Append(P, g)) = Append(Mapped(f, P), f[g])
    BY <1>1, <1>4, MappedAppend, MappedType
  <1> QED
    BY <1>4, <1>5, <1>6, <1>7, <1>8

LEMMA UnservedAppend ==
    ASSUME NEW gs \in Seq(Group), NEW g \in Group, NEW ms, NEW n
    PROVE  /\ Cardinality(UnservedIn(gs, ms, n)) \in Nat
           /\ Cardinality(UnservedIn(Append(gs, g), ms, n)) =
                Cardinality(UnservedIn(gs, ms, n))
                  + (IF g.group = n /\ ~ServedIn(g, ms) THEN 1 ELSE 0)
  <1> DEFINE A == UnservedIn(gs, ms, n)
             k == Len(gs) + 1
             tt == Append(gs, g)
             B == UnservedIn(tt, ms, n)
  <1>1. /\ tt \in Seq(Group) /\ Len(gs) \in Nat /\ Len(tt) = k /\ tt[k] = g
        /\ \A i \in 1..Len(gs) : tt[i] = gs[i]
    BY AppendProperties
  <1>2. A \subseteq 1..Len(gs) /\ k \notin A
    BY DEF UnservedIn
  <1>3. IsFiniteSet(A)
    <2>1. IsFiniteSet(1..Len(gs))
      BY <1>1, FS_Interval
    <2> HIDE DEF A
    <2> QED
      BY <1>2, <2>1, FS_Subset
  <1> HIDE DEF tt
  <1>4. B = IF g.group = n /\ ~ServedIn(g, ms) THEN A \cup {k} ELSE A
    <2>1. DOMAIN tt = 1..k /\ DOMAIN gs = 1..Len(gs) /\ 1..k = 1..Len(gs) \cup {k}
      BY <1>1
    <2> HIDE DEF k
    <2> QED
      BY <1>1, <2>1 DEF UnservedIn
  <1>5. /\ Cardinality(A) \in Nat
        /\ Cardinality(A \cup {k}) = Cardinality(A) + 1
    <2> HIDE DEF A, k
    <2> QED
      BY <1>2, <1>3, FS_CardinalityType, FS_AddElement
  <1> HIDE DEF A, B
  <1> QED
    BY <1>4, <1>5 DEF A, B, tt

\* A plan has what is asked for, in shares and as often, and the groups it
\* leaves out are named.
PlanOK(gs, ms) ==
    /\ plan_groups(gs, ms) \in Seq(Item)
    /\ Shares(plan_groups(gs, ms))
    /\ \A g \in ToSet(gs) : ServedIn(g, ms) =>
           Covers(plan_groups(gs, ms), OwnerIn(g, ms), g.lists[OwnerIn(g, ms)])
    /\ \A e \in Entry : Count(AskedIn(gs, ms), e) = Count(ToDo(plan_groups(gs, ms)), e)
    /\ unavailable(gs, ms) \in Seq(GroupName)
    /\ \A n \in GroupName : Count(unavailable(gs, ms), n) = Cardinality(UnservedIn(gs, ms, n))

LEMMA PlanNone ==
    ASSUME NEW ms \in Seq(Manager)
    PROVE  PlanOK(<< >>, ms)
  <1>1. \A S : Among(<< >>, S) = << >>
    BY AmongEmpty
  <1>2. plan_groups(<< >>, ms) = << >>
    <2>1. [i \in DOMAIN << >> |-> sources(<< >>[i], ms)] = << >>
      OBVIOUS
    <2> QED
      BY <1>1, <2>1, FlatEmpty DEF plan_groups, Those
  <1>3. unavailable(<< >>, ms) = << >>
    BY <1>1 DEF unavailable, Those
  <1>4. AskedIn(<< >>, ms) = << >>
    <2> DEFINE f(x) == IF ServedIn(x, ms) THEN x.lists[OwnerIn(x, ms)] ELSE << >>
    <2>1. AskedIn(<< >>, ms) = FlattenSeq([i \in DOMAIN << >> |-> f(<< >>[i])])
      BY DEF AskedIn
    <2> HIDE DEF f
    <2>2. [i \in DOMAIN << >> |-> f(<< >>[i])] = << >>
      OBVIOUS
    <2> QED
      BY <2>1, <2>2, FlatEmpty
  <1>5. ToSet(<< >>) = {} /\ \A n : UnservedIn(<< >>, ms, n) = {}
    BY DEF ToSet, UnservedIn
  <1>6. Shares(<< >>)
    BY <1>5 DEF Shares
  <1>7. << >> \in Seq(Item) /\ << >> \in Seq(GroupName)
    OBVIOUS
  <1>8. \A n : Count(<< >>, n) = 0 /\ Cardinality({}) = 0
    BY CountNone, FS_EmptySet
  <1>9. \A e \in Entry : Count(AskedIn(<< >>, ms), e) = Count(ToDo(plan_groups(<< >>, ms)), e)
    BY <1>2, <1>4, ToDoEmpty
  <1>10. \A n \in GroupName :
             Count(unavailable(<< >>, ms), n) = Cardinality(UnservedIn(<< >>, ms, n))
    BY <1>3, <1>5, <1>8
  <1> QED
    BY <1>2, <1>3, <1>5, <1>6, <1>7, <1>9, <1>10 DEF PlanOK

LEMMA PlanStep ==
    ASSUME NEW gs \in Seq(Group), NEW g \in Group, NEW ms \in Seq(Manager), PlanOK(gs, ms)
    PROVE  PlanOK(Append(gs, g), ms)
  <1> DEFINE tt == Append(gs, g)
             p == plan_groups(gs, ms)
             q == plan_groups(tt, ms)
             s == sources(g, ms)
             m == OwnerIn(g, ms)
             L == g.lists[m]
  <1>1. /\ p \in Seq(Item) /\ Shares(p)
        /\ \A x \in ToSet(gs) : ServedIn(x, ms) => Covers(p, OwnerIn(x, ms), x.lists[OwnerIn(x, ms)])
        /\ \A e \in Entry : Count(AskedIn(gs, ms), e) = Count(ToDo(p), e)
        /\ unavailable(gs, ms) \in Seq(GroupName)
        /\ \A n \in GroupName : Count(unavailable(gs, ms), n) = Cardinality(UnservedIn(gs, ms, n))
    BY DEF PlanOK
  <1>2. q = IF ServedIn(g, ms) THEN p \o s ELSE p
    BY <1>1, PlanAppend
  <1>3. ServedIn(g, ms) =>
          /\ s \in Seq(Item) /\ Shares(s) /\ Covers(s, m, L)
          /\ \A e \in Entry : Count(ToDo(s), e) = Count(L, e)
    BY SourcesOK
  <1>4. /\ AskedIn(gs, ms) \in Seq(Entry)
        /\ AskedIn(tt, ms) = AskedIn(gs, ms) \o (IF ServedIn(g, ms) THEN L ELSE << >>)
    BY AskedAppend
  <1>5. ServedIn(g, ms) => L \in Seq(Entry)
    BY OwnerIsFirst DEF Group
  <1>6. /\ unavailable(tt, ms) = IF ServedIn(g, ms) THEN unavailable(gs, ms)
                                 ELSE Append(unavailable(gs, ms), g.group)
        /\ g.group \in GroupName
    BY UnavailableAppend DEF Group
  <1>7. ToSet(tt) = ToSet(gs) \cup {g}
    <2>1. /\ tt \in Seq(Group) /\ Len(gs) \in Nat /\ Len(tt) = Len(gs) + 1 /\ tt[Len(gs) + 1] = g
          /\ \A i \in 1..Len(gs) : tt[i] = gs[i]
      BY AppendProperties
    <2>2. DOMAIN tt = 1..(Len(gs) + 1) /\ DOMAIN gs = 1..Len(gs)
          /\ 1..(Len(gs) + 1) = 1..Len(gs) \cup {Len(gs) + 1}
      BY <2>1
    <2> HIDE DEF tt
    <2> QED
      BY <2>1, <2>2 DEF ToSet
  <1>8. unavailable(tt, ms) \in Seq(GroupName)
    BY <1>1, <1>6
  <1>9. ASSUME NEW n \in GroupName
        PROVE  Count(unavailable(tt, ms), n) = Cardinality(UnservedIn(tt, ms, n))
    <2> DEFINE u == unavailable(gs, ms)
               x == g.group
    <2>1. /\ Cardinality(UnservedIn(gs, ms, n)) \in Nat
          /\ Cardinality(UnservedIn(tt, ms, n)) =
                Cardinality(UnservedIn(gs, ms, n))
                  + (IF g.group = n /\ ~ServedIn(g, ms) THEN 1 ELSE 0)
      BY UnservedAppend
    <2>2. u \in Seq(GroupName) /\ x \in GroupName
      BY <1>1, <1>6
    <2>3. Count(Append(u, x), n) = Count(u, n) + (IF x = n THEN 1 ELSE 0)
      <3> HIDE DEF u, x
      <3> QED
        BY <2>2, CountAppend
    <2>4. Count(u, n) = Cardinality(UnservedIn(gs, ms, n))
      BY <1>1
    <2> HIDE DEF tt
    <2>5. CASE ServedIn(g, ms)
      BY <1>6, <2>1, <2>4, <2>5
    <2>6. CASE ~ServedIn(g, ms)
      BY <1>6, <2>1, <2>3, <2>4, <2>6
    <2> QED
      BY <2>5, <2>6
  <1> HIDE DEF tt, p, q, s, m, L
  <1>10. CASE ~ServedIn(g, ms)
    <2>1. q = p
      BY <1>2, <1>10
    <2>2. AskedIn(tt, ms) = AskedIn(gs, ms)
      BY <1>4, <1>10, ConcatEmptySeq
    <2>3. \A x \in ToSet(tt) : ServedIn(x, ms) => Covers(q, OwnerIn(x, ms), x.lists[OwnerIn(x, ms)])
      BY <1>1, <1>7, <1>10, <2>1
    <2>4. \A e \in Entry : Count(AskedIn(tt, ms), e) = Count(ToDo(q), e)
      BY <1>1, <2>1, <2>2
    <2> QED
      BY <1>1, <1>8, <1>9, <2>1, <2>3, <2>4 DEF PlanOK, tt, q
  <1>11. CASE ServedIn(g, ms)
    <2>1. q = p \o s /\ s \in Seq(Item)
      BY <1>2, <1>3, <1>11
    <2>2. q \in Seq(Item) /\ ToSet(q) = ToSet(p) \cup ToSet(s)
      BY <1>1, <2>1, ConcatProperties, ConcatSet
    <2>3. Shares(q)
      BY <1>1, <1>3, <1>11, <2>2 DEF Shares
    <2>4. \A x \in ToSet(tt) : ServedIn(x, ms) => Covers(q, OwnerIn(x, ms), x.lists[OwnerIn(x, ms)])
      <3> TAKE x \in ToSet(tt)
      <3> HAVE ServedIn(x, ms)
      <3>1. CASE x \in ToSet(gs)
        <4>1. Covers(p, OwnerIn(x, ms), x.lists[OwnerIn(x, ms)])
          BY <1>1, <3>1
        <4> QED
          BY <2>2, <4>1 DEF Covers
      <3>2. CASE x = g
        <4>1. Covers(s, OwnerIn(x, ms), x.lists[OwnerIn(x, ms)])
          BY <1>3, <1>11, <3>2 DEF m, L
        <4> QED
          BY <2>2, <4>1 DEF Covers
      <3> QED
        BY <1>7, <3>1, <3>2
    <2>5. ASSUME NEW e \in Entry
          PROVE  Count(AskedIn(tt, ms), e) = Count(ToDo(q), e)
      <3> DEFINE a == AskedIn(gs, ms)
                 b == ToDo(p)
                 c == ToDo(s)
      <3>1. AskedIn(tt, ms) = a \o L /\ a \in Seq(Entry) /\ L \in Seq(Entry)
        BY <1>4, <1>5, <1>11
      <3>2. ToDo(q) = b \o c
        BY <1>1, <2>1, ToDoConcat
      <3>3. b \in Seq(Entry) /\ c \in Seq(Entry)
        BY <1>1, <2>1, ToDoTyped
      <3>4. Count(a, e) = Count(b, e) /\ Count(L, e) = Count(c, e)
        BY <1>1, <1>3, <1>11
      <3> HIDE DEF a, b, c
      <3>5. Count(a \o L, e) = Count(a, e) + Count(L, e)
        BY <3>1, CountConcat
      <3>6. Count(b \o c, e) = Count(b, e) + Count(c, e)
        BY <3>3, CountConcat
      <3> QED
        BY <3>1, <3>2, <3>4, <3>5, <3>6
    <2> QED
      BY <1>8, <1>9, <2>2, <2>3, <2>4, <2>5 DEF PlanOK, tt, q
  <1> QED
    BY <1>10, <1>11

LEMMA Planned ==
    ASSUME NEW gs \in Seq(Group), NEW ms \in Seq(Manager)
    PROVE  PlanOK(gs, ms)
  <1> DEFINE N == Len(gs)
             p(n) == SubSeq(gs, 1, n)
             G == {n \in 0..N : PlanOK(p(n), ms)}
  <1>1. /\ p(0) = << >> /\ p(N) = gs
        /\ \A n \in 0..N : p(n) \in Seq(Group)
        /\ \A n \in 1..N : p(n) = Append(p(n - 1), gs[n])
    BY Prefix
  <1>2. N \in Nat
    OBVIOUS
  <1> HIDE DEF p
  <1>3. 0 \in G
    <2>1. PlanOK(p(0), ms)
      BY <1>1, PlanNone
    <2> QED
      BY <1>2, <2>1
  <1>4. ASSUME NEW n \in 1..N, n - 1 \in G
        PROVE  n \in G
    <2> DEFINE a == p(n - 1)
               g == gs[n]
    <2>1. n \in 0..N /\ a \in Seq(Group) /\ g \in Group /\ PlanOK(a, ms)
      BY <1>1, <1>2, <1>4
    <2> HIDE DEF a, g
    <2>2. PlanOK(Append(a, g), ms)
      BY <2>1, PlanStep
    <2> QED
      BY <1>1, <2>1, <2>2 DEF a, g
  <1>5. N \in G
    <2> HIDE DEF G, N
    <2>1. 0..N \subseteq G
      BY <1>2, <1>3, <1>4, Induct
    <2> QED
      BY <1>2, <2>1
  <1> QED
    BY <1>1, <1>5

(***************************************************************************)
(* The machine                                                             *)
(***************************************************************************)
\* A run only adds to a machine; a cargo it installs is found by the runner,
\* or on Windows by new processes.
Grows ==
    /\ host' = host /\ have \subseteq have' /\ buckets \subseteq buckets'
    /\ path \subseteq path' /\ registered \subseteq registered'
    /\ \A x \in have' \ have : "cargo" \in host.brings[x[2]] =>
          IF host.os = "windows" THEN "cargo" \in registered' ELSE "cargo" \in path'

LEMMA LandsGrows ==
    ASSUME MachineTypeOK, NEW m \in Source, NEW P \in SUBSET Pkg, Lands(m, P)
    PROVE  /\ Grows \/ ~(buckets \subseteq buckets')
           /\ have' \subseteq Source \X Pkg /\ shell' \subseteq path'
           /\ path' \subseteq Program /\ registered' \subseteq Program
  <1>1. host.brings \in [Pkg -> SUBSET Program] /\ host \in Host
    BY PackagesAssumption DEF MachineTypeOK
  <1>2. Brought(P) \subseteq Program
    BY <1>1 DEF Brought
  <1>3. /\ have' = have \cup {<<m, p>> : p \in P}
        /\ registered' = registered \cup Brought(P)
        /\ shell' = shell \cup (Brought(P) \ Late(m))
        /\ path' = path \cup (Brought(P) \ Late(m))
        /\ host' = host
    BY DEF Lands
  <1>4. ASSUME NEW x \in have' \ have, "cargo" \in host.brings[x[2]]
        PROVE  IF host.os = "windows" THEN "cargo" \in registered' ELSE "cargo" \in path'
    <2>1. PICK p \in P : x = <<m, p>>
      BY <1>3, <1>4
    <2>2. "cargo" \in Brought(P)
      BY <1>4, <2>1 DEF Brought
    <2>3. host.os # "windows" => Late(m) = {}
      BY DEF Late
    <2> QED
      BY <1>3, <2>2, <2>3
  <1>5. have' \subseteq Source \X Pkg
    BY <1>3 DEF MachineTypeOK
  <1>6. /\ shell' \subseteq path' /\ path' \subseteq Program /\ registered' \subseteq Program
        /\ have \subseteq have' /\ path \subseteq path' /\ registered \subseteq registered'
    BY <1>2, <1>3 DEF MachineTypeOK
  <1> QED
    BY <1>3, <1>4, <1>5, <1>6 DEF Grows

LEMMA FaultTyped ==
    ASSUME MachineTypeOK, Fault \/ NoFault
    PROVE  faults' \in 0..MaxFaults
  BY PackagesAssumption DEF MachineTypeOK, Fault, NoFault, MayFail

LEMMA StaysGrows ==
    ASSUME UNCHANGED <<host, have, buckets, path, registered>>
    PROVE  Grows
  BY DEF Grows

LEMMA BucketsGrow ==
    ASSUME MachineTypeOK, NEW es \in Seq(Entry), NEW added \in SUBSET wanted(es),
           add_buckets(es, added)
    PROVE  /\ MachineTypeOK' /\ Grows
           /\ \A x \in have' \ have : "cargo" \notin host.brings[x[2]]
  <1>1. CASE wanted(es) = {}
    <2>1. UNCHANGED machineVars
      BY <1>1 DEF add_buckets
    <2> QED
      BY <2>1 DEF machineVars, MachineTypeOK, Grows
  <1>2. CASE wanted(es) # {}
    <2> DEFINE git == CHOOSE p \in Pkg : "git" \in host.brings[p]
    <2>1. \E p \in Pkg : "git" \in host.brings[p]
      BY PackagesAssumption DEF MachineTypeOK
    <2>2. git \in Pkg /\ "git" \in host.brings[git]
      BY <2>1
    <2>10. "cargo" \notin host.brings[git]
      BY <2>2, PackagesAssumption DEF MachineTypeOK
    <2>3. PICK got \in IF "git" \in shell THEN {{}} ELSE {{git}, {}} : Lands("scoop", got)
      BY <1>2 DEF add_buckets
    <2>4. /\ Fault \/ NoFault
          /\ buckets' = buckets \cup added
      BY <1>2 DEF add_buckets
    <2> HIDE DEF git
    <2>5. got \in SUBSET Pkg /\ "scoop" \in Source
      BY <2>2, <2>3 DEF Source, Manager
    <2>6. wanted(es) \subseteq Bucket
      <3>1. \A e \in ToSet(es) : e \in Entry
        BY DEF ToSet
      <3>2. \A e \in ToSet(es) : e.bucket \in Bucket \cup {NoBucket}
        BY <3>1 DEF Entry
      <3> QED
        BY <3>2 DEF wanted
    <2>7. /\ Grows
          /\ have' \subseteq Source \X Pkg /\ shell' \subseteq path'
          /\ path' \subseteq Program /\ registered' \subseteq Program
      <3>1. buckets \subseteq buckets'
        BY <2>4
      <3> QED
        BY <2>3, <2>5, <3>1, LandsGrows
    <2>8. faults' \in 0..MaxFaults
      BY <2>4, FaultTyped
    <2>9. buckets' \subseteq Bucket
      BY <2>4, <2>6 DEF MachineTypeOK
    <2>11. \A x \in have' \ have : "cargo" \notin host.brings[x[2]]
      BY <2>3, <2>10 DEF Lands
    <2> QED
      BY <2>7, <2>8, <2>9, <2>11 DEF MachineTypeOK, Grows
  <1> QED
    BY <1>1, <1>2

LEMMA InstallGrows ==
    ASSUME MachineTypeOK, NEW m \in Source, NEW es \in Seq(Entry), NEW ok \in BOOLEAN,
           \/ InstallAtOnce(m, es, ok)
           \/ \E e \in ToSet(es) : InstallOne(m, e, ok)
    PROVE  MachineTypeOK' /\ Grows
  <1>0. \A e \in ToSet(es) : e \in Entry /\ e.pkg \in Pkg /\ e.bucket \in Bucket \cup {NoBucket}
    <2> TAKE e \in ToSet(es)
    <2>1. e \in Entry
      BY DEF ToSet
    <2> QED
      BY <2>1 DEF Entry
  <1>1. CASE InstallAtOnce(m, es, ok)
    <2> DEFINE asked == ToSet(es)
               can == IF Allowed(m) THEN {e \in asked : Offers(m, e)} ELSE {}
               taps == {e.bucket : e \in {x \in can : Taps(m, x)}}
    <2>1. /\ Fault \/ NoFault
          /\ \E S \in IF ok THEN {can} ELSE SUBSET can : Lands(m, {e.pkg : e \in S})
          /\ \E T \in IF ok THEN {taps} ELSE SUBSET taps : buckets' = buckets \cup T
      BY <1>1 DEF InstallAtOnce
    <2>2. can \subseteq asked /\ taps \subseteq Bucket
      BY <1>0 DEF Taps
    <2> HIDE DEF can, taps
    <2>3. PICK S \in SUBSET can : Lands(m, {e.pkg : e \in S})
      BY <2>1
    <2>4. buckets \subseteq buckets' /\ buckets' \subseteq Bucket
      BY <2>1, <2>2 DEF MachineTypeOK
    <2> DEFINE P == {e.pkg : e \in S}
    <2>5. P \in SUBSET Pkg
      BY <1>0, <2>2
    <2> HIDE DEF P
    <2>6. /\ Grows
          /\ have' \subseteq Source \X Pkg /\ shell' \subseteq path'
          /\ path' \subseteq Program /\ registered' \subseteq Program
      <3>1. Lands(m, P)
        BY <2>3 DEF P
      <3> QED
        BY <2>4, <2>5, <3>1, LandsGrows
    <2>7. faults' \in 0..MaxFaults
      BY <2>1, FaultTyped
    <2> QED
      BY <2>4, <2>6, <2>7 DEF MachineTypeOK, Grows
  <1>2. CASE \E e \in ToSet(es) : InstallOne(m, e, ok)
    <2>1. PICK e \in ToSet(es) : InstallOne(m, e, ok)
      BY <1>2
    <2> DEFINE P == IF ok THEN {e.pkg} ELSE {}
    <2>2. Lands(m, P) /\ UNCHANGED buckets /\ (Fault \/ NoFault)
      BY <2>1 DEF InstallOne
    <2>3. P \in SUBSET Pkg
      BY <1>0
    <2> HIDE DEF P
    <2>4. /\ Grows
          /\ have' \subseteq Source \X Pkg /\ shell' \subseteq path'
          /\ path' \subseteq Program /\ registered' \subseteq Program
      BY <2>2, <2>3, LandsGrows
    <2>5. faults' \in 0..MaxFaults
      BY <2>2, FaultTyped
    <2> QED
      BY <2>2, <2>4, <2>5 DEF MachineTypeOK, Grows
  <1> QED
    BY <1>1, <1>2

(***************************************************************************)
(* The report                                                              *)
(***************************************************************************)
Whys == {"source", "query", "install", "refresh"}
Whose == Entry \cup {PathRefresh}
Of(failed) == [i \in DOMAIN failed |-> failed[i].e]
EntryOf == [x \in Failure |-> x.e]

LEMMA OfIs ==
    ASSUME NEW failed \in Seq(Failure)
    PROVE  /\ EntryOf \in Maps(Failure, Whose)
           /\ Of(failed) = Mapped(EntryOf, failed)
           /\ Of(failed) \in Seq(Whose)
  <1>1. EntryOf \in Maps(Failure, Whose)
    <2>1. \A x \in Failure : x.e \in Whose
      BY DEF Failure, Whose
    <2> QED
      BY <2>1 DEF EntryOf, Maps
  <1>2. \A i \in DOMAIN failed : failed[i] \in Failure
    OBVIOUS
  <1>3. Of(failed) = Mapped(EntryOf, failed)
    BY <1>2 DEF Mapped, EntryOf, Of
  <1>4. Mapped(EntryOf, failed) \in Seq(Whose)
    BY <1>1, MappedType
  <1> QED
    BY <1>1, <1>3, <1>4

LEMMA OfConcat ==
    ASSUME NEW f \in Seq(Failure), NEW g \in Seq(Failure), NEW e
    PROVE  /\ f \o g \in Seq(Failure)
           /\ Count(Of(f \o g), e) = Count(Of(f), e) + Count(Of(g), e)
  <1> DEFINE c == f \o g
             a == Of(f)
             b == Of(g)
  <1>1. c \in Seq(Failure)
    BY ConcatProperties
  <1>2. /\ a = Mapped(EntryOf, f) /\ a \in Seq(Whose)
        /\ EntryOf \in Maps(Failure, Whose)
    BY OfIs
  <1>3. b = Mapped(EntryOf, g) /\ b \in Seq(Whose)
    BY OfIs
  <1>4. Of(c) = Mapped(EntryOf, c)
    <2> HIDE DEF c
    <2> QED
      BY <1>1, OfIs
  <1>5. Mapped(EntryOf, f \o g) = Mapped(EntryOf, f) \o Mapped(EntryOf, g)
    BY <1>2, MappedConcat
  <1> HIDE DEF a, b
  <1>6. Count(a \o b, e) = Count(a, e) + Count(b, e)
    BY <1>2, <1>3, CountConcat
  <1>7. Of(c) = a \o b
    BY <1>2, <1>3, <1>4, <1>5, Zenon
  <1> QED
    BY <1>1, <1>6, <1>7 DEF a, b, c

LEMMA BecauseIs ==
    ASSUME NEW es \in Seq(Entry), NEW why \in Whys
    PROVE  /\ Because(es, why) \in Seq(Failure) /\ Len(Because(es, why)) = Len(es)
           /\ Of(Because(es, why)) = es
           /\ \A i \in DOMAIN Because(es, why) : Because(es, why)[i].why = why
  <1> DEFINE n == Len(es)
             s == [i \in 1..n |-> [e |-> es[i], why |-> why]]
  <1>1. n \in Nat /\ DOMAIN es = 1..n /\ \A i \in 1..n : es[i] \in Entry
    OBVIOUS
  <1>2. s \in [1..n -> Failure]
    BY <1>1 DEF Failure, Whys
  <1>3. Because(es, why) = s
    BY <1>1 DEF Because
  <1>4. /\ DOMAIN s = 1..n
        /\ \A i \in 1..n : s[i].e = es[i] /\ s[i].why = why
    OBVIOUS
  <1> HIDE DEF s, n
  <1>5. s \in Seq(Failure) /\ Len(s) = n
    BY <1>1, <1>2, FunctionIsSeq
  <1>6. Of(s) = es
    <2>1. Of(s) = [i \in 1..n |-> es[i]]
      BY <1>4 DEF Of
    <2>2. es = [i \in 1..n |-> es[i]]
      BY <1>1
    <2> QED
      BY <2>1, <2>2
  <1> QED
    BY <1>3, <1>4, <1>5, <1>6 DEF n

Slots == {"installed", "already", "found", "missing"}

LEMMA ReportTyped ==
    ASSUME report \in ReportType, NEW es \in Seq(Entry)
    PROVE  /\ \A slot \in Slots : Report(slot, es) \in ReportType
           /\ \A why \in Whys : Report("failed", Because(es, why)) \in ReportType
  <1>1. /\ report.installed \o es \in Seq(Entry) /\ report.already \o es \in Seq(Entry)
        /\ report.found \o es \in Seq(Entry) /\ report.missing \o es \in Seq(Entry)
    <2>1. /\ report.installed \in Seq(Entry) /\ report.already \in Seq(Entry)
          /\ report.found \in Seq(Entry) /\ report.missing \in Seq(Entry)
      BY DEF ReportType
    <2> QED
      BY <2>1, ConcatProperties
  <1>2. \A slot \in Slots : Report(slot, es) \in ReportType
    BY <1>1 DEF Slots, Report, ReportType
  <1>3. ASSUME NEW why \in Whys
        PROVE  Report("failed", Because(es, why)) \in ReportType
    <2>1. report.failed \o Because(es, why) \in Seq(Failure)
      <3>1. report.failed \in Seq(Failure) /\ Because(es, why) \in Seq(Failure)
        BY BecauseIs DEF ReportType
      <3> QED
        BY <3>1, ConcatProperties
    <2> QED
      BY <2>1 DEF Report, ReportType
  <1> QED
    BY <1>2, <1>3

LEMMA NoteTyped ==
    ASSUME NEW used \in Seq(Source), IsInjective(used), NEW m \in Source
    PROVE  /\ note_manager(used, m) \in Seq(Source) /\ IsInjective(note_manager(used, m))
           /\ ToSet(note_manager(used, m)) = ToSet(used) \cup {m}
  <1>1. CASE m \in ToSet(used)
    BY <1>1 DEF note_manager
  <1>2. CASE m \notin ToSet(used)
    <2> DEFINE s == Append(used, m)
               n == Len(used)
    <2>1. /\ s \in Seq(Source) /\ n \in Nat /\ Len(s) = n + 1 /\ s[n + 1] = m
          /\ \A i \in 1..n : s[i] = used[i]
      BY AppendProperties
    <2>2. note_manager(used, m) = s
      BY <1>2 DEF note_manager
    <2>3. DOMAIN s = 1..n \cup {n + 1} /\ DOMAIN used = 1..n
      BY <2>1
    <2> HIDE DEF s, n
    <2>4. \A i \in 1..n : used[i] # m
      BY <1>2, <2>3 DEF ToSet
    <2>5. IsInjective(s)
      BY <2>1, <2>3, <2>4 DEF IsInjective
    <2>6. ToSet(s) = ToSet(used) \cup {m}
      BY <2>1, <2>3 DEF ToSet
    <2> QED
      BY <2>1, <2>2, <2>5, <2>6
  <1> QED
    BY <1>1, <1>2

(***************************************************************************)
(* Types                                                                   *)
(***************************************************************************)
Stages ==
    {"idle", "refused", "next", "prepare", "ask", "install", "readback", "refresh", "done"}

\* The types of what a run keeps.
RunTyped ==
    /\ pc \in Stages /\ cmd \in Cmds \cup {NoCmd} /\ job \in Job
    /\ queue \in Seq(Item) /\ batch \in Seq(Entry) /\ left \in Seq(Entry)
    /\ report \in ReportType /\ IsInjective(report.used)

LEMMA TypesSplit ==
    TypeOK <=> MachineTypeOK /\ RunTyped /\ runs \in 0..MaxRuns /\ touches \in 0..MaxTouches
  BY DEF TypeOK, RunTyped, Stages, Item

LEMMA NoReportTyped ==
    /\ NoReport \in ReportType /\ IsInjective(NoReport.used)
    /\ NoReport.failed = << >> /\ NoReport.used = << >>
    /\ NoReport.installed = << >> /\ NoReport.already = << >>
    /\ NoReport.found = << >> /\ NoReport.missing = << >> /\ NoReport.unavailable = << >>
  BY DEF NoReport, ReportType, IsInjective

LEMMA NoJobTyped == NoJob \in Job /\ NoJob.others = {}
  BY DEF NoJob, Job

LEMMA AnswersTyped ==
    ASSUME NEW s \in Seq(Entry), NEW S
    PROVE  Among(s, S) \in Seq(Entry) /\ ToSet(Among(s, S)) = ToSet(s) \cap S
  BY AmongSet

\* The source that is in hand.
LEMMA SourceTyped ==
    ASSUME RunTyped, queue # << >>
    PROVE  /\ Head(queue) \in Item /\ Source_ \in Source /\ Head(queue).es \in Seq(Entry)
           /\ Tail(queue) \in Seq(Item)
  <1>1. queue \in Seq(Item)
    BY DEF RunTyped
  <1>2. Head(queue) \in Item /\ Tail(queue) \in Seq(Item)
    <2> HIDE DEF Item
    <2> QED
      BY <1>1
  <1> QED
    BY <1>2 DEF Item, Source_

LEMMA NextTyped ==
    ASSUME RunTyped, queue # << >>, NextSource
    PROVE  pc' \in Stages /\ queue' \in Seq(Item) /\ batch' \in Seq(Entry) /\ left' \in Seq(Entry)
  <1>1. Tail(queue) \in Seq(Item)
    BY SourceTyped
  <1>2. << >> \in Seq(Entry)
    OBVIOUS
  <1> HIDE DEF Item
  <1> QED
    BY <1>1, <1>2 DEF NextSource, Stages

LEMMA LaunchTyped ==
    ASSUME TypeOK, Launch
    PROVE  RunTyped'
  <1>1. PICK c \in Cmds, t \in Homes :
          LET cfg == load_with_includes(t)
              groups == IF cfg.err = "none" THEN Selected(c, ForPlatform(cfg.cfg.deps)) ELSE << >>
              managers == candidate_managers(c)
          IN  /\ cmd' = c
              /\ IF cfg.err # "none" \/ managers = << >>
                 THEN pc' = "refused" /\ queue' = << >> /\ report' = NoReport /\ job' = NoJob
                 ELSE /\ pc' = "next" /\ queue' = plan_groups(groups, managers)
                      /\ report' = [NoReport EXCEPT !.unavailable = unavailable(groups, managers)]
                      /\ job' = [groups |-> groups, managers |-> managers, others |-> have]
    BY DEF Launch
  <1> DEFINE cfg == load_with_includes(t)
             groups == Selected(c, ForPlatform(cfg.cfg.deps))
             managers == candidate_managers(c)
  <1>2. batch' \in Seq(Entry) /\ left' \in Seq(Entry) /\ cmd' \in Cmds
    BY <1>1 DEF Launch
  <1>3. CASE cfg.err # "none" \/ managers = << >>
    <2>1. queue' \in Seq(Item) /\ pc' \in Stages
      <3>1. << >> \in Seq(Item)
        OBVIOUS
      <3> QED
        BY <1>1, <1>3, <3>1 DEF Stages
    <2> QED
      BY <1>1, <1>2, <1>3, <2>1, NoReportTyped, NoJobTyped DEF RunTyped
  <1>4. CASE ~(cfg.err # "none" \/ managers = << >>)
    <2>1. /\ pc' = "next" /\ queue' = plan_groups(groups, managers)
          /\ report' = [NoReport EXCEPT !.unavailable = unavailable(groups, managers)]
          /\ job' = [groups |-> groups, managers |-> managers, others |-> have]
      BY <1>1, <1>4
    <2>2. groups \in Seq(Group)
      <3> DEFINE deps == cfg.cfg.deps
                 on == ForPlatform(deps)
      <3>1. deps \in Seq(Group)
        BY <1>4, LoadedTyped
      <3> HIDE DEF deps
      <3>2. on \in Seq(Group)
        BY <3>1, GroupsTyped
      <3> HIDE DEF on
      <3>3. Selected(c, on) \in Seq(Group)
        BY <3>2, GroupsTyped
      <3> QED
        BY <3>3 DEF on, deps
    <2>3. managers \in Seq(Manager)
      BY ManagersTyped DEF TypeOK, MachineTypeOK
    <2> HIDE DEF groups, managers
    <2>4. /\ plan_groups(groups, managers) \in Seq(Item)
          /\ unavailable(groups, managers) \in Seq(GroupName)
      BY <2>2, <2>3, Planned DEF PlanOK
    <2>5. report' \in ReportType /\ report'.used = << >>
      BY <2>1, <2>4, NoReportTyped DEF ReportType
    <2>6. IsInjective(report'.used)
      BY <2>5 DEF IsInjective
    <2>7. job' \in Job
      BY <2>1, <2>2, <2>3 DEF Job, TypeOK, MachineTypeOK
    <2> QED
      BY <1>2, <2>1, <2>4, <2>5, <2>6, <2>7 DEF RunTyped, Stages
  <1> QED
    BY <1>3, <1>4

(***************************************************************************)
(* A step of a run                                                         *)
(***************************************************************************)
\* What a step adds to the lists of the report.
Adds(I, A, F, M, X) ==
    /\ I \in Seq(Entry) /\ A \in Seq(Entry) /\ F \in Seq(Entry) /\ M \in Seq(Entry)
    /\ X \in Seq(Failure)
    /\ report'.installed = report.installed \o I /\ report'.already = report.already \o A
    /\ report'.found = report.found \o F /\ report'.missing = report.missing \o M
    /\ report'.failed = report.failed \o X
    /\ report'.unavailable = report.unavailable
    /\ ToSet(report.used) \subseteq ToSet(report'.used)

\* What every step of a run does.
Goes(I, A, F, M, X) ==
    /\ Running /\ UNCHANGED <<cmd, job>>
    /\ MachineTypeOK' /\ RunTyped' /\ Grows
    /\ Adds(I, A, F, M, X)

LEMMA SettledGrows ==
    ASSUME RunTyped, NEW I, NEW A, NEW F, NEW M, NEW X, Adds(I, A, F, M, X), NEW e
    PROVE  /\ Settled(e)' = Settled(e) + Count(I, e) + Count(A, e) + Count(F, e) + Count(M, e)
                              + Count(Of(X), e)
           /\ Settled(e) \in Nat
           /\ Count(I, e) \in Nat /\ Count(A, e) \in Nat /\ Count(F, e) \in Nat
           /\ Count(M, e) \in Nat /\ Count(Of(X), e) \in Nat
  <1>1. /\ report.installed \in Seq(Entry) /\ report.already \in Seq(Entry)
        /\ report.found \in Seq(Entry) /\ report.missing \in Seq(Entry)
        /\ report.failed \in Seq(Failure)
    BY DEF RunTyped, ReportType
  <1> DEFINE i == report.installed
             a == report.already
             f == report.found
             m == report.missing
             x == report.failed
  <1>2. /\ report'.installed = i \o I /\ report'.already = a \o A
        /\ report'.found = f \o F /\ report'.missing = m \o M
        /\ report'.failed = x \o X
        /\ I \in Seq(Entry) /\ A \in Seq(Entry) /\ F \in Seq(Entry) /\ M \in Seq(Entry)
        /\ X \in Seq(Failure)
    BY DEF Adds
  <1>3. /\ i \in Seq(Entry) /\ a \in Seq(Entry) /\ f \in Seq(Entry) /\ m \in Seq(Entry)
        /\ x \in Seq(Failure)
    BY <1>1
  <1>4. /\ Settled(e) = Count(i, e) + Count(a, e) + Count(f, e) + Count(m, e) + Count(Of(x), e)
        /\ Settled(e)' = Count(i \o I, e) + Count(a \o A, e) + Count(f \o F, e) + Count(m \o M, e)
                           + Count(Of(x \o X), e)
    BY <1>2 DEF Settled, Of
  <1> HIDE DEF i, a, f, m, x
  <1>5. /\ Count(i \o I, e) = Count(i, e) + Count(I, e)
        /\ Count(a \o A, e) = Count(a, e) + Count(A, e)
        /\ Count(f \o F, e) = Count(f, e) + Count(F, e)
        /\ Count(m \o M, e) = Count(m, e) + Count(M, e)
        /\ Count(Of(x \o X), e) = Count(Of(x), e) + Count(Of(X), e)
    BY <1>2, <1>3, CountConcat, OfConcat
  <1>6. Of(x) \in Seq(Whose) /\ Of(X) \in Seq(Whose)
    BY <1>2, <1>3, OfIs
  <1>7. /\ Count(i, e) \in Nat /\ Count(I, e) \in Nat /\ Count(a, e) \in Nat /\ Count(A, e) \in Nat
        /\ Count(f, e) \in Nat /\ Count(F, e) \in Nat /\ Count(m, e) \in Nat /\ Count(M, e) \in Nat
        /\ Count(Of(x), e) \in Nat /\ Count(Of(X), e) \in Nat
    BY <1>2, <1>3, <1>6, CountType
  <1> QED
    BY <1>4, <1>5, <1>7

\* Nothing gets lost in a step that settles as much as is left less to do.
LEMMA AccountedOn ==
    ASSUME RunTyped, EachAccounted,
           NEW I, NEW A, NEW F, NEW M, NEW X, Goes(I, A, F, M, X),
           \A e \in Entry :
               Unsettled(e) = Unsettled(e)' + Count(I, e) + Count(A, e) + Count(F, e) + Count(M, e)
                                + Count(Of(X), e),
           \A e \in Entry : Unsettled(e)' \in Nat
    PROVE  EachAccounted'
  <1> SUFFICES ASSUME NEW e \in Entry
               PROVE  Count(Asked', e) = Settled(e)' + Unsettled(e)'
    BY DEF EachAccounted
  <1>1. Count(Asked, e) = Settled(e) + Unsettled(e)
    BY DEF EachAccounted, Goes
  <1>2. job' = job
    BY DEF Goes
  <1>3. Asked' = Asked
    BY <1>2 DEF Asked, Served, Owner
  <1>4. /\ Settled(e)' = Settled(e) + Count(I, e) + Count(A, e) + Count(F, e) + Count(M, e)
                           + Count(Of(X), e)
        /\ Settled(e) \in Nat
        /\ Count(I, e) \in Nat /\ Count(A, e) \in Nat /\ Count(F, e) \in Nat
        /\ Count(M, e) \in Nat /\ Count(Of(X), e) \in Nat
    BY SettledGrows DEF Goes
  <1>5. /\ Unsettled(e) = Unsettled(e)' + Count(I, e) + Count(A, e) + Count(F, e) + Count(M, e)
                            + Count(Of(X), e)
        /\ Unsettled(e)' \in Nat
    OBVIOUS
  <1> DEFINE asked == Count(Asked, e)
             s == Settled(e)
             t == Settled(e)'
             u == Unsettled(e)
             v == Unsettled(e)'
  <1>6. Count(Asked', e) = asked
    BY <1>3
  <1> HIDE DEF asked, s, t, u, v
  <1>7. asked = t + v
    BY <1>1, <1>4, <1>5 DEF asked, s, t, u, v
  <1> QED
    BY <1>6, <1>7 DEF t, v

LEMMA NamedOn ==
    ASSUME UnservedNamed, NEW I, NEW A, NEW F, NEW M, NEW X, Goes(I, A, F, M, X)
    PROVE  UnservedNamed'
  BY DEF UnservedNamed, Goes, Adds, Served

LEMMA InstalledOn ==
    ASSUME RunTyped, InstalledTrue, NEW I, NEW A, NEW F, NEW M, NEW X, Goes(I, A, F, M, X),
           ~cmd.dry /\ ~cmd.check =>
               \A e \in ToSet(I) \cup ToSet(A) :
                   \E m \in ToSet(report'.used) : <<m, e.pkg>> \in have' /\ (m = "cargo" <=> e.src = "cargo")
    PROVE  InstalledTrue'
  <1> SUFFICES ASSUME ~cmd'.dry, ~cmd'.check,
                      NEW e \in ToSet(report'.installed) \cup ToSet(report'.already)
               PROVE  \E m \in ToSet(report'.used) :
                          <<m, e.pkg>> \in have' /\ (m = "cargo" <=> e.src = "cargo")
    BY DEF InstalledTrue, Has
  <1>1. /\ report.installed \in Seq(Entry) /\ report.already \in Seq(Entry)
        /\ I \in Seq(Entry) /\ A \in Seq(Entry)
    BY DEF RunTyped, ReportType, Goes, Adds
  <1> DEFINE i == report.installed
             a == report.already
  <1>2. i \in Seq(Entry) /\ a \in Seq(Entry)
    BY <1>1
  <1>3. report'.installed = i \o I /\ report'.already = a \o A
    BY DEF Goes, Adds
  <1> HIDE DEF i, a
  <1>4. ToSet(i \o I) = ToSet(i) \cup ToSet(I) /\ ToSet(a \o A) = ToSet(a) \cup ToSet(A)
    BY <1>1, <1>2, ConcatSet
  <1>5. CASE e \in ToSet(I) \cup ToSet(A)
    BY <1>5 DEF Goes
  <1>6. CASE e \in ToSet(i) \cup ToSet(a)
    <2>1. PICK m \in ToSet(report.used) : <<m, e.pkg>> \in have /\ (m = "cargo" <=> e.src = "cargo")
      BY <1>6 DEF InstalledTrue, Has, Goes, i, a
    <2> QED
      BY <2>1 DEF Goes, Adds, Grows
  <1> QED
    BY <1>3, <1>4, <1>5, <1>6

LEMMA DueTyped ==
    ASSUME RunTyped
    PROVE  Due \subseteq Source \X Entry
  <1> SUFFICES ASSUME NEW g \in ToSet(job.groups), Served(g), NEW e \in ToSet(g.lists[Owner(g)])
               PROVE  <<IF e.src = "cargo" THEN "cargo" ELSE Owner(g), e>> \in Source \X Entry
    BY DEF Due
  <1> DEFINE gs == job.groups
             ms == job.managers
  <1>1. gs \in Seq(Group) /\ ms \in Seq(Manager)
    BY DEF RunTyped, Job
  <1>2. g \in ToSet(gs) /\ Owner(g) = OwnerIn(g, ms) /\ ServedIn(g, ms)
    BY DEF Owner, OwnerIn, ListingIn, Served, ServedIn
  <1> HIDE DEF gs, ms
  <1>3. g \in Group
    BY <1>1, <1>2 DEF ToSet
  <1>4. Owner(g) \in Manager
    BY <1>1, <1>2, <1>3, OwnerIsFirst
  <1> DEFINE L == g.lists[Owner(g)]
  <1>5. L \in Seq(Entry) /\ e \in ToSet(L)
    BY <1>3, <1>4 DEF Group
  <1> HIDE DEF L
  <1>6. e \in Entry
    BY <1>5 DEF ToSet
  <1> QED
    BY <1>4, <1>6 DEF Source

\* Nothing is forgotten in a step after which what waited waits or is there,
\* if nothing fails.
LEMMA ForgottenOn ==
    ASSUME RunTyped, NothingForgotten, NEW I, NEW A, NEW F, NEW M, NEW X, Goes(I, A, F, M, X),
           ~cmd.dry /\ ~cmd.check /\ X = << >> =>
               \A m \in Source, e \in Entry :
                   Waits(m, e) => <<m, e.pkg>> \in have' \/ Waits(m, e)'
    PROVE  NothingForgotten'
  <1>1. job' = job /\ cmd' = cmd /\ have \subseteq have' /\ Running
    BY DEF Goes, Grows
  <1>2. Due' = Due
    BY <1>1 DEF Due, Owner, Served
  <1> SUFFICES ASSUME ~cmd.dry, ~cmd.check, report'.failed = << >>,
                      NEW d \in Due
               PROVE  (Has(d[1], d[2]) \/ Waits(d[1], d[2]))'
    BY <1>1, <1>2 DEF NothingForgotten
  <1>3. report.failed = << >> /\ X = << >>
    <2> DEFINE x == report.failed
    <2>1. x \in Seq(Failure)
      BY DEF RunTyped, ReportType
    <2>2. X \in Seq(Failure) /\ x \o X = << >>
      BY DEF Goes, Adds
    <2> HIDE DEF x
    <2>3. Len(x) + Len(X) = 0 /\ Len(x) \in Nat /\ Len(X) \in Nat
      BY <2>1, <2>2, ConcatProperties
    <2>4. Len(x) = 0 /\ Len(X) = 0
      BY <2>3
    <2>5. x = << >> /\ X = << >>
      BY <2>1, <2>2, <2>4, EmptySeq
    <2> QED
      BY <2>5 DEF x
  <1> DEFINE m == d[1]
             e == d[2]
  <1>4. m \in Source /\ e \in Entry
    BY DueTyped
  <1>5. <<m, e.pkg>> \in have \/ Waits(m, e)
    BY <1>1, <1>3 DEF NothingForgotten, Has
  <1> HIDE DEF m, e
  <1>6. <<m, e.pkg>> \in have' \/ Waits(m, e)'
    BY <1>1, <1>3, <1>4, <1>5
  <1> QED
    BY <1>6 DEF m, e, Has

LEMMA RefreshStaysFailed ==
    ASSUME RunTyped, NEW I, NEW A, NEW F, NEW M, NEW X, Adds(I, A, F, M, X), RefreshFailed
    PROVE  RefreshFailed'
  <1> DEFINE x == report.failed
             c == x \o X
  <1>1. x \in Seq(Failure) /\ X \in Seq(Failure) /\ report'.failed = c
    BY DEF RunTyped, ReportType, Adds
  <1>2. PICK i \in DOMAIN x : x[i].e = PathRefresh
    BY DEF RefreshFailed
  <1> HIDE DEF x
  <1>3. i \in DOMAIN c /\ c[i] = x[i]
    BY <1>1, ConcatProperties
  <1> HIDE DEF c
  <1> QED
    BY <1>1, <1>2, <1>3 DEF RefreshFailed

LEMMA CargoOn ==
    ASSUME RunTyped, CargoInv, NEW I, NEW A, NEW F, NEW M, NEW X, Goes(I, A, F, M, X),
           \/ ~Running'
           \/ pc' \in {"install", "readback", "refresh"}
           \/ /\ pc \notin {"install", "readback", "refresh"}
              /\ \A x \in have' \ have : "cargo" \notin host.brings[x[2]]
           \/ host.os = "windows" /\ "cargo" \in registered' => "cargo" \in path' \/ RefreshFailed'
    PROVE  CargoInv'
  <1>1. /\ Running /\ job' = job /\ host' = host
        /\ have \subseteq have' /\ path \subseteq path' /\ registered \subseteq registered'
        /\ \A x \in have' \ have : "cargo" \in host.brings[x[2]] =>
              IF host.os = "windows" THEN "cargo" \in registered' ELSE "cargo" \in path'
    BY DEF Goes, Grows
  <1>2. RefreshFailed => RefreshFailed'
    BY RefreshStaysFailed DEF Goes
  <1> SUFFICES ASSUME Running', NEW x \in have' \ job.others, "cargo" \in host.brings[x[2]]
               PROVE  \/ "cargo" \in path' \/ RefreshFailed'
                      \/ /\ host.os = "windows" /\ "cargo" \in registered'
                         /\ pc' \in {"install", "readback", "refresh"}
    BY <1>1 DEF CargoInv
  <1>3. CASE x \in have
    <2>1. \/ "cargo" \in path \/ RefreshFailed
          \/ /\ host.os = "windows" /\ "cargo" \in registered
             /\ pc \in {"install", "readback", "refresh"}
      BY <1>1, <1>3 DEF CargoInv
    <2> QED
      BY <1>1, <1>2, <2>1
  <1>4. CASE x \notin have
    BY <1>1, <1>4
  <1> QED
    BY <1>3, <1>4

\* How a source's steps go on: with the next source, or at another stage.
Onward == NextSource \/ (queue' = queue /\ (InHand' \/ pc' = "refresh"))

\* A source further on in the queue waits one place nearer.
LEMMA WaitsNext ==
    ASSUME RunTyped, NextSource, queue # << >>, NEW m, NEW e, NEW i \in DOMAIN queue, i # 1,
           queue[i].m = m, e \in ToSet(queue[i].es)
    PROVE  Waits(m, e)'
  <1> DEFINE q == queue
             j == i - 1
  <1>1. q \in Seq(Item) /\ queue' = Tail(q) /\ pc' = "next"
    BY DEF RunTyped, NextSource
  <1>2. i \in DOMAIN q /\ q # << >>
    OBVIOUS
  <1>3. j \in DOMAIN Tail(q) /\ Tail(q)[j] = q[i]
    <2> HIDE DEF q, Item
    <2> QED
      BY <1>1, <1>2
  <1> HIDE DEF j
  <1>4. j \in DOMAIN queue' /\ queue'[j].m = m /\ e \in ToSet(queue'[j].es)
    BY <1>1, <1>3
  <1>5. pc' # "refresh" /\ ~InHand'
    BY <1>1 DEF InHand
  <1> QED
    BY <1>4, <1>5 DEF Waits

LEMMA WaitsOn ==
    ASSUME RunTyped, InHand, queue # << >>, NEW m, NEW e, Waits(m, e), Onward
    PROVE  \/ Waits(m, e)'
           \/ /\ m = Source_ /\ e \in ToSet(batch)
              /\ ~(InHand' /\ e \in ToSet(batch'))
  <1>1. PICK i \in DOMAIN queue :
          /\ queue[i].m = m /\ e \in ToSet(queue[i].es)
          /\ i = 1 => pc # "refresh" /\ (InHand => e \in ToSet(batch))
    BY DEF Waits
  <1>2. Head(queue) = queue[1]
    OBVIOUS
  <1>3. CASE i = 1
    <2>1. m = Source_ /\ e \in ToSet(batch)
      BY <1>1, <1>2, <1>3 DEF Source_
    <2>2. CASE InHand' /\ e \in ToSet(batch')
      <3>1. queue' = queue /\ pc' # "refresh"
        BY <2>2 DEF Onward, NextSource, InHand
      <3>2. Waits(m, e)'
        BY <1>1, <2>2, <3>1 DEF Waits
      <3> QED
        BY <3>2
    <2> QED
      BY <2>1, <2>2
  <1>4. CASE i # 1
    <2>1. CASE queue' = queue
      BY <1>1, <1>4, <2>1 DEF Waits
    <2>2. CASE NextSource
      BY <1>1, <1>4, <2>2, WaitsNext
    <2> QED
      BY <2>1, <2>2 DEF Onward
  <1> QED
    BY <1>3, <1>4

LEMMA UnsettledTyped ==
    ASSUME RunTyped, AtSource => queue # << >>, NEW e
    PROVE  /\ Unsettled(e) \in Nat
           /\ Count(batch, e) \in Nat
           /\ AtSource => Count(ToDo(Tail(queue)), e) \in Nat
  <1>1. queue \in Seq(Item) /\ batch \in Seq(Entry)
    BY DEF RunTyped
  <1>2. Count(ToDo(queue), e) \in Nat /\ Count(batch, e) \in Nat
    BY <1>1, ToDoTyped, CountType
  <1>3. AtSource => Count(ToDo(Tail(queue)), e) \in Nat
    <2> SUFFICES ASSUME AtSource
                 PROVE  Count(ToDo(Tail(queue)), e) \in Nat
      OBVIOUS
    <2> DEFINE r == Tail(queue)
    <2>1. r \in Seq(Item)
      BY SourceTyped
    <2> HIDE DEF r
    <2>2. Count(ToDo(r), e) \in Nat
      BY <2>1, ToDoTyped, CountType
    <2> QED
      BY <2>2 DEF r
  <1> QED
    BY <1>2, <1>3 DEF Unsettled, AtSource, InHand

\* What a step with a source in hand has to settle: what leaves the hand.
LEMMA UnsettledOn ==
    ASSUME RunTyped, InHand, queue # << >>, Onward, NEW e
    PROVE  /\ InHand' => /\ Unsettled(e) = Count(batch, e) + Count(ToDo(Tail(queue)), e)
                         /\ Unsettled(e)' = Count(batch', e) + Count(ToDo(Tail(queue)), e)
           /\ ~InHand' => /\ Unsettled(e) = Count(batch, e) + Count(ToDo(Tail(queue)), e)
                          /\ Unsettled(e)' = Count(ToDo(Tail(queue)), e)
  <1>1. Unsettled(e) = Count(batch, e) + Count(ToDo(Tail(queue)), e)
    BY DEF Unsettled, InHand
  <1>2. CASE NextSource
    <2>1. pc' = "next" /\ queue' = Tail(queue) /\ ~InHand'
      BY <1>2 DEF NextSource, InHand
    <2> QED
      BY <1>1, <2>1 DEF Unsettled
  <1>3. CASE queue' = queue /\ InHand'
    <2>1. pc' # "next"
      BY <1>3 DEF InHand
    <2> QED
      BY <1>1, <1>3, <2>1 DEF Unsettled
  <1>4. CASE queue' = queue /\ pc' = "refresh"
    <2>1. ~InHand'
      BY <1>4 DEF InHand
    <2> QED
      BY <1>1, <1>4, <2>1 DEF Unsettled
  <1> QED
    BY <1>2, <1>3, <1>4 DEF Onward

LEMMA SharesOn ==
    ASSUME RunTyped, SharesInv, queue # << >>, queue' \in {queue, Tail(queue)}
    PROVE  SharesInv'
  <1>1. CASE queue' = queue
    BY <1>1 DEF SharesInv
  <1>2. CASE queue' = Tail(queue)
    <2> DEFINE q == queue
               r == Tail(q)
    <2>1. q \in Seq(Item) /\ q # << >>
      BY DEF RunTyped
    <2>2. ASSUME NEW i \in DOMAIN r
          PROVE  i + 1 \in DOMAIN q /\ r[i] = q[i + 1]
      <3> HIDE DEF q, Item
      <3> QED
        BY <2>1
    <2>3. ASSUME NEW i \in DOMAIN r, NEW e \in ToSet(r[i].es)
          PROVE  r[i].m = "cargo" <=> e.src = "cargo"
      <3> DEFINE j == i + 1
      <3>1. j \in DOMAIN q /\ r[i] = q[j]
        BY <2>2
      <3> HIDE DEF j, r
      <3> QED
        BY <2>3, <3>1 DEF SharesInv
    <2> QED
      BY <1>2, <2>3 DEF SharesInv
  <1> QED
    BY <1>1, <1>2

\* A step that takes entries out of the hand keeps the invariant if it
\* reports each of them once, and none as installed that is not there.
LEMMA HandOn ==
    ASSUME DepsInv, InHand, Onward, SourceInv', UNCHANGED <<runs, touches>>,
           NEW I, NEW A, NEW F, NEW M, NEW X, Goes(I, A, F, M, X),
           \A e \in Entry :
               Count(batch, e) = (IF InHand' THEN Count(batch', e) ELSE 0)
                   + Count(I, e) + Count(A, e) + Count(F, e) + Count(M, e) + Count(Of(X), e),
           ToSet(I) \cup ToSet(A) \subseteq ToSet(batch),
           ~cmd.dry /\ ~cmd.check =>
               \A e \in ToSet(I) \cup ToSet(A) : <<Source_, e.pkg>> \in have',
           ~cmd.dry /\ ~cmd.check /\ X = << >> =>
               \A e \in ToSet(batch) :
                   <<Source_, e.pkg>> \in have' \/ (InHand' /\ e \in ToSet(batch')),
           \/ pc' \in {"install", "readback", "refresh"}
           \/ /\ pc \notin {"install", "readback", "refresh"}
              /\ \A x \in have' \ have : "cargo" \notin host.brings[x[2]]
    PROVE  DepsInv'
  <1>1. /\ TypeOK /\ MachineTypeOK /\ RunTyped /\ SharesInv /\ SourceInv
        /\ InstalledTrue /\ NothingForgotten /\ EachAccounted /\ UnservedNamed /\ CargoInv
    BY TypesSplit DEF DepsInv
  <1>2. AtSource /\ queue # << >> /\ Source_ \in ToSet(report.used) /\ ToSet(batch) \subseteq ToSet(Head(queue).es)
    BY <1>1 DEF SourceInv, AtSource
  <1>3. TypeOK'
    <2>1. MachineTypeOK' /\ RunTyped' /\ (runs \in 0..MaxRuns)' /\ (touches \in 0..MaxTouches)'
      BY <1>1 DEF Goes, TypeOK
    <2> QED
      BY <2>1, TypesSplit, PTL
  <1>4. SharesInv'
    <2>1. queue' \in {queue, Tail(queue)}
      BY DEF Onward, NextSource
    <2> QED
      BY <1>1, <1>2, <2>1, SharesOn
  <1>5. InstalledTrue'
    <2>1. ASSUME ~cmd.dry, ~cmd.check, NEW e \in ToSet(I) \cup ToSet(A)
          PROVE  \E m \in ToSet(report'.used) : <<m, e.pkg>> \in have' /\ (m = "cargo" <=> e.src = "cargo")
      <3>1. Source_ \in ToSet(report'.used)
        BY <1>2 DEF Goes, Adds
      <3>2. <<Source_, e.pkg>> \in have'
        BY <2>1
      <3>3. e \in ToSet(Head(queue).es)
        BY <1>2, <2>1
      <3>4. 1 \in DOMAIN queue /\ Head(queue) = queue[1]
        BY <1>1, <1>2, EmptySeq DEF RunTyped
      <3>5. Source_ = "cargo" <=> e.src = "cargo"
        BY <1>1, <3>3, <3>4 DEF SharesInv, Source_
      <3> QED
        BY <3>1, <3>2, <3>5
    <2> QED
      BY <1>1, <2>1, InstalledOn
  <1>6. NothingForgotten'
    <2>1. ASSUME ~cmd.dry, ~cmd.check, X = << >>, NEW m \in Source, NEW e \in Entry, Waits(m, e)
          PROVE  <<m, e.pkg>> \in have' \/ Waits(m, e)'
      <3>1. \/ Waits(m, e)'
            \/ /\ m = Source_ /\ e \in ToSet(batch)
               /\ ~(InHand' /\ e \in ToSet(batch'))
        BY <1>1, <1>2, <2>1, WaitsOn
      <3> QED
        BY <2>1, <3>1
    <2> QED
      BY <1>1, <2>1, ForgottenOn
  <1>7. EachAccounted'
    <2>1. ASSUME NEW e \in Entry
          PROVE  /\ Unsettled(e) = Unsettled(e)' + Count(I, e) + Count(A, e) + Count(F, e)
                                     + Count(M, e) + Count(Of(X), e)
                 /\ Unsettled(e)' \in Nat
      <3> DEFINE w == Count(ToDo(Tail(queue)), e)
                 i == Count(I, e)
                 a == Count(A, e)
                 f == Count(F, e)
                 m == Count(M, e)
                 x == Count(Of(X), e)
                 b == Count(batch, e)
                 c == Count(batch', e)
                 u == Unsettled(e)
                 v == Unsettled(e)'
      <3>1. /\ InHand' => u = b + w /\ v = c + w
            /\ ~InHand' => u = b + w /\ v = w
        BY <1>1, <1>2, UnsettledOn
      <3>2. w \in Nat /\ b \in Nat
        BY <1>1, <1>2, UnsettledTyped
      <3>3. i \in Nat /\ a \in Nat /\ f \in Nat /\ m \in Nat /\ x \in Nat
        BY <1>1, SettledGrows DEF Goes
      <3>4. c \in Nat
        <4>1. batch' \in Seq(Entry)
          BY DEF Goes, RunTyped
        <4> QED
          BY <4>1, CountType
      <3>5. b = (IF InHand' THEN c ELSE 0) + i + a + f + m + x
        OBVIOUS
      <3> HIDE DEF w, i, a, f, m, x, b, c, u, v
      <3>6. u = v + i + a + f + m + x /\ v \in Nat
        BY <3>1, <3>2, <3>3, <3>4, <3>5
      <3> QED
        BY <3>6 DEF u, v, i, a, f, m, x
    <2> QED
      BY <1>1, <2>1, AccountedOn
  <1>8. UnservedNamed'
    BY <1>1, NamedOn
  <1>9. CargoInv'
    BY <1>1, CargoOn
  <1> QED
    BY <1>3, <1>4, <1>5, <1>6, <1>7, <1>8, <1>9 DEF DepsInv

\* A step of a run keeps the invariant if it settles what it leaves undone no
\* more, reports as installed what is there, and forgets nothing.
LEMMA GoesOn ==
    ASSUME DepsInv, SourceInv', SharesInv', UNCHANGED <<runs, touches>>,
           NEW I, NEW A, NEW F, NEW M, NEW X, Goes(I, A, F, M, X),
           \A e \in Entry :
               Unsettled(e) = Unsettled(e)' + Count(I, e) + Count(A, e) + Count(F, e) + Count(M, e)
                                + Count(Of(X), e),
           \A e \in Entry : Unsettled(e)' \in Nat,
           ~cmd.dry /\ ~cmd.check => ToSet(I) \cup ToSet(A) = {},
           ~cmd.dry /\ ~cmd.check /\ X = << >> =>
               \A m \in Source, e \in Entry : Waits(m, e) => Waits(m, e)',
           \/ ~Running'
           \/ /\ pc \notin {"install", "readback", "refresh"}
              /\ \A x \in have' \ have : "cargo" \notin host.brings[x[2]]
           \/ host.os = "windows" /\ "cargo" \in registered' => "cargo" \in path' \/ RefreshFailed'
    PROVE  DepsInv'
  <1>1. /\ TypeOK /\ MachineTypeOK /\ RunTyped /\ InstalledTrue /\ NothingForgotten
        /\ EachAccounted /\ UnservedNamed /\ CargoInv
    BY TypesSplit DEF DepsInv
  <1>2. TypeOK'
    <2>1. MachineTypeOK' /\ RunTyped' /\ (runs \in 0..MaxRuns)' /\ (touches \in 0..MaxTouches)'
      BY <1>1 DEF Goes, TypeOK
    <2> QED
      BY <2>1, TypesSplit, PTL
  <1>3. InstalledTrue'
    BY <1>1, InstalledOn
  <1>4. NothingForgotten'
    BY <1>1, ForgottenOn
  <1>5. EachAccounted'
    BY <1>1, AccountedOn
  <1>6. UnservedNamed'
    BY <1>1, NamedOn
  <1>7. CargoInv'
    BY <1>1, CargoOn
  <1> QED
    BY <1>2, <1>3, <1>4, <1>5, <1>6, <1>7 DEF DepsInv

(***************************************************************************)
(* The actions                                                             *)
(***************************************************************************)
LEMMA Nothing ==
    /\ << >> \in Seq(Entry) /\ << >> \in Seq(Failure) /\ Of(<< >>) = << >> /\ ToSet(<< >>) = {}
    /\ \A e : Count(<< >>, e) = 0 /\ Count(Of(<< >>), e) = 0
  <1>1. << >> \in Seq(Entry) /\ << >> \in Seq(Failure)
    OBVIOUS
  <1>2. Of(<< >>) = << >> /\ ToSet(<< >>) = {}
    BY DEF Of, ToSet
  <1>3. \A e : Count(<< >>, e) = 0
    BY CountNone
  <1> QED
    BY <1>1, <1>2, <1>3

\* The report with more in its lists.
More(I, A, F, M, X) ==
    [report EXCEPT !.installed = @ \o I, !.already = @ \o A, !.found = @ \o F,
                   !.missing = @ \o M, !.failed = @ \o X]

LEMMA MoreAdds ==
    ASSUME RunTyped, NEW I \in Seq(Entry), NEW A \in Seq(Entry), NEW F \in Seq(Entry),
           NEW M \in Seq(Entry), NEW X \in Seq(Failure), report' = More(I, A, F, M, X)
    PROVE  Adds(I, A, F, M, X) /\ report' \in ReportType /\ IsInjective(report'.used)
  <1>1. /\ report \in ReportType /\ IsInjective(report.used)
        /\ report.installed \in Seq(Entry) /\ report.already \in Seq(Entry)
        /\ report.found \in Seq(Entry) /\ report.missing \in Seq(Entry)
        /\ report.failed \in Seq(Failure)
    BY DEF RunTyped, ReportType
  <1>2. /\ report.installed \o I \in Seq(Entry) /\ report.already \o A \in Seq(Entry)
        /\ report.found \o F \in Seq(Entry) /\ report.missing \o M \in Seq(Entry)
        /\ report.failed \o X \in Seq(Failure)
    BY <1>1, ConcatProperties
  <1>3. /\ report'.installed = report.installed \o I /\ report'.already = report.already \o A
        /\ report'.found = report.found \o F /\ report'.missing = report.missing \o M
        /\ report'.failed = report.failed \o X
        /\ report'.unavailable = report.unavailable /\ report'.used = report.used
    BY <1>1 DEF More, ReportType
  <1>4. report' \in ReportType
    BY <1>1, <1>2 DEF More, ReportType
  <1> QED
    BY <1>1, <1>3, <1>4 DEF Adds

\* The ways the actions write it.
LEMMA MoreForms ==
    ASSUME RunTyped
    PROVE  /\ report = More(<< >>, << >>, << >>, << >>, << >>)
           /\ \A es \in Seq(Entry) :
                 /\ Report("installed", es) = More(es, << >>, << >>, << >>, << >>)
                 /\ Report("missing", es) = More(<< >>, << >>, << >>, es, << >>)
           /\ \A X \in Seq(Failure) :
                 Report("failed", X) = More(<< >>, << >>, << >>, << >>, X)
           /\ \A A \in Seq(Entry), X \in Seq(Failure) :
                 /\ [report EXCEPT !.already = @ \o A, !.failed = @ \o X]
                      = More(<< >>, A, << >>, << >>, X)
                 /\ [report EXCEPT !.installed = @ \o A, !.failed = @ \o X]
                      = More(A, << >>, << >>, << >>, X)
           /\ \A F \in Seq(Entry), M \in Seq(Entry), X \in Seq(Failure) :
                 [report EXCEPT !.found = @ \o F, !.missing = @ \o M, !.failed = @ \o X]
                   = More(<< >>, << >>, F, M, X)
  <1>1. /\ report \in ReportType
        /\ report.installed \in Seq(Entry) /\ report.already \in Seq(Entry)
        /\ report.found \in Seq(Entry) /\ report.missing \in Seq(Entry)
        /\ report.failed \in Seq(Failure)
    BY DEF RunTyped, ReportType
  <1>2. /\ report.installed \o << >> = report.installed /\ report.already \o << >> = report.already
        /\ report.found \o << >> = report.found /\ report.missing \o << >> = report.missing
        /\ report.failed \o << >> = report.failed
    BY <1>1, ConcatEmptySeq
  <1> QED
    BY <1>1, <1>2 DEF More, Report, ReportType

LEMMA Splits ==
    ASSUME NEW s \in Seq(Entry), NEW S, NEW R, NEW Q, NEW e,
           e \in ToSet(s) => \/ e \in S /\ e \notin R /\ e \notin Q
                             \/ e \notin S /\ e \in R /\ e \notin Q
                             \/ e \notin S /\ e \notin R /\ e \in Q
    PROVE  Count(s, e) = Count(Among(s, S), e) + Count(Among(s, R), e) + Count(Among(s, Q), e)
  <1>1. /\ Count(Among(s, S), e) = IF e \in S THEN Count(s, e) ELSE 0
        /\ Count(Among(s, R), e) = IF e \in R THEN Count(s, e) ELSE 0
        /\ Count(Among(s, Q), e) = IF e \in Q THEN Count(s, e) ELSE 0
        /\ Count(s, e) \in Nat
    BY CountAmong, CountType
  <1>2. e \notin ToSet(s) => Count(s, e) = 0
    BY CountAbsent
  <1> QED
    BY <1>1, <1>2

\* What the entries' failures are.
LEMMA BecauseCounts ==
    ASSUME NEW es \in Seq(Entry), NEW why \in Whys
    PROVE  /\ Because(es, why) \in Seq(Failure)
           /\ \A e : Count(Of(Because(es, why)), e) = Count(es, e)
           /\ Because(es, why) = << >> => es = << >> /\ ToSet(es) = {}
  <1>1. /\ Because(es, why) \in Seq(Failure) /\ Len(Because(es, why)) = Len(es)
        /\ Of(Because(es, why)) = es
    BY BecauseIs
  <1>2. Because(es, why) = << >> => es = << >>
    <2> DEFINE b == Because(es, why)
    <2>1. Len(b) = Len(es)
      BY <1>1
    <2> HIDE DEF b
    <2>2. b = << >> => Len(es) = 0
      BY <2>1
    <2>3. Len(es) = 0 => es = << >>
      BY EmptySeq
    <2> QED
      BY <2>2, <2>3 DEF b
  <1> QED
    BY <1>1, <1>2, Nothing

LEMMA NextKeeps ==
    ASSUME SourceInv, NextSource
    PROVE  SourceInv'
  BY DEF SourceInv, NextSource, AtSource, InHand, Running

\* What the invariant gives of the stages at which entries are in hand.
LEMMA InHandFacts ==
    ASSUME DepsInv, InHand
    PROVE  /\ TypeOK /\ MachineTypeOK /\ RunTyped /\ SourceInv /\ Running
           /\ queue # << >> /\ ~cmd.dry /\ Source_ \in ToSet(report.used)
           /\ ToSet(batch) \subseteq ToSet(Head(queue).es)
           /\ batch \in Seq(Entry) /\ Source_ \in Source
           /\ ToSet(batch) \subseteq Entry
  <1>1. TypeOK /\ MachineTypeOK /\ RunTyped /\ SourceInv
    BY TypesSplit DEF DepsInv
  <1>2. queue # << >>
    BY <1>1 DEF SourceInv, AtSource
  <1>3. batch \in Seq(Entry) /\ Source_ \in Source
    BY <1>1, <1>2, SourceTyped DEF RunTyped
  <1>4. ToSet(batch) \subseteq Entry
    BY <1>3 DEF ToSet
  <1> QED
    BY <1>1, <1>2, <1>3, <1>4 DEF SourceInv, AtSource, InHand, Running

LEMMA NothingToPrepareKeeps ==
    ASSUME DepsInv, NothingToPrepare, UNCHANGED <<runs, touches>>
    PROVE  DepsInv'
  <1>1. InHand
    BY DEF NothingToPrepare, InHand
  <1>2. /\ pc = "prepare" /\ pc' = "ask" /\ UNCHANGED <<queue, left>>
        /\ UNCHANGED <<host, have, buckets, shell, path, registered, faults>>
        /\ UNCHANGED <<batch, report, cmd, job>>
    BY DEF NothingToPrepare, Prepared, machineVars
  <1>3. InHand' /\ Onward
    BY <1>2 DEF InHand, Onward
  <1>4. SourceInv'
    BY <1>1, <1>2, InHandFacts DEF SourceInv, AtSource, InHand, Running, Source_
  <1>5. Adds(<< >>, << >>, << >>, << >>, << >>)
    <2>1. report' = More(<< >>, << >>, << >>, << >>, << >>)
      BY <1>1, <1>2, InHandFacts, MoreForms
    <2> QED
      BY <1>1, <2>1, InHandFacts, Nothing, MoreAdds
  <1>6. Goes(<< >>, << >>, << >>, << >>, << >>)
    BY <1>1, <1>2, <1>5, InHandFacts, StaysGrows DEF Goes, MachineTypeOK, RunTyped, Stages
  <1>7. \A e \in Entry :
            Count(batch, e) = (IF InHand' THEN Count(batch', e) ELSE 0)
                + Count(<< >>, e) + Count(<< >>, e) + Count(<< >>, e) + Count(<< >>, e)
                + Count(Of(<< >>), e)
    <2> TAKE e \in Entry
    <2>1. Count(batch, e) \in Nat
      BY <1>1, InHandFacts, CountType
    <2> QED
      BY <1>2, <1>3, <2>1, Nothing
  <1> DEFINE z == << >>
  <1>8. /\ ToSet(z) \cup ToSet(z) \subseteq ToSet(batch)
        /\ \A e \in ToSet(z) \cup ToSet(z) : <<Source_, e.pkg>> \in have'
    BY Nothing
  <1>9. \A e \in ToSet(batch) : <<Source_, e.pkg>> \in have' \/ (InHand' /\ e \in ToSet(batch'))
    BY <1>2, <1>3
  <1>10. /\ pc \notin {"install", "readback", "refresh"}
         /\ \A x \in have' \ have : "cargo" \notin host.brings[x[2]]
    BY <1>2
  <1>11. Goes(z, z, z, z, z)
    BY <1>6
  <1>12. \A e \in Entry :
            Count(batch, e) = (IF InHand' THEN Count(batch', e) ELSE 0)
                + Count(z, e) + Count(z, e) + Count(z, e) + Count(z, e) + Count(Of(z), e)
    BY <1>7
  <1> HIDE DEF z
  <1> QED
    BY <1>1, <1>3, <1>4, <1>8, <1>9, <1>10, <1>11, <1>12, HandOn

LEMMA AddBucketsKeeps ==
    ASSUME DepsInv, AddBuckets, UNCHANGED <<runs, touches>>
    PROVE  DepsInv'
  <1>1. InHand /\ pc = "prepare"
    BY DEF AddBuckets, InHand
  <1>2. /\ TypeOK /\ MachineTypeOK /\ RunTyped /\ SourceInv /\ Running
        /\ queue # << >> /\ ~cmd.dry /\ Source_ \in ToSet(report.used)
        /\ ToSet(batch) \subseteq ToSet(Head(queue).es)
        /\ batch \in Seq(Entry) /\ Source_ \in Source
    BY <1>1, InHandFacts
  <1>3. PICK added \in SUBSET wanted(batch) :
          /\ add_buckets(batch, added)
          /\ LET gone == wanted(batch) \ added
                 unready == Those(batch, LAMBDA e : e.bucket \in gone)
             IN  /\ report' = IF cmd.check THEN Report("missing", unready)
                              ELSE Report("failed", Because(unready, "source"))
                 /\ batch' = Those(batch, LAMBDA e : e.bucket \notin gone)
    BY DEF AddBuckets
  <1> DEFINE gone == wanted(batch) \ added
             S == {e \in ToSet(batch) : e.bucket \in gone}
             R == {e \in ToSet(batch) : e.bucket \notin gone}
             unready == Among(batch, S)
             z == << >>
             M == IF cmd.check THEN unready ELSE z
             X == IF cmd.check THEN z ELSE Because(unready, "source")
  <1>4. /\ report' = IF cmd.check THEN Report("missing", unready)
                     ELSE Report("failed", Because(unready, "source"))
        /\ batch' = Among(batch, R)
    BY <1>3 DEF Those
  <1>5. pc' = "ask" /\ UNCHANGED <<queue, left, cmd, job>>
    BY DEF AddBuckets, Prepared
  <1>6. /\ MachineTypeOK' /\ Grows
        /\ \A x \in have' \ have : "cargo" \notin host.brings[x[2]]
    BY <1>2, <1>3, BucketsGrow
  <1>7. /\ \A e \in ToSet(batch) : e \in S <=> e \notin R
        /\ S \subseteq ToSet(batch) /\ R \subseteq ToSet(batch)
    OBVIOUS
  <1> HIDE DEF S, R
  <1>8. /\ unready \in Seq(Entry) /\ ToSet(unready) = S
        /\ batch' \in Seq(Entry) /\ ToSet(batch') = R
    BY <1>2, <1>4, <1>7, AnswersTyped
  <1>9. InHand' /\ Onward
    BY <1>5 DEF InHand, Onward
  <1>10. "source" \in Whys /\ z \in Seq(Entry) /\ z \in Seq(Failure)
    BY Nothing DEF Whys
  <1>11. /\ M \in Seq(Entry) /\ X \in Seq(Failure)
         /\ \A e : Count(M, e) + Count(Of(X), e) = Count(unready, e)
         /\ ~cmd.check /\ X = << >> => S = {}
    <2>1. /\ Because(unready, "source") \in Seq(Failure)
          /\ \A e : Count(Of(Because(unready, "source")), e) = Count(unready, e)
          /\ Because(unready, "source") = << >> => ToSet(unready) = {}
      BY <1>8, <1>10, BecauseCounts
    <2>2. \A e : Count(unready, e) \in Nat
      BY <1>8, CountType
    <2> HIDE DEF unready
    <2> QED
      BY <1>8, <1>10, <2>1, <2>2, Nothing
  <1>12. report' = More(z, z, z, M, X)
    <2>1. CASE cmd.check
      BY <1>2, <1>4, <1>8, <2>1, MoreForms
    <2>2. CASE ~cmd.check
      <3>1. X = Because(unready, "source") /\ M = z
        BY <2>2
      <3>2. report' = Report("failed", X)
        BY <1>4, <2>2, <3>1
      <3> HIDE DEF X, M
      <3> QED
        BY <1>2, <1>11, <3>1, <3>2, MoreForms
    <2> QED
      BY <2>1, <2>2
  <1> HIDE DEF M, X
  <1>13. Adds(z, z, z, M, X) /\ report' \in ReportType /\ IsInjective(report'.used)
    BY <1>2, <1>10, <1>11, <1>12, MoreAdds
  <1>14. Goes(z, z, z, M, X)
    BY <1>2, <1>5, <1>6, <1>8, <1>13 DEF Goes, RunTyped, Stages
  <1>15. SourceInv'
    <2>1. Source_' = Source_ /\ Source_ \in ToSet(report'.used)
      BY <1>2, <1>5, <1>13 DEF Source_, Adds
    <2> QED
      BY <1>2, <1>5, <1>7, <1>8, <2>1 DEF SourceInv, AtSource, InHand, Running
  <1>16. \A e \in Entry :
            Count(batch, e) = (IF InHand' THEN Count(batch', e) ELSE 0)
                + Count(z, e) + Count(z, e) + Count(z, e) + Count(M, e) + Count(Of(X), e)
    <2> TAKE e \in Entry
    <2>1. Count(batch, e) = Count(unready, e) + Count(batch', e) + Count(Among(batch, {}), e)
      BY <1>2, <1>4, <1>7, Splits
    <2>2. Count(Among(batch, {}), e) = 0
      BY <1>2, CountAmong
    <2>3. Count(unready, e) \in Nat /\ Count(batch', e) \in Nat
      BY <1>8, CountType
    <2>4. Count(z, e) = 0 /\ Count(M, e) + Count(Of(X), e) = Count(unready, e)
      BY <1>11, Nothing
    <2>5. Count(M, e) \in Nat /\ Count(Of(X), e) \in Nat
      BY <1>2, <1>13, SettledGrows
    <2> HIDE DEF unready, z
    <2> QED
      BY <1>9, <2>1, <2>2, <2>3, <2>4, <2>5
  <1>17. ToSet(z) \cup ToSet(z) = {}
    BY Nothing
  <1>18. ~cmd.check /\ X = << >> =>
           \A e \in ToSet(batch) : InHand' /\ e \in ToSet(batch')
    BY <1>7, <1>8, <1>9, <1>11
  <1> HIDE DEF z
  <1> QED
    BY <1>1, <1>6, <1>9, <1>14, <1>15, <1>16, <1>17, <1>18, HandOn

\* A step after which no entries of the source are in hand.
LEMMA EmptyHand ==
    ASSUME DepsInv, InHand, Onward, ~InHand', UNCHANGED <<cmd, job, runs, touches>>,
           batch' = << >>, left' = << >>, MachineTypeOK', Grows,
           pc' = "refresh" => ~cmd.check,
           NEW I \in Seq(Entry), NEW A \in Seq(Entry), NEW F \in Seq(Entry),
           NEW M \in Seq(Entry), NEW X \in Seq(Failure), report' = More(I, A, F, M, X),
           \A e \in Entry :
               Count(batch, e)
                   = Count(I, e) + Count(A, e) + Count(F, e) + Count(M, e) + Count(Of(X), e),
           ToSet(I) \cup ToSet(A) \subseteq ToSet(batch),
           ~cmd.check => \A e \in ToSet(I) \cup ToSet(A) : <<Source_, e.pkg>> \in have',
           ~cmd.check /\ X = << >> => \A e \in ToSet(batch) : <<Source_, e.pkg>> \in have',
           \/ pc' = "refresh"
           \/ /\ pc \notin {"install", "readback", "refresh"}
              /\ \A x \in have' \ have : "cargo" \notin host.brings[x[2]]
    PROVE  DepsInv'
  <1>1. /\ TypeOK /\ MachineTypeOK /\ RunTyped /\ SourceInv /\ Running
        /\ queue # << >> /\ ~cmd.dry /\ Source_ \in ToSet(report.used)
        /\ batch \in Seq(Entry)
    BY InHandFacts
  <1>2. Adds(I, A, F, M, X) /\ report' \in ReportType /\ IsInjective(report'.used)
    BY <1>1, MoreAdds
  <1>3. RunTyped'
    <2>1. pc' \in Stages /\ queue' \in Seq(Item)
      <3>1. CASE NextSource
        BY <1>1, <3>1, NextTyped
      <3>2. CASE pc' = "refresh" /\ queue' = queue
        BY <1>1, <3>2 DEF RunTyped, Stages
      <3> QED
        BY <3>1, <3>2 DEF Onward
    <2>2. batch' \in Seq(Entry) /\ left' \in Seq(Entry)
      BY Nothing
    <2> QED
      BY <1>1, <1>2, <2>1, <2>2 DEF RunTyped
  <1>4. Goes(I, A, F, M, X)
    BY <1>1, <1>2, <1>3 DEF Goes
  <1>5. SourceInv'
    <2>1. CASE NextSource
      BY <1>1, <2>1, NextKeeps
    <2>2. CASE pc' = "refresh" /\ queue' = queue
      <3>1. Source_' = Source_ /\ Source_ \in ToSet(report'.used)
        BY <1>1, <1>2, <2>2 DEF Source_, Adds
      <3> QED
        BY <1>1, <2>2, <3>1 DEF SourceInv, AtSource, InHand, Running
    <2> QED
      BY <2>1, <2>2 DEF Onward
  <1>6. \A e \in Entry :
            Count(batch, e) = (IF InHand' THEN Count(batch', e) ELSE 0)
                + Count(I, e) + Count(A, e) + Count(F, e) + Count(M, e) + Count(Of(X), e)
    <2> TAKE e \in Entry
    <2>1. /\ Count(I, e) \in Nat /\ Count(A, e) \in Nat /\ Count(F, e) \in Nat
          /\ Count(M, e) \in Nat /\ Count(Of(X), e) \in Nat
      BY <1>1, <1>2, SettledGrows
    <2>2. Count(batch, e)
            = Count(I, e) + Count(A, e) + Count(F, e) + Count(M, e) + Count(Of(X), e)
      OBVIOUS
    <2> QED
      BY <2>1, <2>2
  <1> QED
    BY <1>4, <1>5, <1>6, HandOn

LEMMA PrepareFailsKeeps ==
    ASSUME DepsInv, PrepareFails, UNCHANGED <<runs, touches>>
    PROVE  DepsInv'
  <1>1. /\ InHand /\ pc = "prepare" /\ NextSource /\ UNCHANGED <<cmd, job>>
        /\ report' = Report("failed", Because(batch, "source"))
    BY DEF PrepareFails, InHand
  <1>2. /\ MachineTypeOK /\ RunTyped /\ batch \in Seq(Entry) /\ queue # << >>
    BY <1>1, InHandFacts
  <1>3. /\ MachineTypeOK' /\ Grows
        /\ \A x \in have' \ have : "cargo" \notin host.brings[x[2]]
    <2>1. CASE UNCHANGED machineVars
      BY <1>2, <2>1, StaysGrows DEF machineVars, MachineTypeOK
    <2>2. CASE Fault /\ UNCHANGED <<host, have, buckets, shell, path, registered>>
      BY <1>2, <2>2, StaysGrows, FaultTyped DEF MachineTypeOK
    <2>3. CASE \E added \in SUBSET wanted(batch) : add_buckets(batch, added)
      BY <1>2, <2>3, BucketsGrow
    <2> QED
      BY <2>1, <2>2, <2>3 DEF PrepareFails
  <1> DEFINE z == << >>
             X == Because(batch, "source")
  <1>4. z \in Seq(Entry) /\ "source" \in Whys /\ ToSet(z) = {} /\ \A e : Count(z, e) = 0
    BY Nothing DEF Whys
  <1>5. /\ X \in Seq(Failure)
        /\ \A e : Count(Of(X), e) = Count(batch, e)
        /\ X = << >> => ToSet(batch) = {}
    BY <1>2, <1>4, BecauseCounts
  <1>6. report' = More(z, z, z, z, X)
    BY <1>1, <1>2, <1>5, MoreForms
  <1>7. \A e \in Entry :
            Count(batch, e)
                = Count(z, e) + Count(z, e) + Count(z, e) + Count(z, e) + Count(Of(X), e)
    <2> TAKE e \in Entry
    <2>1. Count(batch, e) \in Nat
      BY <1>2, CountType
    <2> QED
      BY <1>4, <1>5, <2>1
  <1>8. /\ Onward /\ ~InHand' /\ pc' # "refresh" /\ batch' = << >> /\ left' = << >>
        /\ pc \notin {"install", "readback", "refresh"}
    BY <1>1 DEF Onward, NextSource, InHand
  <1> HIDE DEF z, X
  <1> QED
    BY <1>1, <1>3, <1>4, <1>5, <1>6, <1>7, <1>8, EmptyHand

\* Entries that were asked about: installed or to install, or no answer.
LEMMA AnswersAre ==
    ASSUME NEW es \in Seq(Entry), NEW answer, NEW a
    PROVE  /\ Answers(es, answer, a) \in Seq(Entry)
           /\ \A e : e \in ToSet(Answers(es, answer, a)) <=> e \in ToSet(es) /\ answer[e] = a
           /\ \A e : Count(Answers(es, answer, a), e)
                       = IF e \in ToSet(es) /\ answer[e] = a THEN Count(es, e) ELSE 0
  <1> DEFINE S == {e \in ToSet(es) : answer[e] = a}
  <1>1. Answers(es, answer, a) = Among(es, S)
    BY DEF Answers, Those
  <1>2. \A e : e \in S <=> e \in ToSet(es) /\ answer[e] = a
    OBVIOUS
  <1> HIDE DEF S
  <1>3. Among(es, S) \in Seq(Entry) /\ ToSet(Among(es, S)) = ToSet(es) \cap S
    BY AnswersTyped
  <1>4. \A e : Count(Among(es, S), e) = IF e \in S THEN Count(es, e) ELSE 0
    BY CountAmong
  <1> QED
    BY <1>1, <1>2, <1>3, <1>4

LEMMA AnswersSplit ==
    ASSUME NEW es \in Seq(Entry), NEW answer, NEW e,
           \A x \in ToSet(es) : answer[x] \in {"yes", "no", "error"}
    PROVE  /\ Count(es, e) = Count(Answers(es, answer, "yes"), e)
                               + Count(Answers(es, answer, "no"), e)
                               + Count(Answers(es, answer, "error"), e)
           /\ Count(Answers(es, answer, "yes"), e) \in Nat
           /\ Count(Answers(es, answer, "no"), e) \in Nat
           /\ Count(Answers(es, answer, "error"), e) \in Nat
  <1>1. \A a : Count(Answers(es, answer, a), e)
                 = IF e \in ToSet(es) /\ answer[e] = a THEN Count(es, e) ELSE 0
    BY AnswersAre
  <1>2. Count(es, e) \in Nat
    BY CountType
  <1>3. e \notin ToSet(es) => Count(es, e) = 0
    BY CountAbsent
  <1> QED
    BY <1>1, <1>2, <1>3

LEMMA AskInstalledKeeps ==
    ASSUME DepsInv, AskInstalled, UNCHANGED <<runs, touches>>
    PROVE  DepsInv'
  <1>1. /\ InHand /\ pc = "ask" /\ ~cmd.check
        /\ UNCHANGED <<host, have, buckets, shell, path, registered, cmd, job>>
    BY DEF AskInstalled, InHand
  <1>2. /\ MachineTypeOK /\ RunTyped /\ SourceInv /\ Running /\ batch \in Seq(Entry)
        /\ queue # << >> /\ Source_ \in ToSet(report.used) /\ ~cmd.dry
        /\ ToSet(batch) \subseteq ToSet(Head(queue).es)
    BY <1>1, InHandFacts
  <1>3. PICK F1 :
          LET answer == [e \in ToSet(batch) |-> is_installed(Source_, e, e \in F1)]
              to_install == Answers(batch, answer, "no")
          IN  /\ IF F1 = {} THEN NoFault ELSE Fault
              /\ report' = [report EXCEPT
                     !.already = @ \o Answers(batch, answer, "yes"),
                     !.failed = @ \o Because(Answers(batch, answer, "error"), "query")]
              /\ IF to_install = << >> THEN NextSource
                 ELSE /\ pc' = "install" /\ batch' = to_install /\ left' = to_install
                      /\ UNCHANGED queue
    BY DEF AskInstalled
  <1> DEFINE answer == [e \in ToSet(batch) |-> is_installed(Source_, e, e \in F1)]
             N == Answers(batch, answer, "no")
             A == Answers(batch, answer, "yes")
             E == Answers(batch, answer, "error")
             X == Because(E, "query")
             z == << >>
  <1>4. /\ Fault \/ NoFault
        /\ report' = [report EXCEPT !.already = @ \o A, !.failed = @ \o X]
        /\ \/ N = << >> /\ NextSource
           \/ /\ N # << >> /\ pc' = "install" /\ batch' = N /\ left' = N
              /\ UNCHANGED queue
    BY <1>3
  <1>5. \A x \in ToSet(batch) : /\ answer[x] \in {"yes", "no", "error"}
                                /\ answer[x] = "yes" => <<Source_, x.pkg>> \in have
    BY DEF is_installed, Has
  <1> HIDE DEF answer
  <1>6. /\ A \in Seq(Entry) /\ \A e : e \in ToSet(A) <=> e \in ToSet(batch) /\ answer[e] = "yes"
        /\ N \in Seq(Entry) /\ \A e : e \in ToSet(N) <=> e \in ToSet(batch) /\ answer[e] = "no"
        /\ E \in Seq(Entry) /\ \A e : e \in ToSet(E) <=> e \in ToSet(batch) /\ answer[e] = "error"
    BY <1>2, AnswersAre
  <1>7. \A e : /\ Count(batch, e) = Count(A, e) + Count(N, e) + Count(E, e)
               /\ Count(A, e) \in Nat /\ Count(N, e) \in Nat /\ Count(E, e) \in Nat
    BY <1>2, <1>5, AnswersSplit
  <1> HIDE DEF A, N, E
  <1>8. z \in Seq(Entry) /\ "query" \in Whys /\ ToSet(z) = {} /\ \A e : Count(z, e) = 0
    BY Nothing DEF Whys
  <1>9. /\ X \in Seq(Failure)
        /\ \A e : Count(Of(X), e) = Count(E, e)
        /\ X = << >> => ToSet(E) = {}
    BY <1>6, <1>8, BecauseCounts
  <1> HIDE DEF X
  <1>10. report' = More(z, A, z, z, X)
    BY <1>2, <1>4, <1>6, <1>9, MoreForms
  <1>11. MachineTypeOK' /\ Grows
    BY <1>1, <1>2, <1>4, StaysGrows, FaultTyped DEF MachineTypeOK
  <1>12. /\ ToSet(z) \cup ToSet(A) \subseteq ToSet(batch)
         /\ \A e \in ToSet(z) \cup ToSet(A) : <<Source_, e.pkg>> \in have'
    BY <1>1, <1>5, <1>6, <1>8
  <1>13. X = << >> => \A e \in ToSet(batch) : <<Source_, e.pkg>> \in have' \/ e \in ToSet(N)
    BY <1>1, <1>5, <1>6, <1>9
  <1>14. /\ \A x \in have' \ have : "cargo" \notin host.brings[x[2]]
         /\ pc \notin {"install", "readback", "refresh"}
    BY <1>1
  <1> HIDE DEF z
  <1>15. CASE N = << >> /\ NextSource
    <2>1. ToSet(N) = {} /\ \A e : Count(N, e) = 0
      BY <1>15, Nothing
    <2>2. /\ Onward /\ ~InHand' /\ pc' # "refresh" /\ batch' = << >> /\ left' = << >>
      BY <1>15 DEF Onward, NextSource, InHand
    <2>3. \A e \in Entry :
              Count(batch, e)
                  = Count(z, e) + Count(A, e) + Count(z, e) + Count(z, e) + Count(Of(X), e)
      BY <1>7, <1>8, <1>9, <2>1
    <2>4. X = << >> => \A e \in ToSet(batch) : <<Source_, e.pkg>> \in have'
      BY <1>13, <2>1
    <2>5. /\ InHand /\ ~cmd.check /\ UNCHANGED <<cmd, job>> /\ A \in Seq(Entry)
      BY <1>1, <1>6
    <2> QED
      BY <1>8, <1>9, <1>10, <1>11, <1>12, <1>14, <2>2, <2>3, <2>4, <2>5, EmptyHand
  <1>16. CASE N # << >> /\ pc' = "install" /\ batch' = N /\ left' = N /\ queue' = queue
    <2>1. Adds(z, A, z, z, X) /\ report' \in ReportType /\ IsInjective(report'.used)
      BY <1>2, <1>6, <1>8, <1>9, <1>10, MoreAdds
    <2>2. Goes(z, A, z, z, X)
      BY <1>1, <1>2, <1>6, <1>11, <1>16, <2>1 DEF Goes, RunTyped, Stages
    <2>3. InHand' /\ Onward /\ pc' \in {"install", "readback", "refresh"}
      BY <1>16 DEF InHand, Onward
    <2>4. Source_' = Source_ /\ Source_ \in ToSet(report'.used)
      BY <1>2, <1>16, <2>1 DEF Source_, Adds
    <2>5. SourceInv'
      <3>1. ToSet(batch') \subseteq ToSet(batch)
        BY <1>6, <1>16
      <3> QED
        BY <1>1, <1>2, <1>16, <2>4, <3>1 DEF SourceInv, AtSource, InHand, Running
    <2>6. \A e \in Entry :
              Count(batch, e) = (IF InHand' THEN Count(batch', e) ELSE 0)
                  + Count(z, e) + Count(A, e) + Count(z, e) + Count(z, e) + Count(Of(X), e)
      BY <1>7, <1>8, <1>9, <1>16, <2>3
    <2>7. X = << >> =>
              \A e \in ToSet(batch) :
                  <<Source_, e.pkg>> \in have' \/ (InHand' /\ e \in ToSet(batch'))
      BY <1>13, <1>16, <2>3
    <2> QED
      BY <1>1, <1>12, <2>2, <2>3, <2>5, <2>6, <2>7, HandOn
  <1> QED
    BY <1>4, <1>15, <1>16

LEMMA AskExistsKeeps ==
    ASSUME DepsInv, AskExists, UNCHANGED <<runs, touches>>
    PROVE  DepsInv'
  <1>1. /\ InHand /\ pc = "ask" /\ cmd.check /\ NextSource
        /\ UNCHANGED <<host, have, shell, path, registered, cmd, job>>
    BY DEF AskExists, InHand
  <1>2. /\ MachineTypeOK /\ RunTyped /\ batch \in Seq(Entry) /\ queue # << >>
    BY <1>1, InHandFacts
  <1>3. PICK F1 :
          LET taps == IF Spawns(Source_)
                      THEN {e.bucket : e \in {x \in ToSet(batch) \ F1 : Taps(Source_, x)}} \cap host.addable
                      ELSE {}
              answer == [e \in ToSet(batch) |-> exists(Source_, e, buckets \cup taps, e \in F1)]
          IN  /\ IF F1 = {} THEN NoFault ELSE Fault
              /\ buckets' = buckets \cup taps
              /\ report' = [report EXCEPT
                     !.found = @ \o Answers(batch, answer, "yes"),
                     !.missing = @ \o Answers(batch, answer, "no"),
                     !.failed = @ \o Because(Answers(batch, answer, "error"), "query")]
    BY DEF AskExists
  <1> DEFINE taps == IF Spawns(Source_)
                     THEN {e.bucket : e \in {x \in ToSet(batch) \ F1 : Taps(Source_, x)}} \cap host.addable
                     ELSE {}
             answer == [e \in ToSet(batch) |-> exists(Source_, e, buckets \cup taps, e \in F1)]
             N == Answers(batch, answer, "no")
             A == Answers(batch, answer, "yes")
             E == Answers(batch, answer, "error")
             X == Because(E, "query")
             z == << >>
  <1>4. /\ Fault \/ NoFault
        /\ buckets' = buckets \cup taps
        /\ report' = [report EXCEPT !.found = @ \o A, !.missing = @ \o N, !.failed = @ \o X]
    BY <1>3
  <1>5. taps \subseteq Bucket
    BY <1>2, PackagesAssumption DEF MachineTypeOK
  <1> HIDE DEF taps
  <1>6. \A x \in ToSet(batch) : answer[x] \in {"yes", "no", "error"}
    BY DEF exists
  <1> HIDE DEF answer
  <1>7. A \in Seq(Entry) /\ N \in Seq(Entry) /\ E \in Seq(Entry)
    BY <1>2, AnswersAre
  <1>8. \A e : /\ Count(batch, e) = Count(A, e) + Count(N, e) + Count(E, e)
               /\ Count(A, e) \in Nat /\ Count(N, e) \in Nat /\ Count(E, e) \in Nat
    BY <1>2, <1>6, AnswersSplit
  <1> HIDE DEF A, N, E
  <1>9. z \in Seq(Entry) /\ "query" \in Whys /\ ToSet(z) = {} /\ \A e : Count(z, e) = 0
    BY Nothing DEF Whys
  <1>10. X \in Seq(Failure) /\ \A e : Count(Of(X), e) = Count(E, e)
    BY <1>7, <1>9, BecauseCounts
  <1> HIDE DEF X
  <1>11. report' = More(z, z, A, N, X)
    <2>1. [report EXCEPT !.found = @ \o A, !.missing = @ \o N, !.failed = @ \o X]
            = More(z, z, A, N, X)
      <3>1. \A G \in Seq(Entry), M \in Seq(Entry), Y \in Seq(Failure) :
                [report EXCEPT !.found = @ \o G, !.missing = @ \o M, !.failed = @ \o Y]
                  = More(z, z, G, M, Y)
        BY <1>2, MoreForms
      <3> QED
        BY <1>7, <1>10, <3>1
    <2> QED
      BY <1>4, <2>1
  <1>12. MachineTypeOK' /\ Grows
    <2>1. MachineTypeOK'
      BY <1>1, <1>2, <1>4, <1>5, FaultTyped DEF MachineTypeOK
    <2> QED
      BY <1>1, <1>4, <2>1 DEF Grows
  <1>13. /\ Onward /\ ~InHand' /\ pc' # "refresh" /\ batch' = << >> /\ left' = << >>
         /\ pc \notin {"install", "readback", "refresh"}
         /\ \A x \in have' \ have : "cargo" \notin host.brings[x[2]]
    BY <1>1 DEF Onward, NextSource, InHand
  <1> HIDE DEF z
  <1>14. \A e \in Entry :
            Count(batch, e)
                = Count(z, e) + Count(z, e) + Count(A, e) + Count(N, e) + Count(Of(X), e)
    BY <1>8, <1>9, <1>10
  <1>15. ToSet(z) \cup ToSet(z) \subseteq ToSet(batch)
    BY <1>9
  <1>16. InHand /\ UNCHANGED <<cmd, job>> /\ cmd.check
    BY <1>1
  <1> QED
    BY <1>7, <1>9, <1>10, <1>11, <1>12, <1>13, <1>14, <1>15, <1>16, EmptyHand

\* What is in hand comes out as installed, or as failed.
LEMMA ComesOut ==
    ASSUME DepsInv, pc \in {"install", "readback"}, NEW ok \in BOOLEAN, Installed(TRUE),
           report' = IF ok THEN Report("installed", batch)
                     ELSE Report("failed", Because(batch, "install")),
           ok => \A e \in ToSet(batch) : <<Source_, e.pkg>> \in have',
           batch' = << >>, left' = << >>, MachineTypeOK', Grows,
           UNCHANGED <<cmd, job, runs, touches>>
    PROVE  DepsInv'
  <1>1. /\ InHand /\ pc' = "refresh" /\ queue' = queue /\ ~InHand' /\ Onward
    BY DEF InHand, Installed, Onward
  <1>2. /\ RunTyped /\ SourceInv /\ batch \in Seq(Entry) /\ ~cmd.check
    BY <1>1, InHandFacts DEF SourceInv
  <1> DEFINE z == << >>
             b == batch
             F == Because(b, "install")
             I == IF ok THEN b ELSE z
             X == IF ok THEN z ELSE F
  <1>3. /\ z \in Seq(Entry) /\ z \in Seq(Failure) /\ "install" \in Whys /\ ToSet(z) = {}
        /\ \A e : Count(z, e) = 0 /\ Count(Of(z), e) = 0
    BY Nothing DEF Whys
  <1>4. /\ F \in Seq(Failure) /\ \A e : Count(Of(F), e) = Count(b, e)
        /\ F = << >> => ToSet(b) = {}
    BY <1>2, <1>3, BecauseCounts
  <1>5. b \in Seq(Entry) /\ \A e : Count(b, e) \in Nat
    BY <1>2, CountType
  <1>6. report' = IF ok THEN Report("installed", b) ELSE Report("failed", F)
    OBVIOUS
  <1> HIDE DEF F
  <1>7. report' = More(I, z, z, z, X)
    BY <1>2, <1>4, <1>5, <1>6, MoreForms
  <1>8. I \in Seq(Entry) /\ X \in Seq(Failure)
    BY <1>3, <1>4, <1>5
  <1>9. /\ ToSet(I) \cup ToSet(z) \subseteq ToSet(b)
        /\ \A e \in ToSet(I) \cup ToSet(z) : <<Source_, e.pkg>> \in have'
    BY <1>3
  <1>10. X = << >> => \A e \in ToSet(b) : <<Source_, e.pkg>> \in have'
    BY <1>4
  <1>11. \A e \in Entry :
            Count(b, e) = Count(I, e) + Count(z, e) + Count(z, e) + Count(z, e) + Count(Of(X), e)
    <2> TAKE e \in Entry
    <2>1. Count(b, e) \in Nat /\ Count(z, e) = 0 /\ Count(Of(z), e) = 0 /\ Count(Of(F), e) = Count(b, e)
      BY <1>3, <1>4, <1>5
    <2> HIDE DEF b, z
    <2> QED
      BY <2>1
  <1> HIDE DEF I, X, z
  <1> QED
    BY <1>1, <1>2, <1>3, <1>7, <1>8, <1>9, <1>10, <1>11, EmptyHand DEF b

LEMMA InstallKeeps ==
    ASSUME DepsInv, Install, UNCHANGED <<runs, touches>>
    PROVE  DepsInv'
  <1>1. /\ pc = "install" /\ InHand /\ batch' = << >> /\ left' = << >> /\ UNCHANGED <<cmd, job>>
    BY DEF Install, InHand
  <1>2. PICK ok \in BOOLEAN :
          /\ InstallAtOnce(Source_, batch, ok)
          /\ report' = IF ok THEN Report("installed", batch)
                       ELSE Report("failed", Because(batch, "install"))
          /\ Installed(ok)
    BY DEF Install
  <1>3. MachineTypeOK /\ batch \in Seq(Entry) /\ Source_ \in Source
    BY <1>1, InHandFacts
  <1> DEFINE m == Source_
             es == batch
  <1>4. MachineTypeOK' /\ Grows
    <2>1. m \in Source /\ es \in Seq(Entry) /\ InstallAtOnce(m, es, ok)
      BY <1>2, <1>3
    <2> HIDE DEF m, es
    <2> QED
      BY <1>3, <2>1, InstallGrows
  <1>5. ok => \A e \in ToSet(batch) : <<Source_, e.pkg>> \in have'
    BY <1>2 DEF InstallAtOnce, Lands
  <1>6. Installed(TRUE)
    BY <1>2 DEF Installed
  <1> QED
    BY <1>1, <1>2, <1>4, <1>5, <1>6, ComesOut

LEMMA HeadAndTail ==
    ASSUME NEW T, NEW s \in Seq(T), s # << >>
    PROVE  /\ Head(s) \in ToSet(s) /\ Tail(s) \in Seq(T)
           /\ ToSet(s) = {Head(s)} \cup ToSet(Tail(s))
           /\ Len(s) > 1 => Tail(s) # << >>
           /\ Len(s) <= 1 => ToSet(s) = {Head(s)}
  <1> DEFINE r == Tail(s)
             n == Len(s)
  <1>1. n \in Nat /\ n >= 1 /\ DOMAIN s = 1..n /\ Head(s) = s[1]
    BY EmptySeq
  <1>2. /\ r \in Seq(T) /\ Len(r) = n - 1 /\ DOMAIN r = 1..(n - 1)
        /\ \A i \in 1..(n - 1) : r[i] = s[i + 1]
    OBVIOUS
  <1> HIDE DEF r, n
  <1>3. ToSet(s) = {s[1]} \cup ToSet(r)
    <2>1. ASSUME NEW x \in ToSet(r) PROVE x \in ToSet(s)
      <3>1. PICK i \in 1..(n - 1) : r[i] = x
        BY <1>2, <2>1 DEF ToSet
      <3> DEFINE j == i + 1
      <3>2. j \in 1..n /\ s[j] = x
        BY <1>1, <1>2, <3>1
      <3> HIDE DEF j
      <3> QED
        BY <1>1, <3>2 DEF ToSet
    <2>2. ASSUME NEW x \in ToSet(s) PROVE x \in {s[1]} \cup ToSet(r)
      <3>1. PICK i \in 1..n : s[i] = x
        BY <1>1, <2>2 DEF ToSet
      <3>2. CASE i # 1
        <4> DEFINE j == i - 1
        <4>1. j \in 1..(n - 1) /\ j + 1 = i
          BY <1>1, <3>2
        <4> HIDE DEF j
        <4>2. r[j] = x
          BY <1>2, <3>1, <4>1
        <4> QED
          BY <1>2, <4>1, <4>2 DEF ToSet
      <3> QED
        BY <3>1, <3>2
    <2>3. s[1] \in ToSet(s)
      BY <1>1 DEF ToSet
    <2> QED
      BY <2>1, <2>2, <2>3
  <1>4. n > 1 => r # << >>
    BY <1>1, <1>2
  <1>5. n <= 1 => ToSet(r) = {}
    BY <1>1, <1>2 DEF ToSet
  <1> QED
    BY <1>1, <1>2, <1>3, <1>4, <1>5 DEF r, n

LEMMA InstallWingetKeeps ==
    ASSUME DepsInv, InstallWinget, UNCHANGED <<runs, touches>>
    PROVE  DepsInv'
  <1>1. pc = "install" /\ InHand /\ Source_ = "winget" /\ UNCHANGED <<cmd, job>>
    BY DEF InstallWinget, InHand
  <1>2. /\ MachineTypeOK /\ RunTyped /\ SourceInv /\ Running /\ batch \in Seq(Entry)
        /\ queue # << >> /\ Source_ \in ToSet(report.used) /\ ~cmd.dry
        /\ ToSet(batch) \subseteq ToSet(Head(queue).es)
    BY <1>1, InHandFacts
  <1>3. /\ left \in Seq(Entry) /\ left # << >> /\ ToSet(left) \subseteq ToSet(batch)
        /\ \A e \in ToSet(batch) : e \in ToSet(left) \/ <<"winget", e.pkg>> \in have
    BY <1>1, <1>2 DEF SourceInv, RunTyped, Has
  <1>4. PICK ok \in BOOLEAN :
          /\ InstallOne("winget", Head(left), ok)
          /\ IF ok /\ Len(left) > 1
             THEN left' = Tail(left) /\ UNCHANGED <<pc, queue, batch, report>>
             ELSE /\ report' = IF ok THEN Report("installed", batch)
                               ELSE Report("failed", Because(batch, "install"))
                  /\ Installed(ok)
                  /\ batch' = << >> /\ left' = << >>
    BY DEF InstallWinget
  <1> DEFINE h == Head(left)
             r == Tail(left)
             es == left
  <1>5. /\ h \in ToSet(left) /\ r \in Seq(Entry) /\ ToSet(left) = {h} \cup ToSet(r)
        /\ Len(left) > 1 => r # << >>
        /\ Len(left) <= 1 => ToSet(left) = {h}
    BY <1>3, HeadAndTail
  <1>6. MachineTypeOK' /\ Grows
    <2>1. es \in Seq(Entry) /\ h \in ToSet(es) /\ InstallOne("winget", h, ok) /\ "winget" \in Source
      BY <1>3, <1>4, <1>5 DEF Source, Manager
    <2> HIDE DEF h, es
    <2> QED
      BY <1>2, <2>1, InstallGrows
  <1>7. ok => <<"winget", h.pkg>> \in have'
    BY <1>4 DEF InstallOne, Lands
  <1>8. have \subseteq have'
    BY <1>6 DEF Grows
  <1> HIDE DEF h, r, es
  <1>9. CASE ok /\ Len(left) > 1
    <2> DEFINE z == << >>
    <2>1. left' = r /\ UNCHANGED <<pc, queue, batch, report>>
      BY <1>4, <1>9 DEF r
    <2>2. InHand' /\ Onward /\ pc' \in {"install", "readback", "refresh"}
      BY <1>1, <2>1 DEF InHand, Onward
    <2>3. /\ z \in Seq(Entry) /\ z \in Seq(Failure) /\ ToSet(z) = {}
          /\ \A e : Count(z, e) = 0 /\ Count(Of(z), e) = 0
      BY Nothing
    <2>4. report' = More(z, z, z, z, z)
      BY <1>2, <2>1, MoreForms
    <2> HIDE DEF z
    <2>5. Adds(z, z, z, z, z)
      BY <1>2, <2>3, <2>4, MoreAdds
    <2>6. Goes(z, z, z, z, z)
      BY <1>1, <1>2, <1>5, <1>6, <2>1, <2>5 DEF Goes, RunTyped
    <2>7. SourceInv'
      <3>1. /\ Source_' = Source_ /\ left' # << >> /\ ToSet(left') \subseteq ToSet(batch')
            /\ \A e \in ToSet(batch') : e \in ToSet(left') \/ <<"winget", e.pkg>> \in have'
        BY <1>3, <1>5, <1>7, <1>8, <1>9, <2>1 DEF Source_
      <3> QED
        BY <1>1, <1>2, <2>1, <3>1 DEF SourceInv, AtSource, InHand, Running, Has
    <2>8. \A e \in Entry :
              Count(batch, e) = (IF InHand' THEN Count(batch', e) ELSE 0)
                  + Count(z, e) + Count(z, e) + Count(z, e) + Count(z, e) + Count(Of(z), e)
      <3> TAKE e \in Entry
      <3>1. Count(batch, e) \in Nat
        BY <1>2, CountType
      <3> QED
        BY <2>1, <2>2, <2>3, <3>1
    <2>9. /\ ToSet(z) \cup ToSet(z) \subseteq ToSet(batch)
          /\ \A e \in ToSet(z) \cup ToSet(z) : <<Source_, e.pkg>> \in have'
      BY <2>3
    <2>10. \A e \in ToSet(batch) : InHand' /\ e \in ToSet(batch')
      BY <2>1, <2>2
    <2> QED
      BY <1>1, <2>2, <2>6, <2>7, <2>8, <2>9, <2>10, HandOn
  <1>10. CASE ~(ok /\ Len(left) > 1)
    <2>1. /\ report' = IF ok THEN Report("installed", batch)
                       ELSE Report("failed", Because(batch, "install"))
          /\ Installed(TRUE) /\ batch' = << >> /\ left' = << >>
      BY <1>4, <1>10 DEF Installed
    <2>2. ok => ToSet(left) = {h}
      <3>1. Len(left) \in Nat
        BY <1>3
      <3> QED
        BY <1>5, <1>10, <3>1
    <2>3. ok => \A e \in ToSet(batch) : <<Source_, e.pkg>> \in have'
      BY <1>1, <1>3, <1>7, <1>8, <2>2
    <2> QED
      BY <1>1, <1>6, <2>1, <2>3, ComesOut
  <1> QED
    BY <1>9, <1>10

LEMMA InstallScoopKeeps ==
    ASSUME DepsInv, InstallScoop, UNCHANGED <<runs, touches>>
    PROVE  DepsInv'
  <1>1. /\ pc = "install" /\ InHand /\ Source_ = "scoop" /\ UNCHANGED <<queue, batch, report, cmd, job>>
        /\ left' = Tail(left) /\ pc' = IF Len(left) > 1 THEN pc ELSE "readback"
    BY DEF InstallScoop, InHand
  <1>2. /\ MachineTypeOK /\ RunTyped /\ SourceInv /\ Running /\ batch \in Seq(Entry)
        /\ queue # << >> /\ Source_ \in ToSet(report.used) /\ ~cmd.dry
        /\ ToSet(batch) \subseteq ToSet(Head(queue).es)
    BY <1>1, InHandFacts
  <1>3. left \in Seq(Entry) /\ left # << >> /\ ToSet(left) \subseteq ToSet(batch)
    BY <1>1, <1>2 DEF SourceInv, RunTyped
  <1>4. PICK ok \in BOOLEAN : InstallOne("scoop", Head(left), ok)
    BY DEF InstallScoop
  <1> DEFINE h == Head(left)
             r == Tail(left)
             es == left
             z == << >>
  <1>5. /\ h \in ToSet(left) /\ r \in Seq(Entry) /\ ToSet(left) = {h} \cup ToSet(r)
        /\ Len(left) > 1 => r # << >>
    BY <1>3, HeadAndTail
  <1>6. MachineTypeOK' /\ Grows
    <2>1. es \in Seq(Entry) /\ h \in ToSet(es) /\ InstallOne("scoop", h, ok) /\ "scoop" \in Source
      BY <1>3, <1>4, <1>5 DEF Source, Manager
    <2> HIDE DEF h, es
    <2> QED
      BY <1>2, <2>1, InstallGrows
  <1>7. left' = r
    BY <1>1
  <1> HIDE DEF h, r, es
  <1>8. pc' \in {"install", "readback"} /\ (pc' = "install" => left' # << >>)
    BY <1>1, <1>5, <1>7
  <1>9. InHand' /\ Onward
    BY <1>1, <1>8 DEF InHand, Onward
  <1>10. /\ z \in Seq(Entry) /\ z \in Seq(Failure) /\ ToSet(z) = {}
         /\ \A e : Count(z, e) = 0 /\ Count(Of(z), e) = 0
    BY Nothing
  <1>11. report' = More(z, z, z, z, z)
    BY <1>1, <1>2, MoreForms
  <1> HIDE DEF z
  <1>12. Adds(z, z, z, z, z)
    BY <1>2, <1>10, <1>11, MoreAdds
  <1>13. Goes(z, z, z, z, z)
    BY <1>1, <1>2, <1>5, <1>6, <1>7, <1>8, <1>12 DEF Goes, RunTyped, Stages
  <1>14. SourceInv'
    <2>1. Source_' = "scoop" /\ ToSet(left') \subseteq ToSet(batch')
      BY <1>1, <1>3, <1>5, <1>7 DEF Source_
    <2> QED
      BY <1>1, <1>2, <1>8, <2>1 DEF SourceInv, AtSource, InHand, Running
  <1>15. \A e \in Entry :
            Count(batch, e) = (IF InHand' THEN Count(batch', e) ELSE 0)
                + Count(z, e) + Count(z, e) + Count(z, e) + Count(z, e) + Count(Of(z), e)
    <2> TAKE e \in Entry
    <2>1. Count(batch, e) \in Nat
      BY <1>2, CountType
    <2> QED
      BY <1>1, <1>9, <1>10, <2>1
  <1>16. /\ ToSet(z) \cup ToSet(z) \subseteq ToSet(batch)
         /\ \A e \in ToSet(z) \cup ToSet(z) : <<Source_, e.pkg>> \in have'
    BY <1>10
  <1>17. /\ \A e \in ToSet(batch) : InHand' /\ e \in ToSet(batch')
         /\ pc' \in {"install", "readback", "refresh"}
    BY <1>1, <1>8, <1>9
  <1> QED
    BY <1>1, <1>9, <1>13, <1>14, <1>15, <1>16, <1>17, HandOn

LEMMA ReadBackKeeps ==
    ASSUME DepsInv, ReadBack, UNCHANGED <<runs, touches>>
    PROVE  DepsInv'
  <1>1. /\ pc = "readback" /\ InHand /\ Installed(TRUE) /\ batch' = << >> /\ left' = << >>
        /\ UNCHANGED <<host, have, buckets, shell, path, registered, cmd, job>>
    BY DEF ReadBack, InHand
  <1>2. /\ MachineTypeOK /\ RunTyped /\ SourceInv /\ batch \in Seq(Entry)
    BY <1>1, InHandFacts
  <1>3. Source_ = "scoop" /\ ~cmd.check
    BY <1>1, <1>2 DEF SourceInv
  <1>4. PICK readable \in BOOLEAN :
          IF readable
          THEN /\ NoFault
               /\ report' = [report EXCEPT
                      !.installed = @ \o Those(batch, Landed),
                      !.failed = @ \o Because(Those(batch, LAMBDA e : ~Landed(e)), "install")]
          ELSE Fault /\ report' = Report("failed", Because(batch, "install"))
    BY DEF ReadBack
  <1>5. MachineTypeOK' /\ Grows
    BY <1>1, <1>2, <1>4, StaysGrows, FaultTyped DEF MachineTypeOK
  <1>6. CASE ~readable
    BY <1>1, <1>4, <1>5, <1>6, ComesOut
  <1>7. CASE readable
    <2> DEFINE S == {e \in ToSet(batch) : Landed(e)}
               R == {e \in ToSet(batch) : ~Landed(e)}
               I == Among(batch, S)
               E == Among(batch, R)
               X == Because(E, "install")
               z == << >>
    <2>1. report' = [report EXCEPT !.installed = @ \o I, !.failed = @ \o X]
      BY <1>4, <1>7 DEF Those
    <2>2. \A e : /\ e \in S <=> e \in ToSet(batch) /\ <<"scoop", e.pkg>> \in have
                 /\ e \in R <=> e \in ToSet(batch) /\ <<"scoop", e.pkg>> \notin have
      BY DEF Landed, Has
    <2> HIDE DEF S, R
    <2>3. /\ I \in Seq(Entry) /\ ToSet(I) = ToSet(batch) \cap S
          /\ E \in Seq(Entry) /\ ToSet(E) = ToSet(batch) \cap R
      BY <1>2, AnswersTyped
    <2>4. \A e : Count(batch, e) = Count(I, e) + Count(E, e) /\ Count(I, e) \in Nat /\ Count(E, e) \in Nat
      <3> TAKE e
      <3>0. e \in ToSet(batch) =>
                \/ e \in S /\ e \notin R /\ e \notin {}
                \/ e \notin S /\ e \in R /\ e \notin {}
        BY <2>2
      <3>1. Count(batch, e) = Count(I, e) + Count(E, e) + Count(Among(batch, {}), e)
        <4> HIDE DEF z, X
        <4> QED
          BY <1>2, <3>0, Splits
      <3>2. Count(Among(batch, {}), e) = 0
        BY <1>2, CountAmong
      <3>3. Count(I, e) \in Nat /\ Count(E, e) \in Nat
        BY <2>3, CountType
      <3> QED
        BY <3>1, <3>2, <3>3
    <2> HIDE DEF I, E
    <2>5. /\ z \in Seq(Entry) /\ "install" \in Whys /\ ToSet(z) = {} /\ \A e : Count(z, e) = 0
      BY Nothing DEF Whys
    <2>6. /\ X \in Seq(Failure) /\ \A e : Count(Of(X), e) = Count(E, e)
          /\ X = << >> => ToSet(E) = {}
      BY <2>3, <2>5, BecauseCounts
    <2> HIDE DEF X
    <2>7. report' = More(I, z, z, z, X)
      BY <1>2, <2>1, <2>3, <2>6, MoreForms
    <2> HIDE DEF z
    <2>8. \A e \in Entry :
              Count(batch, e)
                  = Count(I, e) + Count(z, e) + Count(z, e) + Count(z, e) + Count(Of(X), e)
      BY <2>4, <2>5, <2>6
    <2>9. /\ ToSet(I) \cup ToSet(z) \subseteq ToSet(batch)
          /\ \A e \in ToSet(I) \cup ToSet(z) : <<Source_, e.pkg>> \in have'
      BY <1>1, <1>3, <2>2, <2>3, <2>5
    <2>10. X = << >> => \A e \in ToSet(batch) : <<Source_, e.pkg>> \in have'
      BY <1>1, <1>3, <2>2, <2>3, <2>6
    <2>11. pc' = "refresh" /\ ~InHand' /\ Onward
      BY <1>1 DEF Installed, InHand, Onward
    <2> QED
      BY <1>1, <1>3, <1>5, <2>3, <2>5, <2>6, <2>7, <2>8, <2>9, <2>10, <2>11, EmptyHand
  <1> QED
    BY <1>6, <1>7

LEMMA RefreshKeeps ==
    ASSUME DepsInv, Refresh, UNCHANGED <<runs, touches>>
    PROVE  DepsInv'
  <1>1. /\ pc = "refresh" /\ NextSource
        /\ UNCHANGED <<host, have, buckets, shell, registered, cmd, job>>
    BY DEF Refresh
  <1>2. /\ TypeOK /\ MachineTypeOK /\ RunTyped /\ SharesInv /\ SourceInv
    BY TypesSplit DEF DepsInv
  <1>3. AtSource /\ Running /\ ~InHand /\ queue # << >> /\ Source_ \in ToSet(report.used)
    BY <1>1, <1>2 DEF SourceInv, AtSource, Running, InHand
  <1> DEFINE z == << >>
             y == [e |-> PathRefresh, why |-> "refresh"]
  <1>4. PICK X \in {z, <<y>>} :
          /\ Fault \/ NoFault
          /\ report' = IF X = z THEN report ELSE Report("failed", <<y>>)
          /\ X = z => refresh_path
          /\ X # z => UNCHANGED path
    <2>1. CASE refresh_path /\ NoFault /\ UNCHANGED report
      BY <2>1
    <2>2. CASE Fault /\ UNCHANGED path /\ report' = Report("failed", <<y>>)
      <3>1. <<y>> # z
        OBVIOUS
      <3> HIDE DEF y
      <3> QED
        BY <2>2, <3>1
    <2> QED
      BY <2>1, <2>2 DEF Refresh
  <1>5. y \in Failure /\ \A e \in Entry : y.e # e
    BY DepsAssumption DEF Failure
  <1>6. z \in Seq(Entry) /\ z \in Seq(Failure) /\ ToSet(z) = {} /\ \A e : Count(z, e) = 0 /\ Count(Of(z), e) = 0
    BY Nothing
  <1>7. /\ <<y>> \in Seq(Failure) /\ Len(<<y>>) = 1 /\ <<y>>[1] = y
    <2> HIDE DEF y
    <2> QED
      BY <1>5
  <1>8. \A e \in Entry : Count(Of(<<y>>), e) = 0
    <2> HIDE DEF y
    <2>1. Of(<<y>>) = <<y.e>>
      BY DEF Of
    <2> TAKE e \in Entry
    <2>2. e \notin ToSet(<<y.e>>)
      BY <1>5 DEF ToSet
    <2> QED
      BY <2>1, <2>2, CountAbsent
  <1>9. X \in Seq(Failure) /\ \A e \in Entry : Count(Of(X), e) = 0
    BY <1>4, <1>6, <1>7, <1>8
  <1>10. report' = More(z, z, z, z, X)
    <2> HIDE DEF y
    <2> QED
      BY <1>2, <1>4, <1>7, MoreForms
  <1>11. Adds(z, z, z, z, X) /\ report' \in ReportType /\ IsInjective(report'.used)
    BY <1>2, <1>6, <1>9, <1>10, MoreAdds
  <1>12. path \subseteq path' /\ path' \subseteq Program
    BY <1>2, <1>4 DEF refresh_path, MachineTypeOK
  <1>13. MachineTypeOK'
    BY <1>1, <1>2, <1>4, <1>12, FaultTyped DEF MachineTypeOK
  <1>14. Grows
    BY <1>1, <1>12 DEF Grows
  <1>15. Goes(z, z, z, z, X)
    <2>1. pc' \in Stages /\ queue' \in Seq(Item) /\ batch' \in Seq(Entry) /\ left' \in Seq(Entry)
      BY <1>1, <1>2, <1>3, NextTyped
    <2> QED
      BY <1>1, <1>2, <1>3, <1>11, <1>13, <1>14, <2>1 DEF Goes, RunTyped
  <1>16. SourceInv' /\ SharesInv'
    <2>1. queue' \in {queue, Tail(queue)}
      BY <1>1 DEF NextSource
    <2> QED
      BY <1>1, <1>2, <1>3, <2>1, NextKeeps, SharesOn
  <1>17. ASSUME NEW e \in Entry
         PROVE  /\ Unsettled(e) = Unsettled(e)' + Count(z, e) + Count(z, e) + Count(z, e)
                                    + Count(z, e) + Count(Of(X), e)
                /\ Unsettled(e)' \in Nat
    <2>1. Unsettled(e) = Count(ToDo(Tail(queue)), e)
      BY <1>1 DEF Unsettled, InHand
    <2>2. Unsettled(e)' = Count(ToDo(Tail(queue)), e)
      BY <1>1 DEF Unsettled, NextSource
    <2>3. Count(ToDo(Tail(queue)), e) \in Nat
      BY <1>2, <1>3, UnsettledTyped
    <2> HIDE DEF z
    <2> QED
      BY <1>6, <1>9, <2>1, <2>2, <2>3
  <1>18. ASSUME NEW m \in Source, NEW e \in Entry, Waits(m, e)
         PROVE  Waits(m, e)'
    <2>1. PICK i \in DOMAIN queue : queue[i].m = m /\ e \in ToSet(queue[i].es) /\ i # 1
      BY <1>1, <1>18 DEF Waits
    <2> QED
      BY <1>1, <1>2, <1>3, <2>1, WaitsNext
  <1>19. host.os = "windows" /\ "cargo" \in registered' => "cargo" \in path' \/ RefreshFailed'
    <2>1. CASE X = z
      BY <1>1, <1>4, <2>1 DEF refresh_path
    <2>2. CASE X # z
      <3> DEFINE x == report.failed
                 c == x \o <<y>>
                 n == Len(x) + 1
      <3>1. x \in Seq(Failure) /\ <<y>> \in Seq(Failure)
        BY <1>2, <1>7 DEF RunTyped, ReportType
      <3>2. report'.failed = c
        BY <1>4, <1>11, <2>2 DEF Adds
      <3> HIDE DEF x, y
      <3>3. n \in DOMAIN c /\ c[n] = y
        BY <1>7, <3>1
      <3> HIDE DEF n, c
      <3>4. RefreshFailed'
        BY <3>2, <3>3 DEF RefreshFailed, y
      <3> QED
        BY <3>4
    <2> QED
      BY <2>1, <2>2
  <1>20. ToSet(z) \cup ToSet(z) = {}
    BY <1>6
  <1> HIDE DEF z, y
  <1> QED
    BY <1>15, <1>16, <1>17, <1>18, <1>19, <1>20, GoesOn

LEMMA StartSourceKeeps ==
    ASSUME DepsInv, StartSource, UNCHANGED <<runs, touches>>
    PROVE  DepsInv'
  <1>1. /\ pc = "next" /\ queue # << >> /\ Running /\ ~InHand
        /\ UNCHANGED <<host, have, buckets, shell, path, registered, faults, cmd, job>>
    BY DEF StartSource, Running, InHand, machineVars
  <1>2. /\ TypeOK /\ MachineTypeOK /\ RunTyped /\ SharesInv /\ SourceInv
    BY TypesSplit DEF DepsInv
  <1> DEFINE used == note_manager(report.used, Source_)
             h == Head(queue).es
             z == << >>
             noted == [report EXCEPT !.used = used]
  <1>3. IF cmd.dry
        THEN report' = [noted EXCEPT !.installed = @ \o h] /\ NextSource
        ELSE report' = noted /\ batch' = h /\ pc' = "prepare" /\ UNCHANGED <<queue, left>>
    BY DEF StartSource
  <1>4. h \in Seq(Entry) /\ Source_ \in Source
    BY <1>1, <1>2, SourceTyped
  <1>5. /\ report \in ReportType /\ IsInjective(report.used) /\ report.used \in Seq(Source)
        /\ report.installed \in Seq(Entry) /\ report.already \in Seq(Entry)
        /\ report.found \in Seq(Entry) /\ report.missing \in Seq(Entry)
        /\ report.failed \in Seq(Failure)
    BY <1>2 DEF RunTyped, ReportType
  <1>6. /\ used \in Seq(Source) /\ IsInjective(used) /\ ToSet(used) = ToSet(report.used) \cup {Source_}
    <2> DEFINE u == report.used
               m == Source_
    <2>1. u \in Seq(Source) /\ IsInjective(u) /\ m \in Source
      BY <1>4, <1>5
    <2> HIDE DEF u, m
    <2>2. /\ note_manager(u, m) \in Seq(Source) /\ IsInjective(note_manager(u, m))
          /\ ToSet(note_manager(u, m)) = ToSet(u) \cup {m}
      BY <2>1, NoteTyped
    <2> QED
      BY <2>2 DEF u, m
  <1>7. z \in Seq(Entry) /\ z \in Seq(Failure) /\ ToSet(z) = {} /\ \A e : Count(z, e) = 0 /\ Count(Of(z), e) = 0
    BY Nothing
  <1> HIDE DEF used, h
  <1> DEFINE I == IF cmd.dry THEN h ELSE z
  <1>8. /\ I \in Seq(Entry) /\ (~cmd.dry => ToSet(I) \cup ToSet(z) = {})
    BY <1>4, <1>7
  <1>9. /\ report' \in ReportType /\ IsInjective(report'.used) /\ Adds(I, z, z, z, z)
        /\ Source_ \in ToSet(report'.used)
    <2>1. report' = [report EXCEPT !.used = used, !.installed = @ \o I]
      <3>1. report.installed \o z = report.installed
        BY <1>5, ConcatEmptySeq
      <3> QED
        BY <1>3, <1>5, <3>1 DEF ReportType
    <2>2. /\ report.installed \o I \in Seq(Entry)
          /\ report.already \o z = report.already /\ report.found \o z = report.found
          /\ report.missing \o z = report.missing /\ report.failed \o z = report.failed
      BY <1>5, <1>8, ConcatEmptySeq, ConcatProperties
    <2>3. /\ report'.used = used /\ report'.installed = report.installed \o I
          /\ report'.already = report.already /\ report'.found = report.found
          /\ report'.missing = report.missing /\ report'.failed = report.failed
          /\ report'.unavailable = report.unavailable
      BY <1>5, <2>1 DEF ReportType
    <2>4. report' \in ReportType
      BY <1>5, <1>6, <2>1, <2>2 DEF ReportType
    <2> HIDE DEF I, z
    <2> QED
      BY <1>6, <1>7, <1>8, <2>2, <2>3, <2>4 DEF Adds
  <1>10. MachineTypeOK' /\ Grows
    BY <1>1, <1>2, StaysGrows DEF MachineTypeOK
  <1>11. pc' \in Stages /\ queue' \in Seq(Item) /\ batch' \in Seq(Entry) /\ left' \in Seq(Entry)
    <2>1. CASE cmd.dry
      BY <1>1, <1>2, <1>3, <2>1, NextTyped
    <2>2. CASE ~cmd.dry
      BY <1>2, <1>3, <1>4, <2>2 DEF RunTyped, Stages
    <2> QED
      BY <2>1, <2>2
  <1>12. Goes(I, z, z, z, z)
    BY <1>1, <1>2, <1>9, <1>10, <1>11 DEF Goes, RunTyped
  <1>13. SharesInv'
    <2>1. queue' \in {queue, Tail(queue)}
      BY <1>3 DEF NextSource
    <2> QED
      BY <1>1, <1>2, <2>1, SharesOn
  <1>14. SourceInv'
    <2>1. CASE cmd.dry
      BY <1>2, <1>3, <2>1, NextKeeps
    <2>2. CASE ~cmd.dry
      <3>1. Source_' = Source_
        BY <1>3, <2>2 DEF Source_
      <3> QED
        BY <1>1, <1>3, <1>9, <2>2, <3>1 DEF SourceInv, AtSource, InHand, Running, h
    <2> QED
      BY <2>1, <2>2
  <1>15. ASSUME NEW e \in Entry
         PROVE  /\ Unsettled(e) = Unsettled(e)' + Count(I, e) + Count(z, e) + Count(z, e)
                                    + Count(z, e) + Count(Of(z), e)
                /\ Unsettled(e)' \in Nat
    <2> DEFINE q == queue
               t == Tail(q)
    <2>1. q \in Seq(Item) /\ q # << >>
      BY <1>1, <1>2 DEF RunTyped
    <2>2. Tail(q) \in Seq(Item) /\ Count(ToDo(q), e) = Count(Head(q).es, e) + Count(ToDo(Tail(q)), e)
      <3> HIDE DEF q
      <3> QED
        BY <2>1, ToDoNext
    <2>3. Unsettled(e) = Count(h, e) + Count(ToDo(t), e)
      BY <1>1, <2>2 DEF Unsettled, h
    <2>4. Count(h, e) \in Nat /\ Count(ToDo(t), e) \in Nat
      <3> HIDE DEF t
      <3>1. t \in Seq(Item)
        BY <2>2 DEF t
      <3> QED
        BY <1>4, <3>1, ToDoTyped, CountType
    <2>5. Unsettled(e)' = IF cmd.dry THEN Count(ToDo(t), e) ELSE Count(h, e) + Count(ToDo(t), e)
      BY <1>3 DEF Unsettled, InHand, NextSource
    <2> HIDE DEF t, z
    <2> QED
      BY <1>7, <2>3, <2>4, <2>5
  <1>16. ASSUME ~cmd.dry, NEW m \in Source, NEW e \in Entry, Waits(m, e)
         PROVE  Waits(m, e)'
    <2>1. PICK i \in DOMAIN queue : queue[i].m = m /\ e \in ToSet(queue[i].es)
      BY <1>16 DEF Waits
    <2>2. queue' = queue /\ pc' = "prepare" /\ batch' = queue[1].es
      BY <1>1, <1>3, <1>16 DEF h
    <2> QED
      BY <2>1, <2>2 DEF Waits
  <1>17. /\ pc \notin {"install", "readback", "refresh"}
         /\ \A x \in have' \ have : "cargo" \notin host.brings[x[2]]
    BY <1>1
  <1> HIDE DEF I, z
  <1> QED
    BY <1>8, <1>12, <1>13, <1>14, <1>15, <1>16, <1>17, GoesOn

LEMMA FinishKeeps ==
    ASSUME DepsInv, Finish, UNCHANGED <<runs, touches>>
    PROVE  DepsInv'
  <1>1. /\ pc = "next" /\ queue = << >> /\ pc' = "done" /\ Running /\ ~Running'
        /\ UNCHANGED <<host, have, buckets, shell, path, registered, faults>>
        /\ UNCHANGED <<cmd, job, queue, batch, left, report>>
    BY DEF Finish, Running, machineVars
  <1>2. /\ TypeOK /\ MachineTypeOK /\ RunTyped /\ SharesInv /\ SourceInv
    BY TypesSplit DEF DepsInv
  <1> DEFINE z == << >>
  <1>3. z \in Seq(Entry) /\ z \in Seq(Failure) /\ ToSet(z) = {} /\ \A e : Count(z, e) = 0 /\ Count(Of(z), e) = 0
    BY Nothing
  <1>4. report' = More(z, z, z, z, z)
    BY <1>1, <1>2, MoreForms
  <1>5. Adds(z, z, z, z, z)
    BY <1>2, <1>3, <1>4, MoreAdds
  <1>6. MachineTypeOK' /\ Grows
    BY <1>1, <1>2, StaysGrows DEF MachineTypeOK
  <1>7. Goes(z, z, z, z, z)
    BY <1>1, <1>2, <1>5, <1>6 DEF Goes, RunTyped, Stages
  <1>8. SharesInv' /\ SourceInv'
    BY <1>1, <1>2 DEF SharesInv, SourceInv, AtSource, InHand, Running
  <1>9. ASSUME NEW e \in Entry
        PROVE  /\ Unsettled(e) = Unsettled(e)' + Count(z, e) + Count(z, e) + Count(z, e)
                                   + Count(z, e) + Count(Of(z), e)
               /\ Unsettled(e)' \in Nat
    <2>1. Unsettled(e) = Count(ToDo(<< >>), e) /\ Unsettled(e)' = 0
      BY <1>1 DEF Unsettled, InHand
    <2> QED
      BY <1>3, <2>1, ToDoEmpty
  <1>10. \A m, e : ~Waits(m, e)
    BY <1>1 DEF Waits
  <1>11. ToSet(z) \cup ToSet(z) = {}
    BY <1>3
  <1> HIDE DEF z
  <1> QED
    BY <1>1, <1>7, <1>8, <1>9, <1>10, <1>11, GoesOn

\* Between runs there is nothing to keep but the machine.
LEMMA ResetKeeps ==
    ASSUME MachineTypeOK', pc' \in {"idle", "refused"}, cmd' \in Cmds \cup {NoCmd},
           job' = NoJob, queue' = << >>, batch' \in Seq(Entry), left' \in Seq(Entry),
           report' = NoReport, runs' \in 0..MaxRuns, touches' \in 0..MaxTouches
    PROVE  DepsInv'
  <1>1. RunTyped'
    <2>1. << >> \in Seq(Item)
      OBVIOUS
    <2>2. /\ report' \in ReportType /\ IsInjective(report'.used) /\ job' \in Job
      BY NoReportTyped, NoJobTyped
    <2> QED
      BY <2>1, <2>2 DEF RunTyped, Stages
  <1>2. TypeOK'
    <2>1. (runs \in 0..MaxRuns)' /\ (touches \in 0..MaxTouches)'
      OBVIOUS
    <2> QED
      BY <1>1, <2>1, TypesSplit, PTL
  <1>3. ~Running' /\ pc' # "done" /\ ~InHand' /\ ~AtSource'
    BY DEF Running, InHand, AtSource
  <1>4. SharesInv' /\ SourceInv'
    BY <1>3 DEF SharesInv, SourceInv, InHand
  <1>5. InstalledTrue'
    BY NoReportTyped DEF InstalledTrue, ToSet
  <1> QED
    BY <1>2, <1>3, <1>4, <1>5 DEF DepsInv, NothingForgotten, EachAccounted, UnservedNamed, CargoInv

LEMMA InterruptKeeps ==
    ASSUME DepsInv, Interrupt, UNCHANGED <<runs, touches>>
    PROVE  DepsInv'
  <1>1. MachineTypeOK'
    BY DEF Interrupt, machineVars, DepsInv, TypeOK, MachineTypeOK
  <1>2. batch' \in Seq(Entry) /\ left' \in Seq(Entry)
    BY Nothing DEF Interrupt
  <1> QED
    BY <1>1, <1>2, ResetKeeps DEF Interrupt, DepsInv, TypeOK

LEMMA UserKeeps ==
    ASSUME DepsInv, User
    PROVE  DepsInv'
  <1>1. /\ TypeOK /\ MachineTypeOK /\ RunTyped /\ SharesInv /\ SourceInv
        /\ InstalledTrue /\ NothingForgotten /\ EachAccounted /\ UnservedNamed /\ CargoInv
    BY TypesSplit DEF DepsInv
  <1>2. /\ runs' \in 0..MaxRuns /\ touches' \in 0..MaxTouches
        /\ UNCHANGED <<queue, batch, left>>
    BY <1>1, DepsAssumption DEF User, TypeOK
  <1>3. MachineTypeOK'
    <2>1. ASSUME NEW m \in Manager, NEW p \in Pkg,
                 Lands(m, {p}), UNCHANGED <<buckets, faults>>
          PROVE  MachineTypeOK'
      <3> DEFINE P == {p}
      <3>1. m \in Source /\ P \in SUBSET Pkg /\ Lands(m, P)
        BY <2>1 DEF Source
      <3> HIDE DEF P
      <3>2. /\ have' \subseteq Source \X Pkg /\ shell' \subseteq path'
            /\ path' \subseteq Program /\ registered' \subseteq Program
        BY <1>1, <3>1, LandsGrows
      <3> QED
        BY <1>1, <2>1, <3>2 DEF MachineTypeOK, Lands
    <2>2. CASE \E x \in have : have' = have \ {x} /\ UNCHANGED <<host, buckets, shell, path, registered, faults>>
      BY <1>1, <2>2 DEF MachineTypeOK
    <2>3. CASE /\ shell' = shell \cup registered /\ path' = path \cup registered
               /\ UNCHANGED <<host, have, buckets, registered, faults>>
      BY <1>1, <2>3 DEF MachineTypeOK
    <2> QED
      BY <2>1, <2>2, <2>3 DEF User
  <1>4. CASE ~Running
    <2>1. queue' = << >> /\ batch' \in Seq(Entry) /\ left' \in Seq(Entry)
      BY <1>1, <1>2, <1>4 DEF SourceInv, RunTyped
    <2>2. pc' = "idle" /\ cmd' = NoCmd /\ report' = NoReport /\ job' = NoJob
      BY <1>4 DEF User
    <2> QED
      BY <1>2, <1>3, <2>1, <2>2, ResetKeeps
  <1>5. CASE Running
    <2>1. UNCHANGED <<pc, cmd, report, queue, batch, left>>
      BY <1>2, <1>5 DEF User
    <2>2. PICK m \in Manager, p \in Pkg :
            /\ Lands(m, {p})
            /\ job' = [job EXCEPT !.others = @ \cup {<<m, p>>}]
      BY <1>5 DEF User
    <2>3. /\ host' = host /\ have' = have \cup {<<m, p>>}
          /\ path \subseteq path' /\ registered \subseteq registered'
      BY <2>2 DEF Lands
    <2>4. /\ job' \in Job /\ job'.groups = job.groups /\ job'.managers = job.managers
          /\ job'.others = job.others \cup {<<m, p>>}
      <3>1. job \in Job /\ m \in Source
        BY <1>1 DEF RunTyped, Source
      <3> QED
        BY <2>2, <3>1 DEF Job
    <2>5. TypeOK'
      <3>1. RunTyped'
        BY <1>1, <2>1, <2>4 DEF RunTyped
      <3>2. (runs \in 0..MaxRuns)' /\ (touches \in 0..MaxTouches)'
        BY <1>2
      <3> QED
        BY <1>3, <3>1, <3>2, TypesSplit, PTL
    <2>6. SharesInv' /\ SourceInv'
      BY <1>1, <2>1, <2>3 DEF SharesInv, SourceInv, AtSource, InHand, Running, Source_, Has
    <2>7. InstalledTrue'
      BY <1>1, <2>1, <2>3 DEF InstalledTrue, Has
    <2>8. Due' = Due /\ Asked' = Asked /\ \A g : Served(g)' = Served(g)
      BY <2>4 DEF Due, Asked, Owner, Served
    <2>9. NothingForgotten'
      <3>1. \A d \in Due : Waits(d[1], d[2]) => Waits(d[1], d[2])'
        BY <2>1 DEF Waits, InHand
      <3> QED
        BY <1>1, <2>1, <2>3, <2>8, <3>1 DEF NothingForgotten, Running, Has
    <2>10. EachAccounted'
      BY <1>1, <2>1, <2>8 DEF EachAccounted, Running, Settled, Unsettled, InHand
    <2>11. UnservedNamed'
      BY <1>1, <2>1, <2>4, <2>8 DEF UnservedNamed, Running
    <2>12. CargoInv'
      BY <1>1, <2>1, <2>3, <2>4 DEF CargoInv, RefreshFailed, Running
    <2> QED
      BY <2>5, <2>6, <2>7, <2>9, <2>10, <2>11, <2>12 DEF DepsInv
  <1> QED
    BY <1>4, <1>5

\* A run that starts has everything to do, and has failed at nothing.
LEMMA PlannedKeeps ==
    ASSUME TypeOK', pc' = "next", ~InHand', have' = job'.others,
           NEW gs \in Seq(Group), NEW ms \in Seq(Manager),
           job'.groups = gs, job'.managers = ms, queue' = plan_groups(gs, ms),
           report' = [NoReport EXCEPT !.unavailable = unavailable(gs, ms)]
    PROVE  DepsInv'
  <1> DEFINE q == plan_groups(gs, ms)
             u == unavailable(gs, ms)
  <1>1. /\ q \in Seq(Item) /\ Shares(q)
        /\ \A g \in ToSet(gs) : ServedIn(g, ms) => Covers(q, OwnerIn(g, ms), g.lists[OwnerIn(g, ms)])
        /\ \A e \in Entry : Count(AskedIn(gs, ms), e) = Count(ToDo(q), e)
        /\ \A n \in GroupName : Count(u, n) = Cardinality(UnservedIn(gs, ms, n))
    BY Planned DEF PlanOK
  <1> HIDE DEF q, u
  <1>2. queue' = q /\ report'.unavailable = u
    BY NoReportTyped DEF ReportType, q, u
  <1>3. /\ report'.installed = << >> /\ report'.already = << >> /\ report'.found = << >>
        /\ report'.missing = << >> /\ report'.failed = << >>
    BY NoReportTyped DEF ReportType
  <1>4. ~AtSource' /\ Running'
    BY DEF AtSource, Running
  <1>5. SharesInv'
    BY <1>1, <1>2 DEF SharesInv, Shares, ToSet
  <1>6. SourceInv'
    BY <1>4 DEF SourceInv
  <1>7. InstalledTrue'
    BY <1>3, Nothing DEF InstalledTrue
  <1>8. /\ \A g : (Served(g))' <=> ServedIn(g, ms)
        /\ \A g : (Owner(g))' = OwnerIn(g, ms)
    BY DEF Served, ServedIn, Owner, OwnerIn, ListingIn
  <1>9. NothingForgotten'
    <2>1. ASSUME NEW g \in ToSet(gs), ServedIn(g, ms), NEW e \in ToSet(g.lists[OwnerIn(g, ms)])
          PROVE  Waits(IF e.src = "cargo" THEN "cargo" ELSE OwnerIn(g, ms), e)'
      <3>1. PICK x \in ToSet(q) :
              x.m = (IF e.src = "cargo" THEN "cargo" ELSE OwnerIn(g, ms)) /\ e \in ToSet(x.es)
        BY <1>1, <2>1 DEF Covers
      <3>2. PICK i \in DOMAIN q : q[i] = x
        BY <3>1 DEF ToSet
      <3> QED
        BY <1>2, <3>1, <3>2 DEF Waits
    <2>2. \A d \in Due' : Waits(d[1], d[2])'
      BY <1>8, <2>1 DEF Due
    <2> QED
      BY <2>2 DEF NothingForgotten
  <1>10. EachAccounted'
    <2> SUFFICES ASSUME NEW e \in Entry
                 PROVE  Count(Asked', e) = Settled(e)' + Unsettled(e)'
      BY DEF EachAccounted
    <2>1. Asked' = AskedIn(gs, ms)
      BY <1>8 DEF Asked, AskedIn
    <2>2. Settled(e)' = 0
      <3>1. [i \in DOMAIN << >> |-> << >>[i].e] = << >>
        OBVIOUS
      <3>2. [i \in DOMAIN report'.failed |-> report'.failed[i].e] = << >>
        BY <1>3, <3>1
      <3>3. Count(<< >>, e) = 0
        BY Nothing
      <3> QED
        BY <1>3, <3>2, <3>3 DEF Settled
    <2>3. Unsettled(e)' = Count(ToDo(q), e) /\ Count(ToDo(q), e) \in Nat
      BY <1>1, <1>2, ToDoTyped, CountType DEF Unsettled
    <2> QED
      BY <1>1, <2>1, <2>2, <2>3
  <1>11. UnservedNamed'
    BY <1>1, <1>2, <1>8 DEF UnservedNamed, UnservedIn
  <1>12. CargoInv'
    BY DEF CargoInv
  <1> QED
    BY <1>5, <1>6, <1>7, <1>9, <1>10, <1>11, <1>12 DEF DepsInv

LEMMA LaunchKeeps ==
    ASSUME DepsInv, Launch
    PROVE  DepsInv'
  <1>1. TypeOK /\ MachineTypeOK
    BY DEF DepsInv, TypeOK
  <1>2. /\ UNCHANGED <<host, have, buckets, shell, registered, faults, touches>> /\ path' = shell
        /\ runs < MaxRuns /\ runs' = runs + 1 /\ batch' = << >> /\ left' = << >>
    BY DEF Launch
  <1>3. runs' \in 0..MaxRuns /\ touches' \in 0..MaxTouches
    BY <1>1, <1>2, DepsAssumption DEF TypeOK
  <1>4. MachineTypeOK'
    BY <1>1, <1>2 DEF MachineTypeOK
  <1>5. TypeOK'
    <2>1. RunTyped'
      BY <1>1, LaunchTyped
    <2>2. (runs \in 0..MaxRuns)' /\ (touches \in 0..MaxTouches)'
      BY <1>3
    <2> QED
      BY <1>4, <2>1, <2>2, TypesSplit, PTL
  <1>6. PICK c \in Cmds, t \in Homes :
          LET cfg == load_with_includes(t)
              groups == IF cfg.err = "none" THEN Selected(c, ForPlatform(cfg.cfg.deps)) ELSE << >>
              managers == candidate_managers(c)
          IN  /\ cmd' = c
              /\ IF cfg.err # "none" \/ managers = << >>
                 THEN pc' = "refused" /\ queue' = << >> /\ report' = NoReport /\ job' = NoJob
                 ELSE /\ pc' = "next" /\ queue' = plan_groups(groups, managers)
                      /\ report' = [NoReport EXCEPT !.unavailable = unavailable(groups, managers)]
                      /\ job' = [groups |-> groups, managers |-> managers, others |-> have]
    BY DEF Launch
  <1> DEFINE cfg == load_with_includes(t)
             groups == Selected(c, ForPlatform(cfg.cfg.deps))
             managers == candidate_managers(c)
  <1>7. CASE cfg.err # "none" \/ managers = << >>
    <2>1. pc' = "refused" /\ queue' = << >> /\ report' = NoReport /\ job' = NoJob /\ cmd' = c
      BY <1>6, <1>7
    <2> QED
      BY <1>2, <1>3, <1>4, <2>1, Nothing, ResetKeeps
  <1>8. CASE ~(cfg.err # "none" \/ managers = << >>)
    <2>1. /\ pc' = "next" /\ queue' = plan_groups(groups, managers)
          /\ report' = [NoReport EXCEPT !.unavailable = unavailable(groups, managers)]
          /\ job' = [groups |-> groups, managers |-> managers, others |-> have]
      BY <1>6, <1>8
    <2> HIDE DEF groups, managers
    <2>2. job'.groups = groups /\ job'.managers = managers /\ have' = job'.others
      BY <1>2, <2>1
    <2>3. groups \in Seq(Group) /\ managers \in Seq(Manager)
      BY <1>5, <2>2 DEF TypeOK, Job
    <2>4. ~InHand'
      BY <2>1 DEF InHand
    <2> QED
      BY <1>5, <2>1, <2>2, <2>3, <2>4, PlannedKeeps
  <1> QED
    BY <1>7, <1>8

LEMMA DepsInvInit == Init => DepsInv
  <1> SUFFICES ASSUME Init PROVE DepsInv
    OBVIOUS
  <1>1. MachineTypeOK
    BY PackagesAssumption DEF Init, MachineInit, MachineTypeOK
  <1>2. RunTyped
    <2>1. << >> \in Seq(Item) /\ << >> \in Seq(Entry)
      OBVIOUS
    <2> QED
      BY <2>1, NoReportTyped, NoJobTyped DEF Init, RunTyped, Stages
  <1>3. TypeOK
    BY <1>1, <1>2, TypesSplit, DepsAssumption DEF Init
  <1>4. SharesInv /\ SourceInv
    BY DEF Init, SharesInv, SourceInv, AtSource, InHand, Running
  <1>5. InstalledTrue
    BY NoReportTyped, Nothing DEF Init, InstalledTrue
  <1> QED
    BY <1>3, <1>4, <1>5
    DEF Init, DepsInv, NothingForgotten, EachAccounted, UnservedNamed, CargoInv, Running

LEMMA DepsInvStutter ==
    ASSUME DepsInv, UNCHANGED vars
    PROVE  DepsInv'
  <1>1. UNCHANGED <<host, have, buckets, shell, path, registered, faults>>
    BY DEF vars, machineVars
  <1>2. UNCHANGED <<pc, cmd, job, queue, batch, left, report, runs, touches>>
    BY DEF vars, runVars
  <1>3. TypeOK'
    BY <1>1, <1>2 DEF DepsInv, TypeOK, MachineTypeOK
  <1>4. SharesInv' /\ SourceInv' /\ InstalledTrue'
    BY <1>1, <1>2
    DEF DepsInv, SharesInv, SourceInv, InstalledTrue, AtSource, InHand, Running, Source_, Has
  <1>5. NothingForgotten'
    <2>1. Due' = Due /\ \A m, e : Waits(m, e)' <=> Waits(m, e)
      BY <1>2 DEF Due, Owner, Served, Waits, InHand
    <2> QED
      BY <1>1, <1>2, <2>1 DEF DepsInv, NothingForgotten, Running, Has
  <1>6. EachAccounted' /\ UnservedNamed'
    <2>1. Asked' = Asked /\ \A g : Served(g)' <=> Served(g)
      BY <1>2 DEF Asked, Owner, Served
    <2>2. \A e : Settled(e)' = Settled(e) /\ Unsettled(e)' = Unsettled(e)
      BY <1>2 DEF Settled, Unsettled, InHand
    <2> QED
      BY <1>2, <2>1, <2>2 DEF DepsInv, EachAccounted, UnservedNamed, Running
  <1>7. CargoInv'
    BY <1>1, <1>2 DEF DepsInv, CargoInv, RefreshFailed, Running
  <1> QED
    BY <1>3, <1>4, <1>5, <1>6, <1>7 DEF DepsInv

(***************************************************************************)
(* The theorems                                                            *)
(***************************************************************************)
\* DepsInv is inductive: it holds in every state of every run of krypt deps.
THEOREM DepsInvariant == Spec => []DepsInv
  <1>1. ASSUME DepsInv, [Next]_vars
        PROVE  DepsInv'
    <2>1. CASE Launch
      BY <1>1, <2>1, LaunchKeeps
    <2>2. CASE Run
      <3>1. UNCHANGED <<runs, touches>>
        BY <2>2 DEF Run
      <3>2. CASE StartSource
        BY <1>1, <3>1, <3>2, StartSourceKeeps
      <3>3. CASE NothingToPrepare
        BY <1>1, <3>1, <3>3, NothingToPrepareKeeps
      <3>4. CASE AddBuckets
        BY <1>1, <3>1, <3>4, AddBucketsKeeps
      <3>5. CASE PrepareFails
        BY <1>1, <3>1, <3>5, PrepareFailsKeeps
      <3>6. CASE AskInstalled
        BY <1>1, <3>1, <3>6, AskInstalledKeeps
      <3>7. CASE AskExists
        BY <1>1, <3>1, <3>7, AskExistsKeeps
      <3>8. CASE Install
        BY <1>1, <3>1, <3>8, InstallKeeps
      <3>9. CASE InstallWinget
        BY <1>1, <3>1, <3>9, InstallWingetKeeps
      <3>10. CASE InstallScoop
        BY <1>1, <3>1, <3>10, InstallScoopKeeps
      <3>11. CASE ReadBack
        BY <1>1, <3>1, <3>11, ReadBackKeeps
      <3>12. CASE Refresh
        BY <1>1, <3>1, <3>12, RefreshKeeps
      <3>13. CASE Finish
        BY <1>1, <3>1, <3>13, FinishKeeps
      <3>14. CASE Interrupt
        BY <1>1, <3>1, <3>14, InterruptKeeps
      <3> QED
        BY <2>2, <3>2, <3>3, <3>4, <3>5, <3>6, <3>7, <3>8, <3>9, <3>10, <3>11, <3>12, <3>13,
           <3>14 DEF Run
    <2>3. CASE User
      BY <1>1, <2>3, UserKeeps
    <2>4. CASE UNCHANGED vars
      BY <1>1, <2>4, DepsInvStutter
    <2> QED
      BY <1>1, <2>1, <2>2, <2>3, <2>4 DEF Next
  <1> QED
    BY <1>1, DepsInvInit, PTL DEF Spec

\* TypeOK: the machine, the queue and the report keep their types.
THEOREM DepsTyped == Spec => []TypeOK
  BY DepsInvariant, PTL DEF DepsInv

\* The lists of the report, one after the other.
LEMMA ReportedAre ==
    ASSUME RunTyped
    PROVE  /\ LET s == Reported(<<"installed", "already">>)
              IN  s \in Seq(Entry) /\ ToSet(s) = ToSet(report.installed) \cup ToSet(report.already)
           /\ \A e : Count(Outcome, e) = Settled(e)
  <1> DEFINE i == report.installed
             a == report.already
             f == report.found
             m == report.missing
             x == report.failed
             two == Reported(<<"installed", "already">>)
             four == Reported(<<"installed", "already", "found", "missing">>)
  <1>1. /\ i \in Seq(Entry) /\ a \in Seq(Entry) /\ f \in Seq(Entry) /\ m \in Seq(Entry)
        /\ x \in Seq(Failure)
    BY DEF RunTyped, ReportType
  <1>2. Outcome = four \o Of(x)
    BY DEF Outcome, Of
  <1>3. \A e : Settled(e) = Count(i, e) + Count(a, e) + Count(f, e) + Count(m, e) + Count(Of(x), e)
    BY DEF Settled, Of
  <1>4. two = FlattenSeq(<<i, a>>) /\ four = FlattenSeq(<<i, a, f, m>>)
    <2>1. [n \in DOMAIN <<"installed", "already">> |-> report[<<"installed", "already">>[n]]] = <<i, a>>
      OBVIOUS
    <2>2. [n \in DOMAIN <<"installed", "already", "found", "missing">> |->
              report[<<"installed", "already", "found", "missing">>[n]]] = <<i, a, f, m>>
      OBVIOUS
    <2> QED
      BY <2>1, <2>2 DEF Reported
  <1> HIDE DEF i, a, f, m, x, two, four
  <1>5. two = i \o a
    BY <1>1, <1>4, FlatTwo
  <1> DEFINE b == i \o a
             c == b \o f
  <1>6. four = c \o m
    <2> HIDE DEF c
    <2>1. c = b \o f
      BY DEF c
    <2> HIDE DEF b
    <2>2. b = i \o a
      BY DEF b
    <2> DEFINE ss == <<i, a, f, m>>
    <2>3. /\ ss \in Seq(Seq(Entry)) /\ Len(ss) = 4 /\ ss[4] = m
          /\ b = ss[1] \o ss[2] /\ c = b \o ss[3]
      BY <1>1, <2>1, <2>2
    <2> HIDE DEF ss
    <2>4. FlattenSeq(ss) = c \o ss[4]
      BY <2>3, FlatFour
    <2> QED
      BY <1>4, <2>3, <2>4 DEF ss
  <1>7. ToSet(i \o a) = ToSet(i) \cup ToSet(a) /\ i \o a \in Seq(Entry)
    BY <1>1, ConcatSet, ConcatProperties
  <1>8. ASSUME NEW e
        PROVE  Count(Outcome, e) = Settled(e)
    <2> DEFINE d == c \o m
               o == Of(x)
    <2>1. b \in Seq(Entry) /\ Count(b, e) = Count(i, e) + Count(a, e)
      BY <1>1, <1>7, CountConcat
    <2> HIDE DEF b
    <2>2. c \in Seq(Entry) /\ Count(c, e) = Count(b, e) + Count(f, e)
      BY <1>1, <2>1, CountConcat, ConcatProperties
    <2> HIDE DEF c
    <2>3. d \in Seq(Entry) /\ Count(d, e) = Count(c, e) + Count(m, e)
      BY <1>1, <2>2, CountConcat, ConcatProperties
    <2>4. d \in Seq(Whose) /\ o \in Seq(Whose)
      <3>1. Entry \subseteq Whose
        BY DEF Whose
      <3>2. o \in Seq(Whose)
        BY <1>1, OfIs
      <3> HIDE DEF d, o
      <3> QED
        BY <2>3, <3>1, <3>2
    <2>5. Outcome = d \o o
      BY <1>2, <1>6
    <2> HIDE DEF d, o
    <2>6. Count(d \o o, e) = Count(d, e) + Count(o, e)
      BY <2>4, CountConcat
    <2>7. Count(Outcome, e) = Count(d, e) + Count(o, e)
      BY <2>5, <2>6, Zenon
    <2> QED
      BY <1>3, <2>1, <2>2, <2>3, <2>7 DEF o
  <1> QED
    BY <1>5, <1>7, <1>8 DEF i, a, two

\* EachSettled: cmd_deps tells of every entry it was asked for, as often as it
\* is written, in one list of its report, however the managers failed; and of
\* every group that no manager serves.
THEOREM EntriesSettled == Spec => []EachSettled
  <1>1. DepsInv => EachSettled
    <2> SUFFICES ASSUME DepsInv, pc = "done"
                 PROVE  /\ \A e \in Entry : Count(Asked, e) = Count(Outcome, e)
                        /\ \A n \in GroupName :
                              Count(report.unavailable, n)
                                = Cardinality({i \in DOMAIN job.groups :
                                      job.groups[i].group = n /\ ~Served(job.groups[i])})
      BY DEF EachSettled
    <2>1. RunTyped /\ EachAccounted /\ UnservedNamed
      BY TypesSplit DEF DepsInv
    <2>2. ASSUME NEW e \in Entry
          PROVE  Count(Asked, e) = Count(Outcome, e)
      <3>1. Count(Asked, e) = Settled(e) + Unsettled(e)
        BY <2>1 DEF EachAccounted
      <3>2. Unsettled(e) = 0
        BY DEF Unsettled, InHand
      <3>3. Count(Outcome, e) = Settled(e)
        BY <2>1, ReportedAre
      <3>4. Settled(e) \in Nat
        <4>1. /\ report.installed \in Seq(Entry) /\ report.already \in Seq(Entry)
              /\ report.found \in Seq(Entry) /\ report.missing \in Seq(Entry)
              /\ report.failed \in Seq(Failure)
          BY <2>1 DEF RunTyped, ReportType
        <4>2. Of(report.failed) \in Seq(Whose)
          BY <4>1, OfIs
        <4>3. /\ Count(report.installed, e) \in Nat /\ Count(report.already, e) \in Nat
              /\ Count(report.found, e) \in Nat /\ Count(report.missing, e) \in Nat
              /\ Count(Of(report.failed), e) \in Nat
          BY <4>1, <4>2, CountType
        <4> QED
          BY <4>3 DEF Settled, Of
      <3> QED
        BY <3>1, <3>2, <3>3, <3>4
    <2> QED
      BY <2>1, <2>2 DEF UnservedNamed
  <1> QED
    BY <1>1, DepsInvariant, PTL

\* ReportTrue: what a real run reports as installed is installed, and when it
\* reports no failure all that was asked for is.
THEOREM ReportsTrue == Spec => []ReportTrue
  <1>1. DepsInv => ReportTrue
    <2> SUFFICES ASSUME DepsInv, ~cmd.dry, ~cmd.check
                 PROVE  /\ \A e \in ToSet(Reported(<<"installed", "already">>)) :
                              \E m \in ToSet(report.used) : Has(m, e) /\ (m = "cargo" <=> e.src = "cargo")
                        /\ pc = "done" /\ report.failed = << >> =>
                              \A g \in ToSet(job.groups) : Served(g) =>
                                  \A e \in ToSet(g.lists[Owner(g)]) :
                                      Has(IF e.src = "cargo" THEN "cargo" ELSE Owner(g), e)
      BY DEF ReportTrue
    <2>1. RunTyped /\ SourceInv /\ InstalledTrue /\ NothingForgotten
      BY TypesSplit DEF DepsInv
    <2>2. ToSet(Reported(<<"installed", "already">>)) = ToSet(report.installed) \cup ToSet(report.already)
      BY <2>1, ReportedAre
    <2>3. ASSUME pc = "done", report.failed = << >>,
                 NEW g \in ToSet(job.groups), Served(g), NEW e \in ToSet(g.lists[Owner(g)])
          PROVE  Has(IF e.src = "cargo" THEN "cargo" ELSE Owner(g), e)
      <3> DEFINE m == IF e.src = "cargo" THEN "cargo" ELSE Owner(g)
                 d == <<m, e>>
      <3>1. d \in Due
        BY <2>3 DEF Due
      <3>2. d[1] = m /\ d[2] = e
        OBVIOUS
      <3>3. queue = << >>
        BY <2>1, <2>3 DEF SourceInv, Running
      <3>4. ~Waits(m, e)
        BY <3>3 DEF Waits
      <3> HIDE DEF m, d
      <3>5. Has(d[1], d[2]) \/ Waits(d[1], d[2])
        BY <2>1, <2>3, <3>1 DEF NothingForgotten
      <3>6. Has(m, e)
        BY <3>2, <3>4, <3>5, Zenon
      <3> QED
        BY <3>6 DEF m
    <2> QED
      BY <2>1, <2>2, <2>3 DEF InstalledTrue
  <1> QED
    BY <1>1, DepsInvariant, PTL

\* Steps that fail no lookup.
LEMMA NoLookupFails ==
    ASSUME RunTyped, NEW e, NEW X \in Seq(Failure),
           \A i \in DOMAIN X : X[i].why # "query",
           report'.failed = report.failed \o X
    PROVE  Count(report'.failed, [e |-> e, why |-> "query"])
             = Count(report.failed, [e |-> e, why |-> "query"])
  <1> DEFINE x == report.failed
             l == [e |-> e, why |-> "query"]
  <1>1. x \in Seq(Failure) /\ report'.failed = x \o X
    BY DEF RunTyped, ReportType
  <1>2. l \notin ToSet(X)
    BY DEF ToSet
  <1> HIDE DEF x, l
  <1>3. Count(x \o X, l) = Count(x, l) + Count(X, l)
    BY <1>1, CountConcat
  <1>4. Count(X, l) = 0 /\ Count(x, l) \in Nat
    BY <1>1, <1>2, CountAbsent, CountType
  <1> QED
    BY <1>1, <1>3, <1>4 DEF x, l

\* Of the steps of krypt deps only the two queries fail lookups.
LEMMA QueriesLookUp ==
    ASSUME DepsInv, Next, pc # "ask", NEW e
    PROVE  ~(Count(report'.failed, [e |-> e, why |-> "query"])
               > Count(report.failed, [e |-> e, why |-> "query"]))
  <1> DEFINE l == [e |-> e, why |-> "query"]
             z == << >>
             x == report.failed
             y == report'.failed
  <1>1. RunTyped /\ x \in Seq(Failure)
    <2>1. RunTyped
      BY TypesSplit DEF DepsInv
    <2> QED
      BY <2>1 DEF RunTyped, ReportType
  <1>2. Count(x, l) \in Nat
    <2> HIDE DEF l, x
    <2> QED
      BY <1>1, CountType
  <1>3. Count(z, l) = 0
    BY Nothing
  <1>4. CASE UNCHANGED report
    BY <1>2, <1>4
  <1>5. CASE y = z
    BY <1>2, <1>3, <1>5
  <1>6. CASE y = x
    BY <1>2, <1>6
  <1>7. ASSUME NEW es \in Seq(Entry), NEW why \in Whys, why # "query",
               y = x \o Because(es, why)
        PROVE  ~(Count(y, l) > Count(x, l))
    <2> DEFINE X == Because(es, why)
    <2>1. X \in Seq(Failure) /\ \A i \in DOMAIN X : X[i].why # "query"
      BY <1>7, BecauseIs
    <2> HIDE DEF X
    <2>2. report'.failed = report.failed \o X
      BY <1>7 DEF X
    <2>3. Count(y, l) = Count(x, l)
      BY <1>1, <2>1, <2>2, NoLookupFails
    <2> QED
      BY <1>2, <2>3
  <1>8. batch \in Seq(Entry) /\ report \in ReportType
    BY <1>1 DEF RunTyped
  <1>9. \A slot \in {"installed", "missing"} : \A es : Report(slot, es).failed = report.failed
    BY <1>8 DEF Report, ReportType
  <1>10. \A X : Report("failed", X).failed = report.failed \o X
    BY <1>8 DEF Report, ReportType
  <1>11. {"source", "install", "refresh"} \subseteq Whys /\ NoReport.failed = z
    BY NoReportTyped DEF Whys
  <1>12. CASE Launch
    <2>1. y = z
      BY <1>12, NoReportTyped DEF Launch, ReportType
    <2> QED
      BY <1>5, <2>1
  <1>13. CASE User
    <2>1. UNCHANGED report \/ y = z
      BY <1>11, <1>13 DEF User
    <2> QED
      BY <1>4, <1>5, <2>1
  <1>14. CASE StartSource
    <2>1. y = x
      BY <1>8, <1>14 DEF StartSource, ReportType
    <2> QED
      BY <1>6, <2>1
  <1>15. CASE NothingToPrepare \/ InstallScoop \/ Finish
    BY <1>4, <1>15 DEF NothingToPrepare, InstallScoop, Finish
  <1>16. CASE Interrupt
    BY <1>5, <1>11, <1>16 DEF Interrupt
  <1>17. CASE AddBuckets
    <2>1. PICK added \in SUBSET wanted(batch) :
            LET gone == wanted(batch) \ added
                unready == Those(batch, LAMBDA e1 : e1.bucket \in gone)
            IN  report' = IF cmd.check THEN Report("missing", unready)
                          ELSE Report("failed", Because(unready, "source"))
      BY <1>17 DEF AddBuckets
    <2> DEFINE S == {e1 \in ToSet(batch) : e1.bucket \in wanted(batch) \ added}
               unready == Among(batch, S)
    <2>2. report' = IF cmd.check THEN Report("missing", unready)
                    ELSE Report("failed", Because(unready, "source"))
      BY <2>1 DEF Those
    <2> HIDE DEF S
    <2>3. unready \in Seq(Entry)
      BY <1>8, AnswersTyped
    <2> HIDE DEF unready
    <2>4. y = x \/ y = x \o Because(unready, "source")
      BY <1>9, <1>10, <2>2
    <2> QED
      BY <1>6, <1>7, <1>11, <2>3, <2>4
  <1>18. CASE PrepareFails
    <2>1. y = x \o Because(batch, "source")
      BY <1>10, <1>18 DEF PrepareFails
    <2> QED
      BY <1>7, <1>8, <1>11, <2>1
  <1>19. CASE Install \/ InstallWinget
    <2>1. UNCHANGED report \/ y = x \/ y = x \o Because(batch, "install")
      BY <1>9, <1>10, <1>19 DEF Install, InstallWinget
    <2> QED
      BY <1>4, <1>6, <1>7, <1>8, <1>11, <2>1
  <1>20. CASE ReadBack
    <2> DEFINE R == {e1 \in ToSet(batch) : ~Landed(e1)}
               E == Among(batch, R)
    <2>1. y = x \o Because(E, "install") \/ y = x \o Because(batch, "install")
      BY <1>8, <1>10, <1>20 DEF ReadBack, Those, ReportType
    <2> HIDE DEF R
    <2>2. E \in Seq(Entry)
      BY <1>8, AnswersTyped
    <2> HIDE DEF E
    <2> QED
      BY <1>7, <1>8, <1>11, <2>1, <2>2
  <1>21. CASE Refresh
    <2> DEFINE r == [e |-> PathRefresh, why |-> "refresh"]
               X == <<r>>
    <2>1. UNCHANGED report \/ y = x \o X
      BY <1>10, <1>21 DEF Refresh
    <2>2. X \in Seq(Failure) /\ \A i \in DOMAIN X : X[i].why # "query"
      <3>1. r \in Failure /\ r.why = "refresh"
        BY DEF Failure
      <3> HIDE DEF r
      <3> QED
        BY <3>1
    <2> HIDE DEF X
    <2>3. CASE y = x \o X
      <3>1. Count(y, l) = Count(x, l)
        BY <1>1, <2>2, <2>3, NoLookupFails
      <3> QED
        BY <1>2, <3>1
    <2> QED
      BY <1>4, <2>1, <2>3
  <1>22. CASE AskInstalled \/ AskExists
    BY <1>22 DEF AskInstalled, AskExists
  <1> HIDE DEF l, x, y, z
  <1> QED
    BY <1>12, <1>13, <1>14, <1>15, <1>16, <1>17, <1>18, <1>19, <1>20, <1>21, <1>22
    DEF Next, Run, l, x, y

Reaches ==
    \A e \in Entry :
        LET lookup == [e |-> e, why |-> "query"]
        IN  /\ e.src = "cargo" /\ ~Spawns("cargo")
            /\ Count(report'.failed, lookup) > Count(report.failed, lookup)
            => \/ \A x \in have \ job.others : "cargo" \notin host.brings[x[2]]
               \/ \E i \in DOMAIN report.failed : report.failed[i].e = PathRefresh

\* ToolchainReached: a cargo that an earlier install of the run has brought is
\* found when the crates are looked up, or the refresh that was to find it has
\* failed.
THEOREM ToolchainIsFound == Spec => ToolchainReached
  <1>1. ASSUME DepsInv, [Next]_vars
        PROVE  [Reaches]_vars
    <2>1. SUFFICES ASSUME Next, NEW e \in Entry, ~Spawns("cargo"),
                          Count(report'.failed, [e |-> e, why |-> "query"])
                            > Count(report.failed, [e |-> e, why |-> "query"])
                   PROVE  \/ \A x \in have \ job.others : "cargo" \notin host.brings[x[2]]
                          \/ \E i \in DOMAIN report.failed : report.failed[i].e = PathRefresh
      BY <1>1 DEF Reaches
    <2>2. pc = "ask"
      BY <1>1, <2>1, QueriesLookUp
    <2>3. CargoInv /\ Running /\ "cargo" \notin path
      BY <1>1, <2>1, <2>2 DEF DepsInv, Running, Spawns
    <2> QED
      BY <2>2, <2>3 DEF CargoInv, RefreshFailed
  <1> QED
    BY <1>1, DepsInvariant, PTL DEF Spec, ToolchainReached, Reaches
=============================================================================
