--------------------------- MODULE HostingProofs ---------------------------
(***************************************************************************)
(* Proofs about Hosting, for any number of terminals and servers, any      *)
(* commands and any swarm.                                                 *)
(*                                                                         *)
(* The argument: a process that was seen once never becomes unused again   *)
(* and one that is gone stays gone, so what a command collected in its     *)
(* scan keeps its meaning until the launch, whatever the other terminals   *)
(* do; and the number of a new server is one the baseline cannot contain.  *)
(***************************************************************************)
EXTENDS Hosting, FiniteSetTheorems, WellFoundedInduction, TLAPS

-----------------------------------------------------------------------------
(* Finite sets and sums. *)

\* A set of numbers has a least member, so induction over numbers is a fact about sets.
LEMMA LeastNatural ==
    ASSUME NEW S \in SUBSET Nat, S # {}
    PROVE  \E n \in S : \A m \in S : n <= m
<1> DEFINE R == OpToRel(<, Nat)
<1>1. IsWellFoundedOn(R, Nat)
  BY NatLessThanWellFounded
<1>2. \A m, n \in Nat : m < n => <<m, n>> \in R
  BY DEF OpToRel
<1> HIDE DEF R
<1>3. PICK n \in S : \A m \in S : ~ (<<m, n>> \in R)
  BY <1>1, WFMin
<1>4. \A m \in S : m \in Nat /\ n \in Nat /\ ~ (m < n)
  BY <1>2, <1>3
<1> QED BY <1>4

LEMMA AllNaturals ==
    ASSUME NEW S, 0 \in S, \A n \in Nat : n \in S => n + 1 \in S
    PROVE  Nat \subseteq S
<1> SUFFICES ASSUME Nat \ S # {} PROVE FALSE
  OBVIOUS
<1>1. PICK n \in Nat \ S : \A m \in Nat \ S : n <= m
  BY LeastNatural
<1> QED BY <1>1

\* What holds of the empty set and survives one element more holds of a finite set.
LEMMA FiniteSubsets ==
    ASSUME NEW U, IsFiniteSet(U), NEW S, {} \in S,
           \A T \in SUBSET U : \A x \in U \ T : T \in S => T \cup {x} \in S
    PROVE  U \in S
<1> DEFINE G == {n \in Nat : \A T \in SUBSET U : Cardinality(T) = n => T \in S}
<1>1. 0 \in G
  BY FS_EmptySet, FS_Subset
<1>2. ASSUME NEW n \in Nat, n \in G PROVE n + 1 \in G
  <2> SUFFICES ASSUME NEW T \in SUBSET U, Cardinality(T) = n + 1 PROVE T \in S
    OBVIOUS
  <2>1. IsFiniteSet(T) /\ T # {}
    BY FS_EmptySet, FS_Subset
  <2>2. PICK x \in T : TRUE
    BY <2>1
  <2>3. Cardinality(T \ {x}) = n
    <3>1. Cardinality(T \ {x}) = Cardinality(T) - 1
      BY <2>1, FS_RemoveElement
    <3> QED BY <3>1
  <2>4. T \ {x} \in S
    BY <1>2, <2>3
  <2>5. T = (T \ {x}) \cup {x}
    OBVIOUS
  <2> QED BY <2>4, <2>5
<1>3. Nat \subseteq G
  BY <1>1, <1>2, AllNaturals
<1> QED BY <1>3, FS_CardinalityType

\* g gives the sum of f over every subset of S, whichever element is taken first.
Sums(g, f, S) ==
    /\ g \in [SUBSET S -> Int] /\ g[{}] = 0
    /\ \A T \in SUBSET S : \A x \in T : g[T] = f[x] + g[T \ {x}]

\* What the recursion of a fold says, with the element it happens to choose.
Folds(g, f, S) ==
    g = [T \in SUBSET S |->
           IF T = {} THEN 0 ELSE f[CHOOSE x \in T : TRUE] + g[T \ {CHOOSE x \in T : TRUE}]]

\* A finite sum does not depend on the order it is taken in.
LEMMA SumsExist ==
    ASSUME NEW S, IsFiniteSet(S), NEW f \in [S -> Int]
    PROVE  \E g : Sums(g, f, S)
<1> DEFINE Good == {T \in SUBSET S : \E g : Sums(g, f, T)}
<1>1. {} \in Good
  <2>1. Sums([T \in SUBSET {} |-> 0], f, {})
    BY DEF Sums
  <2> QED BY <2>1
<1>2. ASSUME NEW T \in SUBSET S, NEW x \in S \ T, T \in Good
      PROVE  T \cup {x} \in Good
  <2>1. PICK g : Sums(g, f, T)
    BY <1>2
  <2> DEFINE h == [U \in SUBSET (T \cup {x}) |-> IF x \in U THEN f[x] + g[U \ {x}] ELSE g[U]]
  <2>2. h \in [SUBSET (T \cup {x}) -> Int]
    BY <2>1 DEF Sums
  <2>3. h[{}] = 0
    BY <2>1 DEF Sums
  <2>4. ASSUME NEW U \in SUBSET (T \cup {x}), NEW y \in U
        PROVE  h[U] = f[y] + h[U \ {y}]
    <3>1. CASE y = x
      BY <3>1
    <3>2. CASE y # x /\ x \notin U
      BY <2>1, <3>2 DEF Sums
    <3>3. CASE y # x /\ x \in U
      <4>1. U \ {x} \in SUBSET T /\ y \in U \ {x} /\ (U \ {x}) \ {y} = (U \ {y}) \ {x}
        BY <3>3
      <4>2. g[U \ {x}] = f[y] + g[(U \ {y}) \ {x}]
        <5>1. \A V \in SUBSET T : \A z \in V : g[V] = f[z] + g[V \ {z}]
          BY <2>1 DEF Sums
        <5> DEFINE V == U \ {x}
        <5>2. g[V] = f[y] + g[V \ {y}]
          <6> HIDE DEF V
          <6> V \in SUBSET T /\ y \in V
            BY <4>1 DEF V
          <6> QED BY <5>1
        <5> QED BY <4>1, <5>2
      <4>3. f[x] \in Int /\ f[y] \in Int /\ g[(U \ {y}) \ {x}] \in Int
        BY <2>1, <4>1 DEF Sums
      <4>4. h[U] = f[x] + g[U \ {x}] /\ h[U \ {y}] = f[x] + g[(U \ {y}) \ {x}]
        BY <3>3
      <4> HIDE DEF h
      <4> QED BY <4>2, <4>3, <4>4
    <3> QED BY <3>1, <3>2, <3>3
  <2> HIDE DEF h
  <2>5. Sums(h, f, T \cup {x})
    BY <2>2, <2>3, <2>4 DEF Sums
  <2> QED BY <2>5
<1>3. S \in Good
  BY <1>1, <1>2, FiniteSubsets
<1> QED BY <1>3

LEMMA SumsFold ==
    ASSUME NEW S, NEW f, NEW g, Sums(g, f, S)
    PROVE  Folds(g, f, S)
<1>1. ASSUME NEW T \in SUBSET S, T # {}
      PROVE  g[T] = f[CHOOSE x \in T : TRUE] + g[T \ {CHOOSE x \in T : TRUE}]
  <2>1. (CHOOSE x \in T : TRUE) \in T
    BY <1>1
  <2> QED BY <2>1 DEF Sums
<1> QED BY <1>1 DEF Sums, Folds

\* A fold computes it, whichever elements it happens to choose.
LEMMA FoldsSum ==
    ASSUME NEW S, IsFiniteSet(S), NEW f, NEW g, NEW h, Sums(g, f, S), Folds(h, f, S)
    PROVE  \A T \in SUBSET S : h[T] = g[T]
<1> DEFINE Good == {T \in SUBSET S : IsFiniteSet(T) => h[T] = g[T]}
           Same == {n \in Nat : \A T \in SUBSET S : Cardinality(T) = n => h[T] = g[T]}
<1>1. 0 \in Same
  <2> SUFFICES ASSUME NEW T \in SUBSET S, Cardinality(T) = 0 PROVE h[T] = g[T]
    OBVIOUS
  <2>1. T = {}
    BY FS_Subset, FS_EmptySet
  <2> QED BY <2>1 DEF Sums, Folds
<1>2. ASSUME NEW n \in Nat, n \in Same PROVE n + 1 \in Same
  <2> SUFFICES ASSUME NEW T \in SUBSET S, Cardinality(T) = n + 1 PROVE h[T] = g[T]
    OBVIOUS
  <2> DEFINE x == CHOOSE x \in T : TRUE
  <2>1. IsFiniteSet(T) /\ T # {}
    BY FS_Subset, FS_EmptySet
  <2>2. x \in T
    BY <2>1
  <2>3. h[T] = f[x] + h[T \ {x}]
    BY <2>1 DEF Folds
  <2> HIDE DEF x
  <2>4. Cardinality(T \ {x}) = Cardinality(T) - 1
    BY <2>1, <2>2, FS_RemoveElement
  <2>5. Cardinality(T \ {x}) = n
    BY <2>4
  <2>6. h[T \ {x}] = g[T \ {x}]
    BY <1>2, <2>5
  <2> QED BY <2>2, <2>3, <2>6 DEF Sums
<1>3. Nat \subseteq Same
  BY <1>1, <1>2, AllNaturals
<1>4. \A T \in SUBSET S : Cardinality(T) \in Nat
  BY FS_Subset, FS_CardinalityType
<1> QED BY <1>3, <1>4

LEMMA SumIs ==
    ASSUME NEW S, IsFiniteSet(S), NEW f \in [S -> Int], NEW g, Sums(g, f, S)
    PROVE  SumFunction(f) = g[S]
<1> DEFINE iter == CHOOSE h : h = [T \in SUBSET S |->
           IF T = {} THEN 0 ELSE f[CHOOSE x \in T : TRUE] + h[T \ {CHOOSE x \in T : TRUE}]]
<1>1. Folds(g, f, S)
  BY SumsFold
<1>2. Folds(iter, f, S)
  BY <1>1 DEF Folds
<1>3. SumFunction(f) = iter[S]
  BY DEF SumFunction, SumFunctionOnSet, FoldFunctionOnSet, MapThenFoldSet
<1> HIDE DEF iter
<1> QED BY <1>2, <1>3, FoldsSum

\* A sum of numbers that are at most m.
LEMMA SumBounds ==
    ASSUME NEW S, IsFiniteSet(S), NEW f \in [S -> Nat]
    PROVE  /\ SumFunction(f) \in Nat
           /\ \A m \in Nat : (\A x \in S : f[x] <= m) => SumFunction(f) <= Cardinality(S) * m
<1>0. f \in [S -> Int]
  OBVIOUS
<1>1. PICK g : Sums(g, f, S)
  BY <1>0, SumsExist
<1>2. SumFunction(f) = g[S]
  BY <1>0, <1>1, SumIs
<1>3. g[{}] = 0 /\ \A T \in SUBSET S : \A x \in S \ T : g[T \cup {x}] = f[x] + g[T]
  <2>1. ASSUME NEW T \in SUBSET S, NEW x \in S \ T PROVE g[T \cup {x}] = f[x] + g[T]
    <3>1. (T \cup {x}) \ {x} = T /\ T \cup {x} \in SUBSET S /\ x \in T \cup {x}
      OBVIOUS
    <3>2. g[T \cup {x}] = f[x] + g[(T \cup {x}) \ {x}]
      BY <1>1, <3>1 DEF Sums
    <3> QED BY <3>1, <3>2
  <2> QED BY <1>1, <2>1 DEF Sums
<1>4. S \in {T \in SUBSET S : g[T] \in Nat}
  <2> DEFINE Good == {T \in SUBSET S : g[T] \in Nat}
  <2>1. {} \in Good
    BY <1>3
  <2>2. \A T \in SUBSET S : \A x \in S \ T : T \in Good => T \cup {x} \in Good
    BY <1>3
  <2> QED BY <2>1, <2>2, FiniteSubsets
<1>5. ASSUME NEW m \in Nat, \A x \in S : f[x] <= m PROVE g[S] <= Cardinality(S) * m
  <2> DEFINE Good == {T \in SUBSET S : g[T] \in Nat /\ g[T] <= Cardinality(T) * m}
  <2>1. {} \in Good
    BY <1>3, FS_EmptySet
  <2>2. ASSUME NEW T \in SUBSET S, NEW x \in S \ T, T \in Good PROVE T \cup {x} \in Good
    <3>1. Cardinality(T \cup {x}) = Cardinality(T) + 1 /\ Cardinality(T) \in Nat
      BY FS_Subset, FS_AddElement, FS_CardinalityType
    <3>2. (Cardinality(T) + 1) * m = Cardinality(T) * m + m
      BY <3>1
    <3>3. g[T \cup {x}] = f[x] + g[T] /\ f[x] \in Nat /\ f[x] <= m
      BY <1>3, <1>5
    <3>4. Cardinality(T) * m \in Nat
      BY <3>1
    <3> QED BY <2>2, <3>1, <3>2, <3>3, <3>4
  <2>3. S \in Good
    BY <2>1, <2>2, FiniteSubsets
  <2> QED BY <2>3
<1> QED BY <1>2, <1>4, <1>5

\* A finite set of numbers has a largest.
LEMMA Greatest ==
    ASSUME NEW S \in SUBSET Int, IsFiniteSet(S), S # {}
    PROVE  Largest(S) \in S /\ \A x \in S : x <= Largest(S)
<1> DEFINE Good == {T \in SUBSET S : T = {} \/ \E m \in T : \A x \in T : m >= x}
<1>1. {} \in Good
  OBVIOUS
<1>2. ASSUME NEW T \in SUBSET S, NEW x \in S \ T, T \in Good PROVE T \cup {x} \in Good
  <2>1. CASE T = {}
    BY <2>1
  <2>2. CASE T # {}
    <3>1. PICK m \in T : \A y \in T : m >= y
      BY <1>2, <2>2
    <3>2. CASE x >= m
      BY <3>1, <3>2
    <3>3. CASE ~ (x >= m)
      BY <3>1, <3>3
    <3> QED BY <3>2, <3>3
  <2> QED BY <2>1, <2>2
<1>3. \E m \in S : \A x \in S : m >= x
  <2>1. S \in Good
    BY <1>1, <1>2, FiniteSubsets
  <2> QED BY <2>1
<1> QED BY <1>3 DEF Largest, Max

LEMMA FiniteImage ==
    ASSUME NEW S, IsFiniteSet(S), NEW T, NEW f \in [S -> T]
    PROVE  IsFiniteSet({f[x] : x \in S})
<1>1. f \in Surjection(S, {f[x] : x \in S})
  BY DEF Surjection
<1> QED BY <1>1, FS_Surjection

LEMMA Larger ==
    ASSUME NEW a \in Int, NEW b \in Int
    PROVE  Largest({a, b}) \in {a, b} /\ a <= Largest({a, b}) /\ b <= Largest({a, b})
<1>1. IsFiniteSet({a, b})
  <2>1. {a, b} = {a} \cup {b} /\ IsFiniteSet({a})
    BY FS_Singleton
  <2> QED BY <2>1, FS_AddElement
<1> QED BY <1>1, Greatest

LEMMA Smaller ==
    ASSUME NEW a \in Int, NEW b \in Int
    PROVE  Min({a, b}) \in {a, b} /\ a >= Min({a, b}) /\ b >= Min({a, b})
<1>1. \E m \in {a, b} : \A x \in {a, b} : m =< x
  OBVIOUS
<1> QED BY <1>1 DEF Min

-----------------------------------------------------------------------------
(* What a server needs. *)

\* What a block weighs is a number, whatever the configuration leaves out.
LEMMA BlockParams ==
    ASSUME NEW c, Configuration(c)
    PROVE  ParamsPerBlock(c) \in Nat
<1> DEFINE kv == Or(c.kvHeads, c.heads)
           width == Or(c.headDim, c.hidden \div c.heads)
           inner == Or(c.moeIntermediate, c.intermediate)
           mlp == IF c.routed > 0
               THEN (c.routed + c.shared) * 3 * c.hidden * inner + c.hidden * c.routed
               ELSE 3 * c.hidden * c.intermediate
<1>1. /\ c.hidden \in Nat /\ c.intermediate \in Nat /\ c.kvHeads \in Nat /\ c.headDim \in Nat
      /\ c.moeIntermediate \in Nat /\ c.routed \in Nat /\ c.shared \in Nat
      /\ c.heads \in Nat /\ c.heads > 0
  BY DEF Configuration
<1>2. c.hidden \div c.heads \in Nat
  BY <1>1
<1>3. kv \in Nat /\ width \in Nat /\ inner \in Nat
  BY <1>1, <1>2 DEF Or
<1>4. ParamsPerBlock(c) = 2 * c.hidden * c.heads * width + 2 * c.hidden * kv * width + mlp + 2 * c.hidden
  BY DEF ParamsPerBlock
<1> HIDE DEF kv, width, inner
<1>5. mlp \in Nat
  <2>1. (c.routed + c.shared) * 3 * c.hidden * inner \in Nat
    BY <1>1, <1>3
  <2>2. c.hidden * c.routed \in Nat /\ 3 * c.hidden * c.intermediate \in Nat
    BY <1>1
  <2> QED BY <2>1, <2>2
<1>6. 2 * c.hidden * c.heads * width \in Nat /\ 2 * c.hidden * kv * width \in Nat
  BY <1>1, <1>3
<1> HIDE DEF mlp
<1> QED BY <1>1, <1>4, <1>5, <1>6

LEMMA LayerParams ==
    ASSUME NEW c, Configuration(c), NEW i
    PROVE  ParamsPerLayer(c, i) \in Nat
<1> DEFINE d == [c EXCEPT !.routed = 0, !.shared = 0]
<1>1. Configuration(d)
  BY DEF Configuration
<1> HIDE DEF d
<1>2. ParamsPerBlock(c) \in Nat /\ ParamsPerBlock(d) \in Nat
  BY <1>1, BlockParams
<1>3. ParamsPerLayer(c, i) \in {ParamsPerBlock(c), ParamsPerBlock(d)}
  BY DEF ParamsPerLayer, d
<1> QED BY <1>2, <1>3

LEMMA WeightGrows ==
    ASSUME NEW quant, Thousandths[quant] \in Nat, NEW p \in Nat, NEW q \in Nat, p <= q
    PROVE  Weight(p, quant) \in Nat /\ Weight(p, quant) <= Weight(q, quant)
<1>1. p * Thousandths[quant] \in Nat /\ q * Thousandths[quant] \in Nat
  OBVIOUS
<1>2. p * Thousandths[quant] <= q * Thousandths[quant]
  OBVIOUS
<1> QED BY <1>1, <1>2 DEF Weight

LEMMA CacheType ==
    ASSUME NEW c, Configuration(c), NEW tokens \in Nat \cup {NoTokens}
    PROVE  CachePerBlock(c, tokens) \in Nat
<1> DEFINE groups == Largest({1, c.heads \div Or(c.kvHeads, c.heads)})
           width == IF c.qkNope > 0 /\ c.qkRope > 0
                 THEN c.heads * (c.qkNope + c.qkRope + Or(c.vDim, c.qkNope))
                 ELSE (2 * c.hidden) \div groups
           kept == IF tokens # NoTokens THEN tokens
                ELSE IF groups > 1 THEN GroupedTokens ELSE PlainTokens
<1>1. /\ c.hidden \in Nat /\ c.kvHeads \in Nat /\ c.qkNope \in Nat /\ c.qkRope \in Nat
      /\ c.vDim \in Nat /\ c.heads \in Nat /\ c.heads > 0
  BY DEF Configuration
<1>2. groups \in Nat /\ groups > 0
  <2>1. Or(c.kvHeads, c.heads) \in Nat /\ Or(c.kvHeads, c.heads) > 0
    BY <1>1 DEF Or
  <2>2. c.heads \div Or(c.kvHeads, c.heads) \in Nat
    BY <1>1, <2>1
  <2>3. 1 \in Int /\ c.heads \div Or(c.kvHeads, c.heads) \in Int
    BY <2>2
  <2>4. /\ groups \in {1, c.heads \div Or(c.kvHeads, c.heads)}
        /\ 1 <= groups
    BY <2>3, Larger
  <2> QED BY <2>2, <2>4
<1>3. CachePerBlock(c, tokens) = width * kept * 2
  BY DEF CachePerBlock
<1> HIDE DEF groups
<1>4. kept \in Nat
  BY TokensAssumption
<1>5. width \in Nat
  <2>1. c.heads * (c.qkNope + c.qkRope + Or(c.vDim, c.qkNope)) \in Nat
    BY <1>1 DEF Or
  <2>2. (2 * c.hidden) \div groups \in Nat
    BY <1>1, <1>2
  <2> QED BY <2>1, <2>2
<1> HIDE DEF width, kept
<1> QED BY <1>3, <1>4, <1>5

\* No layer needs more than the block the plan is made with (hardware.plan_blocks).
LEMMA NoLayerIsLarger ==
    ASSUME NEW c, Configuration(c), NEW quant, Thousandths[quant] \in Nat,
           NEW tokens \in Nat \cup {NoTokens}, NEW i \in 0..c.layers - 1
    PROVE  /\ Weight(ParamsPerLayer(c, i), quant) + CachePerBlock(c, tokens) \in Nat
           /\ PerBlock(c, quant, tokens) \in Nat
           /\ Weight(ParamsPerLayer(c, i), quant) + CachePerBlock(c, tokens)
                 <= PerBlock(c, quant, tokens)
<1> DEFINE Params == {ParamsPerLayer(c, j) : j \in 0..c.layers - 1}
<1>1. Params \in SUBSET Nat
  BY LayerParams
<1>2. IsFiniteSet(Params)
  <2>1. IsFiniteSet(0..c.layers - 1)
    <3>1. c.layers - 1 \in Int
      BY DEF Configuration
    <3> QED BY <3>1, FS_Interval
  <2> DEFINE f == [j \in 0..c.layers - 1 |-> ParamsPerLayer(c, j)]
  <2>2. f \in [0..c.layers - 1 -> Nat]
    BY LayerParams
  <2>3. Params = {f[j] : j \in 0..c.layers - 1}
    OBVIOUS
  <2> HIDE DEF f, Params
  <2> QED BY <2>1, <2>2, <2>3, FiniteImage
<1>3. ParamsPerLayer(c, i) \in Params
  OBVIOUS
<1>4. PerBlock(c, quant, tokens) = Weight(Largest(Params), quant) + CachePerBlock(c, tokens)
  BY DEF PerBlock
<1> HIDE DEF Params
<1>5. Largest(Params) \in Nat /\ ParamsPerLayer(c, i) <= Largest(Params) /\ ParamsPerLayer(c, i) \in Nat
  <2>1. Params \in SUBSET Int /\ Params # {}
    BY <1>1, <1>3
  <2>2. Largest(Params) \in Params /\ \A x \in Params : x <= Largest(Params)
    BY <1>2, <2>1, Greatest
  <2> QED BY <1>1, <1>3, <2>2
<1>6. CachePerBlock(c, tokens) \in Nat
  BY CacheType
<1>7. /\ Weight(ParamsPerLayer(c, i), quant) \in Nat
      /\ Weight(Largest(Params), quant) \in Nat
      /\ Weight(ParamsPerLayer(c, i), quant) <= Weight(Largest(Params), quant)
  BY <1>5, WeightGrows
<1> QED BY <1>4, <1>6, <1>7

\* So a range of layers needs at most as many such blocks, wherever it is.
LEMMA LoadBound ==
    ASSUME NEW c, Configuration(c), NEW quant, Thousandths[quant] \in Nat,
           NEW tokens \in Nat \cup {NoTokens}, NEW R \in SUBSET (0..c.layers - 1)
    PROVE  /\ Load(c, R, quant, tokens) \in Nat
           /\ Load(c, R, quant, tokens) <= Cardinality(R) * PerBlock(c, quant, tokens)
<1> DEFINE f == [i \in R |-> Weight(ParamsPerLayer(c, i), quant) + CachePerBlock(c, tokens)]
<1>1. IsFiniteSet(R)
  <2>1. IsFiniteSet(0..c.layers - 1)
    <3>1. c.layers - 1 \in Int
      BY DEF Configuration
    <3> QED BY <3>1, FS_Interval
  <2> QED BY <2>1, FS_Subset
<1>2. f \in [R -> Nat]
  BY NoLayerIsLarger
<1>3. \A i \in R : f[i] <= PerBlock(c, quant, tokens)
  BY NoLayerIsLarger
<1>4. Load(c, R, quant, tokens) = SumFunction(f)
  BY DEF Load
<1> HIDE DEF f
<1>5. PerBlock(c, quant, tokens) \in Nat
  <2>1. 0 \in 0..c.layers - 1
    BY DEF Configuration
  <2> QED BY <2>1, NoLayerIsLarger
<1> QED BY <1>1, <1>2, <1>3, <1>4, <1>5, SumBounds

-----------------------------------------------------------------------------
(* What is true of the processes and of what the terminals remember. *)

Types ==
    /\ at \in [Servers -> {"unused", "up", "closing", "gone"}]
    /\ owner \in [Servers -> Terminals \cup {TheInit, Nobody}]
    /\ DOMAIN model = Servers
    /\ records \subseteq Servers
    /\ phase \in [Terminals -> Phases]
    /\ DOMAIN command = Terminals
    /\ leftovers \in [Terminals -> SUBSET Servers]
    /\ signalled \in [Terminals -> SUBSET Servers]
    /\ mine \in [Terminals -> Servers \cup {0}]
    /\ baseline \in [Terminals -> {NoBaseline} \cup SUBSET Servers]
    /\ left \in [Terminals -> Nat]
    /\ verdict \in [Terminals -> Verdicts]
    /\ found \in [Terminals -> SUBSET Servers]
    /\ present \in [Terminals -> SUBSET Servers]
    /\ missed \in [Terminals -> SUBSET Servers]
    /\ DOMAIN shown = Terminals

\* What the leftovers of a command are in each of its phases.
Cleaning(t) ==
    /\ \A s \in leftovers[t] : at[s] # "unused"
    /\ phase[t] = "signal" =>
          \A s \in leftovers[t] : /\ <<Id(t), model[s]>> \in Mentions
                                  /\ command[t].replace \/ owner[s] \notin Terminals
    /\ phase[t] = "grace" =>
          \A s \in leftovers[t] : s \in signalled[t] \/ at[s] = "gone"
    /\ phase[t] \in {"baseline", "launch"} =>
          \A s \in leftovers[t] : at[s] = "gone"

\* What the watching thread of a terminal knows.
Watching(t) ==
    /\ baseline[t] # NoBaseline => baseline[t] = present[t] \ missed[t]
    /\ \A s \in present[t] : at[s] # "unused"
    /\ phase[t] # "serving" =>
          mine[t] = 0 /\ left[t] = 0 /\ verdict[t] = "none" /\ ~shown[t]
    /\ mine[t] \notin present[t]
    /\ verdict[t] = "visible" => found[t] # {} /\ found[t] \cap present[t] \subseteq missed[t]
    /\ left[t] # 0 \/ verdict[t] = "not visible" => ~shown[t]

IInv ==
    /\ Types
    /\ \A s \in records : at[s] # "unused"
    /\ \A t \in Terminals : Cleaning(t) /\ Watching(t)

-----------------------------------------------------------------------------
LEMMA ServersArePositive == 0 \notin Servers
  BY BoundsAssumption DEF Servers

LEMMA Names == Nobody \notin Terminals /\ TheInit \notin Terminals
  BY NamesAssumption

LEMMA InitIInv == Init => IInv
<1> SUFFICES ASSUME Init PROVE IInv
  OBVIOUS
<1>1. Types
  BY DEF Init, Types, Phases, Verdicts
<1>2. ASSUME NEW t \in Terminals PROVE Cleaning(t) /\ Watching(t)
  BY <1>2, NamesAssumption DEF Init, Cleaning, Watching
<1> QED BY <1>1, <1>2 DEF IInv, Init

-----------------------------------------------------------------------------
(* The machine: what any step does to the processes. *)

\* What a terminal remembers of a process outlives the steps of everybody else.
MachineStep ==
    /\ at' \in [Servers -> {"unused", "up", "closing", "gone"}]
    /\ owner' \in [Servers -> Terminals \cup {TheInit, Nobody}]
    /\ DOMAIN model' = Servers
    /\ records' \subseteq Servers
    /\ \A s \in records' : at'[s] # "unused"
    /\ \A s \in Servers :
          at[s] # "unused" =>
             /\ at'[s] # "unused"
             /\ at[s] = "gone" => at'[s] = "gone"
             /\ model'[s] = model[s]
             /\ owner[s] \notin Terminals => owner'[s] \notin Terminals

LEMMA VanishStep ==
    ASSUME IInv, NEW S \in SUBSET Servers, Vanish(S), model' = model,
           records' \in SUBSET records, \A s \in S : at[s] # "unused"
    PROVE  MachineStep
  BY Names DEF IInv, Types, Vanish, MachineStep

LEMMA MachineUnchanged ==
    ASSUME IInv, UNCHANGED <<machine, records>>
    PROVE  MachineStep
  BY DEF IInv, Types, machine, MachineStep

LEMMA LaunchStep ==
    ASSUME IInv, NEW t \in Terminals, Launch(t)
    PROVE  MachineStep
<1>1. PICK s \in Servers : /\ at[s] = "unused"
                           /\ at' = [at EXCEPT ![s] = "up"]
                           /\ owner' = [owner EXCEPT ![s] = t]
                           /\ model' = [model EXCEPT ![s] = Id(t)]
  BY DEF Launch, Starts, Unused
<1>2. records' = records
  BY DEF Launch
<1> QED BY <1>1, <1>2 DEF IInv, Types, MachineStep

LEMMA HangupStep ==
    ASSUME IInv, NEW t \in Terminals, Hangup(t)
    PROVE  MachineStep
  BY Names DEF IInv, Types, Hangup, MachineStep

LEMMA TerminateStep ==
    ASSUME IInv, NEW t \in Terminals, Terminate(t)
    PROVE  MachineStep
  BY DEF IInv, Types, Terminate, MachineStep, Alive

LEMMA HardKillStep ==
    ASSUME IInv, NEW t \in Terminals, HardKill(t)
    PROVE  MachineStep
<1> DEFINE late == {s \in signalled[t] : Alive(s)}
<1>1. late \in SUBSET Servers /\ \A s \in late : at[s] # "unused"
  BY DEF IInv, Types, Alive
<1>2. Vanish(late) /\ model' = model /\ records' \in SUBSET records
  BY DEF HardKill, IInv, Types
<1> HIDE DEF late
<1> QED BY <1>1, <1>2, VanishStep

LEMMA InterruptStep ==
    ASSUME IInv, NEW t \in Terminals, Interrupt(t)
    PROVE  MachineStep
<1>1. phase[t] = "serving" /\ model' = model
  BY DEF Interrupt
<1>2. CASE Vanish({mine[t]}) /\ records' \in {records, records \ {mine[t]}}
  <2>1. CASE mine[t] \in Servers /\ at[mine[t]] # "unused"
    <3>1. records' \in SUBSET records
      BY <1>2
    <3> QED BY <1>1, <1>2, <2>1, <3>1, VanishStep
  <2>2. CASE mine[t] \notin Servers
    BY <1>1, <1>2, <2>2, Names DEF IInv, Types, Vanish, MachineStep
  <2>3. CASE mine[t] \in Servers /\ at[mine[t]] = "unused"
    BY <1>1, <1>2, <2>3, Names DEF IInv, Types, Vanish, MachineStep
  <2> QED BY <2>1, <2>2, <2>3
<1>3. CASE /\ Alive(mine[t]) /\ owner' = [owner EXCEPT ![mine[t]] = TheInit]
           /\ UNCHANGED <<at, records, load>>
  BY <1>1, <1>3, Names DEF IInv, Types, MachineStep
<1> QED BY <1>2, <1>3 DEF Interrupt

LEMMA ServerStep ==
    ASSUME IInv, NEW s \in Servers, Announce(s) \/ Close(s) \/ Die(s) \/ Expire(s)
    PROVE  MachineStep
<1>1. CASE Announce(s)
  BY <1>1 DEF Announce, machine, MachineStep, IInv, Types
<1>2. CASE Close(s)
  <2>1. /\ {s} \in SUBSET Servers /\ records' \in SUBSET records
        /\ \A r \in {s} : at[r] # "unused"
    BY <1>2 DEF Close
  <2> QED BY <1>2, <2>1, VanishStep DEF Close
<1>3. CASE Die(s)
  <2>1. /\ {s} \in SUBSET Servers /\ records' \in SUBSET records
        /\ \A r \in {s} : at[r] # "unused"
    BY <1>3 DEF Die
  <2> QED BY <1>3, <2>1, VanishStep DEF Die
<1>4. CASE Expire(s)
  BY <1>4 DEF Expire, machine, MachineStep, IInv, Types
<1> QED BY <1>1, <1>2, <1>3, <1>4

LEMMA NextStep == IInv /\ [Next]_vars => MachineStep
<1> SUFFICES ASSUME IInv, [Next]_vars PROVE MachineStep
  OBVIOUS
<1>1. ASSUME NEW t \in Terminals, NEW c \in Commands, NEW fetched \in BOOLEAN,
             Serve(t, c, fetched)
      PROVE  MachineStep
  BY <1>1, MachineUnchanged DEF Serve
<1>2. ASSUME NEW t \in Terminals, Working(t) PROVE MachineStep
  BY <1>2, MachineUnchanged, TerminateStep, HardKillStep, LaunchStep
     DEF Working, Scan, TakeBaseline
<1>3. ASSUME NEW t \in Terminals, End(t) \/ Interrupt(t) \/ Hangup(t) PROVE MachineStep
  BY <1>3, MachineUnchanged, InterruptStep, HangupStep DEF End
<1>4. ASSUME NEW t \in Terminals, Watch(t) PROVE MachineStep
  BY <1>4, MachineUnchanged DEF Watch, Skip, Look
<1>5. CASE UNCHANGED vars
  BY <1>5, MachineUnchanged DEF vars
<1> QED BY <1>1, <1>2, <1>3, <1>4, <1>5, ServerStep DEF Next

-----------------------------------------------------------------------------
(* The terminals that take no part in a step. *)

Undisturbed(u) ==
    /\ phase'[u] = phase[u] /\ command'[u] = command[u]
    /\ leftovers'[u] = leftovers[u] /\ signalled'[u] = signalled[u]
    /\ mine'[u] = mine[u]
    /\ baseline'[u] = baseline[u] /\ left'[u] = left[u] /\ verdict'[u] = verdict[u]
    /\ found'[u] = found[u] /\ present'[u] = present[u]
    /\ missed'[u] = missed[u] /\ shown'[u] = shown[u]

LEMMA Bystander ==
    ASSUME IInv, MachineStep, NEW u \in Terminals, Undisturbed(u)
    PROVE  Cleaning(u)' /\ Watching(u)'
<1>1. leftovers[u] \subseteq Servers /\ present[u] \subseteq Servers
  BY DEF IInv, Types
<1>2. Cleaning(u) /\ Watching(u)
  BY DEF IInv
<1>3. Id(u)' = Id(u)
  BY DEF Id, Undisturbed
<1>4. Cleaning(u)'
  BY <1>1, <1>2, <1>3 DEF Cleaning, MachineStep, Undisturbed
<1>5. Watching(u)'
  BY <1>1, <1>2 DEF Watching, MachineStep, Undisturbed
<1> QED BY <1>4, <1>5

\* A step of the machine, of one terminal t or of none, keeps the invariant if it
\* keeps what is claimed of t.
LEMMA OneTerminal ==
    ASSUME IInv, MachineStep, Types',
           \A u \in Terminals : Undisturbed(u) \/ (Cleaning(u)' /\ Watching(u)')
    PROVE  IInv'
<1>1. \A u \in Terminals : Cleaning(u)' /\ Watching(u)'
  BY Bystander
<1> QED BY <1>1 DEF IInv, MachineStep

-----------------------------------------------------------------------------
(* The steps of a terminal. *)

LEMMA ServeKeeps ==
    ASSUME IInv, NEW t \in Terminals, NEW c \in Commands, NEW fetched \in BOOLEAN,
           Serve(t, c, fetched)
    PROVE  IInv'
<1>1. MachineStep
  BY MachineUnchanged DEF Serve
<1>2. Types'
  BY DEF IInv, Types, Serve, machine, cleaning, watching, Phases
<1>3. ASSUME NEW u \in Terminals, u # t PROVE Undisturbed(u)
  BY <1>3 DEF Serve, Undisturbed, cleaning, watching, IInv, Types
<1>4. Cleaning(t)' /\ Watching(t)'
  <2>1. Cleaning(t) /\ Watching(t)
    BY DEF IInv
  <2>2. phase[t] = "idle" /\ phase'[t] = "scan"
    BY DEF Serve, IInv, Types
  <2> QED BY <2>1, <2>2 DEF Serve, Cleaning, Watching, machine, cleaning, watching
<1> QED BY <1>1, <1>2, <1>3, <1>4, OneTerminal

LEMMA ScanKeeps ==
    ASSUME IInv, NEW t \in Terminals, Scan(t)
    PROVE  IInv'
<1> DEFINE kept == StaleFor(Id(t)) \cup IF command[t].replace THEN OthersFor(Id(t)) ELSE {}
<1>1. MachineStep
  BY MachineUnchanged DEF Scan
<1>2. /\ kept \subseteq Servers
      /\ \A s \in kept : /\ at[s] # "unused"
                         /\ <<Id(t), model[s]>> \in Mentions
                         /\ command[t].replace \/ owner[s] \notin Terminals
  BY Names DEF StaleFor, OthersFor, Found, Holding, Alive, Orphaned
<1>3. /\ leftovers' = [leftovers EXCEPT ![t] = kept]
      /\ phase' = [phase EXCEPT ![t] = IF kept = {} THEN "baseline" ELSE "signal"]
      /\ phase[t] = "scan"
      /\ UNCHANGED <<machine, records, sizes, signalled, mine, watching>>
  BY DEF Scan
<1> HIDE DEF kept
<1>4. Types'
  BY <1>2, <1>3 DEF IInv, Types, machine, sizes, watching, Phases
<1>5. ASSUME NEW u \in Terminals, u # t PROVE Undisturbed(u)
  BY <1>3, <1>5 DEF Undisturbed, sizes, watching, IInv, Types
<1>6. Id(t)' = Id(t)
  BY <1>3 DEF Id, sizes
<1>7. /\ leftovers'[t] = kept /\ phase'[t] = IF kept = {} THEN "baseline" ELSE "signal"
      /\ Cleaning(t) /\ Watching(t)
  BY <1>3 DEF IInv, Types
<1>8. Cleaning(t)'
  <2>1. at' = at /\ model' = model /\ owner' = owner /\ command' = command
    BY <1>3 DEF machine, sizes
  <2>2. CASE kept = {}
    BY <1>7, <2>2 DEF Cleaning
  <2>3. CASE kept # {}
    <3>1. phase'[t] = "signal"
      BY <1>7, <2>3
    <3>2. \A s \in leftovers'[t] :
             /\ at'[s] # "unused"
             /\ <<Id(t)', model'[s]>> \in Mentions
             /\ command'[t].replace \/ owner'[s] \notin Terminals
      BY <1>2, <1>6, <1>7, <2>1
    <3> QED BY <3>1, <3>2 DEF Cleaning
  <2> QED BY <2>2, <2>3
<1>9. Watching(t)'
  <2>1. phase'[t] # "serving" /\ phase[t] # "serving"
    BY <1>3, <1>7
  <2> QED BY <1>3, <1>7, <2>1 DEF Watching, machine, watching
<1> QED BY <1>1, <1>4, <1>5, <1>8, <1>9, OneTerminal

LEMMA TerminateKeeps ==
    ASSUME IInv, NEW t \in Terminals, Terminate(t)
    PROVE  IInv'
<1> DEFINE reached == {s \in leftovers[t] : Alive(s)}
<1>1. MachineStep
  BY TerminateStep
<1>2. /\ phase[t] = "signal"
      /\ signalled' = [signalled EXCEPT ![t] = reached]
      /\ phase' = [phase EXCEPT ![t] = IF reached = {} THEN "baseline" ELSE "grace"]
      /\ UNCHANGED <<owner, model, load, records, sizes, leftovers, mine, watching>>
  BY DEF Terminate
<1>3. /\ reached \subseteq leftovers[t] /\ leftovers[t] \subseteq Servers
      /\ \A s \in leftovers[t] : s \in reached \/ at[s] = "gone"
  BY DEF IInv, Types, Cleaning, Alive
<1> HIDE DEF reached
<1>4. Types'
  BY <1>1, <1>2, <1>3 DEF IInv, Types, MachineStep, sizes, watching, Phases
<1>5. ASSUME NEW u \in Terminals, u # t PROVE Undisturbed(u)
  BY <1>2, <1>5 DEF Undisturbed, sizes, watching, IInv, Types
<1>6. /\ signalled'[t] = reached /\ phase'[t] = IF reached = {} THEN "baseline" ELSE "grace"
      /\ leftovers'[t] = leftovers[t]
      /\ Cleaning(t) /\ Watching(t)
  BY <1>2 DEF IInv, Types
<1>7. Cleaning(t)'
  BY <1>1, <1>3, <1>6 DEF Cleaning, MachineStep
<1>8. Watching(t)'
  BY <1>1, <1>2, <1>6 DEF Watching, MachineStep, watching, IInv, Types
<1> QED BY <1>1, <1>4, <1>5, <1>7, <1>8, OneTerminal

LEMMA HardKillKeeps ==
    ASSUME IInv, NEW t \in Terminals, HardKill(t)
    PROVE  IInv'
<1> DEFINE late == {s \in signalled[t] : Alive(s)}
<1>1. /\ phase[t] = "grace" /\ Vanish(late)
      /\ phase' = [phase EXCEPT ![t] = "baseline"]
      /\ UNCHANGED <<model, records, sizes, cleaning, mine, watching>>
  BY DEF HardKill
<1>2. /\ late \subseteq Servers /\ \A s \in late : at[s] # "unused"
      /\ \A s \in signalled[t] : s \in late \/ at[s] \in {"unused", "gone"}
  BY DEF IInv, Types, Alive
<1>3. /\ \A s \in Servers : s \in late => at'[s] = "gone"
      /\ \A s \in Servers : s \notin late => at'[s] = at[s]
  BY <1>1 DEF Vanish
<1> HIDE DEF late
<1>4. MachineStep
  BY HardKillStep
<1>5. Types'
  BY <1>1, <1>4 DEF IInv, Types, MachineStep, sizes, cleaning, watching, Phases
<1>6. ASSUME NEW u \in Terminals, u # t PROVE Undisturbed(u)
  BY <1>1, <1>6 DEF Undisturbed, sizes, cleaning, watching, IInv, Types
<1>7. /\ phase'[t] = "baseline" /\ leftovers'[t] = leftovers[t] /\ leftovers[t] \subseteq Servers
      /\ Cleaning(t) /\ Watching(t)
  BY <1>1 DEF IInv, Types, cleaning
<1>8. Cleaning(t)'
  BY <1>1, <1>2, <1>3, <1>7 DEF Cleaning
<1>9. Watching(t)'
  BY <1>1, <1>4, <1>7 DEF Watching, MachineStep, watching, IInv, Types
<1> QED BY <1>4, <1>5, <1>6, <1>8, <1>9, OneTerminal

LEMMA TakeBaselineKeeps ==
    ASSUME IInv, NEW t \in Terminals, TakeBaseline(t)
    PROVE  IInv'
<1>1. /\ phase[t] = "baseline"
      /\ phase' = [phase EXCEPT ![t] = "launch"]
      /\ UNCHANGED <<machine, records, sizes, cleaning, mine, left, verdict, found, shown>>
  BY DEF TakeBaseline
<1>2. PICK seen, there, out :
         /\ baseline' = [baseline EXCEPT ![t] = seen]
         /\ present' = [present EXCEPT ![t] = there]
         /\ missed' = [missed EXCEPT ![t] = out]
         /\ seen \in {NoBaseline} \cup SUBSET Servers /\ out \in SUBSET Servers
         /\ seen # NoBaseline => seen = there \ out
         /\ there \in {Announced(Id(t)), present[t]}
  <2>1. CASE command[t].watch
    <3> DEFINE there == Announced(Id(t))
    <3>1. PICK seen \in Read(Id(t)) :
             /\ baseline' = [baseline EXCEPT ![t] = seen]
             /\ present' = [present EXCEPT ![t] = there]
             /\ missed' = [missed EXCEPT ![t] =
                    IF seen = NoBaseline THEN {} ELSE there \ seen]
      BY <2>1 DEF TakeBaseline, Before
    <3>2. there \subseteq Servers
      BY DEF IInv, Types, Announced
    <3> DEFINE out == IF seen = NoBaseline THEN {} ELSE there \ seen
    <3>3. seen = NoBaseline \/ seen \subseteq there
      BY DEF Read
    <3>4. /\ seen \in {NoBaseline} \cup SUBSET Servers /\ out \in SUBSET Servers
          /\ seen # NoBaseline => seen = there \ out
      BY <3>2, <3>3
    <3> HIDE DEF out
    <3>5. missed' = [missed EXCEPT ![t] = out]
      BY <3>1 DEF out
    <3> QED BY <3>1, <3>4, <3>5
  <2>2. CASE ~command[t].watch
    <3>1. baseline' = baseline /\ present' = present /\ missed' = missed
      BY <2>2 DEF TakeBaseline
    <3>2. /\ baseline' = [baseline EXCEPT ![t] = baseline[t]]
          /\ present' = [present EXCEPT ![t] = present[t]]
          /\ missed' = [missed EXCEPT ![t] = missed[t]]
      BY <3>1 DEF IInv, Types
    <3>3. baseline[t] # NoBaseline => baseline[t] = present[t] \ missed[t]
      BY DEF IInv, Watching
    <3> QED BY <3>2, <3>3 DEF IInv, Types
  <2> QED BY <2>1, <2>2
<1>3. /\ Announced(Id(t)) \subseteq Servers
      /\ \A s \in Announced(Id(t)) : at[s] # "unused"
  BY DEF IInv, Types, Announced
<1>4. MachineStep
  BY <1>1, MachineUnchanged
<1>5. Types'
  BY <1>1, <1>2, <1>3 DEF IInv, Types, machine, sizes, cleaning, Phases
<1>6. ASSUME NEW u \in Terminals, u # t PROVE Undisturbed(u)
  BY <1>1, <1>2, <1>6 DEF Undisturbed, sizes, cleaning, IInv, Types
<1>7. phase'[t] = "launch" /\ Cleaning(t) /\ Watching(t)
  BY <1>1 DEF IInv, Types
<1>8. Cleaning(t)'
  BY <1>1, <1>7 DEF Cleaning, machine, sizes, cleaning
<1>9. Watching(t)'
  <2>1. mine[t] = 0 /\ left[t] = 0 /\ verdict[t] = "none" /\ ~shown[t]
    BY <1>1, <1>7 DEF Watching
  <2>2. /\ present'[t] \subseteq Servers
        /\ \A s \in present'[t] : at[s] # "unused"
    BY <1>2, <1>3, <1>7 DEF IInv, Types, Watching
  <2>3. baseline'[t] # NoBaseline => baseline'[t] = present'[t] \ missed'[t]
    BY <1>2 DEF IInv, Types
  <2> QED BY <1>1, <2>1, <2>2, <2>3, ServersArePositive DEF Watching, machine
<1> QED BY <1>4, <1>5, <1>6, <1>8, <1>9, OneTerminal

LEMMA LaunchKeeps ==
    ASSUME IInv, NEW t \in Terminals, Launch(t)
    PROVE  IInv'
<1>1. /\ phase[t] = "launch" /\ phase' = [phase EXCEPT ![t] = "serving"]
      /\ left' = [left EXCEPT ![t] = IF command[t].watch THEN Checks ELSE 0]
      /\ leftovers' = [leftovers EXCEPT ![t] = {}]
      /\ signalled' = [signalled EXCEPT ![t] = {}]
      /\ UNCHANGED <<records, command, baseline, verdict, found, present, missed, shown>>
  BY DEF Launch
<1>2. PICK s \in Servers : at[s] = "unused" /\ mine' = [mine EXCEPT ![t] = s]
  BY DEF Launch, Starts, Unused
<1>3. MachineStep
  BY LaunchStep
<1>4. Types'
  BY <1>1, <1>2, <1>3, BoundsAssumption DEF IInv, Types, MachineStep, Phases
<1>5. ASSUME NEW u \in Terminals, u # t PROVE Undisturbed(u)
  BY <1>1, <1>2, <1>5 DEF Undisturbed, IInv, Types
<1>6. /\ phase'[t] = "serving" /\ leftovers'[t] = {} /\ mine'[t] = s
      /\ Watching(t) /\ present[t] \subseteq Servers
  BY <1>1, <1>2 DEF IInv, Types
<1>7. Cleaning(t)'
  BY <1>6 DEF Cleaning
<1>8. Watching(t)'
  BY <1>1, <1>2, <1>3, <1>6 DEF Watching, MachineStep
<1> QED BY <1>3, <1>4, <1>5, <1>7, <1>8, OneTerminal

\* However a command ends, its terminal remembers nothing.
LEMMA RestKeeps ==
    ASSUME IInv, MachineStep, NEW t \in Terminals, Rest(t)
    PROVE  IInv'
<1>1. Types'
  BY DEF IInv, Types, MachineStep, Rest, Phases, Verdicts
<1>2. ASSUME NEW u \in Terminals, u # t PROVE Undisturbed(u)
  BY <1>2 DEF Rest, Undisturbed, IInv, Types
<1>3. /\ phase'[t] = "idle" /\ leftovers'[t] = {} /\ mine'[t] = 0 /\ left'[t] = 0
      /\ baseline'[t] = {} /\ present'[t] = {} /\ missed'[t] = {} /\ verdict'[t] = "none"
      /\ shown'[t] = FALSE
  BY DEF Rest, IInv, Types
<1>4. Cleaning(t)' /\ Watching(t)'
  BY <1>3 DEF Cleaning, Watching
<1> QED BY <1>1, <1>2, <1>4, OneTerminal

LEMMA SkipKeeps ==
    ASSUME IInv, NEW t \in Terminals, Skip(t)
    PROVE  IInv'
<1>1. /\ left[t] > 0 /\ verdict' = [verdict EXCEPT ![t] = "skipped"]
      /\ left' = [left EXCEPT ![t] = 0]
      /\ UNCHANGED <<machine, records, phase, sizes, cleaning, mine, baseline, found, present,
                     missed, shown>>
  BY DEF Skip
<1>2. MachineStep
  BY <1>1, MachineUnchanged
<1>3. Types'
  BY <1>1 DEF IInv, Types, machine, sizes, cleaning, Verdicts
<1>4. ASSUME NEW u \in Terminals, u # t PROVE Undisturbed(u)
  BY <1>1, <1>4 DEF Undisturbed, sizes, cleaning, IInv, Types
<1>5. verdict'[t] = "skipped" /\ left[t] # 0 /\ Cleaning(t) /\ Watching(t)
  BY <1>1 DEF IInv, Types
<1>6. Cleaning(t)'
  BY <1>1, <1>5 DEF Cleaning, machine, sizes, cleaning, Id
<1>7. Watching(t)'
  BY <1>1, <1>5 DEF Watching, machine
<1> QED BY <1>2, <1>3, <1>4, <1>6, <1>7, OneTerminal

\* A server cannot be hidden in a baseline that was taken before it existed.
LEMMA LookKeeps ==
    ASSUME IInv, NEW t \in Terminals, NEW seen \in Read(Id(t)), Look(t, seen)
    PROVE  IInv'
<1> DEFINE new == NewArrivals(baseline[t], seen)
<1>0. left[t] > 0 /\ left' = [left EXCEPT ![t] = IF new # {} THEN 0 ELSE left[t] - 1]
  BY DEF Look
<1>1. /\ baseline[t] # NoBaseline
      /\ found' = [found EXCEPT ![t] = new]
      /\ shown' = [shown EXCEPT ![t] = @ \/ (seen # NoBaseline /\ mine[t] \in seen)]
      /\ verdict' = [verdict EXCEPT ![t] =
             IF new # {} THEN "visible" ELSE IF left[t] = 1 THEN "not visible" ELSE "none"]
      /\ UNCHANGED <<machine, records, phase, sizes, cleaning, mine, baseline, present, missed>>
  BY DEF Look
<1>2. /\ Cleaning(t) /\ Watching(t) /\ left[t] # 0
      /\ baseline[t] = present[t] \ missed[t]
  <2>1. Cleaning(t) /\ Watching(t)
    BY DEF IInv
  <2>2. left[t] # 0
    BY <1>0 DEF IInv, Types
  <2> QED BY <1>1, <2>1, <2>2 DEF Watching
<1>3. /\ new \subseteq Servers /\ new \cap present[t] \subseteq missed[t]
      /\ seen # NoBaseline /\ mine[t] \in seen => new # {}
  <2>1. Announced(Id(t)) \subseteq Servers
    BY DEF IInv, Types, Announced
  <2>2. CASE seen = NoBaseline
    BY <2>2 DEF NewArrivals
  <2>3. CASE seen # NoBaseline
    <3>1. seen \subseteq Announced(Id(t))
      BY <2>3 DEF Read
    <3>2. new = seen \ (present[t] \ missed[t])
      BY <1>1, <1>2, <2>3 DEF NewArrivals
    <3>3. mine[t] \notin present[t]
      BY <1>2 DEF Watching
    <3> QED BY <2>1, <3>1, <3>2, <3>3
  <2> QED BY <2>2, <2>3
<1> HIDE DEF new
<1>4. MachineStep
  BY <1>1, MachineUnchanged
<1>5. Types'
  <2>1. found' \in [Terminals -> SUBSET Servers]
    BY <1>1, <1>3 DEF IInv, Types
  <2>2. left' \in [Terminals -> Nat]
    <3>1. left[t] \in Nat /\ left[t] > 0
      BY <1>0 DEF IInv, Types
    <3>2. (IF new # {} THEN 0 ELSE left[t] - 1) \in Nat
      BY <3>1
    <3> QED BY <1>0, <3>2 DEF IInv, Types
  <2>3. verdict' \in [Terminals -> Verdicts]
    BY <1>1 DEF IInv, Types, Verdicts
  <2>4. DOMAIN shown' = Terminals
    BY <1>1 DEF IInv, Types
  <2> QED BY <1>1, <2>1, <2>2, <2>3, <2>4 DEF IInv, Types, machine, sizes, cleaning
<1>6. ASSUME NEW u \in Terminals, u # t PROVE Undisturbed(u)
  BY <1>0, <1>1, <1>6 DEF Undisturbed, sizes, cleaning, IInv, Types
<1>7. Cleaning(t)'
  BY <1>1, <1>2 DEF Cleaning, machine, sizes, cleaning, Id
<1>8. Watching(t)'
  <2>1. phase[t] = "serving"
    BY <1>2 DEF Watching
  <2>2. verdict'[t] = "visible" =>
           found'[t] # {} /\ found'[t] \cap present[t] \subseteq missed[t]
    BY <1>1, <1>3 DEF IInv, Types
  <2>3. left'[t] # 0 \/ verdict'[t] = "not visible" => ~shown'[t]
    <3>1. left'[t] # 0 \/ verdict'[t] = "not visible" => new = {}
      BY <1>0, <1>1 DEF IInv, Types
    <3>2. shown'[t] => shown[t] \/ (seen # NoBaseline /\ mine[t] \in seen)
      BY <1>1 DEF IInv, Types
    <3>3. ~shown[t]
      BY <1>2 DEF Watching
    <3> QED BY <1>3, <3>1, <3>2, <3>3
  <2> QED BY <1>1, <1>2, <2>1, <2>2, <2>3 DEF Watching, machine
<1> QED BY <1>4, <1>5, <1>6, <1>7, <1>8, OneTerminal

-----------------------------------------------------------------------------
(* The steps of the servers and of the swarm. *)

LEMMA ServerStepKeeps ==
    ASSUME IInv, NEW s \in Servers, Announce(s) \/ Close(s) \/ Die(s) \/ Expire(s)
    PROVE  IInv'
<1>1. UNCHANGED <<phase, sizes, cleaning, mine, watching>>
  BY DEF Announce, Close, Die, Expire
<1>2. MachineStep
  BY ServerStep
<1>3. Types'
  BY <1>1, <1>2 DEF IInv, Types, MachineStep, sizes, cleaning, watching
<1>4. \A u \in Terminals : Undisturbed(u)
  BY <1>1 DEF Undisturbed, sizes, cleaning, watching
<1> QED BY <1>2, <1>3, <1>4, OneTerminal

LEMMA StutterKeeps ==
    ASSUME IInv, UNCHANGED vars
    PROVE  IInv'
<1>1. MachineStep
  BY MachineUnchanged DEF vars
<1>2. Types'
  BY DEF vars, machine, sizes, cleaning, watching, IInv, Types
<1>3. \A u \in Terminals : Undisturbed(u)
  BY DEF vars, Undisturbed, sizes, cleaning, watching
<1> QED BY <1>1, <1>2, <1>3, OneTerminal

LEMMA NextIInv == IInv /\ [Next]_vars => IInv'
<1> SUFFICES ASSUME IInv, [Next]_vars PROVE IInv'
  OBVIOUS
<1>1. ASSUME NEW t \in Terminals, NEW c \in Commands, NEW fetched \in BOOLEAN,
             Serve(t, c, fetched)
      PROVE  IInv'
  BY <1>1, ServeKeeps
<1>2. ASSUME NEW t \in Terminals, Working(t) PROVE IInv'
  BY <1>2, ScanKeeps, TerminateKeeps, HardKillKeeps, TakeBaselineKeeps, LaunchKeeps DEF Working
<1>3. ASSUME NEW t \in Terminals, End(t) PROVE IInv'
  BY <1>3, MachineUnchanged, RestKeeps DEF End
<1>4. ASSUME NEW t \in Terminals, Interrupt(t) PROVE IInv'
  BY <1>4, InterruptStep, RestKeeps DEF Interrupt
<1>5. ASSUME NEW t \in Terminals, Hangup(t) PROVE IInv'
  BY <1>5, HangupStep, RestKeeps DEF Hangup
<1>6. ASSUME NEW t \in Terminals, Watch(t) PROVE IInv'
  BY <1>6, SkipKeeps, LookKeeps DEF Watch
<1>7. ASSUME NEW s \in Servers, Announce(s) \/ Close(s) \/ Die(s) \/ Expire(s) PROVE IInv'
  BY <1>7, ServerStepKeeps
<1> QED BY <1>1, <1>2, <1>3, <1>4, <1>5, <1>6, <1>7, StutterKeeps DEF Next

\* The invariant: what each terminal remembers of the machine stays true of it.
THEOREM Inductive == Spec => []IInv
BY InitIInv, NextIInv, PTL DEF Spec

-----------------------------------------------------------------------------
(* What a command asks for, and what its server holds. *)

Values ==
    /\ model \in [Servers -> DOMAIN Config \cup {NoName}]
    /\ load \in [Servers -> Nat]
    /\ command \in [Terminals -> {NoCommand} \cup Commands]
    /\ room \in [Terminals -> Nat]
    /\ blocks \in [Terminals -> Nat]
    /\ left \in [Terminals -> 0..Checks]
    /\ shown \in [Terminals -> BOOLEAN]

Need(t) == PerBlock(Config[Id(t)], command[t].quant, Budget(command[t]))

\* The blocks that were planned fit the room that was measured, if each is as
\* large as the largest; and the server that was launched holds no more than that.
Sizes(t) ==
    /\ phase[t] # "idle" => command[t] \in Commands
    /\ phase[t] \in {"idle", "serving"} => blocks[t] = 0
    /\ phase[t] \notin {"idle", "serving"} =>
          /\ blocks[t] <= Config[Id(t)].layers
          /\ room[t] > 0 => blocks[t] > 0 /\ blocks[t] * Need(t) <= room[t]
    /\ phase[t] = "serving" =>
          /\ mine[t] \in Servers /\ at[mine[t]] # "unused"
          /\ room[t] > 0 /\ Budget(command[t]) # 0 => load[mine[t]] <= room[t]

SInv == Values /\ \A t \in Terminals : Sizes(t)

LEMMA CommandIs ==
    ASSUME NEW c \in Commands
    PROVE  LET conf == Config[Choice(c.name).id]
           IN /\ Choice(c.name).id \in DOMAIN Config /\ Configuration(conf)
              /\ conf.layers \in Nat \ {0} /\ Thousandths[c.quant] \in Nat
              /\ Budget(c) \in Nat \cup {NoTokens}
              /\ PerBlock(conf, c.quant, Budget(c)) \in Nat \ {0}
              /\ c.count \in -1..conf.layers /\ c.range \subseteq 0..conf.layers - 1
<1> DEFINE conf == Config[Choice(c.name).id]
<1>1. /\ Choice(c.name).id \in DOMAIN Config /\ Thousandths[c.quant] \in Nat
      /\ Budget(c) \in Nat \cup {NoTokens} /\ PerBlock(conf, c.quant, Budget(c)) > 0
      /\ c.count \in -1..conf.layers /\ c.range \subseteq 0..conf.layers - 1
  BY CommandsAssumption
<1>2. Configuration(conf)
  BY <1>1, ConfigAssumption
<1>3. conf.layers \in Nat \ {0}
  BY <1>2 DEF Configuration
<1> HIDE DEF conf
<1>4. PerBlock(conf, c.quant, Budget(c)) \in Nat
  <2>1. 0 \in 0..conf.layers - 1
    BY <1>3
  <2> QED BY <1>1, <1>2, <2>1, NoLayerIsLarger
<1> QED BY <1>1, <1>2, <1>3, <1>4 DEF conf

LEMMA FreeType == Values => Free \in Nat
<1> SUFFICES ASSUME Values PROVE Free \in Nat
  OBVIOUS
<1>1. IsFiniteSet(Servers)
  BY FS_Interval, BoundsAssumption DEF Servers
<1>2. SumFunction(load) \in Nat
  BY <1>1, SumBounds DEF Values
<1>3. 0 \in Int /\ Total - SumFunction(load) \in Int
  BY <1>2, BoundsAssumption
<1>4. Largest({0, Total - SumFunction(load)}) \in {0, Total - SumFunction(load)}
      /\ 0 <= Largest({0, Total - SumFunction(load)})
  BY <1>3, Larger
<1> QED BY <1>3, <1>4 DEF Free

LEMMA UsableType ==
    ASSUME NEW free \in Nat
    PROVE  Usable(Total, free) \in Nat
<1> DEFINE share == (Total * ReservePercent) \div 100
           reserve == Largest({MinReserve, share})
<1>1. MinReserve \in Int /\ share \in Int
  BY ReserveAssumption, BoundsAssumption
<1> HIDE DEF share
<1>2. reserve \in Int
  BY <1>1, Larger
<1> HIDE DEF reserve
<1>3. 0 \in Int /\ free - reserve \in Int
  BY <1>2
<1>4. Largest({0, free - reserve}) \in {0, free - reserve} /\ 0 <= Largest({0, free - reserve})
  BY <1>3, Larger
<1> QED BY <1>3, <1>4 DEF Usable, reserve, share

LEMMA Quotient ==
    ASSUME NEW u \in Nat, NEW p \in Nat \ {0}
    PROVE  u \div p \in Nat /\ (u \div p) * p <= u
  OBVIOUS

LEMMA PlanFits ==
    ASSUME NEW c \in Commands, NEW free \in Nat
    PROVE  LET conf == Config[Choice(c.name).id]
               plan == PlanBlocks(conf, Total, free, c.quant, Budget(c))
           IN /\ plan \in Nat /\ plan <= conf.layers
              /\ plan * PerBlock(conf, c.quant, Budget(c)) <= Usable(Total, free)
<1> DEFINE conf == Config[Choice(c.name).id]
           need == PerBlock(conf, c.quant, Budget(c))
           u == Usable(Total, free)
           plan == PlanBlocks(conf, Total, free, c.quant, Budget(c))
<1>1. conf.layers \in Nat /\ need \in Nat \ {0} /\ u \in Nat
  BY CommandIs, UsableType
<1>2. plan = Min({conf.layers, u \div need})
  BY DEF PlanBlocks
<1> HIDE DEF conf, need, u, plan
<1>3. u \div need \in Nat /\ (u \div need) * need <= u
  BY <1>1, Quotient
<1>4. plan \in Nat /\ plan <= conf.layers /\ plan <= u \div need
  <2>1. conf.layers \in Int /\ u \div need \in Int
    BY <1>1, <1>3
  <2>2. plan \in {conf.layers, u \div need} /\ conf.layers >= plan /\ u \div need >= plan
    BY <1>2, <2>1, Smaller
  <2> QED BY <1>1, <1>3, <2>2
<1>5. plan * need <= (u \div need) * need
  BY <1>1, <1>3, <1>4
<1>6. plan * need \in Nat /\ (u \div need) * need \in Nat
  BY <1>1, <1>3, <1>4
<1> QED BY <1>1, <1>3, <1>4, <1>5, <1>6 DEF conf, need, u, plan

\* Wherever Petals puts the server, it holds no more than the blocks were taken for.
LEMMA LaunchFits ==
    ASSUME SInv, NEW t \in Terminals, phase[t] = "launch", NEW R \in Ranges(t)
    PROVE  LET c == command[t]
               held == Load(Config[Id(t)], R, c.quant, ServerTokens(Budget(c)))
           IN held \in Nat /\ (room[t] > 0 /\ Budget(c) # 0 => held <= room[t])
<1> DEFINE c == command[t]
           conf == Config[Id(t)]
           held == Load(conf, R, c.quant, ServerTokens(Budget(c)))
<1>1. /\ c \in Commands /\ blocks[t] \in Nat /\ room[t] \in Nat /\ blocks[t] <= conf.layers
      /\ room[t] > 0 => blocks[t] > 0 /\ blocks[t] * Need(t) <= room[t]
  BY DEF SInv, Values, Sizes
<1>2. /\ Configuration(conf) /\ conf.layers \in Nat \ {0} /\ Thousandths[c.quant] \in Nat
      /\ Budget(c) \in Nat \cup {NoTokens}
      /\ c.range \subseteq 0..conf.layers - 1
      /\ Need(t) \in Nat /\ Need(t) = PerBlock(conf, c.quant, Budget(c))
  BY <1>1, CommandIs DEF Id, Need
<1>3. ServerTokens(Budget(c)) \in Nat \cup {NoTokens}
  BY <1>2 DEF ServerTokens
<1> HIDE DEF c, conf
<1>4. /\ R \subseteq 0..conf.layers - 1
      /\ blocks[t] > 0 => Cardinality(R) = blocks[t]
  <2>1. CASE blocks[t] = 0
    <3>1. R = c.range
      BY <2>1 DEF Ranges, c
    <3> QED BY <1>2, <2>1, <3>1
  <2>2. CASE blocks[t] # 0
    <3>1. PICK a \in 0..conf.layers - blocks[t] : R = a..(a + blocks[t] - 1)
      BY <2>2 DEF Ranges, conf
    <3>2. a \in Int /\ a + blocks[t] - 1 \in Int /\ ~ (a > a + blocks[t] - 1)
      BY <1>1, <1>2, <2>2, <3>1
    <3>3. Cardinality(R) = (a + blocks[t] - 1) - a + 1
      BY <3>1, <3>2, FS_Interval
    <3>4. (a + blocks[t] - 1) - a + 1 = blocks[t]
      BY <1>1, <3>2
    <3>5. R \subseteq 0..conf.layers - 1
      BY <1>1, <1>2, <3>1
    <3> QED BY <3>3, <3>4, <3>5
  <2> QED BY <2>1, <2>2
<1>5. held \in Nat /\ held <= Cardinality(R) * PerBlock(conf, c.quant, ServerTokens(Budget(c)))
  BY <1>2, <1>3, <1>4, LoadBound
<1>6. ASSUME room[t] > 0, Budget(c) # 0 PROVE held <= room[t]
  <2>1. ServerTokens(Budget(c)) = Budget(c)
    BY <1>6 DEF ServerTokens
  <2>2. held <= blocks[t] * Need(t) /\ blocks[t] * Need(t) <= room[t]
    BY <1>1, <1>2, <1>4, <1>5, <1>6, <2>1
  <2>3. blocks[t] * Need(t) \in Nat
    BY <1>1, <1>2
  <2> QED BY <1>1, <1>5, <2>2, <2>3
<1> QED BY <1>5, <1>6 DEF c, conf

\* Memory that is held is only ever given back.
LoadStep ==
    /\ load' \in [Servers -> Nat]
    /\ \A s \in Servers : at[s] # "unused" => load'[s] <= load[s]

LEMMA VanishLoad ==
    ASSUME SInv, NEW S, Vanish(S)
    PROVE  LoadStep
  BY DEF SInv, Values, Vanish, LoadStep

LEMMA SameLoad ==
    ASSUME SInv, load' = load
    PROVE  LoadStep
  BY DEF SInv, Values, LoadStep

Asking(u) ==
    /\ phase'[u] = phase[u] /\ command'[u] = command[u] /\ mine'[u] = mine[u]
    /\ room'[u] = room[u] /\ blocks'[u] = blocks[u]

LEMMA SizesLast ==
    ASSUME SInv, MachineStep, LoadStep, NEW u \in Terminals, Asking(u)
    PROVE  Sizes(u)'
<1>1. Sizes(u) /\ room[u] \in Nat
  BY DEF SInv, Values
<1>2. Id(u)' = Id(u) /\ Need(u)' = Need(u)
  BY DEF Id, Need, Asking
<1>3. ASSUME phase[u] = "serving"
      PROVE  /\ mine'[u] \in Servers /\ at'[mine'[u]] # "unused"
             /\ room'[u] > 0 /\ Budget(command'[u]) # 0 => load'[mine'[u]] <= room'[u]
  <2>1. /\ mine[u] \in Servers /\ at[mine[u]] # "unused"
        /\ room[u] > 0 /\ Budget(command[u]) # 0 => load[mine[u]] <= room[u]
    BY <1>1, <1>3 DEF Sizes
  <2>2. load'[mine[u]] <= load[mine[u]] /\ at'[mine[u]] # "unused"
    BY <2>1 DEF LoadStep, MachineStep
  <2>3. load'[mine[u]] \in Nat /\ load[mine[u]] \in Nat
    BY <2>1 DEF LoadStep, SInv, Values
  <2> QED BY <1>1, <2>1, <2>2, <2>3 DEF Asking
<1> QED BY <1>1, <1>2, <1>3 DEF Sizes, Asking

LEMMA SizesElsewhere ==
    ASSUME SInv, MachineStep, LoadStep, Values',
           \A u \in Terminals : Asking(u) \/ Sizes(u)'
    PROVE  SInv'
<1>1. \A u \in Terminals : Sizes(u)'
  BY SizesLast
<1> QED BY <1>1 DEF SInv

LEMMA SameSizes ==
    ASSUME SInv, MachineStep, LoadStep, Values', UNCHANGED <<phase, sizes, mine>>
    PROVE  SInv'
<1>1. \A u \in Terminals : Asking(u)
  BY DEF Asking, sizes
<1> QED BY <1>1, SizesElsewhere

LEMMA InitSizes == Init => SInv
<1> SUFFICES ASSUME Init PROVE SInv
  OBVIOUS
<1>1. Values
  BY BoundsAssumption DEF Init, Values
<1>2. ASSUME NEW t \in Terminals PROVE Sizes(t)
  BY DEF Init, Sizes
<1> QED BY <1>1, <1>2 DEF SInv

LEMMA ServeSizes ==
    ASSUME IInv, SInv, MachineStep,
           NEW t \in Terminals, NEW c \in Commands, NEW fetched \in BOOLEAN,
           Serve(t, c, fetched)
    PROVE  SInv'
<1> DEFINE conf == Config[Choice(c.name).id]
           auto == c.count = -1 /\ c.range = {}
           plan == PlanBlocks(conf, Total, Free, c.quant, Budget(c))
           need == PerBlock(conf, c.quant, Budget(c))
           number == IF auto THEN Largest({1, plan}) ELSE IF c.range = {} THEN c.count ELSE 0
           space == IF auto /\ plan > 0 THEN Usable(Total, Free) ELSE 0
<1>1. /\ command' = [command EXCEPT ![t] = c] /\ blocks' = [blocks EXCEPT ![t] = number]
      /\ room' = [room EXCEPT ![t] = space] /\ phase' = [phase EXCEPT ![t] = "scan"]
      /\ UNCHANGED <<machine, records, cleaning, mine, watching>> /\ c.count # 0
  BY DEF Serve, Refused
<1>2. /\ conf.layers \in Nat \ {0} /\ c.count \in -1..conf.layers /\ need \in Nat \ {0}
  BY CommandIs
<1>3. Free \in Nat
  BY FreeType DEF SInv
<1>4. /\ plan \in Nat /\ plan <= conf.layers /\ plan * need <= Usable(Total, Free)
      /\ Usable(Total, Free) \in Nat
  BY <1>3, PlanFits, UsableType
<1> HIDE DEF plan, need
<1>5. /\ number \in Nat /\ number <= conf.layers /\ space \in Nat
      /\ space > 0 => number > 0 /\ number * need <= space
  <2>1. CASE auto
    <3>1. Largest({1, plan}) \in {1, plan} /\ 1 <= Largest({1, plan}) /\ plan <= Largest({1, plan})
      <4>1. 1 \in Int /\ plan \in Int
        BY <1>4
      <4> QED BY <4>1, Larger
    <3>2. CASE plan > 0
      <4>1. Largest({1, plan}) = plan
        BY <1>4, <3>1, <3>2
      <4> QED BY <1>4, <2>1, <3>2, <4>1
    <3>3. CASE ~ (plan > 0)
      <4>1. Largest({1, plan}) = 1 /\ space = 0
        BY <1>4, <3>1, <3>3
      <4>2. number = 1
        BY <2>1, <4>1
      <4> QED BY <1>2, <4>1, <4>2
    <3> QED BY <3>2, <3>3
  <2>2. CASE ~auto
    <3>1. space = 0 /\ number = IF c.range = {} THEN c.count ELSE 0
      BY <2>2
    <3>2. c.range = {} => c.count # -1
      BY <2>2
    <3> HIDE DEF space, number
    <3> QED BY <1>2, <3>1, <3>2
  <2> QED BY <2>1, <2>2
<1> HIDE DEF number, space, auto
<1>6. Values'
  BY <1>1, <1>5 DEF SInv, Values, machine, watching
<1>7. ASSUME NEW u \in Terminals, u # t PROVE Asking(u)
  BY <1>1, <1>7 DEF SInv, Values, IInv, Types, Asking
<1>8. Sizes(t)'
  <2>1. /\ phase'[t] = "scan" /\ command'[t] = c /\ blocks'[t] = number /\ room'[t] = space
    BY <1>1 DEF SInv, Values, IInv, Types
  <2>2. Config[Id(t)'] = conf /\ Need(t)' = need
    BY <2>1 DEF Id, Need, need
  <2> HIDE DEF conf
  <2>3. (Config[Id(t)].layers)' = conf.layers
    BY <2>2
  <2> QED BY <1>5, <2>1, <2>2, <2>3 DEF Sizes
<1>9. LoadStep
  BY <1>1, SameLoad DEF machine
<1> QED BY <1>6, <1>7, <1>8, <1>9, SizesElsewhere

\* The phases between the plan and the launch.
LEMMA PhaseSizes ==
    ASSUME IInv, SInv, MachineStep, LoadStep, Values', NEW t \in Terminals,
           phase[t] \notin {"idle", "serving"},
           NEW p \in Phases \ {"idle", "serving"}, phase' = [phase EXCEPT ![t] = p],
           UNCHANGED <<sizes, mine>>
    PROVE  SInv'
<1>1. ASSUME NEW u \in Terminals, u # t PROVE Asking(u)
  BY <1>1 DEF Asking, sizes, IInv, Types
<1>2. Sizes(t)'
  <2>1. phase'[t] = p
    BY DEF IInv, Types
  <2>2. Id(t)' = Id(t) /\ Need(t)' = Need(t)
    BY DEF Id, Need, sizes
  <2>3. Sizes(t)
    BY DEF SInv
  <2> QED BY <2>1, <2>2, <2>3 DEF Sizes, sizes
<1> QED BY <1>1, <1>2, SizesElsewhere

LEMMA LaunchSizes ==
    ASSUME IInv, SInv, MachineStep, NEW t \in Terminals, Launch(t)
    PROVE  SInv'
<1> DEFINE c == command[t]
<1>1. /\ phase[t] = "launch" /\ phase' = [phase EXCEPT ![t] = "serving"]
      /\ left' = [left EXCEPT ![t] = IF c.watch THEN Checks ELSE 0]
      /\ blocks' = [blocks EXCEPT ![t] = 0]
      /\ UNCHANGED <<records, command, room, baseline, verdict, found, present, missed, shown>>
  BY DEF Launch
<1>2. PICK s \in Servers, R \in Ranges(t) :
         /\ at[s] = "unused" /\ mine' = [mine EXCEPT ![t] = s]
         /\ at' = [at EXCEPT ![s] = "up"] /\ model' = [model EXCEPT ![s] = Id(t)]
         /\ load' = [load EXCEPT ![s] = Load(Config[Id(t)], R, c.quant, ServerTokens(Budget(c)))]
  BY DEF Launch, Starts, Unused
<1> DEFINE held == Load(Config[Id(t)], R, c.quant, ServerTokens(Budget(c)))
<1>3. held \in Nat /\ (room[t] > 0 /\ Budget(c) # 0 => held <= room[t])
  BY <1>1, LaunchFits
<1>4. c \in Commands /\ Id(t) \in DOMAIN Config
  <2>1. c \in Commands
    BY <1>1 DEF SInv, Sizes
  <2> QED BY <2>1, CommandIs DEF Id
<1> HIDE DEF held
<1>5. LoadStep
  BY <1>2, <1>3 DEF LoadStep, SInv, Values, held
<1>6. Values'
  <2>1. model' \in [Servers -> DOMAIN Config \cup {NoName}]
    BY <1>2, <1>4 DEF SInv, Values
  <2>2. left' \in [Terminals -> 0..Checks]
    BY <1>1, BoundsAssumption DEF SInv, Values
  <2>3. load' \in [Servers -> Nat]
    BY <1>5 DEF LoadStep
  <2> QED BY <1>1, <2>1, <2>2, <2>3 DEF SInv, Values
<1>7. ASSUME NEW u \in Terminals, u # t PROVE Asking(u)
  BY <1>1, <1>2, <1>7 DEF Asking, SInv, Values, IInv, Types
<1>8. Sizes(t)'
  <2>1. /\ phase'[t] = "serving" /\ mine'[t] = s /\ blocks'[t] = 0 /\ load'[s] = held
        /\ at'[s] = "up" /\ command'[t] = c /\ room'[t] = room[t]
    BY <1>1, <1>2 DEF SInv, Values, IInv, Types, held
  <2> HIDE DEF c
  <2> QED BY <1>3, <1>4, <2>1 DEF Sizes
<1> QED BY <1>5, <1>6, <1>7, <1>8, SizesElsewhere

LEMMA RestSizes ==
    ASSUME IInv, SInv, MachineStep, LoadStep, NEW t \in Terminals, Rest(t), UNCHANGED model
    PROVE  SInv'
<1>1. Values'
  BY BoundsAssumption DEF SInv, Values, Rest, LoadStep
<1>2. ASSUME NEW u \in Terminals, u # t PROVE Asking(u)
  BY <1>2 DEF Rest, Asking, SInv, Values, IInv, Types
<1>3. Sizes(t)'
  BY DEF Rest, Sizes, SInv, Values, IInv, Types
<1> QED BY <1>1, <1>2, <1>3, SizesElsewhere

LEMMA WatchSizes ==
    ASSUME IInv, SInv, MachineStep, NEW t \in Terminals, Watch(t)
    PROVE  SInv'
<1>1. UNCHANGED <<machine, phase, sizes, mine>>
  BY DEF Watch, Skip, Look
<1>2. LoadStep
  BY <1>1, SameLoad DEF machine
<1>3. Values'
  <2>1. CASE Skip(t)
    BY <1>1, <2>1, BoundsAssumption DEF Skip, SInv, Values, machine, sizes
  <2>2. ASSUME NEW seen \in Read(Id(t)), left[t] > 0, Look(t, seen) PROVE Values'
    <3> DEFINE new == NewArrivals(baseline[t], seen)
    <3>1. /\ shown' = [shown EXCEPT ![t] = @ \/ (seen # NoBaseline /\ mine[t] \in seen)]
          /\ left' = [left EXCEPT ![t] = IF new # {} THEN 0 ELSE left[t] - 1]
      BY <2>2 DEF Look
    <3>2. (IF new # {} THEN 0 ELSE left[t] - 1) \in 0..Checks
      BY <2>2, BoundsAssumption DEF SInv, Values
    <3>3. left' \in [Terminals -> 0..Checks]
      BY <3>1, <3>2 DEF SInv, Values
    <3>4. shown' \in [Terminals -> BOOLEAN]
      BY <3>1 DEF SInv, Values
    <3> QED BY <1>1, <3>3, <3>4 DEF SInv, Values, machine, sizes
  <2> QED BY <2>1, <2>2 DEF Watch
<1> QED BY <1>1, <1>2, <1>3, SameSizes

LEMMA ServerSizes ==
    ASSUME SInv, MachineStep, NEW s \in Servers, Announce(s) \/ Close(s) \/ Die(s) \/ Expire(s)
    PROVE  SInv'
<1>1. UNCHANGED <<model, phase, sizes, mine, watching>>
  BY DEF Announce, Close, Die, Expire, machine
<1>2. LoadStep
  BY VanishLoad, SameLoad DEF Announce, Close, Die, Expire, machine
<1>3. Values'
  BY <1>1, <1>2 DEF SInv, Values, LoadStep, sizes, watching
<1> QED BY <1>1, <1>2, <1>3, SameSizes

LEMMA NextSizes == IInv /\ SInv /\ [Next]_vars => SInv'
<1> SUFFICES ASSUME IInv, SInv, [Next]_vars PROVE SInv'
  OBVIOUS
<1>0. MachineStep
  BY NextStep
<1>1. ASSUME NEW t \in Terminals, NEW c \in Commands, NEW fetched \in BOOLEAN,
             Serve(t, c, fetched)
      PROVE  SInv'
  BY <1>0, <1>1, ServeSizes
<1>2. ASSUME NEW t \in Terminals, Scan(t) \/ Terminate(t) \/ HardKill(t) \/ TakeBaseline(t)
      PROVE  SInv'
  <2>1. LoadStep
    BY <1>2, SameLoad, VanishLoad DEF Scan, Terminate, HardKill, TakeBaseline, machine
  <2>2. UNCHANGED <<model, sizes, mine, left, shown>>
    BY <1>2 DEF Scan, Terminate, HardKill, TakeBaseline, machine, watching
  <2>3. Values'
    BY <2>1, <2>2 DEF SInv, Values, LoadStep, sizes
  <2>4. PICK p \in Phases \ {"idle", "serving"} : phase' = [phase EXCEPT ![t] = p]
    <3>1. CASE Scan(t)
      BY <3>1 DEF Scan, Phases
    <3>2. CASE Terminate(t)
      BY <3>2 DEF Terminate, Phases
    <3>3. CASE HardKill(t) \/ TakeBaseline(t)
      BY <3>3 DEF HardKill, TakeBaseline, Phases
    <3> QED BY <1>2, <3>1, <3>2, <3>3
  <2>5. phase[t] \notin {"idle", "serving"}
    BY <1>2 DEF Scan, Terminate, HardKill, TakeBaseline
  <2> QED BY <1>0, <2>1, <2>2, <2>3, <2>4, <2>5, PhaseSizes
<1>3. ASSUME NEW t \in Terminals, Launch(t) PROVE SInv'
  BY <1>0, <1>3, LaunchSizes
<1>4. ASSUME NEW t \in Terminals, End(t) \/ Interrupt(t) \/ Hangup(t) PROVE SInv'
  <2>1. LoadStep
    BY <1>4, SameLoad, VanishLoad DEF End, Interrupt, Hangup, machine
  <2>2. Rest(t) /\ UNCHANGED model
    BY <1>4 DEF End, Interrupt, Hangup, machine
  <2> QED BY <1>0, <2>1, <2>2, RestSizes
<1>5. ASSUME NEW t \in Terminals, Watch(t) PROVE SInv'
  BY <1>0, <1>5, WatchSizes
<1>6. ASSUME NEW s \in Servers, Announce(s) \/ Close(s) \/ Die(s) \/ Expire(s) PROVE SInv'
  BY <1>0, <1>6, ServerSizes
<1>7. CASE UNCHANGED vars
  <2>1. LoadStep
    BY <1>7, SameLoad DEF vars, machine
  <2>2. Values'
    BY <1>7 DEF vars, machine, sizes, watching, SInv, Values
  <2>3. UNCHANGED <<phase, sizes, mine>>
    BY <1>7 DEF vars
  <2> QED BY <1>0, <2>1, <2>2, <2>3, SameSizes
<1> QED BY <1>1, <1>2, <1>3, <1>4, <1>5, <1>6, <1>7 DEF Next, Working

LEMMA Sized == Spec => [](IInv /\ SInv)
<1>1. IInv /\ SInv /\ [Next]_vars => (IInv /\ SInv)'
  BY NextIInv, NextSizes
<1> QED BY InitIInv, InitSizes, <1>1, PTL DEF Spec


-----------------------------------------------------------------------------
\* When a server is launched, nothing its command set out to clear still runs:
\* the scan, the SIGTERM, the grace period and the SIGKILL of _cmd_serve and
\* stale.terminate, while the other terminals do what they like.
THEOREM LeftoversAreStopped == Spec => []LeftoversStopped
<1>1. IInv => LeftoversStopped
  BY DEF IInv, Cleaning, LeftoversStopped
<1> QED BY <1>1, Inductive, PTL

\* "VISIBLE" names a peer that was there before the launch only where the read of
\* the baseline answered without it, and "NOT VISIBLE" is never said of a server
\* that a check has seen, for any number of servers, checks and partial reads
\* (visibility.watch).
THEOREM VerdictsAreRight == Spec => []VerdictIsRight
<1>1. IInv => VerdictIsRight
  BY DEF IInv, Watching, VerdictIsRight
<1> QED BY <1>1, Inductive, PTL

\* Every variable keeps its type; in particular no command asks for more layers than
\* its model has, and what the servers hold stays a number to subtract from the GPU's
\* (hardware.probe_gpus).
THEOREM TypesHold == Spec => []TypeOK
<1>1. IInv /\ SInv => TypeOK
  <2> SUFFICES ASSUME IInv, SInv PROVE TypeOK
    OBVIOUS
  <2> DEFINE Deep == {Config[m].layers : m \in DOMAIN Config}
  <2>1. IsFiniteSet(Deep) /\ Deep \in SUBSET Nat
    <3> DEFINE f == [m \in DOMAIN Config |-> Config[m].layers]
    <3>1. f \in [DOMAIN Config -> Nat]
      BY ConfigAssumption DEF Configuration
    <3>2. Deep = {f[m] : m \in DOMAIN Config}
      OBVIOUS
    <3> HIDE DEF f, Deep
    <3>3. IsFiniteSet(Deep)
      BY <3>1, <3>2, ConfigAssumption, FiniteImage
    <3> QED BY <3>1, <3>2, <3>3
  <2>2. ASSUME NEW t \in Terminals PROVE blocks[t] \in 0..Largest(Deep)
    <3>1. CASE phase[t] \notin {"idle", "serving"}
      <4>1. blocks[t] <= Config[Id(t)].layers /\ command[t] \in Commands /\ blocks[t] \in Nat
        BY <3>1 DEF SInv, Values, Sizes
      <4>2. Config[Id(t)].layers \in Deep
        BY <4>1, CommandIs DEF Id
      <4> HIDE DEF Deep
      <4>3. Config[Id(t)].layers <= Largest(Deep) /\ Largest(Deep) \in Deep
        <5>1. Deep \in SUBSET Int /\ Deep # {}
          BY <2>1, <4>2
        <5> QED BY <2>1, <4>2, <5>1, Greatest
      <4>4. Config[Id(t)].layers \in Nat /\ Largest(Deep) \in Nat
        BY <2>1, <4>2, <4>3
      <4> QED BY <4>1, <4>3, <4>4
    <3>2. CASE phase[t] \in {"idle", "serving"}
      <4>1. blocks[t] = 0
        BY <3>2 DEF SInv, Sizes
      <4>2. Deep \in SUBSET Int /\ Deep # {}
        BY <2>1, ConfigAssumption
      <4> HIDE DEF Deep
      <4>3. Largest(Deep) \in Deep
        BY <2>1, <4>2, Greatest
      <4>4. Largest(Deep) \in Nat
        BY <2>1, <4>3
      <4> QED BY <4>1, <4>4
    <3> QED BY <3>1, <3>2
  <2>3. blocks \in [Terminals -> 0..Largest(Deep)]
    BY <2>2 DEF SInv, Values
  <2>4. mine \in [Terminals -> 0..MaxServers]
    BY BoundsAssumption DEF IInv, Types, Servers
  <2> QED BY <2>3, <2>4 DEF IInv, Types, SInv, Values, TypeOK
<1> QED BY <1>1, Sized, PTL

\* A server that was sized automatically never holds more than the memory it was
\* sized for, wherever the swarm puts it and whatever starts or ends beside it
\* (_cmd_serve, hardware.plan_blocks), unless its budget is zero tokens: the plan
\* then counts no attention cache, and the server keeps its default one.
THEOREM PlansHold ==
    ASSUME \A c \in Commands : Budget(c) # 0
    PROVE  Spec => []PlanHolds
<1>1. IInv /\ SInv => PlanHolds
  BY DEF SInv, Sizes, PlanHolds
<1> QED BY <1>1, Sized, PTL


\* Only SIGTERM makes a running server close.
LEMMA ClosingComesFromTerminate ==
    ASSUME IInv, Next, NEW s \in Servers, at[s] = "up", at'[s] = "closing"
    PROVE  \E t \in Terminals : Terminate(t)
<1> SUFFICES ASSUME ~ \E t \in Terminals : Terminate(t) PROVE FALSE
  OBVIOUS
<1>1. at'[s] # at[s] /\ at' # at
  OBVIOUS
<1>2. ASSUME NEW t \in Terminals, NEW c \in Commands, NEW fetched \in BOOLEAN,
             Serve(t, c, fetched)
      PROVE  FALSE
  BY <1>1, <1>2 DEF Serve, machine
<1>3. ASSUME NEW S, Vanish(S) PROVE FALSE
  BY <1>3 DEF Vanish
<1>4. ASSUME NEW t \in Terminals, Launch(t) PROVE FALSE
  BY <1>4 DEF Launch, Starts, Unused, IInv, Types
<1>5. ASSUME NEW t \in Terminals, Working(t) PROVE FALSE
  BY <1>1, <1>3, <1>4, <1>5 DEF Working, Scan, HardKill, TakeBaseline, machine
<1>6. ASSUME NEW t \in Terminals, End(t) \/ Interrupt(t) \/ Hangup(t) PROVE FALSE
  BY <1>1, <1>3, <1>6 DEF End, Interrupt, Hangup, machine
<1>7. ASSUME NEW t \in Terminals, Watch(t) PROVE FALSE
  BY <1>1, <1>7 DEF Watch, Skip, Look, machine
<1>8. ASSUME NEW r \in Servers, Announce(r) \/ Close(r) \/ Die(r) \/ Expire(r) PROVE FALSE
  BY <1>1, <1>3, <1>8 DEF Announce, Close, Die, Expire, machine
<1> QED BY <1>2, <1>5, <1>6, <1>7, <1>8 DEF Next

\* No command without --replace ends a server whose parent lives, if no model's
\* name occurs in that of another (stale.stale_for, stale.others_for): a process
\* that was an orphan at the scan is one when it gets its SIGTERM.
THEOREM LiveSafe ==
    ASSUME \A pair \in Mentions : pair[1] = pair[2]
    PROVE  Spec => LiveLeftAlone
<1>1. IInv /\ [Next]_vars =>
        [\A s \in Servers :
           at[s] = "up" /\ owner[s] \in Terminals /\ at'[s] = "closing"
             => \E t \in Terminals : /\ phase[t] = "signal" /\ command[t].replace
                                     /\ Id(t) = model[s]]_vars
  <2> SUFFICES ASSUME IInv, Next, NEW s \in Servers,
                      at[s] = "up", owner[s] \in Terminals, at'[s] = "closing"
               PROVE  \E t \in Terminals : /\ phase[t] = "signal" /\ command[t].replace
                                           /\ Id(t) = model[s]
    OBVIOUS
  <2>1. PICK t \in Terminals : Terminate(t)
    BY ClosingComesFromTerminate
  <2>2. s \in leftovers[t] /\ phase[t] = "signal"
    BY <2>1 DEF Terminate
  <2>3. /\ <<Id(t), model[s]>> \in Mentions
        /\ command[t].replace \/ owner[s] \notin Terminals
    BY <2>2 DEF IInv, Cleaning
  <2>4. <<Id(t), model[s]>>[1] = <<Id(t), model[s]>>[2]
    BY <2>3
  <2> QED BY <2>2, <2>3, <2>4
<1> QED BY <1>1, Inductive, PTL DEF Spec, LiveLeftAlone

=============================================================================
