---------------------------- MODULE FiniteSums ----------------------------
(***************************************************************************)
(* What the proofs need to know of SumFunctionOnSet, the sum of the values *)
(* a function has on a finite set: how aggregates, rate windows and sums   *)
(* over invoices grow when one row is written, and how they are split.     *)
(***************************************************************************)
EXTENDS Functions, FiniteSetTheorems, TLAPS

\* A set that every subset enters once its own strict subsets are in it holds them
\* all: induction on finite sets, in terms of a set.
LEMMA SubsetInduction ==
  ASSUME NEW S, IsFiniteSet(S), NEW Good,
         \A T \in SUBSET S : (\A U \in SUBSET T : U # T => U \in Good) => T \in Good
  PROVE  \A T \in SUBSET S : T \in Good
<1> DEFINE Bad == (SUBSET S) \ Good
<1>1. SUFFICES ASSUME Bad # {} PROVE FALSE
  OBVIOUS
<1>2. IsWellFoundedOn(StrictSubsetOrdering(S), SUBSET S)
  BY FS_StrictSubsetOrderingWellFounded, FS_FiniteSubsetsOfFinite
<1>3. PICK T \in Bad : \A U \in Bad : ~(<<U, T>> \in StrictSubsetOrdering(S))
  <2>1. Bad \subseteq SUBSET S
    OBVIOUS
  <2> HIDE DEF Bad
  <2> QED
    BY <1>1, <1>2, <2>1, WFMin
<1>4. \A U \in SUBSET T : U # T => U \in Good
  BY <1>3 DEF StrictSubsetOrdering
<1> QED
  BY <1>3, <1>4

\* ... and, when it grows by single elements, that every element can be added.
LEMMA ElementInduction ==
  ASSUME NEW S, IsFiniteSet(S), NEW Good, {} \in Good,
         \A T \in SUBSET S : \A x \in S \ T : T \in Good => T \cup {x} \in Good
  PROVE  \A T \in SUBSET S : T \in Good
<1>1. ASSUME NEW T \in SUBSET S, \A U \in SUBSET T : U # T => U \in Good
      PROVE  T \in Good
  <2>1. CASE T = {}
    BY <2>1
  <2>2. CASE T # {}
    <3>1. PICK x \in T : TRUE
      BY <2>2
    <3>2. T \ {x} \in Good
      BY <1>1, <3>1
    <3>3. (T \ {x}) \cup {x} \in Good
      BY <3>1, <3>2
    <3>4. (T \ {x}) \cup {x} = T
      BY <3>1
    <3> QED
      BY <3>3, <3>4
  <2> QED
    BY <2>1, <2>2
<1> QED
  BY <1>1, SubsetInduction

-----------------------------------------------------------------------------
\* f has quantities as values on S.
Counts(f, S) == \A x \in S : f[x] \in Nat

\* g adds up the values of f on every subset of S.
Adds(g, f, S) ==
  /\ g \in [SUBSET S -> Nat]
  /\ g[{}] = 0
  /\ \A T \in SUBSET S : \A x \in S \ T : g[T \cup {x}] = g[T] + f[x]

\* There is such a sum.
LEMMA SumExists ==
  ASSUME NEW S, IsFiniteSet(S), NEW f, Counts(f, S)
  PROVE  \E g : Adds(g, f, S)
<1> DEFINE Good == {T \in SUBSET S : \E g : Adds(g, f, T)}
<1>1. {} \in Good
  <2>1. Adds([T \in SUBSET {} |-> 0], f, {})
    BY DEF Adds
  <2> QED
    BY <2>1
<1>2. ASSUME NEW T \in SUBSET S, NEW x \in S \ T, T \in Good PROVE T \cup {x} \in Good
  <2>1. PICK g : Adds(g, f, T)
    BY <1>2
  <2> DEFINE U == T \cup {x}
             h == [V \in SUBSET U |-> IF x \in V THEN g[V \ {x}] + f[x] ELSE g[V]]
  <2>2. f[x] \in Nat
    BY DEF Counts
  <2>3. \A V \in SUBSET U : V \ {x} \in SUBSET T /\ (x \notin V => V \in SUBSET T)
    OBVIOUS
  <2>4. h \in [SUBSET U -> Nat]
    BY <2>1, <2>2, <2>3 DEF Adds
  <2>5. h[{}] = 0
    BY <2>1 DEF Adds
  <2>6. ASSUME NEW V \in SUBSET U, NEW y \in U \ V PROVE h[V \cup {y}] = h[V] + f[y]
    <3>1. V \cup {y} \in SUBSET U
      OBVIOUS
    <3>2. CASE y = x
      <4>1. (V \cup {y}) \ {x} = V /\ x \notin V /\ x \in V \cup {y}
        BY <3>2
      <4> QED
        BY <3>1, <3>2, <4>1
    <3>3. CASE y # x /\ x \in V
      <4>1. /\ (V \cup {y}) \ {x} = (V \ {x}) \cup {y} /\ x \in V \cup {y}
            /\ V \ {x} \in SUBSET T /\ y \in T \ (V \ {x})
        BY <3>3
      <4>2. g[(V \ {x}) \cup {y}] = g[V \ {x}] + f[y]
        BY <2>1, <4>1 DEF Adds
      <4>3. g[V \ {x}] \in Nat /\ f[y] \in Nat
        BY <2>1, <4>1 DEF Adds, Counts
      <4>4. h[V \cup {y}] = (g[V \ {x}] + f[y]) + f[x]
        BY <3>1, <4>1, <4>2
      <4>5. h[V] = g[V \ {x}] + f[x]
        BY <3>3
      <4> HIDE DEF h
      <4> QED
        BY <2>2, <4>3, <4>4, <4>5
    <3>4. CASE y # x /\ x \notin V
      <4>1. x \notin V \cup {y} /\ V \in SUBSET T /\ y \in T \ V
        BY <3>4
      <4>2. g[V \cup {y}] = g[V] + f[y]
        BY <2>1, <4>1 DEF Adds
      <4> QED
        BY <3>1, <3>4, <4>1, <4>2
    <3> QED
      BY <3>2, <3>3, <3>4
  <2>7. Adds(h, f, U)
    <3> HIDE DEF h, U
    <3> QED
      BY <2>4, <2>5, <2>6 DEF Adds
  <2>8. U \in SUBSET S
    OBVIOUS
  <2> QED
    BY <2>7, <2>8
<1>3. \A T \in SUBSET S : T \in Good
  <2> HIDE DEF Good
  <2> QED
    BY <1>1, <1>2, ElementInduction
<1> QED
  BY <1>3

\* The fold takes the elements in an order of its own and finds the same sum.
LEMMA SumIsFold ==
  ASSUME NEW S, IsFiniteSet(S), NEW f, Counts(f, S), NEW g, Adds(g, f, S)
  PROVE  SumFunctionOnSet(f, S) = g[S]
<1> DEFINE Pick(s) == CHOOSE x \in s : TRUE
           Unfolds(h) == h = [s \in SUBSET S |-> IF s = {} THEN 0
                                ELSE f[Pick(s)] + h[s \ {Pick(s)}]]
           iter == CHOOSE h : Unfolds(h)
<1>1. ASSUME NEW s \in SUBSET S, s # {}
      PROVE  /\ Pick(s) \in s /\ s \ {Pick(s)} \in SUBSET S
             /\ g[s] = f[Pick(s)] + g[s \ {Pick(s)}]
  <2>1. Pick(s) \in s
    BY <1>1
  <2> HIDE DEF Pick
  <2>2. (s \ {Pick(s)}) \cup {Pick(s)} = s /\ Pick(s) \in S \ (s \ {Pick(s)})
    BY <2>1
  <2>3. g[s] = g[s \ {Pick(s)}] + f[Pick(s)]
    BY <2>2 DEF Adds
  <2>4. g[s \ {Pick(s)}] \in Nat /\ f[Pick(s)] \in Nat
    BY <2>1 DEF Adds, Counts
  <2> QED
    BY <2>1, <2>3, <2>4
<1>2. Unfolds(g)
  <2>1. g = [s \in SUBSET S |-> g[s]] /\ g[{}] = 0
    BY DEF Adds
  <2> HIDE DEF Pick
  <2> QED
    BY <1>1, <2>1
<1>3. Unfolds(iter)
  <2> HIDE DEF Unfolds
  <2> QED
    BY <1>2
<1>4. SumFunctionOnSet(f, S) = iter[S]
  BY DEF SumFunctionOnSet, FoldFunctionOnSet, MapThenFoldSet
<1> DEFINE Good == {T \in SUBSET S : iter[T] = g[T]}
<1>5. ASSUME NEW T \in SUBSET S, \A U \in SUBSET T : U # T => U \in Good
      PROVE  T \in Good
  <2> HIDE DEF iter
  <2>1. CASE T = {}
    BY <1>3, <2>1 DEF Adds
  <2>2. CASE T # {}
    <3>1. /\ Pick(T) \in T /\ T \ {Pick(T)} \in SUBSET S
          /\ g[T] = f[Pick(T)] + g[T \ {Pick(T)}]
      BY <1>1, <2>2
    <3>2. iter[T] = f[Pick(T)] + iter[T \ {Pick(T)}]
      <4> HIDE DEF Pick
      <4> QED
        BY <1>3, <2>2
    <3>3. T \ {Pick(T)} \in Good
      <4> HIDE DEF Pick, Good
      <4> QED
        BY <1>5, <3>1
    <3> QED
      BY <3>1, <3>2, <3>3
  <2> QED
    BY <2>1, <2>2
<1>6. S \in Good
  <2> HIDE DEF Good
  <2> QED
    BY <1>5, SubsetInduction
<1> QED
  BY <1>4, <1>6
\* The sum over nothing, and over one element more.
LEMMA SumSteps ==
  ASSUME NEW S, IsFiniteSet(S), NEW f, Counts(f, S)
  PROVE  /\ SumFunctionOnSet(f, {}) = 0
         /\ \A T \in SUBSET S : SumFunctionOnSet(f, T) \in Nat
         /\ \A T \in SUBSET S : \A x \in S \ T :
              SumFunctionOnSet(f, T \cup {x}) = SumFunctionOnSet(f, T) + f[x]
<1>1. PICK g : Adds(g, f, S)
  BY SumExists
<1>2. ASSUME NEW T \in SUBSET S PROVE SumFunctionOnSet(f, T) = g[T]
  <2> DEFINE h == [U \in SUBSET T |-> g[U]]
  <2>1. IsFiniteSet(T) /\ Counts(f, T)
    BY FS_Subset DEF Counts
  <2>2. Adds(h, f, T)
    <3>1. h \in [SUBSET T -> Nat] /\ h[{}] = 0
      BY <1>1 DEF Adds
    <3>2. ASSUME NEW U \in SUBSET T, NEW x \in T \ U PROVE h[U \cup {x}] = h[U] + f[x]
      <4>1. U \cup {x} \in SUBSET T /\ U \in SUBSET S /\ x \in S \ U
        OBVIOUS
      <4> QED
        BY <1>1, <4>1 DEF Adds
    <3> HIDE DEF h
    <3> QED
      BY <3>1, <3>2 DEF Adds
  <2>3. SumFunctionOnSet(f, T) = h[T]
    <3> HIDE DEF h
    <3> QED
      BY <2>1, <2>2, SumIsFold
  <2> QED
    BY <2>3
<1>3. {} \in SUBSET S /\ \A T \in SUBSET S : \A x \in S \ T : T \cup {x} \in SUBSET S
  OBVIOUS
<1> QED
  BY <1>1, <1>2, <1>3 DEF Adds

LEMMA SumType ==
  ASSUME NEW S, IsFiniteSet(S), NEW f, Counts(f, S)
  PROVE  SumFunctionOnSet(f, S) \in Nat
BY SumSteps

\* Only the values on the set matter.
LEMMA SumSame ==
  ASSUME NEW S, IsFiniteSet(S), NEW f, Counts(f, S), NEW g, \A x \in S : g[x] = f[x]
  PROVE  SumFunctionOnSet(g, S) = SumFunctionOnSet(f, S)
<1> DEFINE Good == {T \in SUBSET S : SumFunctionOnSet(g, T) = SumFunctionOnSet(f, T)}
<1>1. Counts(g, S)
  BY DEF Counts
<1>2. {} \in Good
  BY <1>1, SumSteps
<1>3. ASSUME NEW T \in SUBSET S, NEW x \in S \ T, T \in Good PROVE T \cup {x} \in Good
  <2>1. /\ SumFunctionOnSet(f, T \cup {x}) = SumFunctionOnSet(f, T) + f[x]
        /\ SumFunctionOnSet(g, T \cup {x}) = SumFunctionOnSet(g, T) + g[x]
    BY <1>1, SumSteps
  <2> QED
    BY <1>3, <2>1
<1>4. S \in Good
  <2> HIDE DEF Good
  <2> QED
    BY <1>2, <1>3, ElementInduction
<1> QED
  BY <1>4

\* What is zero adds nothing.
LEMMA SumOfZeros ==
  ASSUME NEW S, IsFiniteSet(S), NEW f, \A x \in S : f[x] = 0
  PROVE  SumFunctionOnSet(f, S) = 0
<1> DEFINE Good == {T \in SUBSET S : SumFunctionOnSet(f, T) = 0}
<1>1. Counts(f, S)
  BY DEF Counts
<1>2. {} \in Good
  BY <1>1, SumSteps
<1>3. ASSUME NEW T \in SUBSET S, NEW x \in S \ T, T \in Good PROVE T \cup {x} \in Good
  BY <1>1, <1>3, SumSteps
<1>4. S \in Good
  <2> HIDE DEF Good
  <2> QED
    BY <1>2, <1>3, ElementInduction
<1> QED
  BY <1>4

\* A set that is split in two has the sum of its parts.
LEMMA SumOfParts ==
  ASSUME NEW S, IsFiniteSet(S), NEW f, Counts(f, S),
         NEW A \in SUBSET S, NEW B \in SUBSET S, A \cap B = {}
  PROVE  SumFunctionOnSet(f, A \cup B) = SumFunctionOnSet(f, A) + SumFunctionOnSet(f, B)
<1> DEFINE Good == {T \in SUBSET B :
                      SumFunctionOnSet(f, A \cup T)
                        = SumFunctionOnSet(f, A) + SumFunctionOnSet(f, T)}
<1>1. \A T \in SUBSET S : SumFunctionOnSet(f, T) \in Nat
  BY SumSteps
<1>2. {} \in Good
  <2>1. A \cup {} = A /\ SumFunctionOnSet(f, {}) = 0
    BY SumSteps
  <2> QED
    BY <1>1, <2>1
<1>3. ASSUME NEW T \in SUBSET B, NEW x \in B \ T, T \in Good PROVE T \cup {x} \in Good
  <2>1. /\ T \in SUBSET S /\ x \in S \ T /\ A \cup T \in SUBSET S /\ x \in S \ (A \cup T)
        /\ A \cup (T \cup {x}) = (A \cup T) \cup {x}
    OBVIOUS
  <2>2. /\ SumFunctionOnSet(f, T \cup {x}) = SumFunctionOnSet(f, T) + f[x]
        /\ SumFunctionOnSet(f, (A \cup T) \cup {x}) = SumFunctionOnSet(f, A \cup T) + f[x]
    BY <2>1, SumSteps
  <2>3. f[x] \in Nat
    BY <2>1 DEF Counts
  <2>4. /\ SumFunctionOnSet(f, A) \in Nat /\ SumFunctionOnSet(f, T) \in Nat
        /\ SumFunctionOnSet(f, A \cup T)
             = SumFunctionOnSet(f, A) + SumFunctionOnSet(f, T)
    BY <1>1, <1>3, <2>1
  <2>5. SumFunctionOnSet(f, A \cup (T \cup {x}))
          = SumFunctionOnSet(f, A) + SumFunctionOnSet(f, T \cup {x})
    BY <2>1, <2>2, <2>3, <2>4
  <2>6. T \cup {x} \in SUBSET B
    OBVIOUS
  <2> QED
    BY <2>5, <2>6
<1>4. \A T \in SUBSET B : T \in Good
  <2>1. IsFiniteSet(B)
    BY FS_Subset
  <2> HIDE DEF Good
  <2> QED
    BY <1>2, <1>3, <2>1, ElementInduction
<1> QED
  BY <1>4

\* Larger sets have larger sums.
LEMMA SumGrows ==
  ASSUME NEW S, IsFiniteSet(S), NEW f, Counts(f, S), NEW T \in SUBSET S
  PROVE  SumFunctionOnSet(f, T) <= SumFunctionOnSet(f, S)
<1>1. T \cup (S \ T) = S /\ T \cap (S \ T) = {} /\ S \ T \in SUBSET S
  OBVIOUS
<1>2. SumFunctionOnSet(f, S) = SumFunctionOnSet(f, T) + SumFunctionOnSet(f, S \ T)
  BY <1>1, SumOfParts
<1>3. SumFunctionOnSet(f, T) \in Nat /\ SumFunctionOnSet(f, S \ T) \in Nat
  BY <1>1, SumSteps
<1> QED
  BY <1>2, <1>3

\* The sum over two elements.
LEMMA SumOfTwo ==
  ASSUME NEW S, IsFiniteSet(S), NEW f, Counts(f, S), NEW x \in S, NEW y \in S, x # y
  PROVE  SumFunctionOnSet(f, {x, y}) = f[x] + f[y]
<1>1. /\ {} \in SUBSET S /\ x \in S \ {} /\ {} \cup {x} = {x}
      /\ {x} \in SUBSET S /\ y \in S \ {x} /\ {x} \cup {y} = {x, y}
  OBVIOUS
<1>2. SumFunctionOnSet(f, {}) = 0 /\ f[x] \in Nat
  BY SumSteps DEF Counts
<1>3. SumFunctionOnSet(f, {} \cup {x}) = SumFunctionOnSet(f, {}) + f[x]
  BY <1>1, SumSteps
<1>4. SumFunctionOnSet(f, {x} \cup {y}) = SumFunctionOnSet(f, {x}) + f[y]
  BY <1>1, SumSteps
<1>5. SumFunctionOnSet(f, {x}) = 0 + f[x]
  <2>1. {} \cup {x} = {x}
    OBVIOUS
  <2> QED
    BY <1>2, <1>3, <2>1, Zenon
<1>6. SumFunctionOnSet(f, {x, y}) = SumFunctionOnSet(f, {x}) + f[y]
  <2>1. {x} \cup {y} = {x, y}
    OBVIOUS
  <2> QED
    BY <1>4, <2>1, Zenon
<1> QED
  BY <1>2, <1>5, <1>6

\* One value grows, and the sum by as much.
LEMMA SumRaised ==
  ASSUME NEW S, IsFiniteSet(S), NEW f, Counts(f, S), NEW x \in S, NEW n \in Nat,
         NEW g, g[x] = f[x] + n, \A y \in S \ {x} : g[y] = f[y]
  PROVE  SumFunctionOnSet(g, S) = SumFunctionOnSet(f, S) + n
<1> DEFINE T == S \ {x}
<1>1. T \in SUBSET S /\ x \in S \ T /\ T \cup {x} = S
  OBVIOUS
<1>2. Counts(g, S) /\ f[x] \in Nat /\ Counts(f, T) /\ IsFiniteSet(T)
  BY FS_Subset DEF Counts
<1>3. \A y \in T : g[y] = f[y]
  OBVIOUS
<1> HIDE DEF T
<1>4. /\ SumFunctionOnSet(f, S) = SumFunctionOnSet(f, T) + f[x]
      /\ SumFunctionOnSet(g, S) = SumFunctionOnSet(g, T) + g[x]
      /\ SumFunctionOnSet(f, T) \in Nat
  BY <1>1, <1>2, SumSteps
<1>5. SumFunctionOnSet(g, T) = SumFunctionOnSet(f, T)
  BY <1>2, <1>3, SumSame
<1> QED
  BY <1>2, <1>4, <1>5

\* Sums over the disjoint parts of a set, added up over the parts.
LEMMA SumOverParts ==
  ASSUME NEW S, IsFiniteSet(S), NEW f, Counts(f, S),
         NEW B, IsFiniteSet(B), NEW Part,
         \A b \in B : Part[b] \in SUBSET S,
         \A b, c \in B : b # c => Part[b] \cap Part[c] = {},
         NEW h, \A b \in B : h[b] = SumFunctionOnSet(f, Part[b]),
         NEW U \in SUBSET S, \A x \in S : x \in U <=> \E b \in B : x \in Part[b]
  PROVE  SumFunctionOnSet(h, B) = SumFunctionOnSet(f, U)
<1> DEFINE In(T) == {x \in S : \E b \in T : x \in Part[b]}
           Good == {T \in SUBSET B : SumFunctionOnSet(h, T) = SumFunctionOnSet(f, In(T))}
<1>1. Counts(h, B)
  <2>1. \A T \in SUBSET S : SumFunctionOnSet(f, T) \in Nat
    BY SumSteps
  <2> QED
    BY <2>1 DEF Counts
<1>2. {} \in Good
  <2>1. In({}) = {}
    OBVIOUS
  <2>2. SumFunctionOnSet(h, {}) = 0 /\ SumFunctionOnSet(f, {}) = 0
    BY <1>1, SumSteps
  <2> QED
    BY <2>1, <2>2
<1>3. ASSUME NEW T \in SUBSET B, NEW b \in B \ T, T \in Good PROVE T \cup {b} \in Good
  <2>1. /\ In(T \cup {b}) = In(T) \cup Part[b] /\ In(T) \cap Part[b] = {}
        /\ In(T) \in SUBSET S /\ Part[b] \in SUBSET S
    OBVIOUS
  <2>2. SumFunctionOnSet(h, T) = SumFunctionOnSet(f, In(T))
    BY <1>3
  <2>3. h[b] = SumFunctionOnSet(f, Part[b])
    OBVIOUS
  <2> HIDE DEF In
  <2>4. SumFunctionOnSet(f, In(T \cup {b}))
          = SumFunctionOnSet(f, In(T)) + SumFunctionOnSet(f, Part[b])
    <3>1. SumFunctionOnSet(f, In(T) \cup Part[b])
            = SumFunctionOnSet(f, In(T)) + SumFunctionOnSet(f, Part[b])
      BY <2>1, SumOfParts
    <3> QED
      BY <2>1, <3>1
  <2>5. SumFunctionOnSet(h, T \cup {b}) = SumFunctionOnSet(h, T) + h[b]
    BY <1>1, SumSteps
  <2>6. T \cup {b} \in SUBSET B
    OBVIOUS
  <2> QED
    BY <2>2, <2>3, <2>4, <2>5, <2>6
<1>4. \A T \in SUBSET B : T \in Good
  <2> HIDE DEF Good
  <2> QED
    BY <1>2, <1>3, ElementInduction
<1>5. In(B) = U
  OBVIOUS
<1> QED
  BY <1>4, <1>5
=============================================================================
