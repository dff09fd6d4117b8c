------------------------------ MODULE FoldLemmas ------------------------------
(***************************************************************************)
(* Induction over the natural numbers, and what the folds of the library   *)
(* compute.  A fold is a function chosen to satisfy its own recursion: the *)
(* lemmas show that such a function exists, for any step that stays in a   *)
(* set of values, and so that the chosen one obeys the recursion.          *)
(***************************************************************************)
EXTENDS Integers, Sequences, FiniteSets, FiniteSetsExt, SequencesExt,
        FiniteSetTheorems, SequenceTheorems, WellFoundedInduction, TLAPS

-----------------------------------------------------------------------------
(* Induction.                                                              *)

\* A nonempty set of natural numbers has a least element.
LEMMA Least ==
    ASSUME NEW T, T \subseteq Nat, T # {}
    PROVE  \E x \in T : \A y \in T : ~(y < x)
<1> DEFINE R == OpToRel(<, Nat)
<1>1. IsWellFoundedOn(R, Nat)
  BY NatLessThanWellFounded
<1>2. \A x, y \in Nat : y < x => <<y, x>> \in R
  BY DEF OpToRel
<1> HIDE DEF R
<1>3. \E x \in T : \A y \in T : ~(<<y, x>> \in R)
  BY <1>1, WFMin
<1> QED BY <1>2, <1>3

\* A set that has 0, and n + 1 with every n below a bound, reaches the bound.
LEMMA UpTo ==
    ASSUME NEW N \in Nat, NEW T, 0 \in T, \A k \in 0..N : k < N /\ k \in T => k + 1 \in T
    PROVE  \A k \in 0..N : k \in T
<1> DEFINE U == {k \in 0..N : k \notin T}
<1> SUFFICES ASSUME U # {} PROVE FALSE
  OBVIOUS
<1>1. PICK x \in U : \A y \in U : ~(y < x)
  <2>1. U \subseteq Nat
    OBVIOUS
  <2> QED BY ONLY <2>1, U # {}, Least
<1>2. x \in 0..N /\ x \notin T /\ x # 0
  OBVIOUS
<1>3. x - 1 \in 0..N /\ x - 1 < N /\ x - 1 < x
  BY <1>2
<1>4. x - 1 \in T
  BY <1>1, <1>3
<1>5. (x - 1) + 1 \in T
  BY <1>3, <1>4
<1> QED BY <1>2, <1>5

-----------------------------------------------------------------------------
(* The set 1..k and its maximum.                                           *)

LEMMA MaxUpTo ==
    ASSUME NEW k \in Nat, k > 0
    PROVE  Max(1..k) = k /\ (1..k) \ {k} = 1..(k - 1) /\ 1..k # {}
  BY DEF Max

\* A nonempty set of numbers up to n has a greatest element.
LEMMA MaxExists ==
    ASSUME NEW n \in Nat, NEW S \in SUBSET (1..n), S # {}
    PROVE  Max(S) \in S /\ \A y \in S : Max(S) >= y
<1> DEFINE U == {n - x : x \in S}
<1>1. U \subseteq Nat /\ U # {}
  OBVIOUS
<1>2. PICK u \in U : \A y \in U : ~(y < u)
  <2> HIDE DEF U
  <2> QED BY <1>1, Least
<1>3. PICK x \in S : u = n - x
  OBVIOUS
<1>4. \A y \in S : x >= y
  BY <1>2, <1>3
<1>5. \E z \in S : \A y \in S : z >= y
  BY <1>4
<1> QED BY <1>5 DEF Max

LEMMA MaxWithNew ==
    ASSUME NEW n \in Nat, NEW S \in SUBSET (1..(n + 1)), n + 1 \in S
    PROVE  Max(S) = n + 1
<1>1. \A y \in S : n + 1 >= y
  OBVIOUS
<1>2. \A x \in S : (\A y \in S : x >= y) => x = n + 1
  BY <1>1
<1> QED BY <1>1, <1>2 DEF Max

-----------------------------------------------------------------------------
(* Folding a sequence from the left.                                       *)

\* FoldLeft is defined: its recursion, over the sets of indices, has a solution.
FoldsTo(g, n, V, b, G) ==
    /\ g \in [SUBSET (1..n) -> V]
    /\ g[{}] = b
    /\ \A S \in SUBSET (1..n) : S # {} => g[S] = G[<<Max(S), g[S \ {Max(S)}]>>]

LEMMA FoldDefined ==
    ASSUME NEW n \in Nat, NEW V, NEW b \in V, NEW G \in [(1..n) \X V -> V]
    PROVE  \E g : FoldsTo(g, n, V, b, G)
<1> DEFINE Good(g, k) == /\ g \in [SUBSET (1..k) -> V]
                         /\ g[{}] = b
                         /\ \A S \in SUBSET (1..k) : S # {} =>
                               g[S] = G[<<Max(S), g[S \ {Max(S)}]>>]
           T == {k \in 0..n : \E g : Good(g, k)}
<1>1. 0 \in T
  <2> DEFINE g == [S \in SUBSET (1..0) |-> b]
  <2>1. SUBSET (1..0) = {{}}
    OBVIOUS
  <2>2. Good(g, 0)
    BY <2>1
  <2> HIDE DEF g, Good
  <2>3. \E h : Good(h, 0)
    BY <2>2
  <2> QED BY <2>3
<1>2. \A k \in 0..n : k < n /\ k \in T => k + 1 \in T
  <2> SUFFICES ASSUME NEW k \in 0..n, k < n, k \in T PROVE k + 1 \in T
    OBVIOUS
  <2>1. PICK g : Good(g, k)
    OBVIOUS
  <2> DEFINE h == [S \in SUBSET (1..(k + 1)) |->
                      IF k + 1 \in S THEN G[<<k + 1, g[S \ {k + 1}]>>] ELSE g[S]]
  <2>2. \A S \in SUBSET (1..(k + 1)) : S \ {k + 1} \in SUBSET (1..k)
    OBVIOUS
  <2>3. \A S \in SUBSET (1..(k + 1)) : k + 1 \notin S => S \in SUBSET (1..k)
    OBVIOUS
  <2>4. \A S \in SUBSET (1..k) : S \in SUBSET (1..(k + 1)) /\ k + 1 \notin S
    OBVIOUS
  <2>5. k + 1 \in 1..n /\ k \in Nat /\ k + 1 \in 0..n
    OBVIOUS
  <2>6. h \in [SUBSET (1..(k + 1)) -> V]
    <3>1. ASSUME NEW S \in SUBSET (1..(k + 1)) PROVE h[S] \in V
      BY <2>1, <2>2, <2>5, <2>3
    <3> QED BY <3>1
  <2>7. \A S \in SUBSET (1..k) : h[S] = g[S]
    BY <2>4
  <2>8. h[{}] = b
    BY <2>1, <2>7
  <2>9. ASSUME NEW S \in SUBSET (1..(k + 1)), S # {}
        PROVE  h[S] = G[<<Max(S), h[S \ {Max(S)}]>>]
    BY <2>5, MaxWithNew, <2>2, <2>7, <2>3, <2>1, <2>9
  <2> HIDE DEF h
  <2>10. Good(h, k + 1)
    BY <2>6, <2>8, <2>9
  <2> QED BY <2>5, <2>10
<1>3. n \in T
  <2>1. \A k \in 0..n : k \in T
    <3> HIDE DEF T
    <3> QED BY <1>1, <1>2, UpTo
  <2> HIDE DEF T
  <2> QED BY <2>1
<1>4. PICK g : Good(g, n)
  BY <1>3
<1> QED BY <1>4 DEF FoldsTo

\* So does a recursion over the numbers up to n.
RecursTo(f, n, V, b, G) ==
    /\ f \in [0..n -> V]
    /\ f[0] = b
    /\ \A k \in 1..n : f[k] = G[<<k, f[k - 1]>>]

LEMMA RecursionDefined ==
    ASSUME NEW n \in Nat, NEW V, NEW b \in V, NEW G \in [(1..n) \X V -> V]
    PROVE  \E f : RecursTo(f, n, V, b, G)
<1>1. PICK g : FoldsTo(g, n, V, b, G)
  BY FoldDefined
<1> DEFINE f == [k \in 0..n |-> g[1..k]]
<1>2. \A k \in 0..n : 1..k \in SUBSET (1..n)
  OBVIOUS
<1>3. f \in [0..n -> V]
  BY <1>1, <1>2 DEF FoldsTo
<1>4. f[0] = b
  <2>1. 1..0 = {}
    OBVIOUS
  <2> QED BY <1>1, <2>1 DEF FoldsTo
<1>5. ASSUME NEW k \in 1..n PROVE f[k] = G[<<k, f[k - 1]>>]
  <2>1. k \in Nat /\ k > 0 /\ k \in 0..n /\ k - 1 \in 0..n
    OBVIOUS
  <2>2. Max(1..k) = k /\ (1..k) \ {k} = 1..(k - 1) /\ 1..k # {}
    BY ONLY <2>1, MaxUpTo
  <2>3. g[1..k] = G[<<Max(1..k), g[(1..k) \ {Max(1..k)}]>>]
    BY <1>1, <1>2, <2>1, <2>2 DEF FoldsTo
  <2>4. g[1..k] = G[<<k, g[1..(k - 1)]>>]
    BY <2>2, <2>3
  <2> QED BY <2>1, <2>4
<1> HIDE DEF f
<1>6. RecursTo(f, n, V, b, G)
  BY <1>3, <1>4, <1>5 DEF RecursTo
<1> QED BY <1>6

-----------------------------------------------------------------------------
(* Concatenation, as an operator the provers leave alone.                  *)

Joined(s, t) == s \o t

LEMMA JoinedSeq == \A P : \A s, t \in Seq(P) : Joined(s, t) \in Seq(P)
  BY DEF Joined

LEMMA JoinedLen == \A P : \A s, t \in Seq(P) : Len(Joined(s, t)) = Len(s) + Len(t)
  BY DEF Joined

LEMMA JoinedAt ==
    \A P : \A s, t \in Seq(P) : /\ \A i \in 1..Len(s) : Joined(s, t)[i] = s[i]
                               /\ \A i \in 1..Len(t) : Joined(s, t)[Len(s) + i] = t[i]
  BY DEF Joined

LEMMA JoinedAssoc ==
    \A P : \A s, t, u \in Seq(P) : Joined(Joined(s, t), u) = Joined(s, Joined(t, u))
  BY ConcatAssociative DEF Joined

LEMMA JoinedEmpty == \A P : \A s \in Seq(P) : Joined(s, <<>>) = s /\ Joined(<<>>, s) = s
  BY ConcatEmptySeq DEF Joined

\* What is joined at the end is a continuation.
LEMMA JoinedPrefix == \A P : \A s, t \in Seq(P) : IsPrefix(s, Joined(s, t))
  BY DEF Joined, IsPrefix

-----------------------------------------------------------------------------
(* FlattenSeq.                                                             *)

\* The parts up to each place, joined.
FlattensTo(f, s, P) ==
    /\ f \in [0..Len(s) -> Seq(P)] /\ f[0] = <<>>
    /\ \A k \in 1..Len(s) : f[k] = Joined(f[k - 1], s[k])
    /\ FlattenSeq(s) = f[Len(s)]

LEMMA FlattenDefined ==
    ASSUME NEW P, NEW s \in Seq(Seq(P))
    PROVE  \E f : FlattensTo(f, s, P)
<1> DEFINE n == Len(s)
           V == Seq(P)
           G == [y \in (1..n) \X V |-> Joined(y[2], s[y[1]])]
           b == <<>>
<1>1. n \in Nat /\ (\A i \in 1..n : s[i] \in V) /\ b \in V
  OBVIOUS
<1>2. \A i \in 1..n, v \in V : Joined(v, s[i]) \in V
  <2> HIDE DEF n
  <2> QED BY <1>1, JoinedSeq
<1>3. \A v \in V : Joined(<<>>, v) = v
  BY JoinedEmpty
<1>4. n = 0 => s = <<>>
  OBVIOUS
<1> HIDE DEF V, n
<1>5. G \in [(1..n) \X V -> V]
  BY <1>2
<1>6. PICK f : RecursTo(f, n, V, b, G)
  <2> HIDE DEF G, b
  <2> QED BY ONLY <1>1, <1>5, RecursionDefined
<1>7. f \in [0..n -> V] /\ f[0] = <<>>
  BY <1>6 DEF RecursTo
<1>8. \A k \in 1..n : f[k] = Joined(f[k - 1], s[k])
  <2> SUFFICES ASSUME NEW k \in 1..n PROVE f[k] = Joined(f[k - 1], s[k])
    OBVIOUS
  <2> DEFINE v == f[k - 1]
  <2>1. v \in V
    BY <1>1, <1>7
  <2>2. f[k] = G[<<k, v>>]
    <3> HIDE DEF G
    <3> QED BY <1>6 DEF RecursTo
  <2> HIDE DEF v
  <2>3. G[<<k, v>>] = Joined(v, s[k])
    BY <2>1
  <2> QED BY <2>2, <2>3 DEF v
<1>9. FlattenSeq(s) = f[n]
  <2>1. CASE n = 0
    <3>1. FlattenSeq(s) = s
      BY <2>1 DEF FlattenSeq, n
    <3> QED BY <1>4, <1>7, <2>1, <3>1
  <2>2. CASE n # 0
    <3> DEFINE Eq(h) == h = [i \in 1..n |-> IF i = 1 THEN s[i] ELSE h[i - 1] \o s[i]]
               F == CHOOSE h : Eq(h)
               g == [i \in 1..n |-> f[i]]
    <3>1. FlattenSeq(s) = F[n]
      BY <2>2 DEF FlattenSeq, n
    <3>2. Eq(g)
      <4>1. ASSUME NEW i \in 1..n
            PROVE  g[i] = IF i = 1 THEN s[i] ELSE g[i - 1] \o s[i]
        <5>1. i \in Int /\ i - 1 \in 0..n /\ (i # 1 => i - 1 \in 1..n) /\ (i = 1 => i - 1 = 0)
          BY <1>1
        <5>2. f[i] = Joined(f[i - 1], s[i])
          BY <1>8
        <5>3. CASE i = 1
          BY <1>1, <1>3, <1>7, <5>1, <5>2, <5>3
        <5>4. CASE i # 1
          BY <5>1, <5>2, <5>4 DEF Joined
        <5> QED BY <5>3, <5>4
      <4>2. g = [i \in 1..n |-> g[i]]
        OBVIOUS
      <4> HIDE DEF g
      <4> QED BY <4>1, <4>2
    <3>3. Eq(F)
      <4> HIDE DEF Eq
      <4> QED BY <3>2
    <3> HIDE DEF F
    <3> DEFINE T == {k \in 0..n : k = 0 \/ F[k] = f[k]}
    <3>4. 0 \in T
      BY <1>1
    <3>5. \A k \in 0..n : k < n /\ k \in T => k + 1 \in T
      <4> SUFFICES ASSUME NEW k \in 0..n, k < n, k \in T PROVE k + 1 \in T
        OBVIOUS
      <4>1. k + 1 \in 1..n /\ k + 1 \in 0..n /\ (k + 1) - 1 = k /\ (k # 0 => k \in 1..n)
            /\ (k + 1 = 1 => k = 0)
        BY <1>1
      <4>2. f[k + 1] = Joined(f[k], s[k + 1])
        BY <1>8, <4>1
      <4>3. F[k + 1] = IF k + 1 = 1 THEN s[k + 1] ELSE F[k] \o s[k + 1]
        BY <3>3, <4>1
      <4>4. CASE k = 0
        BY <1>1, <1>3, <1>7, <4>1, <4>2, <4>4, <4>3
      <4>5. CASE k # 0
        BY <4>5, <4>1, <4>3, <4>2 DEF Joined
      <4> QED BY <4>4, <4>5
    <3>6. n \in T
      <4> HIDE DEF T
      <4>1. \A k \in 0..n : k \in T
        BY <1>1, <3>4, <3>5, UpTo
      <4> QED BY <1>1, <4>1
    <3> QED BY <2>2, <3>1, <3>6
  <2> QED BY <2>1, <2>2
<1>10. FlattensTo(f, s, P)
  BY <1>7, <1>8, <1>9 DEF FlattensTo, n, V
<1> QED BY <1>10

LEMMA FlattenNone == FlattenSeq(<<>>) = <<>>
  BY DEF FlattenSeq

LEMMA FlattenInSeq ==
    ASSUME NEW P, NEW s \in Seq(Seq(P))
    PROVE  FlattenSeq(s) \in Seq(P)
<1>1. PICK f : FlattensTo(f, s, P)
  BY FlattenDefined
<1>2. Len(s) \in 0..Len(s)
  OBVIOUS
<1> QED BY <1>1, <1>2 DEF FlattensTo

LEMMA FlattenSteps ==
    ASSUME NEW P, NEW s \in Seq(Seq(P)), NEW k \in 1..Len(s)
    PROVE  FlattenSeq(SubSeq(s, 1, k)) = Joined(FlattenSeq(SubSeq(s, 1, k - 1)), s[k])
<1> DEFINE t == SubSeq(s, 1, k)
           u == SubSeq(s, 1, k - 1)
<1>0. k \in Nat /\ k - 1 \in Nat /\ k \in 1..k
  OBVIOUS
<1>1. t \in Seq(Seq(P)) /\ Len(t) = k /\ \A i \in 1..k : t[i] = s[i]
  OBVIOUS
<1>2. u \in Seq(Seq(P)) /\ Len(u) = k - 1 /\ \A i \in 1..(k - 1) : u[i] = s[i]
  OBVIOUS
<1> HIDE DEF t, u
<1>3. PICK f : FlattensTo(f, t, P)
  BY <1>1, FlattenDefined
<1>4. PICK g : FlattensTo(g, u, P)
  BY <1>2, FlattenDefined
<1>5. /\ f \in [0..k -> Seq(P)] /\ f[0] = <<>> /\ FlattenSeq(t) = f[k]
      /\ \A j \in 1..k : f[j] = Joined(f[j - 1], t[j])
  BY <1>1, <1>3 DEF FlattensTo
<1>6. /\ g \in [0..(k - 1) -> Seq(P)] /\ g[0] = <<>> /\ FlattenSeq(u) = g[k - 1]
      /\ \A j \in 1..(k - 1) : g[j] = Joined(g[j - 1], u[j])
  BY <1>2, <1>4 DEF FlattensTo
<1> DEFINE T == {j \in 0..(k - 1) : f[j] = g[j]}
<1>7. 0 \in T
  BY <1>0, <1>5, <1>6
<1>8. \A j \in 0..(k - 1) : j < k - 1 /\ j \in T => j + 1 \in T
  <2> SUFFICES ASSUME NEW j \in 0..(k - 1), j < k - 1, j \in T PROVE j + 1 \in T
    OBVIOUS
  <2>1. j + 1 \in 1..(k - 1) /\ j + 1 \in 1..k /\ j + 1 \in 0..(k - 1) /\ (j + 1) - 1 = j
    BY <1>0
  <2>2. f[j + 1] = Joined(f[j], t[j + 1])
    BY <1>5, <2>1
  <2>3. g[j + 1] = Joined(g[j], u[j + 1])
    BY <1>6, <2>1
  <2>4. t[j + 1] = u[j + 1]
    BY <1>1, <1>2, <2>1
  <2> QED BY <2>1, <2>2, <2>3, <2>4
<1>9. f[k - 1] = g[k - 1]
  <2> HIDE DEF T
  <2>1. \A j \in 0..(k - 1) : j \in T
    BY <1>0, <1>7, <1>8, UpTo
  <2>2. k - 1 \in T
    BY <1>0, <2>1
  <2> QED BY <2>2 DEF T
<1>10. f[k] = Joined(f[k - 1], t[k])
  BY <1>0, <1>5
<1>11. t[k] = s[k]
  BY <1>0, <1>1
<1> QED BY <1>5, <1>6, <1>9, <1>10, <1>11 DEF t, u

-----------------------------------------------------------------------------
(* Sums over finite sets.                                                  *)

\* What holds of the empty set, and of a set with one element more, holds of
\* every finite set.
LEMMA FiniteInduction ==
    ASSUME NEW S, IsFiniteSet(S), NEW U, {} \in U,
           \A T \in SUBSET S : \A x \in S \ T : T \in U => T \cup {x} \in U
    PROVE  \A T \in SUBSET S : T \in U
<1> DEFINE Bad == {T \in SUBSET S : T \notin U}
           N == {Cardinality(T) : T \in Bad}
<1> SUFFICES ASSUME Bad # {} PROVE FALSE
  OBVIOUS
<1>1. \A T \in SUBSET S : IsFiniteSet(T) /\ Cardinality(T) \in Nat
  BY FS_Subset, FS_CardinalityType
<1>2. N \subseteq Nat /\ N # {}
  BY <1>1
<1>3. PICK c \in N : \A d \in N : ~(d < c)
  <2> HIDE DEF N
  <2> QED BY ONLY <1>2, Least
<1>4. PICK T \in Bad : c = Cardinality(T)
  BY <1>3
<1>5. T \in SUBSET S /\ T \notin U /\ T # {}
  BY <1>4
<1>6. PICK x \in T : TRUE
  BY <1>5
<1> DEFINE R == T \ {x}
<1>7. IsFiniteSet(T) /\ R \in SUBSET S /\ x \in S \ R /\ R \cup {x} = T
  BY <1>1, <1>5, <1>6
<1>8. Cardinality(R) = Cardinality(T) - 1
  BY <1>6, <1>7, FS_RemoveElement
<1>9. R \notin U
  BY <1>5, <1>7
<1>10. Cardinality(R) \in N
  BY <1>7, <1>9
<1> HIDE DEF N
<1>11. c \in Nat /\ Cardinality(R) < c
  BY <1>1, <1>4, <1>5, <1>8
<1> QED BY <1>3, <1>10, <1>11

\* g sums F over the parts of S, in whatever order.
SumsTo(g, S, F) ==
    /\ g \in [SUBSET S -> Nat] /\ g[{}] = 0
    /\ \A T \in SUBSET S : \A x \in T : g[T] = g[T \ {x}] + F[x]

LEMMA SumDefined ==
    ASSUME NEW S, IsFiniteSet(S), NEW F, \A x \in S : F[x] \in Nat
    PROVE  \E g : SumsTo(g, S, F)
<1> DEFINE U == {T \in SUBSET S : \E g : SumsTo(g, T, F)}
<1>1. {} \in U
  <2> DEFINE g == [T \in SUBSET {} |-> 0]
  <2>1. SumsTo(g, {}, F)
    BY DEF SumsTo
  <2> HIDE DEF g
  <2> QED BY <2>1
<1>2. ASSUME NEW T \in SUBSET S, NEW x \in S \ T, T \in U PROVE T \cup {x} \in U
  <2>1. PICK g : SumsTo(g, T, F)
    BY <1>2
  <2> DEFINE Tx == T \cup {x}
             h == [R \in SUBSET Tx |-> IF x \in R THEN g[R \ {x}] + F[x] ELSE g[R]]
  <2>2. \A R \in SUBSET Tx : R \ {x} \in SUBSET T /\ (x \notin R => R \in SUBSET T)
    OBVIOUS
  <2>3. F[x] \in Nat /\ \A R \in SUBSET T : g[R] \in Nat
    BY <2>1 DEF SumsTo
  <2>4. h \in [SUBSET Tx -> Nat]
    BY <2>2, <2>3
  <2>5. h[{}] = 0
    BY <2>1 DEF SumsTo
  <2>6. ASSUME NEW R \in SUBSET Tx, NEW y \in R PROVE h[R] = h[R \ {y}] + F[y]
    <3>1. R \ {y} \in SUBSET Tx
      OBVIOUS
    <3>2. CASE y = x
      BY <3>2, <3>1
    <3>3. CASE y # x /\ x \in R
      <4> DEFINE P == R \ {x}
                 Q == P \ {y}
      <4>1. h[R] = g[P] + F[x]
        BY <3>3
      <4>2. (R \ {y}) \ {x} = Q
        OBVIOUS
      <4>3. h[R \ {y}] = g[Q] + F[x]
        BY <3>1, <3>3, <4>2
      <4>4. P \in SUBSET T /\ Q \in SUBSET T /\ y \in P
        BY <3>3
      <4> HIDE DEF P, Q, h
      <4>5. g[P] = g[Q] + F[y]
        BY <2>1, <4>4 DEF SumsTo, Q
      <4>6. g[Q] \in Nat /\ F[y] \in Nat /\ F[x] \in Nat
        BY <2>3, <4>4
      <4> QED BY <4>1, <4>3, <4>5, <4>6
    <3>4. CASE x \notin R
      BY <3>1, <3>4, <2>1 DEF SumsTo
    <3> QED BY <3>2, <3>3, <3>4
  <2>7. SumsTo(h, Tx, F)
    <3> HIDE DEF h
    <3> QED BY <2>4, <2>5, <2>6 DEF SumsTo
  <2> HIDE DEF h
  <2> QED BY <2>7
<1> HIDE DEF U
<1>3. \A T \in SUBSET S : \A x \in S \ T : T \in U => T \cup {x} \in U
  BY <1>2
<1>4. \A T \in SUBSET S : T \in U
  BY ONLY <1>1, <1>3, FiniteInduction, IsFiniteSet(S)
<1>5. S \in U
  BY <1>4
<1> QED BY <1>5 DEF U

\* The recursion of MapThenSumSet, which takes any element first.
SumsByChoice(h, S, F) ==
    h = [T \in SUBSET S |->
            IF T = {} THEN 0
            ELSE F[CHOOSE x \in T : TRUE] + h[T \ {CHOOSE x \in T : TRUE}]]

\* A sum obeys it.
LEMMA SumByChoice ==
    ASSUME NEW S, NEW F, NEW g, SumsTo(g, S, F), \A x \in S : F[x] \in Nat
    PROVE  SumsByChoice(g, S, F)
<1>1. ASSUME NEW T \in SUBSET S, T # {}
      PROVE  g[T] = F[CHOOSE x \in T : TRUE] + g[T \ {CHOOSE x \in T : TRUE}]
  <2> DEFINE x == CHOOSE y \in T : TRUE
  <2>1. x \in T
    BY <1>1
  <2> HIDE DEF x
  <2>2. g[T] = g[T \ {x}] + F[x]
    BY <2>1 DEF SumsTo
  <2>3. g[T \ {x}] \in Nat /\ F[x] \in Nat
    BY <2>1 DEF SumsTo
  <2>4. g[T] = F[x] + g[T \ {x}]
    BY <2>2, <2>3
  <2> QED BY <2>4 DEF x
<1>2. g = [T \in SUBSET S |-> g[T]] /\ g[{}] = 0
  BY DEF SumsTo
<1> QED BY <1>1, <1>2 DEF SumsByChoice

\* And what obeys it is the sum.
LEMMA SumUnique ==
    ASSUME NEW S, IsFiniteSet(S), NEW F, NEW g, SumsTo(g, S, F), \A x \in S : F[x] \in Nat,
           NEW h, NEW T0 \in SUBSET S, NEW E, \A x \in T0 : E[x] = F[x], SumsByChoice(h, T0, E)
    PROVE  h[T0] = g[T0]
<1> DEFINE Bad == {T \in SUBSET T0 : h[T] # g[T]}
           N == {Cardinality(T) : T \in Bad}
<1> SUFFICES ASSUME Bad # {} PROVE FALSE
  OBVIOUS
<1>1. \A T \in SUBSET T0 : IsFiniteSet(T) /\ Cardinality(T) \in Nat
  BY FS_Subset, FS_CardinalityType
<1>2. N \subseteq Nat /\ N # {}
  BY <1>1
<1>3. PICK c \in N : \A d \in N : ~(d < c)
  <2> HIDE DEF N
  <2> QED BY ONLY <1>2, Least
<1>4. PICK T \in Bad : c = Cardinality(T)
  BY <1>3
<1>5. T \in SUBSET T0 /\ h[T] # g[T]
  BY <1>4
<1>6. T # {}
  BY <1>5 DEF SumsByChoice, SumsTo
<1> DEFINE x == CHOOSE y \in T : TRUE
           R == T \ {x}
<1>7. x \in T
  BY <1>6
<1>8. h[T] = E[x] + h[R]
  BY <1>5, <1>6 DEF SumsByChoice
<1> HIDE DEF x
<1>9. g[T] = g[R] + F[x] /\ g[R] \in Nat /\ F[x] \in Nat /\ E[x] = F[x]
  BY <1>5, <1>7 DEF SumsTo
<1>10. R \in SUBSET T0 /\ IsFiniteSet(T) /\ Cardinality(R) = Cardinality(T) - 1
  BY <1>1, <1>5, <1>7, FS_RemoveElement
<1>11. h[R] # g[R]
  BY <1>5, <1>8, <1>9
<1>12. Cardinality(R) \in N
  BY <1>10, <1>11
<1> HIDE DEF N
<1>13. c \in Nat /\ Cardinality(R) < c
  BY <1>1, <1>4, <1>5, <1>10
<1> QED BY <1>3, <1>12, <1>13

\* A part sums to no more than the whole, and disjoint parts add up.
LEMMA SumOfParts ==
    ASSUME NEW S, IsFiniteSet(S), NEW F, NEW g, SumsTo(g, S, F), \A x \in S : F[x] \in Nat,
           NEW A, A \subseteq S, NEW B0, B0 \subseteq S, A \cap B0 = {}
    PROVE  g[A \cup B0] = g[A] + g[B0]
<1> DEFINE D == S \ A
           U == {B \in SUBSET D : g[A \cup B] = g[A] + g[B]}
<1>1. \A T \in SUBSET S : g[T] \in Nat
  BY DEF SumsTo
<1>2. {} \in U
  BY <1>1 DEF SumsTo
<1>3. ASSUME NEW B \in SUBSET D, NEW x \in D \ B, B \in U PROVE B \cup {x} \in U
  <2> DEFINE Bx == B \cup {x}
  <2>1. (A \cup Bx) \ {x} = A \cup B /\ Bx \ {x} = B /\ x \in A \cup Bx
        /\ A \cup Bx \in SUBSET S /\ Bx \in SUBSET S /\ x \in Bx /\ B \in SUBSET S
    OBVIOUS
  <2> HIDE DEF Bx
  <2>2. g[A \cup Bx] = g[A \cup B] + F[x] /\ g[Bx] = g[B] + F[x]
    BY <2>1 DEF SumsTo
  <2>3. g[A \cup B] = g[A] + g[B]
    BY <1>3
  <2>4. g[A] \in Nat /\ g[B] \in Nat /\ F[x] \in Nat
    BY <1>1, <2>1
  <2>5. g[A \cup Bx] = g[A] + g[Bx]
    BY <2>2, <2>3, <2>4
  <2> QED BY <2>5 DEF Bx
<1>4. IsFiniteSet(D)
  BY FS_Difference
<1>5. \A B \in SUBSET D : \A x \in D \ B : B \in U => B \cup {x} \in U
  BY <1>3
<1> HIDE DEF U, D
<1>6. \A B \in SUBSET D : B \in U
  BY ONLY <1>2, <1>4, <1>5, FiniteInduction
<1>7. B0 \in SUBSET D
  BY DEF D
<1> QED BY <1>6, <1>7 DEF U, D

-----------------------------------------------------------------------------
(* Sequences and sets.                                                     *)

LEMMA ToSetFinite ==
    ASSUME NEW V, NEW s \in Seq(V)
    PROVE  IsFiniteSet(ToSet(s))
  BY FS_NatSurjection DEF ToSet, Surjection, ExistsSurjection

\* A finite set has an order.
LEMMA SetToSeqOk ==
    ASSUME NEW S, IsFiniteSet(S)
    PROVE  /\ Cardinality(S) \in Nat
           /\ SetToSeq(S) \in [1..Cardinality(S) -> S]
  BY FS_CardinalityType DEF ExistsBijection, Bijection, Injection, SetToSeq

\* The image of a finite set is finite.
LEMMA FiniteImage ==
    ASSUME NEW S, IsFiniteSet(S), NEW f
    PROVE  IsFiniteSet({f[x] : x \in S})
<1> DEFINE T == {f[x] : x \in S}
           h == [x \in S |-> f[x]]
<1>1. h \in [S -> T] /\ \A y \in T : \E x \in S : h[x] = y
  OBVIOUS
<1>2. h \in Surjection(S, T)
  BY <1>1 DEF Surjection
<1> HIDE DEF h, T
<1>3. IsFiniteSet(T)
  BY <1>2, FS_Surjection
<1> QED BY <1>3 DEF T

\* A finite set of numbers has a greatest.
LEMMA FiniteMax ==
    ASSUME NEW S, IsFiniteSet(S), S \subseteq Nat, S # {}
    PROVE  Max(S) \in S /\ \A y \in S : Max(S) >= y
<1> DEFINE U == {T \in SUBSET S : T = {} \/ \E x \in T : \A y \in T : x >= y}
<1>1. {} \in U
  OBVIOUS
<1>2. ASSUME NEW T \in SUBSET S, NEW x \in S \ T, T \in U PROVE T \cup {x} \in U
  <2>1. CASE T = {}
    <3>1. T \cup {x} = {x} /\ x >= x
      BY <2>1
    <3> QED BY <3>1
  <2>2. CASE T # {}
    BY <1>2, <2>2
  <2> QED BY <2>1, <2>2
<1>3. \A T \in SUBSET S : \A x \in S \ T : T \in U => T \cup {x} \in U
  BY <1>2
<1> HIDE DEF U
<1>4. \A T \in SUBSET S : T \in U
  BY ONLY <1>1, <1>3, FiniteInduction, IsFiniteSet(S)
<1>5. S \in U
  BY <1>4
<1>6. \E x \in S : \A y \in S : x >= y
  BY <1>5 DEF U
<1> QED BY <1>6 DEF Max

\* A part sums to no more than the whole.
LEMMA SumOfPart ==
    ASSUME NEW S, IsFiniteSet(S), NEW F, NEW g, SumsTo(g, S, F), \A x \in S : F[x] \in Nat,
           NEW A \in SUBSET S, NEW B \in SUBSET A
    PROVE  g[B] <= g[A] /\ g[B] \in Nat /\ g[A] \in Nat
<1> DEFINE C == A \ B
<1>1. B \subseteq S /\ C \subseteq S /\ B \cap C = {} /\ B \cup C = A
      /\ B \in SUBSET S /\ C \in SUBSET S
  OBVIOUS
<1> HIDE DEF C
<1>2. g[B \cup C] = g[B] + g[C]
  BY <1>1, SumOfParts
<1>3. g[B] \in Nat /\ g[C] \in Nat /\ g[A] \in Nat
  BY <1>1 DEF SumsTo
<1>4. g[A] = g[B] + g[C]
  BY <1>1, <1>2
<1> QED BY ONLY <1>3, <1>4

\* Things that weigh no more than what they are sent to, no two to the same,
\* weigh no more together.
LEMMA SumInjected ==
    ASSUME NEW X, IsFiniteSet(X), NEW A, NEW a, SumsTo(a, X, A), \A x \in X : A[x] \in Nat,
           NEW Y, IsFiniteSet(Y), NEW W, NEW w, SumsTo(w, Y, W), \A y \in Y : W[y] \in Nat,
           NEW G \in [X -> Y], \A x \in X : A[x] <= W[G[x]],
           \A x, z \in X : G[x] = G[z] => x = z
    PROVE  a[X] <= w[Y]
<1> DEFINE Im(T) == {G[x] : x \in T}
           U == {T \in SUBSET X : a[T] <= w[Im(T)]}
<1>1. \A T \in SUBSET X : Im(T) \in SUBSET Y /\ a[T] \in Nat
  BY DEF SumsTo
<1>2. \A T \in SUBSET Y : w[T] \in Nat
  BY DEF SumsTo
<1>3. {} \in U
  BY DEF SumsTo
<1>4. ASSUME NEW T \in SUBSET X, NEW x \in X \ T, T \in U PROVE T \cup {x} \in U
  <2> DEFINE Tx == T \cup {x}
             I == Im(T)
             Ix == Im(Tx)
             y == G[x]
  <2>1. Tx \in SUBSET X /\ x \in Tx /\ Tx \ {x} = T
    OBVIOUS
  <2>2. Ix = I \cup {y} /\ y \notin I /\ y \in Y
    OBVIOUS
  <2>3. Ix \in SUBSET Y /\ I \in SUBSET Y /\ a[T] <= w[I]
    BY <1>1, <1>4, <2>1
  <2>4. y \in Ix /\ Ix \ {y} = I
    BY <2>2
  <2>5. A[x] <= W[y] /\ A[x] \in Nat /\ W[y] \in Nat
    BY <2>2
  <2> HIDE DEF Tx, I, Ix, y
  <2>6. a[Tx] = a[T] + A[x]
    BY <2>1 DEF SumsTo
  <2>7. w[Ix] = w[I] + W[y]
    BY <2>3, <2>4 DEF SumsTo
  <2>8. a[T] \in Nat /\ w[I] \in Nat
    BY <1>1, <1>2, <2>3
  <2>9. a[Tx] <= w[Ix]
    BY <2>3, <2>5, <2>6, <2>7, <2>8
  <2> QED BY <2>1, <2>9 DEF Tx, Ix
<1>5. \A T \in SUBSET X : \A x \in X \ T : T \in U => T \cup {x} \in U
  BY <1>4
<1>6. X \in U
  BY <1>3, <1>5, FiniteInduction
<1>7. a[X] <= w[Im(X)] /\ a[X] \in Nat /\ Im(X) \in SUBSET Y
  BY <1>1, <1>6
<1> HIDE DEF Im
<1>8. w[Im(X)] <= w[Y] /\ w[Im(X)] \in Nat /\ w[Y] \in Nat
  BY <1>7, SumOfPart
<1> QED BY <1>7, <1>8
===============================================================================
