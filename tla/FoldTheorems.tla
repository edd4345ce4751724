---------------------------- MODULE FoldTheorems ----------------------------
(***************************************************************************)
(* What the folds of the community modules compute, as far as the proofs   *)
(* about the sandbox need it: sums over finite sets, FoldLeft, FlattenSeq. *)
(*                                                                         *)
(* Induction is stated with sets, which a prover can instantiate where it  *)
(* cannot instantiate a predicate; a fold is tied to a function g of pairs *)
(* for the same reason.                                                    *)
(***************************************************************************)
EXTENDS SequencesExt, FiniteSetTheorems, SequenceTheorems, TLAPS

------------------------------------------------------------------------------
(* Induction *)

Less == {pair \in Nat \X Nat : pair[1] < pair[2]}

LEMMA LessWellFounded == IsWellFoundedOn(Less, Nat)
<1>1. OpToRel(<, Nat) = Less
  BY Zenon DEF OpToRel, Less
<1>2. QED BY <1>1, NatLessThanWellFounded, Zenon

\* A set of numbers that has 0 and with a number its successor has them all.
THEOREM SetInduction ==
    ASSUME NEW T, 0 \in T, \A n \in Nat : n \in T => n + 1 \in T
    PROVE  \A n \in Nat : n \in T
<1> SUFFICES ASSUME NEW n \in Nat, n \notin T PROVE FALSE
  OBVIOUS
<1> DEFINE U == Nat \ T
<1>1. U # {} /\ U \subseteq Nat
  OBVIOUS
<1> HIDE DEF U
<1>2. PICK x \in U : \A y \in U : <<y, x>> \notin Less
  BY <1>1, LessWellFounded, WFMin
<1>3. \A y, z : <<y, z>> \in Less <=> y \in Nat /\ z \in Nat /\ y < z
  BY DEF Less
<1>4. x \in Nat /\ x # 0 /\ x - 1 \in Nat /\ x - 1 < x
  BY <1>2 DEF U
<1>5. x - 1 \in T
  BY <1>2, <1>3, <1>4 DEF U
<1>6. QED BY <1>4, <1>5 DEF U

------------------------------------------------------------------------------
(* Iteration over the subsets of a finite set *)

\* The function MapThenFoldSet defines: pick takes an element out of a set, g adds it
\* to the value of the rest.
Iterates(it, S, b, pick, g) ==
    it = [T \in SUBSET S |-> IF T = {} THEN b ELSE g[<<pick[T], it[T \ {pick[T]}]>>]]

Picks(pick, S) == \A T \in SUBSET S : T # {} => pick[T] \in T

LEMMA SmallerRest ==
    ASSUME NEW S, IsFiniteSet(S), NEW T \in SUBSET S, NEW x \in T, NEW n \in Nat,
           Cardinality(T) <= n + 1
    PROVE  Cardinality(T \ {x}) <= n /\ T \ {x} \in SUBSET S
<1>1. IsFiniteSet(T)
  BY FS_Subset
<1>2. Cardinality(T \ {x}) = Cardinality(T) - 1 /\ Cardinality(T) \in Nat
  BY <1>1, FS_RemoveElement, FS_CardinalityType
<1>3. QED BY <1>2

LEMMA NoneLeft ==
    ASSUME NEW S, IsFiniteSet(S), NEW T \in SUBSET S
    PROVE  Cardinality(T) <= 0 <=> T = {}
<1>1. IsFiniteSet(T)
  BY FS_Subset
<1>2. Cardinality(T) \in Nat
  BY <1>1, FS_CardinalityType
<1>3. QED BY <1>1, <1>2, FS_EmptySet

\* Such a function exists,
LEMMA IterationExists ==
    ASSUME NEW S, IsFiniteSet(S), NEW B, NEW b \in B, NEW pick, Picks(pick, S),
           NEW g \in [S \X B -> B]
    PROVE  \E it \in [SUBSET S -> B] : Iterates(it, S, b, pick, g)
<1> DEFINE Small(n) == {T \in SUBSET S : Cardinality(T) <= n}
           Next(it, T) == IF T = {} THEN b ELSE g[<<pick[T], it[T \ {pick[T]}]>>]
           Good == {n \in Nat : \E it \in [Small(n) -> B] : \A T \in Small(n) : it[T] = Next(it, T)}
<1>1. 0 \in Good
  <2> DEFINE it == [T \in Small(0) |-> b]
  <2>1. it \in [Small(0) -> B] /\ \A T \in Small(0) : it[T] = b
    OBVIOUS
  <2>2. \A T \in Small(0) : T = {}
    BY NoneLeft
  <2> HIDE DEF it
  <2>3. QED BY <2>1, <2>2
<1>2. ASSUME NEW n \in Nat, n \in Good
      PROVE  n + 1 \in Good
  <2>1. PICK it \in [Small(n) -> B] : \A T \in Small(n) : it[T] = Next(it, T)
    BY <1>2
  <2> DEFINE h == [T \in Small(n + 1) |-> Next(it, T)]
  <2>2. ASSUME NEW T \in Small(n + 1), T # {}
        PROVE  pick[T] \in T /\ T \ {pick[T]} \in Small(n)
    BY <2>2, SmallerRest DEF Picks
  <2>3. h \in [Small(n + 1) -> B]
    <3> SUFFICES ASSUME NEW T \in Small(n + 1) PROVE Next(it, T) \in B
      OBVIOUS
    <3>1. CASE T = {}
      BY <3>1
    <3>2. CASE T # {}
      <4>1. it[T \ {pick[T]}] \in B /\ pick[T] \in S
        BY <2>2, <3>2
      <4>2. QED BY <3>2, <4>1
    <3>3. QED BY <3>1, <3>2
  <2>4. \A T \in Small(n) : T \in Small(n + 1) /\ h[T] = it[T]
    <3>1. \A T \in Small(n) : T \in Small(n + 1)
      <4> SUFFICES ASSUME NEW T \in Small(n) PROVE Cardinality(T) <= n + 1
        OBVIOUS
      <4>1. Cardinality(T) \in Nat
        BY FS_Subset, FS_CardinalityType
      <4>2. QED BY <4>1
    <3>2. QED BY <2>1, <3>1
  <2>5. \A T \in Small(n + 1) : h[T] = Next(h, T)
    <3> SUFFICES ASSUME NEW T \in Small(n + 1) PROVE h[T] = Next(h, T)
      OBVIOUS
    <3>1. CASE T = {}
      BY <3>1
    <3>2. CASE T # {}
      <4>1. h[T \ {pick[T]}] = it[T \ {pick[T]}]
        BY <2>2, <2>4, <3>2
      <4>2. QED BY <3>2, <4>1
    <3>3. QED BY <3>1, <3>2
  <2> HIDE DEF h, Small, Next
  <2>6. QED BY <2>3, <2>5
<1>3. \A n \in Nat : n \in Good
  <2> HIDE DEF Good
  <2>1. QED BY <1>1, <1>2, SetInduction
<1>4. Cardinality(S) \in Nat /\ \A T \in SUBSET S : Cardinality(T) <= Cardinality(S)
  BY FS_CardinalityType, FS_Subset
<1>5. Small(Cardinality(S)) = SUBSET S
  BY <1>4
<1>6. PICK it \in [SUBSET S -> B] : \A T \in SUBSET S : it[T] = Next(it, T)
  <2> HIDE DEF Small, Next
  <2>1. \E it \in [Small(Cardinality(S)) -> B] :
            \A T \in Small(Cardinality(S)) : it[T] = Next(it, T)
    BY <1>3, <1>4
  <2>2. QED BY <1>5, <2>1
<1>7. it = [T \in SUBSET S |-> Next(it, T)]
  BY <1>6
<1>8. QED BY <1>7 DEF Iterates

------------------------------------------------------------------------------
(* Sums *)

Some(T) == CHOOSE x \in T : TRUE

Adds(sum, S, f) ==
    /\ sum[{}] = 0
    /\ \A T \in SUBSET S : T # {} => sum[T] = f[Some(T)] + sum[T \ {Some(T)}]

LEMMA SumIterates ==
    ASSUME NEW S, IsFiniteSet(S), NEW f, \A x \in S : f[x] \in Int
    PROVE  \E sum \in [SUBSET S -> Int] : Adds(sum, S, f)
<1> DEFINE pick == [T \in SUBSET S |-> Some(T)]
           g == [pair \in S \X Int |-> f[pair[1]] + pair[2]]
<1>1. Picks(pick, S) /\ \A T \in SUBSET S : pick[T] = Some(T)
  BY DEF Picks, Some
<1>2. g \in [S \X Int -> Int] /\ \A x \in S, v \in Int : g[<<x, v>>] = f[x] + v
  OBVIOUS
<1> HIDE DEF pick, g
<1>3. 0 \in Int
  OBVIOUS
<1>4. PICK it \in [SUBSET S -> Int] : Iterates(it, S, 0, pick, g)
  BY <1>1, <1>2, <1>3, IterationExists
<1>5. it[{}] = 0
  BY <1>4 DEF Iterates
<1>6. ASSUME NEW T \in SUBSET S, T # {}
      PROVE  it[T] = f[Some(T)] + it[T \ {Some(T)}]
  <2>1. it[T] = g[<<pick[T], it[T \ {pick[T]}]>>]
    BY <1>4, <1>6 DEF Iterates
  <2>2. pick[T] \in S /\ pick[T] = Some(T)
    BY <1>1, <1>6 DEF Picks
  <2>3. it[T \ {Some(T)}] \in Int
    OBVIOUS
  <2>4. QED BY <1>2, <2>1, <2>2, <2>3
<1>7. QED BY <1>4, <1>5, <1>6 DEF Adds

LEMMA SumAdds ==
    ASSUME NEW S, IsFiniteSet(S), NEW f, \A x \in S : f[x] \in Int
    PROVE  \E sum : Adds(sum, S, f) /\ SumFunctionOnSet(f, S) = sum[S]
<1> DEFINE Next(it, s) == IF s = {} THEN 0
                          ELSE f[CHOOSE x \in s : TRUE] + it[s \ {CHOOSE x \in s : TRUE}]
           F(it) == [s \in SUBSET S |-> Next(it, s)]
           sum == CHOOSE it : it = F(it)
<1>1. SumFunctionOnSet(f, S) = sum[S]
  BY Zenon DEF SumFunctionOnSet, FoldFunctionOnSet, MapThenFoldSet
<1>2. PICK it \in [SUBSET S -> Int] : Adds(it, S, f)
  BY SumIterates
<1>3. \A T \in SUBSET S : it[T] = Next(it, T)
  BY <1>2 DEF Adds, Some
<1>4. it = F(it)
  <2> HIDE DEF Next
  <2>1. QED BY <1>3
<1>5. sum = F(sum)
  <2> HIDE DEF F
  <2>1. QED BY <1>4, Zenon
<1>6. \A T \in SUBSET S : sum[T] = Next(sum, T)
  <2> HIDE DEF Next, sum
  <2>1. QED BY <1>5
<1> HIDE DEF sum
<1>7. Adds(sum, S, f)
  BY <1>6 DEF Adds, Some
<1>8. QED BY <1>1, <1>7

\* What adds up in this order is typed and determined, on a subset too.
LEMMA AddsUnique ==
    ASSUME NEW S, IsFiniteSet(S), NEW f, \A x \in S : f[x] \in Int, NEW T \in SUBSET S,
           NEW sum, Adds(sum, S, f), NEW part, Adds(part, T, f)
    PROVE  \A R \in SUBSET T : part[R] \in Int /\ sum[R] = part[R]
<1> DEFINE Good == {n \in Nat : \A R \in SUBSET T :
                       Cardinality(R) <= n => part[R] \in Int /\ sum[R] = part[R]}
<1>1. 0 \in Good
  <2>1. ASSUME NEW R \in SUBSET T, Cardinality(R) <= 0
        PROVE  R = {}
    <3>1. R \in SUBSET S
      OBVIOUS
    <3>2. QED BY <2>1, <3>1, NoneLeft
  <2>2. part[{}] = 0 /\ sum[{}] = 0
    BY DEF Adds
  <2>3. QED BY <2>1, <2>2
<1>2. ASSUME NEW n \in Nat, n \in Good
      PROVE  n + 1 \in Good
  <2> SUFFICES ASSUME NEW R \in SUBSET T, Cardinality(R) <= n + 1
               PROVE  part[R] \in Int /\ sum[R] = part[R]
    OBVIOUS
  <2>1. CASE R = {}
    BY <2>1 DEF Adds
  <2>2. CASE R # {}
    <3>1. Some(R) \in R /\ Some(R) \in S /\ R \in SUBSET S
      BY <2>2 DEF Some
    <3> DEFINE Q == R \ {Some(R)}
    <3>2. Q \in SUBSET T /\ Cardinality(Q) <= n
      BY <3>1, SmallerRest
    <3> HIDE DEF Q
    <3>3. part[Q] \in Int /\ sum[Q] = part[Q]
      BY <1>2, <3>2
    <3>4. part[R] = f[Some(R)] + part[Q] /\ sum[R] = f[Some(R)] + sum[Q]
      BY <2>2, <3>1 DEF Adds, Q
    <3>5. f[Some(R)] \in Int
      BY <3>1
    <3>6. QED BY <3>3, <3>4, <3>5
  <2>3. QED BY <2>1, <2>2
<1>3. \A n \in Nat : n \in Good
  <2> HIDE DEF Good
  <2>1. QED BY <1>1, <1>2, SetInduction
<1>4. \A R \in SUBSET T : Cardinality(R) \in Nat /\ Cardinality(R) <= Cardinality(R)
  <2> SUFFICES ASSUME NEW R \in SUBSET T
               PROVE  Cardinality(R) \in Nat
    OBVIOUS
  <2>1. R \in SUBSET S
    OBVIOUS
  <2>2. QED BY <2>1, FS_Subset, FS_CardinalityType
<1>5. QED BY <1>3, <1>4

\* One step of the sum, for the element CHOOSE picks.
LEMMA SumStep ==
    ASSUME NEW S, IsFiniteSet(S), NEW f, \A x \in S : f[x] \in Int
    PROVE  /\ SumFunctionOnSet(f, S) \in Int
           /\ S = {} => SumFunctionOnSet(f, S) = 0
           /\ S # {} => \E x \in S :
                 SumFunctionOnSet(f, S) = f[x] + SumFunctionOnSet(f, S \ {x})
<1>1. PICK sum : Adds(sum, S, f) /\ SumFunctionOnSet(f, S) = sum[S]
  BY SumAdds
<1>2. S \in SUBSET S
  OBVIOUS
<1>3. sum[S] \in Int
  BY <1>1, <1>2, AddsUnique
<1>4. ASSUME S # {}
      PROVE  \E x \in S : SumFunctionOnSet(f, S) = f[x] + SumFunctionOnSet(f, S \ {x})
  <2> DEFINE R == S \ {Some(S)}
  <2>1. Some(S) \in S
    BY <1>4 DEF Some
  <2>2. sum[S] = f[Some(S)] + sum[R]
    BY <1>1, <1>2, <1>4 DEF Adds
  <2>3. R \in SUBSET S /\ IsFiniteSet(R) /\ R \in SUBSET R
    BY FS_Subset
  <2>4. \A x \in R : f[x] \in Int
    OBVIOUS
  <2>5. SumFunctionOnSet(f, R) = sum[R]
    <3> HIDE DEF R
    <3>1. PICK part : Adds(part, R, f) /\ SumFunctionOnSet(f, R) = part[R]
      BY <2>3, <2>4, SumAdds
    <3>2. sum[R] = part[R]
      BY <1>1, <2>3, <3>1, AddsUnique
    <3>3. QED BY <3>1, <3>2
  <2>6. QED BY <1>1, <2>1, <2>2, <2>5
<1>5. S = {} => sum[S] = 0
  BY <1>1 DEF Adds
<1>6. QED BY <1>1, <1>3, <1>4, <1>5

\* Any element can be taken out of a sum.
THEOREM SumTakesOut ==
    ASSUME NEW U, IsFiniteSet(U), NEW f, \A x \in U : f[x] \in Int,
           NEW S \in SUBSET U, NEW x \in S
    PROVE  SumFunctionOnSet(f, S) = f[x] + SumFunctionOnSet(f, S \ {x})
<1> DEFINE Sum(T) == SumFunctionOnSet(f, T)
           Good == {n \in Nat : \A T \in SUBSET U : Cardinality(T) <= n =>
                                   \A y \in T : Sum(T) = f[y] + Sum(T \ {y})}
<1>1. ASSUME NEW T \in SUBSET U
      PROVE  Sum(T) \in Int /\ (T # {} => \E y \in T : Sum(T) = f[y] + Sum(T \ {y}))
  <2>1. IsFiniteSet(T) /\ \A y \in T : f[y] \in Int
    BY FS_Subset
  <2>2. QED BY <2>1, SumStep
<1> HIDE DEF Sum
<1>2. 0 \in Good
  BY NoneLeft
<1>3. ASSUME NEW n \in Nat, n \in Good
      PROVE  n + 1 \in Good
  <2> SUFFICES ASSUME NEW T \in SUBSET U, Cardinality(T) <= n + 1, NEW y \in T
               PROVE  Sum(T) = f[y] + Sum(T \ {y})
    OBVIOUS
  <2>1. PICK z \in T : Sum(T) = f[z] + Sum(T \ {z})
    BY <1>1
  <2>2. CASE y = z
    BY <2>1, <2>2
  <2>3. CASE y # z
    <3>1. /\ T \ {y} \in SUBSET U /\ Cardinality(T \ {y}) <= n /\ z \in T \ {y}
          /\ T \ {z} \in SUBSET U /\ Cardinality(T \ {z}) <= n /\ y \in T \ {z}
      BY <2>3, SmallerRest
    <3>2. /\ Sum(T \ {y}) = f[z] + Sum((T \ {y}) \ {z})
          /\ Sum(T \ {z}) = f[y] + Sum((T \ {z}) \ {y})
      BY <1>3, <3>1
    <3>3. (T \ {y}) \ {z} = (T \ {z}) \ {y} /\ Sum((T \ {z}) \ {y}) \in Int
      BY <1>1
    <3> DEFINE rest == Sum((T \ {z}) \ {y})
    <3>4. f[y] \in Int /\ f[z] \in Int /\ rest \in Int
      BY <3>3
    <3>5. Sum(T) = f[z] + (f[y] + rest) /\ Sum(T \ {y}) = f[z] + rest
      BY <2>1, <3>2, <3>3
    <3> HIDE DEF rest
    <3>6. QED BY <3>4, <3>5
  <2>4. QED BY <2>2, <2>3
<1>4. \A n \in Nat : n \in Good
  <2> HIDE DEF Good
  <2>1. QED BY <1>2, <1>3, SetInduction
<1>5. Cardinality(S) \in Nat /\ Cardinality(S) <= Cardinality(S)
  BY FS_Subset, FS_CardinalityType
<1>6. Sum(S) = f[x] + Sum(S \ {x})
  BY <1>4, <1>5
<1>7. QED BY <1>6 DEF Sum

\* A sum depends on the values of its set only.
THEOREM SumAgrees ==
    ASSUME NEW U, IsFiniteSet(U), NEW f, NEW h, \A x \in U : f[x] \in Int /\ h[x] \in Int,
           NEW S \in SUBSET U, \A x \in S : f[x] = h[x]
    PROVE  SumFunctionOnSet(f, S) = SumFunctionOnSet(h, S)
<1> DEFINE Sum(k, T) == SumFunctionOnSet(k, T)
           Good == {n \in Nat : \A T \in SUBSET S : Cardinality(T) <= n => Sum(f, T) = Sum(h, T)}
<1>1. /\ Sum(f, {}) = 0 /\ Sum(h, {}) = 0
      /\ \A T \in SUBSET S, y \in S : y \in T =>
            /\ Sum(f, T) = f[y] + Sum(f, T \ {y})
            /\ Sum(h, T) = h[y] + Sum(h, T \ {y})
  <2>1. Sum(f, {}) = 0 /\ Sum(h, {}) = 0
    BY SumStep, FS_EmptySet
  <2>2. ASSUME NEW T \in SUBSET S, NEW y \in T
        PROVE  /\ Sum(f, T) = f[y] + Sum(f, T \ {y})
               /\ Sum(h, T) = h[y] + Sum(h, T \ {y})
    <3>1. T \in SUBSET U
      OBVIOUS
    <3>2. QED BY <3>1, SumTakesOut
  <2> HIDE DEF Sum
  <2>3. QED BY <2>1, <2>2
<1> HIDE DEF Sum
<1>2. IsFiniteSet(S)
  BY FS_Subset
<1>3. 0 \in Good
  BY <1>1, <1>2, NoneLeft
<1>4. ASSUME NEW n \in Nat, n \in Good
      PROVE  n + 1 \in Good
  <2> SUFFICES ASSUME NEW T \in SUBSET S, Cardinality(T) <= n + 1
               PROVE  Sum(f, T) = Sum(h, T)
    OBVIOUS
  <2>1. CASE T = {}
    BY <1>1, <2>1
  <2>2. CASE T # {}
    <3>1. PICK y \in T : TRUE
      BY <2>2
    <3>2. T \ {y} \in SUBSET S /\ Cardinality(T \ {y}) <= n
      BY <1>2, SmallerRest
    <3>3. Sum(f, T \ {y}) = Sum(h, T \ {y}) /\ f[y] = h[y]
      BY <1>4, <3>2
    <3>4. QED BY <1>1, <3>3
  <2>3. QED BY <2>1, <2>2
<1>5. \A n \in Nat : n \in Good
  <2> HIDE DEF Good
  <2>1. QED BY <1>3, <1>4, SetInduction
<1>6. Cardinality(S) \in Nat /\ Cardinality(S) <= Cardinality(S)
  BY <1>2, FS_CardinalityType
<1>7. Sum(f, S) = Sum(h, S)
  BY <1>5, <1>6
<1>8. QED BY <1>7 DEF Sum

------------------------------------------------------------------------------
(* FlattenSeq *)

Flattens(fl, ss) ==
    \A i \in 1..Len(ss) : fl[i] = IF i = 1 THEN ss[i] ELSE fl[i - 1] \o ss[i]

LEMMA FlattenExists ==
    ASSUME NEW A, NEW ss \in Seq(Seq(A))
    PROVE  \E fl \in [1..Len(ss) -> Seq(A)] : Flattens(fl, ss)
<1> DEFINE N == Len(ss)
           Next(fl, i) == IF i = 1 THEN ss[i] ELSE fl[i - 1] \o ss[i]
           Begun(n) == \E fl \in [1..n -> Seq(A)] : \A i \in 1..n : fl[i] = Next(fl, i)
           Good == {n \in Nat : n <= N => Begun(n)}
<1>1. N \in Nat /\ \A i \in 1..N : ss[i] \in Seq(A)
  OBVIOUS
<1>2. 0 \in Good
  <2>1. 1..0 = {}
    OBVIOUS
  <2>2. [i \in {} |-> <<>>] \in [{} -> Seq(A)]
    OBVIOUS
  <2> HIDE DEF Next
  <2>3. QED BY <2>1, <2>2
<1>3. ASSUME NEW n \in Nat, n \in Good
      PROVE  n + 1 \in Good
  <2> SUFFICES ASSUME n + 1 <= N PROVE Begun(n + 1)
    <3> HIDE DEF Begun, N
    <3> QED OBVIOUS
  <2>0. n <= N
    BY <1>1
  <2>1. PICK fl \in [1..n -> Seq(A)] : \A i \in 1..n : fl[i] = Next(fl, i)
    <3> HIDE DEF Next, N
    <3>1. QED BY <1>3, <2>0
  <2> HIDE DEF N
  <2> DEFINE gl == [i \in 1..n + 1 |-> Next(fl, i)]
  <2>2. \A i \in 1..n : i \in 1..n + 1 /\ gl[i] = fl[i]
    <3> HIDE DEF Next
    <3>1. QED BY <2>1
  <2>3. \A i \in 1..n + 1 : i # 1 => i - 1 \in 1..n
    OBVIOUS
  <2>4. \A i \in 1..n + 1 : Next(fl, i) \in Seq(A)
    <3> SUFFICES ASSUME NEW i \in 1..n + 1 PROVE Next(fl, i) \in Seq(A)
      OBVIOUS
    <3>1. ss[i] \in Seq(A)
      BY <1>1
    <3>2. CASE i = 1
      BY <3>1, <3>2
    <3>3. CASE i # 1
      <4>1. fl[i - 1] \in Seq(A)
        BY <2>3, <3>3
      <4>2. QED BY <3>1, <3>3, <4>1
    <3>4. QED BY <3>2, <3>3
  <2>5. gl \in [1..n + 1 -> Seq(A)]
    <3> HIDE DEF Next
    <3>1. QED BY <2>4
  <2>6. ASSUME NEW i \in 1..n + 1
        PROVE  gl[i] = Next(gl, i)
    <3>1. gl[i] = Next(fl, i)
      OBVIOUS
    <3>2. i # 1 => gl[i - 1] = fl[i - 1]
      BY <2>2, <2>3
    <3> HIDE DEF gl
    <3>3. QED BY <3>1, <3>2
  <2> HIDE DEF gl, Next
  <2>7. QED BY <2>5, <2>6
<1>4. \A n \in Nat : n \in Good
  <2> HIDE DEF Good
  <2>1. QED BY <1>2, <1>3, SetInduction
<1>5. N <= N
  BY <1>1
<1>6. \E fl \in [1..N -> Seq(A)] : \A i \in 1..N : fl[i] = Next(fl, i)
  <2> HIDE DEF Next, N
  <2>1. QED BY <1>1, <1>4, <1>5
<1>7. QED BY <1>6 DEF Flattens

Begins(ss, tt) == Len(ss) <= Len(tt) /\ \A i \in 1..Len(ss) : tt[i] = ss[i]

\* What flattens a sequence flattens its beginning in the same way.
LEMMA FlattensAgree ==
    ASSUME NEW A, NEW ss \in Seq(Seq(A)), NEW tt \in Seq(Seq(A)),
           Begins(ss, tt), NEW fl, Flattens(fl, ss), NEW gl, Flattens(gl, tt)
    PROVE  \A i \in 1..Len(ss) : fl[i] = gl[i]
<1> DEFINE N == Len(ss)
           M == Len(tt)
           Good == {n \in Nat : n \in 1..N => fl[n] = gl[n]}
<1>1. N \in Nat /\ M \in Nat /\ N <= M
  BY DEF Begins
<1>2. 0 \in Good
  OBVIOUS
<1>3. ASSUME NEW n \in Nat, n \in Good
      PROVE  n + 1 \in Good
  <2> SUFFICES ASSUME n + 1 \in 1..N PROVE fl[n + 1] = gl[n + 1]
    OBVIOUS
  <2>1. n + 1 \in 1..M
    BY <1>1
  <2>2. /\ fl[n + 1] = IF n + 1 = 1 THEN ss[n + 1] ELSE fl[(n + 1) - 1] \o ss[n + 1]
        /\ gl[n + 1] = IF n + 1 = 1 THEN tt[n + 1] ELSE gl[(n + 1) - 1] \o tt[n + 1]
        /\ tt[n + 1] = ss[n + 1]
    BY <2>1 DEF Flattens, Begins
  <2> HIDE DEF N, M
  <2>3. (n + 1) - 1 = n /\ (n + 1 # 1 => n \in 1..N)
    BY <1>1
  <2>4. QED BY <1>3, <2>2, <2>3
<1>4. \A n \in Nat : n \in Good
  <2> HIDE DEF Good
  <2>1. QED BY <1>2, <1>3, SetInduction
<1>5. QED BY <1>4

LEMMA FlattenUnfolds ==
    ASSUME NEW A, NEW ss \in Seq(Seq(A)), ss # <<>>
    PROVE  \E fl : Flattens(fl, ss) /\ FlattenSeq(ss) = fl[Len(ss)]
<1> DEFINE Next(fl, i) == IF i = 1 THEN ss[i] ELSE fl[i - 1] \o ss[i]
           F(fl) == [i \in 1..Len(ss) |-> Next(fl, i)]
           flat == CHOOSE fl : fl = F(fl)
<1>1. Len(ss) # 0
  OBVIOUS
<1>2. FlattenSeq(ss) = flat[Len(ss)]
  BY <1>1, Zenon DEF FlattenSeq
<1>3. PICK fl \in [1..Len(ss) -> Seq(A)] : Flattens(fl, ss)
  BY FlattenExists
<1>4. \A i \in 1..Len(ss) : fl[i] = Next(fl, i)
  BY <1>3 DEF Flattens
<1>5. fl = F(fl)
  <2> HIDE DEF Next
  <2>1. QED BY <1>4
<1>6. flat = F(flat)
  <2> HIDE DEF F
  <2>1. QED BY <1>5, Zenon
<1>7. \A i \in 1..Len(ss) : flat[i] = Next(flat, i)
  <2> HIDE DEF Next, flat
  <2>1. QED BY <1>6
<1> HIDE DEF flat
<1>8. Flattens(flat, ss)
  BY <1>7 DEF Flattens
<1>9. QED BY <1>2, <1>8

THEOREM FlattenEmpty == FlattenSeq(<<>>) = <<>>
<1>1. Len(<<>>) = 0
  OBVIOUS
<1>2. QED BY <1>1, Zenon DEF FlattenSeq

\* Flattening stays within the elements,
THEOREM FlattenTyped ==
    ASSUME NEW A, NEW ss \in Seq(Seq(A))
    PROVE  FlattenSeq(ss) \in Seq(A)
<1>1. CASE ss = <<>>
  <2>1. <<>> \in Seq(A)
    OBVIOUS
  <2>2. QED BY <1>1, <2>1, FlattenEmpty
<1>2. CASE ss # <<>>
  <2>1. PICK fl : Flattens(fl, ss) /\ FlattenSeq(ss) = fl[Len(ss)]
    BY <1>2, FlattenUnfolds
  <2>2. PICK gl \in [1..Len(ss) -> Seq(A)] : Flattens(gl, ss)
    BY FlattenExists
  <2>3. Len(ss) \in 1..Len(ss) /\ Begins(ss, ss)
    BY <1>2 DEF Begins
  <2>4. \A i \in 1..Len(ss) : fl[i] = gl[i]
    BY <2>1, <2>2, <2>3, FlattensAgree
  <2>5. QED BY <2>1, <2>2, <2>3, <2>4
<1>3. QED BY <1>1, <1>2

\* and goes on with what comes last.
THEOREM FlattenAppend ==
    ASSUME NEW A, NEW ss \in Seq(Seq(A)), NEW s \in Seq(A)
    PROVE  FlattenSeq(Append(ss, s)) = FlattenSeq(ss) \o s
<1> DEFINE tt == Append(ss, s)
           n == Len(ss)
<1>1. /\ tt \in Seq(Seq(A)) /\ Len(tt) = n + 1 /\ n \in Nat /\ tt[n + 1] = s
      /\ \A i \in 1..n : tt[i] = ss[i]
      /\ tt # <<>>
  BY AppendProperties
<1>2. PICK gl : Flattens(gl, tt) /\ FlattenSeq(tt) = gl[Len(tt)]
  <2> HIDE DEF tt
  <2>1. QED BY <1>1, FlattenUnfolds
<1>3. gl[n + 1] = IF n + 1 = 1 THEN s ELSE gl[(n + 1) - 1] \o s
  <2> HIDE DEF tt, n
  <2>1. n + 1 \in 1..Len(tt)
    BY <1>1
  <2>2. QED BY <1>1, <1>2, <2>1 DEF Flattens
<1>4. CASE ss = <<>>
  <2>1. n = 0 /\ <<>> \o s = s
    BY <1>4
  <2> HIDE DEF tt, n
  <2>2. FlattenSeq(tt) = s
    BY <1>1, <1>2, <1>3, <2>1
  <2>3. FlattenSeq(ss) \o s = s
    BY <1>4, <2>1, FlattenEmpty
  <2>4. QED BY <2>2, <2>3 DEF tt
<1>5. CASE ss # <<>>
  <2>1. PICK fl : Flattens(fl, ss) /\ FlattenSeq(ss) = fl[n]
    BY <1>5, FlattenUnfolds
  <2>2. n \in 1..n /\ n <= Len(tt)
    BY <1>1, <1>5
  <2>3. fl[n] = gl[n]
    <3>1. \A i \in 1..n : fl[i] = gl[i]
      <4> HIDE DEF tt
      <4>1. /\ Flattens(fl, ss) /\ Flattens(gl, tt)
            /\ tt \in Seq(Seq(A)) /\ Begins(ss, tt)
        BY <1>1, <1>2, <2>1, <2>2 DEF Begins
      <4> HIDE DEF n
      <4>2. \A i \in 1..Len(ss) : fl[i] = gl[i]
        BY <4>1, FlattensAgree
      <4>3. QED BY <4>2 DEF n
    <3>2. QED BY <2>2, <3>1
  <2> HIDE DEF tt, n
  <2>4. n + 1 # 1 /\ (n + 1) - 1 = n
    BY <1>1, <2>2
  <2>5. FlattenSeq(tt) = FlattenSeq(ss) \o s
    BY <1>1, <1>2, <1>3, <2>1, <2>3, <2>4
  <2>6. QED BY <2>5 DEF tt
<1>6. QED BY <1>4, <1>5

------------------------------------------------------------------------------
(* Texts put in the place of tokens *)

\* The sequence p with m[a] in the place of every a.
Spelled(p, m) == FlattenSeq([i \in DOMAIN p |-> m[p[i]]])

LEMMA SpelledTyped ==
    ASSUME NEW A, NEW B, NEW m \in [A -> Seq(B)], NEW p \in Seq(A)
    PROVE  /\ [i \in DOMAIN p |-> m[p[i]]] \in Seq(Seq(B))
           /\ Spelled(p, m) \in Seq(B)
<1>1. [i \in DOMAIN p |-> m[p[i]]] \in Seq(Seq(B))
  <2>1. Len(p) \in Nat /\ DOMAIN p = 1..Len(p) /\ \A i \in 1..Len(p) : m[p[i]] \in Seq(B)
    BY LenProperties
  <2> DEFINE n == Len(p)
             ss == [i \in 1..n |-> m[p[i]]]
  <2> SUFFICES ss \in Seq(Seq(B))
    BY <2>1
  <2>2. n \in Nat /\ ss \in [1..n -> Seq(B)]
    BY <2>1
  <2> HIDE DEF n, ss
  <2>3. QED BY <2>2
<1>2. QED BY <1>1, FlattenTyped DEF Spelled

LEMMA SpelledEmpty ==
    ASSUME NEW m
    PROVE  Spelled(<<>>, m) = <<>>
<1>1. [i \in DOMAIN <<>> |-> m[<<>>[i]]] = <<>>
  OBVIOUS
<1>2. QED BY <1>1, FlattenEmpty DEF Spelled

LEMMA SpelledAppend ==
    ASSUME NEW A, NEW B, NEW m \in [A -> Seq(B)], NEW p \in Seq(A), NEW a \in A
    PROVE  Spelled(Append(p, a), m) = Spelled(p, m) \o m[a]
<1> DEFINE q == Append(p, a)
           ss == [i \in DOMAIN p |-> m[p[i]]]
           tt == [i \in DOMAIN q |-> m[q[i]]]
           n == Len(p)
<1>1. /\ n \in Nat /\ DOMAIN p = 1..n /\ q \in Seq(A) /\ Len(q) = n + 1
      /\ q[n + 1] = a /\ \A i \in 1..n : q[i] = p[i]
  BY AppendProperties
<1>2. DOMAIN q = 1..n + 1
  <2> HIDE DEF q, n
  <2>1. QED BY <1>1
<1>3. ss \in Seq(Seq(B)) /\ tt \in Seq(Seq(B)) /\ m[a] \in Seq(B)
  <2> HIDE DEF q
  <2>1. QED BY <1>1, SpelledTyped
<1>4. Len(ss) = n /\ Len(tt) = n + 1
  <2> HIDE DEF q, n
  <2>1. QED BY <1>1, <1>2
<1>5. /\ tt[n + 1] = m[a]
      /\ \A i \in 1..n : tt[i] = ss[i]
  <2> HIDE DEF q, n
  <2>1. \A i \in 1..n : i \in 1..n + 1
    BY <1>1
  <2>2. n + 1 \in 1..n + 1
    BY <1>1
  <2>3. QED BY <1>1, <1>2, <2>1, <2>2
<1> HIDE DEF ss, tt, q, n
<1>6. tt = Append(ss, m[a])
  <2> DEFINE uu == Append(ss, m[a])
  <2>1. /\ uu \in Seq(Seq(B)) /\ Len(uu) = n + 1
        /\ uu[n + 1] = m[a] /\ \A i \in 1..n : uu[i] = ss[i]
    BY <1>3, <1>4, AppendProperties
  <2>2. \A i \in 1..n + 1 : i = n + 1 \/ i \in 1..n
    BY <1>1
  <2> HIDE DEF uu
  <2>3. \A i \in 1..Len(tt) : tt[i] = uu[i]
    BY <1>4, <1>5, <2>1, <2>2
  <2>4. tt = uu
    BY <1>3, <1>4, <2>1, <2>3, SeqEqual
  <2>5. QED BY <2>4 DEF uu
<1>7. FlattenSeq(tt) = FlattenSeq(ss) \o m[a]
  BY <1>3, <1>6, FlattenAppend
<1>8. QED BY <1>7 DEF Spelled, q, ss, tt

\* Induction over the sequences of a set.
LEMMA AppendInduction ==
    ASSUME NEW A, NEW T, <<>> \in T, \A p \in Seq(A), a \in A : p \in T => Append(p, a) \in T
    PROVE  Seq(A) \subseteq T
<1> DEFINE Good == {n \in Nat : \A p \in Seq(A) : Len(p) = n => p \in T}
<1>1. 0 \in Good
  <2>1. \A p \in Seq(A) : Len(p) = 0 => p = <<>>
    OBVIOUS
  <2>2. QED BY <2>1
<1>2. ASSUME NEW n \in Nat, n \in Good
      PROVE  n + 1 \in Good
  <2> SUFFICES ASSUME NEW p \in Seq(A), Len(p) = n + 1 PROVE p \in T
    OBVIOUS
  <2>1. p # <<>>
    OBVIOUS
  <2>2. PICK q \in Seq(A), a \in A : p = Append(q, a)
    BY <2>1, SequenceEmptyOrAppend
  <2>3. Len(q) = n
    BY <2>2
  <2>4. q \in T
    BY <1>2, <2>3
  <2>5. QED BY <2>2, <2>4
<1>3. \A n \in Nat : n \in Good
  <2> HIDE DEF Good
  <2>1. QED BY <1>1, <1>2, SetInduction
<1>4. QED BY <1>3

LEMMA SpelledConcat ==
    ASSUME NEW A, NEW B, NEW m \in [A -> Seq(B)], NEW p \in Seq(A), NEW q \in Seq(A)
    PROVE  Spelled(p \o q, m) = Spelled(p, m) \o Spelled(q, m)
<1> DEFINE T == {r \in Seq(A) : Spelled(p \o r, m) = Spelled(p, m) \o Spelled(r, m)}
<1>1. <<>> \in T
  <2>1. Spelled(p, m) \in Seq(B)
    BY SpelledTyped
  <2>2. p \o <<>> = p /\ Spelled(p, m) \o <<>> = Spelled(p, m)
    BY <2>1, ConcatEmptySeq
  <2>3. <<>> \in Seq(A) /\ Spelled(<<>>, m) = <<>>
    BY SpelledEmpty
  <2>4. Spelled(p \o <<>>, m) = Spelled(p, m) \o Spelled(<<>>, m)
    BY <2>2, <2>3
  <2>5. QED BY <2>3, <2>4
<1>2. ASSUME NEW r \in Seq(A), NEW a \in A, r \in T
      PROVE  Append(r, a) \in T
  <2>1. Append(r, a) \in Seq(A) /\ p \o r \in Seq(A)
    BY ConcatProperties
  <2>2. p \o Append(r, a) = Append(p \o r, a)
    <3>1. p \o Append(r, a) \in Seq(A) /\ Append(p \o r, a) \in Seq(A)
      BY <2>1, ConcatProperties
    <3>2. <<a>> \in Seq(A) /\ Append(r, a) = r \o <<a>> /\ Append(p \o r, a) = (p \o r) \o <<a>>
      BY <2>1, AppendIsConcat
    <3>3. QED BY <3>2, ConcatAssociative
  <2>3. /\ Spelled(p \o Append(r, a), m) = Spelled(p \o r, m) \o m[a]
        /\ Spelled(Append(r, a), m) = Spelled(r, m) \o m[a]
    BY <2>1, <2>2, SpelledAppend
  <2>4. Spelled(p, m) \in Seq(B) /\ Spelled(r, m) \in Seq(B) /\ m[a] \in Seq(B)
    BY SpelledTyped
  <2>5. Spelled(p \o r, m) = Spelled(p, m) \o Spelled(r, m)
    BY <1>2
  <2>6. (Spelled(p, m) \o Spelled(r, m)) \o m[a] = Spelled(p, m) \o (Spelled(r, m) \o m[a])
    BY <2>4, ConcatAssociative
  <2>7. QED BY <2>1, <2>3, <2>5, <2>6
<1>3. Seq(A) \subseteq T
  <2> HIDE DEF T
  <2>1. QED BY <1>1, <1>2, AppendInduction
<1>4. QED BY <1>3

\* On single tokens, mr is m and then r.
Chains(m, r, mr, A) ==
    /\ m \in [A -> Seq(A)] /\ r \in [A -> Seq(A)] /\ mr \in [A -> Seq(A)]
    /\ \A a \in A : mr[a] = Spelled(m[a], r)

\* Two substitutions, one after the other, are one.
THEOREM SpelledTwice ==
    ASSUME NEW A, NEW m, NEW r, NEW mr, Chains(m, r, mr, A), NEW p \in Seq(A)
    PROVE  Spelled(Spelled(p, m), r) = Spelled(p, mr)
<1> DEFINE T == {q \in Seq(A) : Spelled(Spelled(q, m), r) = Spelled(q, mr)}
<1>0. m \in [A -> Seq(A)] /\ r \in [A -> Seq(A)] /\ mr \in [A -> Seq(A)]
  BY DEF Chains
<1>1. \A a \in A : mr[a] = Spelled(m[a], r)
  BY DEF Chains
<1>2. <<>> \in T
  BY SpelledEmpty
<1>3. ASSUME NEW q \in Seq(A), NEW a \in A, q \in T
      PROVE  Append(q, a) \in T
  <2>1. Append(q, a) \in Seq(A)
    OBVIOUS
  <2>2. /\ Spelled(Append(q, a), m) = Spelled(q, m) \o m[a]
        /\ Spelled(Append(q, a), mr) = Spelled(q, mr) \o mr[a]
    BY <1>0, SpelledAppend
  <2>3. Spelled(q, m) \in Seq(A) /\ m[a] \in Seq(A)
    BY <1>0, SpelledTyped
  <2>4. Spelled(Spelled(q, m) \o m[a], r) = Spelled(Spelled(q, m), r) \o Spelled(m[a], r)
    <3> DEFINE p1 == Spelled(q, m)
               p2 == m[a]
    <3>1. p1 \in Seq(A) /\ p2 \in Seq(A) /\ r \in [A -> Seq(A)]
      BY <1>0, <2>3
    <3> HIDE DEF p1, p2
    <3>2. Spelled(p1 \o p2, r) = Spelled(p1, r) \o Spelled(p2, r)
      BY <3>1, SpelledConcat
    <3>3. QED BY <3>2 DEF p1, p2
  <2>5. QED BY <1>1, <1>3, <2>1, <2>2, <2>4
<1>4. Seq(A) \subseteq T
  <2> HIDE DEF T
  <2>1. QED BY <1>2, <1>3, AppendInduction
<1>5. QED BY <1>4

Leaves(m, p) == \A i \in DOMAIN p : m[p[i]] = <<p[i]>>

\* What leaves every token of p alone leaves p alone.
THEOREM SpelledSame ==
    ASSUME NEW A, NEW m \in [A -> Seq(A)], NEW p \in Seq(A), Leaves(m, p)
    PROVE  Spelled(p, m) = p
<1> DEFINE one == [a \in A |-> <<a>>]
           T == {q \in Seq(A) : Spelled(q, one) = q}
<1>1. one \in [A -> Seq(A)] /\ \A a \in A : one[a] = <<a>>
  OBVIOUS
<1>2. Spelled(p, m) = Spelled(p, one)
  <2>1. \A i \in DOMAIN p : p[i] \in A
    BY LenProperties
  <2>2. [i \in DOMAIN p |-> m[p[i]]] = [i \in DOMAIN p |-> one[p[i]]]
    BY <2>1 DEF Leaves
  <2>3. QED BY <2>2 DEF Spelled
<1> HIDE DEF one
<1>3. <<>> \in T
  BY SpelledEmpty
<1>4. ASSUME NEW q \in Seq(A), NEW a \in A, q \in T
      PROVE  Append(q, a) \in T
  <2>1. Append(q, a) \in Seq(A) /\ Append(q, a) = q \o <<a>>
    BY AppendIsConcat
  <2>2. Spelled(Append(q, a), one) = Spelled(q, one) \o one[a]
    BY <1>1, SpelledAppend
  <2>3. QED BY <1>1, <1>4, <2>1, <2>2
<1>5. Seq(A) \subseteq T
  <2> HIDE DEF T
  <2>1. QED BY <1>3, <1>4, AppendInduction
<1>6. QED BY <1>2, <1>5

LEMMA OneToken ==
    ASSUME NEW A, NEW a \in A
    PROVE  <<a>> \in Seq(A)
OBVIOUS

LEMMA SpelledSingle ==
    ASSUME NEW A, NEW B, NEW m \in [A -> Seq(B)], NEW a \in A
    PROVE  Spelled(<<a>>, m) = m[a]
<1>1. <<>> \in Seq(A) /\ Append(<<>>, a) = <<a>>
  OBVIOUS
<1>2. Spelled(<<a>>, m) = Spelled(<<>>, m) \o m[a]
  BY <1>1, SpelledAppend
<1>3. Spelled(<<>>, m) = <<>> /\ m[a] \in Seq(B)
  BY SpelledEmpty
<1>4. QED BY <1>2, <1>3, ConcatEmptySeq

LEMMA ToSetConcat ==
    ASSUME NEW A, NEW s \in Seq(A), NEW t \in Seq(A)
    PROVE  ToSet(s \o t) = ToSet(s) \cup ToSet(t)
<1>1. \A u : ToSet(u) = Range(u)
  BY DEF ToSet, Range
<1>2. Range(s \o t) = Range(s) \cup Range(t)
  BY RangeConcatenation
<1>3. QED BY <1>1, <1>2

\* A token is in what is spelled if it is in the text of some token of p.
THEOREM SpelledHolds ==
    ASSUME NEW A, NEW B, NEW m \in [A -> Seq(B)], NEW p \in Seq(A), NEW x
    PROVE  x \in ToSet(Spelled(p, m)) <=> \E i \in DOMAIN p : x \in ToSet(m[p[i]])
<1> DEFINE In(q) == \E i \in DOMAIN q : x \in ToSet(m[q[i]])
           T == {q \in Seq(A) : x \in ToSet(Spelled(q, m)) <=> In(q)}
<1>1. <<>> \in T
  <2>1. ToSet(<<>>) = {} /\ DOMAIN <<>> = {} /\ <<>> \in Seq(A)
    BY DEF ToSet
  <2>2. QED BY <2>1, SpelledEmpty
<1>2. ASSUME NEW q \in Seq(A), NEW a \in A, q \in T
      PROVE  Append(q, a) \in T
  <2> DEFINE qa == Append(q, a)
             n == Len(q)
  <2>1. /\ qa \in Seq(A) /\ Len(qa) = n + 1 /\ n \in Nat /\ qa[n + 1] = a
        /\ \A i \in 1..n : qa[i] = q[i]
        /\ DOMAIN q = 1..n
    BY AppendProperties
  <2>2. DOMAIN qa = 1..n + 1
    <3> HIDE DEF qa, n
    <3>1. QED BY <2>1
  <2>3. Spelled(q, m) \in Seq(B) /\ m[a] \in Seq(B)
    BY SpelledTyped
  <2>4. Spelled(qa, m) = Spelled(q, m) \o m[a]
    BY SpelledAppend
  <2>5. ToSet(Spelled(qa, m)) = ToSet(Spelled(q, m)) \cup ToSet(m[a])
    BY <2>3, <2>4, ToSetConcat
  <2>6. x \in ToSet(Spelled(q, m)) <=> In(q)
    BY <1>2
  <2>7. In(qa) <=> In(q) \/ x \in ToSet(m[a])
    <3> HIDE DEF qa, n
    <3>1. n + 1 \in 1..n + 1 /\ \A i \in 1..n + 1 : i = n + 1 \/ i \in 1..n
      BY <2>1
    <3>2. \A i \in 1..n : i \in 1..n + 1
      BY <2>1
    <3>3. QED BY <2>1, <2>2, <3>1, <3>2
  <2> HIDE DEF In, qa
  <2>8. QED BY <2>1, <2>5, <2>6, <2>7 DEF qa
<1>3. Seq(A) \subseteq T
  <2> HIDE DEF T
  <2>1. QED BY <1>1, <1>2, AppendInduction
<1>4. QED BY <1>3

------------------------------------------------------------------------------
(* FoldLeft *)

\* The value of an iteration is determined.
LEMMA IterationUnique ==
    ASSUME NEW S, IsFiniteSet(S), NEW B, NEW b \in B, NEW pick, Picks(pick, S),
           NEW g \in [S \X B -> B], NEW it, Iterates(it, S, b, pick, g),
           NEW jt \in [SUBSET S -> B], Iterates(jt, S, b, pick, g)
    PROVE  it = jt
<1> DEFINE Good == {n \in Nat : \A R \in SUBSET S : Cardinality(R) <= n => it[R] = jt[R]}
<1>1. ASSUME NEW R \in SUBSET S
      PROVE  /\ it[R] = IF R = {} THEN b ELSE g[<<pick[R], it[R \ {pick[R]}]>>]
             /\ jt[R] = IF R = {} THEN b ELSE g[<<pick[R], jt[R \ {pick[R]}]>>]
  BY DEF Iterates
<1>2. 0 \in Good
  BY <1>1, NoneLeft
<1>3. ASSUME NEW n \in Nat, n \in Good
      PROVE  n + 1 \in Good
  <2> SUFFICES ASSUME NEW R \in SUBSET S, Cardinality(R) <= n + 1
               PROVE  it[R] = jt[R]
    OBVIOUS
  <2>1. CASE R = {}
    BY <1>1, <2>1
  <2>2. CASE R # {}
    <3>1. pick[R] \in R
      BY <2>2 DEF Picks
    <3>2. R \ {pick[R]} \in SUBSET S /\ Cardinality(R \ {pick[R]}) <= n
      BY <3>1, SmallerRest
    <3>3. it[R \ {pick[R]}] = jt[R \ {pick[R]}]
      BY <1>3, <3>2
    <3>4. QED BY <1>1, <2>2, <3>3
  <2>3. QED BY <2>1, <2>2
<1>4. \A n \in Nat : n \in Good
  <2> HIDE DEF Good
  <2>1. QED BY <1>2, <1>3, SetInduction
<1>5. \A R \in SUBSET S : it[R] = jt[R]
  <2> SUFFICES ASSUME NEW R \in SUBSET S PROVE it[R] = jt[R]
    OBVIOUS
  <2>1. Cardinality(R) \in Nat /\ Cardinality(R) <= Cardinality(R)
    BY FS_Subset, FS_CardinalityType
  <2>2. QED BY <1>4, <2>1
<1> DEFINE Next(f, R) == IF R = {} THEN b ELSE g[<<pick[R], f[R \ {pick[R]}]>>]
<1>6. it = [R \in SUBSET S |-> Next(it, R)] /\ jt = [R \in SUBSET S |-> Next(jt, R)]
  BY DEF Iterates
<1>7. \A R \in SUBSET S : Next(it, R) = Next(jt, R)
  <2> HIDE DEF Next
  <2>1. \A R \in SUBSET S : it[R] = Next(it, R) /\ jt[R] = Next(jt, R)
    BY <1>6
  <2>2. QED BY <1>5, <2>1
<1> HIDE DEF Next
<1>8. QED BY <1>6, <1>7

\* Max takes an element out of a set of indices.
LEMMA MaxPicks ==
    ASSUME NEW n \in Nat, NEW T \in SUBSET (1..n), T # {}
    PROVE  Max(T) \in T
<1> DEFINE U == {n - i : i \in T}
<1>1. U \subseteq Nat /\ U # {}
  OBVIOUS
<1> HIDE DEF U
<1>2. PICK x \in U : \A y \in U : <<y, x>> \notin Less
  BY <1>1, LessWellFounded, WFMin
<1>3. \A y \in U : ~(y < x)
  <2>1. \A y, z : <<y, z>> \in Less <=> y \in Nat /\ z \in Nat /\ y < z
    BY DEF Less
  <2>2. QED BY <1>1, <1>2, <2>1
<1>4. PICK i \in T : x = n - i
  BY DEF U
<1>5. \A j \in T : i >= j
  <2> SUFFICES ASSUME NEW j \in T PROVE i >= j
    OBVIOUS
  <2>1. n - j \in U
    BY DEF U
  <2>2. ~(n - j < n - i)
    BY <1>3, <1>4, <2>1
  <2>3. i \in Int /\ j \in Int
    OBVIOUS
  <2>4. QED BY <2>2, <2>3
<1>6. \E y \in T : \A j \in T : y >= j
  BY <1>5
<1>7. Max(T) = CHOOSE y \in T : \A j \in T : y >= j
  BY Zenon DEF Max
<1>8. QED BY <1>6, <1>7, Zenon

\* Min takes the least.
LEMMA MinPicks ==
    ASSUME NEW n \in Nat, NEW T \in SUBSET (1..n), T # {}
    PROVE  Min(T) \in T /\ \A y \in T : Min(T) <= y
<1>1. T \subseteq Nat
  OBVIOUS
<1>2. PICK x \in T : \A y \in T : <<y, x>> \notin Less
  BY <1>1, LessWellFounded, WFMin
<1>3. \A y, z : <<y, z>> \in Less <=> y \in Nat /\ z \in Nat /\ y < z
  BY DEF Less
<1>4. \A y \in T : x <= y
  <2> SUFFICES ASSUME NEW y \in T PROVE x <= y
    OBVIOUS
  <2>1. x \in Nat /\ y \in Nat /\ ~(y < x)
    BY <1>1, <1>2, <1>3
  <2>2. QED BY <2>1
<1>5. Min(T) = CHOOSE y \in T : \A z \in T : y <= z
  BY Zenon DEF Min
<1>6. \E y \in T : \A z \in T : y <= z
  BY <1>4
<1>7. QED BY <1>5, <1>6, Zenon

\* A function on the places of a sequence is a sequence.
LEMMA MapTyped ==
    ASSUME NEW A, NEW p \in Seq(A), NEW B, NEW f, DOMAIN f = DOMAIN p, f = [i \in DOMAIN f |-> f[i]],
           \A i \in DOMAIN p : f[i] \in B
    PROVE  f \in Seq(B) /\ Len(f) = Len(p)
<1> DEFINE n == Len(p)
<1>1. n \in Nat /\ DOMAIN p = 1..n
  BY LenProperties
<1> HIDE DEF n
<1>2. f \in [1..n -> B]
  BY <1>1
<1>3. QED BY <1>1, <1>2 DEF n

\* A few tokens.
LEMMA Spells ==
    ASSUME NEW A, NEW x \in A, NEW y \in A, NEW z \in A
    PROVE  /\ <<>> \in Seq(A) /\ <<x>> \in Seq(A) /\ <<x, y>> \in Seq(A)
           /\ <<x, y, z>> \in Seq(A)
OBVIOUS

=============================================================================
