--------------------------- MODULE DealingsProofs ---------------------------
(***************************************************************************)
(* Proofs about dealings of players, for any players, parties, amounts and *)
(* prices, and any items in any bags: type correctness, that the market    *)
(* neither makes nor loses money or things, that players and parties agree *)
(* on who is in which, and that a trade is over or what was agreed on.     *)
(* The totals of the market and the end of a player's invitations are      *)
(* folds, so that the first part is about folds and sums over finite sets: *)
(* that the recursive function of a fold exists, and what becomes of a sum *)
(* when a number changes, comes in addition, or is paid in parts.          *)
(***************************************************************************)
EXTENDS Market, Party, Trade, FiniteSetTheorems, SequenceTheorems, TLAPS

-----------------------------------------------------------------------------
(* Induction over the naturals, from the pigeonhole principle, and over    *)
(* the parts of a finite set.                                              *)

LEMMA Induction ==
  ASSUME NEW P \in SUBSET Nat, 0 \in P, \A n \in P : n + 1 \in P
  PROVE  P = Nat
<1> SUFFICES ASSUME NEW k \in Nat, k \notin P
             PROVE  FALSE
  OBVIOUS
<1> DEFINE f == [n \in 0 .. k |-> IF n \in P THEN n + 1 ELSE n]
<1>1. f \in [0 .. k -> 1 .. k]
  OBVIOUS
<1>2. \A m, n \in 0 .. k : f[m] = f[n] => m = n
  OBVIOUS
<1>3. /\ IsFiniteSet(0 .. k) /\ Cardinality(0 .. k) = k + 1
      /\ IsFiniteSet(1 .. k) /\ Cardinality(1 .. k) = k
  <2>1. 0 \in Int /\ 1 \in Int /\ k \in Int
    OBVIOUS
  <2> QED
    BY <2>1, FS_Interval
<1> HIDE DEF f
<1>4. Cardinality(1 .. k) < Cardinality(0 .. k)
  BY <1>3
<1>5. \E m, n \in 0 .. k : m # n /\ f[m] = f[n]
  BY <1>1, <1>3, <1>4, FS_PigeonHole
<1> QED
  BY <1>2, <1>5

\* Facts about the cardinality of parts of a finite set.
LEMMA Parts ==
  ASSUME NEW S, IsFiniteSet(S), NEW s \in SUBSET S
  PROVE  /\ IsFiniteSet(s) /\ Cardinality(s) \in Nat
         /\ Cardinality(s) = 0 <=> s = {}
         /\ \A x \in s : s \ {x} \in SUBSET S /\ Cardinality(s \ {x}) = Cardinality(s) - 1
<1>1. IsFiniteSet(s) /\ Cardinality(s) \in Nat
  BY FS_Subset, FS_CardinalityType
<1>2. Cardinality(s) = 0 <=> s = {}
  BY <1>1, FS_EmptySet
<1>3. \A x \in s : Cardinality(s \ {x}) = Cardinality(s) - 1
  BY <1>1, FS_RemoveElement
<1> QED
  BY <1>1, <1>2, <1>3

\* Induction over the parts of a finite set.
LEMMA SetInduction ==
  ASSUME NEW S, IsFiniteSet(S), NEW P, {} \in P,
         \A s \in SUBSET S : s # {} /\ (\A x \in s : s \ {x} \in P) => s \in P
  PROVE  \A s \in SUBSET S : s \in P
<1>1. PICK Q \in SUBSET Nat : \A n \in Nat :
         n \in Q <=> \A s \in SUBSET S : Cardinality(s) = n => s \in P
  <2>1. {n \in Nat : \A s \in SUBSET S : Cardinality(s) = n => s \in P} \in SUBSET Nat
    OBVIOUS
  <2> QED
    BY <2>1
<1>2. 0 \in Q
  <2>1. \A s \in SUBSET S : Cardinality(s) = 0 => s \in P
    BY Parts
  <2> QED
    BY <1>1, <2>1
<1>3. ASSUME NEW n \in Q
      PROVE  n + 1 \in Q
  <2>1. n \in Nat /\ n + 1 \in Nat
    OBVIOUS
  <2>2. ASSUME NEW s \in SUBSET S, Cardinality(s) = n + 1
        PROVE  s \in P
    <3>1. s # {}
      BY <2>1, <2>2, Parts
    <3>2. ASSUME NEW x \in s
          PROVE  s \ {x} \in P
      <4>1. s \ {x} \in SUBSET S /\ Cardinality(s \ {x}) = n
        BY <2>1, <2>2, Parts
      <4> QED
        BY <1>1, <2>1, <4>1
    <3> QED
      BY <3>1, <3>2
  <2> QED
    BY <1>1, <2>1, <2>2
<1>4. Q = Nat
  BY <1>2, <1>3, Induction
<1> QED
  BY <1>1, <1>4, Parts

-----------------------------------------------------------------------------
(* A fold over a set.                                                      *)

\* The element that FoldSet takes next.
Pick(s) == CHOOSE x \in s : TRUE

\* What is picked is of the set.
LEMMA Picked ==
  ASSUME NEW s, s # {}
  PROVE  Pick(s) \in s
  BY DEF Pick

\* A fold with a step, over all parts of a set.
StepOf(S, T, base, step) == base \in T /\ step \in [S \X T -> T]

FoldOf(S, T, base, step, g) ==
    /\ g \in [SUBSET S -> T]
    /\ \A s \in SUBSET S :
         g[s] = IF s = {} THEN base ELSE step[<<Pick(s), g[s \ {Pick(s)}]>>]

\* The fold over a finite set exists: for the parts of up to n elements by
\* induction, and for all since the set is finite.
LEMMA FoldExists ==
  ASSUME NEW S, IsFiniteSet(S), NEW T, NEW base, NEW step, StepOf(S, T, base, step)
  PROVE  \E g : FoldOf(S, T, base, step, g)
<1> DEFINE Next(g, s) == IF s = {} THEN base ELSE step[<<Pick(s), g[s \ {Pick(s)}]>>]
<1>1. PICK Q \in SUBSET Nat : \A n \in Nat :
         n \in Q <=> \E g \in [SUBSET S -> T] :
                       \A s \in SUBSET S : Cardinality(s) <= n => g[s] = Next(g, s)
  <2>1. {n \in Nat : \E g \in [SUBSET S -> T] :
                        \A s \in SUBSET S : Cardinality(s) <= n => g[s] = Next(g, s)} \in SUBSET Nat
    OBVIOUS
  <2> HIDE DEF Next
  <2> QED
    BY <2>1
<1>2. ASSUME NEW g \in [SUBSET S -> T], NEW s \in SUBSET S
      PROVE  Next(g, s) \in T
  <2>1. s # {} => Pick(s) \in S /\ s \ {Pick(s)} \in SUBSET S
    BY Picked
  <2> QED
    BY <2>1 DEF StepOf
<1>3. ASSUME NEW g, NEW h, NEW s \in SUBSET S, s # {} => g[s \ {Pick(s)}] = h[s \ {Pick(s)}]
      PROVE  Next(g, s) = Next(h, s)
  BY <1>3
<1>4. ASSUME NEW g, NEW h
      PROVE  Next(g, {}) = Next(h, {})
  OBVIOUS
<1> HIDE DEF Next
<1>5. 0 \in Q
  <2> DEFINE g == [s \in SUBSET S |-> base]
  <2>1. g \in [SUBSET S -> T]
    BY DEF StepOf
  <2>2. ASSUME NEW s \in SUBSET S, Cardinality(s) <= 0
        PROVE  g[s] = Next(g, s)
    <3>1. s = {}
      BY <2>2, Parts
    <3> QED
      BY <3>1 DEF Next
  <2> HIDE DEF g
  <2> QED
    BY <1>1, <2>1, <2>2
<1>6. ASSUME NEW n \in Q
      PROVE  n + 1 \in Q
  <2>1. n \in Nat /\ n + 1 \in Nat
    OBVIOUS
  <2>2. PICK g \in [SUBSET S -> T] : \A s \in SUBSET S : Cardinality(s) <= n => g[s] = Next(g, s)
    BY <1>1, <2>1
  <2> DEFINE h == [s \in SUBSET S |-> Next(g, s)]
  <2>3. h \in [SUBSET S -> T] /\ \A s \in SUBSET S : h[s] = Next(g, s)
    BY <1>2
  <2> HIDE DEF h
  <2>4. ASSUME NEW s \in SUBSET S, Cardinality(s) <= n + 1
        PROVE  h[s] = Next(h, s)
    <3>1. CASE s = {}
      BY <1>4, <2>3, <3>1
    <3>2. CASE s # {}
      <4>1. Pick(s) \in s
        BY <3>2, Picked
      <4>2. s \ {Pick(s)} \in SUBSET S /\ Cardinality(s \ {Pick(s)}) <= n
        BY <2>1, <2>4, <4>1, Parts
      <4>3. g[s \ {Pick(s)}] = h[s \ {Pick(s)}]
        BY <2>2, <2>3, <4>2
      <4> QED
        BY <1>3, <2>3, <4>3
    <3> QED
      BY <3>1, <3>2
  <2> QED
    BY <1>1, <2>1, <2>3, <2>4
<1>7. Cardinality(S) \in Q
  <2>1. Q = Nat
    BY <1>5, <1>6, Induction
  <2> QED
    BY <2>1, FS_CardinalityType
<1>8. PICK g \in [SUBSET S -> T] :
         \A s \in SUBSET S : Cardinality(s) <= Cardinality(S) => g[s] = Next(g, s)
  BY <1>1, <1>7
<1>9. \A s \in SUBSET S : Cardinality(s) <= Cardinality(S)
  BY FS_Subset
<1>10. \A s \in SUBSET S : g[s] = Next(g, s)
  BY <1>8, <1>9
<1> QED
  BY <1>10 DEF Next, FoldOf

-----------------------------------------------------------------------------
(* Sums over finite sets.                                                  *)

\* The function a fold with + computes, of which the sum is the last value.
Summing(f, S, h) ==
    [s \in SUBSET S |-> IF s = {} THEN 0 ELSE f[Pick(s)] + h[s \ {Pick(s)}]]

SumOf(f, S) == (CHOOSE h : h = Summing(f, S, h))[S]

Numbers(f, S) == \A x \in S : f[x] \in Int

\* Such a function exists.
LEMMA SummingExists ==
  ASSUME NEW S, IsFiniteSet(S), NEW f, Numbers(f, S)
  PROVE  \E h : h = Summing(f, S, h)
<1> DEFINE step == [p \in S \X Int |-> f[p[1]] + p[2]]
<1>1. step \in [S \X Int -> Int]
  BY DEF Numbers
<1>2. \A x \in S, i \in Int : step[<<x, i>>] = f[x] + i
  OBVIOUS
<1> HIDE DEF step
<1>3. PICK g \in [SUBSET S -> Int] : \A s \in SUBSET S :
         g[s] = IF s = {} THEN 0 ELSE step[<<Pick(s), g[s \ {Pick(s)}]>>]
  <2>1. PICK base : base = 0
    OBVIOUS
  <2>2. PICK T : T = Int
    OBVIOUS
  <2>3. base \in T /\ step \in [S \X T -> T]
    BY <1>1, <2>1, <2>2
  <2>4. StepOf(S, T, base, step)
    BY <2>3 DEF StepOf
  <2>5. PICK g : FoldOf(S, T, base, step, g)
    BY <2>4, FoldExists
  <2> QED
    BY <2>1, <2>2, <2>5 DEF FoldOf
<1>4. ASSUME NEW s \in SUBSET S
      PROVE  g[s] = IF s = {} THEN 0 ELSE f[Pick(s)] + g[s \ {Pick(s)}]
  <2>1. CASE s = {}
    BY <1>3, <2>1
  <2>2. CASE s # {}
    <3>1. Pick(s) \in S /\ g[s \ {Pick(s)}] \in Int
      BY <2>2, Picked
    <3> QED
      BY <1>2, <1>3, <2>2, <3>1
  <2> QED
    BY <2>1, <2>2
<1>5. g = Summing(f, S, g)
  BY <1>4 DEF Summing
<1> QED
  BY <1>5

\* Its values are numbers.
LEMMA SummingIsInt ==
  ASSUME NEW S, IsFiniteSet(S), NEW f, Numbers(f, S), NEW h, h = Summing(f, S, h)
  PROVE  \A s \in SUBSET S : h[s] \in Int
<1>1. PICK P : \A s : s \in P <=> s \in SUBSET S /\ h[s] \in Int
  <2>1. \A s : s \in {t \in SUBSET S : h[t] \in Int} <=> s \in SUBSET S /\ h[s] \in Int
    OBVIOUS
  <2> QED
    BY <2>1
<1>2. {} \in P
  <2>1. {} \in SUBSET S /\ h[{}] = 0
    BY DEF Summing
  <2> QED
    BY <1>1, <2>1
<1>3. ASSUME NEW s \in SUBSET S, s # {}, \A x \in s : s \ {x} \in P
      PROVE  s \in P
  <2>1. Pick(s) \in s
    BY <1>3, Picked
  <2>2. h[s] = f[Pick(s)] + h[s \ {Pick(s)}]
    BY <1>3 DEF Summing
  <2> QED
    BY <1>1, <1>3, <2>1, <2>2 DEF Numbers
<1> QED
  BY <1>1, <1>2, <1>3, SetInduction

\* Two such functions agree on the parts that both have.
LEMMA SummingAgrees ==
  ASSUME NEW S, IsFiniteSet(S), NEW T \in SUBSET S, NEW f,
         NEW h, h = Summing(f, S, h), NEW g, g = Summing(f, T, g)
  PROVE  \A s \in SUBSET T : h[s] = g[s]
<1>1. PICK P : \A s : s \in P <=> s \in SUBSET T /\ h[s] = g[s]
  <2>1. \A s : s \in {t \in SUBSET T : h[t] = g[t]} <=> s \in SUBSET T /\ h[s] = g[s]
    OBVIOUS
  <2> QED
    BY <2>1
<1>2. {} \in P
  BY <1>1 DEF Summing
<1>3. ASSUME NEW s \in SUBSET T, s # {}, \A x \in s : s \ {x} \in P
      PROVE  s \in P
  <2>1. Pick(s) \in s
    BY <1>3, Picked
  <2>2. h[s] = f[Pick(s)] + h[s \ {Pick(s)}] /\ g[s] = f[Pick(s)] + g[s \ {Pick(s)}]
    BY <1>3 DEF Summing
  <2>3. h[s \ {Pick(s)}] = g[s \ {Pick(s)}]
    BY <1>1, <1>3, <2>1
  <2> QED
    BY <1>1, <2>2, <2>3
<1>4. IsFiniteSet(T)
  BY FS_Subset
<1> QED
  BY <1>1, <1>2, <1>3, <1>4, SetInduction

\* So the sum is the last value of any of them.
LEMMA SumIsLast ==
  ASSUME NEW S, IsFiniteSet(S), NEW f, Numbers(f, S), NEW h, h = Summing(f, S, h)
  PROVE  \A T \in SUBSET S : SumOf(f, T) = h[T]
<1> TAKE T \in SUBSET S
<1> DEFINE g == CHOOSE k : k = Summing(f, T, k)
<1>1. IsFiniteSet(T) /\ Numbers(f, T)
  BY FS_Subset DEF Numbers
<1>2. \E k : k = Summing(f, T, k)
  BY <1>1, SummingExists
<1>3. g = Summing(f, T, g)
  BY <1>2
<1>4. SumOf(f, T) = g[T]
  BY DEF SumOf
<1> HIDE DEF g
<1>5. \A s \in SUBSET T : h[s] = g[s]
  BY <1>3, SummingAgrees
<1> QED
  BY <1>4, <1>5

\* The sum in terms of itself.
LEMMA SumRecursion ==
  ASSUME NEW S, IsFiniteSet(S), NEW f, Numbers(f, S)
  PROVE  /\ SumOf(f, {}) = 0
         /\ \A s \in SUBSET S :
              /\ SumOf(f, s) \in Int
              /\ s # {} => SumOf(f, s) = f[Pick(s)] + SumOf(f, s \ {Pick(s)})
<1>1. PICK h : h = Summing(f, S, h)
  BY SummingExists
<1>2. \A s \in SUBSET S : h[s] \in Int
  BY <1>1, SummingIsInt
<1>3. \A s \in SUBSET S : SumOf(f, s) = h[s]
  BY <1>1, SumIsLast
<1>4. h[{}] = 0
  BY <1>1 DEF Summing
<1>5. ASSUME NEW s \in SUBSET S, s # {}
      PROVE  SumOf(f, s) = f[Pick(s)] + SumOf(f, s \ {Pick(s)})
  <2>1. h[s] = f[Pick(s)] + h[s \ {Pick(s)}]
    BY <1>1, <1>5 DEF Summing
  <2>2. s \ {Pick(s)} \in SUBSET S
    OBVIOUS
  <2> QED
    BY <1>3, <2>1, <2>2
<1>6. {} \in SUBSET S
  OBVIOUS
<1> QED
  BY <1>2, <1>3, <1>4, <1>5, <1>6

\* A finite set of numbers to add, each under its name.
Summable(f, S) == IsFiniteSet(S) /\ Numbers(f, S)

\* Parts of what can be added can be added.
LEMMA SummableParts ==
  ASSUME NEW f, NEW S, Summable(f, S), NEW T \in SUBSET S
  PROVE  Summable(f, T)
  BY FS_Subset DEF Summable, Numbers

\* A sum is a number, and that of nothing is 0.
LEMMA SumType ==
  ASSUME NEW f, NEW S, Summable(f, S)
  PROVE  SumOf(f, S) \in Int /\ SumOf(f, {}) = 0
  BY SumRecursion DEF Summable

\* Any element may be taken out first.
LEMMA SumStep ==
  ASSUME NEW f, NEW S, Summable(f, S), NEW e \in S
  PROVE  SumOf(f, S) = f[e] + SumOf(f, S \ {e})
<1>1. IsFiniteSet(S) /\ Numbers(f, S)
  BY DEF Summable
<1>2. PICK P : \A s : s \in P
                  <=> s \in SUBSET S /\ \A x \in s : SumOf(f, s) = f[x] + SumOf(f, s \ {x})
  <2>1. \A s : s \in {t \in SUBSET S : \A x \in t : SumOf(f, t) = f[x] + SumOf(f, t \ {x})}
                 <=> s \in SUBSET S /\ \A x \in s : SumOf(f, s) = f[x] + SumOf(f, s \ {x})
    OBVIOUS
  <2> QED
    BY <2>1
<1>3. {} \in P
  BY <1>2
<1>4. ASSUME NEW s \in SUBSET S, s # {}, \A x \in s : s \ {x} \in P
      PROVE  s \in P
  <2>1. PICK y \in s : y = Pick(s)
    BY <1>4, Picked
  <2>2. SumOf(f, s) = f[y] + SumOf(f, s \ {y})
    BY <1>1, <1>4, <2>1, SumRecursion
  <2>3. ASSUME NEW x \in s
        PROVE  SumOf(f, s) = f[x] + SumOf(f, s \ {x})
    <3>1. CASE x = y
      BY <2>2, <3>1
    <3>2. CASE x # y
      <4>1. PICK t \in SUBSET S : t = (s \ {x}) \ {y}
        OBVIOUS
      <4>2. (s \ {y}) \ {x} = t
        BY <4>1
      <4>3. SumOf(f, s \ {y}) = f[x] + SumOf(f, t)
        <5>1. s \ {y} \in P /\ x \in s \ {y}
          BY <1>4, <3>2
        <5> QED
          BY <1>2, <4>2, <5>1
      <4>4. SumOf(f, s \ {x}) = f[y] + SumOf(f, t)
        <5>1. s \ {x} \in P /\ y \in s \ {x}
          BY <1>4, <3>2
        <5> QED
          BY <1>2, <4>1, <5>1
      <4>5. f[x] \in Int /\ f[y] \in Int
        BY <1>1 DEF Numbers
      <4>6. SumOf(f, t) \in Int
        BY <1>1, SumRecursion
      <4> QED
        BY <2>2, <4>3, <4>4, <4>5, <4>6
    <3> QED
      BY <3>1, <3>2
  <2> QED
    BY <1>2, <2>3
<1>5. S \in P
  BY <1>1, <1>3, <1>4, SetInduction
<1> QED
  BY <1>2, <1>5

\* The same numbers have the same sum.
LEMMA SumSame ==
  ASSUME NEW f, NEW S, Summable(f, S), NEW g, \A x \in S : g[x] = f[x]
  PROVE  SumOf(g, S) = SumOf(f, S) /\ Summable(g, S)
<1>1. IsFiniteSet(S)
  BY DEF Summable
<1>2. Summable(g, S)
  BY DEF Summable, Numbers
<1>3. PICK P : \A s : s \in P <=> s \in SUBSET S /\ SumOf(g, s) = SumOf(f, s)
  <2>1. \A s : s \in {t \in SUBSET S : SumOf(g, t) = SumOf(f, t)}
                 <=> s \in SUBSET S /\ SumOf(g, s) = SumOf(f, s)
    OBVIOUS
  <2> QED
    BY <2>1
<1>4. {} \in P
  BY <1>2, <1>3, SumType
<1>5. ASSUME NEW s \in SUBSET S, s # {}, \A x \in s : s \ {x} \in P
      PROVE  s \in P
  <2>1. PICK y \in s : TRUE
    BY <1>5
  <2>2. Summable(f, s) /\ Summable(g, s)
    BY <1>2, SummableParts
  <2>3. SumOf(f, s) = f[y] + SumOf(f, s \ {y}) /\ SumOf(g, s) = g[y] + SumOf(g, s \ {y})
    BY <2>2, SumStep
  <2> QED
    BY <1>3, <1>5, <2>3
<1>6. S \in P
  <2>1. \A s \in SUBSET S : s # {} /\ (\A x \in s : s \ {x} \in P) => s \in P
    BY <1>5
  <2>2. \A s \in SUBSET S : s \in P
    BY <1>1, <1>4, <2>1, SetInduction
  <2> QED
    BY <2>2
<1> QED
  BY <1>2, <1>3, <1>6

\* Adding two rows of numbers adds the sums.
LEMMA SumPlus ==
  ASSUME NEW f, NEW g, NEW h, NEW S, Summable(f, S), Summable(g, S),
         \A x \in S : h[x] = f[x] + g[x]
  PROVE  Summable(h, S) /\ SumOf(h, S) = SumOf(f, S) + SumOf(g, S)
<1>1. IsFiniteSet(S) /\ \A x \in S : f[x] \in Int /\ g[x] \in Int
  BY DEF Summable, Numbers
<1>2. Summable(h, S)
  BY <1>1 DEF Summable, Numbers
<1>3. PICK P : \A s : s \in P <=> s \in SUBSET S /\ SumOf(h, s) = SumOf(f, s) + SumOf(g, s)
  <2>1. \A s : s \in {t \in SUBSET S : SumOf(h, t) = SumOf(f, t) + SumOf(g, t)}
                 <=> s \in SUBSET S /\ SumOf(h, s) = SumOf(f, s) + SumOf(g, s)
    OBVIOUS
  <2> QED
    BY <2>1
<1>4. {} \in P
  <2>1. SumOf(h, {}) = 0 /\ SumOf(f, {}) = 0 /\ SumOf(g, {}) = 0
    BY <1>2, SumType
  <2> QED
    BY <1>3, <2>1
<1>5. ASSUME NEW s \in SUBSET S, s # {}, \A x \in s : s \ {x} \in P
      PROVE  s \in P
  <2>1. PICK y \in s : TRUE
    BY <1>5
  <2>2. PICK t \in SUBSET S : t = s \ {y}
    OBVIOUS
  <2>3. Summable(f, s) /\ Summable(g, s) /\ Summable(h, s) /\ Summable(f, t) /\ Summable(g, t)
    BY <1>2, SummableParts
  <2>4. /\ SumOf(f, s) = f[y] + SumOf(f, t) /\ SumOf(g, s) = g[y] + SumOf(g, t)
        /\ SumOf(h, s) = h[y] + SumOf(h, t)
    BY <2>2, <2>3, SumStep
  <2>5. SumOf(h, t) = SumOf(f, t) + SumOf(g, t)
    BY <1>3, <1>5, <2>2
  <2>6. SumOf(f, t) \in Int /\ SumOf(g, t) \in Int /\ f[y] \in Int /\ g[y] \in Int
        /\ h[y] = f[y] + g[y]
    BY <1>1, <2>3, SumType
  <2> QED
    BY <1>3, <2>4, <2>5, <2>6
<1>6. S \in P
  BY <1>1, <1>4, <1>5, SetInduction
<1> QED
  BY <1>2, <1>3, <1>6

\* Natural numbers have a natural sum.
LEMMA SumNotNegative ==
  ASSUME NEW f, NEW S, Summable(f, S), \A x \in S : f[x] >= 0
  PROVE  SumOf(f, S) \in Nat
<1>1. IsFiniteSet(S) /\ \A x \in S : f[x] \in Nat
  BY DEF Summable, Numbers
<1>2. PICK P : \A s : s \in P <=> s \in SUBSET S /\ SumOf(f, s) \in Nat
  <2>1. \A s : s \in {t \in SUBSET S : SumOf(f, t) \in Nat}
                 <=> s \in SUBSET S /\ SumOf(f, s) \in Nat
    OBVIOUS
  <2> QED
    BY <2>1
<1>3. {} \in P
  <2>1. SumOf(f, {}) = 0
    BY SumType
  <2> QED
    BY <1>2, <2>1
<1>4. ASSUME NEW s \in SUBSET S, s # {}, \A x \in s : s \ {x} \in P
      PROVE  s \in P
  <2>1. PICK y \in s : TRUE
    BY <1>4
  <2>2. SumOf(f, s) = f[y] + SumOf(f, s \ {y})
    BY SummableParts, SumStep
  <2>3. SumOf(f, s \ {y}) \in Nat /\ f[y] \in Nat
    BY <1>1, <1>2, <1>4
  <2> QED
    BY <1>2, <2>2, <2>3
<1>5. S \in P
  BY <1>1, <1>3, <1>4, SetInduction
<1> QED
  BY <1>2, <1>5

\* A set in two parts.
LEMMA SumOfParts ==
  ASSUME NEW f, NEW S, Summable(f, S), NEW T \in SUBSET S
  PROVE  SumOf(f, S) = SumOf(f, T) + SumOf(f, S \ T)
<1>1. IsFiniteSet(S) /\ \A x \in S : f[x] \in Int
  BY DEF Summable, Numbers
<1>2. PICK P : \A s : s \in P
                  <=> s \in SUBSET S /\ SumOf(f, s) = SumOf(f, s \cap T) + SumOf(f, s \ T)
  <2>1. \A s : s \in {t \in SUBSET S : SumOf(f, t) = SumOf(f, t \cap T) + SumOf(f, t \ T)}
                 <=> s \in SUBSET S /\ SumOf(f, s) = SumOf(f, s \cap T) + SumOf(f, s \ T)
    OBVIOUS
  <2> QED
    BY <2>1
<1>3. {} \in P
  <2>1. SumOf(f, {}) = 0 /\ {} \cap T = {} /\ {} \ T = {}
    BY SumType
  <2> QED
    BY <1>2, <2>1
<1>4. ASSUME NEW s \in SUBSET S, s # {}, \A x \in s : s \ {x} \in P
      PROVE  s \in P
  <2>1. PICK y \in s : TRUE
    BY <1>4
  <2>2. PICK t \in SUBSET S : t = s \ {y}
    OBVIOUS
  <2>3. PICK i \in SUBSET S : i = t \cap T
    OBVIOUS
  <2>4. PICK o \in SUBSET S : o = t \ T
    OBVIOUS
  <2>5. Summable(f, s) /\ Summable(f, i) /\ Summable(f, o)
    BY SummableParts
  <2>6. SumOf(f, s) = f[y] + SumOf(f, t)
    BY <2>2, <2>5, SumStep
  <2>7. SumOf(f, t) = SumOf(f, i) + SumOf(f, o)
    BY <1>2, <1>4, <2>2, <2>3, <2>4
  <2>8. SumOf(f, i) \in Int /\ SumOf(f, o) \in Int /\ f[y] \in Int
    BY <1>1, <2>5, SumType
  <2>9. CASE y \in T
    <3>1. PICK j \in SUBSET S : j = s \cap T
      OBVIOUS
    <3>2. y \in j /\ j \ {y} = i /\ s \ T = o
      BY <2>2, <2>3, <2>4, <2>9, <3>1
    <3>3. SumOf(f, j) = f[y] + SumOf(f, i)
      BY <3>2, SummableParts, SumStep
    <3>4. SumOf(f, s) = SumOf(f, j) + SumOf(f, o)
      BY <2>6, <2>7, <2>8, <3>3
    <3> QED
      BY <1>2, <3>1, <3>2, <3>4
  <2>10. CASE y \notin T
    <3>1. PICK j \in SUBSET S : j = s \ T
      OBVIOUS
    <3>2. y \in j /\ j \ {y} = o /\ s \cap T = i
      BY <2>2, <2>3, <2>4, <2>10, <3>1
    <3>3. SumOf(f, j) = f[y] + SumOf(f, o)
      BY <3>2, SummableParts, SumStep
    <3>4. SumOf(f, s) = SumOf(f, i) + SumOf(f, j)
      BY <2>6, <2>7, <2>8, <3>3
    <3> QED
      BY <1>2, <3>1, <3>2, <3>4
  <2> QED
    BY <2>9, <2>10
<1>5. S \in P
  BY <1>1, <1>3, <1>4, SetInduction
<1>6. S \cap T = T
  OBVIOUS
<1> QED
  BY <1>2, <1>5, <1>6

\* One number is changed, or comes in addition.
LEMMA SumChange ==
  ASSUME NEW f, NEW g, NEW S, Summable(f, S), Summable(g, S), NEW e \in S,
         \A x \in S : x # e => g[x] = f[x]
  PROVE  SumOf(g, S) = SumOf(f, S) - f[e] + g[e]
<1>1. PICK t \in SUBSET S : t = S \ {e}
  OBVIOUS
<1>2. SumOf(f, S) = f[e] + SumOf(f, t) /\ SumOf(g, S) = g[e] + SumOf(g, t)
  BY <1>1, SumStep
<1>3. Summable(f, t) /\ Summable(g, t) /\ \A x \in t : g[x] = f[x]
  BY <1>1, SummableParts
<1>4. SumOf(g, t) = SumOf(f, t)
  BY <1>3, SumSame
<1>5. SumOf(f, t) \in Int /\ SumOf(g, t) \in Int /\ f[e] \in Int /\ g[e] \in Int
  BY <1>3, SumType DEF Summable, Numbers
<1> QED
  BY <1>2, <1>4, <1>5

LEMMA SumMore ==
  ASSUME NEW f, NEW S, Summable(f, S), NEW e, e \notin S, f[e] \in Int
  PROVE  Summable(f, S \cup {e}) /\ SumOf(f, S \cup {e}) = f[e] + SumOf(f, S)
<1>1. IsFiniteSet(S \cup {e})
  BY FS_AddElement DEF Summable
<1>2. Summable(f, S \cup {e})
  BY <1>1 DEF Summable, Numbers
<1>3. (S \cup {e}) \ {e} = S
  OBVIOUS
<1> QED
  BY <1>2, <1>3, SumStep

\* The same number for each.
LEMMA SumConstant ==
  ASSUME NEW f, NEW S, IsFiniteSet(S), NEW n \in Nat, \A x \in S : f[x] = n
  PROVE  Summable(f, S) /\ SumOf(f, S) = Cardinality(S) * n
<1>1. Summable(f, S)
  BY DEF Summable, Numbers
<1>2. PICK P : \A s : s \in P <=> s \in SUBSET S /\ SumOf(f, s) = Cardinality(s) * n
  <2>1. \A s : s \in {t \in SUBSET S : SumOf(f, t) = Cardinality(t) * n}
                 <=> s \in SUBSET S /\ SumOf(f, s) = Cardinality(s) * n
    OBVIOUS
  <2> QED
    BY <2>1
<1>3. {} \in P
  <2>1. SumOf(f, {}) = 0 /\ Cardinality({}) = 0 /\ 0 * n = 0
    BY <1>1, SumType, FS_EmptySet
  <2> QED
    BY <1>2, <2>1
<1>4. ASSUME NEW s \in SUBSET S, s # {}, \A x \in s : s \ {x} \in P
      PROVE  s \in P
  <2>1. PICK y \in s : TRUE
    BY <1>4
  <2>2. SumOf(f, s) = n + SumOf(f, s \ {y})
    <3>1. SumOf(f, s) = f[y] + SumOf(f, s \ {y})
      BY <1>1, SummableParts, SumStep
    <3> QED
      BY <3>1
  <2>3. PICK k \in Nat : k = Cardinality(s \ {y})
    BY Parts
  <2>4. Cardinality(s) = k + 1
    BY <2>3, Parts
  <2>5. SumOf(f, s \ {y}) = k * n
    BY <1>2, <1>4, <2>3
  <2>6. n + k * n = (k + 1) * n
    OBVIOUS
  <2> QED
    BY <1>2, <2>2, <2>4, <2>5, <2>6
<1>5. \A s \in SUBSET S : s \in P
  BY ONLY <1>3, <1>4, IsFiniteSet(S), SetInduction
<1> QED
  BY <1>1, <1>2, <1>5

\* Zeros do not count.
LEMMA SumWithZeros ==
  ASSUME NEW f, NEW S, Summable(f, S), NEW T \in SUBSET S, \A x \in S \ T : f[x] = 0
  PROVE  SumOf(f, T) = SumOf(f, S)
<1>1. PICK rest \in SUBSET S : rest = S \ T
  OBVIOUS
<1>2. Summable(f, rest) /\ Summable(f, T)
  BY SummableParts
<1>3. PICK z \in Nat : z = 0
  OBVIOUS
<1>4. IsFiniteSet(rest) /\ \A x \in rest : f[x] = z
  BY <1>1, <1>2, <1>3 DEF Summable
<1>5. SumOf(f, rest) = Cardinality(rest) * z
  BY <1>4, SumConstant
<1>6. SumOf(f, rest) = 0
  BY <1>3, <1>4, <1>5, FS_CardinalityType
<1>7. SumOf(f, S) = SumOf(f, T) + SumOf(f, rest)
  BY <1>1, SumOfParts
<1>8. SumOf(f, T) \in Int
  BY <1>2, SumType
<1> QED
  BY <1>6, <1>7, <1>8

\* The same numbers under other names.
LEMMA SumRenamed ==
  ASSUME NEW f, NEW S, Summable(f, S), NEW m, NEW g,
         \A x, y \in S : m[x] = m[y] => x = y, \A x \in S : g[m[x]] = f[x]
  PROVE  /\ Summable(g, {m[x] : x \in S})
         /\ SumOf(g, {m[x] : x \in S}) = SumOf(f, S)
<1> DEFINE Image(s) == {m[x] : x \in s}
<1>1. IsFiniteSet(S) /\ \A x \in S : f[x] \in Int
  BY DEF Summable, Numbers
<1>2. IsFiniteSet(Image(S))
  <2> DEFINE k == [x \in S |-> m[x]]
  <2>1. k \in Surjection(S, Image(S))
    BY DEF Surjection
  <2> QED
    BY <1>1, <2>1, FS_Surjection
<1>3. Summable(g, Image(S))
  BY <1>1, <1>2 DEF Summable, Numbers
<1>4. PICK P : \A s : s \in P <=> s \in SUBSET S /\ SumOf(g, Image(s)) = SumOf(f, s)
  <2>1. \A s : s \in {t \in SUBSET S : SumOf(g, Image(t)) = SumOf(f, t)}
                 <=> s \in SUBSET S /\ SumOf(g, Image(s)) = SumOf(f, s)
    OBVIOUS
  <2> QED
    BY <2>1
<1>5. {} \in P
  <2>1. Image({}) = {} /\ SumOf(f, {}) = 0 /\ SumOf(g, {}) = 0
    BY <1>3, SumType
  <2> QED
    BY <1>4, <2>1
<1>6. ASSUME NEW s \in SUBSET S, s # {}, \A x \in s : s \ {x} \in P
      PROVE  s \in P
  <2>1. PICK y \in s : TRUE
    BY <1>6
  <2>2. Image(s) \in SUBSET Image(S) /\ m[y] \in Image(s) /\ Image(s) \ {m[y]} = Image(s \ {y})
    OBVIOUS
  <2> HIDE DEF Image
  <2>3. Summable(g, Image(s)) /\ Summable(f, s)
    BY <1>3, <2>2, SummableParts
  <2>4. SumOf(g, Image(s)) = g[m[y]] + SumOf(g, Image(s \ {y}))
    <3>1. PICK i, e : i = Image(s) /\ e = m[y]
      OBVIOUS
    <3>2. e \in i /\ Summable(g, i)
      BY <2>2, <2>3, <3>1
    <3>3. SumOf(g, i) = g[e] + SumOf(g, i \ {e})
      BY <3>2, SumStep
    <3> QED
      BY <2>2, <3>1, <3>3
  <2>5. SumOf(f, s) = f[y] + SumOf(f, s \ {y})
    BY <2>3, SumStep
  <2>6. SumOf(g, Image(s \ {y})) = SumOf(f, s \ {y})
    BY <1>4, <1>6
  <2> QED
    BY <1>4, <2>4, <2>5, <2>6
<1>7. S \in P
  <2>1. \A s \in SUBSET S : s # {} /\ (\A x \in s : s \ {x} \in P) => s \in P
    BY <1>6
  <2>2. \A s \in SUBSET S : s \in P
    BY <1>1, <1>5, <2>1, SetInduction
  <2> QED
    BY <2>2
<1> QED
  BY <1>3, <1>4, <1>7

\* The sum of the sums of groups.
Groups(f, S, C, of, group) ==
    /\ \A x \in S : of[x] \in C
    /\ \A c \in C : group[c] = SumOf(f, {x \in S : of[x] = c})

LEMMA SumOfGroups ==
  ASSUME NEW f, NEW S, Summable(f, S), NEW C, IsFiniteSet(C), NEW of, NEW group,
         Groups(f, S, C, of, group)
  PROVE  Summable(group, C) /\ SumOf(group, C) = SumOf(f, S)
<1> DEFINE Group(s) == [c \in C |-> SumOf(f, {x \in s : of[x] = c})]
<1>1. IsFiniteSet(S) /\ \A x \in S : f[x] \in Int
  BY DEF Summable, Numbers
<1>2. ASSUME NEW s \in SUBSET S
      PROVE  Summable(Group(s), C)
  <2>1. ASSUME NEW c \in C
        PROVE  SumOf(f, {x \in s : of[x] = c}) \in Int
    <3>1. {x \in s : of[x] = c} \in SUBSET S
      OBVIOUS
    <3> QED
      BY <3>1, SummableParts, SumType
  <2> QED
    BY <2>1 DEF Summable, Numbers
<1>3. PICK P : \A s : s \in P <=> s \in SUBSET S /\ SumOf(Group(s), C) = SumOf(f, s)
  <2>1. \A s : s \in {t \in SUBSET S : SumOf(Group(t), C) = SumOf(f, t)}
                 <=> s \in SUBSET S /\ SumOf(Group(s), C) = SumOf(f, s)
    OBVIOUS
  <2> QED
    BY <2>1
<1>4. {} \in P
  <2>1. SumOf(f, {}) = 0
    BY SumType
  <2>2. \A c \in C : Group({})[c] = 0
    <3>1. \A c \in C : {x \in {} : of[x] = c} = {}
      OBVIOUS
    <3> QED
      BY <2>1, <3>1
  <2> HIDE DEF Group
  <2>3. PICK z \in Nat : z = 0
    OBVIOUS
  <2>4. SumOf(Group({}), C) = Cardinality(C) * z
    BY <2>2, <2>3, SumConstant
  <2>5. Cardinality(C) * 0 = 0
    BY FS_CardinalityType
  <2> QED
    BY <1>3, <2>1, <2>3, <2>4, <2>5
<1>5. ASSUME NEW s \in SUBSET S, s # {}, \A x \in s : s \ {x} \in P
      PROVE  s \in P
  <2>1. PICK y \in s : TRUE
    BY <1>5
  <2>2. PICK e \in C : e = of[y]
    BY DEF Groups
  <2>3. PICK t \in SUBSET S : t = s \ {y}
    OBVIOUS
  <2>4. \A c \in C : c # e => Group(s)[c] = Group(t)[c]
    <3>1. \A c \in C : c # e => {x \in s : of[x] = c} = {x \in t : of[x] = c}
      BY <2>2, <2>3
    <3> QED
      BY <3>1
  <2>5. Group(s)[e] = f[y] + Group(t)[e]
    <3>1. PICK u \in SUBSET S : u = {x \in s : of[x] = e}
      OBVIOUS
    <3>2. y \in u /\ u \ {y} = {x \in t : of[x] = e}
      BY <2>2, <2>3, <3>1
    <3>3. SumOf(f, u) = f[y] + SumOf(f, u \ {y})
      BY <3>2, SummableParts, SumStep
    <3> QED
      BY <3>1, <3>2, <3>3
  <2>6. Summable(Group(s), C) /\ Summable(Group(t), C)
    BY <1>2
  <2> HIDE DEF Group
  <2>7. SumOf(Group(s), C) = SumOf(Group(t), C) - Group(t)[e] + Group(s)[e]
    BY <2>4, <2>6, SumChange
  <2>8. SumOf(f, s) = f[y] + SumOf(f, t)
    BY <2>3, SummableParts, SumStep
  <2>9. SumOf(Group(t), C) = SumOf(f, t)
    BY <1>3, <1>5, <2>3
  <2>10. SumOf(f, t) \in Int /\ f[y] \in Int /\ Group(t)[e] \in Int
    BY <1>1, <2>6, SummableParts, SumType DEF Summable, Numbers
  <2>11. SumOf(Group(s), C) = SumOf(f, s)
    BY <2>5, <2>7, <2>8, <2>9, <2>10
  <2> QED
    BY <1>3, <2>11
<1>6. S \in P
  <2>1. \A s \in SUBSET S : s # {} /\ (\A x \in s : s \ {x} \in P) => s \in P
    BY <1>5
  <2>2. \A s \in SUBSET S : s \in P
    BY <1>1, <1>4, <2>1, SetInduction
  <2> QED
    BY <2>2
<1>7. Summable(Group(S), C) /\ \A c \in C : group[c] = Group(S)[c]
  BY <1>2 DEF Groups
<1> HIDE DEF Group
<1>8. SumOf(group, C) = SumOf(Group(S), C) /\ Summable(group, C)
  BY <1>7, SumSame
<1> QED
  BY <1>3, <1>6, <1>8

\* The totals of the market are sums in this sense.
LEMMA TotalAmount ==
  ASSUME NEW f, NEW S, \A x \in S : f[x] = x.amount
  PROVE  Total(S, LAMBDA r : r.amount) = SumOf(f, S)
<1> DEFINE Body(h) == [s \in SUBSET S |->
            IF s = {} THEN 0 ELSE Pick(s).amount + h[s \ {Pick(s)}]]
<1>1. Total(S, LAMBDA r : r.amount) = (CHOOSE h : h = Body(h))[S]
  BY DEF Total, FoldSet, MapThenFoldSet, Pick
<1>2. \A h : Body(h) = Summing(f, S, h)
  <2>1. \A s \in SUBSET S : s # {} => f[Pick(s)] = Pick(s).amount
    BY Picked
  <2> QED
    BY <2>1 DEF Summing
<1> HIDE DEF Body
<1>3. (CHOOSE h : h = Body(h)) = (CHOOSE h : h = Summing(f, S, h))
  BY <1>2
<1> QED
  BY <1>1, <1>3 DEF SumOf

\* Of prices.
LEMMA TotalPrice ==
  ASSUME NEW f, NEW S, \A x \in S : f[x] = x.price * x.amount
  PROVE  Total(S, LAMBDA r : r.price * r.amount) = SumOf(f, S)
<1> DEFINE Body(h) == [s \in SUBSET S |->
            IF s = {} THEN 0 ELSE Pick(s).price * Pick(s).amount + h[s \ {Pick(s)}]]
<1>1. Total(S, LAMBDA r : r.price * r.amount) = (CHOOSE h : h = Body(h))[S]
  BY DEF Total, FoldSet, MapThenFoldSet, Pick
<1>2. \A h : Body(h) = Summing(f, S, h)
  <2>1. \A s \in SUBSET S : s # {} => f[Pick(s)] = Pick(s).price * Pick(s).amount
    BY Picked
  <2> QED
    BY <2>1 DEF Summing
<1> HIDE DEF Body
<1>3. (CHOOSE h : h = Body(h)) = (CHOOSE h : h = Summing(f, S, h))
  BY <1>2
<1> QED
  BY <1>1, <1>3 DEF SumOf

\* Of what was accepted late.
LEMMA TotalLate ==
  ASSUME NEW f, NEW S, \A x \in S : f[x] = x.late
  PROVE  Total(S, LAMBDA r : r.late) = SumOf(f, S)
<1> DEFINE Body(h) == [s \in SUBSET S |->
            IF s = {} THEN 0 ELSE Pick(s).late + h[s \ {Pick(s)}]]
<1>1. Total(S, LAMBDA r : r.late) = (CHOOSE h : h = Body(h))[S]
  BY DEF Total, FoldSet, MapThenFoldSet, Pick
<1>2. \A h : Body(h) = Summing(f, S, h)
  <2>1. \A s \in SUBSET S : s # {} => f[Pick(s)] = Pick(s).late
    BY Picked
  <2> QED
    BY <2>1 DEF Summing
<1> HIDE DEF Body
<1>3. (CHOOSE h : h = Body(h)) = (CHOOSE h : h = Summing(f, S, h))
  BY <1>2
<1> QED
  BY <1>1, <1>3 DEF SumOf

\* Of its prices.
LEMMA TotalLatePrice ==
  ASSUME NEW f, NEW S, \A x \in S : f[x] = x.price * x.late
  PROVE  Total(S, LAMBDA r : r.price * r.late) = SumOf(f, S)
<1> DEFINE Body(h) == [s \in SUBSET S |->
            IF s = {} THEN 0 ELSE Pick(s).price * Pick(s).late + h[s \ {Pick(s)}]]
<1>1. Total(S, LAMBDA r : r.price * r.late) = (CHOOSE h : h = Body(h))[S]
  BY DEF Total, FoldSet, MapThenFoldSet, Pick
<1>2. \A h : Body(h) = Summing(f, S, h)
  <2>1. \A s \in SUBSET S : s # {} => f[Pick(s)] = Pick(s).price * Pick(s).late
    BY Picked
  <2> QED
    BY <2>1 DEF Summing
<1> HIDE DEF Body
<1>3. (CHOOSE h : h = Body(h)) = (CHOOSE h : h = Summing(f, S, h))
  BY <1>2
<1> QED
  BY <1>1, <1>3 DEF SumOf

\* Of what is offered.
LEMMA TotalOffered ==
  ASSUME NEW f, NEW S, \A x \in S : f[x] = offers[x].amount
  PROVE  Total(S, LAMBDA o : offers[o].amount) = SumOf(f, S)
<1> DEFINE Body(h) == [s \in SUBSET S |->
            IF s = {} THEN 0 ELSE offers[Pick(s)].amount + h[s \ {Pick(s)}]]
<1>1. Total(S, LAMBDA o : offers[o].amount) = (CHOOSE h : h = Body(h))[S]
  BY DEF Total, FoldSet, MapThenFoldSet, Pick
<1>2. \A h : Body(h) = Summing(f, S, h)
  <2>1. \A s \in SUBSET S : s # {} => f[Pick(s)] = offers[Pick(s)].amount
    BY Picked
  <2> QED
    BY <2>1 DEF Summing
<1> HIDE DEF Body
<1>3. (CHOOSE h : h = Body(h)) = (CHOOSE h : h = Summing(f, S, h))
  BY <1>2
<1> QED
  BY <1>1, <1>3 DEF SumOf

\* Of what is put down for offers to buy.
LEMMA TotalBid ==
  ASSUME NEW f, NEW S, \A x \in S : f[x] = offers[x].price * offers[x].amount
  PROVE  Total(S, LAMBDA o : offers[o].price * offers[o].amount) = SumOf(f, S)
<1> DEFINE Body(h) == [s \in SUBSET S |->
            IF s = {} THEN 0 ELSE offers[Pick(s)].price * offers[Pick(s)].amount + h[s \ {Pick(s)}]]
<1>1. Total(S, LAMBDA o : offers[o].price * offers[o].amount) = (CHOOSE h : h = Body(h))[S]
  BY DEF Total, FoldSet, MapThenFoldSet, Pick
<1>2. \A h : Body(h) = Summing(f, S, h)
  <2>1. \A s \in SUBSET S : s # {} => f[Pick(s)] = offers[Pick(s)].price * offers[Pick(s)].amount
    BY Picked
  <2> QED
    BY <2>1 DEF Summing
<1> HIDE DEF Body
<1>3. (CHOOSE h : h = Body(h)) = (CHOOSE h : h = Summing(f, S, h))
  BY <1>2
<1> QED
  BY <1>1, <1>3 DEF SumOf

\* Of the purses.
LEMMA SumOfPurse ==
  ASSUME NEW f
  PROVE  Sum(f) = SumOf(f, Customer)
<1> DEFINE Body(h) == [s \in SUBSET Customer |->
            IF s = {} THEN 0 ELSE f[Pick(s)] + h[s \ {Pick(s)}]]
<1>1. Sum(f) = (CHOOSE h : h = Body(h))[Customer]
  BY DEF Sum, FoldSet, MapThenFoldSet, Pick
<1> QED
  BY <1>1 DEF SumOf, Summing

-----------------------------------------------------------------------------
(* The market.                                                             *)

\* What the database may hold.
Tables == [OfferId -> Offer \cup {NoOffer}]

\* What the offers of a table hold of their owners' money and things.
PutDown(table) ==
    [o \in OfferId |-> IF table[o] # NoOffer /\ ~table[o].sale
                       THEN table[o].price * table[o].amount ELSE 0]
PutUp(table) ==
    [o \in OfferId |-> IF table[o] # NoOffer /\ table[o].sale THEN table[o].amount ELSE 0]

\* The types, with the answers as a sequence and finitely many ids in use.
MarketTypes ==
    /\ inMarket \in SUBSET Customer
    /\ money \in [Customer -> Nat] /\ stock \in [Customer -> Nat]
    /\ offers \in Tables
    /\ used \in SUBSET OfferId /\ IsFiniteSet(used) /\ expired \in SUBSET OfferId
    /\ asked \in Nat /\ answers \in Seq(SUBSET Row) /\ asked + Len(answers) <= MaxAnswers
    /\ fees \in Nat /\ lateMoney \in Nat /\ lateStock \in Nat

\* An offer in the table has an id that was given out, and something left.
OffersAreUsed ==
    \A o \in OfferId : offers[o] # NoOffer => o \in used /\ offers[o].amount > 0

\* A row of an answer is of the offer as it was, less what was accepted since.
RowFits(r, table) ==
    table[r.id] # NoOffer =>
      /\ table[r.id].owner = r.owner /\ table[r.id].sale = r.sale
      /\ table[r.id].price = r.price
      /\ r.amount = table[r.id].amount + r.late

\* All rows of an answer do, and no two are of the same offer.
AnswerFits(rows, table, ids) ==
    /\ IsFiniteSet(rows)
    /\ \A r \in rows : r.id \in ids /\ RowFits(r, table)
    /\ \A r, q \in rows : r.id = q.id => r = q

AnswersFit == \A k \in DOMAIN answers : AnswerFits(answers[k], offers, used)

\* The balances as sums over the ids in use, which are finitely many.
Balance ==
    /\ SumOf(money, Customer) + fees + SumOf(PutDown(offers), used)
           = Cardinality(Customer) * Wealth + lateMoney
    /\ SumOf(stock, Customer) + SumOf(PutUp(offers), used)
           = Cardinality(Customer) * Stock + lateStock

\* The inductive invariant.
MarketInv == MarketTypes /\ OffersAreUsed /\ AnswersFit /\ Balance

\* The customers are finitely many.
LEMMA Customers == IsFiniteSet(Customer) /\ None \notin Customer
  BY MarketAssumption

\* Products of naturals, for the solver.
LEMMA PriceTimesAmount ==
  /\ \A a, b \in Nat : a * b \in Nat
  /\ \A a, b, c \in Nat : c <= b => a * (b - c) = a * b - a * c
  /\ \A a, b, c \in Nat : a * (b + c) = a * b + a * c
  OBVIOUS

\* An offer of the table, or none.
LEMMA OfferOrNone ==
  ASSUME NEW table \in Tables, NEW o \in OfferId
  PROVE  /\ table[o] # NoOffer => table[o] \in Offer
         /\ \A x \in Offer : x # NoOffer
         /\ \A x \in Offer : /\ x.owner \in Customer /\ x.sale \in BOOLEAN
                             /\ x.amount \in Nat /\ x.price \in Nat
<1>1. table[o] # NoOffer => table[o] \in Offer
  BY DEF Tables
<1>2. \A x \in Offer : x.owner # NoOffer.owner
  BY Customers DEF Offer, NoOffer
<1>3. \A x \in Offer : /\ x.owner \in Customer /\ x.sale \in BOOLEAN
                       /\ x.amount \in Nat /\ x.price \in Price
  BY DEF Offer
<1>4. \A x \in Price : x \in Nat
  BY MarketAssumption
<1> QED
  BY <1>1, <1>2, <1>3, <1>4

\* What a table holds can be added.
LEMMA TableIsSummable ==
  ASSUME NEW table \in Tables, NEW ids \in SUBSET OfferId, IsFiniteSet(ids)
  PROVE  /\ Summable(PutDown(table), ids) /\ Summable(PutUp(table), ids)
         /\ \A o \in OfferId : PutDown(table)[o] \in Nat /\ PutUp(table)[o] \in Nat
<1>1. ASSUME NEW o \in OfferId
      PROVE  PutDown(table)[o] \in Nat /\ PutUp(table)[o] \in Nat
  <2>1. CASE table[o] = NoOffer
    BY <2>1 DEF PutDown, PutUp
  <2>2. CASE table[o] # NoOffer
    <3>1. table[o].price \in Nat /\ table[o].amount \in Nat
      BY <2>2, OfferOrNone
    <3>2. table[o].price * table[o].amount \in Nat
      BY <3>1, PriceTimesAmount
    <3> QED
      BY <3>1, <3>2 DEF PutDown, PutUp
  <2> QED
    BY <2>1, <2>2
<1> QED
  BY <1>1 DEF Summable, Numbers

\* Only offer o differs.
SameBut(table, next, o) == \A x \in OfferId : x # o => next[x] = table[x]

\* One offer is changed or deleted.
LEMMA TableChange ==
  ASSUME NEW table \in Tables, NEW next \in Tables, NEW ids \in SUBSET OfferId, IsFiniteSet(ids),
         NEW o \in ids, SameBut(table, next, o)
  PROVE  /\ SumOf(PutDown(next), ids)
              = SumOf(PutDown(table), ids) - PutDown(table)[o] + PutDown(next)[o]
         /\ SumOf(PutUp(next), ids) = SumOf(PutUp(table), ids) - PutUp(table)[o] + PutUp(next)[o]
<1>1. /\ Summable(PutDown(table), ids) /\ Summable(PutUp(table), ids)
      /\ Summable(PutDown(next), ids) /\ Summable(PutUp(next), ids)
  BY TableIsSummable
<1>2. \A x \in ids : x # o => PutDown(next)[x] = PutDown(table)[x]
  BY DEF PutDown, SameBut
<1>3. \A x \in ids : x # o => PutUp(next)[x] = PutUp(table)[x]
  BY DEF PutUp, SameBut
<1>4. SumOf(PutDown(next), ids) = SumOf(PutDown(table), ids) - PutDown(table)[o] + PutDown(next)[o]
  BY <1>1, <1>2, SumChange
<1>5. SumOf(PutUp(next), ids) = SumOf(PutUp(table), ids) - PutUp(table)[o] + PutUp(next)[o]
  BY <1>1, <1>3, SumChange
<1> QED
  BY <1>4, <1>5

\* A new one is entered.
LEMMA TableGrows ==
  ASSUME NEW table \in Tables, NEW next \in Tables, NEW ids \in SUBSET OfferId, IsFiniteSet(ids),
         NEW o \in OfferId, o \notin ids, SameBut(table, next, o),
         NEW more, more = ids \cup {o}
  PROVE  /\ IsFiniteSet(more)
         /\ SumOf(PutDown(next), more) = SumOf(PutDown(table), ids) + PutDown(next)[o]
         /\ SumOf(PutUp(next), more) = SumOf(PutUp(table), ids) + PutUp(next)[o]
<1>1. /\ Summable(PutDown(table), ids) /\ Summable(PutUp(table), ids)
      /\ Summable(PutDown(next), ids) /\ Summable(PutUp(next), ids)
      /\ PutDown(next)[o] \in Int /\ PutUp(next)[o] \in Int
  BY TableIsSummable
<1>2. \A x \in ids : PutDown(next)[x] = PutDown(table)[x]
  BY DEF PutDown, SameBut
<1>3. \A x \in ids : PutUp(next)[x] = PutUp(table)[x]
  BY DEF PutUp, SameBut
<1>4. SumOf(PutDown(next), ids) = SumOf(PutDown(table), ids) /\ SumOf(PutDown(table), ids) \in Int
  BY <1>1, <1>2, SumSame, SumType
<1>5. SumOf(PutUp(next), ids) = SumOf(PutUp(table), ids) /\ SumOf(PutUp(table), ids) \in Int
  BY <1>1, <1>3, SumSame, SumType
<1>6. SumOf(PutDown(next), ids \cup {o}) = PutDown(next)[o] + SumOf(PutDown(next), ids)
  BY <1>1, SumMore
<1>7. SumOf(PutUp(next), ids \cup {o}) = PutUp(next)[o] + SumOf(PutUp(next), ids)
  BY <1>1, SumMore
<1>8. IsFiniteSet(ids \cup {o})
  BY FS_AddElement
<1> QED
  BY <1>1, <1>4, <1>5, <1>6, <1>7, <1>8

\* What customers hold, of money or of things.
Purses == [Customer -> Nat]

\* So can what customers hold.
LEMMA PurseIsSummable ==
  ASSUME NEW purse \in Purses
  PROVE  Summable(purse, Customer) /\ SumOf(purse, Customer) \in Nat
<1>1. \A p \in Customer : purse[p] \in Nat
  BY DEF Purses
<1>2. Summable(purse, Customer)
  BY <1>1, Customers DEF Summable, Numbers
<1> QED
  BY <1>1, <1>2, SumNotNegative

\* One customer is given or pays something.
LEMMA PurseChange ==
  ASSUME NEW purse \in Purses, NEW p \in Customer, NEW v \in Nat
  PROVE  /\ [purse EXCEPT ![p] = v] \in Purses
         /\ SumOf([purse EXCEPT ![p] = v], Customer) = SumOf(purse, Customer) - purse[p] + v
<1>1. PICK next : next = [purse EXCEPT ![p] = v]
  OBVIOUS
<1>2. next \in Purses /\ next[p] = v /\ \A q \in Customer : q # p => next[q] = purse[q]
  BY <1>1 DEF Purses
<1>3. SumOf(next, Customer) = SumOf(purse, Customer) - purse[p] + next[p]
  BY <1>2, PurseIsSummable, SumChange
<1> QED
  BY <1>1, <1>2, <1>3

\* Two customers trade.
Transfer(purse, p, q, v, w) == [purse EXCEPT ![p] = v, ![q] = w]

LEMMA PurseTransfer ==
  ASSUME NEW purse \in Purses, NEW p \in Customer, NEW q \in Customer, p # q,
         NEW v \in Nat, NEW w \in Nat
  PROVE  /\ Transfer(purse, p, q, v, w) \in Purses
         /\ SumOf(Transfer(purse, p, q, v, w), Customer)
              = SumOf(purse, Customer) - purse[p] + v - purse[q] + w
<1>1. PICK mid : mid = [purse EXCEPT ![p] = v]
  OBVIOUS
<1>2. mid \in Purses /\ SumOf(mid, Customer) = SumOf(purse, Customer) - purse[p] + v
  BY <1>1, PurseChange
<1>3. mid[q] = purse[q]
  BY <1>1 DEF Purses
<1>4. PICK next : next = [mid EXCEPT ![q] = w]
  OBVIOUS
<1>5. next \in Purses /\ SumOf(next, Customer) = SumOf(mid, Customer) - mid[q] + w
  BY <1>2, <1>4, PurseChange
<1>6. next = Transfer(purse, p, q, v, w)
  BY <1>1, <1>4 DEF Purses, Transfer
<1>7. purse[p] \in Nat /\ purse[q] \in Nat /\ SumOf(purse, Customer) \in Nat
  BY PurseIsSummable DEF Purses
<1> QED
  BY <1>2, <1>3, <1>5, <1>6, <1>7

-----------------------------------------------------------------------------
(* The handlers.                                                           *)

\* In the beginning there are no offers.
LEMMA MarketStarts == MarketInit => MarketInv
<1> SUFFICES ASSUME MarketInit PROVE MarketInv
  OBVIOUS
<1>1. /\ inMarket = {} /\ money = [p \in Customer |-> Wealth] /\ stock = [p \in Customer |-> Stock]
      /\ offers = [o \in OfferId |-> NoOffer] /\ used = {} /\ expired = {}
      /\ asked = 0 /\ answers = <<>> /\ fees = 0 /\ lateMoney = 0 /\ lateStock = 0
  BY DEF MarketInit
<1>2. Wealth \in Nat /\ Stock \in Nat /\ MaxAnswers \in Nat
  BY MarketAssumption
<1>3. money \in Purses /\ stock \in Purses /\ offers \in Tables
  BY <1>1, <1>2 DEF Purses, Tables
<1>4. MarketTypes
  BY <1>1, <1>2, <1>3, FS_EmptySet DEF MarketTypes, Purses
<1>5. SumOf(money, Customer) = Cardinality(Customer) * Wealth
  BY <1>1, <1>2, Customers, SumConstant
<1>6. SumOf(stock, Customer) = Cardinality(Customer) * Stock
  BY <1>1, <1>2, Customers, SumConstant
<1>7. SumOf(PutDown(offers), {}) = 0 /\ SumOf(PutUp(offers), {}) = 0
  <2>1. IsFiniteSet({}) /\ {} \in SUBSET OfferId
    BY FS_EmptySet
  <2>2. Summable(PutDown(offers), {}) /\ Summable(PutUp(offers), {})
    BY <1>3, <2>1, TableIsSummable
  <2> QED
    BY <2>2, SumType
<1>8. Balance
  <2>1. SumOf(money, Customer) \in Nat /\ SumOf(stock, Customer) \in Nat
    BY <1>3, PurseIsSummable
  <2> QED
    BY <1>1, <1>5, <1>6, <1>7, <2>1 DEF Balance
<1> QED
  BY <1>1, <1>4, <1>8 DEF MarketInv, OffersAreUsed, AnswersFit

\* The numbers of a balance.
LEMMA BalanceTypes ==
  ASSUME MarketTypes
  PROVE  /\ SumOf(money, Customer) \in Nat /\ SumOf(stock, Customer) \in Nat
         /\ SumOf(PutDown(offers), used) \in Int /\ SumOf(PutUp(offers), used) \in Int
         /\ Cardinality(Customer) * Wealth \in Nat /\ Cardinality(Customer) * Stock \in Nat
<1>1. money \in Purses /\ stock \in Purses /\ offers \in Tables /\ used \in SUBSET OfferId
      /\ IsFiniteSet(used)
  BY DEF MarketTypes, Purses
<1>2. Summable(PutDown(offers), used) /\ Summable(PutUp(offers), used)
  BY <1>1, TableIsSummable
<1>3. Cardinality(Customer) \in Nat /\ Wealth \in Nat /\ Stock \in Nat
  BY Customers, FS_CardinalityType, MarketAssumption
<1> QED
  BY <1>1, <1>2, <1>3, PurseIsSummable, SumType, PriceTimesAmount

\* Money or things go from a purse into an offer or back, so that the sum stays.
Moves ==
    /\ SumOf(money', Customer) + fees' + SumOf(PutDown(offers'), used')
           = SumOf(money, Customer) + fees + SumOf(PutDown(offers), used) + lateMoney' - lateMoney
    /\ SumOf(stock', Customer) + SumOf(PutUp(offers'), used')
           = SumOf(stock, Customer) + SumOf(PutUp(offers), used) + lateStock' - lateStock

LEMMA BalanceStays ==
  ASSUME MarketTypes, Balance, lateMoney' \in Nat, lateStock' \in Nat, Moves
  PROVE  Balance'
<1>1. lateMoney \in Nat /\ lateStock \in Nat /\ fees \in Nat
  BY DEF MarketTypes
<1>2. /\ SumOf(money', Customer) + fees' + SumOf(PutDown(offers'), used')
             = Cardinality(Customer) * Wealth + lateMoney'
      /\ SumOf(stock', Customer) + SumOf(PutUp(offers'), used')
             = Cardinality(Customer) * Stock + lateStock'
  BY <1>1, BalanceTypes DEF Balance, Moves
<1>3. PutDown(offers)' = PutDown(offers') /\ PutUp(offers)' = PutUp(offers')
  BY DEF PutDown, PutUp
<1>4. /\ SumOf(money, Customer)' = SumOf(money', Customer)
      /\ SumOf(stock, Customer)' = SumOf(stock', Customer)
      /\ SumOf(PutDown(offers), used)' = SumOf(PutDown(offers'), used')
      /\ SumOf(PutUp(offers), used)' = SumOf(PutUp(offers'), used')
  BY DEF SumOf, Summing, PutDown, PutUp
<1> QED
  BY <1>2, <1>4 DEF Balance

\* What an offer holds.
LEMMA Holding ==
  ASSUME NEW table \in Tables, NEW o \in OfferId
  PROVE  /\ table[o] = NoOffer => PutDown(table)[o] = 0 /\ PutUp(table)[o] = 0
         /\ table[o] # NoOffer /\ table[o].sale
              => PutDown(table)[o] = 0 /\ PutUp(table)[o] = table[o].amount
         /\ table[o] # NoOffer /\ ~table[o].sale
              => PutDown(table)[o] = table[o].price * table[o].amount /\ PutUp(table)[o] = 0
  BY DEF PutDown, PutUp

\* playerCreateMarketOffer: what is paid is put down, but for the fee.
LEMMA CreateKeeps ==
  ASSUME MarketInv, NEW p \in Customer, NEW sale \in BOOLEAN, NEW amount \in Amount,
         NEW price \in Price, CreateOffer(p, sale, amount, price)
  PROVE  MarketInv'
<1>1. amount \in Nat /\ amount > 0 /\ price \in Nat /\ Fee \in Nat
  BY MarketAssumption
<1>2. MarketTypes /\ OffersAreUsed /\ AnswersFit /\ Balance
  BY DEF MarketInv
<1>3. PICK o \in OfferId \ used :
         /\ used' = used \cup {o}
         /\ offers' = [offers EXCEPT ![o] = [owner |-> p, sale |-> sale,
                                             amount |-> amount, price |-> price]]
  BY DEF CreateOffer
<1>4. PICK new : new = [owner |-> p, sale |-> sale, amount |-> amount, price |-> price]
  OBVIOUS
<1>5. /\ new \in Offer /\ new # NoOffer
      /\ new.sale = sale /\ new.amount = amount /\ new.price = price
  <2>1. new \in Offer
    BY <1>1, <1>4 DEF Offer
  <2>2. new.owner = p
    BY <1>4
  <2> QED
    BY <1>4, <2>1, <2>2, Customers DEF NoOffer
<1>6. offers \in Tables /\ used \in SUBSET OfferId /\ IsFiniteSet(used)
      /\ money \in Purses /\ stock \in Purses
  BY <1>2 DEF MarketTypes, Purses
<1>7. /\ offers' \in Tables /\ offers'[o] = new
      /\ SameBut(offers, offers', o)
  BY <1>3, <1>4, <1>5, <1>6 DEF Tables, SameBut
<1>8. /\ IsFiniteSet(used')
      /\ SumOf(PutDown(offers'), used') = SumOf(PutDown(offers), used) + PutDown(offers')[o]
      /\ SumOf(PutUp(offers'), used') = SumOf(PutUp(offers), used) + PutUp(offers')[o]
  <2>1. o \in OfferId /\ o \notin used /\ used' = used \cup {o}
    BY <1>3
  <2> QED
    BY <1>6, <1>7, <2>1, TableGrows
<1>9. UNCHANGED <<inMarket, expired, asked, answers, lateMoney, lateStock>> /\ fees' = fees + Fee
  BY DEF CreateOffer
<1>10. money[p] \in Nat /\ stock[p] \in Nat /\ price * amount \in Nat /\ fees \in Nat
  BY <1>1, <1>2, PriceTimesAmount DEF MarketTypes
<1>16. PICK A, B, C, D \in Int :
         /\ A = SumOf(money, Customer) /\ B = SumOf(PutDown(offers), used)
         /\ C = SumOf(stock, Customer) /\ D = SumOf(PutUp(offers), used)
  BY <1>2, BalanceTypes
<1>17. /\ lateMoney' = lateMoney /\ lateStock' = lateStock
       /\ lateMoney \in Nat /\ lateStock \in Nat
  BY <1>2, <1>9 DEF MarketTypes
<1>11. /\ money' \in Purses /\ stock' \in Purses
       /\ Moves
  <2>1. CASE sale
    <3>1. PICK m \in Nat : m = money[p] - Fee
      BY <1>1, <1>10, <2>1 DEF CreateOffer, Affords
    <3>2. PICK t \in Nat : t = stock[p] - amount
      BY <1>1, <1>10, <2>1 DEF CreateOffer, Affords
    <3>3. money' = [money EXCEPT ![p] = m] /\ stock' = [stock EXCEPT ![p] = t]
      BY <2>1, <3>1, <3>2 DEF CreateOffer
    <3>4. /\ money' \in Purses /\ stock' \in Purses
          /\ SumOf(money', Customer) = SumOf(money, Customer) - money[p] + m
          /\ SumOf(stock', Customer) = SumOf(stock, Customer) - stock[p] + t
      BY <1>6, <3>3, PurseChange
    <3>5. PutDown(offers')[o] = 0 /\ PutUp(offers')[o] = amount
      BY <1>5, <1>7, <2>1, Holding
    <3>6. Moves
      <4>1. SumOf(money', Customer) + fees' + SumOf(PutDown(offers'), used') = A + fees + B
        BY <1>1, <1>8, <1>9, <1>10, <1>16, <3>1, <3>4, <3>5
      <4>2. SumOf(stock', Customer) + SumOf(PutUp(offers'), used') = C + D
        BY <1>1, <1>8, <1>10, <1>16, <3>2, <3>4, <3>5
      <4> QED
        BY <1>10, <1>16, <1>17, <4>1, <4>2 DEF Moves
    <3> QED
      BY <3>4, <3>6
  <2>2. CASE ~sale
    <3>1. PICK m \in Nat : m = money[p] - (price * amount + Fee)
      BY <1>1, <1>10, <2>2 DEF CreateOffer, Affords
    <3>2. money' = [money EXCEPT ![p] = m] /\ stock' = stock
      BY <2>2, <3>1 DEF CreateOffer
    <3>3. /\ money' \in Purses /\ stock' \in Purses
          /\ SumOf(money', Customer) = SumOf(money, Customer) - money[p] + m
          /\ SumOf(stock', Customer) = SumOf(stock, Customer)
      BY <1>6, <3>2, PurseChange
    <3>4. PutDown(offers')[o] = price * amount /\ PutUp(offers')[o] = 0
      BY <1>5, <1>7, <2>2, Holding
    <3>5. Moves
      <4>1. SumOf(money', Customer) + fees' + SumOf(PutDown(offers'), used') = A + fees + B
        BY <1>1, <1>8, <1>9, <1>10, <1>16, <3>1, <3>3, <3>4
      <4>2. SumOf(stock', Customer) + SumOf(PutUp(offers'), used') = C + D
        BY <1>8, <1>16, <3>3, <3>4
      <4> QED
        BY <1>10, <1>16, <1>17, <4>1, <4>2 DEF Moves
    <3> QED
      BY <3>3, <3>5
  <2> QED
    BY <2>1, <2>2
<1>12. MarketTypes'
  BY <1>1, <1>2, <1>3, <1>7, <1>8, <1>9, <1>11 DEF MarketTypes, Purses, Tables
<1>13. OffersAreUsed'
  BY <1>1, <1>2, <1>3, <1>5, <1>7 DEF OffersAreUsed, NoOffer, SameBut
<1>14. AnswersFit'
  <2>1. ASSUME NEW k \in DOMAIN answers
        PROVE  AnswerFits(answers[k], offers', used')
    <3>1. AnswerFits(answers[k], offers, used)
      BY <1>2 DEF AnswersFit
    <3>2. \A r \in answers[k] : r.id \in used /\ r.id # o /\ r.id \in OfferId
      BY <1>3, <1>6, <3>1 DEF AnswerFits
    <3> QED
      BY <1>3, <1>7, <3>1, <3>2 DEF AnswerFits, RowFits, SameBut
  <2> QED
    BY <1>9, <2>1 DEF AnswersFit, AnswerFits, RowFits, NoOffer
<1>15. Balance'
  BY <1>2, <1>9, <1>11, BalanceStays DEF MarketTypes
<1> QED
  BY <1>12, <1>13, <1>14, <1>15 DEF MarketInv

\* Offers that are gone, or as they were, fit the answers as before.
LEMMA AnswersStillFit ==
  ASSUME AnswersFit, MarketTypes, UNCHANGED <<answers, used>>,
         \A o \in OfferId : offers'[o] \in {offers[o], NoOffer}
  PROVE  AnswersFit'
<1>1. ASSUME NEW k \in DOMAIN answers
      PROVE  AnswerFits(answers[k], offers', used')
  <2>1. AnswerFits(answers[k], offers, used)
    BY DEF AnswersFit
  <2>2. \A r \in answers[k] : r.id \in OfferId
    BY <2>1 DEF AnswerFits, MarketTypes
  <2>3. \A r \in answers[k] : offers'[r.id] # NoOffer => offers'[r.id] = offers[r.id]
    BY <2>2
  <2> QED
    BY <2>1, <2>3 DEF AnswerFits, RowFits
<1> QED
  BY <1>1 DEF AnswersFit, AnswerFits, RowFits, NoOffer

\* playerCancelMarketOffer: what is left is given back.
LEMMA CancelKeeps ==
  ASSUME MarketInv, NEW p \in Customer, NEW o \in OfferId, CancelOffer(p, o)
  PROVE  MarketInv'
<1>1. MarketTypes /\ OffersAreUsed /\ AnswersFit /\ Balance
  BY DEF MarketInv
<1>2. /\ offers[o] # NoOffer
      /\ offers' = [offers EXCEPT ![o] = NoOffer]
      /\ UNCHANGED <<inMarket, used, expired, asked, answers, fees, lateMoney, lateStock>>
      /\ GiveBack(p, offers[o].sale, offers[o].amount, offers[o].price)
  BY DEF CancelOffer, OfferExists
<1>3. offers \in Tables /\ used \in SUBSET OfferId /\ IsFiniteSet(used)
      /\ money \in Purses /\ stock \in Purses /\ o \in used
  BY <1>1, <1>2 DEF MarketTypes, Purses, OffersAreUsed
<1>4. PICK amount \in Nat : amount = offers[o].amount
  BY <1>2, <1>3, OfferOrNone
<1>5. PICK price \in Nat : price = offers[o].price
  BY <1>2, <1>3, OfferOrNone
<1>6. PICK sale \in BOOLEAN : sale = offers[o].sale
  BY <1>2, <1>3, OfferOrNone
<1>7. /\ offers' \in Tables /\ offers'[o] = NoOffer
      /\ SameBut(offers, offers', o)
  BY <1>2, <1>3 DEF Tables, SameBut
<1>8. /\ SumOf(PutDown(offers'), used) = SumOf(PutDown(offers), used) - PutDown(offers)[o]
      /\ SumOf(PutUp(offers'), used) = SumOf(PutUp(offers), used) - PutUp(offers)[o]
  <2>1. PutDown(offers')[o] = 0 /\ PutUp(offers')[o] = 0
    BY <1>7, Holding
  <2>2. /\ SumOf(PutDown(offers'), used)
             = SumOf(PutDown(offers), used) - PutDown(offers)[o] + PutDown(offers')[o]
        /\ SumOf(PutUp(offers'), used)
             = SumOf(PutUp(offers), used) - PutUp(offers)[o] + PutUp(offers')[o]
    BY <1>3, <1>7, TableChange
  <2>3. PutDown(offers)[o] \in Nat /\ PutUp(offers)[o] \in Nat
    BY <1>3, TableIsSummable
  <2> QED
    BY <1>1, <2>1, <2>2, <2>3, BalanceTypes
<1>9. money[p] \in Nat /\ stock[p] \in Nat /\ price * amount \in Nat /\ fees \in Nat
  BY <1>1, PriceTimesAmount DEF MarketTypes
<1>15. PICK A, B, C, D \in Int :
         /\ A = SumOf(money, Customer) /\ B = SumOf(PutDown(offers), used)
         /\ C = SumOf(stock, Customer) /\ D = SumOf(PutUp(offers), used)
  BY <1>1, BalanceTypes
<1>16. /\ lateMoney' = lateMoney /\ lateStock' = lateStock /\ fees' = fees /\ used' = used
       /\ lateMoney \in Nat /\ lateStock \in Nat
  BY <1>1, <1>2 DEF MarketTypes
<1>10. money' \in Purses /\ stock' \in Purses /\ Moves
  <2>1. CASE sale
    <3>1. PICK t \in Nat : t = stock[p] + amount
      BY <1>9
    <3>2. money' = money /\ stock' = [stock EXCEPT ![p] = t]
      BY <1>2, <1>4, <1>6, <2>1, <3>1 DEF GiveBack
    <3>3. /\ stock' \in Purses /\ SumOf(stock', Customer) = SumOf(stock, Customer) - stock[p] + t
      BY <1>3, <3>2, PurseChange
    <3>4. PutDown(offers)[o] = 0 /\ PutUp(offers)[o] = amount
      BY <1>2, <1>3, <1>4, <1>6, <2>1, Holding
    <3>5. Moves
      <4>1. SumOf(money', Customer) + fees' + SumOf(PutDown(offers'), used') = A + fees + B
        BY <1>8, <1>9, <1>15, <1>16, <3>1, <3>2, <3>3, <3>4
      <4>2. SumOf(stock', Customer) + SumOf(PutUp(offers'), used') = C + D
        BY <1>8, <1>9, <1>15, <1>16, <3>1, <3>2, <3>3, <3>4
      <4> QED
        BY <1>9, <1>15, <1>16, <4>1, <4>2 DEF Moves
    <3> QED
      BY <1>3, <3>2, <3>3, <3>5
  <2>2. CASE ~sale
    <3>1. PICK m \in Nat : m = money[p] + price * amount
      BY <1>9
    <3>2. stock' = stock /\ money' = [money EXCEPT ![p] = m]
      BY <1>2, <1>4, <1>5, <1>6, <2>2, <3>1 DEF GiveBack
    <3>3. /\ money' \in Purses /\ SumOf(money', Customer) = SumOf(money, Customer) - money[p] + m
      BY <1>3, <3>2, PurseChange
    <3>4. PutDown(offers)[o] = price * amount /\ PutUp(offers)[o] = 0
      BY <1>2, <1>3, <1>4, <1>5, <1>6, <2>2, Holding
    <3>5. Moves
      <4>1. SumOf(money', Customer) + fees' + SumOf(PutDown(offers'), used') = A + fees + B
        BY <1>8, <1>9, <1>15, <1>16, <3>1, <3>2, <3>3, <3>4
      <4>2. SumOf(stock', Customer) + SumOf(PutUp(offers'), used') = C + D
        BY <1>8, <1>9, <1>15, <1>16, <3>1, <3>2, <3>3, <3>4
      <4> QED
        BY <1>9, <1>15, <1>16, <4>1, <4>2 DEF Moves
    <3> QED
      BY <1>3, <3>2, <3>3, <3>5
  <2> QED
    BY <2>1, <2>2
<1>11. MarketTypes'
  BY <1>1, <1>2, <1>7, <1>10 DEF MarketTypes, Purses, Tables
<1>12. OffersAreUsed'
  BY <1>1, <1>2, <1>7 DEF OffersAreUsed, NoOffer, SameBut
<1>13. AnswersFit'
  <2>1. \A x \in OfferId : offers'[x] \in {offers[x], NoOffer}
    BY <1>7 DEF SameBut
  <2> QED
    BY <1>1, <1>2, <2>1, AnswersStillFit
<1>14. Balance'
  BY <1>1, <1>2, <1>10, BalanceStays DEF MarketTypes
<1> QED
  BY <1>11, <1>12, <1>13, <1>14 DEF MarketInv

\* A row of an answer, once an amount of offer o is accepted.
Noted(r, o, amount) == IF r.id = o THEN [r EXCEPT !.late = @ + amount] ELSE r

\* Only the history changes.
LEMMA NotedRow ==
  ASSUME NEW r \in Row, NEW o \in OfferId, NEW amount \in Nat
  PROVE  /\ Noted(r, o, amount) \in Row
         /\ Noted(r, o, amount).id = r.id /\ Noted(r, o, amount).owner = r.owner
         /\ Noted(r, o, amount).sale = r.sale /\ Noted(r, o, amount).price = r.price
         /\ Noted(r, o, amount).amount = r.amount
         /\ Noted(r, o, amount).late = IF r.id = o THEN r.late + amount ELSE r.late
<1>1. CASE r.id = o
  <2>1. PICK late \in Nat : late = r.late + amount
    BY DEF Row
  <2>2. Noted(r, o, amount) = [r EXCEPT !.late = late]
    BY <1>1, <2>1 DEF Noted
  <2> QED
    BY <1>1, <2>1, <2>2 DEF Row
<1>2. CASE r.id # o
  BY <1>2 DEF Noted
<1> QED
  BY <1>1, <1>2

\* The image of a finite set.
LEMMA FiniteImage ==
  ASSUME NEW S, IsFiniteSet(S), NEW m
  PROVE  IsFiniteSet({m[x] : x \in S})
<1> DEFINE k == [x \in S |-> m[x]]
<1>1. k \in Surjection(S, {m[x] : x \in S})
  BY DEF Surjection
<1> QED
  BY <1>1, FS_Surjection

\* After an acceptance the answers fit the offer that is left.
LEMMA NotedFits ==
  ASSUME NEW rows \in SUBSET Row, AnswerFits(rows, offers, used), NEW next, NEW o \in OfferId,
         NEW amount \in Nat, offers \in Tables, offers[o] # NoOffer, SameBut(offers, next, o),
         next[o] # NoOffer =>
           /\ next[o].owner = offers[o].owner /\ next[o].sale = offers[o].sale
           /\ next[o].price = offers[o].price /\ next[o].amount \in Nat
           /\ offers[o].amount = next[o].amount + amount
  PROVE  /\ {Noted(r, o, amount) : r \in rows} \in SUBSET Row
         /\ AnswerFits({Noted(r, o, amount) : r \in rows}, next, used)
<1>1. IsFiniteSet({Noted(r, o, amount) : r \in rows})
  <2> DEFINE m == [r \in rows |-> Noted(r, o, amount)]
  <2>1. IsFiniteSet(rows)
    BY DEF AnswerFits
  <2>2. IsFiniteSet({m[x] : x \in rows})
    BY <2>1, FiniteImage
  <2>3. {m[x] : x \in rows} = {Noted(r, o, amount) : r \in rows}
    OBVIOUS
  <2> QED
    BY <2>2, <2>3
<1>2. \A r \in rows : Noted(r, o, amount) \in Row
  BY NotedRow
<1>3. ASSUME NEW r \in rows
      PROVE  Noted(r, o, amount).id \in used /\ RowFits(Noted(r, o, amount), next)
  <2>1. r \in Row /\ r.id \in used /\ RowFits(r, offers)
    BY DEF AnswerFits
  <2>2. PICK q : q = Noted(r, o, amount)
    OBVIOUS
  <2>3. /\ q.id = r.id /\ q.owner = r.owner /\ q.sale = r.sale /\ q.price = r.price
        /\ q.amount = r.amount /\ q.late = IF r.id = o THEN r.late + amount ELSE r.late
    BY <2>1, <2>2, NotedRow
  <2>4. CASE r.id = o
    <3>1. next[o] # NoOffer => r.amount = offers[o].amount + r.late
      BY <2>1, <2>4 DEF RowFits
    <3>2. r.late \in Nat
      BY <2>1 DEF Row
    <3>3. next[o] # NoOffer => r.amount = next[o].amount + (r.late + amount)
      BY <3>1, <3>2
    <3>4. next[o] # NoOffer => /\ next[o].owner = r.owner /\ next[o].sale = r.sale
                              /\ next[o].price = r.price
      BY <2>1, <2>4 DEF RowFits
    <3> QED
      BY <2>1, <2>2, <2>3, <2>4, <3>3, <3>4 DEF RowFits
  <2>5. CASE r.id # o
    <3>1. next[r.id] = offers[r.id]
      BY <2>1, <2>5 DEF SameBut, Row
    <3> QED
      BY <2>1, <2>2, <2>3, <2>5, <3>1 DEF RowFits
  <2> QED
    BY <2>4, <2>5
<1>4. ASSUME NEW r \in rows, NEW q \in rows, Noted(r, o, amount).id = Noted(q, o, amount).id
      PROVE  r = q
  <2>1. r.id = q.id
    BY <1>4, NotedRow
  <2> QED
    BY <2>1 DEF AnswerFits
<1> HIDE DEF Noted
<1>5. {Noted(r, o, amount) : r \in rows} \in SUBSET Row
  BY <1>2
<1>6. \A x \in {Noted(r, o, amount) : r \in rows} : x.id \in used /\ RowFits(x, next)
  BY <1>3
<1>7. \A x, y \in {Noted(r, o, amount) : r \in rows} : x.id = y.id => x = y
  BY <1>4
<1> QED
  BY <1>1, <1>5, <1>6, <1>7 DEF AnswerFits

\* playerAcceptMarketOffer: what the offer loses, one of the two gets, and the
\* other is paid with what was put down or from the purse.
LEMMA AcceptKeeps ==
  ASSUME MarketInv, NEW p \in Customer, NEW o \in OfferId, NEW amount \in Amount,
         AcceptOffer(p, o, amount)
  PROVE  MarketInv'
<1>1. MarketTypes /\ OffersAreUsed /\ AnswersFit /\ Balance
  BY DEF MarketInv
<1>2. /\ offers[o] # NoOffer /\ offers[o].owner # p /\ amount <= offers[o].amount
      /\ AcceptBuy(p, o, amount) \/ AcceptSell(p, o, amount)
      /\ offers' = Remainder(o, amount)
      /\ NoteLate(o, amount)
      /\ UNCHANGED <<inMarket, used, expired, asked, fees, lateMoney, lateStock>>
  BY DEF AcceptOffer, OfferExists
<1>3. offers \in Tables /\ used \in SUBSET OfferId /\ IsFiniteSet(used)
      /\ money \in Purses /\ stock \in Purses /\ o \in used
  BY <1>1, <1>2 DEF MarketTypes, Purses, OffersAreUsed
<1>4. amount \in Nat
  BY MarketAssumption
<1>5. PICK had \in Nat : had = offers[o].amount
  BY <1>2, <1>3, OfferOrNone
<1>6. PICK price \in Nat : price = offers[o].price
  BY <1>2, <1>3, OfferOrNone
<1>7. PICK sale \in BOOLEAN : sale = offers[o].sale
  BY <1>2, <1>3, OfferOrNone
<1>8. PICK owner \in Customer : owner = offers[o].owner
  BY <1>2, <1>3, OfferOrNone
<1>9. PICK left \in Nat : left = had - amount
  BY <1>2, <1>4, <1>5
<1>10. /\ offers' \in Tables /\ SameBut(offers, offers', o)
       /\ left = 0 => offers'[o] = NoOffer
       /\ left # 0 => /\ offers'[o] # NoOffer /\ offers'[o].amount = left
                      /\ offers'[o].owner = owner /\ offers'[o].price = price
                      /\ offers'[o].sale = sale
  <2>1. CASE had = amount
    <3>1. offers' = [offers EXCEPT ![o] = NoOffer]
      BY <1>2, <1>5, <2>1 DEF Remainder
    <3> QED
      BY <1>3, <1>4, <1>9, <2>1, <3>1 DEF Tables, SameBut
  <2>2. CASE had # amount
    <3>1. offers[o] \in Offer
      BY <1>2, <1>3, OfferOrNone
    <3>2. PICK new : new = [offers[o] EXCEPT !.amount = left]
      OBVIOUS
    <3>3. new \in Offer /\ new.amount = left
      BY <3>1, <3>2 DEF Offer
    <3>4. new.owner = owner /\ new.price = price
      BY <1>6, <1>8, <3>1, <3>2 DEF Offer
    <3>5. new.sale = sale
      BY <1>7, <3>1, <3>2 DEF Offer
    <3>6. new # NoOffer
      BY <1>3, <3>3, OfferOrNone
    <3>7. offers' = [offers EXCEPT ![o] = new]
      <4>1. offers' = [offers EXCEPT ![o].amount = @ - amount]
        BY <1>2, <1>5, <2>2 DEF Remainder
      <4> QED
        BY <1>3, <1>5, <1>9, <3>2, <4>1 DEF Tables
    <3>8. offers' \in Tables /\ SameBut(offers, offers', o) /\ offers'[o] = new
      BY <1>3, <3>3, <3>7 DEF Tables, SameBut
    <3>9. left # 0
      BY <1>4, <1>9, <2>2
    <3> QED
      BY <3>3, <3>4, <3>5, <3>6, <3>8, <3>9
  <2> QED
    BY <2>1, <2>2
<1>11. PICK was, rest, pay \in Nat :
          was = price * had /\ rest = price * left /\ pay = price * amount
  BY <1>4, PriceTimesAmount
<1>12. rest = was - pay /\ (left = 0 => rest = 0)
  BY <1>2, <1>4, <1>5, <1>9, <1>11, PriceTimesAmount
<1>13. /\ sale => /\ PutDown(offers)[o] = 0 /\ PutUp(offers)[o] = had
                  /\ PutDown(offers')[o] = 0 /\ PutUp(offers')[o] = left
       /\ ~sale => /\ PutDown(offers)[o] = was /\ PutUp(offers)[o] = 0
                   /\ PutDown(offers')[o] = rest /\ PutUp(offers')[o] = 0
  <2>1. /\ sale => PutDown(offers)[o] = 0 /\ PutUp(offers)[o] = had
        /\ ~sale => PutDown(offers)[o] = was /\ PutUp(offers)[o] = 0
    BY <1>2, <1>3, <1>5, <1>6, <1>7, <1>11, Holding
  <2>2. CASE left = 0
    BY <1>10, <1>12, <2>1, <2>2, Holding
  <2>3. CASE left # 0
    BY <1>10, <1>11, <2>1, <2>3, Holding
  <2> QED
    BY <2>2, <2>3
<1>14. /\ SumOf(PutDown(offers'), used)
             = SumOf(PutDown(offers), used) - PutDown(offers)[o] + PutDown(offers')[o]
       /\ SumOf(PutUp(offers'), used)
             = SumOf(PutUp(offers), used) - PutUp(offers)[o] + PutUp(offers')[o]
  BY <1>3, <1>10, TableChange
<1>15. /\ money[p] \in Nat /\ stock[p] \in Nat /\ money[owner] \in Nat /\ stock[owner] \in Nat
       /\ fees \in Nat
  BY <1>1 DEF MarketTypes
<1>16. PICK A, B, C, D \in Int :
         /\ A = SumOf(money, Customer) /\ B = SumOf(PutDown(offers), used)
         /\ C = SumOf(stock, Customer) /\ D = SumOf(PutUp(offers), used)
  BY <1>1, BalanceTypes
<1>17. /\ lateMoney' = lateMoney /\ lateStock' = lateStock /\ fees' = fees /\ used' = used
       /\ lateMoney \in Nat /\ lateStock \in Nat
  BY <1>1, <1>2 DEF MarketTypes
<1>18. money' \in Purses /\ stock' \in Purses /\ Moves
  <2>1. CASE AcceptBuy(p, o, amount)
    <3>1. ~sale /\ amount <= stock[p]
      BY <1>7, <2>1 DEF AcceptBuy
    <3>2. PICK m \in Nat : m = money[p] + pay
      BY <1>15
    <3>3. PICK t \in Nat : t = stock[p] - amount
      BY <1>4, <1>15, <3>1
    <3>4. PICK u \in Nat : u = stock[owner] + amount
      BY <1>4, <1>15
    <3>5. money' = [money EXCEPT ![p] = m]
      BY <1>6, <1>11, <2>1, <3>2 DEF AcceptBuy
    <3>6. stock' = Transfer(stock, p, owner, t, u)
      <4>1. stock' = [stock EXCEPT ![p] = @ - amount, ![owner] = @ + amount]
        BY <1>8, <2>1 DEF AcceptBuy
      <4> QED
        BY <1>2, <1>3, <1>8, <3>3, <3>4, <4>1 DEF Purses, Transfer
    <3>7. money' \in Purses /\ SumOf(money', Customer) = A - money[p] + m
      BY <1>3, <1>16, <3>5, PurseChange
    <3>8. p # owner
      BY <1>2, <1>8
    <3>9. /\ stock' \in Purses
          /\ SumOf(stock', Customer) = C - stock[p] + t - stock[owner] + u
      BY <1>3, <1>16, <3>6, <3>8, PurseTransfer
    <3>10. SumOf(PutDown(offers'), used') = B - was + rest /\ SumOf(PutUp(offers'), used') = D
      BY <1>13, <1>14, <1>16, <1>17, <3>1
    <3>11. SumOf(money', Customer) + fees' + SumOf(PutDown(offers'), used') = A + fees + B
      BY <1>12, <1>15, <1>16, <1>17, <3>2, <3>7, <3>10
    <3>12. SumOf(stock', Customer) + SumOf(PutUp(offers'), used') = C + D
      BY <1>4, <1>15, <1>16, <3>3, <3>4, <3>9, <3>10
    <3>13. Moves
      BY <1>15, <1>16, <1>17, <3>11, <3>12 DEF Moves
    <3> QED
      BY <3>7, <3>9, <3>13
  <2>2. CASE AcceptSell(p, o, amount)
    <3>1. sale /\ pay <= money[p]
      BY <1>6, <1>7, <1>11, <2>2 DEF AcceptSell
    <3>2. PICK m \in Nat : m = money[p] - pay
      BY <1>15, <3>1
    <3>3. PICK n \in Nat : n = money[owner] + pay
      BY <1>15
    <3>4. PICK t \in Nat : t = stock[p] + amount
      BY <1>4, <1>15
    <3>5. money' = Transfer(money, p, owner, m, n)
      <4>1. money' = [money EXCEPT ![p] = @ - pay, ![owner] = @ + pay]
        BY <1>6, <1>8, <1>11, <2>2 DEF AcceptSell
      <4> QED
        BY <1>2, <1>3, <1>8, <3>2, <3>3, <4>1 DEF Purses, Transfer
    <3>6. stock' = [stock EXCEPT ![p] = t]
      BY <2>2, <3>4 DEF AcceptSell
    <3>7. p # owner
      BY <1>2, <1>8
    <3>8. /\ money' \in Purses
          /\ SumOf(money', Customer) = A - money[p] + m - money[owner] + n
      BY <1>3, <1>16, <3>5, <3>7, PurseTransfer
    <3>9. stock' \in Purses /\ SumOf(stock', Customer) = C - stock[p] + t
      BY <1>3, <1>16, <3>6, PurseChange
    <3>10. SumOf(PutDown(offers'), used') = B /\ SumOf(PutUp(offers'), used') = D - had + left
      BY <1>13, <1>14, <1>16, <1>17, <3>1
    <3>11. SumOf(money', Customer) + fees' + SumOf(PutDown(offers'), used') = A + fees + B
      BY <1>15, <1>16, <1>17, <3>2, <3>3, <3>8, <3>10
    <3>12. SumOf(stock', Customer) + SumOf(PutUp(offers'), used') = C + D
      BY <1>4, <1>9, <1>15, <1>16, <3>4, <3>9, <3>10
    <3>13. Moves
      BY <1>15, <1>16, <1>17, <3>11, <3>12 DEF Moves
    <3> QED
      BY <3>8, <3>9, <3>13
  <2> QED
    BY <1>2, <2>1, <2>2
<1>19. /\ answers' \in Seq(SUBSET Row) /\ Len(answers') = Len(answers)
       /\ DOMAIN answers' = DOMAIN answers
       /\ \A k \in DOMAIN answers : AnswerFits(answers'[k], offers', used)
  <2>1. answers \in Seq(SUBSET Row)
    BY <1>1 DEF MarketTypes
  <2>2. ASSUME NEW k \in DOMAIN answers
        PROVE  /\ answers'[k] \in SUBSET Row /\ AnswerFits(answers'[k], offers', used)
    <3>1. PICK rows \in SUBSET Row : rows = answers[k]
      BY <2>1, ElementOfSeq
    <3>2. AnswerFits(rows, offers, used)
      BY <1>1, <3>1 DEF AnswersFit
    <3>3. answers'[k] = {Noted(r, o, amount) : r \in rows}
      BY <1>2, <3>1 DEF NoteLate, Noted
    <3>4. offers'[o] # NoOffer =>
            /\ offers'[o].owner = offers[o].owner /\ offers'[o].sale = offers[o].sale
            /\ offers'[o].price = offers[o].price /\ offers'[o].amount \in Nat
            /\ offers[o].amount = offers'[o].amount + amount
      <4>1. CASE left = 0
        BY <1>10, <4>1
      <4>2. CASE left # 0
        <5>1. offers'[o].amount = left /\ offers[o].amount = left + amount
          BY <1>4, <1>5, <1>9, <1>10, <4>2
        <5> QED
          BY <1>6, <1>7, <1>8, <1>10, <4>2, <5>1
      <4> QED
        BY <4>1, <4>2
    <3>5. PICK next : next = offers'
      OBVIOUS
    <3>6. SameBut(offers, next, o) /\ offers[o] # NoOffer
      BY <1>2, <1>10, <3>5
    <3>7. next[o] # NoOffer =>
            /\ next[o].owner = offers[o].owner /\ next[o].sale = offers[o].sale
            /\ next[o].price = offers[o].price /\ next[o].amount \in Nat
            /\ offers[o].amount = next[o].amount + amount
      BY <3>4, <3>5
    <3>8. /\ {Noted(r, o, amount) : r \in rows} \in SUBSET Row
          /\ AnswerFits({Noted(r, o, amount) : r \in rows}, next, used)
      BY <1>3, <1>4, <3>2, <3>6, <3>7, NotedFits
    <3> QED
      BY <3>3, <3>5, <3>8
  <2>3. DOMAIN answers = 1 .. Len(answers) /\ Len(answers) \in Nat
    BY <2>1
  <2>4. answers' = [k \in 1 .. Len(answers) |-> answers'[k]]
    BY <1>2, <2>3 DEF NoteLate
  <2> QED
    BY <2>2, <2>3, <2>4
<1>20. MarketTypes'
  BY <1>1, <1>2, <1>10, <1>18, <1>19 DEF MarketTypes, Purses, Tables
<1>21. OffersAreUsed'
  <2>1. ASSUME NEW x \in OfferId, offers'[x] # NoOffer
        PROVE  x \in used /\ offers'[x].amount > 0
    <3>1. CASE x = o
      BY <1>3, <1>10, <2>1, <3>1
    <3>2. CASE x # o
      BY <1>1, <1>10, <2>1, <3>2 DEF OffersAreUsed, SameBut
    <3> QED
      BY <3>1, <3>2
  <2> QED
    BY <1>17, <2>1 DEF OffersAreUsed, NoOffer
<1>22. AnswersFit'
  BY <1>17, <1>19 DEF AnswersFit, AnswerFits, RowFits, NoOffer
<1>23. Balance'
  BY <1>1, <1>17, <1>18, BalanceStays
<1> QED
  BY <1>20, <1>21, <1>22, <1>23 DEF MarketInv

\* What touches neither the purses nor the offers and answers.
LEMMA OthersKeep ==
  ASSUME MarketInv,
         UNCHANGED <<money, stock, offers, used, answers, fees, lateMoney, lateStock>>,
         inMarket' \in SUBSET Customer, expired' \in SUBSET OfferId,
         asked' \in Nat, asked' + Len(answers) <= MaxAnswers
  PROVE  MarketInv'
<1>1. MarketTypes'
  BY DEF MarketInv, MarketTypes, Tables
<1>2. OffersAreUsed' /\ AnswersFit'
  BY DEF MarketInv, OffersAreUsed, AnswersFit, AnswerFits, RowFits, NoOffer
<1>3. Balance'
  BY DEF MarketInv, Balance, PutDown, PutUp, SumOf, Summing
<1> QED
  BY <1>1, <1>2, <1>3 DEF MarketInv

\* Entering, leaving, growing old, and asking the worker.
LEMMA IdlersKeep ==
  ASSUME MarketInv,
         \/ \E p \in Customer : EnterMarket(p) \/ LeaveMarket(p)
         \/ \E o \in OfferId : Expire(o)
         \/ CheckExpired
         \/ UNCHANGED marketVars
  PROVE  MarketInv'
<1>1. /\ inMarket \in SUBSET Customer /\ expired \in SUBSET OfferId
      /\ asked \in Nat /\ Len(answers) \in Nat /\ asked + Len(answers) <= MaxAnswers
      /\ MaxAnswers \in Nat
  BY MarketAssumption DEF MarketInv, MarketTypes
<1>2. CASE \E p \in Customer : EnterMarket(p) \/ LeaveMarket(p)
  BY <1>1, <1>2, OthersKeep DEF EnterMarket, LeaveMarket
<1>3. CASE \E o \in OfferId : Expire(o)
  BY <1>1, <1>3, OthersKeep DEF Expire
<1>4. CASE CheckExpired
  <2>1. /\ asked' = asked + 1 /\ asked + Len(answers) < MaxAnswers
        /\ UNCHANGED <<inMarket, money, stock, offers, used, expired, answers, fees,
                       lateMoney, lateStock>>
    BY <1>4 DEF CheckExpired
  <2>2. asked' \in Nat /\ asked' + Len(answers) <= MaxAnswers
    BY <1>1, <2>1
  <2> QED
    BY <1>1, <2>1, <2>2, OthersKeep
<1>5. CASE UNCHANGED marketVars
  BY <1>1, <1>5, OthersKeep DEF marketVars
<1> QED
  BY <1>2, <1>3, <1>4, <1>5

\* An answer of the worker is of the offers as they are.
LEMMA WorkerKeeps ==
  ASSUME MarketInv, WorkerAnswers
  PROVE  MarketInv'
<1>1. MarketTypes /\ OffersAreUsed /\ AnswersFit /\ Balance
  BY DEF MarketInv
<1> DEFINE RowOf(o) == [id |-> o, owner |-> offers[o].owner, sale |-> offers[o].sale,
                        amount |-> offers[o].amount, price |-> offers[o].price, late |-> 0]
<1>2. PICK old \in SUBSET OfferId : old = {x \in expired : OfferExists(x)}
  BY <1>1 DEF MarketTypes
<1>3. PICK rows : rows = {RowOf(o) : o \in old}
  OBVIOUS
<1>4. /\ asked > 0 /\ asked' = asked - 1
      /\ answers' = IF rows = {} THEN answers ELSE Append(answers, rows)
      /\ UNCHANGED <<inMarket, money, stock, offers, used, expired, fees, lateMoney, lateStock>>
  BY <1>2, <1>3 DEF WorkerAnswers
<1>5. offers \in Tables /\ used \in SUBSET OfferId /\ IsFiniteSet(used)
  BY <1>1 DEF MarketTypes
<1>6. \A o \in old : o \in OfferId /\ offers[o] # NoOffer /\ o \in used
  BY <1>1, <1>2 DEF OffersAreUsed, OfferExists
<1>7. ASSUME NEW o \in old
      PROVE  /\ RowOf(o) \in Row /\ RowOf(o).id = o /\ RowFits(RowOf(o), offers)
  <2>1. offers[o] \in Offer
    BY <1>5, <1>6, OfferOrNone
  <2>2. /\ offers[o].owner \in Customer /\ offers[o].sale \in BOOLEAN
        /\ offers[o].amount \in Nat /\ offers[o].price \in Price
    BY <2>1 DEF Offer
  <2>3. RowOf(o) \in Row
    BY <1>6, <2>2 DEF Row
  <2>4. RowFits(RowOf(o), offers)
    BY <2>2 DEF RowFits
  <2> QED
    BY <2>3, <2>4
<1>8. IsFiniteSet(rows)
  <2> DEFINE m == [o \in old |-> RowOf(o)]
  <2>1. IsFiniteSet(old)
    BY <1>5, <1>6, FS_Subset
  <2>2. IsFiniteSet({m[x] : x \in old})
    BY <2>1, FiniteImage
  <2>3. {m[x] : x \in old} = rows
    BY <1>3
  <2> QED
    BY <2>2, <2>3
<1> HIDE DEF RowOf
<1>9. rows \in SUBSET Row /\ AnswerFits(rows, offers, used)
  BY <1>3, <1>6, <1>7, <1>8 DEF AnswerFits
<1>10. /\ answers \in Seq(SUBSET Row) /\ asked \in Nat /\ Len(answers) \in Nat
       /\ asked + Len(answers) <= MaxAnswers /\ MaxAnswers \in Nat
  BY <1>1, MarketAssumption DEF MarketTypes
<1>11. /\ answers' \in Seq(SUBSET Row) /\ Len(answers') <= Len(answers) + 1
       /\ Len(answers') \in Nat
       /\ \A k \in DOMAIN answers' : AnswerFits(answers'[k], offers, used)
  <2>1. CASE rows = {}
    BY <1>1, <1>4, <1>10, <2>1 DEF AnswersFit
  <2>2. CASE rows # {}
    <3>1. answers' = Append(answers, rows)
      BY <1>4, <2>2
    <3>2. answers' \in Seq(SUBSET Row) /\ Len(answers') = Len(answers) + 1
      BY <1>9, <1>10, <3>1
    <3>3. ASSUME NEW k \in DOMAIN answers'
          PROVE  AnswerFits(answers'[k], offers, used)
      <4>1. k \in 1 .. Len(answers) + 1
        BY <1>10, <3>2
      <4>2. CASE k = Len(answers) + 1
        BY <1>9, <1>10, <3>1, <4>2
      <4>3. CASE k # Len(answers) + 1
        BY <1>1, <1>10, <3>1, <4>1, <4>3 DEF AnswersFit
      <4> QED
        BY <4>2, <4>3
    <3> QED
      BY <1>10, <3>2, <3>3
  <2> QED
    BY <2>1, <2>2
<1>12. asked' \in Nat /\ asked' + Len(answers') <= MaxAnswers
  BY <1>4, <1>10, <1>11
<1>13. MarketTypes'
  BY <1>1, <1>4, <1>11, <1>12 DEF MarketTypes, Tables
<1>14. OffersAreUsed' /\ AnswersFit'
  BY <1>1, <1>4, <1>11 DEF OffersAreUsed, AnswersFit, AnswerFits, RowFits, NoOffer
<1>15. Balance'
  BY <1>1, <1>4 DEF Balance, PutDown, PutUp, SumOf, Summing
<1> QED
  BY <1>13, <1>14, <1>15 DEF MarketInv

-----------------------------------------------------------------------------
(* Expired offers are given back.                                          *)

IdsOf(G) == {r.id : r \in G}

\* Each customer is given what the rows of G name for it; for a row that is
\* what its offer holds and what was accepted late; and the offers hold no more.
Pays(purse, next, give, G) ==
    \A p \in Customer : next[p] = purse[p] + SumOf(give, {r \in G : r.owner = p})
Owes(G, give, put, late) ==
    \A r \in G : /\ put[r.id] \in Nat /\ late[r] \in Nat /\ give[r] = put[r.id] + late[r]
Deletes(G, put, after) ==
    \A o \in used : /\ put[o] \in Nat
                    /\ after[o] = IF o \in IdsOf(G) THEN 0 ELSE put[o]
RowsOfOffers(G) ==
    /\ G \in SUBSET Row /\ IsFiniteSet(G)
    /\ \A r \in G : r.id \in used
    /\ \A r, q \in G : r.id = q.id => r = q

\* Then the purses and the offers make up what they did, and what was late.
LEMMA Settles ==
  ASSUME NEW G, RowsOfOffers(G), IsFiniteSet(used), NEW purse \in Purses, NEW next,
         DOMAIN next = Customer, next = [p \in Customer |-> next[p]],
         NEW give, NEW put, NEW late, NEW after,
         Pays(purse, next, give, G), Owes(G, give, put, late), Deletes(G, put, after)
  PROVE  /\ next \in Purses /\ SumOf(late, G) \in Nat
         /\ SumOf(next, Customer) + SumOf(after, used)
              = SumOf(purse, Customer) + SumOf(put, used) + SumOf(late, G)
<1>1. /\ IsFiniteSet(G)
      /\ \A r \in G : give[r] \in Nat /\ late[r] \in Nat /\ r.owner \in Customer /\ r.id \in used
  BY DEF RowsOfOffers, Owes, Row
<1>2. Summable(give, G) /\ Summable(late, G)
  BY <1>1 DEF Summable, Numbers
<1>3. PICK of : of = [r \in G |-> r.owner]
  OBVIOUS
<1>4. PICK group : group = [p \in Customer |-> SumOf(give, {r \in G : r.owner = p})]
  OBVIOUS
<1>5. \A p \in Customer : group[p] \in Nat
  <2>1. ASSUME NEW p \in Customer
        PROVE  group[p] \in Nat
    <3>1. PICK part \in SUBSET G : part = {r \in G : r.owner = p}
      OBVIOUS
    <3>2. Summable(give, part) /\ \A r \in part : give[r] >= 0
      BY <1>1, <1>2, SummableParts
    <3>3. SumOf(give, part) \in Nat
      BY <3>2, SumNotNegative
    <3> QED
      BY <1>4, <3>1, <3>3
  <2> QED
    BY <2>1
<1>6. SumOf(group, Customer) = SumOf(give, G)
  <2>1. \A r \in G : of[r] \in Customer
    BY <1>1, <1>3
  <2>2. \A p \in Customer : group[p] = SumOf(give, {r \in G : of[r] = p})
    <3>1. \A p \in Customer : {r \in G : r.owner = p} = {r \in G : of[r] = p}
      BY <1>3
    <3> QED
      BY <1>4, <3>1
  <2>3. PICK C : C = Customer
    OBVIOUS
  <2>4. IsFiniteSet(C)
    BY <2>3, Customers
  <2>5. Groups(give, G, C, of, group)
    BY <2>1, <2>2, <2>3 DEF Groups
  <2>6. SumOf(group, C) = SumOf(give, G)
    BY <1>2, <2>4, <2>5, SumOfGroups
  <2> QED
    BY <2>3, <2>6
<1>7. \A p \in Customer : next[p] = purse[p] + group[p] /\ purse[p] \in Nat
  BY <1>4 DEF Pays, Purses
<1>8. next \in Purses
  BY <1>5, <1>7 DEF Purses
<1>9. SumOf(next, Customer) = SumOf(purse, Customer) + SumOf(group, Customer)
  <2>1. Summable(group, Customer) /\ Summable(purse, Customer)
    BY <1>5, Customers, PurseIsSummable DEF Summable, Numbers
  <2> QED
    BY <1>7, <2>1, SumPlus
\* What the rows' offers hold.
<1>10. PICK held : held = [r \in G |-> put[r.id]]
  OBVIOUS
<1>11. \A r \in G : held[r] \in Nat /\ give[r] = held[r] + late[r]
  BY <1>10 DEF Owes
<1>12. Summable(held, G) /\ SumOf(give, G) = SumOf(held, G) + SumOf(late, G)
  <2>1. Summable(held, G)
    BY <1>1, <1>11 DEF Summable, Numbers
  <2> QED
    BY <1>2, <1>11, <2>1, SumPlus
<1>13. PICK ids \in SUBSET used : ids = IdsOf(G)
  BY <1>1 DEF IdsOf
<1>14. SumOf(put, ids) = SumOf(held, G)
  <2>1. PICK m : m = [r \in G |-> r.id]
    OBVIOUS
  <2>2. \A x, y \in G : m[x] = m[y] => x = y
    BY <2>1 DEF RowsOfOffers
  <2>3. \A x \in G : put[m[x]] = held[x]
    BY <1>10, <2>1
  <2>4. SumOf(put, {m[x] : x \in G}) = SumOf(held, G)
    BY <1>12, <2>2, <2>3, SumRenamed
  <2>5. {m[x] : x \in G} = ids
    BY <1>13, <2>1 DEF IdsOf
  <2> QED
    BY <2>4, <2>5
<1>15. Summable(put, used) /\ Summable(after, used)
  BY DEF Deletes, Summable, Numbers
<1>16. SumOf(put, used) = SumOf(put, ids) + SumOf(put, used \ ids)
  BY <1>15, SumOfParts
<1>17. SumOf(after, used) = SumOf(after, ids) + SumOf(after, used \ ids)
  BY <1>15, SumOfParts
<1>18. SumOf(after, ids) = 0
  <2>1. IsFiniteSet(ids) /\ Cardinality(ids) \in Nat
    BY Parts
  <2>2. PICK z \in Nat : z = 0
    OBVIOUS
  <2>3. \A o \in ids : after[o] = z
    BY <1>13, <2>2 DEF Deletes
  <2>4. SumOf(after, ids) = Cardinality(ids) * z
    BY <2>1, <2>3, SumConstant
  <2> QED
    BY <2>1, <2>2, <2>4
<1>19. SumOf(after, used \ ids) = SumOf(put, used \ ids)
  <2>1. PICK rest \in SUBSET used : rest = used \ ids
    OBVIOUS
  <2>2. Summable(put, rest) /\ \A o \in rest : after[o] = put[o]
    BY <1>13, <1>15, <2>1, SummableParts DEF Deletes
  <2>3. SumOf(after, rest) = SumOf(put, rest)
    BY <2>2, SumSame
  <2> QED
    BY <2>1, <2>3
<1>20. PICK a, b, c, d, e \in Int :
         /\ a = SumOf(purse, Customer) /\ b = SumOf(held, G) /\ c = SumOf(late, G)
         /\ d = SumOf(put, used \ ids) /\ e = SumOf(group, Customer)
  <2>1. PICK rest \in SUBSET used : rest = used \ ids
    OBVIOUS
  <2>2. SumOf(put, rest) \in Int
    BY <1>15, SummableParts, SumType
  <2>3. SumOf(held, G) \in Int /\ SumOf(late, G) \in Int
    BY <1>2, <1>12, SumType
  <2>4. SumOf(purse, Customer) \in Int
    BY PurseIsSummable
  <2>5. SumOf(group, Customer) \in Int
    BY <1>6, <1>12, <2>3
  <2> QED
    BY <2>1, <2>2, <2>3, <2>4, <2>5
<1>21. SumOf(late, G) \in Nat
  BY <1>1, <1>2, SumNotNegative
<1>22. SumOf(next, Customer) = a + e /\ SumOf(after, used) = d /\ SumOf(put, used) = b + d
       /\ e = b + c
  BY <1>6, <1>9, <1>12, <1>14, <1>16, <1>17, <1>18, <1>19, <1>20
<1> QED
  BY <1>8, <1>20, <1>21, <1>22

\* Rows of one kind, and what their offers hold.
LEMMA RowsHold ==
  ASSUME MarketTypes, NEW rows \in SUBSET Row, RowsOfOffers(rows),
         \A r \in rows : offers[r.id] # NoOffer /\ RowFits(r, offers)
  PROVE  \A r \in rows :
           /\ r.amount \in Nat /\ r.price \in Nat /\ r.late \in Nat
           /\ r.price * r.amount \in Nat /\ r.price * r.late \in Nat
           /\ PutUp(offers)[r.id] \in Nat /\ PutDown(offers)[r.id] \in Nat
           /\ r.sale => /\ r.amount = PutUp(offers)[r.id] + r.late
                        /\ PutDown(offers)[r.id] = 0
           /\ ~r.sale => /\ r.price * r.amount = PutDown(offers)[r.id] + r.price * r.late
                         /\ PutUp(offers)[r.id] = 0
<1> TAKE r \in rows
<1>1. /\ r \in Row /\ r.id \in OfferId /\ offers \in Tables /\ used \in SUBSET OfferId
      /\ IsFiniteSet(used)
  BY DEF Row, MarketTypes
<1>2. offers[r.id] # NoOffer /\ RowFits(r, offers)
  OBVIOUS
<1>3. r.amount \in Nat /\ r.price \in Nat /\ r.late \in Nat
  BY <1>1, MarketAssumption DEF Row
<1>4. PICK had \in Nat : had = offers[r.id].amount
  BY <1>1, <1>2, OfferOrNone
<1>5. r.amount = had + r.late /\ offers[r.id].price = r.price
  BY <1>2, <1>4 DEF RowFits
<1>6. r.sale = offers[r.id].sale
  BY <1>2 DEF RowFits
<1>7. /\ r.sale => PutDown(offers)[r.id] = 0 /\ PutUp(offers)[r.id] = had
      /\ ~r.sale => PutDown(offers)[r.id] = r.price * had /\ PutUp(offers)[r.id] = 0
  BY <1>1, <1>2, <1>4, <1>5, <1>6, Holding
<1>8. r.price * (had + r.late) = r.price * had + r.price * r.late
  BY <1>3, PriceTimesAmount
<1>9. r.price * r.amount \in Nat /\ r.price * r.late \in Nat
  BY <1>3, PriceTimesAmount
<1>10. PutUp(offers)[r.id] \in Nat /\ PutDown(offers)[r.id] \in Nat
  BY <1>1, TableIsSummable
<1> QED
  BY <1>3, <1>5, <1>7, <1>8, <1>9, <1>10

\* processExpiredOffers: what offers hold, and what was accepted of them late,
\* is given back.
LEMMA ProcessKeeps ==
  ASSUME MarketInv, ProcessExpired
  PROVE  MarketInv'
<1>1. MarketTypes /\ OffersAreUsed /\ AnswersFit /\ Balance
  BY DEF MarketInv
<1>2. /\ offers \in Tables /\ used \in SUBSET OfferId /\ IsFiniteSet(used)
      /\ money \in Purses /\ stock \in Purses
      /\ answers \in Seq(SUBSET Row) /\ answers # <<>>
  BY <1>1 DEF MarketTypes, Purses, ProcessExpired
<1>3. Head(answers) \in SUBSET Row /\ AnswerFits(Head(answers), offers, used)
  <2>1. Head(answers) = answers[1] /\ 1 \in DOMAIN answers
    BY <1>2
  <2> QED
    BY <1>1, <1>2, <2>1, ElementOfSeq DEF AnswersFit
<1>4. PICK rows \in SUBSET Row : rows = StillThere(Head(answers))
  BY <1>3 DEF StillThere
<1>5. /\ RowsOfOffers(rows)
      /\ \A r \in rows : offers[r.id] # NoOffer /\ RowFits(r, offers)
  <2>1. rows \in SUBSET Head(answers) /\ \A r \in rows : offers[r.id] # NoOffer
    BY <1>4 DEF StillThere, OfferExists
  <2>2. IsFiniteSet(rows)
    BY <1>3, <2>1, FS_Subset DEF AnswerFits
  <2> QED
    BY <1>3, <2>1, <2>2 DEF AnswerFits, RowsOfOffers
<1>6. PICK goods, bids \in SUBSET rows :
         goods = {r \in rows : r.sale} /\ bids = {r \in rows : ~r.sale}
  OBVIOUS
<1>7. RowsOfOffers(goods) /\ RowsOfOffers(bids)
  <2>1. IsFiniteSet(goods) /\ IsFiniteSet(bids)
    BY <1>5, FS_Subset DEF RowsOfOffers
  <2> QED
    BY <1>5, <2>1 DEF RowsOfOffers
<1>8. PICK amounts, prices, lates, latePrices :
         /\ amounts = [r \in Row |-> r.amount] /\ prices = [r \in Row |-> r.price * r.amount]
         /\ lates = [r \in Row |-> r.late] /\ latePrices = [r \in Row |-> r.price * r.late]
  OBVIOUS
<1>9. \A r \in Row : /\ amounts[r] = r.amount /\ prices[r] = r.price * r.amount
                     /\ lates[r] = r.late /\ latePrices[r] = r.price * r.late
  BY <1>8
<1>10. /\ offers' \in Tables
       /\ \A o \in OfferId : offers'[o] = IF o \in IdsOf(rows) THEN NoOffer ELSE offers[o]
  <2>1. offers' = [o \in OfferId |-> IF \E r \in rows : r.id = o THEN NoOffer ELSE offers[o]]
    BY <1>4 DEF ProcessExpired
  <2>2. \A o : (\E r \in rows : r.id = o) <=> o \in IdsOf(rows)
    BY DEF IdsOf
  <2> QED
    BY <1>2, <2>1, <2>2 DEF Tables
<1>11. Pays(stock, stock', amounts, goods) /\ Pays(money, money', prices, bids)
       /\ stock' = [p \in Customer |-> stock'[p]] /\ money' = [p \in Customer |-> money'[p]]
  <2>1. stock' = [p \in Customer |->
           stock[p] + Total({r \in rows : r.sale /\ r.owner = p}, LAMBDA r : r.amount)]
    BY <1>4 DEF ProcessExpired
  <2>2. money' = [p \in Customer |->
           money[p] + Total({r \in rows : ~r.sale /\ r.owner = p}, LAMBDA r : r.price * r.amount)]
    BY <1>4 DEF ProcessExpired
  <2>3. ASSUME NEW p \in Customer
        PROVE  /\ stock'[p] = stock[p] + SumOf(amounts, {r \in goods : r.owner = p})
               /\ money'[p] = money[p] + SumOf(prices, {r \in bids : r.owner = p})
    <3>1. PICK s \in SUBSET rows : s = {r \in goods : r.owner = p}
      OBVIOUS
    <3>2. PICK t \in SUBSET rows : t = {r \in bids : r.owner = p}
      OBVIOUS
    <3>3. {r \in rows : r.sale /\ r.owner = p} = s /\ {r \in rows : ~r.sale /\ r.owner = p} = t
      BY <1>6, <3>1, <3>2
    <3>4. stock'[p] = stock[p] + Total(s, LAMBDA r : r.amount)
      BY <2>1, <3>3
    <3>5. money'[p] = money[p] + Total(t, LAMBDA r : r.price * r.amount)
      BY <2>2, <3>3
    <3>6. \A r \in s : amounts[r] = r.amount
      BY <1>9
    <3>7. \A r \in t : prices[r] = r.price * r.amount
      BY <1>9
    <3>8. Total(s, LAMBDA r : r.amount) = SumOf(amounts, s)
      BY <3>6, TotalAmount
    <3>9. Total(t, LAMBDA r : r.price * r.amount) = SumOf(prices, t)
      BY <3>7, TotalPrice
    <3> QED
      BY <3>1, <3>2, <3>4, <3>5, <3>8, <3>9
  <2>4. Pays(stock, stock', amounts, goods) /\ Pays(money, money', prices, bids)
    BY <2>3 DEF Pays
  <2>5. stock' = [p \in Customer |-> stock'[p]]
    BY <2>1
  <2>6. money' = [p \in Customer |-> money'[p]]
    BY <2>2
  <2> QED
    BY <2>4, <2>5, <2>6
<1>12. /\ lateStock' = lateStock + SumOf(lates, goods)
       /\ lateMoney' = lateMoney + SumOf(latePrices, bids)
  <2>1. lateStock' = lateStock + Total(goods, LAMBDA r : r.late)
    BY <1>4, <1>6 DEF ProcessExpired
  <2>2. lateMoney' = lateMoney + Total(bids, LAMBDA r : r.price * r.late)
    BY <1>4, <1>6 DEF ProcessExpired
  <2>3. \A r \in goods : lates[r] = r.late
    BY <1>9
  <2>4. \A r \in bids : latePrices[r] = r.price * r.late
    BY <1>9
  <2>5. Total(goods, LAMBDA r : r.late) = SumOf(lates, goods)
    BY <2>3, TotalLate
  <2>6. Total(bids, LAMBDA r : r.price * r.late) = SumOf(latePrices, bids)
    BY <2>4, TotalLatePrice
  <2> QED
    BY <2>1, <2>2, <2>5, <2>6
<1>13. Owes(goods, amounts, PutUp(offers), lates) /\ Owes(bids, prices, PutDown(offers), latePrices)
  <2>1. ASSUME NEW r \in goods
        PROVE  /\ PutUp(offers)[r.id] \in Nat /\ lates[r] \in Nat
               /\ amounts[r] = PutUp(offers)[r.id] + lates[r]
    <3>1. r \in rows /\ r \in Row /\ r.sale
      BY <1>6
    <3> QED
      BY <1>1, <1>5, <1>9, <3>1, RowsHold
  <2>2. ASSUME NEW r \in bids
        PROVE  /\ PutDown(offers)[r.id] \in Nat /\ latePrices[r] \in Nat
               /\ prices[r] = PutDown(offers)[r.id] + latePrices[r]
    <3>1. r \in rows /\ r \in Row /\ ~r.sale
      BY <1>6
    <3> QED
      BY <1>1, <1>5, <1>9, <3>1, RowsHold
  <2> QED
    BY <2>1, <2>2 DEF Owes
<1>14. ASSUME NEW o \in used
       PROVE  /\ PutUp(offers)[o] \in Nat /\ PutDown(offers)[o] \in Nat
              /\ PutUp(offers')[o] = IF o \in IdsOf(goods) THEN 0 ELSE PutUp(offers)[o]
              /\ PutDown(offers')[o] = IF o \in IdsOf(bids) THEN 0 ELSE PutDown(offers)[o]
  <2>1. o \in OfferId /\ PutUp(offers)[o] \in Nat /\ PutDown(offers)[o] \in Nat
    BY <1>2, TableIsSummable
  <2>2. CASE o \notin IdsOf(rows)
    <3>1. o \notin IdsOf(goods) /\ o \notin IdsOf(bids)
      BY <2>2 DEF IdsOf
    <3>2. offers'[o] = offers[o]
      BY <1>10, <2>1, <2>2
    <3>3. PutUp(offers')[o] = PutUp(offers)[o] /\ PutDown(offers')[o] = PutDown(offers)[o]
      BY <2>1, <3>2 DEF PutUp, PutDown
    <3> QED
      BY <2>1, <3>1, <3>3
  <2>3. CASE o \in IdsOf(rows)
    <3>1. PICK r \in rows : r.id = o
      BY <2>3 DEF IdsOf
    <3>2. PutUp(offers')[o] = 0 /\ PutDown(offers')[o] = 0
      BY <1>10, <2>1, <2>3, Holding
    <3>3. CASE r.sale
      <4>1. PutDown(offers)[o] = 0
        BY <1>1, <1>5, <3>1, <3>3, RowsHold
      <4>2. o \in IdsOf(goods)
        BY <1>6, <3>1, <3>3 DEF IdsOf
      <4> QED
        BY <2>1, <3>2, <4>1, <4>2
    <3>4. CASE ~r.sale
      <4>1. PutUp(offers)[o] = 0
        BY <1>1, <1>5, <3>1, <3>4, RowsHold
      <4>2. o \in IdsOf(bids)
        BY <1>6, <3>1, <3>4 DEF IdsOf
      <4> QED
        BY <2>1, <3>2, <4>1, <4>2
    <3> QED
      BY <3>3, <3>4
  <2> QED
    BY <2>2, <2>3
<1>15. /\ Deletes(goods, PutUp(offers), PutUp(offers'))
       /\ Deletes(bids, PutDown(offers), PutDown(offers'))
  BY <1>14 DEF Deletes
<1>16. /\ stock' \in Purses /\ SumOf(lates, goods) \in Nat
       /\ SumOf(stock', Customer) + SumOf(PutUp(offers'), used)
            = SumOf(stock, Customer) + SumOf(PutUp(offers), used) + SumOf(lates, goods)
  BY <1>2, <1>7, <1>11, <1>13, <1>15, Settles
<1>17. /\ money' \in Purses /\ SumOf(latePrices, bids) \in Nat
       /\ SumOf(money', Customer) + SumOf(PutDown(offers'), used)
            = SumOf(money, Customer) + SumOf(PutDown(offers), used) + SumOf(latePrices, bids)
  BY <1>2, <1>7, <1>11, <1>13, <1>15, Settles
<1>18. /\ answers' = Tail(answers)
       /\ UNCHANGED <<inMarket, used, expired, asked, fees>>
  BY DEF ProcessExpired
<1>19. fees \in Nat /\ lateMoney \in Nat /\ lateStock \in Nat
  BY <1>1 DEF MarketTypes
<1>20. lateMoney' \in Nat /\ lateStock' \in Nat
  BY <1>12, <1>16, <1>17, <1>19
<1>21. Moves
  <2>1. PICK A, B, C, D \in Int :
           /\ A = SumOf(money, Customer) /\ B = SumOf(PutDown(offers), used)
           /\ C = SumOf(stock, Customer) /\ D = SumOf(PutUp(offers), used)
    BY <1>1, BalanceTypes
  <2>2. PICK m, t \in Nat : m = SumOf(latePrices, bids) /\ t = SumOf(lates, goods)
    BY <1>16, <1>17
  <2>3. lateMoney' = lateMoney + m /\ lateStock' = lateStock + t
    BY <1>12, <2>2
  <2>4. PICK E, F, G, H \in Int :
           /\ E = SumOf(money', Customer) /\ F = SumOf(PutDown(offers'), used)
           /\ G = SumOf(stock', Customer) /\ H = SumOf(PutUp(offers'), used)
    <3>1. Summable(PutDown(offers'), used) /\ Summable(PutUp(offers'), used)
      BY <1>2, <1>10, TableIsSummable
    <3> QED
      BY <1>16, <1>17, <3>1, PurseIsSummable, SumType
  <2>5. E + F = A + B + m /\ G + H = C + D + t
    BY <1>16, <1>17, <2>1, <2>2, <2>4
  <2>6. E + fees + F = A + fees + B + lateMoney' - lateMoney
    BY <1>19, <2>3, <2>5
  <2>7. G + H = C + D + lateStock' - lateStock
    BY <1>19, <2>3, <2>5
  <2> QED
    BY <1>18, <2>1, <2>4, <2>6, <2>7 DEF Moves
<1>22. /\ answers' \in Seq(SUBSET Row) /\ Len(answers') = Len(answers) - 1
       /\ \A k \in DOMAIN answers' : k + 1 \in DOMAIN answers /\ answers'[k] = answers[k + 1]
  BY <1>2, <1>18
<1>23. MarketTypes'
  <2>1. /\ asked \in Nat /\ Len(answers) \in Nat
        /\ asked + Len(answers) <= MaxAnswers /\ MaxAnswers \in Nat
    BY <1>1, <1>2, MarketAssumption DEF MarketTypes
  <2>2. asked' \in Nat /\ asked' + Len(answers') <= MaxAnswers
    BY <1>18, <1>22, <2>1
  <2> QED
    BY <1>1, <1>10, <1>16, <1>17, <1>18, <1>20, <1>22, <2>2 DEF MarketTypes, Purses, Tables
<1>24. OffersAreUsed'
  BY <1>1, <1>10, <1>18 DEF OffersAreUsed, NoOffer
<1>25. AnswersFit'
  <2>1. ASSUME NEW k \in DOMAIN answers'
        PROVE  AnswerFits(answers'[k], offers', used)
    <3>1. PICK had \in SUBSET Row : had = answers'[k]
      BY <1>22, ElementOfSeq
    <3>2. AnswerFits(had, offers, used)
      BY <1>1, <1>22, <3>1 DEF AnswersFit
    <3>3. \A r \in had : offers'[r.id] # NoOffer => offers'[r.id] = offers[r.id]
      BY <1>10 DEF Row
    <3> QED
      BY <3>1, <3>2, <3>3 DEF AnswerFits, RowFits
  <2> QED
    BY <1>18, <2>1 DEF AnswersFit, AnswerFits, RowFits, NoOffer
<1>26. Balance'
  BY <1>1, <1>20, <1>21, BalanceStays
<1> QED
  BY <1>23, <1>24, <1>25, <1>26 DEF MarketInv

\* Every step.
LEMMA MarketKeeps == MarketInv /\ [MarketNext]_marketVars => MarketInv'
<1> SUFFICES ASSUME MarketInv, [MarketNext]_marketVars PROVE MarketInv'
  OBVIOUS
<1>1. CASE \E p \in Customer : EnterMarket(p) \/ LeaveMarket(p)
  BY <1>1, IdlersKeep
<1>2. CASE \E p \in Customer, sale \in BOOLEAN, amount \in Amount, price \in Price :
             CreateOffer(p, sale, amount, price)
  BY <1>2, CreateKeeps
<1>3. CASE \E p \in Customer, o \in OfferId : CancelOffer(p, o)
  BY <1>3, CancelKeeps
<1>4. CASE \E p \in Customer, o \in OfferId, amount \in Amount : AcceptOffer(p, o, amount)
  BY <1>4, AcceptKeeps
<1>5. CASE (\E o \in OfferId : Expire(o)) \/ CheckExpired \/ UNCHANGED marketVars
  BY <1>5, IdlersKeep
<1>6. CASE WorkerAnswers
  BY <1>6, WorkerKeeps
<1>7. CASE ProcessExpired
  BY <1>7, ProcessKeeps
<1> QED
  BY <1>1, <1>2, <1>3, <1>4, <1>5, <1>6, <1>7 DEF MarketNext

\* So the invariant holds.
LEMMA MarketStays == MarketSpec => []MarketInv
  BY MarketStarts, MarketKeeps, PTL DEF MarketSpec

\* The types, for every value of the constants.
THEOREM MarketTypeCorrect == MarketSpec => []MarketTypeOK
<1>1. MarketInv => MarketTypeOK
  <2> SUFFICES ASSUME MarketInv PROVE MarketTypeOK
    OBVIOUS
  <2>1. MarketTypes
    BY DEF MarketInv
  <2>2. /\ asked \in Nat /\ Len(answers) \in Nat
        /\ asked + Len(answers) <= MaxAnswers /\ MaxAnswers \in Nat
    BY <2>1, MarketAssumption DEF MarketTypes
  <2>3. asked \in 0 .. MaxAnswers /\ Len(answers) <= MaxAnswers
    BY <2>2
  <2>4. \A o \in OfferId : offers[o] \in Offer \cup {NoOffer}
    BY <2>1 DEF MarketTypes, Tables
  <2>5. \A k \in DOMAIN answers : \A r \in answers[k] : r \in Row
    BY <2>1, ElementOfSeq DEF MarketTypes
  <2> QED
    BY <2>1, <2>3, <2>4, <2>5 DEF MarketTypes, MarketTypeOK
<1> QED
  BY <1>1, MarketStays, PTL

\* What the offers of one kind hold is what the table holds of it.
LEMMA HeldByOffers ==
  ASSUME MarketInv
  PROVE  /\ Total(Offered(FALSE), LAMBDA o : offers[o].price * offers[o].amount)
              = SumOf(PutDown(offers), used)
         /\ Total(Offered(TRUE), LAMBDA o : offers[o].amount) = SumOf(PutUp(offers), used)
<1>1. /\ offers \in Tables /\ used \in SUBSET OfferId /\ IsFiniteSet(used)
      /\ \A o \in OfferId : offers[o] # NoOffer => o \in used
  BY DEF MarketInv, MarketTypes, OffersAreUsed
<1>2. PICK bids \in SUBSET used : bids = Offered(FALSE)
  BY <1>1 DEF Offered, OfferExists
<1>3. PICK goods \in SUBSET used : goods = Offered(TRUE)
  BY <1>1 DEF Offered, OfferExists
<1>4. \A o \in bids : PutDown(offers)[o] = offers[o].price * offers[o].amount
  BY <1>2 DEF Offered, OfferExists, PutDown
<1>5. \A o \in goods : PutUp(offers)[o] = offers[o].amount
  BY <1>3 DEF Offered, OfferExists, PutUp
<1>6. \A o \in used \ bids : PutDown(offers)[o] = 0
  <2>1. ASSUME NEW o \in used \ bids, offers[o] # NoOffer
        PROVE  offers[o].sale
    <3>1. offers[o].sale \in BOOLEAN
      BY <1>1, <2>1, OfferOrNone
    <3>2. offers[o].sale # FALSE
      BY <1>1, <1>2, <2>1 DEF Offered, OfferExists
    <3> QED
      BY <3>1, <3>2
  <2> QED
    BY <1>1, <2>1 DEF PutDown
<1>7. \A o \in used \ goods : PutUp(offers)[o] = 0
  <2>1. ASSUME NEW o \in used \ goods, offers[o] # NoOffer
        PROVE  ~offers[o].sale
    <3>1. offers[o].sale # TRUE
      BY <1>1, <1>3, <2>1 DEF Offered, OfferExists
    <3> QED
      BY <1>1, <2>1, <3>1, OfferOrNone
  <2> QED
    BY <1>1, <2>1 DEF PutUp
<1>8. Total(bids, LAMBDA o : offers[o].price * offers[o].amount) = SumOf(PutDown(offers), bids)
  BY <1>4, TotalBid
<1>9. Total(goods, LAMBDA o : offers[o].amount) = SumOf(PutUp(offers), goods)
  BY <1>5, TotalOffered
<1>10. Summable(PutDown(offers), used) /\ Summable(PutUp(offers), used)
  BY <1>1, TableIsSummable
<1>11. SumOf(PutDown(offers), bids) = SumOf(PutDown(offers), used)
  <2>1. PICK f : f = PutDown(offers)
    OBVIOUS
  <2> QED
    BY <1>6, <1>10, <2>1, SumWithZeros
<1>12. SumOf(PutUp(offers), goods) = SumOf(PutUp(offers), used)
  <2>1. PICK f : f = PutUp(offers)
    OBVIOUS
  <2> QED
    BY <1>7, <1>10, <2>1, SumWithZeros
<1> QED
  BY <1>2, <1>3, <1>8, <1>9, <1>11, <1>12

\* The market neither makes nor loses money or things, whatever is created,
\* cancelled, accepted or expires, and whatever the worker's answers find.
THEOREM MarketAlwaysConserves == MarketSpec => []MarketConserves
<1>1. MarketInv => MarketConserves
  <2> SUFFICES ASSUME MarketInv PROVE MarketConserves
    OBVIOUS
  <2>1. Balance /\ MarketTypes /\ OffersAreUsed
    BY DEF MarketInv
  <2>2. Sum(money) = SumOf(money, Customer) /\ Sum(stock) = SumOf(stock, Customer)
    BY SumOfPurse
  <2>3. \A p \in Customer : money[p] >= 0 /\ stock[p] >= 0
    BY <2>1 DEF MarketTypes
  <2>4. \A o \in OfferId : OfferExists(o) => offers[o].amount > 0
    BY <2>1 DEF OffersAreUsed, OfferExists
  <2>5. Sum(money) + fees + Total(Offered(FALSE), LAMBDA o : offers[o].price * offers[o].amount)
           = Cardinality(Customer) * Wealth + lateMoney
    BY <2>1, <2>2, HeldByOffers DEF Balance
  <2>6. Sum(stock) + Total(Offered(TRUE), LAMBDA o : offers[o].amount)
           = Cardinality(Customer) * Stock + lateStock
    BY <2>1, <2>2, HeldByOffers DEF Balance
  <2> QED
    BY <2>3, <2>4, <2>5, <2>6 DEF MarketConserves
<1> QED
  BY <1>1, MarketStays, PTL

-----------------------------------------------------------------------------
(* Parties.  Members as a sequence in which nobody is twice.               *)

\* The first, and only, occurrence of a member is taken out.
LEMMA TakenOut ==
  ASSUME NEW s \in Seq(Player), IsInjective(s), NEW e \in Player
  PROVE  /\ RemoveFirst(s, e) \in Seq(Player) /\ IsInjective(RemoveFirst(s, e))
         /\ ToSet(RemoveFirst(s, e)) = ToSet(s) \ {e}
<1>1. Len(s) \in Nat /\ DOMAIN s = 1 .. Len(s) /\ \A i \in 1 .. Len(s) : s[i] \in Player
  BY ElementOfSeq
<1>2. CASE ~\E i \in 1 .. Len(s) : s[i] = e
  <2>1. RemoveFirst(s, e) = s
    BY <1>2 DEF RemoveFirst
  <2>2. e \notin ToSet(s)
    BY <1>1, <1>2 DEF ToSet
  <2> QED
    BY <2>1, <2>2
<1>3. CASE \E i \in 1 .. Len(s) : s[i] = e
  <2>1. PICK k \in 1 .. Len(s) : s[k] = e
    BY <1>3
  <2>2. {i \in 1 .. Len(s) : s[i] = e} = {k}
    BY <1>1, <2>1 DEF IsInjective
  <2>3. SelectInSeq(s, LAMBDA v : v = e) = k
    <3>1. Min({k}) = k
      BY DEF Min
    <3>2. {k} # {}
      OBVIOUS
    <3> QED
      BY <2>2, <3>1, <3>2 DEF SelectInSeq
  <2>4. PICK r : r = SubSeq(s, 1, k - 1) \o SubSeq(s, k + 1, Len(s))
    OBVIOUS
  <2>5. RemoveFirst(s, e) = r
    BY <1>3, <2>3, <2>4 DEF RemoveFirst, RemoveAt
  <2>6. /\ r \in Seq(Player) /\ Len(r) = Len(s) - 1
        /\ \A i \in 1 .. Len(s) - 1 : r[i] = IF i < k THEN s[i] ELSE s[i + 1]
    <3>1. PICK a : a = SubSeq(s, 1, k - 1)
      OBVIOUS
    <3>2. PICK b : b = SubSeq(s, k + 1, Len(s))
      OBVIOUS
    <3>3. /\ a \in Seq(Player) /\ Len(a) = k - 1 /\ \A i \in 1 .. k - 1 : a[i] = s[i]
      BY <1>1, <2>1, <3>1
    <3>4. /\ b \in Seq(Player) /\ Len(b) = Len(s) - k /\ \A i \in 1 .. Len(s) - k : b[i] = s[k + i]
      <4>1. \A i \in k + 1 .. Len(s) : s[i] \in Player
        BY <1>1
      <4>2. k + 1 \in Int /\ Len(s) \in Int
        BY <1>1
      <4>3. /\ b \in Seq(Player)
            /\ Len(b) = IF k + 1 <= Len(s) THEN Len(s) - (k + 1) + 1 ELSE 0
            /\ \A i \in 1 .. Len(s) - (k + 1) + 1 : b[i] = s[(k + 1) + i - 1]
        BY <3>2, <4>1, <4>2, SubSeqProperties
      <4>4. Len(b) = Len(s) - k
        <5>1. PICK n \in Nat : n = Len(s)
          BY <1>1
        <5>2. Len(b) = IF k + 1 <= n THEN n - (k + 1) + 1 ELSE 0
          BY <4>3, <5>1
        <5>3. k \in 1 .. n
          BY <2>1, <5>1
        <5>4. (IF k + 1 <= n THEN n - (k + 1) + 1 ELSE 0) = n - k
          BY <5>3
        <5> QED
          BY <5>1, <5>2, <5>4
      <4>5. ASSUME NEW i \in 1 .. Len(s) - k
            PROVE  b[i] = s[k + i]
        <5>1. i \in 1 .. Len(s) - (k + 1) + 1 /\ (k + 1) + i - 1 = k + i
          BY <1>1
        <5> QED
          BY <4>3, <5>1
      <4> QED
        BY <4>3, <4>4, <4>5
    <3>5. r = a \o b
      BY <2>4, <3>1, <3>2
    <3>6. r \in Seq(Player) /\ Len(r) = Len(s) - 1
      <4>1. r \in Seq(Player) /\ Len(r) = Len(a) + Len(b)
        BY <3>3, <3>4, <3>5, ConcatProperties
      <4> QED
        BY <1>1, <3>3, <3>4, <4>1
    <3>7. ASSUME NEW i \in 1 .. Len(s) - 1
          PROVE  r[i] = IF i < k THEN s[i] ELSE s[i + 1]
      <4>1. CASE i < k
        BY <1>1, <2>1, <3>3, <3>4, <3>5, <4>1
      <4>2. CASE i >= k
        <5>1. i - (k - 1) \in 1 .. Len(s) - k /\ k + (i - (k - 1)) = i + 1
          BY <1>1, <2>1, <4>2
        <5>2. r[i] = b[i - (k - 1)]
          BY <1>1, <2>1, <3>3, <3>4, <3>5, <4>2
        <5>3. PICK j \in 1 .. Len(s) - k : j = i - (k - 1) /\ k + j = i + 1
          BY <5>1
        <5>4. b[j] = s[k + j]
          BY <3>4
        <5>5. ~(i < k)
          BY <2>1, <4>2
        <5> QED
          BY <5>2, <5>3, <5>4, <5>5
      <4> QED
        BY <1>1, <2>1, <4>1, <4>2
    <3> QED
      BY <3>6, <3>7
  <2>7. DOMAIN r = 1 .. Len(s) - 1
    BY <2>6
  <2> DEFINE at(i) == IF i < k THEN i ELSE i + 1
  <2>8. IsInjective(r)
    <3>1. ASSUME NEW i \in 1 .. Len(s) - 1
          PROVE  at(i) \in DOMAIN s /\ r[i] = s[at(i)]
      BY <1>1, <2>1, <2>6
    <3>2. ASSUME NEW i \in 1 .. Len(s) - 1, NEW j \in 1 .. Len(s) - 1, r[i] = r[j]
          PROVE  i = j
      <4>1. at(i) = at(j)
        BY <3>1, <3>2 DEF IsInjective
      <4> QED
        BY <1>1, <2>1, <4>1
    <3> QED
      BY <2>7, <3>2 DEF IsInjective
  <2>9. ASSUME NEW x
        PROVE  x \in ToSet(r) <=> x \in ToSet(s) \ {e}
    <3>1. ASSUME NEW i \in 1 .. Len(s) - 1
          PROVE  r[i] \in ToSet(s) \ {e}
      <4>1. CASE i < k
        BY <1>1, <2>1, <2>6, <4>1 DEF ToSet, IsInjective
      <4>2. CASE i >= k
        BY <1>1, <2>1, <2>6, <4>2 DEF ToSet, IsInjective
      <4> QED
        BY <1>1, <2>1, <4>1, <4>2
    <3>2. ASSUME NEW i \in 1 .. Len(s), i # k
          PROVE  s[i] \in ToSet(r)
      <4>1. CASE i < k
        BY <1>1, <2>1, <2>6, <2>7, <4>1 DEF ToSet
      <4>2. CASE i > k
        <5>1. i - 1 \in 1 .. Len(s) - 1 /\ r[i - 1] = s[i]
          BY <1>1, <2>1, <2>6, <4>2
        <5> QED
          BY <2>7, <5>1 DEF ToSet
      <4> QED
        BY <1>1, <2>1, <3>2, <4>1, <4>2
    <3> QED
      BY <1>1, <2>1, <2>7, <3>1, <3>2 DEF ToSet
  <2> QED
    BY <2>5, <2>6, <2>8, <2>9
<1> QED
  BY <1>2, <1>3

\* One joins at the end.
LEMMA PutIn ==
  ASSUME NEW s \in Seq(Player), IsInjective(s), NEW e \in Player, e \notin ToSet(s)
  PROVE  /\ Append(s, e) \in Seq(Player) /\ IsInjective(Append(s, e))
         /\ ToSet(Append(s, e)) = ToSet(s) \cup {e}
<1>1. Len(s) \in Nat /\ DOMAIN s = 1 .. Len(s) /\ \A i \in 1 .. Len(s) : s[i] \in ToSet(s)
  BY DEF ToSet
<1>2. PICK r : r = Append(s, e)
  OBVIOUS
<1>3. /\ r \in Seq(Player) /\ DOMAIN r = 1 .. Len(s) + 1 /\ r[Len(s) + 1] = e
      /\ \A i \in 1 .. Len(s) : r[i] = s[i]
  BY <1>1, <1>2
<1>4. IsInjective(r)
  <2>1. ASSUME NEW i \in 1 .. Len(s) + 1, NEW j \in 1 .. Len(s) + 1, r[i] = r[j], i # j
        PROVE  FALSE
    <3>1. CASE i = Len(s) + 1
      <4>1. j \in 1 .. Len(s)
        BY <1>1, <2>1, <3>1
      <4> QED
        BY <1>1, <1>3, <2>1, <3>1, <4>1
    <3>2. CASE j = Len(s) + 1
      <4>1. i \in 1 .. Len(s)
        BY <1>1, <2>1, <3>2
      <4> QED
        BY <1>1, <1>3, <2>1, <3>2, <4>1
    <3>3. CASE i # Len(s) + 1 /\ j # Len(s) + 1
      <4>1. i \in 1 .. Len(s) /\ j \in 1 .. Len(s)
        BY <1>1, <3>3
      <4> QED
        BY <1>1, <1>3, <2>1, <4>1 DEF IsInjective
    <3> QED
      BY <3>1, <3>2, <3>3
  <2> QED
    BY <1>3, <2>1 DEF IsInjective
<1>5. ASSUME NEW x
      PROVE  x \in ToSet(r) <=> x \in ToSet(s) \cup {e}
  <2>1. \A i \in 1 .. Len(s) + 1 : i = Len(s) + 1 \/ i \in 1 .. Len(s)
    BY <1>1
  <2>2. Len(s) + 1 \in 1 .. Len(s) + 1 /\ \A i \in 1 .. Len(s) : i \in 1 .. Len(s) + 1
    BY <1>1
  <2> QED
    BY <1>1, <1>3, <2>1, <2>2 DEF ToSet
<1> QED
  BY <1>2, <1>3, <1>4, <1>5

\* The old leader becomes the first.
LEMMA PutFirst ==
  ASSUME NEW s \in Seq(Player), IsInjective(s), NEW e \in Player, e \notin ToSet(s)
  PROVE  /\ <<e>> \o s \in Seq(Player) /\ IsInjective(<<e>> \o s)
         /\ ToSet(<<e>> \o s) = ToSet(s) \cup {e}
<1>1. Len(s) \in Nat /\ DOMAIN s = 1 .. Len(s) /\ \A i \in 1 .. Len(s) : s[i] \in ToSet(s)
  BY DEF ToSet
<1>2. PICK r : r = <<e>> \o s
  OBVIOUS
<1>3. /\ r \in Seq(Player) /\ DOMAIN r = 1 .. Len(s) + 1 /\ r[1] = e
      /\ \A i \in 2 .. Len(s) + 1 : r[i] = s[i - 1]
  <2>1. <<e>> \in Seq(Player) /\ Len(<<e>>) = 1 /\ <<e>>[1] = e
    OBVIOUS
  <2>2. /\ r \in Seq(Player) /\ Len(r) = Len(<<e>>) + Len(s)
        /\ \A i \in 1 .. Len(<<e>>) + Len(s) :
             r[i] = IF i <= Len(<<e>>) THEN <<e>>[i] ELSE s[i - Len(<<e>>)]
    BY <1>2, <2>1, ConcatProperties
  <2>3. Len(r) = Len(s) + 1
    BY <1>1, <2>1, <2>2
  <2>4. r[1] = e
    BY <1>1, <2>1, <2>2
  <2>5. ASSUME NEW i \in 2 .. Len(s) + 1
        PROVE  r[i] = s[i - 1]
    BY <1>1, <2>1, <2>2
  <2> QED
    BY <2>2, <2>3, <2>4, <2>5
<1>4. \A i \in 2 .. Len(s) + 1 : i - 1 \in 1 .. Len(s) /\ r[i] \in ToSet(s)
  BY <1>1, <1>3
<1>5. \A i \in 1 .. Len(s) + 1 : i = 1 \/ i \in 2 .. Len(s) + 1
  BY <1>1
<1>6. IsInjective(r)
  <2>1. ASSUME NEW i \in 1 .. Len(s) + 1, NEW j \in 1 .. Len(s) + 1, r[i] = r[j], i # j
        PROVE  FALSE
    <3>1. CASE i = 1
      BY <1>3, <1>4, <1>5, <2>1, <3>1
    <3>2. CASE j = 1
      BY <1>3, <1>4, <1>5, <2>1, <3>2
    <3>3. CASE i # 1 /\ j # 1
      <4>1. i \in 2 .. Len(s) + 1 /\ j \in 2 .. Len(s) + 1
        BY <1>5, <3>3
      <4>2. s[i - 1] = s[j - 1] /\ i - 1 \in DOMAIN s /\ j - 1 \in DOMAIN s
        BY <1>1, <1>3, <1>4, <2>1, <4>1
      <4>3. i - 1 = j - 1
        BY <4>2 DEF IsInjective
      <4> QED
        BY <2>1, <4>1, <4>3
    <3> QED
      BY <3>1, <3>2, <3>3
  <2> QED
    BY <1>3, <2>1 DEF IsInjective
<1>7. ASSUME NEW x
      PROVE  x \in ToSet(r) <=> x \in ToSet(s) \cup {e}
  <2>1. \A i \in 1 .. Len(s) : i + 1 \in 2 .. Len(s) + 1 /\ i + 1 \in 1 .. Len(s) + 1
                             /\ r[i + 1] = s[i]
    BY <1>1, <1>3
  <2>2. 1 \in 1 .. Len(s) + 1
    BY <1>1
  <2>3. ToSet(r) = {r[i] : i \in 1 .. Len(s) + 1} /\ ToSet(s) = {s[i] : i \in 1 .. Len(s)}
    BY <1>1, <1>3 DEF ToSet
  <2>4. ASSUME x \in ToSet(r)
        PROVE  x \in ToSet(s) \cup {e}
    <3>1. PICK i \in 1 .. Len(s) + 1 : x = r[i]
      BY <2>3, <2>4
    <3> QED
      BY <1>3, <1>4, <1>5, <3>1
  <2>5. ASSUME x \in ToSet(s)
        PROVE  x \in ToSet(r)
    <3>1. PICK i \in 1 .. Len(s) : x = s[i]
      BY <2>3, <2>5
    <3>2. i + 1 \in 1 .. Len(s) + 1 /\ r[i + 1] = x
      BY <2>1, <3>1
    <3> QED
      BY <2>3, <3>2
  <2>6. e \in ToSet(r)
    BY <1>3, <2>2, <2>3
  <2> QED
    BY <2>4, <2>5, <2>6
<1> QED
  BY <1>2, <1>3, <1>6, <1>7

\* The first of a party's members, if it has any.
LEMMA FirstOf ==
  ASSUME NEW s \in Seq(Player)
  PROVE  /\ s = <<>> <=> ToSet(s) = {}
         /\ s # <<>> => Head(s) \in ToSet(s)
         /\ ToSet(s) \subseteq Player
         /\ Len(s) = 1 => ToSet(s) = {Head(s)}
<1>1. Len(s) \in Nat /\ DOMAIN s = 1 .. Len(s) /\ \A i \in 1 .. Len(s) : s[i] \in Player
  BY ElementOfSeq
<1>2. s = <<>> <=> Len(s) = 0
  BY EmptySeq
<1>3. s # <<>> => 1 \in 1 .. Len(s) /\ Head(s) = s[1]
  BY <1>1, <1>2
<1>4. ToSet(s) = {s[i] : i \in 1 .. Len(s)}
  BY <1>1 DEF ToSet
<1>5. CASE s = <<>>
  BY <1>1, <1>2, <1>4, <1>5
<1>6. CASE s # <<>>
  <2>1. Head(s) \in ToSet(s)
    BY <1>3, <1>4, <1>6
  <2>2. ToSet(s) \subseteq Player
    BY <1>1, <1>4
  <2>3. ASSUME Len(s) = 1
        PROVE  ToSet(s) = {Head(s)}
    <3>1. 1 .. Len(s) = {1}
      BY <2>3
    <3> QED
      BY <1>3, <1>4, <1>6, <3>1
  <2> QED
    BY <1>6, <2>1, <2>2, <2>3
<1> QED
  BY <1>5, <1>6

-----------------------------------------------------------------------------
(* A party, and what players remember of it.                               *)

PartyRec == [leader : Player \cup {None}, members : Seq(Player),
             invites : SUBSET Player, active : BOOLEAN, enabled : BOOLEAN]

\* The leader and the members.
Those(s) == {s.leader} \cup ToSet(s.members)

Ordered(s) ==
    /\ s \in PartyRec
    /\ IsInjective(s.members) /\ s.leader \notin ToSet(s.members)
    /\ \A p \in s.invites : p \notin Those(s)
    /\ s.leader = None => s = NoParty
    /\ s.leader # None => ~IsEmpty(s)

Belongs(s, P, of) == \A p \in Player : of[p] = P <=> p \in Those(s)
Asked(s, P, by) == \A p \in Player : P \in by[p] <=> p \in s.invites
Around(s, here) == \A p \in Player : p \in Those(s) \/ p \in s.invites => p \in here

Fits(s, P, of, by, here) ==
    Ordered(s) /\ Belongs(s, P, of) /\ Asked(s, P, by) /\ Around(s, here)

OfType == [Player -> PartyId \cup {None}]
ByType == [Player -> SUBSET PartyId]
PartyStates == [parties : [PartyId -> PartyRec], partyOf : OfType, invitedBy : ByType]

FewAsk(by) == \A p \in Player : IsFiniteSet(by[p])
AllFit(st, here) ==
    \A P \in PartyId : Fits(st.parties[P], P, st.partyOf, st.invitedBy, here)

Sound(st, here) == st \in PartyStates /\ FewAsk(st.invitedBy) /\ AllFit(st, here)

\* What concerns other parties stays.
Others(of, of2, by, by2, P) ==
    \A Q \in PartyId : Q # P => \A p \in Player : /\ of2[p] = Q <=> of[p] = Q
                                                  /\ Q \in by2[p] <=> Q \in by[p]

LEMMA NoPartyIs ==
  /\ NoParty \in PartyRec /\ Ordered(NoParty)
  /\ NoParty.leader = None /\ NoParty.members = <<>> /\ NoParty.invites = {}
  /\ \A p \in Player : p \notin Those(NoParty)
<1>1. /\ NoParty.leader = None /\ NoParty.members = <<>> /\ NoParty.invites = {}
      /\ NoParty.active = FALSE /\ NoParty.enabled = FALSE
  BY DEF NoParty
<1>2. <<>> \in Seq(Player) /\ ToSet(<<>>) = {} /\ IsInjective(<<>>)
  BY DEF ToSet, IsInjective
<1>3. NoParty \in PartyRec
  <2>1. <<>> \in Seq(Player) /\ {} \in SUBSET Player
    BY <1>2
  <2> QED
    BY <2>1 DEF NoParty, PartyRec
<1>4. \A p \in Player : p \notin Those(NoParty)
  BY <1>1, <1>2, PartyAssumption DEF Those
<1> QED
  BY <1>1, <1>2, <1>3, <1>4 DEF Ordered

LEMMA OneChanges ==
  ASSUME NEW here, NEW st, Sound(st, here), NEW P \in PartyId, NEW s,
         NEW of \in OfType, NEW by \in ByType, FewAsk(by),
         Others(st.partyOf, of, st.invitedBy, by, P), Fits(s, P, of, by, here)
  PROVE  Sound([parties |-> [st.parties EXCEPT ![P] = s], partyOf |-> of, invitedBy |-> by], here)
<1>1. PICK ps : ps = [st.parties EXCEPT ![P] = s]
  OBVIOUS
<1>2. PICK t : t = [parties |-> ps, partyOf |-> of, invitedBy |-> by]
  OBVIOUS
<1>3. t.parties = ps /\ t.partyOf = of /\ t.invitedBy = by
  BY <1>2
<1>4. st.parties \in [PartyId -> PartyRec]
  BY DEF Sound, PartyStates
<1>5. s \in PartyRec
  BY DEF Fits, Ordered
<1>6. /\ ps \in [PartyId -> PartyRec] /\ ps[P] = s
      /\ \A Q \in PartyId : Q # P => ps[Q] = st.parties[Q]
  BY <1>1, <1>4, <1>5
<1>7. t \in PartyStates
  BY <1>2, <1>6 DEF PartyStates
<1>8. ASSUME NEW Q \in PartyId
      PROVE  Fits(ps[Q], Q, of, by, here)
  <2>1. CASE Q = P
    BY <1>6, <2>1
  <2>2. CASE Q # P
    <3>1. Fits(st.parties[Q], Q, st.partyOf, st.invitedBy, here)
      BY DEF Sound, AllFit
    <3>2. \A p \in Player : /\ of[p] = Q <=> st.partyOf[p] = Q
                            /\ Q \in by[p] <=> Q \in st.invitedBy[p]
      BY <2>2 DEF Others
    <3>3. Belongs(st.parties[Q], Q, of)
      BY <3>1, <3>2 DEF Fits, Belongs
    <3>4. Asked(st.parties[Q], Q, by)
      BY <3>1, <3>2 DEF Fits, Asked
    <3>5. ps[Q] = st.parties[Q]
      BY <1>6, <2>2
    <3> QED
      BY <3>1, <3>3, <3>4, <3>5 DEF Fits
  <2> QED
    BY <2>1, <2>2
<1>9. AllFit(t, here)
  BY <1>3, <1>8 DEF AllFit
<1> QED
  BY <1>1, <1>2, <1>3, <1>7, <1>9 DEF Sound

\* What a sound state says of a party.
LEMMA PartyOfState ==
  ASSUME NEW here, NEW st, Sound(st, here), NEW P \in PartyId
  PROVE  /\ st.parties[P] \in PartyRec
         /\ Fits(st.parties[P], P, st.partyOf, st.invitedBy, here)
         /\ st.partyOf \in OfType /\ st.invitedBy \in ByType /\ FewAsk(st.invitedBy)
         /\ st.parties \in [PartyId -> PartyRec]
         /\ st = [parties |-> st.parties, partyOf |-> st.partyOf, invitedBy |-> st.invitedBy]
<1>1. Fits(st.parties[P], P, st.partyOf, st.invitedBy, here)
  BY DEF Sound, AllFit
<1> QED
  BY <1>1 DEF Sound, PartyStates, Fits, Ordered

-----------------------------------------------------------------------------
(* A party ends.                                                           *)

Freed(of, P) == [p \in Player |-> IF of[p] = P THEN None ELSE of[p]]
Forgotten(by, P) == [p \in Player |-> by[p] \ {P}]

Ended(st, P) ==
    [parties |-> [st.parties EXCEPT ![P] = NoParty],
     partyOf |-> Freed(st.partyOf, P), invitedBy |-> Forgotten(st.invitedBy, P)]

LEMMA Ends ==
  ASSUME NEW here, NEW st, Sound(st, here), NEW P \in PartyId
  PROVE  /\ Sound(Ended(st, P), here)
         /\ \A p \in Player :
              /\ Ended(st, P).partyOf[p] = IF st.partyOf[p] = P THEN None ELSE st.partyOf[p]
              /\ Ended(st, P).invitedBy[p] = st.invitedBy[p] \ {P}
<1>1. PICK of : of = Freed(st.partyOf, P)
  OBVIOUS
<1>2. PICK by : by = Forgotten(st.invitedBy, P)
  OBVIOUS
<1>3. st.partyOf \in OfType /\ st.invitedBy \in ByType /\ FewAsk(st.invitedBy)
  BY PartyOfState
<1>4. /\ of \in OfType
      /\ \A p \in Player : of[p] = IF st.partyOf[p] = P THEN None ELSE st.partyOf[p]
  BY <1>1, <1>3 DEF Freed, OfType
<1>5. /\ by \in ByType /\ \A p \in Player : by[p] = st.invitedBy[p] \ {P}
  BY <1>2, <1>3 DEF Forgotten, ByType
<1>6. FewAsk(by)
  BY <1>3, <1>5, FS_Subset DEF FewAsk
<1>7. None \notin PartyId
  BY PartyAssumption
<1>8. Others(st.partyOf, of, st.invitedBy, by, P)
  <2>1. ASSUME NEW Q \in PartyId, Q # P, NEW p \in Player
        PROVE  /\ of[p] = Q <=> st.partyOf[p] = Q
               /\ Q \in by[p] <=> Q \in st.invitedBy[p]
    BY <1>4, <1>5, <1>7, <2>1
  <2> QED
    BY <2>1 DEF Others
<1>9. Fits(NoParty, P, of, by, here)
  <2>1. \A p \in Player : of[p] # P /\ P \notin by[p]
    BY <1>4, <1>5, <1>7
  <2>2. Belongs(NoParty, P, of)
    BY <2>1, NoPartyIs DEF Belongs
  <2>3. Asked(NoParty, P, by)
    BY <2>1, NoPartyIs DEF Asked
  <2>4. Around(NoParty, here)
    BY NoPartyIs DEF Around
  <2> QED
    BY <2>2, <2>3, <2>4, NoPartyIs DEF Fits
<1>10. Sound([parties |-> [st.parties EXCEPT ![P] = NoParty], partyOf |-> of, invitedBy |-> by], here)
  BY <1>4, <1>5, <1>6, <1>8, <1>9, OneChanges
<1>11. Sound(Ended(st, P), here)
  BY <1>1, <1>2, <1>10 DEF Ended
<1>12. Ended(st, P).partyOf = of /\ Ended(st, P).invitedBy = by
  BY <1>1, <1>2 DEF Ended
<1> QED
  BY <1>4, <1>5, <1>11, <1>12

\* disband of a party that has changed just before ends it, if the players
\* whom it does not let go are of no such party.
LEMMA DisbandedEnds ==
  ASSUME NEW here, NEW st, Sound(st, here), NEW P \in PartyId, NEW s, NEW of, NEW by,
         \A p \in Player : (IF p \in Those(s) THEN None ELSE of[p])
                             = IF st.partyOf[p] = P THEN None ELSE st.partyOf[p],
         \A p \in Player : (IF p \in s.invites THEN by[p] \ {P} ELSE by[p])
                             = st.invitedBy[p] \ {P}
  PROVE  Disbanded([parties |-> [st.parties EXCEPT ![P] = s], partyOf |-> of, invitedBy |-> by], P)
           = Ended(st, P)
<1>1. PICK t : t = [parties |-> [st.parties EXCEPT ![P] = s], partyOf |-> of, invitedBy |-> by]
  OBVIOUS
<1>2. st.parties \in [PartyId -> PartyRec]
  BY PartyOfState
<1>3. t.parties[P] = s /\ [t.parties EXCEPT ![P] = NoParty] = [st.parties EXCEPT ![P] = NoParty]
  <2>1. t.parties = [st.parties EXCEPT ![P] = s]
    BY <1>1
  <2> QED
    BY <1>2, <2>1
<1>4. t.partyOf = of /\ t.invitedBy = by
  BY <1>1
<1>5. [p \in Player |-> IF p = s.leader \/ p \in ToSet(s.members) THEN None ELSE of[p]]
        = Freed(st.partyOf, P)
  <2>1. ASSUME NEW p \in Player
        PROVE  (IF p = s.leader \/ p \in ToSet(s.members) THEN None ELSE of[p])
                 = IF st.partyOf[p] = P THEN None ELSE st.partyOf[p]
    <3>1. p \in Those(s) <=> p = s.leader \/ p \in ToSet(s.members)
      BY DEF Those
    <3> QED
      BY <3>1
  <2> QED
    BY <2>1 DEF Freed
<1>6. [p \in Player |-> IF p \in s.invites THEN by[p] \ {P} ELSE by[p]]
        = Forgotten(st.invitedBy, P)
  BY DEF Forgotten
<1>7. Disbanded(t, P) = Ended(st, P)
  BY <1>3, <1>4, <1>5, <1>6 DEF Disbanded, Ended
<1> QED
  BY <1>1, <1>7

-----------------------------------------------------------------------------
(* Changes of one party.                                                   *)

\* A party that differs in how it shares experience only.
Alike(s, t) == s.leader = t.leader /\ s.members = t.members /\ s.invites = t.invites

LEMMA SharedIsAlike ==
  ASSUME NEW s \in PartyRec, NEW ok \in BOOLEAN
  PROVE  /\ Shared(s, ok) \in PartyRec /\ Alike(Shared(s, ok), s)
         /\ s = NoParty => Shared(s, ok) = s
<1>1. CASE s.active
  <2>1. PICK b \in BOOLEAN : b = (ok /\ s.members # <<>>)
    OBVIOUS
  <2>2. Shared(s, ok) = [s EXCEPT !.enabled = b]
    BY <1>1, <2>1 DEF Shared
  <2>3. [s EXCEPT !.enabled = b] \in PartyRec /\ Alike([s EXCEPT !.enabled = b], s)
    BY DEF PartyRec, Alike
  <2>4. s # NoParty
    BY <1>1 DEF NoParty
  <2> QED
    BY <2>2, <2>3, <2>4
<1>2. CASE ~s.active
  BY <1>2 DEF Shared, Alike
<1> QED
  BY <1>1, <1>2

\* A party like one that exists and is in order.
LEMMA AlikeFits ==
  ASSUME NEW s \in PartyRec, NEW t \in PartyRec, Alike(t, s), NEW P, NEW of, NEW by, NEW here,
         Fits(s, P, of, by, here), s.leader # None \/ t = s
  PROVE  Fits(t, P, of, by, here)
<1>1. CASE t = s
  BY <1>1
<1>2. CASE s.leader # None
  <2>1. t.leader = s.leader /\ t.members = s.members /\ t.invites = s.invites
    BY DEF Alike
  <2>2. Those(t) = Those(s)
    BY <2>1 DEF Those
  <2>3. Ordered(t)
    BY <1>2, <2>1, <2>2 DEF Fits, Ordered, IsEmpty
  <2>4. Belongs(t, P, of) /\ Asked(t, P, by) /\ Around(t, here)
    BY <2>1, <2>2 DEF Fits, Belongs, Asked, Around
  <2> QED
    BY <2>3, <2>4 DEF Fits
<1> QED
  BY <1>1, <1>2

LEMMA SharedFits ==
  ASSUME NEW s \in PartyRec, NEW ok \in BOOLEAN, NEW P, NEW of, NEW by, NEW here,
         Fits(s, P, of, by, here)
  PROVE  Fits(Shared(s, ok), P, of, by, here)
<1>1. Shared(s, ok) \in PartyRec /\ Alike(Shared(s, ok), s) /\ (s = NoParty => Shared(s, ok) = s)
  BY SharedIsAlike
<1>2. s.leader # None \/ s = NoParty
  BY DEF Fits, Ordered
<1> QED
  BY <1>1, <1>2, AlikeFits

LEMMA SharedSetFits ==
  ASSUME NEW s \in PartyRec, NEW on \in BOOLEAN, NEW ok \in BOOLEAN, s.leader # None,
         NEW P, NEW of, NEW by, NEW here, Fits(s, P, of, by, here)
  PROVE  SharedSet(s, on, ok) \in PartyRec /\ Fits(SharedSet(s, on, ok), P, of, by, here)
<1>1. PICK t : t = [s EXCEPT !.active = on]
  OBVIOUS
<1>2. t \in PartyRec /\ Alike(t, s)
  BY <1>1 DEF PartyRec, Alike
<1>3. Fits(t, P, of, by, here)
  BY <1>2, AlikeFits
<1>4. SharedSet(s, on, ok) = Shared(t, ok)
  BY <1>1 DEF SharedSet
<1> QED
  BY <1>2, <1>3, <1>4, SharedFits, SharedIsAlike

\* The leadership passes to a member: the same players are in the party.
LEMMA PassedFits ==
  ASSUME NEW s \in PartyRec, NEW q \in Player, q \in ToSet(s.members), s.leader # None,
         NEW ok \in BOOLEAN, NEW P, NEW of, NEW by, NEW here, Fits(s, P, of, by, here)
  PROVE  /\ Passed(s, q, ok) \in PartyRec /\ Fits(Passed(s, q, ok), P, of, by, here)
         /\ s.leader \in ToSet(Passed(s, q, ok).members)
         /\ Passed(s, q, ok).leader = q
<1>1. /\ s.members \in Seq(Player) /\ s.leader \in Player /\ IsInjective(s.members)
      /\ s.leader \notin ToSet(s.members)
  BY DEF PartyRec, Fits, Ordered
<1>2. PICK rest : rest = RemoveFirst(s.members, q)
  OBVIOUS
<1>3. rest \in Seq(Player) /\ IsInjective(rest) /\ ToSet(rest) = ToSet(s.members) \ {q}
  BY <1>1, <1>2, TakenOut
<1>4. PICK ms : ms = <<s.leader>> \o rest
  OBVIOUS
<1>5. /\ ms \in Seq(Player) /\ IsInjective(ms)
      /\ ToSet(ms) = (ToSet(s.members) \ {q}) \cup {s.leader}
  <2>1. s.leader \notin ToSet(rest)
    BY <1>1, <1>3
  <2> QED
    BY <1>1, <1>3, <1>4, <2>1, PutFirst
<1>6. PICK t : t = [s EXCEPT !.leader = q, !.members = ms]
  OBVIOUS
<1>7. t \in PartyRec /\ t.leader = q /\ t.members = ms /\ t.invites = s.invites
  BY <1>5, <1>6 DEF PartyRec
<1>8. Those(t) = Those(s)
  BY <1>1, <1>5, <1>7 DEF Those
<1>9. Ordered(t)
  <2>1. q # s.leader /\ q \notin ToSet(ms)
    BY <1>1, <1>5
  <2>2. ms # <<>>
    <3>1. s.leader \in ToSet(ms)
      BY <1>5
    <3> QED
      BY <1>5, <3>1, FirstOf
  <2>3. q # None
    BY PartyAssumption
  <2>4. \A p \in t.invites : p \notin Those(t)
    BY <1>7, <1>8 DEF Fits, Ordered
  <2> QED
    BY <1>5, <1>7, <2>1, <2>2, <2>3, <2>4 DEF Ordered, IsEmpty
<1>10. Fits(t, P, of, by, here)
  BY <1>7, <1>8, <1>9 DEF Fits, Belongs, Asked, Around
<1>11. Passed(s, q, ok) = Shared(t, ok)
  BY <1>2, <1>4, <1>6 DEF Passed
<1>12. Shared(t, ok) \in PartyRec /\ Alike(Shared(t, ok), t)
  BY <1>7, SharedIsAlike
<1>13. Fits(Shared(t, ok), P, of, by, here)
  BY <1>7, <1>10, SharedFits
<1>14. s.leader \in ToSet(ms)
  BY <1>5
<1> QED
  BY <1>7, <1>11, <1>12, <1>13, <1>14 DEF Alike

\* A change that concerns nobody's membership or invitations.
LEMMA PartyChanges ==
  ASSUME NEW here, NEW st, Sound(st, here), NEW P \in PartyId, NEW s,
         Fits(s, P, st.partyOf, st.invitedBy, here)
  PROVE  Sound([st EXCEPT !.parties[P] = s], here)
<1>1. Others(st.partyOf, st.partyOf, st.invitedBy, st.invitedBy, P)
  BY DEF Others
<1>2. st.partyOf \in OfType /\ st.invitedBy \in ByType /\ FewAsk(st.invitedBy)
  BY PartyOfState
<1>3. PICK t : t = [parties |-> [st.parties EXCEPT ![P] = s], partyOf |-> st.partyOf,
                    invitedBy |-> st.invitedBy]
  OBVIOUS
<1>4. Sound(t, here)
  BY <1>1, <1>2, <1>3, OneChanges
<1>5. st = [parties |-> st.parties, partyOf |-> st.partyOf, invitedBy |-> st.invitedBy]
  BY PartyOfState
<1>6. [st EXCEPT !.parties[P] = s] = t
  BY <1>3, <1>5
<1> QED
  BY <1>4, <1>6

-----------------------------------------------------------------------------
(* A state of which two, or all three, parts change.                       *)

LEMMA TwoSet ==
  ASSUME NEW st, NEW ps, NEW of, NEW by, st = [parties |-> ps, partyOf |-> of, invitedBy |-> by],
         NEW a, NEW b
  PROVE  [st EXCEPT !.parties = a, !.partyOf = b]
           = [parties |-> a, partyOf |-> b, invitedBy |-> by]
<1>1. PICK t : t = [st EXCEPT !.parties = a]
  OBVIOUS
<1>2. t = [parties |-> a, partyOf |-> of, invitedBy |-> by]
  BY <1>1
<1>3. [t EXCEPT !.partyOf = b] = [parties |-> a, partyOf |-> b, invitedBy |-> by]
  BY <1>2
<1>4. [st EXCEPT !.parties = a, !.partyOf = b] = [t EXCEPT !.partyOf = b]
  BY <1>1
<1> QED
  BY <1>3, <1>4

LEMMA ThreeSet ==
  ASSUME NEW st, NEW ps, NEW of, NEW by, st = [parties |-> ps, partyOf |-> of, invitedBy |-> by],
         NEW a, NEW b, NEW c
  PROVE  [st EXCEPT !.parties = a, !.partyOf = b, !.invitedBy = c]
           = [parties |-> a, partyOf |-> b, invitedBy |-> c]
<1>1. PICK t : t = [st EXCEPT !.parties = a, !.partyOf = b]
  OBVIOUS
<1>2. t = [parties |-> a, partyOf |-> b, invitedBy |-> by]
  BY <1>1, TwoSet
<1>3. [t EXCEPT !.invitedBy = c] = [parties |-> a, partyOf |-> b, invitedBy |-> c]
  BY <1>2
<1>4. [st EXCEPT !.parties = a, !.partyOf = b, !.invitedBy = c] = [t EXCEPT !.invitedBy = c]
  BY <1>1
<1> QED
  BY <1>3, <1>4

LEMMA InvitesSet ==
  ASSUME NEW st, NEW ps, NEW of, NEW by, st = [parties |-> ps, partyOf |-> of, invitedBy |-> by],
         NEW a, NEW c
  PROVE  [st EXCEPT !.parties = a, !.invitedBy = c]
           = [parties |-> a, partyOf |-> of, invitedBy |-> c]
<1>1. PICK t : t = [st EXCEPT !.parties = a]
  OBVIOUS
<1>2. t = [parties |-> a, partyOf |-> of, invitedBy |-> by]
  BY <1>1
<1>3. [t EXCEPT !.invitedBy = c] = [parties |-> a, partyOf |-> of, invitedBy |-> c]
  BY <1>2
<1>4. [st EXCEPT !.parties = a, !.invitedBy = c] = [t EXCEPT !.invitedBy = c]
  BY <1>1
<1> QED
  BY <1>3, <1>4

-----------------------------------------------------------------------------
(* Players leave, are invited, and join.                                   *)

Without(s, p, ok) == Shared([s EXCEPT !.members = RemoveFirst(@, p)], ok)

LEMMA WithoutIs ==
  ASSUME NEW s \in PartyRec, IsInjective(s.members), NEW p \in Player, NEW ok \in BOOLEAN
  PROVE  /\ Without(s, p, ok) \in PartyRec /\ IsInjective(Without(s, p, ok).members)
         /\ ToSet(Without(s, p, ok).members) = ToSet(s.members) \ {p}
         /\ Without(s, p, ok).leader = s.leader /\ Without(s, p, ok).invites = s.invites
<1>1. s.members \in Seq(Player)
  BY DEF PartyRec
<1>2. PICK ms : ms = RemoveFirst(s.members, p)
  OBVIOUS
<1>3. ms \in Seq(Player) /\ IsInjective(ms) /\ ToSet(ms) = ToSet(s.members) \ {p}
  BY <1>1, <1>2, TakenOut
<1>4. PICK t : t = [s EXCEPT !.members = ms]
  OBVIOUS
<1>5. t \in PartyRec /\ t.leader = s.leader /\ t.members = ms /\ t.invites = s.invites
  BY <1>3, <1>4 DEF PartyRec
<1>6. Without(s, p, ok) = Shared(t, ok)
  BY <1>2, <1>4 DEF Without
<1> QED
  BY <1>3, <1>5, <1>6, SharedIsAlike DEF Alike

\* The party as the player leaves it: a leader passes the leadership unless
\* the party ends.
Led(s, p, ok) ==
    IF p = s.leader /\ ~NoSuccessor(s, p) THEN Passed(s, Head(s.members), ok) ELSE s

LEMMA LeftIs ==
  ASSUME NEW here, NEW st, Sound(st, here), NEW P \in PartyId, NEW p \in Player, NEW ok \in BOOLEAN,
         NEW rest, rest = Without(Led(st.parties[P], p, ok), p, ok),
         NEW of, of = [st.partyOf EXCEPT ![p] = None],
         NEW out, out = [parties |-> [st.parties EXCEPT ![P] = rest], partyOf |-> of,
                         invitedBy |-> st.invitedBy]
  PROVE  Left(st, P, p, ok) = IF NoSuccessor(st.parties[P], p) \/ IsEmpty(rest)
                              THEN Disbanded(out, P) ELSE out
<1>1. st = [parties |-> st.parties, partyOf |-> st.partyOf, invitedBy |-> st.invitedBy]
  BY PartyOfState
<1>2. [st EXCEPT !.parties[P] = rest, !.partyOf[p] = None] = out
  <2>1. PICK ps : ps = [st.parties EXCEPT ![P] = rest]
    OBVIOUS
  <2>2. PICK t : t = [st EXCEPT !.parties = ps, !.partyOf = of]
    OBVIOUS
  <2>3. [st EXCEPT !.parties[P] = rest, !.partyOf[p] = None] = t
    BY <2>1, <2>2
  <2>4. t = [parties |-> ps, partyOf |-> of, invitedBy |-> st.invitedBy]
    BY ONLY <1>1, <2>2, TwoSet
  <2> QED
    BY <2>1, <2>3, <2>4
<1> DEFINE x == st.parties[P]
           led == IF p = x.leader /\ ~NoSuccessor(x, p) THEN Passed(x, Head(x.members), ok) ELSE x
<1>3. rest = Shared([led EXCEPT !.members = RemoveFirst(@, p)], ok)
  BY DEF Led, Without
<1>4. Left(st, P, p, ok) =
        IF NoSuccessor(x, p) \/ IsEmpty(Shared([led EXCEPT !.members = RemoveFirst(@, p)], ok))
        THEN Disbanded([st EXCEPT !.parties[P] = Shared([led EXCEPT !.members = RemoveFirst(@, p)], ok),
                                  !.partyOf[p] = None], P)
        ELSE [st EXCEPT !.parties[P] = Shared([led EXCEPT !.members = RemoveFirst(@, p)], ok),
                        !.partyOf[p] = None]
  BY DEF Left
<1> QED
  BY <1>2, <1>3, <1>4

LEMMA LeaderIsLed ==
  ASSUME NEW s \in PartyRec, NEW p \in Player, p \in Those(s), NEW ok \in BOOLEAN,
         NEW P, NEW of, NEW by, NEW here, Fits(s, P, of, by, here)
  PROVE  /\ Led(s, p, ok) \in PartyRec /\ Fits(Led(s, p, ok), P, of, by, here)
         /\ NoSuccessor(s, p) => Led(s, p, ok) = s /\ p = s.leader
         /\ ~NoSuccessor(s, p) => p \in ToSet(Led(s, p, ok).members)
<1>1. CASE p = s.leader /\ ~NoSuccessor(s, p)
  <2>1. s.members \in Seq(Player) /\ s.members # <<>>
    BY <1>1 DEF NoSuccessor, PartyRec
  <2>2. PICK q : q = Head(s.members)
    OBVIOUS
  <2>3. q \in ToSet(s.members) /\ q \in Player
    BY <2>1, <2>2, FirstOf
  <2>4. s.leader # None
    BY <1>1, PartyAssumption
  <2>5. Led(s, p, ok) = Passed(s, q, ok)
    BY <1>1, <2>2 DEF Led
  <2> QED
    BY <1>1, <2>3, <2>4, <2>5, PassedFits
<1>2. CASE ~(p = s.leader /\ ~NoSuccessor(s, p))
  <2>1. Led(s, p, ok) = s
    BY <1>2 DEF Led
  <2>2. NoSuccessor(s, p) => p = s.leader
    BY DEF NoSuccessor
  <2>3. ~NoSuccessor(s, p) => p \in ToSet(s.members)
    BY <1>2 DEF Those
  <2> QED
    BY <2>1, <2>2, <2>3
<1> QED
  BY <1>1, <1>2

LEMMA LeftSound ==
  ASSUME NEW here, NEW st, Sound(st, here), NEW P \in PartyId, NEW p \in Player, NEW ok \in BOOLEAN,
         st.partyOf[p] = P
  PROVE  /\ Sound(Left(st, P, p, ok), here)
         /\ Left(st, P, p, ok).partyOf[p] = None
         /\ \A Q \in PartyId : Q \in Left(st, P, p, ok).invitedBy[p] => Q \in st.invitedBy[p]
<1>1. PICK s \in PartyRec : s = st.parties[P]
  BY PartyOfState
<1>2. /\ Fits(s, P, st.partyOf, st.invitedBy, here) /\ st.partyOf \in OfType
      /\ st.invitedBy \in ByType /\ FewAsk(st.invitedBy)
  BY <1>1, PartyOfState
<1>3. p \in Those(s)
  BY <1>2 DEF Fits, Belongs
<1>4. PICK led \in PartyRec : led = Led(s, p, ok)
  BY <1>2, <1>3, LeaderIsLed
<1>5. /\ Fits(led, P, st.partyOf, st.invitedBy, here)
      /\ NoSuccessor(s, p) => led = s /\ p = s.leader
      /\ ~NoSuccessor(s, p) => p \in ToSet(led.members)
  BY <1>2, <1>3, <1>4, LeaderIsLed
<1>6. PICK rest : rest = Without(led, p, ok)
  OBVIOUS
<1>7. IsInjective(led.members)
  BY <1>5 DEF Fits, Ordered
<1>8. /\ rest \in PartyRec /\ IsInjective(rest.members)
      /\ ToSet(rest.members) = ToSet(led.members) \ {p}
      /\ rest.leader = led.leader /\ rest.invites = led.invites
  BY <1>6, <1>7, WithoutIs
<1>9. PICK of : of = [st.partyOf EXCEPT ![p] = None]
  OBVIOUS
<1>10. of \in OfType /\ of[p] = None /\ \A q \in Player : q # p => of[q] = st.partyOf[q]
  BY <1>2, <1>9 DEF OfType
<1>11. PICK out : out = [parties |-> [st.parties EXCEPT ![P] = rest], partyOf |-> of,
                         invitedBy |-> st.invitedBy]
  OBVIOUS
<1>12. Left(st, P, p, ok) = IF NoSuccessor(s, p) \/ IsEmpty(rest) THEN Disbanded(out, P) ELSE out
  BY <1>1, <1>4, <1>6, <1>9, <1>11, LeftIs
<1>13. None \notin PartyId /\ None \notin Player
  BY PartyAssumption
<1>14. ASSUME NEW q \in Player
       PROVE  st.partyOf[q] = P <=> q = led.leader \/ q \in ToSet(led.members)
  BY <1>5 DEF Fits, Belongs, Those
<1>15. Disbanded(out, P) = Ended(st, P)
  <2>1. ASSUME NEW q \in Player
        PROVE  (IF q \in Those(rest) THEN None ELSE of[q])
                 = IF st.partyOf[q] = P THEN None ELSE st.partyOf[q]
    <3>1. q # p => (q \in Those(rest) <=> st.partyOf[q] = P)
      BY <1>8, <1>14 DEF Those
    <3> QED
      BY <1>10, <3>1
  <2>2. ASSUME NEW q \in Player
        PROVE  (IF q \in rest.invites THEN st.invitedBy[q] \ {P} ELSE st.invitedBy[q])
                 = st.invitedBy[q] \ {P}
    <3>1. P \in st.invitedBy[q] <=> q \in rest.invites
      BY <1>5, <1>8 DEF Fits, Asked
    <3> QED
      BY <3>1
  <2> QED
    BY <1>11, <2>1, <2>2, DisbandedEnds
<1>16. CASE NoSuccessor(s, p) \/ IsEmpty(rest)
  <2>1. Left(st, P, p, ok) = Ended(st, P)
    BY <1>12, <1>15, <1>16
  <2> QED
    BY <2>1, Ends
<1>17. CASE ~(NoSuccessor(s, p) \/ IsEmpty(rest))
  <2>1. Left(st, P, p, ok) = out
    BY <1>12, <1>17
  <2>2. p \in ToSet(led.members) /\ p # led.leader /\ led.leader # None
    <3>1. p \in ToSet(led.members) /\ led.leader \notin ToSet(led.members)
      BY <1>5, <1>17 DEF Fits, Ordered
    <3>2. led.leader # None
      <4>1. led = NoParty => p \notin Those(led)
        BY NoPartyIs
      <4> QED
        BY <1>5, <3>1, <4>1 DEF Fits, Ordered, Those
    <3> QED
      BY <3>1, <3>2
  <2>3. ASSUME NEW q \in Player
        PROVE  q \in Those(rest) <=> q \in Those(led) /\ q # p
    BY <1>8, <2>2 DEF Those
  <2>4. Ordered(rest)
    <3>1. rest.leader \notin ToSet(rest.members)
      BY <1>5, <1>8 DEF Fits, Ordered
    <3>2. \A q \in rest.invites : q \notin Those(rest)
      <4>1. rest.invites \subseteq Player
        BY <1>8 DEF PartyRec
      <4> QED
        BY <1>5, <1>8, <2>3, <4>1 DEF Fits, Ordered
    <3> QED
      BY <1>8, <1>17, <2>2, <3>1, <3>2 DEF Ordered
  <2>5. Belongs(rest, P, of)
    <3>1. ASSUME NEW q \in Player
          PROVE  of[q] = P <=> q \in Those(rest)
      BY <1>10, <1>13, <1>14, <2>3 DEF Those
    <3> QED
      BY <3>1 DEF Belongs
  <2>6. Asked(rest, P, st.invitedBy)
    BY <1>5, <1>8 DEF Fits, Asked
  <2>7. Around(rest, here)
    BY <1>5, <1>8, <2>3 DEF Fits, Around
  <2>8. Others(st.partyOf, of, st.invitedBy, st.invitedBy, P)
    BY <1>10, <1>13 DEF Others
  <2>9. Fits(rest, P, of, st.invitedBy, here)
    BY <2>4, <2>5, <2>6, <2>7 DEF Fits
  <2>10. Sound(out, here)
    BY <1>2, <1>10, <1>11, <2>8, <2>9, OneChanges
  <2>11. out.partyOf = of /\ out.invitedBy = st.invitedBy
    BY <1>11
  <2> QED
    BY <1>10, <2>1, <2>10, <2>11
<1> QED
  BY <1>16, <1>17

\* One more party, or one less, asks a player.
AsksToo(by, p, P) == [by EXCEPT ![p] = @ \cup {P}]
AsksNoMore(by, p, P) == [by EXCEPT ![p] = @ \ {P}]

AnswersTo(by2, by, p, P) ==
    \A q \in Player : by2[q] = IF q = p THEN by[q] \cup {P} ELSE by[q]
AnswersNoMore(by2, by, p, P) ==
    \A q \in Player : by2[q] = IF q = p THEN by[q] \ {P} ELSE by[q]

LEMMA AsksTooIs ==
  ASSUME NEW by \in ByType, FewAsk(by), NEW p \in Player, NEW P \in PartyId
  PROVE  /\ AsksToo(by, p, P) \in ByType /\ FewAsk(AsksToo(by, p, P))
         /\ AnswersTo(AsksToo(by, p, P), by, p, P)
<1>1. PICK t : t = AsksToo(by, p, P)
  OBVIOUS
<1>2. t \in ByType /\ \A q \in Player : t[q] = IF q = p THEN by[q] \cup {P} ELSE by[q]
  BY <1>1 DEF AsksToo, ByType
<1>3. \A q \in Player : IsFiniteSet(by[q]) /\ IsFiniteSet(by[q] \cup {P})
  BY FS_AddElement DEF FewAsk
<1>4. FewAsk(t)
  BY <1>2, <1>3 DEF FewAsk
<1> QED
  BY <1>1, <1>2, <1>4 DEF AnswersTo

LEMMA AsksNoMoreIs ==
  ASSUME NEW by \in ByType, FewAsk(by), NEW p \in Player, NEW P \in PartyId
  PROVE  /\ AsksNoMore(by, p, P) \in ByType /\ FewAsk(AsksNoMore(by, p, P))
         /\ AnswersNoMore(AsksNoMore(by, p, P), by, p, P)
<1>1. PICK t : t = AsksNoMore(by, p, P)
  OBVIOUS
<1>2. t \in ByType /\ \A q \in Player : t[q] = IF q = p THEN by[q] \ {P} ELSE by[q]
  BY <1>1 DEF AsksNoMore, ByType
<1>3. \A q \in Player : IsFiniteSet(by[q]) /\ IsFiniteSet(by[q] \ {P})
  BY FS_Subset DEF FewAsk
<1>4. FewAsk(t)
  BY <1>2, <1>3 DEF FewAsk
<1> QED
  BY <1>1, <1>2, <1>4 DEF AnswersNoMore

\* An invitation by a party that exists, of a player who has none.
LEMMA InvitedSound ==
  ASSUME NEW here, NEW st, Sound(st, here), NEW P \in PartyId, NEW p \in Player, p \in here,
         st.parties[P].leader # None, st.partyOf[p] = None
  PROVE  Sound(Invited(st, P, p), here)
<1>1. PICK s \in PartyRec : s = st.parties[P]
  BY PartyOfState
<1>2. /\ Fits(s, P, st.partyOf, st.invitedBy, here) /\ st.partyOf \in OfType
      /\ st.invitedBy \in ByType /\ FewAsk(st.invitedBy)
      /\ st = [parties |-> st.parties, partyOf |-> st.partyOf, invitedBy |-> st.invitedBy]
  BY <1>1, PartyOfState
<1>3. PICK t : t = [s EXCEPT !.invites = @ \cup {p}]
  OBVIOUS
<1>4. /\ t \in PartyRec /\ t.leader = s.leader /\ t.members = s.members
      /\ t.invites = s.invites \cup {p}
  BY <1>3 DEF PartyRec
<1>5. Those(t) = Those(s)
  BY <1>4 DEF Those
<1>6. PICK by : by = AsksToo(st.invitedBy, p, P)
  OBVIOUS
<1>7. /\ by \in ByType /\ FewAsk(by)
      /\ \A q \in Player : by[q] = IF q = p THEN st.invitedBy[q] \cup {P} ELSE st.invitedBy[q]
  <2>1. PICK b \in ByType : b = st.invitedBy /\ FewAsk(b)
    BY <1>2
  <2>2. /\ AsksToo(b, p, P) \in ByType /\ FewAsk(AsksToo(b, p, P))
        /\ AnswersTo(AsksToo(b, p, P), b, p, P)
    BY <2>1, AsksTooIs
  <2>3. by = AsksToo(b, p, P)
    BY <1>6, <2>1
  <2>4. by \in ByType /\ FewAsk(by)
    BY <2>2, <2>3
  <2>5. \A x \in Player : by[x] = IF x = p THEN b[x] \cup {P} ELSE b[x]
    BY <2>2, <2>3 DEF AnswersTo
  <2> QED
    BY <2>1, <2>4, <2>5
<1>8. p \notin Those(s)
  <2>1. None \notin PartyId
    BY PartyAssumption
  <2> QED
    BY <1>2, <2>1 DEF Fits, Belongs
<1>9. Ordered(t)
  <2>1. s.leader # None
    BY <1>1
  <2> QED
    BY <1>2, <1>4, <1>5, <1>8, <2>1 DEF Fits, Ordered, IsEmpty
<1>10. Belongs(t, P, st.partyOf)
  BY <1>2, <1>5 DEF Fits, Belongs
<1>11. Asked(t, P, by)
  <2>1. ASSUME NEW q \in Player
        PROVE  P \in by[q] <=> q \in t.invites
    BY <1>2, <1>4, <1>7 DEF Fits, Asked
  <2> QED
    BY <2>1 DEF Asked
<1>12. Around(t, here)
  BY <1>2, <1>4, <1>5 DEF Fits, Around
<1>13. Others(st.partyOf, st.partyOf, st.invitedBy, by, P)
  BY <1>7 DEF Others
<1>14. Fits(t, P, st.partyOf, by, here)
  BY <1>9, <1>10, <1>11, <1>12 DEF Fits
<1>15. Sound([parties |-> [st.parties EXCEPT ![P] = t], partyOf |-> st.partyOf, invitedBy |-> by], here)
  BY <1>2, <1>7, <1>13, <1>14, OneChanges
<1>16. Invited(st, P, p) = [parties |-> [st.parties EXCEPT ![P] = t], partyOf |-> st.partyOf,
                            invitedBy |-> by]
  <2>1. PICK ps : ps = [st.parties EXCEPT ![P] = t]
    OBVIOUS
  <2>2. PICK u : u = [st EXCEPT !.parties = ps, !.invitedBy = by]
    OBVIOUS
  <2>3. u = [parties |-> ps, partyOf |-> st.partyOf, invitedBy |-> by]
    BY ONLY <1>2, <2>2, InvitesSet
  <2>4. ps = [st.parties EXCEPT ![P].invites = @ \cup {p}]
    BY <1>1, <1>3, <2>1
  <2>5. Invited(st, P, p) = u
    BY <1>6, <2>2, <2>4 DEF Invited, AsksToo
  <2> QED
    BY <2>1, <2>3, <2>5
<1> QED
  BY <1>15, <1>16

\* A player founds a party, and invites one in the same turn.
LEMMA FoundedSound ==
  ASSUME NEW here, NEW st, Sound(st, here), NEW P \in PartyId, NEW p \in Player, p \in here,
         NEW q \in Player, q \in here, q # p, st.parties[P] = NoParty,
         st.partyOf[p] = None, st.partyOf[q] = None
  PROVE  Sound(Invited(Founded(st, P, p), P, q), here)
<1>1. /\ Fits(NoParty, P, st.partyOf, st.invitedBy, here) /\ st.partyOf \in OfType
      /\ st.invitedBy \in ByType /\ FewAsk(st.invitedBy) /\ st.parties \in [PartyId -> PartyRec]
      /\ st = [parties |-> st.parties, partyOf |-> st.partyOf, invitedBy |-> st.invitedBy]
  BY PartyOfState
<1>2. PICK r : r = [NoParty EXCEPT !.leader = p]
  OBVIOUS
<1>3. PICK s : s = [r EXCEPT !.invites = @ \cup {q}]
  OBVIOUS
<1>4. r \in PartyRec /\ r.leader = p /\ r.members = <<>> /\ r.invites = {}
  BY <1>2, NoPartyIs DEF PartyRec
<1>5. s \in PartyRec /\ s.leader = p /\ s.members = <<>> /\ s.invites = {q}
  BY <1>3, <1>4 DEF PartyRec
<1>6. ToSet(<<>>) = {} /\ IsInjective(<<>>)
  BY DEF ToSet, IsInjective
<1>7. Those(s) = {p}
  BY <1>5, <1>6 DEF Those
<1>8. PICK of : of = [st.partyOf EXCEPT ![p] = P]
  OBVIOUS
<1>9. /\ of \in OfType /\ of[p] = P /\ \A x \in Player : x # p => of[x] = st.partyOf[x]
  BY <1>1, <1>8 DEF OfType
<1>10. PICK by : by = AsksToo(st.invitedBy, q, P)
  OBVIOUS
<1>11. /\ by \in ByType /\ FewAsk(by)
       /\ \A x \in Player : by[x] = IF x = q THEN st.invitedBy[x] \cup {P} ELSE st.invitedBy[x]
  <2>1. PICK b \in ByType : b = st.invitedBy /\ FewAsk(b)
    BY <1>1
  <2>2. /\ AsksToo(b, q, P) \in ByType /\ FewAsk(AsksToo(b, q, P))
        /\ AnswersTo(AsksToo(b, q, P), b, q, P)
    BY <2>1, AsksTooIs
  <2>3. by = AsksToo(b, q, P)
    BY <1>10, <2>1
  <2>4. by \in ByType /\ FewAsk(by)
    BY <2>2, <2>3
  <2>5. \A x \in Player : by[x] = IF x = q THEN b[x] \cup {P} ELSE b[x]
    BY <2>2, <2>3 DEF AnswersTo
  <2> QED
    BY <2>1, <2>4, <2>5
<1>12. \A x \in Player : st.partyOf[x] # P /\ P \notin st.invitedBy[x]
  BY <1>1, NoPartyIs DEF Fits, Belongs, Asked
<1>13. None \notin PartyId /\ None \notin Player
  BY PartyAssumption
<1>14. Ordered(s)
  BY <1>5, <1>6, <1>7, <1>13 DEF Ordered, IsEmpty
<1>15. Belongs(s, P, of)
  BY <1>7, <1>9, <1>12 DEF Belongs
<1>16. Asked(s, P, by)
  BY <1>5, <1>11, <1>12 DEF Asked
<1>17. Around(s, here)
  BY <1>5, <1>7 DEF Around
<1>18. Fits(s, P, of, by, here)
  BY <1>14, <1>15, <1>16, <1>17 DEF Fits
<1>19. Others(st.partyOf, of, st.invitedBy, by, P)
  BY <1>9, <1>11, <1>13 DEF Others
<1>20. Sound([parties |-> [st.parties EXCEPT ![P] = s], partyOf |-> of, invitedBy |-> by], here)
  BY <1>9, <1>11, <1>18, <1>19, OneChanges
<1>21. PICK f : f = Founded(st, P, p)
  OBVIOUS
<1>22. f = [parties |-> [st.parties EXCEPT ![P] = r], partyOf |-> of, invitedBy |-> st.invitedBy]
  <2>1. PICK ps : ps = [st.parties EXCEPT ![P] = r]
    OBVIOUS
  <2>2. PICK u : u = [st EXCEPT !.parties = ps, !.partyOf = of]
    OBVIOUS
  <2>3. u = [parties |-> ps, partyOf |-> of, invitedBy |-> st.invitedBy]
    BY ONLY <1>1, <2>2, TwoSet
  <2>4. f = u
    BY <1>2, <1>8, <1>21, <2>1, <2>2 DEF Founded
  <2> QED
    BY <2>1, <2>3, <2>4
<1>23. Invited(f, P, q) = [parties |-> [st.parties EXCEPT ![P] = s], partyOf |-> of, invitedBy |-> by]
  <2>1. PICK ps : ps = [st.parties EXCEPT ![P] = r]
    OBVIOUS
  <2>2. PICK qs : qs = [st.parties EXCEPT ![P] = s]
    OBVIOUS
  <2>3. PICK u : u = [f EXCEPT !.parties = qs, !.invitedBy = by]
    OBVIOUS
  <2>4. f = [parties |-> ps, partyOf |-> of, invitedBy |-> st.invitedBy]
    BY <1>22, <2>1
  <2>5. u = [parties |-> qs, partyOf |-> of, invitedBy |-> by]
    BY ONLY <2>3, <2>4, InvitesSet
  <2>6. f.parties = ps /\ f.invitedBy = st.invitedBy
    BY <2>4
  <2>7. [ps EXCEPT ![P].invites = @ \cup {q}] = qs
    <3>1. ps[P] = r
      BY <1>1, <2>1
    <3>2. [ps EXCEPT ![P] = s] = qs
      BY <1>1, <2>1, <2>2
    <3> QED
      BY <1>3, <3>1, <3>2
  <2>8. Invited(f, P, q) = u
    BY <1>10, <2>3, <2>6, <2>7 DEF Invited, AsksToo
  <2> QED
    BY <2>2, <2>5, <2>8
<1> QED
  BY <1>20, <1>21, <1>23

\* A player without a party accepts an invitation.
LEMMA JoinedSound ==
  ASSUME NEW here, NEW st, Sound(st, here), NEW P \in PartyId, NEW p \in Player,
         p \in st.parties[P].invites, st.partyOf[p] = None, NEW ok \in BOOLEAN
  PROVE  Sound(Joined(st, P, p, ok), here)
<1>1. PICK s \in PartyRec : s = st.parties[P]
  BY PartyOfState
<1>2. /\ Fits(s, P, st.partyOf, st.invitedBy, here) /\ st.partyOf \in OfType
      /\ st.invitedBy \in ByType /\ FewAsk(st.invitedBy)
      /\ st = [parties |-> st.parties, partyOf |-> st.partyOf, invitedBy |-> st.invitedBy]
  BY <1>1, PartyOfState
<1>3. None \notin PartyId /\ None \notin Player
  BY PartyAssumption
<1>4. p \in s.invites /\ p \notin Those(s) /\ s.leader # None
  <2>1. p \notin Those(s)
    BY <1>2, <1>3 DEF Fits, Belongs
  <2>2. s # NoParty
    BY <1>1, NoPartyIs
  <2> QED
    BY <1>1, <1>2, <2>1, <2>2 DEF Fits, Ordered
<1>5. PICK ms : ms = Append(s.members, p)
  OBVIOUS
<1>6. ms \in Seq(Player) /\ IsInjective(ms) /\ ToSet(ms) = ToSet(s.members) \cup {p}
  <2>1. s.members \in Seq(Player) /\ IsInjective(s.members) /\ p \notin ToSet(s.members)
    BY <1>2, <1>4 DEF PartyRec, Fits, Ordered, Those
  <2> QED
    BY <1>5, <2>1, PutIn
<1>7. PICK t : t = [s EXCEPT !.invites = @ \ {p}, !.members = ms]
  OBVIOUS
<1>8. t \in PartyRec /\ t.leader = s.leader /\ t.members = ms /\ t.invites = s.invites \ {p}
  BY <1>6, <1>7 DEF PartyRec
<1>9. Those(t) = Those(s) \cup {p}
  BY <1>6, <1>8 DEF Those
<1>10. PICK of : of = [st.partyOf EXCEPT ![p] = P]
  OBVIOUS
<1>11. of \in OfType /\ of[p] = P /\ \A x \in Player : x # p => of[x] = st.partyOf[x]
  BY <1>2, <1>10 DEF OfType
<1>12. PICK by : by = AsksNoMore(st.invitedBy, p, P)
  OBVIOUS
<1>13. /\ by \in ByType /\ FewAsk(by)
       /\ \A x \in Player : by[x] = IF x = p THEN st.invitedBy[x] \ {P} ELSE st.invitedBy[x]
  <2>1. PICK b \in ByType : b = st.invitedBy /\ FewAsk(b)
    BY <1>2
  <2>2. /\ AsksNoMore(b, p, P) \in ByType /\ FewAsk(AsksNoMore(b, p, P))
        /\ AnswersNoMore(AsksNoMore(b, p, P), b, p, P)
    BY <2>1, AsksNoMoreIs
  <2>3. by = AsksNoMore(b, p, P)
    BY <1>12, <2>1
  <2>4. by \in ByType /\ FewAsk(by)
    BY <2>2, <2>3
  <2>5. \A x \in Player : by[x] = IF x = p THEN b[x] \ {P} ELSE b[x]
    BY <2>2, <2>3 DEF AnswersNoMore
  <2> QED
    BY <2>1, <2>4, <2>5
<1>14. Ordered(t)
  <2>1. ms # <<>>
    <3>1. p \in ToSet(ms)
      BY <1>6
    <3> QED
      BY <1>6, <3>1, FirstOf
  <2>2. s.leader \notin ToSet(ms)
    BY <1>2, <1>4, <1>6 DEF Fits, Ordered, Those
  <2>3. \A x \in t.invites : x \notin Those(t)
    BY <1>2, <1>8, <1>9 DEF Fits, Ordered
  <2> QED
    BY <1>4, <1>6, <1>8, <2>1, <2>2, <2>3 DEF Ordered, IsEmpty
<1>15. Belongs(t, P, of)
  BY <1>2, <1>9, <1>11 DEF Fits, Belongs
<1>16. Asked(t, P, by)
  BY <1>2, <1>8, <1>13 DEF Fits, Asked
<1>17. Around(t, here)
  BY <1>2, <1>4, <1>8, <1>9 DEF Fits, Around
<1>18. PICK u : u = Shared(t, ok)
  OBVIOUS
<1>19. Fits(t, P, of, by, here)
  BY <1>14, <1>15, <1>16, <1>17 DEF Fits
<1>20. Fits(u, P, of, by, here)
  BY <1>8, <1>18, <1>19, SharedFits
<1>21. Others(st.partyOf, of, st.invitedBy, by, P)
  <2>1. ASSUME NEW Q \in PartyId, Q # P, NEW x \in Player
        PROVE  /\ of[x] = Q <=> st.partyOf[x] = Q
               /\ Q \in by[x] <=> Q \in st.invitedBy[x]
    BY <1>3, <1>11, <1>13, <2>1
  <2> QED
    BY <2>1 DEF Others
<1>22. Sound([parties |-> [st.parties EXCEPT ![P] = u], partyOf |-> of, invitedBy |-> by], here)
  BY <1>11, <1>13, <1>20, <1>21, OneChanges
<1>23. Joined(st, P, p, ok) = [parties |-> [st.parties EXCEPT ![P] = u], partyOf |-> of, invitedBy |-> by]
  <2>1. PICK ps : ps = [st.parties EXCEPT ![P] = u]
    OBVIOUS
  <2>2. PICK v : v = [st EXCEPT !.parties = ps, !.partyOf = of, !.invitedBy = by]
    OBVIOUS
  <2>3. v = [parties |-> ps, partyOf |-> of, invitedBy |-> by]
    BY ONLY <1>2, <2>2, ThreeSet
  <2>4. t = [s EXCEPT !.invites = @ \ {p}, !.members = Append(@, p)]
    BY <1>5, <1>7
  <2>5. u = Shared([st.parties[P] EXCEPT !.invites = @ \ {p}, !.members = Append(@, p)], ok)
    BY <1>1, <1>18, <2>4
  <2>6. Joined(st, P, p, ok) = v
    BY <1>10, <1>12, <2>1, <2>2, <2>5 DEF Joined, AsksNoMore
  <2> QED
    BY <2>1, <2>3, <2>6
<1> QED
  BY <1>22, <1>23

-----------------------------------------------------------------------------
(* Invitations are removed.                                                *)

LEMMA InviteRemovedSound ==
  ASSUME NEW here, NEW st, Sound(st, here), NEW P \in PartyId, NEW p \in Player
  PROVE  /\ Sound(InviteRemoved(st, P, p), here)
         /\ InviteRemoved(st, P, p).partyOf[p] = st.partyOf[p]
         /\ InviteRemoved(st, P, p).invitedBy[p] = st.invitedBy[p] \ {P}
<1>1. PICK s \in PartyRec : s = st.parties[P]
  BY PartyOfState
<1>2. /\ Fits(s, P, st.partyOf, st.invitedBy, here) /\ st.partyOf \in OfType
      /\ st.invitedBy \in ByType /\ FewAsk(st.invitedBy)
      /\ st = [parties |-> st.parties, partyOf |-> st.partyOf, invitedBy |-> st.invitedBy]
  BY <1>1, PartyOfState
<1>3. CASE p \notin s.invites
  <2>1. InviteRemoved(st, P, p) = st
    BY <1>1, <1>3 DEF InviteRemoved
  <2>2. P \notin st.invitedBy[p]
    BY <1>2, <1>3 DEF Fits, Asked
  <2> QED
    BY <2>1, <2>2
<1>4. CASE p \in s.invites
  <2>1. PICK t : t = [s EXCEPT !.invites = @ \ {p}]
    OBVIOUS
  <2>2. t \in PartyRec /\ t.leader = s.leader /\ t.members = s.members /\ t.invites = s.invites \ {p}
    BY <2>1 DEF PartyRec
  <2>3. Those(t) = Those(s)
    BY <2>2 DEF Those
  <2>4. PICK by : by = AsksNoMore(st.invitedBy, p, P)
    OBVIOUS
  <2>5. /\ by \in ByType /\ FewAsk(by)
        /\ \A x \in Player : by[x] = IF x = p THEN st.invitedBy[x] \ {P} ELSE st.invitedBy[x]
    <3>1. PICK b \in ByType : b = st.invitedBy /\ FewAsk(b)
      BY <1>2
    <3>2. /\ AsksNoMore(b, p, P) \in ByType /\ FewAsk(AsksNoMore(b, p, P))
          /\ AnswersNoMore(AsksNoMore(b, p, P), b, p, P)
      BY <3>1, AsksNoMoreIs
    <3>3. by = AsksNoMore(b, p, P)
      BY <2>4, <3>1
    <3>4. by \in ByType /\ FewAsk(by)
      BY <3>2, <3>3
    <3>5. \A x \in Player : by[x] = IF x = p THEN b[x] \ {P} ELSE b[x]
      BY <3>2, <3>3 DEF AnswersNoMore
    <3> QED
      BY <3>1, <3>4, <3>5
  <2>6. PICK out : out = [parties |-> [st.parties EXCEPT ![P] = t], partyOf |-> st.partyOf,
                          invitedBy |-> by]
    OBVIOUS
  <2>7. InviteRemoved(st, P, p) = IF IsEmpty(t) THEN Disbanded(out, P) ELSE out
    <3>1. PICK ps : ps = [st.parties EXCEPT ![P] = t]
      OBVIOUS
    <3>2. PICK u : u = [st EXCEPT !.parties = ps, !.invitedBy = by]
      OBVIOUS
    <3>3. u = [parties |-> ps, partyOf |-> st.partyOf, invitedBy |-> by]
      BY ONLY <1>2, <3>2, InvitesSet
    <3>4. u = out
      BY <2>6, <3>1, <3>3
    <3>5. [st EXCEPT !.parties[P] = t, !.invitedBy[p] = @ \ {P}] = u
      BY <2>4, <3>1, <3>2 DEF AsksNoMore
    <3> QED
      BY <1>1, <1>4, <2>1, <3>4, <3>5 DEF InviteRemoved
  <2>8. p \notin Those(s) /\ st.partyOf[p] # P
    BY <1>2, <1>4 DEF Fits, Ordered, Belongs
  <2>9. CASE IsEmpty(t)
    <3>1. Disbanded(out, P) = Ended(st, P)
      <4>1. ASSUME NEW x \in Player
            PROVE  (IF x \in Those(t) THEN None ELSE st.partyOf[x])
                     = IF st.partyOf[x] = P THEN None ELSE st.partyOf[x]
        BY <1>2, <2>3 DEF Fits, Belongs
      <4>2. ASSUME NEW x \in Player
            PROVE  (IF x \in t.invites THEN by[x] \ {P} ELSE by[x]) = st.invitedBy[x] \ {P}
        <5>1. P \in st.invitedBy[x] <=> x \in s.invites
          BY <1>2 DEF Fits, Asked
        <5> QED
          BY <2>2, <2>5, <5>1
      <4> QED
        BY <2>6, <4>1, <4>2, DisbandedEnds
    <3>2. InviteRemoved(st, P, p) = Ended(st, P)
      BY <2>7, <2>9, <3>1
    <3> QED
      BY <2>8, <3>2, Ends
  <2>10. CASE ~IsEmpty(t)
    <3>1. Ordered(t)
      <4>1. s.leader # None
        <5>1. s # NoParty
          BY <1>4, NoPartyIs
        <5> QED
          BY <1>2, <5>1 DEF Fits, Ordered
      <4> QED
        BY <1>2, <2>2, <2>3, <2>10, <4>1 DEF Fits, Ordered
    <3>2. Belongs(t, P, st.partyOf)
      BY <1>2, <2>3 DEF Fits, Belongs
    <3>3. Asked(t, P, by)
      BY <1>2, <2>2, <2>5 DEF Fits, Asked
    <3>4. Around(t, here)
      BY <1>2, <2>2, <2>3 DEF Fits, Around
    <3>5. Fits(t, P, st.partyOf, by, here)
      BY <3>1, <3>2, <3>3, <3>4 DEF Fits
    <3>6. Others(st.partyOf, st.partyOf, st.invitedBy, by, P)
      BY <2>5 DEF Others
    <3>7. Sound(out, here)
      BY <1>2, <2>5, <2>6, <3>5, <3>6, OneChanges
    <3>8. out.partyOf = st.partyOf /\ out.invitedBy[p] = st.invitedBy[p] \ {P}
      BY <2>5, <2>6
    <3> QED
      BY <2>7, <2>10, <3>7, <3>8
  <2> QED
    BY <2>9, <2>10
<1> QED
  BY <1>3, <1>4

-----------------------------------------------------------------------------
(* A player lets all its invitations go, in any order.                     *)

\* The function of which the fold of clearPartyInvitations is the value.
Clearing(st, p, S, h) ==
    [s \in SUBSET S |-> IF s = {} THEN st
                        ELSE InviteRemoved(h[s \ {Pick(s)}], Pick(s), p)]

LEMMA ClearingExists ==
  ASSUME NEW here, NEW st, Sound(st, here), NEW p \in Player,
         NEW S \in SUBSET PartyId, IsFiniteSet(S)
  PROVE  \E h : h = Clearing(st, p, S, h)
<1>1. PICK T : \A t : t \in T <=> t \in PartyStates /\ Sound(t, here)
  <2>1. \A t : t \in {u \in PartyStates : Sound(u, here)} <=> t \in PartyStates /\ Sound(t, here)
    OBVIOUS
  <2> QED
    BY <2>1
<1> DEFINE step == [x \in S \X T |-> InviteRemoved(x[2], x[1], p)]
<1>2. \A P \in S, t \in T : InviteRemoved(t, P, p) \in T
  <2> TAKE P \in S, t \in T
  <2>1. Sound(t, here) /\ P \in PartyId
    BY <1>1
  <2>2. Sound(InviteRemoved(t, P, p), here)
    BY <2>1, InviteRemovedSound
  <2> QED
    BY <1>1, <2>2 DEF Sound
<1>3. step \in [S \X T -> T] /\ \A P \in S, t \in T : step[<<P, t>>] = InviteRemoved(t, P, p)
  <2>1. \A x \in S \X T : x[1] \in S /\ x[2] \in T
    OBVIOUS
  <2> QED
    BY <1>2, <2>1
<1> HIDE DEF step
<1>4. StepOf(S, T, st, step)
  <2>1. st \in T
    BY <1>1 DEF Sound
  <2> QED
    BY <1>3, <2>1 DEF StepOf
<1>5. PICK g : FoldOf(S, T, st, step, g)
  BY <1>4, FoldExists
<1>6. ASSUME NEW s \in SUBSET S
      PROVE  g[s] = IF s = {} THEN st ELSE InviteRemoved(g[s \ {Pick(s)}], Pick(s), p)
  <2>1. CASE s = {}
    BY <1>5, <2>1 DEF FoldOf
  <2>2. CASE s # {}
    <3>1. Pick(s) \in S /\ s \ {Pick(s)} \in SUBSET S
      BY <2>2, Picked
    <3>2. g[s \ {Pick(s)}] \in T
      BY <1>5, <3>1 DEF FoldOf
    <3>3. g[s] = step[<<Pick(s), g[s \ {Pick(s)}]>>]
      BY <1>5, <2>2 DEF FoldOf
    <3> QED
      BY <1>3, <2>2, <3>1, <3>2, <3>3
  <2> QED
    BY <2>1, <2>2
<1>7. DOMAIN g = SUBSET S /\ g = [s \in SUBSET S |-> g[s]]
  BY <1>5 DEF FoldOf
<1>8. g = Clearing(st, p, S, g)
  BY <1>6, <1>7 DEF Clearing
<1> QED
  BY <1>8

\* After some of the invitations are gone the state is sound, and they are.
LEMMA ClearingSound ==
  ASSUME NEW here, NEW st, Sound(st, here), NEW p \in Player,
         NEW S \in SUBSET PartyId, IsFiniteSet(S), NEW h, h = Clearing(st, p, S, h)
  PROVE  /\ Sound(h[S], here) /\ h[S].partyOf[p] = st.partyOf[p]
         /\ h[S].invitedBy[p] = st.invitedBy[p] \ S
<1> DEFINE Good(s) == /\ Sound(h[s], here) /\ h[s].partyOf[p] = st.partyOf[p]
                      /\ h[s].invitedBy[p] = st.invitedBy[p] \ s
<1>1. PICK Q : \A s : s \in Q <=> s \in SUBSET S /\ Good(s)
  <2> HIDE DEF Good
  <2>1. \A s : s \in {t \in SUBSET S : Good(t)} <=> s \in SUBSET S /\ Good(s)
    OBVIOUS
  <2> QED
    BY <2>1
<1>2. {} \in Q
  <2>1. h[{}] = st /\ {} \in SUBSET S
    BY DEF Clearing
  <2>2. Good({})
    BY <2>1
  <2> QED
    BY <1>1, <2>1, <2>2
<1>3. ASSUME NEW s \in SUBSET S, s # {}, \A x \in s : s \ {x} \in Q
      PROVE  s \in Q
  <2>1. PICK P \in s : P = Pick(s)
    BY <1>3, Picked
  <2>2. PICK rest : rest = s \ {P}
    OBVIOUS
  <2>3. PICK t : t = h[rest]
    OBVIOUS
  <2>4. Good(rest)
    BY <1>1, <1>3, <2>1, <2>2
  <2>5. /\ Sound(t, here) /\ t.partyOf[p] = st.partyOf[p]
        /\ t.invitedBy[p] = st.invitedBy[p] \ rest
    BY <2>3, <2>4
  <2>6. P \in PartyId
    BY <2>1
  <2>7. h[s] = InviteRemoved(t, P, p)
    BY <1>3, <2>1, <2>2, <2>3 DEF Clearing
  <2>8. /\ Sound(h[s], here) /\ h[s].partyOf[p] = t.partyOf[p]
        /\ h[s].invitedBy[p] = t.invitedBy[p] \ {P}
    BY <2>5, <2>6, <2>7, InviteRemovedSound
  <2>9. (st.invitedBy[p] \ rest) \ {P} = st.invitedBy[p] \ s
    BY <2>1, <2>2
  <2>10. Good(s)
    BY <2>5, <2>8, <2>9
  <2> QED
    BY <1>1, <2>10
<1>4. S \in Q
  BY <1>2, <1>3, SetInduction
<1> QED
  BY <1>1, <1>4

LEMMA InvitationsClear ==
  ASSUME NEW here, NEW st, Sound(st, here), NEW p \in Player
  PROVE  /\ Sound(InvitationsCleared(st, p), here)
         /\ InvitationsCleared(st, p).partyOf[p] = st.partyOf[p]
         /\ InvitationsCleared(st, p).invitedBy[p] = {}
<1>1. PICK S : S = st.invitedBy[p]
  OBVIOUS
<1>2. S \in SUBSET PartyId /\ IsFiniteSet(S)
  BY <1>1 DEF Sound, PartyStates, ByType, FewAsk
<1> DEFINE h == CHOOSE k : k = Clearing(st, p, S, k)
<1>3. InvitationsCleared(st, p) = h[S]
  BY <1>1 DEF InvitationsCleared, FoldSet, MapThenFoldSet, Clearing, Pick
<1>4. \E k : k = Clearing(st, p, S, k)
  BY <1>2, ClearingExists
<1>5. h = Clearing(st, p, S, h)
  BY <1>4
<1> HIDE DEF h
<1>6. /\ Sound(h[S], here) /\ h[S].partyOf[p] = st.partyOf[p]
      /\ h[S].invitedBy[p] = st.invitedBy[p] \ S
  BY <1>2, <1>5, ClearingSound
<1> QED
  BY <1>1, <1>3, <1>6

\* Then it may leave: it is in no party and nobody invites it.
LEMMA NobodyLeaves ==
  ASSUME NEW here, NEW st, Sound(st, here), NEW p \in Player,
         st.partyOf[p] = None, \A P \in PartyId : P \notin st.invitedBy[p]
  PROVE  Sound(st, here \ {p})
<1>1. None \notin PartyId
  BY PartyAssumption
<1>2. ASSUME NEW P \in PartyId
      PROVE  Fits(st.parties[P], P, st.partyOf, st.invitedBy, here \ {p})
  <2>1. Fits(st.parties[P], P, st.partyOf, st.invitedBy, here)
    BY DEF Sound, AllFit
  <2>2. p \notin Those(st.parties[P]) /\ p \notin st.parties[P].invites
    BY <1>1, <2>1 DEF Fits, Belongs, Asked
  <2>3. Around(st.parties[P], here \ {p})
    BY <2>1, <2>2 DEF Fits, Around
  <2> QED
    BY <2>1, <2>3 DEF Fits
<1> QED
  BY <1>2 DEF Sound, AllFit

-----------------------------------------------------------------------------
(* The theorems of parties.                                                *)

PartyInv == Sound(State, logged) /\ logged \subseteq Player

LEMMA StateParts ==
  /\ State.parties = parties /\ State.partyOf = partyOf /\ State.invitedBy = invitedBy
  /\ State = [parties |-> parties, partyOf |-> partyOf, invitedBy |-> invitedBy]
  BY DEF State

LEMMA PartyInvInit == PartyInit => PartyInv
<1> SUFFICES ASSUME PartyInit
             PROVE  PartyInv
  OBVIOUS
<1>1. PICK ps : ps = parties
  OBVIOUS
<1>2. /\ ps \in [PartyId -> PartyRec] /\ \A P \in PartyId : ps[P] = NoParty
      /\ partyOf \in OfType /\ \A p \in Player : partyOf[p] = None
      /\ invitedBy \in ByType /\ \A p \in Player : invitedBy[p] = {}
  BY <1>1, NoPartyIs DEF PartyInit, OfType, ByType
<1>3. State \in PartyStates
  BY <1>1, <1>2 DEF State, PartyStates
<1>4. FewAsk(invitedBy)
  BY <1>2, FS_EmptySet DEF FewAsk
<1>5. None \notin PartyId
  BY PartyAssumption
<1>6. ASSUME NEW P \in PartyId
      PROVE  Fits(ps[P], P, partyOf, invitedBy, logged)
  <2>1. Belongs(NoParty, P, partyOf)
    BY <1>2, <1>5, NoPartyIs DEF Belongs
  <2>2. Asked(NoParty, P, invitedBy)
    BY <1>2, NoPartyIs DEF Asked
  <2>3. Around(NoParty, logged)
    BY NoPartyIs DEF Around
  <2> QED
    BY <1>2, <2>1, <2>2, <2>3, NoPartyIs DEF Fits
<1>7. AllFit(State, logged)
  BY <1>1, <1>6, StateParts DEF AllFit
<1>8. logged \subseteq Player
  BY DEF PartyInit
<1> QED
  BY <1>3, <1>4, <1>7, <1>8, StateParts DEF PartyInv, Sound

\* A state that a step makes.
LEMMA Becoming ==
  ASSUME NEW t, Becomes(t), Sound(t, logged'), logged' \subseteq Player
  PROVE  PartyInv'
<1>1. t \in PartyStates
  BY DEF Sound
<1>2. t = [parties |-> t.parties, partyOf |-> t.partyOf, invitedBy |-> t.invitedBy]
  BY <1>1 DEF PartyStates
<1>3. State' = t
  BY <1>2 DEF Becomes, State
<1> QED
  BY <1>3 DEF PartyInv

\* The party of a player, and of an invitation.
LEMMA PartyOfPlayer ==
  ASSUME PartyInv, NEW p \in Player
  PROVE  /\ partyOf[p] \in PartyId \cup {None}
         /\ partyOf[p] # None => /\ partyOf[p] \in PartyId
                                 /\ parties[partyOf[p]] \in PartyRec
                                 /\ p \in Those(parties[partyOf[p]])
                                 /\ parties[partyOf[p]].leader # None
<1>1. Sound(State, logged) /\ partyOf \in OfType
  BY StateParts DEF PartyInv, Sound, PartyStates
<1>2. partyOf[p] \in PartyId \cup {None}
  BY <1>1 DEF OfType
<1>3. ASSUME NEW P \in PartyId, P = partyOf[p]
      PROVE  parties[P] \in PartyRec /\ p \in Those(parties[P]) /\ parties[P].leader # None
  <2>1. parties[P] \in PartyRec /\ Fits(parties[P], P, partyOf, invitedBy, logged)
    BY <1>1, StateParts, PartyOfState
  <2>2. p \in Those(parties[P])
    BY <1>3, <2>1 DEF Fits, Belongs
  <2>3. parties[P] # NoParty
    BY <2>2, NoPartyIs
  <2> QED
    BY <2>1, <2>2, <2>3 DEF Fits, Ordered
<1> QED
  BY <1>2, <1>3

LEMMA PartyInvStep == PartyInv /\ [PartyNext]_partyVars => PartyInv'
<1> SUFFICES ASSUME PartyInv, [PartyNext]_partyVars
             PROVE  PartyInv'
  OBVIOUS
<1>1. Sound(State, logged) /\ logged \subseteq Player
  BY DEF PartyInv
<1>2. None \notin PartyId /\ None \notin Player
  BY PartyAssumption
<1>3. ASSUME NEW p \in Player, NEW q \in Player, Invite(p, q)
      PROVE  PartyInv'
  <2>1. p # q /\ p \in logged /\ q \in logged /\ partyOf[q] = None /\ logged' = logged
    BY <1>3 DEF Invite
  <2>2. CASE partyOf[p] = None /\ \E P \in PartyId : ~PartyExists(P) /\ Becomes(Invited(Founded(State, P, p), P, q))
    <3>1. PICK P \in PartyId : ~PartyExists(P) /\ Becomes(Invited(Founded(State, P, p), P, q))
      BY <2>2
    <3>2. PICK t : t = Invited(Founded(State, P, p), P, q)
      OBVIOUS
    <3>3. State.parties[P] = NoParty /\ State.partyOf[p] = None /\ State.partyOf[q] = None
      BY <2>1, <2>2, <3>1, StateParts DEF PartyExists
    <3>4. Sound(t, logged)
      BY <1>1, <2>1, <3>2, <3>3, FoundedSound
    <3> QED
      BY <1>1, <2>1, <3>1, <3>2, <3>4, Becoming
  <2>3. CASE partyOf[p] # None /\ Becomes(Invited(State, partyOf[p], q))
    <3>1. PICK P \in PartyId : P = partyOf[p]
      BY <2>3, PartyOfPlayer
    <3>2. PICK t : t = Invited(State, P, q)
      OBVIOUS
    <3>3. State.parties[P].leader # None /\ State.partyOf[q] = None
      BY <2>1, <2>3, <3>1, StateParts, PartyOfPlayer
    <3>4. Sound(t, logged)
      BY <1>1, <2>1, <3>2, <3>3, InvitedSound
    <3> QED
      BY <1>1, <2>1, <2>3, <3>1, <3>2, <3>4, Becoming
  <2> QED
    BY <1>3, <2>2, <2>3 DEF Invite
<1>4. ASSUME NEW p \in Player, NEW q \in Player, Revoke(p, q)
      PROVE  PartyInv'
  <2>1. PICK P \in PartyId : P = partyOf[p]
    BY <1>4, PartyOfPlayer DEF Revoke, IsInviting
  <2>2. PICK t : t = InviteRemoved(State, P, q)
    OBVIOUS
  <2>3. Becomes(t) /\ logged' = logged
    BY <1>4, <2>1, <2>2 DEF Revoke
  <2>4. Sound(t, logged)
    BY <1>1, <2>2, InviteRemovedSound
  <2> QED
    BY <1>1, <2>3, <2>4, Becoming
<1>5. ASSUME NEW p \in Player, NEW q \in Player, NEW ok \in BOOLEAN, Join(p, q, ok)
      PROVE  PartyInv'
  <2>1. PICK P \in PartyId : P = partyOf[q]
    BY <1>5, PartyOfPlayer DEF Join, IsInviting
  <2>2. PICK t : t = Joined(State, P, p, ok)
    OBVIOUS
  <2>3. Becomes(t) /\ logged' = logged
    BY <1>5, <2>1, <2>2 DEF Join
  <2>4. p \in State.parties[P].invites /\ State.partyOf[p] = None
    BY <1>5, <2>1, StateParts DEF Join, IsInviting
  <2>5. Sound(t, logged)
    BY <1>1, <2>2, <2>4, JoinedSound
  <2> QED
    BY <1>1, <2>3, <2>5, Becoming
<1>6. ASSUME NEW p \in Player, NEW q \in Player, NEW ok \in BOOLEAN, PassLeadership(p, q, ok)
      PROVE  PartyInv'
  <2>1. PICK P \in PartyId : P = partyOf[p]
    BY <1>6, PartyOfPlayer DEF PassLeadership
  <2>2. PICK s \in PartyRec : s = parties[P]
    BY <1>6, <2>1, PartyOfPlayer DEF PassLeadership
  <2>3. Fits(s, P, State.partyOf, State.invitedBy, logged)
    BY <1>1, <2>2, StateParts, PartyOfState
  <2>4. q \in ToSet(s.members) /\ s.leader # None
    <3>1. partyOf[q] = P /\ s.leader = p /\ p # q
      BY <1>6, <2>1, <2>2 DEF PassLeadership
    <3>2. q \in Those(s)
      BY <2>3, <3>1, StateParts DEF Fits, Belongs
    <3> QED
      BY <1>2, <3>1, <3>2 DEF Those
  <2>5. PICK r : r = Passed(s, q, ok)
    OBVIOUS
  <2>6. Fits(r, P, State.partyOf, State.invitedBy, logged)
    BY <2>3, <2>4, <2>5, PassedFits
  <2>7. PICK t : t = [State EXCEPT !.parties[P] = r]
    OBVIOUS
  <2>8. Sound(t, logged)
    BY <1>1, <2>6, <2>7, PartyChanges
  <2>9. Becomes(t) /\ logged' = logged
    <3>1. State.parties[P] = s
      BY <2>2, StateParts
    <3> QED
      BY <1>6, <2>1, <2>5, <2>7, <3>1 DEF PassLeadership
  <2> QED
    BY <1>1, <2>8, <2>9, Becoming
<1>7. ASSUME NEW p \in Player, NEW ok \in BOOLEAN, LeaveParty(p, ok)
      PROVE  PartyInv'
  <2>1. PICK P \in PartyId : P = partyOf[p]
    BY <1>7, PartyOfPlayer DEF LeaveParty
  <2>2. PICK t : t = Left(State, P, p, ok)
    OBVIOUS
  <2>3. Becomes(t) /\ logged' = logged
    BY <1>7, <2>1, <2>2 DEF LeaveParty
  <2>4. State.partyOf[p] = P
    BY <2>1, StateParts
  <2>5. Sound(t, logged)
    BY <1>1, <2>2, <2>4, LeftSound
  <2> QED
    BY <1>1, <2>3, <2>5, Becoming
<1>8. ASSUME NEW p \in Player, NEW ok \in BOOLEAN, LogoutMember(p, ok)
      PROVE  PartyInv'
  <2>1. PICK st : st = InvitationsCleared(State, p)
    OBVIOUS
  <2>2. Sound(st, logged) /\ st.partyOf[p] = partyOf[p] /\ st.invitedBy[p] = {}
    BY <1>1, <2>1, StateParts, InvitationsClear
  <2>3. PICK t : t = IF partyOf[p] # None THEN Left(st, partyOf[p], p, ok) ELSE st
    OBVIOUS
  <2>4. Becomes(t) /\ logged' = logged \ {p}
    BY <1>8, <2>1, <2>3 DEF LogoutMember
  <2>5. Sound(t, logged) /\ t.partyOf[p] = None /\ \A Q \in PartyId : Q \notin t.invitedBy[p]
    <3>1. CASE partyOf[p] = None
      BY <2>2, <2>3, <3>1
    <3>2. CASE partyOf[p] # None
      <4>1. PICK P \in PartyId : P = partyOf[p]
        BY <3>2, PartyOfPlayer
      <4>2. t = Left(st, P, p, ok)
        BY <2>3, <3>2, <4>1
      <4>3. st.partyOf[p] = P
        BY <2>2, <4>1
      <4>4. /\ Sound(t, logged) /\ t.partyOf[p] = None
            /\ \A Q \in PartyId : Q \in t.invitedBy[p] => Q \in st.invitedBy[p]
        BY <2>2, <4>2, <4>3, LeftSound
      <4> QED
        BY <2>2, <4>4
    <3> QED
      BY <3>1, <3>2
  <2>6. Sound(t, logged')
    BY <2>4, <2>5, NobodyLeaves
  <2>7. logged' \subseteq Player
    BY <1>1, <2>4
  <2> QED
    BY <2>4, <2>6, <2>7, Becoming
<1>9. ASSUME NEW p \in Player, NEW on \in BOOLEAN, NEW ok \in BOOLEAN, ShareExperience(p, on, ok)
      PROVE  PartyInv'
  <2>1. PICK P \in PartyId : P = partyOf[p]
    BY <1>9, PartyOfPlayer DEF ShareExperience
  <2>2. PICK s \in PartyRec : s = parties[P] /\ s.leader # None
    BY <1>9, <2>1, PartyOfPlayer DEF ShareExperience
  <2>3. Fits(s, P, State.partyOf, State.invitedBy, logged)
    BY <1>1, <2>2, StateParts, PartyOfState
  <2>4. PICK r : r = SharedSet(s, on, ok)
    OBVIOUS
  <2>5. Fits(r, P, State.partyOf, State.invitedBy, logged)
    BY <2>2, <2>3, <2>4, SharedSetFits
  <2>6. PICK t : t = [State EXCEPT !.parties[P] = r]
    OBVIOUS
  <2>7. Sound(t, logged)
    BY <1>1, <2>5, <2>6, PartyChanges
  <2>8. Becomes(t) /\ logged' = logged
    <3>1. State.parties[P] = s
      BY <2>2, StateParts
    <3> QED
      BY <1>9, <2>1, <2>4, <2>6, <3>1 DEF ShareExperience
  <2> QED
    BY <1>1, <2>7, <2>8, Becoming
<1>10. ASSUME NEW P \in PartyId, NEW ok \in BOOLEAN, Update(P, ok)
       PROVE  PartyInv'
  <2>1. PICK s \in PartyRec : s = parties[P]
    BY <1>1, StateParts, PartyOfState
  <2>2. Fits(s, P, State.partyOf, State.invitedBy, logged)
    BY <1>1, <2>1, StateParts, PartyOfState
  <2>3. PICK r : r = Shared(s, ok)
    OBVIOUS
  <2>4. Fits(r, P, State.partyOf, State.invitedBy, logged)
    BY <2>2, <2>3, SharedFits
  <2>5. PICK t : t = [State EXCEPT !.parties[P] = r]
    OBVIOUS
  <2>6. Sound(t, logged)
    BY <1>1, <2>4, <2>5, PartyChanges
  <2>7. Becomes(t) /\ logged' = logged
    <3>1. State.parties[P] = s
      BY <2>1, StateParts
    <3> QED
      BY <1>10, <2>3, <2>5, <3>1 DEF Update
  <2> QED
    BY <1>1, <2>6, <2>7, Becoming
\* Who is in no party and asked by none may come in.
<1>11. ASSUME NEW p \in Player, Login(p)
       PROVE  PartyInv'
  <2>1. State' = State /\ logged' = logged \cup {p}
    BY <1>11 DEF Login, State
  <2>2. AllFit(State, logged \cup {p})
    BY <1>1 DEF Sound, AllFit, Fits, Around
  <2>3. Sound(State, logged \cup {p})
    BY <1>1, <2>2 DEF Sound
  <2> QED
    BY <1>1, <2>1, <2>3 DEF PartyInv
<1>12. CASE UNCHANGED partyVars
  BY <1>12 DEF partyVars, PartyInv, State, Sound, AllFit
<1> QED
  BY <1>3, <1>4, <1>5, <1>6, <1>7, <1>8, <1>9, <1>10, <1>11, <1>12 DEF PartyNext

LEMMA PartyInvHolds == PartySpec => []PartyInv
<1> QED
  BY PartyInvInit, PartyInvStep, PTL DEF PartySpec

\* Parties keep their types, and one without a leader is one that is gone
\* (party.cpp).
THEOREM PartyTypeCorrect == PartySpec => []PartyTypeOK
<1>1. PartyInv => PartyTypeOK
  <2> SUFFICES ASSUME PartyInv
               PROVE  PartyTypeOK
    OBVIOUS
  <2>1. Sound(State, logged) /\ logged \subseteq Player
    BY DEF PartyInv
  <2>2. /\ parties \in [PartyId -> PartyRec] /\ partyOf \in [Player -> PartyId \cup {None}]
        /\ invitedBy \in [Player -> SUBSET PartyId]
    BY <2>1, StateParts DEF Sound, PartyStates, OfType, ByType
  <2>3. \A P \in PartyId : parties[P].leader = None => parties[P] = NoParty
    BY <2>1, StateParts DEF Sound, AllFit, Fits, Ordered
  <2> QED
    BY <2>1, <2>2, <2>3 DEF PartyTypeOK, PartyRec
<1> QED
  BY <1>1, PartyInvHolds, PTL

\* Players and parties agree on who is in which party, once, and on who is
\* invited; nobody who has left the game is in one or invited, and a party
\* without members or invitations is gone (party.cpp: disband, leaveParty,
\* passPartyLeadership, joinParty, removeInvite, clearPartyInvitations).
THEOREM PartiesAlwaysAgree == PartySpec => []MembershipAgrees
<1>1. PartyInv => MembershipAgrees
  <2> SUFFICES ASSUME PartyInv, NEW P \in PartyId
               PROVE  /\ PartyExists(P) => parties[P].leader \in logged /\ ~IsEmpty(parties[P])
                      /\ ToSet(parties[P].members) \subseteq logged
                      /\ PartyExists(P) => partyOf[parties[P].leader] = P
                      /\ parties[P].leader \notin ToSet(parties[P].members)
                      /\ IsInjective(parties[P].members)
                      /\ \A p \in Player :
                           partyOf[p] = P => p = parties[P].leader \/ p \in ToSet(parties[P].members)
                      /\ \A p \in ToSet(parties[P].members) : partyOf[p] = P
                      /\ \A p \in Player :
                           /\ P \in invitedBy[p] <=> p \in parties[P].invites
                           /\ p \in parties[P].invites => p \in logged
    BY DEF MembershipAgrees
  <2>1. PICK s \in PartyRec : s = parties[P]
    BY StateParts, PartyOfState DEF PartyInv
  <2>2. Fits(s, P, partyOf, invitedBy, logged)
    BY <2>1, StateParts, PartyOfState DEF PartyInv
  <2>3. s.leader \in Player \cup {None} /\ s.members \in Seq(Player)
    BY DEF PartyRec
  <2>4. ToSet(s.members) \subseteq Player
    BY <2>3, FirstOf
  <2>5. s # NoParty => s.leader \in Player /\ ~IsEmpty(s)
    BY <2>2, <2>3 DEF Fits, Ordered
  <2>6. s.leader \notin ToSet(s.members) /\ IsInjective(s.members)
    BY <2>2 DEF Fits, Ordered
  <2>7. \A p \in Player : /\ partyOf[p] = P <=> p = s.leader \/ p \in ToSet(s.members)
                          /\ p = s.leader \/ p \in ToSet(s.members) => p \in logged
    BY <2>2 DEF Fits, Belongs, Around, Those
  <2>8. \A p \in Player : /\ P \in invitedBy[p] <=> p \in s.invites
                          /\ p \in s.invites => p \in logged
    BY <2>2 DEF Fits, Asked, Around
  <2> QED
    BY <2>1, <2>4, <2>5, <2>6, <2>7, <2>8 DEF PartyExists
<1> QED
  BY <1>1, PartyInvHolds, PTL

-----------------------------------------------------------------------------
(* Trades.  First what lies around an item when things lie as in at, and   *)
(* what of it changes when one thing is moved.                             *)

Lies == [Item -> Trader \cup Bag \cup {Floor}]

Acyclic(at) == \A i \in Item : i \notin AncestorsIn(at, i)

\* The bag an item lies in is around it, and so is what a bag around it lies in.
LEMMA UpIsAround ==
  ASSUME NEW at \in Lies, NEW i \in Item
  PROVE  /\ AncestorsIn(at, i) \subseteq Bag
         /\ \A x \in AncestorsIn(at, i) \cup {i} : at[x] \in Bag => at[x] \in AncestorsIn(at, i)
  BY DEF AncestorsIn

\* Nothing else is: what is around an item is in every set of bags of that kind.
LEMMA AroundIsLeast ==
  ASSUME NEW at, NEW i, NEW S \in SUBSET Bag,
         \A x \in S \cup {i} : at[x] \in Bag => at[x] \in S
  PROVE  AncestorsIn(at, i) \subseteq S
  BY DEF AncestorsIn

\* One step up.
LEMMA AroundStep ==
  ASSUME NEW at \in Lies, NEW i \in Item
  PROVE  /\ at[i] \in Bag => AncestorsIn(at, i) = {at[i]} \cup AncestorsIn(at, at[i])
         /\ at[i] \notin Bag => AncestorsIn(at, i) = {}
<1>1. Bag \subseteq Item
  BY TradeAssumption
<1>2. ASSUME at[i] \in Bag
      PROVE  AncestorsIn(at, i) = {at[i]} \cup AncestorsIn(at, at[i])
  <2>1. PICK b \in Bag : b = at[i]
    BY <1>2
  <2>2. b \in Item
    BY <1>1
  <2>3. AncestorsIn(at, b) \subseteq Bag
    BY <2>2, UpIsAround
  <2>4. \A x \in ({b} \cup AncestorsIn(at, b)) \cup {i} : at[x] \in Bag => at[x] \in {b} \cup AncestorsIn(at, b)
    BY <2>1, <2>2, UpIsAround
  <2>5. AncestorsIn(at, i) \subseteq {b} \cup AncestorsIn(at, b)
    <3>1. PICK S \in SUBSET Bag : S = {b} \cup AncestorsIn(at, b)
      BY <2>3
    <3>2. \A x \in S \cup {i} : at[x] \in Bag => at[x] \in S
      BY <2>4, <3>1
    <3> QED
      BY <3>1, <3>2, AroundIsLeast
  <2>6. AncestorsIn(at, i) \subseteq Bag /\ b \in AncestorsIn(at, i)
    BY <2>1, UpIsAround
  <2>7. \A x \in AncestorsIn(at, i) \cup {b} : at[x] \in Bag => at[x] \in AncestorsIn(at, i)
    BY <2>6, UpIsAround
  <2>8. AncestorsIn(at, b) \subseteq AncestorsIn(at, i)
    BY <2>6, <2>7, AroundIsLeast
  <2> QED
    BY <2>1, <2>5, <2>6, <2>8
<1>3. ASSUME at[i] \notin Bag
      PROVE  AncestorsIn(at, i) = {}
  <2>1. PICK S \in SUBSET Bag : S = {}
    OBVIOUS
  <2>2. \A x \in S \cup {i} : at[x] \in Bag => at[x] \in S
    BY <1>3, <2>1
  <2> QED
    BY <2>1, <2>2, AroundIsLeast
<1> QED
  BY <1>2, <1>3

\* What is around a bag is around what the bag is around.
LEMMA AroundIsTransitive ==
  ASSUME NEW at \in Lies, NEW i \in Item, NEW b \in AncestorsIn(at, i)
  PROVE  b \in Item /\ AncestorsIn(at, b) \subseteq AncestorsIn(at, i)
<1>1. b \in Item /\ AncestorsIn(at, i) \subseteq Bag
  BY UpIsAround, TradeAssumption
<1>2. \A x \in AncestorsIn(at, i) \cup {b} : at[x] \in Bag => at[x] \in AncestorsIn(at, i)
  BY UpIsAround
<1> QED
  BY <1>1, <1>2, AroundIsLeast

\* A thing in a bag is carried by who carries the bag; one that is in none, by
\* whom it lies with.
LEMMA TopStep ==
  ASSUME NEW at \in Lies, NEW i \in Item
  PROVE  /\ at[i] \in Bag => TopIn(at, i) = TopIn(at, at[i])
         /\ at[i] \notin Bag => TopIn(at, i) = at[i]
<1>1. Bag \cap (Trader \cup {Floor}) = {} /\ Bag \subseteq Item
  BY TradeAssumption
<1>2. ASSUME at[i] \in Bag
      PROVE  TopIn(at, i) = TopIn(at, at[i])
  <2>1. PICK b \in Bag : b = at[i]
    BY <1>2
  <2>2. AncestorsIn(at, i) = {b} \cup AncestorsIn(at, b)
    BY <2>1, AroundStep
  <2>3. \A o \in Trader \cup {Floor} :
          o \in {at[x] : x \in AncestorsIn(at, i) \cup {i}} <=> o \in {at[x] : x \in AncestorsIn(at, b) \cup {b}}
    BY <1>1, <2>1, <2>2
  <2> QED
    BY <2>1, <2>3 DEF TopIn
<1>3. ASSUME at[i] \notin Bag
      PROVE  TopIn(at, i) = at[i]
  <2>1. AncestorsIn(at, i) = {}
    BY <1>3, AroundStep
  <2>2. at[i] \in Trader \cup {Floor}
    BY <1>3 DEF Lies
  <2>3. \A o \in Trader \cup {Floor} : o \in {at[x] : x \in AncestorsIn(at, i) \cup {i}} <=> o = at[i]
    BY <2>1
  <2> QED
    BY <2>2, <2>3 DEF TopIn
<1> QED
  BY <1>2, <1>3

\* The bags around a thing are carried with it.
LEMMA CarriedTogether ==
  ASSUME NEW at \in Lies, NEW i \in Item, NEW b \in AncestorsIn(at, i)
  PROVE  TopIn(at, b) = TopIn(at, i)
<1>1. Bag \subseteq Item
  BY TradeAssumption
<1>2. PICK S \in SUBSET Bag : \A x \in Bag : x \in S <=> TopIn(at, x) = TopIn(at, i)
  <2>1. {x \in Bag : TopIn(at, x) = TopIn(at, i)} \in SUBSET Bag
    OBVIOUS
  <2> QED
    BY <2>1
<1>3. ASSUME NEW x \in S \cup {i}, at[x] \in Bag
      PROVE  at[x] \in S
  <2>1. x \in Item /\ TopIn(at, x) = TopIn(at, i)
    BY <1>1, <1>2
  <2>2. TopIn(at, x) = TopIn(at, at[x])
    BY <1>3, <2>1, TopStep
  <2> QED
    BY <1>2, <1>3, <2>1, <2>2
<1>4. AncestorsIn(at, i) \subseteq S
  BY <1>3, AroundIsLeast
<1> QED
  BY <1>2, <1>4

-----------------------------------------------------------------------------
(* One thing is moved.                                                     *)

Moved(at, i, to) == [at EXCEPT ![i] = to]

LEMMA MovedIs ==
  ASSUME NEW at \in Lies, NEW i \in Item, NEW to \in Trader \cup Bag \cup {Floor}
  PROVE  /\ Moved(at, i, to) \in Lies
         /\ Moved(at, i, to)[i] = to
         /\ \A x \in Item : x # i => Moved(at, i, to)[x] = at[x]
  BY DEF Moved, Lies

\* Of what is around a thing, a move takes away and adds only what is around
\* the one that is moved.
LEMMA AroundMoves ==
  ASSUME NEW at \in Lies, NEW i \in Item, NEW new \in Lies, NEW j \in Item,
         \A x \in Item : x # i => new[x] = at[x]
  PROVE  AncestorsIn(at, j) \subseteq AncestorsIn(new, j) \cup AncestorsIn(at, i)
<1>1. Bag \subseteq Item
  BY TradeAssumption
<1>2. AncestorsIn(new, j) \cup AncestorsIn(at, i) \in SUBSET Bag
  BY UpIsAround
<1>3. ASSUME NEW x \in (AncestorsIn(new, j) \cup AncestorsIn(at, i)) \cup {j}, at[x] \in Bag
      PROVE  at[x] \in AncestorsIn(new, j) \cup AncestorsIn(at, i)
  <2>1. CASE x \in AncestorsIn(at, i) \cup {i}
    BY <1>3, <2>1, UpIsAround
  <2>2. CASE x # i /\ x \in AncestorsIn(new, j) \cup {j}
    <3>1. new[x] = at[x]
      BY <1>1, <1>2, <2>2
    <3> QED
      BY <1>3, <2>2, <3>1, UpIsAround
  <2> QED
    BY <1>3, <2>1, <2>2
<1>4. PICK S \in SUBSET Bag : S = AncestorsIn(new, j) \cup AncestorsIn(at, i)
  BY <1>2
<1>5. \A x \in S \cup {j} : at[x] \in Bag => at[x] \in S
  BY <1>3, <1>4
<1> QED
  BY <1>4, <1>5, AroundIsLeast

\* Nothing changes for what is neither moved nor in what is moved.
LEMMA OthersStay ==
  ASSUME NEW at \in Lies, NEW i \in Item, NEW new \in Lies, NEW j \in Item,
         \A x \in Item : x # i => new[x] = at[x],
         j # i, i \notin AncestorsIn(at, j)
  PROVE  AncestorsIn(new, j) = AncestorsIn(at, j) /\ TopIn(new, j) = TopIn(at, j)
<1>1. Bag \subseteq Item
  BY TradeAssumption
<1>2. AncestorsIn(at, j) \in SUBSET Bag /\ AncestorsIn(new, j) \in SUBSET Bag
  BY UpIsAround
<1>3. \A x \in AncestorsIn(at, j) \cup {j} : new[x] = at[x]
  BY <1>1, <1>2
<1>4. AncestorsIn(new, j) \subseteq AncestorsIn(at, j)
  <2>1. \A x \in AncestorsIn(at, j) \cup {j} : new[x] \in Bag => new[x] \in AncestorsIn(at, j)
    BY <1>3, UpIsAround
  <2> QED
    BY <1>2, <2>1, AroundIsLeast
<1>5. AncestorsIn(at, j) \subseteq AncestorsIn(new, j)
  <2>1. \A x \in AncestorsIn(new, j) \cup {j} : at[x] \in Bag => at[x] \in AncestorsIn(new, j)
    BY <1>3, <1>4, UpIsAround
  <2> QED
    BY <1>2, <2>1, AroundIsLeast
<1>6. AncestorsIn(new, j) = AncestorsIn(at, j)
  BY <1>4, <1>5
<1>7. \A o \in Trader \cup {Floor} :
        o \in {new[x] : x \in AncestorsIn(new, j) \cup {j}} <=> o \in {at[x] : x \in AncestorsIn(at, j) \cup {j}}
  BY <1>3, <1>6
<1>8. TopIn(new, j) = TopIn(at, j)
  BY <1>7 DEF TopIn
<1> QED
  BY <1>6, <1>8

\* Where a thing may be put: not into itself.
Free(at, i, to) == to \in Bag => to # i /\ i \notin AncestorsIn(at, to)

\* What is put into a bag is then in what the bag is in, and carried with it.
LEMMA PutThere ==
  ASSUME NEW at \in Lies, NEW i \in Item, NEW to \in Trader \cup Bag \cup {Floor}, Free(at, i, to)
  PROVE  LET new == Moved(at, i, to) IN
         /\ to \in Bag => /\ AncestorsIn(new, i) = {to} \cup AncestorsIn(at, to)
                          /\ TopIn(new, i) = TopIn(at, to) /\ TopIn(new, to) = TopIn(at, to)
         /\ to \notin Bag => AncestorsIn(new, i) = {} /\ TopIn(new, i) = to
<1> DEFINE new == Moved(at, i, to)
<1>1. new \in Lies /\ new[i] = to /\ \A x \in Item : x # i => new[x] = at[x]
  BY MovedIs
<1> HIDE DEF new
<1>2. ASSUME to \in Bag
      PROVE  /\ AncestorsIn(new, i) = {to} \cup AncestorsIn(at, to)
             /\ TopIn(new, i) = TopIn(at, to) /\ TopIn(new, to) = TopIn(at, to)
  <2>1. to \in Item /\ to # i /\ i \notin AncestorsIn(at, to)
    BY <1>2, TradeAssumption DEF Free
  <2>2. AncestorsIn(new, to) = AncestorsIn(at, to) /\ TopIn(new, to) = TopIn(at, to)
    BY <1>1, <2>1, OthersStay
  <2>3. AncestorsIn(new, i) = {new[i]} \cup AncestorsIn(new, new[i]) /\ TopIn(new, i) = TopIn(new, new[i])
    BY <1>1, <1>2, AroundStep, TopStep
  <2> QED
    BY <1>1, <2>2, <2>3
<1>3. ASSUME to \notin Bag
      PROVE  AncestorsIn(new, i) = {} /\ TopIn(new, i) = to
  BY <1>1, <1>3, AroundStep, TopStep
<1> QED
  BY <1>2, <1>3 DEF new

\* Nothing is ever within itself.
LEMMA StaysAcyclic ==
  ASSUME NEW at \in Lies, Acyclic(at), NEW i \in Item,
         NEW to \in Trader \cup Bag \cup {Floor}, Free(at, i, to)
  PROVE  Acyclic(Moved(at, i, to))
<1> DEFINE new == Moved(at, i, to)
<1>1. new \in Lies /\ \A x \in Item : x # i => new[x] = at[x]
  BY MovedIs
<1>2. AncestorsIn(new, i) = IF to \in Bag THEN {to} \cup AncestorsIn(at, to) ELSE {}
  BY PutThere
<1> HIDE DEF new
<1>3. ASSUME NEW j \in Item, j \in AncestorsIn(new, j)
      PROVE  FALSE
  <2>1. j \in AncestorsIn(at, j) \cup AncestorsIn(new, i)
    <3>1. \A x \in Item : x # i => at[x] = new[x]
      BY <1>1
    <3> QED
      BY <1>1, <1>3, <3>1, AroundMoves
  <2>2. j \notin AncestorsIn(at, j)
    BY DEF Acyclic
  <2>3. to \in Bag /\ j \in {to} \cup AncestorsIn(at, to)
    BY <1>2, <2>1, <2>2
  <2>4. to \in Item /\ to # i /\ i \notin AncestorsIn(at, to)
    BY <2>3, TradeAssumption DEF Free
  <2>5. j # i /\ i \notin AncestorsIn(at, j)
    BY <2>3, <2>4, AroundIsTransitive
  <2>6. AncestorsIn(new, j) = AncestorsIn(at, j)
    BY <1>1, <2>5, OthersStay
  <2> QED
    BY <1>3, <2>2, <2>6
<1> QED
  BY <1>3 DEF new, Acyclic

-----------------------------------------------------------------------------
(* What is on offer.                                                       *)

Within(at, t) == {j \in Item : t \in AncestorsIn(at, j)}

\* Player r, who stands on spot, has t or is next to it.
Keeps(at, spot, r, t) ==
    TopIn(at, t) = r \/ (TopIn(at, t) = Floor /\ Distance(FloorAt, spot) <= 1)

Stands(at, spot, r, t, contents) == Within(at, t) = contents /\ Keeps(at, spot, r, t)

OffersStand(at, spots, item, contents) ==
    \A r \in Trader : item[r] # None => Stands(at, spots[r], r, item[r], contents[r])

NoneNested(at, items) ==
    \A t, u \in Item : items[t] # None /\ items[u] # None => t \notin AncestorsIn(at, u)

\* The inductive invariant.
TradeInv ==
    /\ TradeTypeOK
    /\ OffersPaired
    /\ Acyclic(parent)
    /\ NoneNested(parent, tradeItems)
    /\ OffersStand(parent, place, tradeItem, offered)

LEMMA TradeNames ==
  /\ None \notin Trader /\ None \notin Item /\ None # Floor
  /\ Floor \notin Trader /\ Floor \notin Item
  /\ Bag \subseteq Item /\ Trader \cap Item = {}
  /\ Place \subseteq Int /\ FloorAt \in Int
  BY TradeAssumption

LEMMA NoDistance == \A x \in Int : Distance(x, x) <= 1
  BY DEF Distance

\* What player r offers lies with him or on the floor next to him.
LEMMA KeptIsNear ==
  ASSUME NEW at, NEW r \in Trader, NEW t, place \in [Trader -> Place], Keeps(at, place[r], r, t)
  PROVE  TopIn(at, t) \in {r, Floor} /\ Distance(ItemPlace(at, t), place[r]) <= 1
<1>1. place[r] \in Int /\ r # Floor
  BY TradeNames
<1>2. CASE TopIn(at, t) = r
  <2>1. ItemPlace(at, t) = place[r]
    BY <1>1, <1>2 DEF ItemPlace
  <2> QED
    BY <1>1, <1>2, <2>1, NoDistance
<1>3. CASE TopIn(at, t) = Floor /\ Distance(FloorAt, place[r]) <= 1
  BY <1>3 DEF ItemPlace
<1> QED
  BY <1>2, <1>3 DEF Keeps

LEMMA TradeStarts == TradeInit => TradeInv
<1> SUFFICES ASSUME TradeInit
             PROVE  TradeInv
  OBVIOUS
<1>1. TradeTypeOK
  BY TradeNames DEF TradeInit, TradeTypeOK
<1>2. OffersPaired
  BY TradeNames DEF TradeInit, OffersPaired
<1>3. Acyclic(parent)
  BY DEF TradeInit, Acyclic
<1>4. NoneNested(parent, tradeItems) /\ OffersStand(parent, place, tradeItem, offered)
  BY DEF TradeInit, NoneNested, OffersStand
<1> QED
  BY <1>1, <1>2, <1>3, <1>4 DEF TradeInv

-----------------------------------------------------------------------------
(* Trades end.                                                             *)

\* Those whose trades end when the players of P close theirs.
Both(P) == P \cup {tradePartner[p] : p \in P}

\* Whoever is not one of them is not the partner of one.
LEMMA BothIsClosed ==
  ASSUME TradeTypeOK, OffersPaired, NEW P \in SUBSET Trader,
         NEW p \in Trader, NEW q \in Trader, tradePartner[p] = q
  PROVE  p \in Both(P) <=> q \in Both(P)
<1>1. tradePartner[q] = p
  BY DEF OffersPaired
<1>2. ASSUME NEW x \in Trader, NEW y \in Trader, tradePartner[x] = y, tradePartner[y] = x, x \in Both(P)
      PROVE  y \in Both(P)
  <2>1. CASE x \in P
    BY <1>2, <2>1 DEF Both
  <2>2. ASSUME NEW z \in P, x = tradePartner[z]
        PROVE  y \in Both(P)
    <3>1. z \in Trader
      OBVIOUS
    <3>2. tradePartner[x] = z
      BY <2>2, <3>1 DEF OffersPaired
    <3> QED
      BY <1>2, <3>2 DEF Both
  <2> QED
    BY <1>2, <2>1, <2>2 DEF Both
<1> QED
  BY <1>1, <1>2

\* What of the trades is left.
LEMMA EndingIs ==
  ASSUME TradeTypeOK, OffersPaired, NEW P \in SUBSET Trader, EndTrades(P)
  PROVE  /\ tradeState' \in [Trader -> {"none", "initiated", "accept", "acknowledge"}]
         /\ tradePartner' \in [Trader -> Trader \cup {None}]
         /\ tradeItem' \in [Trader -> Item \cup {None}]
         /\ tradeItems' \in [Item -> Trader \cup {None}]
         /\ offered' \in [Trader -> SUBSET Item]
         /\ \A p \in Both(P) \cap Trader :
              /\ tradeState'[p] = "none" /\ tradePartner'[p] = None
              /\ tradeItem'[p] = None /\ offered'[p] = {}
         /\ \A p \in Trader \ Both(P) :
              /\ tradeState'[p] = tradeState[p] /\ tradePartner'[p] = tradePartner[p]
              /\ tradeItem'[p] = tradeItem[p] /\ offered'[p] = offered[p]
         /\ \A i \in Item : tradeItems'[i] = IF tradeItems[i] \in Both(P) THEN None ELSE tradeItems[i]
<1>1. /\ tradeState \in [Trader -> {"none", "initiated", "accept", "acknowledge"}]
      /\ tradePartner \in [Trader -> Trader \cup {None}]
      /\ tradeItem \in [Trader -> Item \cup {None}]
      /\ tradeItems \in [Item -> Trader \cup {None}]
      /\ offered \in [Trader -> SUBSET Item]
  BY DEF TradeTypeOK
<1>2. /\ tradeState' = [p \in Trader |-> IF p \in Both(P) THEN "none" ELSE tradeState[p]]
      /\ tradePartner' = [p \in Trader |-> IF p \in Both(P) THEN None ELSE tradePartner[p]]
      /\ tradeItem' = [p \in Trader |-> IF p \in Both(P) THEN None ELSE tradeItem[p]]
      /\ tradeItems' = [i \in Item |->
           IF i \in {tradeItem[p] : p \in Both(P) \cap Trader} THEN None ELSE tradeItems[i]]
      /\ offered' = [p \in Trader |-> IF p \in Both(P) THEN {} ELSE offered[p]]
  BY DEF EndTrades, Both
<1>3. ASSUME NEW i \in Item
      PROVE  tradeItems'[i] = IF tradeItems[i] \in Both(P) THEN None ELSE tradeItems[i]
  <2>1. tradeItems'[i] = IF \E p \in Both(P) \cap Trader : tradeItem[p] = i THEN None ELSE tradeItems[i]
    BY <1>2
  <2>2. \A p \in Trader : tradeItem[p] = i <=> tradeItems[i] = p
    BY DEF OffersPaired
  <2>3. tradeItems[i] \in Trader \cup {None}
    BY <1>1
  <2> QED
    BY <2>1, <2>2, <2>3
<1> QED
  BY <1>1, <1>2, <1>3

\* Trades are paired, and the register is exact, however many end.
LEMMA EndingKeepsPairs ==
  ASSUME TradeTypeOK, OffersPaired, NEW P \in SUBSET Trader, EndTrades(P)
  PROVE  OffersPaired' /\ itemRefs' \in [Item -> 0 .. 1]
<1> DEFINE B == Both(P)
<1>1. /\ \A p \in B \cap Trader :
           tradeState'[p] = "none" /\ tradePartner'[p] = None /\ tradeItem'[p] = None
      /\ \A p \in Trader \ B :
           /\ tradeState'[p] = tradeState[p] /\ tradePartner'[p] = tradePartner[p]
           /\ tradeItem'[p] = tradeItem[p]
      /\ \A i \in Item : tradeItems'[i] = IF tradeItems[i] \in B THEN None ELSE tradeItems[i]
  BY EndingIs
<1>2. \A p, q \in Trader : tradePartner[p] = q => (p \in B <=> q \in B)
  BY BothIsClosed
<1>3. /\ tradePartner \in [Trader -> Trader \cup {None}]
      /\ tradeItem \in [Trader -> Item \cup {None}]
      /\ tradeItems \in [Item -> Trader \cup {None}]
      /\ itemRefs \in [Item -> 0 .. 1]
  BY DEF TradeTypeOK
<1>4. \A i \in Item : itemRefs'[i] = IF tradeItems[i] \in B /\ tradeItems[i] # None
                                    THEN itemRefs[i] - 1 ELSE itemRefs[i]
  <2>1. itemRefs' = [i \in Item |->
          IF i \in {tradeItem[p] : p \in B \cap Trader} /\ tradeItems[i] # None
          THEN itemRefs[i] - 1 ELSE itemRefs[i]]
    BY DEF EndTrades, Both
  <2>2. ASSUME NEW i \in Item
        PROVE  i \in {tradeItem[p] : p \in B \cap Trader} <=> tradeItems[i] \in B /\ tradeItems[i] # None
    <3>1. \A p \in Trader : tradeItem[p] = i <=> tradeItems[i] = p
      BY DEF OffersPaired
    <3>2. tradeItems[i] # None => tradeItems[i] \in Trader
      BY <1>3
    <3>3. None \notin Trader
      BY TradeNames
    <3> QED
      BY <3>1, <3>2, <3>3
  <2> QED
    BY <2>1, <2>2
<1>5. itemRefs' = [i \in Item |-> itemRefs'[i]]
  BY DEF EndTrades
<1> HIDE DEF B
<1>6. ASSUME NEW i \in Item
      PROVE  itemRefs'[i] = IF tradeItems'[i] # None THEN 1 ELSE 0
  <2>1. itemRefs[i] = IF tradeItems[i] # None THEN 1 ELSE 0
    BY DEF OffersPaired
  <2> QED
    BY <1>1, <1>4, <2>1
<1>7. itemRefs' \in [Item -> 0 .. 1]
  BY <1>5, <1>6
<1>8. \A p, q \in Trader : tradePartner'[p] = q <=> tradePartner'[q] = p
  <2> SUFFICES ASSUME NEW p \in Trader, NEW q \in Trader, tradePartner'[p] = q
               PROVE  tradePartner'[q] = p
    OBVIOUS
  <2>1. p \notin B /\ tradePartner[p] = q
    BY <1>1, TradeNames
  <2>2. q \notin B
    BY <1>2, <2>1
  <2>3. tradePartner[q] = p
    BY <2>1 DEF OffersPaired
  <2> QED
    BY <1>1, <2>2, <2>3
<1>9. ASSUME NEW p \in Trader
      PROVE  /\ tradeState'[p] = "none" <=> tradePartner'[p] = None
             /\ tradeItem'[p] # None => tradeState'[p] \in {"initiated", "accept"}
             /\ tradeState'[p] = "acknowledge" => tradeItem'[tradePartner'[p]] # None
  <2>1. CASE p \in B
    BY <1>1, <2>1
  <2>2. CASE p \notin B
    <3>1. /\ tradeState'[p] = tradeState[p] /\ tradePartner'[p] = tradePartner[p]
          /\ tradeItem'[p] = tradeItem[p]
      BY <1>1, <2>2
    <3>2. /\ tradeState[p] = "none" <=> tradePartner[p] = None
          /\ tradeItem[p] # None => tradeState[p] \in {"initiated", "accept"}
          /\ tradeState[p] = "acknowledge" => tradeItem[tradePartner[p]] # None
      BY DEF OffersPaired
    <3>3. ASSUME tradeState[p] = "acknowledge"
          PROVE  tradeItem'[tradePartner[p]] # None
      <4>1. tradePartner[p] \in Trader
        BY <1>3, <3>2, <3>3
      <4>2. tradePartner[p] \notin B
        BY <1>2, <2>2, <4>1
      <4> QED
        BY <1>1, <3>2, <3>3, <4>1, <4>2
    <3> QED
      BY <3>1, <3>2, <3>3
  <2> QED
    BY <2>1, <2>2
<1>10. \A i \in Item : \A p \in Trader : tradeItems'[i] = p <=> tradeItem'[p] = i
  <2> SUFFICES ASSUME NEW i \in Item, NEW p \in Trader
               PROVE  tradeItems'[i] = p <=> tradeItem'[p] = i
    OBVIOUS
  <2>1. tradeItems[i] = p <=> tradeItem[p] = i
    BY DEF OffersPaired
  <2>2. None # p /\ None # i
    BY TradeNames
  <2>3. CASE p \in B
    BY <1>1, <2>1, <2>2, <2>3
  <2>4. CASE p \notin B
    BY <1>1, <2>1, <2>2, <2>4
  <2> QED
    BY <2>3, <2>4
<1> QED
  BY <1>6, <1>7, <1>8, <1>9, <1>10 DEF OffersPaired

-----------------------------------------------------------------------------
(* The actions.                                                            *)

\* Things move, and some trades end: it is enough that what is on offer in the
\* others is as it was.
LEMMA EndingKeeps ==
  ASSUME TradeInv, NEW P \in SUBSET Trader, EndTrades(P),
         place' \in [Trader -> Place], parent' \in Lies, Acyclic(parent'),
         \A r \in Trader : tradeItem[r] # None /\ r \notin Both(P)
            => /\ Within(parent', tradeItem[r]) = Within(parent, tradeItem[r])
               /\ Keeps(parent', place'[r], r, tradeItem[r])
  PROVE  TradeInv'
<1>1. TradeTypeOK /\ OffersPaired
  BY DEF TradeInv
<1>2. OffersPaired' /\ itemRefs' \in [Item -> 0 .. 1]
  BY <1>1, EndingKeepsPairs
<1>3. TradeTypeOK'
  BY <1>1, <1>2, EndingIs DEF TradeTypeOK, Lies
<1>4. ASSUME NEW r \in Trader, tradeItem'[r] # None
      PROVE  /\ Stands(parent', place'[r], r, tradeItem'[r], offered'[r])
             /\ tradeItem[r] = tradeItem'[r]
             /\ Within(parent', tradeItem[r]) = Within(parent, tradeItem[r])
  <2>1. r \notin Both(P)
    BY <1>1, <1>4, EndingIs
  <2>2. tradeItem'[r] = tradeItem[r] /\ offered'[r] = offered[r]
    BY <1>1, <2>1, EndingIs
  <2>3. Within(parent, tradeItem[r]) = offered[r]
    BY <1>4, <2>2 DEF TradeInv, OffersStand, Stands
  <2> QED
    BY <1>4, <2>1, <2>2, <2>3 DEF Stands
<1>5. NoneNested(parent', tradeItems')
  <2>1. ASSUME NEW t \in Item, NEW u \in Item, tradeItems'[t] # None, tradeItems'[u] # None,
               t \in AncestorsIn(parent', u)
        PROVE  FALSE
    <3>1. tradeItems[t] # None /\ tradeItems[u] # None
      BY <1>1, <2>1, EndingIs
    <3>2. PICK r \in Trader : tradeItem'[r] = t
      BY <1>2, <1>3, <2>1 DEF OffersPaired, TradeTypeOK
    <3>3. Within(parent', t) = Within(parent, t)
      BY <1>4, <3>2, TradeNames
    <3>4. t \in AncestorsIn(parent, u)
      BY <2>1, <3>3 DEF Within
    <3> QED
      BY <3>1, <3>4 DEF TradeInv, NoneNested
  <2> QED
    BY <2>1 DEF NoneNested
<1>6. OffersStand(parent', place', tradeItem', offered')
  BY <1>4 DEF OffersStand
<1> QED
  BY <1>2, <1>3, <1>5, <1>6 DEF TradeInv

\* What is on offer now.
LEMMA OnOffer ==
  ASSUME TradeInv, NEW r \in Trader, tradeItem[r] # None
  PROVE  /\ tradeItem[r] \in Item /\ tradeItems[tradeItem[r]] = r
         /\ Within(parent, tradeItem[r]) = offered[r]
         /\ Keeps(parent, place[r], r, tradeItem[r])
<1>1. tradeItem[r] \in Item
  BY DEF TradeInv, TradeTypeOK
<1>2. tradeItems[tradeItem[r]] = r
  BY <1>1 DEF TradeInv, OffersPaired
<1> QED
  BY <1>1, <1>2 DEF TradeInv, OffersStand, Stands

LEMMA TradeParts ==
  ASSUME TradeInv
  PROVE  /\ parent \in Lies /\ Acyclic(parent) /\ place \in [Trader -> Place]
         /\ TradeTypeOK /\ OffersPaired
  BY DEF TradeInv, TradeTypeOK, Lies

LEMMA CloseKeeps ==
  ASSUME TradeInv, NEW p \in Trader, EndTrades({p}), UNCHANGED <<place, parent>>
  PROVE  TradeInv'
<1>1. \A r \in Trader : tradeItem[r] # None =>
        /\ Within(parent', tradeItem[r]) = Within(parent, tradeItem[r])
        /\ Keeps(parent', place'[r], r, tradeItem[r])
  BY OnOffer
<1> QED
  BY <1>1, TradeParts, EndingKeeps

LEMMA RequestKeeps ==
  ASSUME TradeInv, NEW p \in Trader, NEW q \in Trader, NEW i \in Item, RequestTrade(p, q, i)
  PROVE  TradeInv'
<1>1. TradeTypeOK /\ OffersPaired /\ parent \in Lies
  BY TradeParts
<1>2. /\ tradeState \in [Trader -> {"none", "initiated", "accept", "acknowledge"}]
      /\ tradePartner \in [Trader -> Trader \cup {None}]
      /\ tradeItem \in [Trader -> Item \cup {None}]
      /\ tradeItems \in [Item -> Trader \cup {None}]
      /\ itemRefs \in [Item -> 0 .. 1]
      /\ offered \in [Trader -> SUBSET Item]
  BY <1>1 DEF TradeTypeOK
<1>3. /\ p # q /\ ~Overlaps(i) /\ MayStart(p, q)
      /\ UNCHANGED <<place, parent>>
      /\ tradePartner' = [tradePartner EXCEPT ![p] = q,
                              ![q] = IF tradeState[q] = "none" THEN p ELSE @]
      /\ tradeState' = [tradeState EXCEPT ![p] = "initiated",
                            ![q] = IF @ = "none" THEN "acknowledge" ELSE @]
      /\ tradeItem' = [tradeItem EXCEPT ![p] = i]
      /\ tradeItems' = [tradeItems EXCEPT ![i] = p]
      /\ itemRefs' = [itemRefs EXCEPT ![i] = @ + 1]
      /\ offered' = [offered EXCEPT ![p] = Contents(i)]
  BY DEF RequestTrade
\* The two are free, or trade with each other already.
<1>4. /\ tradePartner[p] \in {None, q} /\ tradePartner[q] \in {None, p}
      /\ tradeState[q] = "none" <=> tradePartner[q] = None
      /\ tradePartner[p] = q <=> tradePartner[q] = p
      /\ tradeItem[p] = None
      /\ tradeState[p] \in {"none", "acknowledge"}
  <2>1. /\ tradeState[q] = "none" <=> tradePartner[q] = None
        /\ tradeState[p] = "none" <=> tradePartner[p] = None
        /\ tradePartner[p] = q <=> tradePartner[q] = p
        /\ tradeItem[p] # None => tradeState[p] \in {"initiated", "accept"}
    BY <1>1 DEF OffersPaired
  <2> QED
    BY <1>3, <2>1 DEF MayStart
<1>5. tradeItems[i] = None
  BY <1>3 DEF Overlaps
<1>6. /\ \A r \in Trader : tradePartner'[r] = IF r = p THEN q ELSE IF r = q THEN p ELSE tradePartner[r]
      /\ \A r \in Trader : tradeState'[r] = IF r = p THEN "initiated"
                                            ELSE IF r = q /\ tradeState[q] = "none" THEN "acknowledge"
                                            ELSE tradeState[r]
      /\ \A r \in Trader : tradeItem'[r] = IF r = p THEN i ELSE tradeItem[r]
      /\ \A r \in Trader : offered'[r] = IF r = p THEN Contents(i) ELSE offered[r]
      /\ \A t \in Item : tradeItems'[t] = IF t = i THEN p ELSE tradeItems[t]
      /\ \A t \in Item : itemRefs'[t] = IF t = i THEN itemRefs[i] + 1 ELSE itemRefs[t]
  BY <1>2, <1>3, <1>4
<1>7. itemRefs[i] = 0
  BY <1>1, <1>5 DEF OffersPaired
<1>8. TradeTypeOK'
  <2>1. Contents(i) \in SUBSET Item
    BY DEF Contents
  <2>2. itemRefs' \in [Item -> 0 .. 1]
    BY <1>2, <1>3, <1>6, <1>7
  <2>3. /\ tradeState' \in [Trader -> {"none", "initiated", "accept", "acknowledge"}]
        /\ tradePartner' \in [Trader -> Trader \cup {None}]
    BY <1>2, <1>3
  <2>4. /\ tradeItem' \in [Trader -> Item \cup {None}]
        /\ tradeItems' \in [Item -> Trader \cup {None}]
        /\ offered' \in [Trader -> SUBSET Item]
    BY <1>2, <1>3, <2>1
  <2> QED
    BY <1>1, <1>3, <2>2, <2>3, <2>4 DEF TradeTypeOK
<1>9. OffersPaired'
  <2>1. \A r, s \in Trader : tradePartner'[r] = s => tradePartner'[s] = r
    <3> SUFFICES ASSUME NEW r \in Trader, NEW s \in Trader, tradePartner'[r] = s
                 PROVE  tradePartner'[s] = r
      OBVIOUS
    <3>1. tradePartner[r] = s <=> tradePartner[s] = r
      BY <1>1 DEF OffersPaired
    <3>2. /\ tradePartner[p] = s <=> tradePartner[s] = p
          /\ tradePartner[q] = s <=> tradePartner[s] = q
      BY <1>1 DEF OffersPaired
    <3>3. None # r /\ None # s
      BY TradeNames
    <3>4. CASE r = p \/ r = q
      BY <1>3, <1>6, <3>4
    <3>5. CASE r # p /\ r # q
      <4>1. tradePartner[r] = s /\ tradePartner[s] = r
        BY <1>6, <3>1, <3>5
      <4>2. s # p /\ s # q
        BY <1>4, <3>3, <3>5, <4>1
      <4> QED
        BY <1>6, <4>1, <4>2
    <3> QED
      BY <3>4, <3>5
  <2>2. ASSUME NEW r \in Trader
        PROVE  /\ tradeState'[r] = "none" <=> tradePartner'[r] = None
               /\ tradeItem'[r] # None => tradeState'[r] \in {"initiated", "accept"}
               /\ tradeState'[r] = "acknowledge" => tradeItem'[tradePartner'[r]] # None
    <3>1. /\ tradeState[r] = "none" <=> tradePartner[r] = None
          /\ tradeItem[r] # None => tradeState[r] \in {"initiated", "accept"}
          /\ tradeState[r] = "acknowledge" => tradeItem[tradePartner[r]] # None
      BY <1>1 DEF OffersPaired
    <3>2. None # p /\ None # q /\ None # i
      BY TradeNames
    <3>3. CASE r = p
      BY <1>6, <3>2, <3>3
    <3>4. CASE r = q
      <4>0. tradePartner'[q] = p /\ tradeItem'[p] = i
        BY <1>3, <1>6
      <4>1. tradeItem'[tradePartner'[r]] # None
        BY <3>2, <3>4, <4>0
      <4>5. tradeState'[q] = IF tradeState[q] = "none" THEN "acknowledge" ELSE tradeState[q]
        BY <1>3, <1>6
      <4>2. tradePartner'[r] # None /\ tradeState'[r] # "none"
        BY <3>2, <3>4, <4>0, <4>5
      <4>3. tradeItem'[r] = tradeItem[r]
        BY <1>3, <1>6, <3>4
      <4>4. tradeItem[r] # None => tradeState'[r] \in {"initiated", "accept"}
        BY <1>3, <1>6, <3>1, <3>4
      <4> QED
        BY <4>1, <4>2, <4>3, <4>4
    <3>5. CASE r # p /\ r # q
      <4>1. /\ tradeState'[r] = tradeState[r] /\ tradePartner'[r] = tradePartner[r]
            /\ tradeItem'[r] = tradeItem[r]
        BY <1>6, <3>5
      <4>2. ASSUME tradeState[r] = "acknowledge"
            PROVE  tradeItem'[tradePartner[r]] # None
        <5>1. tradePartner[r] \in Trader /\ tradeItem[tradePartner[r]] # None
          BY <1>2, <3>1, <4>2
        <5> QED
          BY <1>6, <3>2, <5>1
      <4> QED
        BY <3>1, <4>1, <4>2
    <3> QED
      BY <3>3, <3>4, <3>5
  <2>3. ASSUME NEW t \in Item
        PROVE  /\ itemRefs'[t] = IF tradeItems'[t] # None THEN 1 ELSE 0
               /\ \A r \in Trader : tradeItems'[t] = r <=> tradeItem'[r] = t
    <3>1. /\ itemRefs[t] = IF tradeItems[t] # None THEN 1 ELSE 0
          /\ \A r \in Trader : tradeItems[t] = r <=> tradeItem[r] = t
      BY <1>1 DEF OffersPaired
    <3>2. None # p /\ None # t /\ \A r \in Trader : r # None
      BY TradeNames
    <3>3. CASE t = i
      BY <1>5, <1>6, <1>7, <3>1, <3>2, <3>3
    <3>4. CASE t # i
      BY <1>4, <1>6, <3>1, <3>2, <3>4
    <3> QED
      BY <3>3, <3>4
  <2> QED
    BY <2>1, <2>2, <2>3 DEF OffersPaired
<1>10. Contents(i) = Within(parent, i)
  BY DEF Contents, HoldsItem, Ancestors, Within
<1>11. NoneNested(parent', tradeItems')
  <2>1. ASSUME NEW t \in Item, NEW u \in Item, tradeItems'[t] # None, tradeItems'[u] # None
        PROVE  t \notin AncestorsIn(parent, u)
    <3>1. CASE t = i /\ u = i
      BY <3>1 DEF TradeInv, Acyclic
    <3>2. CASE t = i /\ u # i
      <4>1. tradeItems[u] # None
        BY <1>6, <2>1, <3>2
      <4> QED
        BY <1>3, <3>2, <4>1 DEF Overlaps, HoldsItem, Ancestors
    <3>3. CASE t # i /\ u = i
      <4>1. tradeItems[t] # None
        BY <1>6, <2>1, <3>3
      <4> QED
        BY <1>3, <3>3, <4>1 DEF Overlaps, HoldsItem, Ancestors
    <3>4. CASE t # i /\ u # i
      BY <1>6, <2>1, <3>4 DEF TradeInv, NoneNested
    <3> QED
      BY <3>1, <3>2, <3>3, <3>4
  <2> QED
    BY <1>3, <2>1 DEF NoneNested
<1>12. Keeps(parent, place[p], p, i)
  <2>1. /\ TopIn(parent, i) \in {p, Floor}
        /\ Distance(ItemPlace(parent, i), place[p]) <= 1
    BY DEF RequestTrade
  <2> QED
    BY <2>1 DEF Keeps, ItemPlace
<1>13. OffersStand(parent', place', tradeItem', offered')
  <2>1. ASSUME NEW r \in Trader, tradeItem'[r] # None
        PROVE  Stands(parent, place[r], r, tradeItem'[r], offered'[r])
    <3>1. CASE r = p
      BY <1>6, <1>10, <1>12, <3>1 DEF Stands
    <3>2. CASE r # p
      BY <1>6, <2>1, <3>2 DEF TradeInv, OffersStand
    <3> QED
      BY <3>1, <3>2
  <2> QED
    BY <1>3, <2>1 DEF OffersStand
<1>14. Acyclic(parent')
  BY <1>3 DEF TradeInv
<1> QED
  BY <1>8, <1>9, <1>11, <1>13, <1>14 DEF TradeInv

LEMMA AcceptFirstKeeps ==
  ASSUME TradeInv, NEW p \in Trader, AcceptFirst(p)
  PROVE  TradeInv'
<1>1. TradeTypeOK /\ OffersPaired
  BY TradeParts
<1>2. /\ tradeState[p] \in {"acknowledge", "initiated"}
      /\ tradeState' = [tradeState EXCEPT ![p] = "accept"]
      /\ UNCHANGED <<place, parent, tradePartner, tradeItem, tradeItems, itemRefs, offered>>
  BY DEF AcceptFirst
<1>3. tradeState \in [Trader -> {"none", "initiated", "accept", "acknowledge"}]
  BY <1>1 DEF TradeTypeOK
<1>4. \A r \in Trader : tradeState'[r] = IF r = p THEN "accept" ELSE tradeState[r]
  BY <1>2, <1>3
<1>5. TradeTypeOK'
  <2>1. tradeState' \in [Trader -> {"none", "initiated", "accept", "acknowledge"}]
    BY <1>2, <1>3
  <2> QED
    BY <1>1, <1>2, <2>1 DEF TradeTypeOK
<1>6. ASSUME NEW r \in Trader
      PROVE  /\ tradeState'[r] = "none" <=> tradePartner'[r] = None
             /\ tradeItem'[r] # None => tradeState'[r] \in {"initiated", "accept"}
             /\ tradeState'[r] = "acknowledge" => tradeItem'[tradePartner'[r]] # None
  <2>1. /\ tradeState[r] = "none" <=> tradePartner[r] = None
        /\ tradeItem[r] # None => tradeState[r] \in {"initiated", "accept"}
        /\ tradeState[r] = "acknowledge" => tradeItem[tradePartner[r]] # None
    BY <1>1 DEF OffersPaired
  <2> QED
    BY <1>2, <1>4, <2>1
<1>7. OffersPaired'
  BY <1>1, <1>2, <1>6 DEF OffersPaired
<1> QED
  BY <1>2, <1>5, <1>7 DEF TradeInv, OffersStand, Stands

LEMMA WalkKeeps ==
  ASSUME TradeInv, NEW p \in Trader, NEW at \in Place, Walk(p, at)
  PROVE  TradeInv'
<1> DEFINE P == IF OutOfRange(p, at) THEN {p} ELSE {}
<1>1. /\ parent \in Lies /\ Acyclic(parent) /\ place \in [Trader -> Place]
  BY TradeParts
<1>2. EndTrades(P) /\ place' = [place EXCEPT ![p] = at] /\ parent' = parent
  BY DEF Walk
<1>3. P \in SUBSET Trader /\ (p \notin P => ~OutOfRange(p, at))
  OBVIOUS
<1> HIDE DEF P
<1>4. place' \in [Trader -> Place] /\ \A r \in Trader : place'[r] = IF r = p THEN at ELSE place[r]
  BY <1>1, <1>2
<1>5. ASSUME NEW r \in Trader, tradeItem[r] # None, r \notin Both(P)
      PROVE  /\ Within(parent', tradeItem[r]) = Within(parent, tradeItem[r])
             /\ Keeps(parent', place'[r], r, tradeItem[r])
  <2>1. Keeps(parent, place[r], r, tradeItem[r])
    BY <1>5, OnOffer
  <2>2. CASE r = p
    <3>1. ~OutOfRange(p, at)
      BY <1>3, <1>5, <2>2 DEF Both
    <3>2. TopIn(parent, tradeItem[p]) = Floor => ~(Distance(FloorAt, at) > 1)
      BY <1>5, <2>2, <3>1 DEF OutOfRange
    <3>3. Distance(FloorAt, at) \in Int
      BY TradeNames DEF Distance
    <3>4. TopIn(parent, tradeItem[p]) = Floor => Distance(FloorAt, at) <= 1
      BY <3>2, <3>3
    <3> QED
      BY <1>2, <1>4, <2>1, <2>2, <3>4 DEF Keeps
  <2>3. CASE r # p
    BY <1>2, <1>4, <2>1, <2>3
  <2> QED
    BY <1>2, <2>2, <2>3
<1> QED
  BY <1>1, <1>2, <1>3, <1>4, <1>5, EndingKeeps

\* What is on offer is as it was when something is moved that is neither it,
\* nor around it, nor in it before or after.
LEMMA MoveIsApart ==
  ASSUME NEW at \in Lies, NEW i \in Item, NEW to \in Trader \cup Bag \cup {Floor},
         NEW t \in Item, t # i, i \notin AncestorsIn(at, t),
         t \notin AncestorsIn(at, i), t \notin AncestorsIn(Moved(at, i, to), i)
  PROVE  /\ Within(Moved(at, i, to), t) = Within(at, t)
         /\ AncestorsIn(Moved(at, i, to), t) = AncestorsIn(at, t)
         /\ TopIn(Moved(at, i, to), t) = TopIn(at, t)
<1> DEFINE new == Moved(at, i, to)
<1>1. new \in Lies /\ \A x \in Item : x # i => new[x] = at[x]
  BY MovedIs
<1>2. t \notin AncestorsIn(new, i)
  OBVIOUS
<1> HIDE DEF new
<1>3. AncestorsIn(new, t) = AncestorsIn(at, t) /\ TopIn(new, t) = TopIn(at, t)
  BY <1>1, OthersStay
<1>4. ASSUME NEW j \in Item
      PROVE  t \in AncestorsIn(new, j) <=> t \in AncestorsIn(at, j)
  <2>1. AncestorsIn(at, j) \subseteq AncestorsIn(new, j) \cup AncestorsIn(at, i)
    BY <1>1, AroundMoves
  <2>2. AncestorsIn(new, j) \subseteq AncestorsIn(at, j) \cup AncestorsIn(new, i)
    <3>1. \A x \in Item : x # i => at[x] = new[x]
      BY <1>1
    <3> QED
      BY <1>1, <3>1, AroundMoves
  <2> QED
    BY <1>2, <2>1, <2>2
<1>5. Within(new, t) = Within(at, t)
  BY <1>4 DEF Within
<1> QED
  BY <1>3, <1>5 DEF new

\* A thing in a bag, or the bag itself.
LEMMA InsideIsCarried ==
  ASSUME NEW at \in Lies, NEW b \in Item, NEW t \in {b} \cup AncestorsIn(at, b)
  PROVE  TopIn(at, t) = TopIn(at, b)
  BY CarriedTogether

\* Where a thing is depends on who carries it only.
LEMMA SamePlace ==
  ASSUME NEW at, NEW new, NEW x, NEW y, TopIn(at, x) = TopIn(new, y)
  PROVE  ItemPlace(at, x) = ItemPlace(new, y)
  BY DEF ItemPlace

\* Whoever offers what is moved, what is in it, or what it is put into, notices.
LEMMA UnnoticedIsApart ==
  ASSUME TradeInv, NEW i \in Item, NEW to \in Trader \cup Bag \cup {Floor}, Free(parent, i, to),
         NEW r \in Trader, tradeItem[r] # None, ~Noticed(r, i, Moved(parent, i, to))
  PROVE  LET t == tradeItem[r] IN
         /\ t # i /\ i \notin AncestorsIn(parent, t)
         /\ t \notin AncestorsIn(parent, i) /\ t \notin AncestorsIn(Moved(parent, i, to), i)
<1> DEFINE new == Moved(parent, i, to)
           t == tradeItem[r]
           from == parent[i]
<1>1. parent \in Lies /\ Acyclic(parent) /\ place \in [Trader -> Place]
  BY TradeParts
<1>2. t \in Item /\ Keeps(parent, place[r], r, t)
  BY OnOffer
<1>3. TopIn(parent, t) \in {r, Floor} /\ Distance(ItemPlace(parent, t), place[r]) <= 1
  BY <1>1, <1>2, KeptIsNear
<1>4. /\ ~(from \in {Floor, r} /\ (t = i \/ HoldsItem(i, t)))
      /\ ~(from \in Bag /\ Distance(ItemPlace(parent, from), place[r]) <= 1
             /\ (t = i \/ HoldsItem(t, i) \/ (parent[t] # from /\ HoldsItem(from, t))))
      /\ ~(to \in Bag /\ Distance(ItemPlace(new, to), place[r]) <= 1
             /\ (t = i \/ t \in AncestorsIn(new, i)))
  <2>1. new[i] = to
    BY <1>1, MovedIs
  <2> QED
    BY <2>1 DEF Noticed
<1>5. /\ HoldsItem(i, t) <=> i \in AncestorsIn(parent, t)
      /\ HoldsItem(t, i) <=> t \in AncestorsIn(parent, i)
      /\ HoldsItem(from, t) <=> from \in AncestorsIn(parent, t)
  BY DEF HoldsItem, Ancestors
<1>6. from \in Trader \cup Bag \cup {Floor} /\ (from \in Bag => from \in Item)
  BY <1>1, TradeNames DEF Lies
<1> HIDE DEF new, t, from
<1>7. from \in Bag /\ TopIn(parent, t) = TopIn(parent, i)
        => Distance(ItemPlace(parent, from), place[r]) <= 1
  <2> SUFFICES ASSUME from \in Bag, TopIn(parent, t) = TopIn(parent, i)
               PROVE  Distance(ItemPlace(parent, from), place[r]) <= 1
    OBVIOUS
  <2>1. TopIn(parent, i) = TopIn(parent, from)
    BY <1>1, TopStep DEF from
  <2>2. ItemPlace(parent, from) = ItemPlace(parent, t)
    BY <2>1, SamePlace
  <2> QED
    BY <1>3, <2>2
<1>8. ASSUME t = i \/ i \in AncestorsIn(parent, t)
      PROVE  FALSE
  <2>1. TopIn(parent, t) = TopIn(parent, i)
    BY <1>1, <1>2, <1>8, CarriedTogether
  <2>2. from \notin {Floor, r}
    BY <1>4, <1>5, <1>8
  <2>3. from \in Bag
    <3>1. ASSUME from \notin Bag
          PROVE  FALSE
      <4>1. TopIn(parent, i) = from
        BY <1>1, <3>1, TopStep DEF from
      <4> QED
        BY <1>3, <2>1, <2>2, <4>1
    <3> QED
      BY <3>1
  <2>4. Distance(ItemPlace(parent, from), place[r]) <= 1
    BY <1>7, <2>1, <2>3
  <2>5. t # i
    BY <1>4, <2>3, <2>4
  <2>6. i \in AncestorsIn(parent, t) /\ from \in AncestorsIn(parent, t)
    BY <1>1, <1>2, <1>8, <2>3, <2>5, UpIsAround DEF from
  <2>7. parent[t] # from
    <3>1. ASSUME parent[t] = from
          PROVE  FALSE
      <4>1. AncestorsIn(parent, t) = {from} \cup AncestorsIn(parent, from)
        BY <1>1, <1>2, <2>3, <3>1, AroundStep
      <4>2. AncestorsIn(parent, i) = {from} \cup AncestorsIn(parent, from)
        BY <1>1, <2>3, AroundStep DEF from
      <4>3. i \in AncestorsIn(parent, i)
        BY <2>6, <4>1, <4>2
      <4> QED
        BY <1>1, <4>3 DEF Acyclic
    <3> QED
      BY <3>1
  <2> QED
    BY <1>4, <1>5, <2>3, <2>4, <2>6, <2>7
<1>9. t \notin AncestorsIn(parent, i)
  <2>1. ASSUME t \in AncestorsIn(parent, i)
        PROVE  FALSE
    <3>1. from \in Bag
      BY <1>1, <2>1, AroundStep DEF from
    <3>2. TopIn(parent, t) = TopIn(parent, i)
      BY <1>1, <2>1, CarriedTogether
    <3> QED
      BY <1>4, <1>5, <1>7, <2>1, <3>1, <3>2
  <2> QED
    BY <2>1
<1>10. t \notin AncestorsIn(new, i)
  <2>1. ASSUME t \in AncestorsIn(new, i)
        PROVE  FALSE
    <3>1. to \in Bag
      BY <1>1, <2>1, PutThere DEF new
    <3>2. AncestorsIn(new, i) = {to} \cup AncestorsIn(parent, to) /\ TopIn(new, to) = TopIn(parent, to)
      BY <1>1, <3>1, PutThere DEF new
    <3>3. TopIn(parent, t) = TopIn(parent, to)
      BY <1>1, <2>1, <3>1, <3>2, InsideIsCarried, TradeNames
    <3>4. ItemPlace(new, to) = ItemPlace(parent, t)
      BY <3>2, <3>3, SamePlace
    <3> QED
      BY <1>3, <1>4, <2>1, <3>1, <3>4
  <2> QED
    BY <2>1
<1> QED
  BY <1>8, <1>9, <1>10 DEF new, t

LEMMA MoveKeeps ==
  ASSUME TradeInv, NEW p \in Trader, NEW i \in Item, NEW to \in Bag \cup {p, Floor},
         MoveItem(p, i, to)
  PROVE  TradeInv'
<1> DEFINE new == Moved(parent, i, to)
           P == Closing(i, new)
<1>1. /\ parent \in Lies /\ Acyclic(parent) /\ place \in [Trader -> Place]
  BY TradeParts
<1>2. /\ to # i /\ to \in Trader \cup Bag \cup {Floor}
      /\ to \in Bag => ~HoldsItem(i, to)
      /\ parent' = new /\ EndTrades(P) /\ place' = place
  BY DEF MoveItem, Moved
<1>3. Free(parent, i, to)
  BY <1>2 DEF Free, HoldsItem, Ancestors
<1>4. new \in Lies /\ Acyclic(new)
  BY <1>1, <1>2, <1>3, MovedIs, StaysAcyclic
<1>5. P \in SUBSET Trader /\ \A r \in Trader : r \notin P => ~Noticed(r, i, new)
  BY DEF Closing
<1> HIDE DEF P
<1>6. ASSUME NEW r \in Trader, tradeItem[r] # None, r \notin Both(P)
      PROVE  /\ Within(parent', tradeItem[r]) = Within(parent, tradeItem[r])
             /\ Keeps(parent', place'[r], r, tradeItem[r])
  <2>1. ~Noticed(r, i, new)
    BY <1>5, <1>6 DEF Both
  <2>2. tradeItem[r] \in Item /\ Keeps(parent, place[r], r, tradeItem[r])
    BY <1>6, OnOffer
  <2>3. PICK t \in Item : t = tradeItem[r]
    BY <2>2
  <2>4. /\ t # i /\ i \notin AncestorsIn(parent, t)
        /\ t \notin AncestorsIn(parent, i) /\ t \notin AncestorsIn(new, i)
    BY <1>2, <1>3, <1>6, <2>1, <2>3, UnnoticedIsApart
  <2>5. Within(new, t) = Within(parent, t) /\ TopIn(new, t) = TopIn(parent, t)
    BY <1>1, <1>2, <2>4, MoveIsApart
  <2> QED
    BY <1>2, <2>2, <2>3, <2>5 DEF Keeps
<1> QED
  BY <1>1, <1>2, <1>4, <1>5, <1>6, EndingKeeps

-----------------------------------------------------------------------------
(* The exchange.                                                           *)

\* There is room for an item at a player, and it is the player's when it is there.
LEMMA RoomIsWithPlayer ==
  ASSUME NEW at \in Lies, NEW q \in Trader, NEW i \in Item, NEW to \in RoomFor(at, q, i)
  PROVE  /\ to \in Trader \cup Bag \cup {Floor} /\ Free(at, i, to)
         /\ TopIn(Moved(at, i, to), i) = q
         /\ \A t \in AncestorsIn(Moved(at, i, to), i) : TopIn(at, t) = q
<1>1. \/ to = q
      \/ to \in Bag /\ TopIn(at, to) = q /\ to # i /\ i \notin AncestorsIn(at, to)
  BY DEF RoomFor
<1>2. q \notin Bag
  BY TradeNames
<1>3. to \in Trader \cup Bag \cup {Floor} /\ Free(at, i, to)
  BY <1>1, <1>2 DEF Free
<1>4. CASE to = q
  BY <1>2, <1>3, <1>4, PutThere
<1>5. CASE to \in Bag /\ TopIn(at, to) = q
  <2>1. AncestorsIn(Moved(at, i, to), i) = {to} \cup AncestorsIn(at, to) /\ TopIn(Moved(at, i, to), i) = q
    BY <1>3, <1>5, PutThere
  <2>2. to \in Item
    BY <1>5, TradeNames
  <2>3. \A t \in {to} \cup AncestorsIn(at, to) : TopIn(at, t) = q
    BY <1>5, <2>2, InsideIsCarried
  <2> QED
    BY <1>3, <2>1, <2>3
<1> QED
  BY <1>1, <1>3, <1>4, <1>5

\* The two items, where they go, that they are apart, and whose trades end.
Exchange(p, q, mine, theirs, to, back, P) ==
    /\ q = tradePartner[p] /\ q # p
    /\ mine = tradeItem[p] /\ theirs = tradeItem[q] /\ mine # theirs
    /\ to \in RoomFor(parent, q, mine)
    /\ theirs \notin AncestorsIn(Moved(parent, mine, to), mine)
    /\ back \in RoomFor(Moved(parent, mine, to), p, theirs)
    /\ parent' = Moved(Moved(parent, mine, to), theirs, back)
    /\ p \in P /\ EndTrades(P) /\ place' = place

LEMMA ExchangeIs ==
  ASSUME TradeInv, NEW p \in Trader, TradeSucceeds(p)
  PROVE  \E q \in Trader, mine \in Item, theirs \in Item, P \in SUBSET Trader :
           \E to, back : Exchange(p, q, mine, theirs, to, back, P)
<1> DEFINE q == tradePartner[p]
           mine == tradeItem[p]
           theirs == tradeItem[q]
<1>1. TradeTypeOK /\ OffersPaired
  BY TradeParts
<1>2. /\ tradeState[p] \in {"acknowledge", "initiated"} /\ tradeState[q] = "accept"
      /\ mine # None /\ theirs # None
      /\ \E to \in RoomFor(parent, q, mine) :
           LET given == [parent EXCEPT ![mine] = to]
           IN  /\ theirs \notin AncestorsIn(given, mine)
               /\ \E back \in RoomFor(given, p, theirs) :
                    /\ parent' = [given EXCEPT ![theirs] = back]
                    /\ EndTrades({p} \cup Closing(mine, given) \cup Closing(theirs, parent'))
      /\ place' = place
  BY DEF TradeSucceeds, AcceptSecond
<1>3. q \in Trader
  BY <1>1, <1>2 DEF OffersPaired, TradeTypeOK
<1>4. q # p
  BY <1>2
<1>5. mine \in Item /\ theirs \in Item
  BY <1>1, <1>2, <1>3 DEF TradeTypeOK
<1>6. mine # theirs
  <2>1. tradeItems[mine] = p /\ tradeItems[theirs] = q
    BY <1>1, <1>3, <1>5 DEF OffersPaired
  <2> QED
    BY <1>4, <2>1
<1>7. PICK to \in RoomFor(parent, q, mine) :
           /\ theirs \notin AncestorsIn(Moved(parent, mine, to), mine)
           /\ \E back \in RoomFor(Moved(parent, mine, to), p, theirs) :
                /\ parent' = Moved(Moved(parent, mine, to), theirs, back)
                /\ EndTrades({p} \cup Closing(mine, Moved(parent, mine, to)) \cup Closing(theirs, parent'))
  BY <1>2 DEF Moved
<1>8. PICK back \in RoomFor(Moved(parent, mine, to), p, theirs) :
           /\ parent' = Moved(Moved(parent, mine, to), theirs, back)
           /\ EndTrades({p} \cup Closing(mine, Moved(parent, mine, to)) \cup Closing(theirs, parent'))
  BY <1>7
<1>9. PICK P : P = {p} \cup Closing(mine, Moved(parent, mine, to)) \cup Closing(theirs, parent')
  OBVIOUS
<1>10. P \in SUBSET Trader /\ p \in P
  BY <1>9 DEF Closing
<1>11. EndTrades(P)
  BY <1>8, <1>9
<1> HIDE DEF q, mine, theirs
<1>12. /\ q = tradePartner[p] /\ mine = tradeItem[p] /\ theirs = tradeItem[q] /\ place' = place
  BY <1>2 DEF q, mine, theirs
<1>13. Exchange(p, q, mine, theirs, to, back, P)
  BY <1>4, <1>6, <1>7, <1>8, <1>10, <1>11, <1>12 DEF Exchange
<1> QED
  BY <1>3, <1>5, <1>10, <1>13

LEMMA SucceedsKeeps ==
  ASSUME TradeInv, NEW p \in Trader, TradeSucceeds(p)
  PROVE  /\ TradeInv'
         /\ TopIn(parent', tradeItem[p]) = tradePartner[p]
         /\ TopIn(parent', tradeItem[tradePartner[p]]) = p
<1>1. PICK q \in Trader, mine \in Item, theirs \in Item, P \in SUBSET Trader :
         \E to, back : Exchange(p, q, mine, theirs, to, back, P)
  BY ExchangeIs
<1>2. PICK to, back : Exchange(p, q, mine, theirs, to, back, P)
  BY <1>1
<1>3. /\ q = tradePartner[p] /\ q # p
      /\ mine = tradeItem[p] /\ theirs = tradeItem[q] /\ mine # theirs
      /\ to \in RoomFor(parent, q, mine)
      /\ theirs \notin AncestorsIn(Moved(parent, mine, to), mine)
      /\ back \in RoomFor(Moved(parent, mine, to), p, theirs)
      /\ parent' = Moved(Moved(parent, mine, to), theirs, back)
      /\ p \in P /\ EndTrades(P) /\ place' = place
  BY <1>2 DEF Exchange
<1>4. PICK given : given = Moved(parent, mine, to)
  OBVIOUS
<1>5. parent \in Lies /\ Acyclic(parent) /\ place \in [Trader -> Place] /\ OffersPaired
  BY TradeParts
<1>6. /\ to \in Trader \cup Bag \cup {Floor} /\ Free(parent, mine, to)
      /\ TopIn(given, mine) = q
      /\ \A t \in AncestorsIn(given, mine) : TopIn(parent, t) = q
  BY <1>3, <1>4, <1>5, RoomIsWithPlayer
<1>7. given \in Lies /\ Acyclic(given)
  BY <1>4, <1>5, <1>6, MovedIs, StaysAcyclic
<1>8. back \in RoomFor(given, p, theirs)
  BY <1>3, <1>4
<1>9. PICK new : new = Moved(given, theirs, back)
  OBVIOUS
<1>10. parent' = new
  BY <1>3, <1>4, <1>9
<1>11. /\ back \in Trader \cup Bag \cup {Floor} /\ Free(given, theirs, back)
      /\ TopIn(new, theirs) = p
      /\ \A t \in AncestorsIn(new, theirs) : TopIn(given, t) = p
  BY <1>7, <1>8, <1>9, RoomIsWithPlayer
<1>12. new \in Lies /\ Acyclic(new)
  BY <1>7, <1>11, <1>9, MovedIs, StaysAcyclic
<1>13. TopIn(new, mine) = q
  <2>1. given \in Lies /\ new \in Lies
    BY <1>7, <1>12
  <2>2. mine # theirs /\ theirs \notin AncestorsIn(given, mine)
    BY <1>3, <1>4
  <2>3. \A x \in Item : x # theirs => new[x] = given[x]
    BY <1>9, <2>1 DEF Moved, Lies
  <2>4. TopIn(new, mine) = TopIn(given, mine)
    BY <2>1, <2>2, <2>3, OthersStay
  <2> QED
    BY <1>6, <2>4
<1>14. tradeItems[mine] = p /\ tradeItems[theirs] = q
  BY <1>3, <1>5 DEF OffersPaired
<1>15. ASSUME NEW r \in Trader, tradeItem[r] # None, r \notin Both(P)
       PROVE  /\ Within(parent', tradeItem[r]) = Within(parent, tradeItem[r])
              /\ Keeps(parent', place'[r], r, tradeItem[r])
  <2>1. r # p /\ r # q
    BY <1>3, <1>15 DEF Both
  <2>2. PICK t \in Item : t = tradeItem[r]
    BY <1>15, OnOffer
  <2>3. tradeItems[t] = r /\ Keeps(parent, place[r], r, t)
    BY <1>15, <2>2, OnOffer
  <2>4. TopIn(parent, t) # p /\ TopIn(parent, t) # q
    BY <2>1, <2>3, TradeNames DEF Keeps
  <2>5. t # mine /\ t # theirs
    BY <1>14, <2>1, <2>3
  <2>6. /\ mine \notin AncestorsIn(parent, t) /\ t \notin AncestorsIn(parent, mine)
        /\ theirs \notin AncestorsIn(parent, t) /\ t \notin AncestorsIn(parent, theirs)
    BY <1>14, <2>3, TradeNames DEF TradeInv, NoneNested
  <2>7. t \notin AncestorsIn(given, mine)
    BY <1>6, <2>4
  <2>8. /\ Within(given, t) = Within(parent, t) /\ TopIn(given, t) = TopIn(parent, t)
        /\ AncestorsIn(given, t) = AncestorsIn(parent, t)
    BY <1>4, <1>5, <1>6, <2>5, <2>6, <2>7, MoveIsApart
  <2>9. theirs \notin AncestorsIn(given, t)
    BY <2>6, <2>8
  <2>10. t \notin AncestorsIn(given, theirs)
    <3>1. theirs \notin Within(parent, t)
      BY <2>6 DEF Within
    <3> QED
      BY <2>8, <3>1 DEF Within
  <2>11. t \notin AncestorsIn(new, theirs)
    BY <1>11, <2>4, <2>8
  <2>12. Within(new, t) = Within(given, t) /\ TopIn(new, t) = TopIn(given, t)
    BY <1>7, <1>11, <1>9, <2>5, <2>9, <2>10, <2>11, MoveIsApart
  <2>13. place' = place
    BY <1>3
  <2> QED
    BY <1>10, <2>2, <2>3, <2>8, <2>12, <2>13 DEF Keeps
<1>16. TradeInv'
  <2>1. P \in SUBSET Trader /\ EndTrades(P) /\ place' \in [Trader -> Place]
    BY <1>3, <1>5
  <2> QED
    BY <1>12, <1>15, <1>10, <2>1, EndingKeeps
<1> QED
  BY <1>3, <1>11, <1>13, <1>16, <1>10

LEMMA TradeKeeps == TradeInv /\ [TradeNext]_tradeVars => TradeInv'
<1> SUFFICES ASSUME TradeInv, [TradeNext]_tradeVars
             PROVE  TradeInv'
  OBVIOUS
<1>1. ASSUME NEW p \in Trader, NEW q \in Trader, NEW i \in Item, RequestTrade(p, q, i)
      PROVE  TradeInv'
  BY <1>1, RequestKeeps
<1>2. ASSUME NEW p \in Trader, CloseTrade(p)
      PROVE  TradeInv'
  BY <1>2, CloseKeeps DEF CloseTrade
<1>3. ASSUME NEW p \in Trader, AcceptTrade(p)
      PROVE  TradeInv'
  <2>1. CASE AcceptFirst(p)
    BY <2>1, AcceptFirstKeeps
  <2>2. CASE TradeFails(p)
    BY <2>2, CloseKeeps DEF TradeFails
  <2>3. CASE TradeSucceeds(p)
    BY <2>3, SucceedsKeeps
  <2> QED
    BY <1>3, <2>1, <2>2, <2>3 DEF AcceptTrade
<1>4. ASSUME NEW p \in Trader, NEW i \in Item, NEW to \in Bag \cup {p, Floor}, MoveItem(p, i, to)
      PROVE  TradeInv'
  BY <1>4, MoveKeeps
<1>5. ASSUME NEW p \in Trader, NEW at \in Place, Walk(p, at)
      PROVE  TradeInv'
  BY <1>5, WalkKeeps
<1>6. CASE UNCHANGED tradeVars
  BY <1>6 DEF tradeVars, TradeInv, TradeTypeOK, OffersPaired, OffersStand, Stands
<1> QED
  BY <1>1, <1>2, <1>3, <1>4, <1>5, <1>6 DEF TradeNext

LEMMA TradeStays == TradeSpec => []TradeInv
<1> QED
  BY TradeStarts, TradeKeeps, PTL DEF TradeSpec

\* The states of the traders, the register of items in trade and the references
\* of trades to items have their types.
THEOREM TradeTypeCorrect == TradeSpec => []TradeTypeOK
<1>1. TradeInv => TradeTypeOK
  BY DEF TradeInv
<1> QED
  BY <1>1, TradeStays, PTL

\* Whatever crosses it, a trade of two is over or still the one they agreed on:
\* partners agree, the register holds exactly what is on offer, what is on offer
\* and what is in it is as it was offered and within reach, and an exchange is
\* carried out for both sides (playerRequestTrade, playerAcceptTrade,
\* internalCloseTrade, and the checks that end a trade when things or traders move).
THEOREM TradesAlwaysHold == TradeSpec => TradesHold
<1>1. TradeInv => OffersPaired
  BY DEF TradeInv
<1>2. TradeInv => OfferUnchanged
  <2> SUFFICES ASSUME TradeInv
               PROVE  OfferUnchanged
    OBVIOUS
  <2>1. \A t, u \in {i \in Item : tradeItems[i] # None} : ~HoldsItem(t, u)
    BY DEF TradeInv, NoneNested, HoldsItem, Ancestors
  <2>2. ASSUME NEW p \in Trader, tradeItem[p] # None
        PROVE  /\ Contents(tradeItem[p]) = offered[p]
               /\ TopIn(parent, tradeItem[p]) \in {p, Floor}
               /\ Distance(ItemPlace(parent, tradeItem[p]), place[p]) <= 1
    <3>1. /\ Within(parent, tradeItem[p]) = offered[p]
          /\ Keeps(parent, place[p], p, tradeItem[p])
      BY <2>2, OnOffer
    <3>2. Contents(tradeItem[p]) = Within(parent, tradeItem[p])
      BY DEF Contents, HoldsItem, Ancestors, Within
    <3> QED
      BY <3>1, <3>2, KeptIsNear, TradeParts
  <2> QED
    BY <2>1, <2>2 DEF OfferUnchanged
<1>3. TradeInv /\ [TradeNext]_tradeVars
        => [\A p, q \in Trader :
              /\ tradePartner[p] = q /\ TradeSucceeds(p)
              => /\ TopIn(parent', tradeItem[p]) = q
                 /\ TopIn(parent', tradeItem[q]) = p]_tradeVars
  BY SucceedsKeeps
<1> QED
  BY <1>1, <1>2, <1>3, TradeStays, PTL DEF TradeSpec, TradesHold, ExchangeWhole

=============================================================================
