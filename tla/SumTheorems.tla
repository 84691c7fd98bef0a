----------------------------- MODULE SumTheorems -----------------------------
(***************************************************************************)
(* Sums of functions over finite sets, as the community module Functions    *)
(* defines them (SumFunctionOnSet, and FoldFunction with + and 0). Nothing  *)
(* here is about this repository; the proofs about backlogs, traces and     *)
(* per-round counters rest on it.                                          *)
(*                                                                         *)
(* The library states induction with an operator as a parameter, which no   *)
(* prover here can instantiate. Stated about a set of numbers, or a set of  *)
(* subsets, it needs no such parameter.                                     *)
(***************************************************************************)
EXTENDS Functions, FiniteSets, FiniteSetTheorems, WellFoundedInduction, TLAPS

\* Induction as a fact about a set of numbers.
LEMMA NatSetInduction ==
  ASSUME NEW T \in SUBSET Nat, 0 \in T, \A n \in T : n + 1 \in T
  PROVE  T = Nat
<1> DEFINE R == OpToRel(<, Nat)
           U == Nat \ T
<1> SUFFICES ASSUME U # {} PROVE FALSE
  OBVIOUS
<1>1. IsWellFoundedOn(R, Nat)
  BY NatLessThanWellFounded
<1>2. PICK x \in U : \A y \in U : ~ (<<y, x>> \in R)
  BY <1>1, WFMin
<1>3. x # 0 /\ x - 1 \in Nat /\ x - 1 < x
  OBVIOUS
<1>4. x - 1 \notin U
  BY <1>2, <1>3 DEF OpToRel
<1> QED
  BY <1>3, <1>4

\* The same for the subsets of a finite set: one element at a time.
LEMMA SubsetInduction ==
  ASSUME NEW S, IsFiniteSet(S), NEW Q \in SUBSET SUBSET S, {} \in Q,
         \A T \in Q : \A x \in S \ T : T \cup {x} \in Q
  PROVE  S \in Q
<1> DEFINE N == {n \in Nat : \A T \in SUBSET S : Cardinality(T) = n => T \in Q}
<1>0. \A T \in SUBSET S : IsFiniteSet(T) /\ Cardinality(T) \in Nat
  BY FS_Subset, FS_CardinalityType
<1>1. 0 \in N
  <2> SUFFICES ASSUME NEW T \in SUBSET S, Cardinality(T) = 0 PROVE T \in Q
    OBVIOUS
  <2> QED
    BY <1>0, FS_EmptySet
<1>2. ASSUME NEW n \in Nat, n \in N PROVE n + 1 \in N
  <2> SUFFICES ASSUME NEW T \in SUBSET S, Cardinality(T) = n + 1 PROVE T \in Q
    OBVIOUS
  <2>1. T # {}
    BY FS_EmptySet
  <2>2. PICK x : x \in T
    BY <2>1
  <2>3. Cardinality(T \ {x}) = Cardinality(T) - 1
    BY <1>0, <2>2, FS_RemoveElement
  <2>4. T \ {x} \in Q
    BY <1>2, <2>3
  <2>5. T = (T \ {x}) \cup {x}
    BY <2>2
  <2> QED
    BY <2>2, <2>4, <2>5
<1>3. N \subseteq Nat
  OBVIOUS
<1>4. N = Nat
  <2> HIDE DEF N
  <2> QED
    BY <1>1, <1>2, <1>3, NatSetInduction
<1> QED
  BY <1>0, <1>4

-----------------------------------------------------------------------------
\* The recursive function behind SumFunctionOnSet.
SumStep(f, s, g) ==
  IF s = {} THEN 0
  ELSE f[CHOOSE x \in s : TRUE] + g[s \ {CHOOSE x \in s : TRUE}]

\* It is chosen among the functions that satisfy its equation.
SumFcn(f, S) == CHOOSE g : g = [s \in SUBSET S |-> SumStep(f, s, g)]

\* The sum of the library is that function.
LEMMA SumIsSumFcn ==
  ASSUME NEW f, NEW S
  PROVE  SumFunctionOnSet(f, S) = SumFcn(f, S)[S]
  BY Zenon DEF SumFunctionOnSet, FoldFunctionOnSet, MapThenFoldSet, SumFcn, SumStep

\* It exists on the subsets of up to n elements, for every n.
LEMMA SumFcnExists ==
  ASSUME NEW f, NEW S, IsFiniteSet(S)
  PROVE  \E g : g = [s \in SUBSET S |-> SumStep(f, s, g)]
<1> DEFINE UpTo(n) == {s \in SUBSET S : Cardinality(s) <= n}
           N == {n \in Nat : \E g : g = [s \in UpTo(n) |-> SumStep(f, s, g)]}
<1>0. \A s \in SUBSET S : IsFiniteSet(s) /\ Cardinality(s) \in Nat
  BY FS_Subset, FS_CardinalityType
<1>a. \A s \in SUBSET S : s # {} =>
         /\ (CHOOSE x \in s : TRUE) \in s
         /\ Cardinality(s \ {CHOOSE x \in s : TRUE}) = Cardinality(s) - 1
  <2> TAKE s \in SUBSET S
  <2> HAVE s # {}
  <2>1. (CHOOSE x \in s : TRUE) \in s
    OBVIOUS
  <2> QED
    BY <1>0, <2>1, FS_RemoveElement
<1>1. 0 \in N
  <2> DEFINE g == [s \in UpTo(0) |-> 0]
  <2>1. \A s \in UpTo(0) : s = {}
    BY <1>0, FS_EmptySet
  <2>2. g = [s \in UpTo(0) |-> SumStep(f, s, g)]
    BY <2>1 DEF SumStep
  <2> QED
    BY <2>2
<1>2. ASSUME NEW n \in Nat, n \in N PROVE n + 1 \in N
  <2>1. PICK g : g = [s \in UpTo(n) |-> SumStep(f, s, g)]
    BY <1>2
  <2> DEFINE h == [s \in UpTo(n + 1) |->
                     IF s \in UpTo(n) THEN g[s] ELSE SumStep(f, s, g)]
  <2>2. ASSUME NEW s \in UpTo(n + 1) PROVE h[s] = SumStep(f, s, h)
    <3>1. CASE s = {}
      <4>1. Cardinality(s) = 0
        BY <3>1, FS_EmptySet
      <4>2. s \in UpTo(n)
        BY <4>1
      <4> QED
        BY <2>1, <3>1, <4>2 DEF SumStep
    <3>2. CASE s # {}
      <4> DEFINE r == s \ {CHOOSE x \in s : TRUE}
      <4>1. r \in UpTo(n) /\ r \in UpTo(n + 1)
        BY <1>0, <1>a, <3>2
      <4>2. h[r] = g[r]
        BY <4>1
      <4>3. SumStep(f, s, h) = SumStep(f, s, g)
        BY <4>2, <3>2 DEF SumStep
      <4>4. s \in UpTo(n) => g[s] = SumStep(f, s, g)
        BY <2>1
      <4> QED
        BY <4>3, <4>4
    <3> QED
      BY <3>1, <3>2
  <2>3. h = [s \in UpTo(n + 1) |-> SumStep(f, s, h)]
    BY <2>2
  <2>4. \E k : k = [s \in UpTo(n + 1) |-> SumStep(f, s, k)]
    <3> HIDE DEF h, UpTo
    <3> QED
      BY <2>3
  <2>5. n + 1 \in Nat
    OBVIOUS
  <2> QED
    BY <2>4, <2>5, Zenon
<1>3. N \subseteq Nat
  OBVIOUS
<1>4. N = Nat
  <2> HIDE DEF N
  <2> QED
    BY <1>1, <1>2, <1>3, NatSetInduction
<1>5. UpTo(Cardinality(S)) = SUBSET S
  BY FS_Subset
<1>6. Cardinality(S) \in N
  BY <1>0, <1>4
<1> QED
  BY <1>5, <1>6

\* The equation of the recursive function.
LEMMA SumFcnEquation ==
  ASSUME NEW f, NEW S, IsFiniteSet(S), NEW s \in SUBSET S
  PROVE  SumFcn(f, S)[s] = SumStep(f, s, SumFcn(f, S))
<1> DEFINE g == SumFcn(f, S)
<1>0. \E h : h = [t \in SUBSET S |-> SumStep(f, t, h)]
  BY SumFcnExists, Zenon
<1>1. g = [t \in SUBSET S |-> SumStep(f, t, g)]
  BY <1>0, Zenon DEF SumFcn
<1> HIDE DEF g
<1>4. g[s] = SumStep(f, s, g)
  BY <1>1
<1> QED
  BY <1>4 DEF g

\* What it is on a set does not depend on the set it is defined for.
LEMMA SumFcnLocal ==
  ASSUME NEW f, NEW S, IsFiniteSet(S), NEW T \in SUBSET S
  PROVE  SumFcn(f, S)[T] = SumFcn(f, T)[T]
<1> DEFINE c(s) == CHOOSE x \in s : TRUE
           N == {n \in Nat : \A s \in SUBSET S : Cardinality(s) = n =>
                   \A t \in SUBSET S : s \subseteq t =>
                     SumFcn(f, t)[s] = SumFcn(f, S)[s]}
<1>0. \A s \in SUBSET S : IsFiniteSet(s) /\ Cardinality(s) \in Nat
  BY FS_Subset, FS_CardinalityType
<1>1. 0 \in N
  <2> SUFFICES ASSUME NEW s \in SUBSET S, Cardinality(s) = 0,
                      NEW t \in SUBSET S, s \subseteq t
               PROVE  SumFcn(f, t)[s] = SumFcn(f, S)[s]
    OBVIOUS
  <2>1. s = {} /\ IsFiniteSet(t) /\ s \in SUBSET t
    BY <1>0, FS_EmptySet
  <2> QED
    BY <2>1, SumFcnEquation DEF SumStep
<1>2. ASSUME NEW n \in Nat, n \in N PROVE n + 1 \in N
  <2> SUFFICES ASSUME NEW s \in SUBSET S, Cardinality(s) = n + 1,
                      NEW t \in SUBSET S, s \subseteq t
               PROVE  SumFcn(f, t)[s] = SumFcn(f, S)[s]
    OBVIOUS
  <2> DEFINE r == s \ {c(s)}
  <2>1. s # {} /\ c(s) \in s
    BY FS_EmptySet
  <2>2. Cardinality(r) = n
    <3>1. Cardinality(r) = Cardinality(s) - 1
      BY <1>0, <2>1, FS_RemoveElement
    <3> QED
      BY <3>1
  <2>3. SumFcn(f, t)[r] = SumFcn(f, S)[r]
    BY <1>2, <2>2
  <2>4. /\ SumFcn(f, t)[s] = f[c(s)] + SumFcn(f, t)[r]
        /\ SumFcn(f, S)[s] = f[c(s)] + SumFcn(f, S)[r]
    <3>1. IsFiniteSet(t) /\ s \in SUBSET t
      BY <1>0
    <3> QED
      BY <2>1, <3>1, SumFcnEquation DEF SumStep
  <2> QED
    BY <2>3, <2>4
<1>3. N \subseteq Nat
  OBVIOUS
<1>4. N = Nat
  <2> HIDE DEF N
  <2> QED
    BY <1>1, <1>2, <1>3, NatSetInduction
<1> QED
  BY <1>0, <1>4

-----------------------------------------------------------------------------
\* The sum over the empty set.
LEMMA SumEmpty == \A f : SumFunctionOnSet(f, {}) = 0
<1> TAKE f
<1>1. SumFcn(f, {})[{}] = 0
  BY FS_EmptySet, SumFcnEquation DEF SumStep
<1> QED
  BY <1>1, SumIsSumFcn

\* The sum over a set with the element apart that the definition takes first.
LEMMA SumChosen ==
  ASSUME NEW f, NEW S, IsFiniteSet(S), S # {}
  PROVE  LET c == CHOOSE x \in S : TRUE IN
         /\ c \in S
         /\ SumFunctionOnSet(f, S) = f[c] + SumFunctionOnSet(f, S \ {c})
<1> DEFINE c == CHOOSE x \in S : TRUE
           r == S \ {c}
<1>1. c \in S
  OBVIOUS
<1>2. SumFcn(f, S)[S] = f[c] + SumFcn(f, S)[r]
  <2>1. SumFcn(f, S)[S] = SumStep(f, S, SumFcn(f, S))
    BY SumFcnEquation
  <2> QED
    BY <2>1 DEF SumStep
<1>3. SumFcn(f, S)[r] = SumFcn(f, r)[r]
  BY SumFcnLocal
<1> HIDE DEF r, c
<1>4. SumFunctionOnSet(f, S) = f[c] + SumFunctionOnSet(f, r)
  BY <1>2, <1>3, SumIsSumFcn
<1> QED
  BY <1>1, <1>4 DEF r, c

\* Sums of integers are integers.
LEMMA SumInt ==
  ASSUME NEW f, NEW S, IsFiniteSet(S), \A x \in S : f[x] \in Int
  PROVE  SumFunctionOnSet(f, S) \in Int
<1> DEFINE N == {n \in Nat : \A s \in SUBSET S : Cardinality(s) = n =>
                   SumFunctionOnSet(f, s) \in Int}
<1>0. \A s \in SUBSET S : IsFiniteSet(s) /\ Cardinality(s) \in Nat
  BY FS_Subset, FS_CardinalityType
<1>1. 0 \in N
  BY <1>0, FS_EmptySet, SumEmpty
<1>2. ASSUME NEW n \in Nat, n \in N PROVE n + 1 \in N
  <2> SUFFICES ASSUME NEW s \in SUBSET S, Cardinality(s) = n + 1
               PROVE  SumFunctionOnSet(f, s) \in Int
    OBVIOUS
  <2> DEFINE c == CHOOSE x \in s : TRUE
  <2>1. s # {}
    BY FS_EmptySet
  <2>2. c \in s /\ SumFunctionOnSet(f, s) = f[c] + SumFunctionOnSet(f, s \ {c})
    BY <1>0, <2>1, SumChosen
  <2> HIDE DEF c
  <2>3. Cardinality(s \ {c}) = n
    <3>1. Cardinality(s \ {c}) = Cardinality(s) - 1
      BY <1>0, <2>2, FS_RemoveElement
    <3> QED
      BY <3>1
  <2>4. SumFunctionOnSet(f, s \ {c}) \in Int
    BY <1>2, <2>3
  <2> QED
    BY <2>2, <2>4
<1>3. N \subseteq Nat
  OBVIOUS
<1>4. N = Nat
  <2> HIDE DEF N
  <2> QED
    BY <1>1, <1>2, <1>3, NatSetInduction
<1> QED
  BY <1>0, <1>4

\* Any element can be taken out of a sum.
LEMMA SumRemove ==
  ASSUME NEW f, NEW S, IsFiniteSet(S), \A x \in S : f[x] \in Int, NEW y \in S
  PROVE  SumFunctionOnSet(f, S) = f[y] + SumFunctionOnSet(f, S \ {y})
<1> DEFINE N == {n \in Nat : \A s \in SUBSET S : Cardinality(s) = n =>
                   \A x \in s : SumFunctionOnSet(f, s)
                                  = f[x] + SumFunctionOnSet(f, s \ {x})}
<1>0. \A s \in SUBSET S : /\ IsFiniteSet(s) /\ Cardinality(s) \in Nat
                          /\ SumFunctionOnSet(f, s) \in Int
  <2> TAKE s \in SUBSET S
  <2>1. IsFiniteSet(s)
    BY FS_Subset
  <2>2. \A x \in s : f[x] \in Int
    OBVIOUS
  <2> QED
    BY <2>1, <2>2, SumInt, FS_CardinalityType
<1>1. 0 \in N
  BY <1>0, FS_EmptySet
<1>2. ASSUME NEW n \in Nat, n \in N PROVE n + 1 \in N
  <2> SUFFICES ASSUME NEW s \in SUBSET S, Cardinality(s) = n + 1, NEW x \in s
               PROVE  SumFunctionOnSet(f, s)
                        = f[x] + SumFunctionOnSet(f, s \ {x})
    OBVIOUS
  <2> DEFINE c == CHOOSE z \in s : TRUE
  <2>1. c \in s /\ SumFunctionOnSet(f, s) = f[c] + SumFunctionOnSet(f, s \ {c})
    BY <1>0, SumChosen
  <2> HIDE DEF c
  <2>2. CASE c = x
    BY <2>1, <2>2
  <2>3. CASE c # x
    <3>1. Cardinality(s \ {c}) = n /\ Cardinality(s \ {x}) = n
      BY <1>0, <2>1, FS_RemoveElement
    <3>2. SumFunctionOnSet(f, s \ {c})
            = f[x] + SumFunctionOnSet(f, (s \ {c}) \ {x})
      BY <1>2, <2>3, <3>1
    <3>3. SumFunctionOnSet(f, s \ {x})
            = f[c] + SumFunctionOnSet(f, (s \ {x}) \ {c})
      BY <1>2, <2>1, <2>3, <3>1
    <3>4. (s \ {c}) \ {x} = (s \ {x}) \ {c}
      OBVIOUS
    <3>5. f[c] \in Int /\ f[x] \in Int
          /\ SumFunctionOnSet(f, (s \ {x}) \ {c}) \in Int
      BY <1>0, <2>1
    <3>6. SumFunctionOnSet(f, (s \ {c}) \ {x})
            = SumFunctionOnSet(f, (s \ {x}) \ {c})
      BY <3>4
    <3>7. SumFunctionOnSet(f, s)
            = f[c] + (f[x] + SumFunctionOnSet(f, (s \ {x}) \ {c}))
      BY <2>1, <3>2, <3>6
    <3> QED
      BY <3>3, <3>5, <3>7
  <2> QED
    BY <2>2, <2>3
<1>3. N \subseteq Nat
  OBVIOUS
<1>4. N = Nat
  <2> HIDE DEF N
  <2> QED
    BY <1>1, <1>2, <1>3, NatSetInduction
<1> QED
  BY <1>0, <1>4

\* One more term.
LEMMA SumAdd ==
  ASSUME NEW f, NEW S, IsFiniteSet(S), NEW y, y \notin S,
         \A x \in S \cup {y} : f[x] \in Int
  PROVE  SumFunctionOnSet(f, S \cup {y}) = f[y] + SumFunctionOnSet(f, S)
<1>1. IsFiniteSet(S \cup {y})
  BY FS_AddElement
<1>2. (S \cup {y}) \ {y} = S
  OBVIOUS
<1>3. SumFunctionOnSet(f, S \cup {y})
        = f[y] + SumFunctionOnSet(f, (S \cup {y}) \ {y})
  BY <1>1, SumRemove
<1> QED
  BY <1>2, <1>3

\* A sum of zeros is zero.
LEMMA SumZero ==
  ASSUME NEW f, NEW S, IsFiniteSet(S), \A x \in S : f[x] = 0
  PROVE  SumFunctionOnSet(f, S) = 0
<1> DEFINE Q == {T \in SUBSET S : SumFunctionOnSet(f, T) = 0}
<1>1. {} \in Q
  BY SumEmpty
<1>2. ASSUME NEW T \in Q, NEW x \in S \ T PROVE T \cup {x} \in Q
  <2>1. IsFiniteSet(T)
    BY FS_Subset
  <2>2. SumFunctionOnSet(f, T \cup {x}) = f[x] + SumFunctionOnSet(f, T)
    BY <2>1, SumAdd
  <2> QED
    BY <2>2
<1>3. Q \in SUBSET SUBSET S
  OBVIOUS
<1> HIDE DEF Q
<1>4. S \in Q
  BY <1>1, <1>2, <1>3, SubsetInduction
<1> QED
  BY <1>4 DEF Q

\* What holds of the terms one by one holds of their sums.
LEMMA SumMonotone ==
  ASSUME NEW f, NEW g, NEW S, IsFiniteSet(S),
         \A x \in S : f[x] \in Int /\ g[x] \in Int /\ f[x] <= g[x]
  PROVE  SumFunctionOnSet(f, S) <= SumFunctionOnSet(g, S)
<1> DEFINE Q == {T \in SUBSET S :
                   SumFunctionOnSet(f, T) <= SumFunctionOnSet(g, T)}
<1>1. {} \in Q
  BY SumEmpty
<1>2. ASSUME NEW T \in Q, NEW x \in S \ T PROVE T \cup {x} \in Q
  <2>1. IsFiniteSet(T)
    BY FS_Subset
  <2>2. /\ SumFunctionOnSet(f, T) \in Int
        /\ SumFunctionOnSet(g, T) \in Int
    BY <2>1, SumInt
  <2>3. /\ SumFunctionOnSet(f, T \cup {x}) = f[x] + SumFunctionOnSet(f, T)
        /\ SumFunctionOnSet(g, T \cup {x}) = g[x] + SumFunctionOnSet(g, T)
    BY <2>1, SumAdd
  <2> QED
    BY <2>2, <2>3
<1>3. Q \in SUBSET SUBSET S
  OBVIOUS
<1> HIDE DEF Q
<1>4. S \in Q
  BY <1>1, <1>2, <1>3, SubsetInduction
<1> QED
  BY <1>4 DEF Q

\* Equal terms have equal sums.
LEMMA SumEqual ==
  ASSUME NEW f, NEW g, NEW S, IsFiniteSet(S),
         \A x \in S : f[x] \in Int /\ f[x] = g[x]
  PROVE  SumFunctionOnSet(f, S) = SumFunctionOnSet(g, S)
<1>1. SumFunctionOnSet(f, S) \in Int /\ SumFunctionOnSet(g, S) \in Int
  BY SumInt
<1>2. /\ SumFunctionOnSet(f, S) <= SumFunctionOnSet(g, S)
      /\ SumFunctionOnSet(g, S) <= SumFunctionOnSet(f, S)
  BY SumMonotone
<1> QED
  BY <1>1, <1>2

\* The sum of sums is the sum of what is added term by term.
LEMMA SumPlus ==
  ASSUME NEW f, NEW g, NEW h, NEW S, IsFiniteSet(S),
         \A x \in S : f[x] \in Int /\ g[x] \in Int /\ h[x] = f[x] + g[x]
  PROVE  SumFunctionOnSet(h, S)
           = SumFunctionOnSet(f, S) + SumFunctionOnSet(g, S)
<1> DEFINE Q == {T \in SUBSET S :
                   SumFunctionOnSet(h, T)
                     = SumFunctionOnSet(f, T) + SumFunctionOnSet(g, T)}
<1>1. {} \in Q
  BY SumEmpty
<1>2. ASSUME NEW T \in Q, NEW x \in S \ T PROVE T \cup {x} \in Q
  <2>1. IsFiniteSet(T)
    BY FS_Subset
  <2>2. /\ SumFunctionOnSet(f, T) \in Int
        /\ SumFunctionOnSet(g, T) \in Int
    BY <2>1, SumInt
  <2>3. /\ SumFunctionOnSet(f, T \cup {x}) = f[x] + SumFunctionOnSet(f, T)
        /\ SumFunctionOnSet(g, T \cup {x}) = g[x] + SumFunctionOnSet(g, T)
        /\ SumFunctionOnSet(h, T \cup {x}) = h[x] + SumFunctionOnSet(h, T)
    BY <2>1, SumAdd
  <2> QED
    BY <2>2, <2>3
<1>3. Q \in SUBSET SUBSET S
  OBVIOUS
<1> HIDE DEF Q
<1>4. S \in Q
  BY <1>1, <1>2, <1>3, SubsetInduction
<1> QED
  BY <1>4 DEF Q
-----------------------------------------------------------------------------
\* Sums of naturals are naturals.
LEMMA SumNat ==
  ASSUME NEW f, NEW S, IsFiniteSet(S), \A x \in S : f[x] \in Nat
  PROVE  SumFunctionOnSet(f, S) \in Nat
<1> DEFINE zeros == [x \in S |-> 0]
<1>1. SumFunctionOnSet(zeros, S) = 0
  BY SumZero
<1>2. SumFunctionOnSet(zeros, S) <= SumFunctionOnSet(f, S)
  BY SumMonotone
<1>3. SumFunctionOnSet(f, S) \in Int
  BY SumInt
<1> QED
  BY <1>1, <1>2, <1>3

\* Sums over two sets without common elements add up.
LEMMA SumUnion ==
  ASSUME NEW f, NEW S, NEW T, IsFiniteSet(S), IsFiniteSet(T), S \cap T = {},
         \A x \in S \cup T : f[x] \in Int
  PROVE  SumFunctionOnSet(f, S \cup T)
           = SumFunctionOnSet(f, S) + SumFunctionOnSet(f, T)
<1> DEFINE Q == {U \in SUBSET T :
                   SumFunctionOnSet(f, S \cup U)
                     = SumFunctionOnSet(f, S) + SumFunctionOnSet(f, U)}
<1>1. {} \in Q
  <2>1. S \cup {} = S /\ SumFunctionOnSet(f, {}) = 0
    BY SumEmpty
  <2>2. SumFunctionOnSet(f, S) \in Int
    BY SumInt
  <2> QED
    BY <2>1, <2>2
<1>2. ASSUME NEW U \in Q, NEW x \in T \ U PROVE U \cup {x} \in Q
  <2>1. IsFiniteSet(U) /\ IsFiniteSet(S \cup U)
    BY FS_Subset, FS_Union
  <2>2. /\ SumFunctionOnSet(f, S) \in Int
        /\ SumFunctionOnSet(f, U) \in Int
    BY <2>1, SumInt
  <2>3. SumFunctionOnSet(f, U \cup {x}) = f[x] + SumFunctionOnSet(f, U)
    BY <2>1, SumAdd
  <2>4. SumFunctionOnSet(f, (S \cup U) \cup {x})
          = f[x] + SumFunctionOnSet(f, S \cup U)
    BY <2>1, SumAdd
  <2>5. (S \cup U) \cup {x} = S \cup (U \cup {x})
    OBVIOUS
  <2>6. /\ SumFunctionOnSet(f, S \cup U)
             = SumFunctionOnSet(f, S) + SumFunctionOnSet(f, U)
        /\ U \cup {x} \in SUBSET T
        /\ f[x] \in Int
    OBVIOUS
  <2> HIDE DEF Q
  <2> DEFINE s == SumFunctionOnSet(f, S)
             u == SumFunctionOnSet(f, U)
             fx == f[x]
  <2>7. /\ SumFunctionOnSet(f, S \cup (U \cup {x})) = fx + (s + u)
        /\ SumFunctionOnSet(f, U \cup {x}) = fx + u
    BY <2>3, <2>4, <2>5, <2>6
  <2>8. s \in Int /\ u \in Int /\ fx \in Int
    BY <2>2, <2>6
  <2> HIDE DEF s, u, fx
  <2>9. fx + (s + u) = s + (fx + u)
    BY <2>8
  <2>10. SumFunctionOnSet(f, S \cup (U \cup {x}))
           = s + SumFunctionOnSet(f, U \cup {x})
    BY <2>7, <2>9
  <2> QED
    BY <2>6, <2>10 DEF Q, s
<1>3. Q \in SUBSET SUBSET T
  OBVIOUS
<1> HIDE DEF Q
<1>4. T \in Q
  BY <1>1, <1>2, <1>3, SubsetInduction
<1> QED
  BY <1>4 DEF Q

\* Fewer terms, none of them negative.
LEMMA SumSubset ==
  ASSUME NEW f, NEW S, NEW T \in SUBSET S, IsFiniteSet(S),
         \A x \in S : f[x] \in Nat
  PROVE  SumFunctionOnSet(f, T) <= SumFunctionOnSet(f, S)
<1>1. IsFiniteSet(T) /\ IsFiniteSet(S \ T)
  BY FS_Subset
<1>2. SumFunctionOnSet(f, T) \in Nat /\ SumFunctionOnSet(f, S \ T) \in Nat
  BY <1>1, SumNat
<1>3. SumFunctionOnSet(f, T \cup (S \ T))
        = SumFunctionOnSet(f, T) + SumFunctionOnSet(f, S \ T)
  BY <1>1, SumUnion
<1>4. T \cup (S \ T) = S
  BY T \subseteq S
<1>5. SumFunctionOnSet(f, S)
        = SumFunctionOnSet(f, T) + SumFunctionOnSet(f, S \ T)
  BY <1>3, <1>4
<1> QED
  BY <1>2, <1>5

\* The same terms under other names.
LEMMA SumImage ==
  ASSUME NEW f, NEW g, NEW h, NEW S, IsFiniteSet(S),
         \A x, y \in S : h[x] = h[y] => x = y,
         \A x \in S : f[h[x]] \in Int /\ g[x] = f[h[x]]
  PROVE  SumFunctionOnSet(f, {h[x] : x \in S}) = SumFunctionOnSet(g, S)
<1> DEFINE Q == {T \in SUBSET S :
                   /\ IsFiniteSet({h[x] : x \in T})
                   /\ SumFunctionOnSet(f, {h[x] : x \in T})
                        = SumFunctionOnSet(g, T)}
<1>1. {} \in Q
  <2>1. {h[x] : x \in {}} = {}
    OBVIOUS
  <2> QED
    BY <2>1, SumEmpty, FS_EmptySet
<1>2. ASSUME NEW T \in Q, NEW y \in S \ T PROVE T \cup {y} \in Q
  <2> DEFINE I == {h[x] : x \in T}
  <2>1. IsFiniteSet(T) /\ IsFiniteSet(I) /\ IsFiniteSet(I \cup {h[y]})
    BY FS_Subset, FS_AddElement
  <2>2. h[y] \notin I /\ {h[x] : x \in T \cup {y}} = I \cup {h[y]}
    OBVIOUS
  <2>3. \A z \in I \cup {h[y]} : f[z] \in Int
    OBVIOUS
  <2>4. SumFunctionOnSet(f, I) = SumFunctionOnSet(g, T)
    OBVIOUS
  <2> HIDE DEF I, Q
  <2>5. SumFunctionOnSet(f, I \cup {h[y]}) = f[h[y]] + SumFunctionOnSet(f, I)
    BY <2>1, <2>2, <2>3, SumAdd
  <2>6. SumFunctionOnSet(g, T \cup {y}) = g[y] + SumFunctionOnSet(g, T)
    <3>1. T \in SUBSET S
      BY DEF Q
    <3> QED
      BY <2>1, <3>1, SumAdd
  <2>7. T \cup {y} \in SUBSET S
    BY DEF Q
  <2>8. SumFunctionOnSet(f, I \cup {h[y]})
          = SumFunctionOnSet(g, T \cup {y})
    BY <2>4, <2>5, <2>6
  <2> QED
    BY <2>1, <2>2, <2>7, <2>8 DEF Q
<1>3. Q \in SUBSET SUBSET S
  OBVIOUS
<1> HIDE DEF Q
<1>4. S \in Q
  BY <1>1, <1>2, <1>3, SubsetInduction
<1> QED
  BY <1>4 DEF Q

\* Terms grouped by a key: the sums of the groups add up to the whole.
LEMMA SumGroups ==
  ASSUME NEW f, NEW key, NEW S, NEW Y, IsFiniteSet(S), IsFiniteSet(Y),
         \A x \in S : f[x] \in Int
  PROVE  SumFunctionOnSet([y \in Y |->
                             SumFunctionOnSet(f, {x \in S : key[x] = y})], Y)
           = SumFunctionOnSet(f, {x \in S : key[x] \in Y})
<1> DEFINE Group(y) == {x \in S : key[x] = y}
           g == [y \in Y |-> SumFunctionOnSet(f, Group(y))]
           In(Z) == {x \in S : key[x] \in Z}
           Q == {Z \in SUBSET Y :
                   SumFunctionOnSet(g, Z) = SumFunctionOnSet(f, In(Z))}
<1>0. \A Z : IsFiniteSet(In(Z))
  BY FS_Subset
<1>1. {} \in Q
  <2>1. In({}) = {}
    OBVIOUS
  <2> QED
    BY <2>1, SumEmpty
<1>2. ASSUME NEW Z \in Q, NEW y \in Y \ Z PROVE Z \cup {y} \in Q
  <2>1. IsFiniteSet(Z) /\ IsFiniteSet(Group(y))
    BY FS_Subset
  <2>2. In(Z \cup {y}) = In(Z) \cup Group(y) /\ In(Z) \cap Group(y) = {}
    OBVIOUS
  <2>3. \A z \in Y : g[z] \in Int
    <3> TAKE z \in Y
    <3>1. IsFiniteSet(Group(z)) /\ \A x \in Group(z) : f[x] \in Int
      BY FS_Subset
    <3> HIDE DEF Group
    <3> QED
      BY <3>1, SumInt
  <2>4. SumFunctionOnSet(f, In(Z)) \in Int
    <3>1. \A x \in In(Z) : f[x] \in Int
      OBVIOUS
    <3> HIDE DEF In
    <3> QED
      BY <1>0, <3>1, SumInt
  <2>5. /\ SumFunctionOnSet(g, Z) = SumFunctionOnSet(f, In(Z))
        /\ g[y] = SumFunctionOnSet(f, Group(y))
        /\ g[y] \in Int
        /\ Z \in SUBSET Y
    BY <2>3
  <2>6. \A x \in In(Z) \cup Group(y) : f[x] \in Int
    OBVIOUS
  <2> HIDE DEF g, In, Group, Q
  <2>7. SumFunctionOnSet(f, In(Z) \cup Group(y))
          = SumFunctionOnSet(f, In(Z)) + SumFunctionOnSet(f, Group(y))
    BY <1>0, <2>1, <2>2, <2>6, SumUnion
  <2>8. SumFunctionOnSet(g, Z \cup {y}) = g[y] + SumFunctionOnSet(g, Z)
    BY <2>1, <2>3, <2>5, SumAdd
  <2>9. SumFunctionOnSet(g, Z \cup {y})
          = SumFunctionOnSet(f, In(Z \cup {y}))
    <3>1. /\ SumFunctionOnSet(f, In(Z \cup {y}))
               = SumFunctionOnSet(f, In(Z)) + g[y]
          /\ SumFunctionOnSet(g, Z \cup {y})
               = g[y] + SumFunctionOnSet(f, In(Z))
      BY <2>2, <2>5, <2>7, <2>8
    <3>2. SumFunctionOnSet(f, In(Z)) \in Int /\ g[y] \in Int
      BY <2>4, <2>5
    <3>3. SumFunctionOnSet(f, In(Z)) + g[y] = g[y] + SumFunctionOnSet(f, In(Z))
      BY <3>2
    <3> QED
      BY <3>1, <3>3
  <2>10. Z \cup {y} \in SUBSET Y
    BY <2>5
  <2> QED
    BY <2>9, <2>10 DEF Q
<1>3. Q \in SUBSET SUBSET Y
  OBVIOUS
<1> HIDE DEF Q
<1>4. Y \in Q
  BY <1>1, <1>2, <1>3, SubsetInduction
<1> QED
  BY <1>4 DEF Q

=============================================================================
