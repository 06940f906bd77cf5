----------------------------- MODULE FoldLemmas -----------------------------
(***************************************************************************)
(* What the proofs need to know of folds and recursive functions:          *)
(* induction over a set of numbers and over the parts of a set, the        *)
(* existence of the function a fold is computed by, sums, the members of a *)
(* sequence in a set, and flattening.  The library's theorems on induction *)
(* and folds take operators; these take sets and functions, so that they   *)
(* can be cited.                                                           *)
(***************************************************************************)
EXTENDS Sublist, SequencesExt, FiniteSets, FiniteSetTheorems, SequenceTheorems, WellFoundedInduction,
        TLAPS

(* A set that has 0 and, with a number, the next one has them all.          *)
LEMMA SetInduction ==
    ASSUME NEW S, 0 \in S, \A n \in Nat : n \in S => n + 1 \in S
    PROVE  Nat \subseteq S
<1> DEFINE T == Nat \ S
<1> SUFFICES ASSUME T # {} PROVE FALSE
  OBVIOUS
<1>1. PICK x \in T : \A y \in T : ~ (<<y, x>> \in OpToRel(<, Nat))
  <2>1. T \subseteq Nat OBVIOUS
  <2> HIDE DEF T
  <2> QED BY NatLessThanWellFounded, WFMin, <2>1
<1>2. x \in Nat /\ x # 0 /\ x - 1 \in Nat
  OBVIOUS
<1>3. x - 1 \in T
  BY <1>2
<1>4. <<x - 1, x>> \in OpToRel(<, Nat)
  BY <1>2 DEF OpToRel
<1> QED BY <1>1, <1>3, <1>4

(* The least of a set of numbers.                                          *)
LEMMA Least ==
    ASSUME NEW S, S \in SUBSET Nat, S # {}
    PROVE  \E x \in S : \A y \in S : x <= y
<1>1. PICK x \in S : \A y \in S : ~ (<<y, x>> \in OpToRel(<, Nat))
  BY NatLessThanWellFounded, WFMin
<1>2. ASSUME NEW y \in S, y < x PROVE FALSE
  <2>1. <<y, x>> \in OpToRel(<, Nat) BY <1>2 DEF OpToRel
  <2> QED BY <1>1, <2>1
<1> QED BY <1>2, x \in Nat

Parts(S) == (SUBSET S) \ {{}}

LEMMA SmallerPart ==
    ASSUME NEW S, IsFiniteSet(S), NEW s \in SUBSET S, NEW x \in s
    PROVE  /\ IsFiniteSet(s) /\ s \ {x} \in SUBSET S
           /\ Cardinality(s) \in Nat /\ Cardinality(s \ {x}) = Cardinality(s) - 1
           /\ Cardinality(s \ {x}) \in Nat
  BY FS_Subset, FS_RemoveElement, FS_CardinalityType

(* Induction over the parts of a finite set, one element at a time.         *)
Inductive(Q, S) ==
    /\ {} \in Q
    /\ \A s \in Parts(S) : (\A x \in s : s \ {x} \in Q) => s \in Q

LEMMA PartInduction ==
    ASSUME NEW S, IsFiniteSet(S), NEW Q, Inductive(Q, S)
    PROVE  SUBSET S \subseteq Q
<1> USE DEF Inductive
<1> DEFINE P == {n \in Nat : \A s \in SUBSET S : Cardinality(s) = n => s \in Q}
<1>0. \A s \in SUBSET S : IsFiniteSet(s) /\ Cardinality(s) \in Nat
                          /\ (Cardinality(s) = 0 <=> s = {})
  BY FS_Subset, FS_CardinalityType, FS_EmptySet
<1>1. 0 \in P BY <1>0
<1>2. ASSUME NEW n \in Nat, n \in P PROVE n + 1 \in P
  <2> SUFFICES ASSUME NEW s \in SUBSET S, Cardinality(s) = n + 1 PROVE s \in Q
    OBVIOUS
  <2>1. \A x \in s : s \ {x} \in SUBSET S /\ Cardinality(s \ {x}) = n BY SmallerPart
  <2>2. s \in Parts(S) BY <1>0 DEF Parts
  <2> QED BY <2>1, <2>2, <1>2
<1>3. Nat \subseteq P
  <2> HIDE DEF P
  <2> QED BY <1>1, <1>2, SetInduction
<1> QED BY <1>3, <1>0

(* A way to take the elements of a part one after the other.                *)
Picks(pick, S) == pick \in [Parts(S) -> S] /\ \A s \in Parts(S) : pick[s] \in s

IsFold(f, S, base, pick, step) ==
    \A s \in SUBSET S : f[s] = IF s = {} THEN base ELSE step[<<s, f[s \ {pick[s]}]>>]

(* The function a fold over the parts of a finite set is computed by.       *)
LEMMA FoldExists ==
    ASSUME NEW S, IsFiniteSet(S), NEW T, NEW base \in T,
           NEW pick, Picks(pick, S), NEW step \in [Parts(S) \X T -> T]
    PROVE  \E f \in [SUBSET S -> T] : IsFold(f, S, base, pick, step)
<1> USE DEF Picks, IsFold
<1> DEFINE Good(f, n) == \A s \in SUBSET S : Cardinality(s) <= n =>
               f[s] = IF s = {} THEN base ELSE step[<<s, f[s \ {pick[s]}]>>]
           P == {n \in Nat : \E f \in [SUBSET S -> T] : Good(f, n)}
<1>0. \A s \in SUBSET S : IsFiniteSet(s) /\ Cardinality(s) \in Nat
                          /\ (Cardinality(s) = 0 <=> s = {})
  BY FS_Subset, FS_CardinalityType, FS_EmptySet
<1>1. 0 \in P
  <2> DEFINE f == [s \in SUBSET S |-> base]
  <2>1. f \in [SUBSET S -> T] OBVIOUS
  <2>2. Good(f, 0) BY <1>0
  <2> QED BY <2>1, <2>2
<1>2. ASSUME NEW n \in Nat, n \in P PROVE n + 1 \in P
  <2>1. PICK f \in [SUBSET S -> T] : Good(f, n) BY <1>2
  <2> DEFINE g == [s \in SUBSET S |-> IF s = {} THEN base ELSE step[<<s, f[s \ {pick[s]}]>>]]
  <2>2. g \in [SUBSET S -> T]
    <3> SUFFICES ASSUME NEW s \in Parts(S) PROVE step[<<s, f[s \ {pick[s]}]>>] \in T
      BY DEF Parts
    <3>1. f[s \ {pick[s]}] \in T BY DEF Parts
    <3> QED BY <3>1
  <2>3. ASSUME NEW s \in SUBSET S, Cardinality(s) <= n PROVE g[s] = f[s]
    BY <2>1, <2>3
  <2>4. ASSUME NEW s \in SUBSET S, Cardinality(s) <= n + 1, s # {}
        PROVE  g[s] = step[<<s, g[s \ {pick[s]}]>>]
    <3>1. s \in Parts(S) /\ pick[s] \in s BY <2>4 DEF Parts
    <3>2. s \ {pick[s]} \in SUBSET S /\ Cardinality(s \ {pick[s]}) <= n
      BY <3>1, <2>4, SmallerPart
    <3>3. g[s \ {pick[s]}] = f[s \ {pick[s]}] BY <3>2, <2>3
    <3> QED BY <3>3, <2>4
  <2>5. Good(g, n + 1) BY <2>4
  <2>6. n + 1 \in Nat /\ \E h \in [SUBSET S -> T] : Good(h, n + 1)
    <3> HIDE DEF g, Good
    <3> QED BY <2>2, <2>5
  <2> QED BY <2>6
<1>3. Cardinality(S) \in P
  <2> HIDE DEF P
  <2>1. Nat \subseteq P BY <1>1, <1>2, SetInduction
  <2> QED BY <2>1, <1>0
<1>4. PICK f \in [SUBSET S -> T] : Good(f, Cardinality(S)) BY <1>3
<1>5. \A s \in SUBSET S : Cardinality(s) <= Cardinality(S) BY FS_Subset
<1> QED BY <1>4, <1>5

---------------------------------------------------------------------------
(* Sums of a function over a finite set.                                    *)

(* total has the sum of f over every part of S.                             *)
SumBy(total, f, S, pick) ==
    /\ total \in [SUBSET S -> Int] /\ total[{}] = 0
    /\ \A s \in Parts(S) : total[s] = f[pick[s]] + total[s \ {pick[s]}]
SumOf(total, f, S) ==
    /\ total \in [SUBSET S -> Int] /\ total[{}] = 0
    /\ \A s \in SUBSET S : \A x \in s : total[s] = f[x] + total[s \ {x}]

(* Whatever element a sum begins with, it is the same.                      *)
LEMMA SumAny ==
    ASSUME NEW S, IsFiniteSet(S), NEW f \in [S -> Int], NEW total, NEW pick, Picks(pick, S),
           SumBy(total, f, S, pick)
    PROVE  SumOf(total, f, S)
<1> USE DEF SumBy, SumOf
<1> DEFINE Q == {s \in SUBSET S : \A x \in s : total[s] = f[x] + total[s \ {x}]}
<1>1. {} \in Q OBVIOUS
<1>2. ASSUME NEW s \in Parts(S), \A x \in s : s \ {x} \in Q PROVE s \in Q
  <2> SUFFICES ASSUME NEW x \in s PROVE total[s] = f[x] + total[s \ {x}]
    BY DEF Parts
  <2>1. PICK y \in s : total[s] = f[y] + total[s \ {y}]
    BY DEF Picks
  <2>2. CASE x = y BY <2>1, <2>2
  <2>3. CASE x # y
    <3>1. x \in s \ {y} /\ y \in s \ {x} BY <2>1, <2>3
    <3>2. PICK rest \in SUBSET S : rest = (s \ {x}) \ {y} /\ rest = (s \ {y}) \ {x}
      BY DEF Parts
    <3>3. total[s \ {y}] = f[x] + total[rest] /\ total[s \ {x}] = f[y] + total[rest]
      <4>1. s \ {x} \in Q /\ s \ {y} \in Q BY <1>2
      <4> QED BY <4>1, <3>1, <3>2
    <3>4. f[x] \in Int /\ f[y] \in Int /\ total[rest] \in Int BY DEF Parts
    <3> QED BY <2>1, <3>3, <3>4
  <2> QED BY <2>2, <2>3
<1>3. SUBSET S \subseteq Q
  <2>1. Inductive(Q, S) BY <1>1, <1>2 DEF Inductive
  <2> QED BY <2>1, PartInduction
<1> QED BY <1>3

(* Functions that agree on a set have the same sum over it.                 *)
LEMMA SumSame ==
    ASSUME NEW S, IsFiniteSet(S), NEW f, NEW g, NEW a, NEW b, SumOf(a, f, S), SumOf(b, g, S),
           NEW D \in SUBSET S, \A x \in D : f[x] = g[x]
    PROVE  a[D] = b[D]
<1> USE DEF SumOf
<1> DEFINE Q == {s \in SUBSET D : a[s] = b[s]}
<1>1. {} \in Q OBVIOUS
<1>2. ASSUME NEW s \in Parts(D), \A x \in s : s \ {x} \in Q PROVE s \in Q
  <2>1. PICK x \in s : x \in D /\ s \in SUBSET S BY DEF Parts
  <2>2. a[s \ {x}] = b[s \ {x}] BY <1>2
  <2>3. a[s] = f[x] + a[s \ {x}] /\ b[s] = g[x] + b[s \ {x}] BY <2>1
  <2>4. a[s] = b[s] BY <2>1, <2>2, <2>3
  <2> QED BY <2>4 DEF Parts
<1>3. SUBSET D \subseteq Q
  <2>1. Inductive(Q, D) BY <1>1, <1>2 DEF Inductive
  <2> QED BY <2>1, PartInduction, FS_Subset
<1> QED BY <1>3

Sum(f) == FoldFunction(+, 0, f)

(* The partial sums behind a sum.                                           *)
LEMMA SumParts ==
    ASSUME NEW S, IsFiniteSet(S), NEW f \in [S -> Nat]
    PROVE  \E part \in [SUBSET S -> Nat] :
              SumOf(part, f, S) /\ Sum(f) = part[S]
<1> DEFINE First(s) == CHOOSE x \in s : TRUE
           Recursive(part) ==
               part = [s \in SUBSET S |-> IF s = {} THEN 0 ELSE f[First(s)] + part[s \ {First(s)}]]
<1>1. \A s \in Parts(S) : First(s) \in s BY DEF Parts
<1>2. \E part \in [SUBSET S -> Nat] : Recursive(part)
  <2> DEFINE pick == [s \in Parts(S) |-> First(s)]
             step == [p \in Parts(S) \X Nat |-> f[pick[p[1]]] + p[2]]
  <2> HIDE DEF First
  <2>1. Picks(pick, S) /\ \A s \in Parts(S) : pick[s] = First(s)
    BY <1>1 DEF Parts, Picks
  <2>2. step \in [Parts(S) \X Nat -> Nat]
    <3> HIDE DEF pick
    <3>1. \A p \in Parts(S) \X Nat : f[pick[p[1]]] + p[2] \in Nat BY <2>1 DEF Picks
    <3> QED BY <3>1
  <2>3. \A s \in Parts(S), n \in Nat : step[<<s, n>>] = f[First(s)] + n BY <2>1
  <2> HIDE DEF pick, step
  <2>4. PICK part \in [SUBSET S -> Nat] : IsFold(part, S, 0, pick, step)
    BY <2>1, <2>2, FoldExists
  <2>5. \A s \in Parts(S) : part[s] = f[First(s)] + part[s \ {First(s)}]
    <3> SUFFICES ASSUME NEW s \in Parts(S) PROVE part[s] = f[First(s)] + part[s \ {First(s)}]
      OBVIOUS
    <3>1. s \in SUBSET S /\ s # {} /\ pick[s] = First(s) BY <2>1 DEF Parts
    <3>2. part[s \ {First(s)}] \in Nat BY <3>1
    <3> QED BY <3>1, <3>2, <2>3, <2>4 DEF IsFold
  <2>6. part[{}] = 0 BY <2>4 DEF IsFold
  <2>7. Recursive(part) BY <2>5, <2>6 DEF Parts
  <2> QED BY <2>7
<1> DEFINE iter == CHOOSE part : Recursive(part)
<1>3. Sum(f) = iter[S]
  BY DEF Sum, FoldFunction, FoldFunctionOnSet, MapThenFoldSet
<1>4. PICK whole \in [SUBSET S -> Nat] : Recursive(whole) BY <1>2
<1>5. Recursive(iter)
  <2> HIDE DEF Recursive
  <2> QED BY <1>4
<1>6. iter = whole
  <2> DEFINE Q == {s \in SUBSET S : iter[s] = whole[s]}
  <2> HIDE DEF iter, First
  <2>1. {} \in Q BY <1>4, <1>5
  <2>2. ASSUME NEW s \in Parts(S), \A x \in s : s \ {x} \in Q PROVE s \in Q
    <3>1. First(s) \in s /\ s \in SUBSET S /\ s # {} BY <1>1 DEF Parts
    <3>2. iter[s \ {First(s)}] = whole[s \ {First(s)}] BY <3>1, <2>2
    <3>3. iter[s] = whole[s] BY <3>1, <3>2, <1>4, <1>5
    <3> QED BY <3>1, <3>3
  <2>3. SUBSET S \subseteq Q
    <3>1. Inductive(Q, S) BY <2>1, <2>2 DEF Inductive
    <3> QED BY <3>1, PartInduction
  <2> QED BY <2>3, <1>4, <1>5
<1>7. whole[{}] = 0 BY <1>4
<1>8. \A s \in Parts(S) : whole[s] = f[First(s)] + whole[s \ {First(s)}] BY <1>4 DEF Parts
<1>9. SumOf(whole, f, S)
  <2> DEFINE pick == [s \in Parts(S) |-> First(s)]
  <2> HIDE DEF First
  <2>1. Picks(pick, S) BY <1>1 DEF Parts, Picks
  <2>2. SumBy(whole, f, S, pick) BY <1>1, <1>7, <1>8 DEF SumBy
  <2> HIDE DEF pick
  <2>3. f \in [S -> Int] OBVIOUS
  <2> QED BY <2>1, <2>2, <2>3, SumAny
<1> QED BY <1>3, <1>6, <1>9

(* What a sum is after one of its terms changed.                            *)
LEMMA SumExcept ==
    ASSUME NEW S, IsFiniteSet(S), NEW f \in [S -> Nat], NEW n \in S, NEW v \in Nat
    PROVE  /\ Sum(f) \in Nat /\ f[n] <= Sum(f)
           /\ Sum([f EXCEPT ![n] = v]) = Sum(f) - f[n] + v
<1> DEFINE g == [f EXCEPT ![n] = v]
<1>1. g \in [S -> Nat] /\ g[n] = v /\ \A x \in S \ {n} : f[x] = g[x] OBVIOUS
<1> HIDE DEF g
<1>2. PICK a \in [SUBSET S -> Nat] : SumOf(a, f, S) /\ Sum(f) = a[S] BY SumParts
<1>3. PICK b \in [SUBSET S -> Nat] : SumOf(b, g, S) /\ Sum(g) = b[S] BY <1>1, SumParts
<1>4. a[S \ {n}] = b[S \ {n}] BY <1>1, <1>2, <1>3, SumSame
<1>5. a[S] = f[n] + a[S \ {n}] /\ b[S] = g[n] + b[S \ {n}] BY <1>2, <1>3 DEF SumOf
<1>6. a[S \ {n}] \in Nat /\ f[n] \in Nat /\ g[n] = v BY <1>1
<1>7. Sum(f) = f[n] + a[S \ {n}] /\ Sum(g) = v + a[S \ {n}] BY <1>2, <1>3, <1>4, <1>5, <1>6
<1> QED BY <1>6, <1>7 DEF g

LEMMA SumZero ==
    ASSUME NEW S, IsFiniteSet(S), NEW f \in [S -> Nat], \A x \in S : f[x] = 0
    PROVE  Sum(f) = 0
<1>1. PICK a \in [SUBSET S -> Nat] : SumOf(a, f, S) /\ Sum(f) = a[S] BY SumParts
<1> DEFINE zero == [s \in SUBSET S |-> 0]
<1>2. SumOf(zero, f, S) BY DEF SumOf
<1>3. zero[S] = 0 OBVIOUS
<1> HIDE DEF zero
<1>4. a[S] = zero[S] BY <1>1, <1>2, SumSame
<1> QED BY <1>1, <1>3, <1>4

---------------------------------------------------------------------------
(* A fold over a sequence takes its positions from the last one down.       *)

LEMMA MaxIsThere ==
    ASSUME NEW n \in Nat
    PROVE  \A s \in Parts(1 .. n) : Max(s) \in s /\ \A y \in s : Max(s) >= y
<1> DEFINE HasMax(s) == \E x \in s : \A y \in s : x >= y
           Q == {{}} \cup {s \in Parts(1 .. n) : HasMax(s)}
<1>0. ASSUME NEW s \in Parts(1 .. n), NEW x \in s, \A y \in s : x >= y PROVE s \in Q
  BY <1>0
<1>1. ASSUME NEW s \in Parts(1 .. n), \A x \in s : s \ {x} \in Q PROVE s \in Q
  <2>1. PICK x \in s : x \in 1 .. n BY DEF Parts
  <2>2. s \ {x} \in Q BY <1>1
  <2>3. CASE s \ {x} = {}
    <3>1. \A y \in s : x >= y BY <2>1, <2>3
    <3> QED BY <3>1, <1>0
  <2>4. CASE s \ {x} # {}
    <3>1. PICK z \in s \ {x} : \A y \in s \ {x} : z >= y BY <2>2, <2>4
    <3>2. z \in 1 .. n BY DEF Parts
    <3>3. CASE z >= x
      <4>1. \A y \in s : z >= y BY <3>1, <3>3
      <4> QED BY <4>1, <1>0
    <3>4. CASE x >= z
      <4>1. \A y \in s : y \in 1 .. n BY DEF Parts
      <4>2. \A y \in s : x >= y BY <2>1, <3>1, <3>2, <3>4, <4>1
      <4> QED BY <4>2, <1>0
    <3> HIDE DEF Q
    <3>5. z >= x \/ x >= z BY <2>1, <3>2
    <3> QED BY <3>3, <3>4, <3>5
  <2> QED BY <2>3, <2>4
<1>2. Inductive(Q, 1 .. n) BY <1>1 DEF Inductive
<1>3. SUBSET (1 .. n) \subseteq Q
  <2>1. IsFiniteSet(1 .. n) BY FS_Interval
  <2> HIDE DEF Q
  <2> QED BY <1>2, <2>1, PartInduction
<1>4. \A s \in Parts(1 .. n) : HasMax(s) BY <1>3 DEF Parts
<1> QED BY <1>4 DEF Max

(* iter is what FoldLeft over n positions computes with, whose step takes a *)
(* position and a value of T; the last value comes by n steps from base.    *)
FoldStep(iter, n, T, step) ==
    \A s \in Parts(1 .. n) : LET rest == s \ {Max(s)}
                             IN  iter[rest] \in T => iter[s] = step[<<Max(s), iter[rest]>>]

Walk(g, n, base, step) == g[0] = base /\ \A k \in 1 .. n : g[k] = step[<<k, g[k - 1]>>]

LEMMA FoldLeftExists ==
    ASSUME NEW n \in Nat, NEW T, NEW base \in T, NEW step \in [(1 .. n) \X T -> T]
    PROVE  \E f \in [SUBSET (1 .. n) -> T] : f[{}] = base /\ FoldStep(f, n, T, step)
<1> DEFINE S == 1 .. n
           pick == [s \in Parts(S) |-> Max(s)]
           step2 == [p \in Parts(S) \X T |-> step[<<Max(p[1]), p[2]>>]]
<1>1. IsFiniteSet(S) BY FS_Interval
<1>2. \A s \in Parts(S) : Max(s) \in s /\ Max(s) \in S BY MaxIsThere DEF Parts
<1> HIDE DEF S
<1>3. Picks(pick, S) BY <1>2 DEF Picks
<1>4. step2 \in [Parts(S) \X T -> T]
  <2>1. \A p \in Parts(S) \X T : step[<<Max(p[1]), p[2]>>] \in T BY <1>2 DEF S
  <2> QED BY <2>1
<1>5. \A s \in Parts(S), t \in T : step2[<<s, t>>] = step[<<Max(s), t>>] /\ pick[s] = Max(s)
  OBVIOUS
<1> HIDE DEF pick, step2
<1>6. PICK f \in [SUBSET S -> T] : IsFold(f, S, base, pick, step2)
  BY <1>1, <1>3, <1>4, FoldExists
<1>7. f[{}] = base BY <1>6 DEF IsFold
<1>8. ASSUME NEW s \in Parts(S), f[s \ {Max(s)}] \in T
      PROVE  f[s] = step[<<Max(s), f[s \ {Max(s)}]>>]
  <2>1. s \in SUBSET S /\ s # {} BY DEF Parts
  <2>2. f[s] = step2[<<s, f[s \ {pick[s]}]>>] BY <1>6, <2>1 DEF IsFold
  <2> QED BY <2>2, <1>5, <1>8
<1> QED BY <1>7, <1>8 DEF FoldStep, S

LEMMA FoldLeftWalks ==
    ASSUME NEW n \in Nat, NEW T, NEW base \in T, NEW step \in [(1 .. n) \X T -> T],
           NEW iter, iter[{}] = base, FoldStep(iter, n, T, step)
    PROVE  \E g \in [0 .. n -> T] : Walk(g, n, base, step) /\ iter[1 .. n] = g[n]
<1> DEFINE P == {m \in Nat : m <= n => iter[1 .. m] \in T}
<1>0. \A k \in 1 .. n : /\ 1 .. k \in Parts(1 .. n)
                        /\ Max(1 .. k) = k /\ (1 .. k) \ {k} = 1 .. k - 1
  <2> SUFFICES ASSUME NEW k \in 1 .. n
               PROVE  1 .. k \in Parts(1 .. n) /\ Max(1 .. k) = k /\ (1 .. k) \ {k} = 1 .. k - 1
    OBVIOUS
  <2>1. 1 .. k \in Parts(1 .. n) BY DEF Parts
  <2>2. Max(1 .. k) \in 1 .. k /\ Max(1 .. k) >= k BY <2>1, MaxIsThere
  <2> QED BY <2>1, <2>2
<1>1. 1 .. 0 = {} OBVIOUS
<1>2. 0 \in P BY <1>1
<1>3. \A k \in 1 .. n : iter[1 .. k - 1] \in T => iter[1 .. k] = step[<<k, iter[1 .. k - 1]>>]
  BY <1>0 DEF FoldStep
<1>4. ASSUME NEW m \in Nat, m \in P PROVE m + 1 \in P
  <2> SUFFICES ASSUME m + 1 <= n PROVE iter[1 .. m + 1] \in T
    OBVIOUS
  <2>1. m + 1 \in 1 .. n /\ (m + 1) - 1 = m /\ iter[1 .. m] \in T BY <1>4
  <2>2. iter[1 .. m + 1] = step[<<m + 1, iter[1 .. m]>>] BY <2>1, <1>3
  <2> QED BY <2>1, <2>2
<1>5. Nat \subseteq P
  <2> HIDE DEF P
  <2> QED BY <1>2, <1>4, SetInduction
<1> DEFINE g == [m \in 0 .. n |-> iter[1 .. m]]
<1>6. g \in [0 .. n -> T] BY <1>5
<1>7. Walk(g, n, base, step)
  <2>1. g[0] = base BY <1>1
  <2>2. \A k \in 1 .. n : k - 1 \in 0 .. n /\ k \in 0 .. n OBVIOUS
  <2>3. \A k \in 1 .. n : g[k] = step[<<k, g[k - 1]>>] BY <1>3, <1>5, <2>2
  <2> QED BY <2>1, <2>3 DEF Walk
<1>8. iter[1 .. n] = g[n] OBVIOUS
<1> QED BY <1>6, <1>7, <1>8

LEMMA WalkExists ==
    ASSUME NEW n \in Nat, NEW T, NEW base \in T, NEW step \in [(1 .. n) \X T -> T]
    PROVE  \E g \in [0 .. n -> T] : Walk(g, n, base, step)
<1>1. PICK f \in [SUBSET (1 .. n) -> T] : f[{}] = base /\ FoldStep(f, n, T, step)
  BY FoldLeftExists
<1> QED BY <1>1, FoldLeftWalks

(* A function that goes by the same steps takes the same values.            *)
IsWalk(g, n, T, base, step) == n \in Nat /\ g \in [0 .. n -> T] /\ Walk(g, n, base, step)
Follows(h, n, T, base, step) ==
    h[0] = base /\ \A k \in 1 .. n : h[k - 1] \in T => h[k] = step[<<k, h[k - 1]>>]

LEMMA WalkSame ==
    ASSUME NEW n, NEW T, NEW base, NEW step, NEW g, NEW h,
           IsWalk(g, n, T, base, step), Follows(h, n, T, base, step)
    PROVE  h[n] = g[n]
<1>0. n \in Nat /\ g \in [0 .. n -> T] /\ Walk(g, n, base, step) BY DEF IsWalk
<1> DEFINE P == {k \in Nat : k <= n => h[k] = g[k]}
<1>1. 0 \in P BY <1>0 DEF Walk, Follows
<1>2. ASSUME NEW k \in Nat, k \in P PROVE k + 1 \in P
  <2> SUFFICES ASSUME k + 1 <= n PROVE h[k + 1] = g[k + 1]
    OBVIOUS
  <2>1. k + 1 \in 1 .. n /\ (k + 1) - 1 = k /\ k \in 0 .. n BY <1>0
  <2>2. h[k] = g[k] /\ g[k] \in T BY <1>0, <1>2, <2>1
  <2>3. h[k + 1] = step[<<k + 1, h[k]>>] BY <2>1, <2>2 DEF Follows
  <2>4. g[k + 1] = step[<<k + 1, g[k]>>] BY <1>0, <2>1 DEF Walk
  <2> QED BY <2>2, <2>3, <2>4
<1>3. Nat \subseteq P
  <2> HIDE DEF P
  <2> QED BY <1>1, <1>2, SetInduction
<1> QED BY <1>0, <1>3

---------------------------------------------------------------------------
(* Only, member by member.                                                  *)

Kept(k, s, T) ==
    /\ k[0] = <<>>
    /\ \A n \in 1 .. Len(s) : k[n] = IF s[n] \in T THEN Append(k[n - 1], s[n]) ELSE k[n - 1]

LEMMA OnlyWalks ==
    ASSUME NEW E, NEW s \in Seq(E), NEW T
    PROVE  \E k \in [0 .. Len(s) -> Seq(E)] : Kept(k, s, T) /\ Only(s, T) = k[Len(s)]
<1> DEFINE n == Len(s)
           Keep(i, acc) == IF s[i] \in T THEN Append(acc, s[i]) ELSE acc
           step == [p \in (1 .. n) \X Seq(E) |-> Keep(p[1], p[2])]
           Recursive(k) == k = [i \in 0 .. n |-> IF i = 0 THEN <<>>
                                    ELSE IF s[i] \in T THEN Append(k[i - 1], s[i]) ELSE k[i - 1]]
           kept == CHOOSE k : Recursive(k)
<1>0. n \in Nat /\ \A i \in 1 .. n : s[i] \in E BY LenProperties, ElementOfSeq
<1>1. step \in [(1 .. n) \X Seq(E) -> Seq(E)]
  <2>1. \A i \in 1 .. n, acc \in Seq(E) : Keep(i, acc) \in Seq(E) BY <1>0, AppendProperties
  <2> HIDE DEF Keep
  <2> QED BY <2>1
<1>2. \A i \in 1 .. n, acc \in Seq(E) : step[<<i, acc>>] = Keep(i, acc) OBVIOUS
<1>3. <<>> \in Seq(E) BY EmptySeq
<1> HIDE DEF n, step
<1>4. PICK g \in [0 .. n -> Seq(E)] : Walk(g, n, <<>>, step) BY <1>0, <1>1, <1>3, WalkExists
<1>5. \A i \in 1 .. n : i - 1 \in 0 .. n /\ i \in 0 .. n BY <1>0
<1>6. \A i \in 1 .. n : g[i] = Keep(i, g[i - 1])
  <2> HIDE DEF Keep
  <2> QED BY <1>2, <1>4, <1>5 DEF Walk
<1>7. Recursive(g)
  <2>1. g = [i \in 0 .. n |-> g[i]] OBVIOUS
  <2>2. \A i \in 0 .. n : g[i] = IF i = 0 THEN <<>>
                                 ELSE IF s[i] \in T THEN Append(g[i - 1], s[i]) ELSE g[i - 1]
    <3> TAKE i \in 0 .. n
    <3>1. CASE i = 0 BY <3>1, <1>4 DEF Walk
    <3>2. CASE i # 0
      <4>1. i \in 1 .. n BY <3>2, <1>0
      <4> QED BY <4>1, <3>2, <1>6
    <3> QED BY <3>1, <3>2
  <2> QED BY <2>1, <2>2
<1>8. Recursive(kept)
  <2> HIDE DEF Recursive
  <2> QED BY <1>7
<1>9. Only(s, T) = kept[n] BY DEF Only, n
<1> HIDE DEF kept
<1>10. \A i \in 0 .. n : kept[i] = IF i = 0 THEN <<>> ELSE Keep(i, kept[i - 1])
  <2> DEFINE value(k) == [i \in 0 .. n |-> IF i = 0 THEN <<>>
                                          ELSE IF s[i] \in T THEN Append(k[i - 1], s[i]) ELSE k[i - 1]]
  <2>1. kept = value(kept) BY <1>8
  <2>2. \A i \in 0 .. n : value(kept)[i] = IF i = 0 THEN <<>> ELSE Keep(i, kept[i - 1])
    OBVIOUS
  <2> HIDE DEF value
  <2> QED BY <2>1, <2>2
<1> HIDE DEF Recursive
<1>11. kept[n] = g[n]
  <2>1. kept[0] = <<>> BY <1>0, <1>10
  <2>2. \A i \in 1 .. n : kept[i - 1] \in Seq(E) => kept[i] = step[<<i, kept[i - 1]>>]
    <3> HIDE DEF Keep
    <3> QED BY <1>0, <1>2, <1>5, <1>10
  <2>3. Follows(kept, n, Seq(E), <<>>, step) BY <2>1, <2>2 DEF Follows
  <2>4. IsWalk(g, n, Seq(E), <<>>, step) BY <1>0, <1>4 DEF IsWalk
  <2> HIDE DEF Keep
  <2> QED BY <2>3, <2>4, WalkSame
<1>12. Kept(g, s, T) BY <1>4, <1>6 DEF Kept, Walk, n
<1> QED BY <1>0, <1>9, <1>11, <1>12 DEF n

(* What holds of the first members kept out of the first n.                 *)
KeptWell(r, s, n, T) ==
    /\ Len(r) <= n
    /\ \A k \in 1 .. Len(r) : r[k] \in T /\ \E j \in 1 .. n : r[k] = s[j]
    /\ Len(r) = n => \A k \in 1 .. n : r[k] = s[k]
    /\ \A j \in 1 .. n : s[j] \in T => \E k \in 1 .. Len(r) : r[k] = s[j]
    /\ (\A k \in 1 .. n : s[k] \in T) => Len(r) = n

LEMMA KeptStep ==
    ASSUME NEW E, NEW s \in Seq(E), NEW T, NEW n \in Nat, n + 1 <= Len(s),
           NEW r \in Seq(E), KeptWell(r, s, n, T)
    PROVE  KeptWell(IF s[n + 1] \in T THEN Append(r, s[n + 1]) ELSE r, s, n + 1, T)
<1>1. s[n + 1] \in E /\ Len(r) \in Nat BY ElementOfSeq, LenProperties
<1>2. CASE s[n + 1] \notin T
  <2>1. \A k \in 1 .. n : k \in 1 .. n + 1 OBVIOUS
  <2>2. \A k \in 1 .. Len(r) : r[k] \in T /\ \E j \in 1 .. n + 1 : r[k] = s[j]
    BY <2>1 DEF KeptWell
  <2>3. \A j \in 1 .. n + 1 : s[j] \in T => \E k \in 1 .. Len(r) : r[k] = s[j]
    BY <1>2 DEF KeptWell
  <2>4. Len(r) <= n BY DEF KeptWell
  <2>6. ~ \A k \in 1 .. n + 1 : s[k] \in T BY <1>2
  <2>5. KeptWell(r, s, n + 1, T) BY <2>2, <2>3, <2>4, <2>6, <1>1 DEF KeptWell
  <2> QED BY <2>5, <1>2
<1>3. CASE s[n + 1] \in T
  <2> DEFINE a == Append(r, s[n + 1])
  <2>1. /\ Len(a) = Len(r) + 1 /\ a[Len(r) + 1] = s[n + 1]
        /\ \A k \in 1 .. Len(r) : a[k] = r[k]
    BY <1>1, AppendProperties
  <2> HIDE DEF a
  <2>2. \A k \in 1 .. Len(a) : k \in 1 .. Len(r) \/ k = Len(r) + 1 BY <1>1, <2>1
  <2>3. \A k \in 1 .. Len(a) : a[k] \in T /\ \E j \in 1 .. n + 1 : a[k] = s[j]
    <3> TAKE k \in 1 .. Len(a)
    <3>1. CASE k \in 1 .. Len(r)
      <4>1. r[k] \in T /\ \E j \in 1 .. n : r[k] = s[j] BY <3>1 DEF KeptWell
      <4>2. \A j \in 1 .. n : j \in 1 .. n + 1 OBVIOUS
      <4> QED BY <4>1, <4>2, <3>1, <2>1
    <3>2. CASE k = Len(r) + 1
      <4>1. n + 1 \in 1 .. n + 1 OBVIOUS
      <4> QED BY <4>1, <3>2, <2>1, <1>3
    <3> QED BY <3>1, <3>2, <2>2
  <2>4. Len(a) <= n + 1 BY <1>1, <2>1 DEF KeptWell
  <2>5. Len(a) = n + 1 => \A k \in 1 .. n + 1 : a[k] = s[k]
    <3> SUFFICES ASSUME Len(r) = n, NEW k \in 1 .. n + 1 PROVE a[k] = s[k]
      BY <1>1, <2>1
    <3>1. CASE k = n + 1 BY <3>1, <2>1
    <3>2. CASE k \in 1 .. n BY <3>2, <2>1 DEF KeptWell
    <3> QED BY <3>1, <3>2
  <2>6. \A j \in 1 .. n + 1 : s[j] \in T => \E k \in 1 .. Len(a) : a[k] = s[j]
    <3> SUFFICES ASSUME NEW j \in 1 .. n + 1, s[j] \in T PROVE \E k \in 1 .. Len(a) : a[k] = s[j]
      OBVIOUS
    <3>1. Len(r) + 1 \in 1 .. Len(a) /\ \A k \in 1 .. Len(r) : k \in 1 .. Len(a) BY <1>1, <2>1
    <3>2. CASE j = n + 1 BY <3>1, <3>2, <2>1
    <3>3. CASE j \in 1 .. n
      <4>1. PICK k \in 1 .. Len(r) : r[k] = s[j] BY <3>3 DEF KeptWell
      <4> QED BY <4>1, <3>1, <2>1
    <3> QED BY <3>2, <3>3
  <2>7. (\A k \in 1 .. n + 1 : s[k] \in T) => Len(a) = n + 1
    <3> SUFFICES ASSUME \A k \in 1 .. n + 1 : s[k] \in T PROVE Len(a) = n + 1
      OBVIOUS
    <3>1. \A k \in 1 .. n : s[k] \in T OBVIOUS
    <3> QED BY <3>1, <2>1 DEF KeptWell
  <2>8. KeptWell(a, s, n + 1, T) BY <2>3, <2>4, <2>5, <2>6, <2>7 DEF KeptWell
  <2> QED BY <2>8, <1>3 DEF a
<1> QED BY <1>2, <1>3

(* What Only returns: the members of s that are in T, all of s when it      *)
(* returns as many or when all are in T.                                    *)
LEMMA OnlyFacts ==
    ASSUME NEW E, NEW s \in Seq(E), NEW T
    PROVE  /\ Only(s, T) \in Seq(E)
           /\ Len(Only(s, T)) <= Len(s)
           /\ \A k \in 1 .. Len(Only(s, T)) :
                 Only(s, T)[k] \in T /\ \E j \in 1 .. Len(s) : Only(s, T)[k] = s[j]
           /\ \A j \in 1 .. Len(s) : s[j] \in T =>
                 \E k \in 1 .. Len(Only(s, T)) : Only(s, T)[k] = s[j]
           /\ Len(Only(s, T)) = Len(s) => Only(s, T) = s
           /\ Only(s, T) = <<>> <=> \A k \in 1 .. Len(s) : s[k] \notin T
           /\ (\A k \in 1 .. Len(s) : s[k] \in T) => Only(s, T) = s
<1>1. PICK g \in [0 .. Len(s) -> Seq(E)] : Kept(g, s, T) /\ Only(s, T) = g[Len(s)]
  BY OnlyWalks
<1>2. Len(s) \in Nat BY LenProperties
<1> DEFINE P == {n \in Nat : n <= Len(s) => KeptWell(g[n], s, n, T)}
<1>3. 0 \in P
  <2>1. g[0] = <<>> BY <1>1 DEF Kept
  <2>2. Len(<<>>) = 0 OBVIOUS
  <2>3. KeptWell(<<>>, s, 0, T) BY <2>2 DEF KeptWell
  <2> QED BY <2>1, <2>3
<1>4. ASSUME NEW n \in Nat, n \in P PROVE n + 1 \in P
  <2> SUFFICES ASSUME n + 1 <= Len(s) PROVE KeptWell(g[n + 1], s, n + 1, T)
    OBVIOUS
  <2>1. n + 1 \in 1 .. Len(s) /\ n \in 0 .. Len(s) /\ (n + 1) - 1 = n BY <1>2
  <2>2. KeptWell(g[n], s, n, T) /\ g[n] \in Seq(E) BY <1>4, <2>1
  <2>3. g[n + 1] = IF s[n + 1] \in T THEN Append(g[n], s[n + 1]) ELSE g[n]
    BY <1>1, <2>1 DEF Kept
  <2> QED BY <2>2, <2>3, KeptStep
<1>5. Nat \subseteq P
  <2> HIDE DEF P
  <2> QED BY <1>3, <1>4, SetInduction
<1> DEFINE r == Only(s, T)
<1>6. KeptWell(r, s, Len(s), T) /\ r \in Seq(E) BY <1>1, <1>2, <1>5
<1> HIDE DEF r
<1>7. Len(r) = Len(s) => r = s
  <2> SUFFICES ASSUME Len(r) = Len(s) PROVE r = s
    OBVIOUS
  <2>1. \A k \in 1 .. Len(s) : r[k] = s[k] BY <1>6 DEF KeptWell
  <2> QED BY <2>1, <1>6, SeqEqual
<1>8. Len(r) = 0 <=> r = <<>> BY <1>6, EmptySeq
<1>9. Len(r) # 0 => \E k \in 1 .. Len(s) : s[k] \in T
  <2> SUFFICES ASSUME Len(r) # 0 PROVE \E k \in 1 .. Len(s) : s[k] \in T
    OBVIOUS
  <2>1. 1 \in 1 .. Len(r) BY <1>6, LenProperties
  <2> QED BY <2>1, <1>6 DEF KeptWell
<1>10. Len(r) = 0 => \A k \in 1 .. Len(s) : s[k] \notin T BY <1>6 DEF KeptWell
<1>11. /\ Len(r) <= Len(s)
       /\ \A k \in 1 .. Len(r) : r[k] \in T /\ \E j \in 1 .. Len(s) : r[k] = s[j]
       /\ \A j \in 1 .. Len(s) : s[j] \in T => \E k \in 1 .. Len(r) : r[k] = s[j]
       /\ (\A k \in 1 .. Len(s) : s[k] \in T) => Len(r) = Len(s)
  BY <1>6 DEF KeptWell
<1> QED BY <1>6, <1>7, <1>8, <1>9, <1>10, <1>11 DEF r

(* Two sets that agree on the members of s.                                 *)
LEMMA OnlySame ==
    ASSUME NEW E, NEW s \in Seq(E), NEW T, NEW U, \A j \in 1 .. Len(s) : s[j] \in T <=> s[j] \in U
    PROVE  Only(s, T) = Only(s, U)
<1>1. PICK g \in [0 .. Len(s) -> Seq(E)] : Kept(g, s, T) /\ Only(s, T) = g[Len(s)]
  BY OnlyWalks
<1>2. PICK h \in [0 .. Len(s) -> Seq(E)] : Kept(h, s, U) /\ Only(s, U) = h[Len(s)]
  BY OnlyWalks
<1>3. Len(s) \in Nat BY LenProperties
<1> DEFINE P == {n \in Nat : n <= Len(s) => g[n] = h[n]}
<1>4. 0 \in P BY <1>1, <1>2 DEF Kept
<1>5. ASSUME NEW n \in Nat, n \in P PROVE n + 1 \in P
  <2> SUFFICES ASSUME n + 1 <= Len(s) PROVE g[n + 1] = h[n + 1]
    OBVIOUS
  <2>1. n + 1 \in 1 .. Len(s) /\ (n + 1) - 1 = n BY <1>3
  <2>2. g[n] = h[n] BY <1>5, <2>1
  <2> QED BY <1>1, <1>2, <2>1, <2>2 DEF Kept
<1>6. Nat \subseteq P
  <2> HIDE DEF P
  <2> QED BY <1>4, <1>5, SetInduction
<1> QED BY <1>1, <1>2, <1>3, <1>6

(* Two sets that share the members of s out.                                *)
LEMMA OnlySplit ==
    ASSUME NEW E, NEW s \in Seq(E), NEW T, NEW U,
           \A j \in 1 .. Len(s) : s[j] \in T <=> s[j] \notin U
    PROVE  Len(Only(s, T)) + Len(Only(s, U)) = Len(s)
<1>1. PICK g \in [0 .. Len(s) -> Seq(E)] : Kept(g, s, T) /\ Only(s, T) = g[Len(s)]
  BY OnlyWalks
<1>2. PICK h \in [0 .. Len(s) -> Seq(E)] : Kept(h, s, U) /\ Only(s, U) = h[Len(s)]
  BY OnlyWalks
<1>3. Len(s) \in Nat BY LenProperties
<1> DEFINE P == {n \in Nat : n <= Len(s) => Len(g[n]) + Len(h[n]) = n}
<1>4. 0 \in P BY <1>1, <1>2, EmptySeq DEF Kept
<1>5. ASSUME NEW n \in Nat, n \in P PROVE n + 1 \in P
  <2> SUFFICES ASSUME n + 1 <= Len(s) PROVE Len(g[n + 1]) + Len(h[n + 1]) = n + 1
    OBVIOUS
  <2>1. n + 1 \in 1 .. Len(s) /\ (n + 1) - 1 = n /\ n \in 0 .. Len(s) BY <1>3
  <2>2. s[n + 1] \in E /\ g[n] \in Seq(E) /\ h[n] \in Seq(E) BY <2>1, ElementOfSeq
  <2>3. /\ Len(Append(g[n], s[n + 1])) = Len(g[n]) + 1 /\ Len(g[n]) \in Nat
        /\ Len(Append(h[n], s[n + 1])) = Len(h[n]) + 1 /\ Len(h[n]) \in Nat
    BY <2>2, AppendProperties, LenProperties
  <2>4. Len(g[n]) + Len(h[n]) = n BY <1>5, <2>1
  <2>5. /\ g[n + 1] = IF s[n + 1] \in T THEN Append(g[n], s[n + 1]) ELSE g[n]
        /\ h[n + 1] = IF s[n + 1] \in U THEN Append(h[n], s[n + 1]) ELSE h[n]
    BY <1>1, <1>2, <2>1 DEF Kept
  <2> DEFINE a == Len(g[n])
             b == Len(h[n])
  <2>6. a \in Nat /\ b \in Nat /\ a + b = n /\ (s[n + 1] \in T <=> s[n + 1] \notin U)
    BY <2>1, <2>3, <2>4
  <2>7. CASE s[n + 1] \in T
    <3>1. Len(g[n + 1]) = a + 1 /\ Len(h[n + 1]) = b BY <2>3, <2>5, <2>6, <2>7
    <3> HIDE DEF a, b
    <3> QED BY <3>1, <2>6
  <2>8. CASE s[n + 1] \notin T
    <3>1. Len(g[n + 1]) = a /\ Len(h[n + 1]) = b + 1 BY <2>3, <2>5, <2>6, <2>8
    <3> HIDE DEF a, b
    <3> QED BY <3>1, <2>6
  <2> QED BY <2>7, <2>8
<1>6. Nat \subseteq P
  <2> HIDE DEF P
  <2> QED BY <1>4, <1>5, SetInduction
<1>7. Len(s) \in P BY <1>3, <1>6
<1>8. Len(g[Len(s)]) + Len(h[Len(s)]) = Len(s) BY <1>3, <1>7
<1> QED BY <1>1, <1>2, <1>8

(* A set that has every member of s but the first.                          *)
LEMMA OnlyButFirst ==
    ASSUME NEW E, NEW s \in Seq(E), Len(s) >= 1, NEW T, s[1] \notin T,
           \A j \in 2 .. Len(s) : s[j] \in T
    PROVE  <<s[1]>> \o Only(s, T) = s
<1>1. PICK g \in [0 .. Len(s) -> Seq(E)] : Kept(g, s, T) /\ Only(s, T) = g[Len(s)]
  BY OnlyWalks
<1>2. Len(s) \in Nat /\ \A j \in 1 .. Len(s) : s[j] \in E BY LenProperties, ElementOfSeq
<1> DEFINE P == {n \in Nat : n + 1 <= Len(s) => /\ Len(g[n + 1]) = n
                                               /\ \A j \in 1 .. n : g[n + 1][j] = s[j + 1]}
<1>3. 0 \in P
  <2>1. 1 \in 1 .. Len(s) /\ 1 - 1 = 0 BY <1>2
  <2>2. g[1] = <<>> BY <1>1, <2>1 DEF Kept
  <2> QED BY <2>2, EmptySeq
<1>4. ASSUME NEW n \in Nat, n \in P PROVE n + 1 \in P
  <2> SUFFICES ASSUME (n + 1) + 1 <= Len(s)
               PROVE  /\ Len(g[(n + 1) + 1]) = n + 1
                      /\ \A j \in 1 .. n + 1 : g[(n + 1) + 1][j] = s[j + 1]
    OBVIOUS
  <2> DEFINE m == n + 1
  <2>1. m + 1 \in 2 .. Len(s) /\ m + 1 \in 1 .. Len(s) /\ (m + 1) - 1 = m /\ m \in 0 .. Len(s)
        /\ m = n + 1
    BY <1>2
  <2> HIDE DEF m
  <2>2. /\ g[m] \in Seq(E) /\ s[m + 1] \in E /\ Len(g[m]) = n
        /\ \A j \in 1 .. n : g[m][j] = s[j + 1]
    BY <1>2, <1>4, <2>1
  <2>3. g[m + 1] = Append(g[m], s[m + 1]) BY <1>1, <2>1 DEF Kept
  <2>4. /\ Len(g[m + 1]) = n + 1 /\ g[m + 1][n + 1] = s[m + 1]
        /\ \A j \in 1 .. n : g[m + 1][j] = g[m][j]
    <3> DEFINE a == Append(g[m], s[m + 1])
    <3>1. /\ Len(a) = Len(g[m]) + 1 /\ a[Len(g[m]) + 1] = s[m + 1]
          /\ \A j \in 1 .. Len(g[m]) : a[j] = g[m][j]
      BY <2>2, AppendProperties
    <3> HIDE DEF a
    <3>2. /\ Len(a) = n + 1 /\ a[n + 1] = s[m + 1]
          /\ \A j \in 1 .. n : a[j] = g[m][j]
      BY <2>2, <3>1
    <3> QED BY <2>3, <3>2 DEF a
  <2>5. \A j \in 1 .. n + 1 : g[m + 1][j] = s[j + 1]
    <3> TAKE j \in 1 .. n + 1
    <3>1. CASE j = n + 1 BY <3>1, <2>4, <2>1
    <3>2. CASE j \in 1 .. n BY <3>2, <2>2, <2>4
    <3> QED BY <3>1, <3>2
  <2> QED BY <2>1, <2>4, <2>5
<1>5. Nat \subseteq P
  <2> HIDE DEF P
  <2> QED BY <1>3, <1>4, SetInduction
<1> DEFINE r == Only(s, T)
<1>6. r \in Seq(E) /\ Len(r) = Len(s) - 1 /\ \A j \in 1 .. Len(s) - 1 : r[j] = s[j + 1]
  <2>1. Len(s) - 1 \in Nat /\ (Len(s) - 1) + 1 = Len(s) /\ Len(s) \in 0 .. Len(s) BY <1>2
  <2> DEFINE n == Len(s) - 1
  <2>2. n \in P BY <2>1, <1>5
  <2>3. n + 1 <= Len(s) /\ n + 1 = Len(s) BY <2>1
  <2> HIDE DEF n
  <2>4. Len(g[n + 1]) = n /\ \A j \in 1 .. n : g[n + 1][j] = s[j + 1] BY <2>2, <2>3
  <2>5. r = g[n + 1] /\ r \in Seq(E) BY <1>1, <2>1, <2>3
  <2> HIDE DEF P, r
  <2> QED BY <2>4, <2>5 DEF n
<1> HIDE DEF r
<1> DEFINE q == <<s[1]>> \o r
<1>7. <<s[1]>> \in Seq(E) /\ Len(<<s[1]>>) = 1 /\ <<s[1]>>[1] = s[1] BY <1>2
<1>8. q \in Seq(E) /\ Len(q) = Len(s) /\ \A j \in 1 .. Len(s) : q[j] = s[j]
  <2>1. /\ q \in Seq(E) /\ Len(q) = 1 + Len(r)
        /\ \A j \in 1 .. 1 + Len(r) : q[j] = IF j <= 1 THEN <<s[1]>>[j] ELSE r[j - 1]
    BY <1>6, <1>7, ConcatProperties
  <2> HIDE DEF q
  <2>2. Len(q) = Len(s) BY <1>2, <1>6, <2>1
  <2>3. ASSUME NEW j \in 1 .. Len(s) PROVE q[j] = s[j]
    <3>1. CASE j = 1 BY <3>1, <1>2, <1>6, <1>7, <2>1
    <3>2. CASE j # 1
      <4>1. j - 1 \in 1 .. Len(s) - 1 /\ (j - 1) + 1 = j BY <3>2, <1>2
      <4>2. q[j] = r[j - 1] BY <3>2, <4>1, <1>2, <1>6, <2>1
      <4> QED BY <4>1, <4>2, <1>6
    <3> QED BY <3>1, <3>2
  <2> QED BY <2>1, <2>2, <2>3
<1> HIDE DEF q
<1>9. q = s BY <1>8, SeqEqual
<1> QED BY <1>9 DEF q, r

---------------------------------------------------------------------------
(* FlattenSeq, sequence by sequence.                                        *)

Joins(g, ss) ==
    /\ g[0] = <<>>
    /\ \A i \in 1 .. Len(ss) : g[i] = g[i - 1] \o ss[i]

LEMMA FlattenWalks ==
    ASSUME NEW E, NEW ss \in Seq(Seq(E))
    PROVE  \E g \in [0 .. Len(ss) -> Seq(E)] : Joins(g, ss) /\ FlattenSeq(ss) = g[Len(ss)]
<1> DEFINE n == Len(ss)
           step == [p \in (1 .. n) \X Seq(E) |-> p[2] \o ss[p[1]]]
           Recursive(f) == f = [i \in 1 .. n |-> IF i = 1 THEN ss[i] ELSE f[i - 1] \o ss[i]]
           flat == CHOOSE f : Recursive(f)
<1>0. n \in Nat /\ \A i \in 1 .. n : ss[i] \in Seq(E) BY LenProperties, ElementOfSeq
<1>1. step \in [(1 .. n) \X Seq(E) -> Seq(E)]
  <2>1. \A i \in 1 .. n, acc \in Seq(E) : acc \o ss[i] \in Seq(E) BY <1>0, ConcatProperties
  <2> QED BY <2>1
<1>2. \A i \in 1 .. n, acc \in Seq(E) : step[<<i, acc>>] = acc \o ss[i] OBVIOUS
<1>3. <<>> \in Seq(E) /\ \A x \in Seq(E) : <<>> \o x = x BY EmptySeq, ConcatEmptySeq
<1> HIDE DEF n, step
<1>4. PICK g \in [0 .. n -> Seq(E)] : Walk(g, n, <<>>, step) BY <1>0, <1>1, <1>3, WalkExists
<1>5. \A i \in 1 .. n : i - 1 \in 0 .. n /\ i \in 0 .. n BY <1>0
<1>6. \A i \in 1 .. n : g[i] = g[i - 1] \o ss[i] BY <1>2, <1>4, <1>5 DEF Walk
<1>7. Joins(g, ss) BY <1>4, <1>6 DEF Joins, Walk, n
<1>8. CASE n = 0
  <2>1. ss = <<>> BY <1>8, EmptySeq DEF n
  <2>2. FlattenSeq(ss) = ss BY <1>8 DEF FlattenSeq, n
  <2> QED BY <1>7, <1>8, <2>1, <2>2 DEF n, Joins
<1>9. CASE n # 0
  <2>1. \A i \in 1 .. n : g[i] = IF i = 1 THEN ss[i] ELSE g[i - 1] \o ss[i]
    <3> TAKE i \in 1 .. n
    <3>1. CASE i = 1
      <4>1. g[i - 1] = <<>> BY <3>1, <1>4 DEF Walk
      <4>2. g[i] = <<>> \o ss[i] BY <1>6, <4>1
      <4>3. <<>> \o ss[i] = ss[i] BY <1>0, <1>3
      <4> QED BY <3>1, <4>2, <4>3
    <3>2. CASE i # 1 BY <3>2, <1>6
    <3> QED BY <3>1, <3>2
  <2> DEFINE h == [i \in 1 .. n |-> g[i]]
  <2>2. Recursive(h)
    <3>1. \A i \in 1 .. n : i # 1 => h[i - 1] = g[i - 1] BY <1>0
    <3>2. \A i \in 1 .. n : h[i] = IF i = 1 THEN ss[i] ELSE h[i - 1] \o ss[i]
      BY <2>1, <3>1
    <3>3. h = [i \in 1 .. n |-> h[i]] OBVIOUS
    <3> HIDE DEF h
    <3> QED BY <3>2, <3>3
  <2>3. Recursive(flat)
    <3> HIDE DEF Recursive, h
    <3> QED BY <2>2
  <2>4. FlattenSeq(ss) = flat[n] BY <1>9 DEF FlattenSeq, n
  <2> HIDE DEF flat
  <2>5. \A i \in 1 .. n : flat[i] = IF i = 1 THEN ss[i] ELSE flat[i - 1] \o ss[i]
    <3> DEFINE value(f) == [i \in 1 .. n |-> IF i = 1 THEN ss[i] ELSE f[i - 1] \o ss[i]]
    <3>1. flat = value(flat) BY <2>3
    <3>2. \A i \in 1 .. n : value(flat)[i] = IF i = 1 THEN ss[i] ELSE flat[i - 1] \o ss[i]
      OBVIOUS
    <3> HIDE DEF value
    <3> QED BY <3>1, <3>2
  <2> HIDE DEF Recursive
  <2> DEFINE k == [i \in 0 .. n |-> IF i = 0 THEN <<>> ELSE flat[i]]
  <2>6. Follows(k, n, Seq(E), <<>>, step)
    <3>1. k[0] = <<>> BY <1>0
    <3>2. ASSUME NEW i \in 1 .. n, k[i - 1] \in Seq(E) PROVE k[i] = step[<<i, k[i - 1]>>]
      <4>1. k[i] = flat[i] BY <1>0
      <4>2. step[<<i, k[i - 1]>>] = k[i - 1] \o ss[i] BY <1>2, <3>2
      <4>3. CASE i = 1
        <5>1. k[i - 1] = <<>> BY <4>3, <3>1
        <5>2. flat[i] = ss[i] BY <2>5, <4>3
        <5> HIDE DEF k
        <5> QED BY <1>0, <1>3, <4>1, <4>2, <5>1, <5>2
      <4>4. CASE i # 1
        <5>1. k[i - 1] = flat[i - 1] BY <1>0, <4>4
        <5>2. flat[i] = flat[i - 1] \o ss[i] BY <2>5, <4>4
        <5> HIDE DEF k
        <5> QED BY <4>1, <4>2, <5>1, <5>2
      <4> QED BY <4>3, <4>4
    <3> HIDE DEF k
    <3> QED BY <3>1, <3>2 DEF Follows
  <2>7. IsWalk(g, n, Seq(E), <<>>, step) BY <1>0, <1>4 DEF IsWalk
  <2>8. k[n] = flat[n] BY <1>0, <1>9
  <2>9. k[n] = g[n]
    <3> DEFINE T == Seq(E)
    <3> HIDE DEF k, h
    <3>1. Follows(k, n, T, <<>>, step) /\ IsWalk(g, n, T, <<>>, step) BY <2>6, <2>7
    <3>2. n \in Nat BY <1>0
    <3> HIDE DEF T
    <3> QED BY <3>1, <3>2, WalkSame
  <2> QED BY <1>7, <2>4, <2>8, <2>9 DEF n
<1> QED BY <1>8, <1>9
=============================================================================
