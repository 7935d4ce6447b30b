------------------------------ MODULE SumProofs ------------------------------
(***************************************************************************)
(* Sums over finite sets: the sum of no number is 0, and any element can   *)
(* be taken out of a sum.                                                  *)
(*                                                                         *)
(* SumFunction is defined by a recursion over the subsets of its domain.   *)
(* The facts about it are proved by a smallest counterexample: a family of *)
(* finite sets that is not empty has a member that leaves the family       *)
(* whichever of its elements is taken out.                                 *)
(***************************************************************************)
EXTENDS Functions, FiniteSetTheorems, WellFoundedInduction, TLAPS

\* The numbers are well-founded, ...
LEMMA Least ==
  ASSUME NEW T, T \subseteq Nat, T # {}
  PROVE  \E n \in T : \A m \in T : n <= m
<1> DEFINE R == {ss \in Nat \X Nat : ss[1] < ss[2]}
<1>1. IsWellFoundedOn(R, Nat)  BY NatLessThanWellFounded DEF OpToRel
<1>2. \A x, y \in Nat : <<y, x>> \notin R => x <= y
  <2> SUFFICES ASSUME NEW x \in Nat, NEW y \in Nat, <<y, x>> \notin R PROVE x <= y
    OBVIOUS
  <2>1. ~(y < x)  OBVIOUS
  <2> QED  BY <2>1
<1> HIDE DEF R
<1>3. \E x \in T : \A y \in T : <<y, x>> \notin R  BY <1>1, WFMin
<1> QED  BY <1>2, <1>3

\* ... and so are the subsets of a finite set.
LEMMA Smallest ==
  ASSUME NEW S, IsFiniteSet(S), NEW T, T \subseteq SUBSET S, T # {}
  PROVE  \E s \in T : \A x \in s : s \ {x} \notin T
<1> DEFINE N == {Cardinality(s) : s \in T}
<1>1. \A s \in T : IsFiniteSet(s) /\ Cardinality(s) \in Nat
  BY FS_Subset, FS_CardinalityType
<1>2. N \subseteq Nat /\ N # {}  BY <1>1
<1> HIDE DEF N
<1>3. PICK n \in N : \A m \in N : n <= m  BY <1>2, Least
<1> USE DEF N
<1>4. PICK s \in T : Cardinality(s) = n  OBVIOUS
<1>5. \A x \in s : s \ {x} \in T => n <= Cardinality(s \ {x})  BY <1>3
<1>6. \A x \in s : Cardinality(s \ {x}) = n - 1  BY <1>1, <1>4, FS_RemoveElement
<1> QED  BY <1>1, <1>4, <1>5, <1>6
-----------------------------------------------------------------------------
\* The recursion SumFunction is defined by, and its step.
Some(s)       == CHOOSE x \in s : TRUE
Add(f, g, s)  == IF s = {} THEN 0 ELSE f[Some(s)] + g[s \ {Some(s)}]
Adding(f, S)  == CHOOSE g : g = [s \in SUBSET S |-> Add(f, g, s)]

\* SumFunction is that function, of its own domain.
LEMMA SumIs ==
  ASSUME NEW f
  PROVE  SumFunction(f) = Adding(f, DOMAIN f)[DOMAIN f]
BY DEF SumFunction, SumFunctionOnSet, FoldFunctionOnSet, MapThenFoldSet, Adding, Add, Some

\* The element that is added first is one of the set.
LEMMA SomeIn ==
  ASSUME NEW s, s # {}
  PROVE  Some(s) \in s
BY DEF Some

\* The recursion has a solution up to any cardinality.
Upto(S, n) == {s \in SUBSET S : Cardinality(s) <= n}
Solved(f, S, n) == \E g \in [Upto(S, n) -> Int] : \A s \in Upto(S, n) : g[s] = Add(f, g, s)

\* A solution for the sets up to n elements extends to those with one more, ...
LEMMA SolvedNext ==
  ASSUME NEW S, IsFiniteSet(S), NEW f \in [S -> Int], NEW n \in Nat, Solved(f, S, n)
  PROVE  Solved(f, S, n + 1)
<1>1. PICK g \in [Upto(S, n) -> Int] : \A s \in Upto(S, n) : g[s] = Add(f, g, s)
  BY DEF Solved
<1> DEFINE h == [s \in Upto(S, n + 1) |-> Add(f, g, s)]
<1>2. \A s \in SUBSET S : IsFiniteSet(s) /\ Cardinality(s) \in Nat
  BY FS_Subset, FS_CardinalityType
<1>3. Upto(S, n) \subseteq Upto(S, n + 1)  BY <1>2 DEF Upto
<1>4. \A s \in Upto(S, n + 1) : s # {} => Some(s) \in S /\ s \ {Some(s)} \in Upto(S, n)
  <2> SUFFICES ASSUME NEW s \in Upto(S, n + 1), s # {}
               PROVE  Some(s) \in S /\ s \ {Some(s)} \in Upto(S, n)
    OBVIOUS
  <2>1. s \in SUBSET S /\ Cardinality(s) <= n + 1 /\ Some(s) \in s  BY SomeIn DEF Upto
  <2>2. Cardinality(s \ {Some(s)}) = Cardinality(s) - 1  BY <1>2, <2>1, FS_RemoveElement
  <2> QED  BY <1>2, <2>1, <2>2 DEF Upto
<1>5. h \in [Upto(S, n + 1) -> Int]  BY <1>1, <1>4 DEF Add
<1>6. \A s \in Upto(S, n) : h[s] = g[s]  BY <1>1, <1>3
<1>7. \A s \in Upto(S, n + 1) : h[s] = Add(f, h, s)  BY <1>4, <1>6 DEF Add
<1> HIDE DEF h
<1> QED  BY <1>5, <1>7 DEF Solved

\* ... so there is one up to any number.
LEMMA SolvedAll ==
  ASSUME NEW S, IsFiniteSet(S), NEW f \in [S -> Int], NEW n \in Nat
  PROVE  Solved(f, S, n)
<1> DEFINE T == {m \in Nat : ~Solved(f, S, m)}
<1>1. Solved(f, S, 0)
  <2>1. \A s \in Upto(S, 0) : s = {}
    BY FS_Subset, FS_CardinalityType, FS_EmptySet DEF Upto
  <2>2. [s \in Upto(S, 0) |-> 0] \in [Upto(S, 0) -> Int]  OBVIOUS
  <2> QED  BY <2>1, <2>2 DEF Solved, Add
<1> SUFFICES ASSUME T # {} PROVE FALSE
  OBVIOUS
<1>2. PICK m \in T : \A k \in T : m <= k  BY Least
<1>3. m # 0 /\ m - 1 \in Nat  BY <1>1
<1>4. Solved(f, S, m - 1)  BY <1>2, <1>3
<1>5. Solved(f, S, (m - 1) + 1)  BY <1>3, <1>4, SolvedNext
<1> QED  BY <1>3, <1>5

\* So it is what SumFunction takes.
Adds(A, f, S) == /\ A \in [SUBSET S -> Int]
                 /\ \A s \in SUBSET S : A[s] = Add(f, A, s)

\* The function that is chosen is a solution, and its values are integers.
LEMMA AddingAdds ==
  ASSUME NEW S, IsFiniteSet(S), NEW f \in [S -> Int]
  PROVE  Adds(Adding(f, S), f, S)
<1> DEFINE A == Adding(f, S)
<1>1. Cardinality(S) \in Nat  BY FS_CardinalityType
<1>2. Upto(S, Cardinality(S)) = SUBSET S  BY FS_Subset DEF Upto
<1>3. PICK g \in [SUBSET S -> Int] : \A s \in SUBSET S : g[s] = Add(f, g, s)
  <2>1. Solved(f, S, Cardinality(S))  BY <1>1, SolvedAll
  <2> QED  BY <1>2, <2>1 DEF Solved
<1>4. g = [s \in SUBSET S |-> Add(f, g, s)]  BY <1>3
<1>5. A = [s \in SUBSET S |-> Add(f, A, s)]  BY <1>4 DEF Adding
<1> HIDE DEF A
<1>6. \A s \in SUBSET S : A[s] = Add(f, A, s)  BY <1>5
<1> DEFINE T == {s \in SUBSET S : A[s] \notin Int}
<1>7. T = {}
  <2> SUFFICES ASSUME T # {} PROVE FALSE
    OBVIOUS
  <2>1. PICK s \in T : \A x \in s : s \ {x} \notin T  BY Smallest
  <2>2. s \in SUBSET S /\ A[s] \notin Int /\ A[s] = Add(f, A, s)  BY <1>6
  <2>3. s # {}  BY <2>2 DEF Add
  <2>4. Some(s) \in s /\ f[Some(s)] \in Int  BY <2>2, <2>3, SomeIn
  <2>5. A[s \ {Some(s)}] \in Int  BY <2>1, <2>2, <2>4
  <2>6. A[s] = f[Some(s)] + A[s \ {Some(s)}]  BY <2>2, <2>3 DEF Add
  <2> QED  BY <2>2, <2>4, <2>5, <2>6
<1>8. A \in [SUBSET S -> Int]  BY <1>5, <1>7
<1>9. Adds(A, f, S)  BY <1>6, <1>8 DEF Adds
<1> QED  BY <1>9 DEF A

\* Any element may be taken first ...
LEMMA TakeOut ==
  ASSUME NEW S, IsFiniteSet(S), NEW f \in [S -> Int], NEW A, Adds(A, f, S),
         NEW t \in SUBSET S, NEW z \in t
  PROVE  A[t] = f[z] + A[t \ {z}]
<1> DEFINE T == {s \in SUBSET S : \E x \in s : A[s] # f[x] + A[s \ {x}]}
<1> SUFFICES ASSUME T # {} PROVE FALSE
  OBVIOUS
<1>1. PICK s \in T : \A x \in s : s \ {x} \notin T  BY Smallest
<1>2. PICK x \in s : A[s] # f[x] + A[s \ {x}]  OBVIOUS
<1>3. s \in SUBSET S  OBVIOUS
<1>4. PICK y \in s : A[s] = f[y] + A[s \ {y}]  BY <1>2, <1>3, SomeIn DEF Add, Adds
<1>5. \A u \in s : \A v \in s \ {u} : A[s \ {u}] = f[v] + A[(s \ {u}) \ {v}]  BY <1>1, <1>3
<1> HIDE DEF T
<1> DEFINE rest == (s \ {x}) \ {y}
<1>6. x \in s \ {y} /\ y \in s \ {x}  BY <1>2, <1>4
<1>7. (s \ {y}) \ {x} = rest  OBVIOUS
<1>8. A[s \ {y}] = f[x] + A[rest]  BY <1>5, <1>6, <1>7
<1>9. A[s \ {x}] = f[y] + A[rest]  BY <1>5, <1>6
<1>10. f[x] \in Int /\ f[y] \in Int /\ A[rest] \in Int  BY <1>3 DEF Adds
<1> HIDE DEF rest
<1>11. f[y] + (f[x] + A[rest]) = f[x] + (f[y] + A[rest])  BY <1>10
<1> QED  BY <1>2, <1>4, <1>8, <1>9, <1>11

\* ... and the sum of a part does not depend on the rest.
LEMMA SamePart ==
  ASSUME NEW S, IsFiniteSet(S), NEW f, NEW g, NEW A, NEW B, \A x \in S : f[x] = g[x],
         Adds(B, g, S), \A s \in SUBSET S : A[s] = Add(f, A, s)
  PROVE  A[S] = B[S]
<1> DEFINE T == {s \in SUBSET S : A[s] # B[s]}
<1> SUFFICES ASSUME T # {} PROVE FALSE
  OBVIOUS
<1>1. PICK s \in T : \A x \in s : s \ {x} \notin T  BY Smallest
<1>2. s \in SUBSET S /\ A[s] # B[s] /\ A[s] = Add(f, A, s) /\ B[s] = Add(g, B, s)  BY DEF Adds
<1>3. s # {}  BY <1>2 DEF Add
<1>4. Some(s) \in s  BY <1>3, SomeIn
<1>5. A[s \ {Some(s)}] = B[s \ {Some(s)}] /\ f[Some(s)] = g[Some(s)]  BY <1>1, <1>2, <1>4
<1> QED  BY <1>2, <1>3, <1>5 DEF Add
-----------------------------------------------------------------------------
\* The sum of no number, ...
LEMMA SumOfNone ==
  ASSUME NEW f \in [{} -> Int]
  PROVE  SumFunction(f) = 0
<1>1. IsFiniteSet({})  BY FS_EmptySet
<1>2. Adding(f, {})[{}] = Add(f, Adding(f, {}), {})  BY <1>1, AddingAdds DEF Adds
<1> QED  BY <1>2, SumIs DEF Add

\* ... the type of a sum, ...
LEMMA SumTyped ==
  ASSUME NEW S, IsFiniteSet(S), NEW f \in [S -> Int]
  PROVE  SumFunction(f) \in Int
<1>1. Adding(f, S) \in [SUBSET S -> Int]  BY AddingAdds DEF Adds
<1>2. SumFunction(f) = Adding(f, S)[S]  BY SumIs
<1> QED  BY <1>1, <1>2

\* ... and a sum without one of its elements.
LEMMA SumSplit ==
  ASSUME NEW S, IsFiniteSet(S), NEW f \in [S -> Int], NEW x \in S,
         NEW g \in [S \ {x} -> Int], \A y \in S \ {x} : g[y] = f[y]
  PROVE  SumFunction(f) = f[x] + SumFunction(g)
<1> DEFINE A == Adding(f, S)
           B == Adding(g, S \ {x})
<1>1. IsFiniteSet(S \ {x})  BY FS_RemoveElement
<1>2. Adds(A, f, S)  BY AddingAdds
<1>3. Adds(B, g, S \ {x})  BY <1>1, AddingAdds
<1>4. SumFunction(f) = A[S] /\ SumFunction(g) = B[S \ {x}]  BY SumIs
<1> HIDE DEF A, B
<1>5. A[S] = f[x] + A[S \ {x}]
  <2>1. S \in SUBSET S  OBVIOUS
  <2> QED  BY <1>2, <2>1, TakeOut
<1>6. A[S \ {x}] = B[S \ {x}]
  <2> DEFINE R == S \ {x}
  <2>1. \A s \in SUBSET R : A[s] = Add(f, A, s)  BY <1>2 DEF Adds
  <2>2. \A y \in R : f[y] = g[y]  OBVIOUS
  <2>3. IsFiniteSet(R) /\ Adds(B, g, R)  BY <1>1, <1>3
  <2> HIDE DEF R
  <2>4. A[R] = B[R]  BY <2>1, <2>2, <2>3, SamePart
  <2> QED  BY <2>4 DEF R
<1> QED  BY <1>4, <1>5, <1>6

\* A sum of numbers that are not negative is not negative.
LEMMA SumNat ==
  ASSUME NEW S, IsFiniteSet(S), NEW f \in [S -> Nat]
  PROVE  SumFunction(f) \in Nat
<1> DEFINE A == Adding(f, S)
           T == {s \in SUBSET S : A[s] \notin Nat}
<1>1. f \in [S -> Int]  OBVIOUS
<1>2. \A s \in SUBSET S : A[s] = Add(f, A, s)  BY <1>1, AddingAdds DEF Adds
<1>3. SumFunction(f) = A[S]  BY SumIs
<1> HIDE DEF A
<1>4. T = {}
  <2> SUFFICES ASSUME T # {} PROVE FALSE
    OBVIOUS
  <2>1. PICK s \in T : \A x \in s : s \ {x} \notin T  BY Smallest
  <2>2. s \in SUBSET S /\ A[s] \notin Nat /\ A[s] = Add(f, A, s)  BY <1>2
  <2>3. s # {}  BY <2>2 DEF Add
  <2>4. Some(s) \in s /\ f[Some(s)] \in Nat  BY <2>2, <2>3, SomeIn
  <2>5. A[s \ {Some(s)}] \in Nat  BY <2>1, <2>2, <2>4
  <2>6. A[s] = f[Some(s)] + A[s \ {Some(s)}]  BY <2>2, <2>3 DEF Add
  <2> QED  BY <2>2, <2>4, <2>5, <2>6
<1> QED  BY <1>3, <1>4
=============================================================================
