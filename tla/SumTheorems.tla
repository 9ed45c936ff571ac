----------------------------- MODULE SumTheorems -----------------------------
(***************************************************************************)
(* What the sum of a function over a finite set is worth: the facts about  *)
(* SumFunctionOnSet (community module Functions) that the proofs about the *)
(* contracts' money rest on.  The escrow arguments are all of the form     *)
(* "the balance is the sum of what is still owed", so a proof needs to     *)
(* know how that sum moves when one entry changes.                         *)
(*                                                                         *)
(* Induction is done with minimal counterexamples (MinimalSubset), which   *)
(* are first order: the least-number principle comes from WFMin.           *)
(***************************************************************************)
EXTENDS Integers, FiniteSets, Functions, FiniteSetTheorems,
        WellFoundedInduction, TLAPS

(* The element a fold removes first from T. *)
Pick(T) == CHOOSE x \in T : TRUE

(* g holds the running totals of f over every subset of S. *)
IsTotal(g, f, S) ==
    g = [T \in SUBSET S |->
            IF T = {} THEN 0 ELSE f[Pick(T)] + g[T \ {Pick(T)}]]

-----------------------------------------------------------------------------

(* A nonempty set of naturals has a least element. *)
LEMMA LeastNat ==
    ASSUME NEW T \in SUBSET Nat, T # {}
    PROVE  \E n \in T : \A m \in T : n <= m
<1> DEFINE Less == {ss \in Nat \X Nat : ss[1] < ss[2]}
<1>1. OpToRel(<, Nat) = Less
  BY Zenon DEF OpToRel
<1>2. IsWellFoundedOn(Less, Nat)
  BY <1>1, NatLessThanWellFounded, Zenon
<1>3. \E n \in T : \A m \in T : <<m, n>> \notin Less
  <2> HIDE DEF Less
  <2>1. QED
    BY <1>2, WFMin
<1>4. \A n, m \in Nat : <<m, n>> \notin Less => n <= m
  OBVIOUS
<1>5. QED
  <2> HIDE DEF Less
  <2>1. QED
    BY <1>3, <1>4

(* A set of naturals with 0 and closed under successor is Nat. *)
LEMMA NatSetInduction ==
    ASSUME NEW P \in SUBSET Nat, 0 \in P, \A n \in P : n + 1 \in P
    PROVE  P = Nat
<1>1. SUFFICES ASSUME Nat \ P # {} PROVE FALSE
  OBVIOUS
<1>2. PICK n \in Nat \ P : \A m \in Nat \ P : n <= m
  BY <1>1, LeastNat
<1>3. n # 0 /\ n - 1 \in Nat
  BY <1>2
<1>4. n - 1 \in P
  BY <1>2, <1>3
<1>5. (n - 1) + 1 = n
  BY <1>2
<1>6. QED
  BY <1>2, <1>4, <1>5

(* A nonempty set has an element to pick. *)
LEMMA PickIn ==
    ASSUME NEW T, T # {}
    PROVE  Pick(T) \in T
BY DEF Pick

(* Removing an element of a finite set lowers its cardinality by one. *)
LEMMA CardinalityRemove ==
    ASSUME NEW T, IsFiniteSet(T), NEW x \in T
    PROVE  /\ IsFiniteSet(T \ {x})
           /\ Cardinality(T) \in Nat
           /\ Cardinality(T \ {x}) \in Nat
           /\ Cardinality(T) = Cardinality(T \ {x}) + 1
<1>1. IsFiniteSet(T \ {x}) /\ Cardinality(T \ {x}) = Cardinality(T) - 1
  BY FS_RemoveElement
<1>2. Cardinality(T) \in Nat /\ Cardinality(T \ {x}) \in Nat
  BY <1>1, FS_CardinalityType
<1>3. QED
  BY <1>1, <1>2

(* Among subsets of a finite set, some counterexample is minimal: taking    *)
(* any element out of it no longer gives a counterexample.                  *)
LEMMA MinimalSubset ==
    ASSUME NEW S, IsFiniteSet(S), NEW Bad \in SUBSET (SUBSET S), Bad # {}
    PROVE  \E T \in Bad : \A x \in T : T \ {x} \notin Bad
<1> DEFINE N == {Cardinality(T) : T \in Bad}
<1>1. \A T \in SUBSET S : IsFiniteSet(T) /\ Cardinality(T) \in Nat
  BY FS_Subset, FS_CardinalityType
<1>2. N \in SUBSET Nat /\ N # {}
  BY <1>1
<1>3. PICK n \in N : \A m \in N : n <= m
  BY <1>2, LeastNat
<1>4. PICK T \in Bad : Cardinality(T) = n
  BY <1>3
<1>5. ASSUME NEW x \in T, T \ {x} \in Bad
      PROVE  FALSE
  <2>1. n <= Cardinality(T \ {x})
    BY <1>3, <1>5
  <2>2. /\ Cardinality(T \ {x}) \in Nat
        /\ Cardinality(T) = Cardinality(T \ {x}) + 1
    BY <1>1, <1>4, CardinalityRemove
  <2>3. QED
    BY <1>4, <2>1, <2>2
<1>6. QED
  BY <1>5

-----------------------------------------------------------------------------

(* Integer running totals exist over a finite set. *)
LEMMA TotalExists ==
    ASSUME NEW S, IsFiniteSet(S), NEW f, \A x \in S : f[x] \in Int
    PROVE  \E g : IsTotal(g, f, S)
<1> DEFINE Low(n) == {T \in SUBSET S : Cardinality(T) <= n}
           Runs(h, n) == \A T \in Low(n) :
                h[T] = IF T = {} THEN 0 ELSE f[Pick(T)] + h[T \ {Pick(T)}]
           Reached(n) == \E h \in [Low(n) -> Int] : Runs(h, n)
           P == {n \in Nat : Reached(n)}
<1>1. \A T \in SUBSET S : IsFiniteSet(T) /\ Cardinality(T) \in Nat
  BY FS_Subset, FS_CardinalityType
<1>2. 0 \in P
  <2>1. Low(0) \subseteq {{}}
    BY <1>1, FS_EmptySet
  <2>2. [T \in Low(0) |-> 0] \in [Low(0) -> Int]
    OBVIOUS
  <2>3. Runs([T \in Low(0) |-> 0], 0)
    BY <2>1
  <2>4. QED
    BY <2>2, <2>3
<1>3. ASSUME NEW n \in P PROVE n + 1 \in P
  <2>1. PICK h \in [Low(n) -> Int] : Runs(h, n)
    OBVIOUS
  <2> DEFINE k == [T \in Low(n + 1) |->
                     IF T = {} THEN 0 ELSE f[Pick(T)] + h[T \ {Pick(T)}]]
  <2>2. n \in Nat
    OBVIOUS
  <2>3. Low(n) \subseteq Low(n + 1)
    BY <1>1, <2>2
  <2>4. ASSUME NEW T \in Low(n + 1), T # {}
        PROVE  Pick(T) \in S /\ T \ {Pick(T)} \in Low(n)
    <3>1. T \in SUBSET S /\ Pick(T) \in T /\ IsFiniteSet(T)
      BY <1>1, <2>4, PickIn
    <3>2. /\ Cardinality(T \ {Pick(T)}) \in Nat
          /\ Cardinality(T) \in Nat
          /\ Cardinality(T) = Cardinality(T \ {Pick(T)}) + 1
      BY <3>1, CardinalityRemove
    <3>3. Cardinality(T) <= n + 1
      OBVIOUS
    <3>4. Cardinality(T \ {Pick(T)}) <= n
      BY <2>2, <3>2, <3>3
    <3>5. QED
      BY <3>1, <3>4
  <2>5. k \in [Low(n + 1) -> Int]
    <3>1. ASSUME NEW T \in Low(n + 1), T # {}
          PROVE  f[Pick(T)] + h[T \ {Pick(T)}] \in Int
      BY <2>1, <2>4, <3>1
    <3>2. QED
      BY <3>1
  <2>6. \A T \in Low(n) : k[T] = h[T]
    BY <2>1, <2>3
  <2>7. Runs(k, n + 1)
    BY <2>4, <2>6
  <2>8. Reached(n + 1)
    <3> HIDE DEF k, Runs
    <3>1. QED
      BY <2>5, <2>7
  <2>9. QED
    <3> HIDE DEF Reached
    <3>1. n + 1 \in Nat
      BY <2>2
    <3>2. QED
      BY <2>8, <3>1
<1>4. P = Nat
  <2> HIDE DEF P
  <2>1. P \in SUBSET Nat
    BY DEF P
  <2>2. QED
    BY <1>2, <1>3, <2>1, NatSetInduction
<1>5. Cardinality(S) \in P
  BY <1>1, <1>4
<1>6. PICK h \in [Low(Cardinality(S)) -> Int] : Runs(h, Cardinality(S))
  BY <1>5
<1>7. Low(Cardinality(S)) = SUBSET S
  BY FS_Subset
<1>8. IsTotal(h, f, S)
  <2>1. h = [T \in SUBSET S |-> h[T]]
    BY <1>6, <1>7
  <2>2. \A T \in SUBSET S :
           h[T] = IF T = {} THEN 0 ELSE f[Pick(T)] + h[T \ {Pick(T)}]
    BY <1>6, <1>7
  <2>3. QED
    BY <2>1, <2>2 DEF IsTotal
<1>9. QED
  BY <1>8

(* Running totals over nested finite sets agree where both are defined. *)
LEMMA TotalAgrees ==
    ASSUME NEW S, IsFiniteSet(S), NEW R \in SUBSET S, NEW f, NEW g, NEW h,
           IsTotal(g, f, S), IsTotal(h, f, R), NEW T \in SUBSET R
    PROVE  g[T] = h[T]
<1> DEFINE Bad == {U \in SUBSET R : g[U] # h[U]}
<1>1. IsFiniteSet(R)
  BY FS_Subset
<1>2. SUFFICES ASSUME Bad # {} PROVE FALSE
  OBVIOUS
<1>3. PICK U \in Bad : \A x \in U : U \ {x} \notin Bad
  BY <1>1, <1>2, MinimalSubset
<1>4. /\ g[U] = IF U = {} THEN 0 ELSE f[Pick(U)] + g[U \ {Pick(U)}]
      /\ h[U] = IF U = {} THEN 0 ELSE f[Pick(U)] + h[U \ {Pick(U)}]
  BY <1>3 DEF IsTotal
<1>5. U # {}
  BY <1>3, <1>4
<1>6. g[U \ {Pick(U)}] = h[U \ {Pick(U)}]
  BY <1>3, <1>5, PickIn
<1>7. QED
  BY <1>3, <1>4, <1>5, <1>6

(* The sum over any subset of S is an entry of S's running totals. *)
LEMMA SumIsTotal ==
    ASSUME NEW S, IsFiniteSet(S), NEW f, \A x \in S : f[x] \in Int
    PROVE  \E g : /\ IsTotal(g, f, S)
                  /\ \A T \in SUBSET S : SumFunctionOnSet(f, T) = g[T]
<1>1. PICK g : IsTotal(g, f, S)
  BY TotalExists
<1>2. ASSUME NEW T \in SUBSET S
      PROVE  SumFunctionOnSet(f, T) = g[T]
  <2>1. SumFunctionOnSet(f, T) = (CHOOSE h : IsTotal(h, f, T))[T]
    BY DEF SumFunctionOnSet, FoldFunctionOnSet, MapThenFoldSet, IsTotal, Pick
  <2>2. IsFiniteSet(T) /\ \A x \in T : f[x] \in Int
    BY FS_Subset
  <2>3. \E h : IsTotal(h, f, T)
    BY <2>2, TotalExists
  <2>4. IsTotal(CHOOSE h : IsTotal(h, f, T), f, T)
    BY <2>3
  <2>5. QED
    BY <1>1, <2>1, <2>4, TotalAgrees
<1>3. QED
  BY <1>1, <1>2

(* The sum over no elements is zero. *)
THEOREM SumEmpty ==
    ASSUME NEW f
    PROVE  SumFunctionOnSet(f, {}) = 0
<1>1. IsFiniteSet({}) /\ \A x \in {} : f[x] \in Int
  BY FS_EmptySet
<1>2. PICK g : /\ IsTotal(g, f, {})
               /\ \A T \in SUBSET {} : SumFunctionOnSet(f, T) = g[T]
  BY <1>1, SumIsTotal
<1>3. g[{}] = 0
  BY <1>2 DEF IsTotal
<1>4. QED
  BY <1>2, <1>3

(* One step of the fold: the picked element and the sum of the rest. *)
LEMMA SumPick ==
    ASSUME NEW S, IsFiniteSet(S), S # {}, NEW f, \A x \in S : f[x] \in Int
    PROVE  SumFunctionOnSet(f, S)
             = f[Pick(S)] + SumFunctionOnSet(f, S \ {Pick(S)})
<1>1. PICK g : /\ IsTotal(g, f, S)
               /\ \A T \in SUBSET S : SumFunctionOnSet(f, T) = g[T]
  BY SumIsTotal
<1>2. g[S] = f[Pick(S)] + g[S \ {Pick(S)}]
  BY <1>1 DEF IsTotal
<1>3. S \in SUBSET S /\ S \ {Pick(S)} \in SUBSET S
  OBVIOUS
<1>4. QED
  BY <1>1, <1>2, <1>3

-----------------------------------------------------------------------------

(* A sum of integers is an integer. *)
THEOREM SumInt ==
    ASSUME NEW S, IsFiniteSet(S), NEW f, \A x \in S : f[x] \in Int
    PROVE  SumFunctionOnSet(f, S) \in Int
<1> DEFINE Bad == {T \in SUBSET S : SumFunctionOnSet(f, T) \notin Int}
<1>1. SUFFICES ASSUME Bad # {} PROVE FALSE
  OBVIOUS
<1>2. PICK T \in Bad : \A x \in T : T \ {x} \notin Bad
  BY <1>1, MinimalSubset
<1>3. T # {} /\ IsFiniteSet(T)
  <2>1. T # {}
    BY <1>2, SumEmpty
  <2>2. IsFiniteSet(T)
    BY FS_Subset
  <2>3. QED
    BY <2>1, <2>2
<1>4. Pick(T) \in T
  BY <1>3, PickIn
<1>5. SumFunctionOnSet(f, T \ {Pick(T)}) \in Int
  BY <1>2, <1>4
<1>6. SumFunctionOnSet(f, T)
        = f[Pick(T)] + SumFunctionOnSet(f, T \ {Pick(T)})
  BY <1>2, <1>3, SumPick
<1>7. QED
  BY <1>2, <1>4, <1>5, <1>6

(* Any element can be taken out of a sum first, not only the picked one. *)
THEOREM SumRemove ==
    ASSUME NEW S, IsFiniteSet(S), NEW f, \A x \in S : f[x] \in Int,
           NEW T \in SUBSET S, NEW x \in T
    PROVE  SumFunctionOnSet(f, T) = f[x] + SumFunctionOnSet(f, T \ {x})
<1> DEFINE Wrong(U, y) == SumFunctionOnSet(f, U)
                            # f[y] + SumFunctionOnSet(f, U \ {y})
           Bad == {U \in SUBSET S : \E y \in U : Wrong(U, y)}
<1>1. \A U \in SUBSET S : IsFiniteSet(U) /\ SumFunctionOnSet(f, U) \in Int
  <2>1. TAKE U \in SUBSET S
  <2>2. IsFiniteSet(U)
    BY FS_Subset
  <2>3. QED
    BY <2>2, SumInt
<1>2. SUFFICES ASSUME Bad # {} PROVE FALSE
  OBVIOUS
<1>3. PICK U \in Bad : \A u \in U : U \ {u} \notin Bad
  BY <1>2, MinimalSubset
<1>4. PICK y \in U : Wrong(U, y)
  BY <1>3
<1> DEFINE p == Pick(U)
<1>5. p \in U
  BY <1>4, PickIn
<1>6. SumFunctionOnSet(f, U) = f[p] + SumFunctionOnSet(f, U \ {p})
  BY <1>1, <1>3, <1>4, SumPick
<1>7. y # p
  BY <1>4, <1>6
<1>8. ASSUME NEW z \in U, NEW w \in U \ {z}
      PROVE  SumFunctionOnSet(f, U \ {z})
               = f[w] + SumFunctionOnSet(f, (U \ {z}) \ {w})
  BY <1>3
<1>9. SumFunctionOnSet(f, U \ {p})
        = f[y] + SumFunctionOnSet(f, (U \ {p}) \ {y})
  BY <1>4, <1>5, <1>7, <1>8
<1>10. SumFunctionOnSet(f, U \ {y})
         = f[p] + SumFunctionOnSet(f, (U \ {y}) \ {p})
  BY <1>4, <1>5, <1>7, <1>8
<1>11. (U \ {p}) \ {y} = (U \ {y}) \ {p}
  OBVIOUS
<1>12. /\ f[p] \in Int
       /\ f[y] \in Int
       /\ SumFunctionOnSet(f, (U \ {y}) \ {p}) \in Int
       /\ SumFunctionOnSet(f, U \ {y}) \in Int
  BY <1>1, <1>3, <1>4, <1>5
<1>13. SumFunctionOnSet(f, U) = f[y] + SumFunctionOnSet(f, U \ {y})
  <2> HIDE DEF p
  <2>1. SumFunctionOnSet(f, U)
          = f[p] + (f[y] + SumFunctionOnSet(f, (U \ {y}) \ {p}))
    BY <1>6, <1>9, <1>11
  <2>2. QED
    BY <2>1, <1>10, <1>12
<1>14. QED
  BY <1>4, <1>13

(* A sum depends on the function only through its values on the set. *)
THEOREM SumCongruence ==
    ASSUME NEW S, IsFiniteSet(S), NEW f, NEW g,
           \A x \in S : f[x] \in Int /\ f[x] = g[x]
    PROVE  SumFunctionOnSet(f, S) = SumFunctionOnSet(g, S)
<1> DEFINE Bad == {T \in SUBSET S :
                      SumFunctionOnSet(f, T) # SumFunctionOnSet(g, T)}
<1>1. SUFFICES ASSUME Bad # {} PROVE FALSE
  OBVIOUS
<1>2. PICK T \in Bad : \A x \in T : T \ {x} \notin Bad
  BY <1>1, MinimalSubset
<1>3. T # {} /\ IsFiniteSet(T)
  <2>1. T # {}
    BY <1>2, SumEmpty
  <2>2. IsFiniteSet(T)
    BY FS_Subset
  <2>3. QED
    BY <2>1, <2>2
<1>4. Pick(T) \in T
  BY <1>3, PickIn
<1>5. SumFunctionOnSet(f, T \ {Pick(T)}) = SumFunctionOnSet(g, T \ {Pick(T)})
  BY <1>2, <1>4
<1>6. \A x \in T : f[x] \in Int /\ g[x] \in Int
  BY <1>2
<1>7. SumFunctionOnSet(f, T)
        = f[Pick(T)] + SumFunctionOnSet(f, T \ {Pick(T)})
  BY <1>3, <1>6, SumPick
<1>8. SumFunctionOnSet(g, T)
        = g[Pick(T)] + SumFunctionOnSet(g, T \ {Pick(T)})
  BY <1>3, <1>6, SumPick
<1>9. f[Pick(T)] = g[Pick(T)]
  BY <1>2, <1>4
<1>10. QED
  BY <1>2, <1>5, <1>7, <1>8, <1>9

(* Two functions that differ only at x: their sums differ by that much. *)
THEOREM SumUpdate ==
    ASSUME NEW S, IsFiniteSet(S), NEW f, NEW g, NEW x \in S,
           \A y \in S : f[y] \in Int /\ g[y] \in Int,
           \A y \in S \ {x} : f[y] = g[y]
    PROVE  SumFunctionOnSet(g, S) = SumFunctionOnSet(f, S) - f[x] + g[x]
<1>1. S \in SUBSET S
  OBVIOUS
<1>2. SumFunctionOnSet(f, S) = f[x] + SumFunctionOnSet(f, S \ {x})
  BY <1>1, SumRemove
<1>3. SumFunctionOnSet(g, S) = g[x] + SumFunctionOnSet(g, S \ {x})
  BY <1>1, SumRemove
<1>4. IsFiniteSet(S \ {x})
  BY FS_RemoveElement
<1>5. SumFunctionOnSet(f, S \ {x}) = SumFunctionOnSet(g, S \ {x})
  BY <1>4, SumCongruence
<1>6. SumFunctionOnSet(f, S \ {x}) \in Int
  BY <1>4, SumInt
<1>7. f[x] \in Int /\ g[x] \in Int
  OBVIOUS
<1>8. QED
  BY <1>2, <1>3, <1>5, <1>6, <1>7

(* A sum of naturals is a natural, and no term of it exceeds it. *)
THEOREM SumAtLeast ==
    ASSUME NEW S, IsFiniteSet(S), NEW f, \A x \in S : f[x] \in Nat
    PROVE  /\ SumFunctionOnSet(f, S) \in Nat
           /\ \A x \in S : f[x] <= SumFunctionOnSet(f, S)
<1> DEFINE Bad == {T \in SUBSET S : SumFunctionOnSet(f, T) \notin Nat}
<1>1. \A T \in SUBSET S : SumFunctionOnSet(f, T) \in Nat
  <2>1. SUFFICES ASSUME Bad # {} PROVE FALSE
    OBVIOUS
  <2>2. PICK T \in Bad : \A x \in T : T \ {x} \notin Bad
    BY <2>1, MinimalSubset
  <2>3. T # {} /\ IsFiniteSet(T)
    <3>1. T # {}
      BY <2>2, SumEmpty
    <3>2. IsFiniteSet(T)
      BY FS_Subset
    <3>3. QED
      BY <3>1, <3>2
  <2>4. Pick(T) \in T
    BY <2>3, PickIn
  <2>5. SumFunctionOnSet(f, T)
          = f[Pick(T)] + SumFunctionOnSet(f, T \ {Pick(T)})
    BY <2>2, <2>3, SumPick
  <2>6. QED
    BY <2>2, <2>4, <2>5
<1>2. ASSUME NEW x \in S PROVE f[x] <= SumFunctionOnSet(f, S)
  <2>1. SumFunctionOnSet(f, S) = f[x] + SumFunctionOnSet(f, S \ {x})
    BY SumRemove
  <2>2. SumFunctionOnSet(f, S \ {x}) \in Nat
    BY <1>1
  <2>3. f[x] \in Nat
    OBVIOUS
  <2>4. QED
    BY <2>1, <2>2, <2>3
<1>3. QED
  BY <1>1, <1>2

(* A sum is monotone in the function. *)
THEOREM SumMonotone ==
    ASSUME NEW S, IsFiniteSet(S), NEW f, NEW g,
           \A x \in S : f[x] \in Int /\ g[x] \in Int /\ f[x] <= g[x]
    PROVE  SumFunctionOnSet(f, S) <= SumFunctionOnSet(g, S)
<1> DEFINE Bad == {T \in SUBSET S :
                    ~ (SumFunctionOnSet(f, T) <= SumFunctionOnSet(g, T))}
<1>1. SUFFICES ASSUME Bad # {} PROVE FALSE
  OBVIOUS
<1>2. PICK T \in Bad : \A x \in T : T \ {x} \notin Bad
  BY <1>1, MinimalSubset
<1>3. IsFiniteSet(T)
  BY <1>2, FS_Subset
<1>4. T # {}
  <2>1. SUFFICES ASSUME T = {} PROVE FALSE
    OBVIOUS
  <2>2. SumFunctionOnSet(f, T) = 0 /\ SumFunctionOnSet(g, T) = 0
    BY <2>1, SumEmpty
  <2>3. QED
    BY <1>2, <2>2
<1>5. Pick(T) \in T
  BY <1>4, PickIn
<1>6. SumFunctionOnSet(f, T \ {Pick(T)}) <= SumFunctionOnSet(g, T \ {Pick(T)})
  BY <1>2, <1>5
<1>7. /\ SumFunctionOnSet(f, T \ {Pick(T)}) \in Int
      /\ SumFunctionOnSet(g, T \ {Pick(T)}) \in Int
  <2>1. IsFiniteSet(T \ {Pick(T)})
    BY <1>3, FS_RemoveElement
  <2>2. \A x \in T \ {Pick(T)} : f[x] \in Int /\ g[x] \in Int
    BY <1>2
  <2>3. QED
    BY <2>1, <2>2, SumInt
<1>8. SumFunctionOnSet(f, T)
        = f[Pick(T)] + SumFunctionOnSet(f, T \ {Pick(T)})
  BY <1>2, <1>3, <1>4, SumPick
<1>9. SumFunctionOnSet(g, T)
        = g[Pick(T)] + SumFunctionOnSet(g, T \ {Pick(T)})
  BY <1>2, <1>3, <1>4, SumPick
<1>10. f[Pick(T)] \in Int /\ g[Pick(T)] \in Int /\ f[Pick(T)] <= g[Pick(T)]
  BY <1>2, <1>5
<1>11. SumFunctionOnSet(f, T) <= SumFunctionOnSet(g, T)
  BY <1>6, <1>7, <1>8, <1>9, <1>10
<1>12. QED
  BY <1>2, <1>11

(* A sum of zeros is zero. *)
THEOREM SumZero ==
    ASSUME NEW S, IsFiniteSet(S), NEW f, \A x \in S : f[x] = 0
    PROVE  SumFunctionOnSet(f, S) = 0
<1> DEFINE Bad == {T \in SUBSET S : SumFunctionOnSet(f, T) # 0}
<1>1. SUFFICES ASSUME Bad # {} PROVE FALSE
  OBVIOUS
<1>2. PICK T \in Bad : \A x \in T : T \ {x} \notin Bad
  BY <1>1, MinimalSubset
<1>3. T # {}
  BY <1>2, SumEmpty
<1>4. IsFiniteSet(T)
  BY FS_Subset
<1>5. Pick(T) \in T
  BY <1>3, PickIn
<1>6. SumFunctionOnSet(f, T)
        = f[Pick(T)] + SumFunctionOnSet(f, T \ {Pick(T)})
  <2>1. \A x \in T : f[x] \in Int
    BY <1>2
  <2>2. QED
    BY <1>3, <1>4, <2>1, SumPick
<1>7. SumFunctionOnSet(f, T \ {Pick(T)}) = 0
  BY <1>2, <1>5
<1>8. f[Pick(T)] = 0
  BY <1>5
<1>9. QED
  BY <1>2, <1>6, <1>7, <1>8

(* The sum over two sets without a common element is the sum of their sums.*)
THEOREM SumUnion ==
    ASSUME NEW R, IsFiniteSet(R), NEW S, IsFiniteSet(S), R \cap S = {},
           NEW f, \A x \in R \cup S : f[x] \in Int
    PROVE  SumFunctionOnSet(f, R \cup S) = SumFunctionOnSet(f, R) + SumFunctionOnSet(f, S)
<1> DEFINE Bad == {T \in SUBSET S : SumFunctionOnSet(f, R \cup T)
                                       # SumFunctionOnSet(f, R) + SumFunctionOnSet(f, T)}
<1>1. SUFFICES ASSUME Bad # {} PROVE FALSE
  OBVIOUS
<1>2. PICK T \in Bad : \A x \in T : T \ {x} \notin Bad
  BY <1>1, MinimalSubset
<1>3. /\ IsFiniteSet(R \cup S) /\ R \cup T \in SUBSET (R \cup S) /\ IsFiniteSet(T)
      /\ \A x \in R \cup S : f[x] \in Int
  BY <1>2, FS_Union, FS_Subset
<1>4. SumFunctionOnSet(f, R) \in Int
  BY SumInt
<1>5. T # {}
  <2>1. SUFFICES ASSUME T = {} PROVE FALSE
    OBVIOUS
  <2>2. R \cup T = R /\ SumFunctionOnSet(f, T) = 0
    BY <2>1, SumEmpty
  <2>3. SumFunctionOnSet(f, R \cup T) = SumFunctionOnSet(f, R)
    BY <2>2
  <2>4. SumFunctionOnSet(f, R) + SumFunctionOnSet(f, T) = SumFunctionOnSet(f, R)
    BY <1>4, <2>2
  <2>5. SumFunctionOnSet(f, R \cup T) # SumFunctionOnSet(f, R) + SumFunctionOnSet(f, T)
    BY <1>2
  <2>6. QED
    BY <2>3, <2>4, <2>5
<1>6. PICK x \in T : TRUE
  BY <1>5
<1>7. /\ x \in R \cup T /\ x \in T /\ T \in SUBSET S /\ f[x] \in Int
      /\ (R \cup T) \ {x} = R \cup (T \ {x})
  BY <1>2, <1>6
<1>8. SumFunctionOnSet(f, R \cup T) = f[x] + SumFunctionOnSet(f, R \cup (T \ {x}))
  <2>1. SumFunctionOnSet(f, R \cup T) = f[x] + SumFunctionOnSet(f, (R \cup T) \ {x})
    BY <1>3, <1>7, SumRemove
  <2>2. QED
    BY <1>7, <2>1
<1>9. SumFunctionOnSet(f, T) = f[x] + SumFunctionOnSet(f, T \ {x})
  BY <1>7, SumRemove
<1>10. SumFunctionOnSet(f, R \cup (T \ {x}))
         = SumFunctionOnSet(f, R) + SumFunctionOnSet(f, T \ {x})
  BY <1>2, <1>6
<1>11. SumFunctionOnSet(f, T \ {x}) \in Int
  <2>1. IsFiniteSet(T \ {x}) /\ \A y \in T \ {x} : f[y] \in Int
    BY <1>3, <1>7, FS_RemoveElement
  <2>2. QED
    BY <2>1, SumInt
<1>12. QED
  BY <1>2, <1>4, <1>7, <1>8, <1>9, <1>10, <1>11

(* Part of the terms sum to no more than all.                               *)
THEOREM SumSubset ==
    ASSUME NEW S, IsFiniteSet(S), NEW T \in SUBSET S, NEW f, \A x \in S : f[x] \in Nat
    PROVE  SumFunctionOnSet(f, T) <= SumFunctionOnSet(f, S)
<1>1. /\ IsFiniteSet(T) /\ IsFiniteSet(S \ T) /\ T \cap (S \ T) = {} /\ T \cup (S \ T) = S
      /\ \A x \in S : f[x] \in Int
  BY FS_Subset
<1>2. SumFunctionOnSet(f, S) = SumFunctionOnSet(f, T) + SumFunctionOnSet(f, S \ T)
  <2>1. SumFunctionOnSet(f, T \cup (S \ T))
          = SumFunctionOnSet(f, T) + SumFunctionOnSet(f, S \ T)
    BY <1>1, SumUnion
  <2>2. QED
    BY <1>1, <2>1
<1>3. SumFunctionOnSet(f, T) \in Nat /\ SumFunctionOnSet(f, S \ T) \in Nat
  BY <1>1, SumAtLeast
<1>4. QED
  BY <1>2, <1>3

(* Term by term bounds between multiples carry over to the sums: what floor *)
(* divisions by d lose or keep, their sum loses or keeps.                   *)
THEOREM SumScaled ==
    ASSUME NEW S, IsFiniteSet(S), NEW f, NEW g, NEW c \in Int, NEW d \in Int,
           \A x \in S : f[x] \in Int /\ g[x] \in Int /\ d * g[x] <= c * f[x]
    PROVE  d * SumFunctionOnSet(g, S) <= c * SumFunctionOnSet(f, S)
<1> DEFINE Bad == {T \in SUBSET S : ~ (d * SumFunctionOnSet(g, T)
                                         <= c * SumFunctionOnSet(f, T))}
<1>1. SUFFICES ASSUME Bad # {} PROVE FALSE
  OBVIOUS
<1>2. PICK T \in Bad : \A x \in T : T \ {x} \notin Bad
  BY <1>1, MinimalSubset
<1>3. T # {}
  <2>1. SUFFICES ASSUME T = {} PROVE FALSE
    OBVIOUS
  <2>2. SumFunctionOnSet(f, T) = 0 /\ SumFunctionOnSet(g, T) = 0
    BY <2>1, SumEmpty
  <2>3. QED
    BY <1>2, <2>2
<1>4. IsFiniteSet(T)
  BY FS_Subset
<1>5. Pick(T) \in T
  BY <1>3, PickIn
<1> DEFINE F == SumFunctionOnSet(f, T \ {Pick(T)})
           G == SumFunctionOnSet(g, T \ {Pick(T)})
           x == f[Pick(T)]
           y == g[Pick(T)]
<1>6. F \in Int /\ G \in Int
  <2>1. IsFiniteSet(T \ {Pick(T)})
    BY <1>4, FS_RemoveElement
  <2>2. \A z \in T \ {Pick(T)} : f[z] \in Int /\ g[z] \in Int
    BY <1>2
  <2>3. QED
    BY <2>1, <2>2, SumInt
<1>7. SumFunctionOnSet(f, T) = x + F
  BY <1>2, <1>3, <1>4, SumPick
<1>8. SumFunctionOnSet(g, T) = y + G
  BY <1>2, <1>3, <1>4, SumPick
<1>9. d * G <= c * F
  BY <1>2, <1>5
<1>10. x \in Int /\ y \in Int /\ d * y <= c * x
  BY <1>2, <1>5
<1>11. ~ (d * (y + G) <= c * (x + F))
  BY <1>2, <1>7, <1>8
<1> HIDE DEF F, G, x, y
<1>12. d * (y + G) = d * y + d * G /\ c * (x + F) = c * x + c * F
  BY <1>6, <1>10
<1>13. QED
  BY <1>6, <1>9, <1>10, <1>11, <1>12

==============================================================================
