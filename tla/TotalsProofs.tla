---------------------------- MODULE TotalsProofs ----------------------------
(***************************************************************************)
(* What holds of a sum over any finite set.  The sum is a fold of the      *)
(* community modules, a recursive function over the subsets of the set;    *)
(* that it is what its recursion says, and everything after it, is shown   *)
(* by looking at a smallest counterexample.                                *)
(***************************************************************************)
EXTENDS Totals, FiniteSetTheorems, WellFoundedInduction, TLAPS

(* Every set of naturals has a least element: the form of induction these   *)
(* proofs use.                                                              *)
LEMMA LeastNumber ==
    ASSUME NEW T \in SUBSET Nat, T # {}
    PROVE  \E m \in T : \A k \in T : m <= k
  <1> DEFINE R == OpToRel(<, Nat)
  <1>1. IsWellFoundedOn(R, Nat)
    BY NatLessThanWellFounded
  <1>2. \A k, m \in Nat : k < m => <<k, m>> \in R
    BY DEF OpToRel
  <1> HIDE DEF R
  <1>3. PICK m \in T : \A k \in T : ~(<<k, m>> \in R)
    BY <1>1, WFMin
  <1>4. \A k \in T : ~(k < m)
    BY <1>2, <1>3
  <1> QED BY <1>3, <1>4

(* How the fold that computes a total goes through the subsets of a set:    *)
(* the total of s, when g holds those of the smaller ones.                  *)
Pick(s) == CHOOSE x \in s : TRUE

Round(f, g, s) == IF s = {} THEN 0 ELSE f[Pick(s)] + g[s \ {Pick(s)}]

Fold(f, S) == CHOOSE g : g = [s \in SUBSET S |-> Round(f, g, s)]

(* A total is what that fold returns for the whole set. *)
LEMMA TotalIsFold == \A f, S : Total(f, S) = Fold(f, S)[S]
  BY DEF Total, MapThenSumSet, MapThenFoldSet, Fold, Round, Pick

(* Removing an element of a finite set. *)
LEMMA PickFacts ==
    ASSUME NEW s, s # {}, IsFiniteSet(s)
    PROVE  /\ Pick(s) \in s
           /\ IsFiniteSet(s \ {Pick(s)})
           /\ Cardinality(s \ {Pick(s)}) = Cardinality(s) - 1
           /\ Cardinality(s) \in Nat \ {0}
  <1>1. Pick(s) \in s
    BY DEF Pick
  <1>2. Cardinality(s) \in Nat /\ Cardinality(s) # 0
    BY FS_CardinalityType, FS_EmptySet
  <1>3. IsFiniteSet(s \ {Pick(s)}) /\ Cardinality(s \ {Pick(s)}) = Cardinality(s) - 1
    BY <1>1, FS_RemoveElement
  <1> QED BY <1>1, <1>2, <1>3

(* Some g computes the totals of the subsets of S of up to n elements. *)
Computes(f, S, n, g) ==
    \A s \in SUBSET S : Cardinality(s) <= n => g[s] = Round(f, g, s)

(* There is one for every size. *)
LEMMA Computable ==
    ASSUME NEW f, NEW S, IsFiniteSet(S), NEW n \in Nat
    PROVE  \E g : Computes(f, S, n, g)
  <1> DEFINE Bad == {m \in Nat : ~\E g : Computes(f, S, m, g)}
  <1> SUFFICES ASSUME Bad # {} PROVE FALSE
    OBVIOUS
  <1>1. PICK m \in Bad : \A k \in Bad : m <= k
    <2>1. Bad \in SUBSET Nat
      OBVIOUS
    <2> HIDE DEF Bad
    <2> QED BY <2>1, LeastNumber
  <1>2. m \in Nat /\ ~\E g : Computes(f, S, m, g)
    OBVIOUS
  <1>3. PICK g : m > 0 => Computes(f, S, m - 1, g)
    <2>1. m > 0 => m - 1 \in Nat /\ m - 1 \notin Bad
      BY <1>1, <1>2
    <2> QED BY <2>1
  <1> DEFINE h == [s \in SUBSET S |-> Round(f, g, s)]
  <1>4. ASSUME NEW s \in SUBSET S, Cardinality(s) <= m
        PROVE  h[s] = Round(f, h, s)
    <2>1. CASE s = {}
      BY <2>1 DEF Round
    <2>2. CASE s # {}
      <3> DEFINE r == s \ {Pick(s)}
      <3>1. IsFiniteSet(s)
        BY FS_Subset
      <3>2. /\ r \in SUBSET S /\ Cardinality(r) = Cardinality(s) - 1
            /\ Cardinality(s) \in Nat \ {0}
        BY <2>2, <3>1, PickFacts
      <3>3. m > 0 /\ Cardinality(r) <= m - 1
        BY <1>2, <1>4, <3>2
      <3>4. g[r] = Round(f, g, r)
        BY <1>3, <3>2, <3>3 DEF Computes
      <3>5. h[r] = g[r]
        BY <3>2, <3>4
      <3>6. h[s] = Round(f, g, s)
        OBVIOUS
      <3> HIDE DEF h
      <3> QED BY <2>2, <3>5, <3>6 DEF Round
    <2> QED BY <2>1, <2>2
  <1>5. Computes(f, S, m, h)
    <2> HIDE DEF h
    <2> QED BY <1>4 DEF Computes
  <1> QED BY <1>2, <1>5

(* The fold is the function its recursion describes. *)
LEMMA FoldUnrolls ==
    ASSUME NEW f, NEW S, IsFiniteSet(S)
    PROVE  \A s \in SUBSET S : Fold(f, S)[s] = Round(f, Fold(f, S), s)
  <1>1. Cardinality(S) \in Nat
    BY FS_CardinalityType
  <1>2. PICK g : Computes(f, S, Cardinality(S), g)
    BY <1>1, Computable
  <1>3. \A s \in SUBSET S : g[s] = Round(f, g, s)
    <2>1. \A s \in SUBSET S : Cardinality(s) <= Cardinality(S)
      BY FS_Subset
    <2> QED BY <1>2, <2>1 DEF Computes
  <1> DEFINE h == [s \in SUBSET S |-> g[s]]
  <1>4. \A s \in SUBSET S : Round(f, h, s) = Round(f, g, s)
    BY DEF Round, Pick
  <1>5. h = [s \in SUBSET S |-> Round(f, h, s)]
    BY <1>3, <1>4
  <1> HIDE DEF h
  <1>6. \E k : k = [s \in SUBSET S |-> Round(f, k, s)]
    BY <1>5
  <1>7. Fold(f, S) = [s \in SUBSET S |-> Round(f, Fold(f, S), s)]
    BY <1>6 DEF Fold
  <1> QED BY <1>7

(* The fold over S computes the totals of the subsets of S. *)
LEMMA FoldTotals ==
    ASSUME NEW f, NEW S, IsFiniteSet(S), NEW s \in SUBSET S
    PROVE  Fold(f, S)[s] = Total(f, s)
  <1> DEFINE Bad == {n \in Nat : \E q \in SUBSET s : Cardinality(q) = n
                                    /\ Fold(f, s)[q] # Fold(f, S)[q]}
  <1>0. IsFiniteSet(s) /\ \A q \in SUBSET s : IsFiniteSet(q) /\ Cardinality(q) \in Nat
    BY FS_Subset, FS_CardinalityType
  <1> SUFFICES ASSUME Bad # {} PROVE FALSE
    BY <1>0, TotalIsFold
  <1>1. PICK n \in Bad : \A k \in Bad : n <= k
    <2>1. Bad \in SUBSET Nat
      OBVIOUS
    <2> HIDE DEF Bad
    <2> QED BY <2>1, LeastNumber
  <1>2. PICK q \in SUBSET s : Cardinality(q) = n /\ Fold(f, s)[q] # Fold(f, S)[q]
    OBVIOUS
  <1>3. \A p \in SUBSET s : Cardinality(p) < Cardinality(q) => Fold(f, s)[p] = Fold(f, S)[p]
    BY <1>0, <1>1, <1>2
  <1> HIDE DEF Bad
  <1>4. Fold(f, s)[q] = Round(f, Fold(f, s), q) /\ Fold(f, S)[q] = Round(f, Fold(f, S), q)
    BY <1>0, FoldUnrolls
  <1>5. q # {}
    BY <1>2, <1>4 DEF Round
  <1> DEFINE p == q \ {Pick(q)}
  <1>6. p \in SUBSET s /\ Cardinality(p) < Cardinality(q)
    BY <1>0, <1>5, PickFacts
  <1>7. Fold(f, s)[p] = Fold(f, S)[p]
    BY <1>3, <1>6
  <1> QED BY <1>2, <1>4, <1>5, <1>7 DEF Round

(* A total is that of the rest and one more element, ... *)
LEMMA TotalPick ==
    ASSUME NEW f, NEW S, IsFiniteSet(S)
    PROVE  /\ S = {} => Total(f, S) = 0
           /\ S # {} => Total(f, S) = f[Pick(S)] + Total(f, S \ {Pick(S)})
  <1>1. Total(f, S) = Round(f, Fold(f, S), S)
    BY TotalIsFold, FoldUnrolls
  <1>2. Fold(f, S)[S \ {Pick(S)}] = Total(f, S \ {Pick(S)})
    BY FoldTotals
  <1> QED BY <1>1, <1>2 DEF Round

(* ... whatever the order.  Totals of naturals are naturals. *)
Regular(f, S) ==
    /\ Total(f, S) \in Nat
    /\ \A x \in S : Total(f, S) = f[x] + Total(f, S \ {x})

LEMMA TotalRegular ==
    ASSUME NEW f, NEW S, IsFiniteSet(S), \A x \in S : f[x] \in Nat
    PROVE  Regular(f, S)
  <1> DEFINE Bad == {n \in Nat : \E s \in SUBSET S : Cardinality(s) = n /\ ~Regular(f, s)}
  <1>0. \A s \in SUBSET S : IsFiniteSet(s) /\ Cardinality(s) \in Nat
    BY FS_Subset, FS_CardinalityType
  <1> SUFFICES ASSUME Bad # {} PROVE FALSE
    BY <1>0
  <1>1. PICK n \in Bad : \A k \in Bad : n <= k
    <2>1. Bad \in SUBSET Nat
      OBVIOUS
    <2> HIDE DEF Bad
    <2> QED BY <2>1, LeastNumber
  <1>2. PICK s \in SUBSET S : Cardinality(s) = n /\ ~Regular(f, s)
    OBVIOUS
  <1>3. \A r \in SUBSET S : Cardinality(r) < Cardinality(s) => Regular(f, r)
    BY <1>0, <1>1, <1>2
  <1> HIDE DEF Bad
  <1>4. s # {}
    BY <1>0, <1>2, TotalPick DEF Regular
  <1> DEFINE p == Pick(s)
             r == s \ {p}
  <1>5. p \in s /\ r \in SUBSET S /\ Cardinality(r) < Cardinality(s) /\ Cardinality(s) \in Nat
    BY <1>0, <1>4, PickFacts
  <1>6. Total(f, s) = f[p] + Total(f, r) /\ Regular(f, r) /\ f[p] \in Nat
    BY <1>0, <1>3, <1>4, <1>5, TotalPick
  <1>7. Total(f, s) \in Nat
    BY <1>6 DEF Regular
  <1>8. ASSUME NEW x \in s PROVE Total(f, s) = f[x] + Total(f, s \ {x})
    <2> DEFINE q == s \ {x}
    <2>1. CASE x = p
      BY <1>6, <2>1
    <2>2. CASE x # p
      <3>1. x \in r /\ p \in q /\ q \ {p} = r \ {x} /\ f[x] \in Nat
        BY <1>5, <2>2
      <3>2. q \in SUBSET S /\ Cardinality(q) < Cardinality(s)
        <4>1. Cardinality(q) = Cardinality(s) - 1
          BY <1>0, FS_RemoveElement
        <4> QED BY <1>5, <4>1
      <3>3. Regular(f, q)
        BY <1>3, <3>2
      <3>4. r \ {x} \in SUBSET S /\ Cardinality(r \ {x}) < Cardinality(s)
        <4>1. Cardinality(r \ {x}) = Cardinality(r) - 1 /\ Cardinality(r) \in Nat
          BY <1>0, <1>5, <3>1, FS_RemoveElement
        <4> QED BY <1>5, <4>1
      <3>5. Total(f, r \ {x}) \in Nat
        BY <1>3, <3>4 DEF Regular
      <3>6. Total(f, r) = f[x] + Total(f, r \ {x}) /\ Total(f, q) = f[p] + Total(f, r \ {x})
        BY <1>6, <3>1, <3>3 DEF Regular
      <3> QED BY <1>6, <3>1, <3>5, <3>6
    <2> QED BY <2>1, <2>2
  <1> QED BY <1>2, <1>7, <1>8 DEF Regular

(* Totals compare as their summands do, those that are 0 left aside. *)
LEMMA TotalCompare ==
    ASSUME NEW A, IsFiniteSet(A), NEW B, IsFiniteSet(B), NEW f, NEW g,
           \A x \in A : f[x] \in Nat, \A x \in B : g[x] \in Nat,
           \A x \in A : f[x] # 0 => x \in B /\ f[x] <= g[x]
    PROVE  Total(f, A) <= Total(g, B)
  <1> DEFINE Over(s) == ~(Total(f, s) <= Total(g, B \cap s))
             Bad == {n \in Nat : \E s \in SUBSET A : Cardinality(s) = n /\ Over(s)}
  <1>0. /\ \A s \in SUBSET A : IsFiniteSet(s) /\ Cardinality(s) \in Nat /\ Regular(f, s)
        /\ \A s \in SUBSET B : IsFiniteSet(s) /\ Cardinality(s) \in Nat /\ Regular(g, s)
    BY FS_Subset, FS_CardinalityType, TotalRegular
  <1>b. /\ \A s \in SUBSET A : IsFiniteSet(s) /\ Cardinality(s) \in Nat
        /\ \A s \in SUBSET B : IsFiniteSet(s) /\ Cardinality(s) \in Nat
    BY <1>0
  <1>a. ASSUME Bad # {} PROVE FALSE
    <2>1. PICK n \in Bad : \A k \in Bad : n <= k
      <3>1. Bad \in SUBSET Nat
        OBVIOUS
      <3> HIDE DEF Bad
      <3> QED BY <1>a, <3>1, LeastNumber
    <2>2. PICK s \in SUBSET A : Cardinality(s) = n /\ Over(s)
      OBVIOUS
    <2> HIDE DEF Over
    <2>3. \A r \in SUBSET A : Cardinality(r) < Cardinality(s) => ~Over(r)
      BY <1>b, <2>1, <2>2
    <2> USE DEF Over
    <2> HIDE DEF Bad
    <2>4. s # {}
      <3> SUFFICES ASSUME s = {} PROVE FALSE
        OBVIOUS
      <3>1. B \cap s = {} /\ Total(f, s) = 0 /\ Total(g, B \cap s) = 0
        BY <1>0, TotalPick
      <3> QED BY <2>2, <3>1
    <2> DEFINE x == Pick(s)
               r == s \ {x}
    <2>5. x \in s /\ r \in SUBSET A /\ Cardinality(r) < Cardinality(s)
      BY <1>b, <2>4, PickFacts
    <2>6. Total(f, s) = f[x] + Total(f, r) /\ Total(f, r) \in Nat /\ f[x] \in Nat
      BY <1>0, <2>5 DEF Regular
    <2>7. Total(f, r) <= Total(g, B \cap r) /\ Total(g, B \cap r) \in Nat
      BY <1>0, <2>3, <2>5 DEF Regular
    <2>8. CASE x \in B
      <3>1. x \in B \cap s /\ (B \cap s) \ {x} = B \cap r /\ g[x] \in Nat /\ f[x] <= g[x]
        BY <2>5, <2>6, <2>8
      <3>2. Total(g, B \cap s) = g[x] + Total(g, B \cap r)
        BY <1>0, <3>1 DEF Regular
      <3> HIDE DEF x, r
      <3> QED BY <2>2, <2>6, <2>7, <3>1, <3>2
    <2>9. CASE x \notin B
      <3>1. f[x] = 0 /\ B \cap s = B \cap r
        BY <2>5, <2>9
      <3>2. f[x] = 0 /\ Total(g, B \cap s) = Total(g, B \cap r)
        BY <3>1
      <3> HIDE DEF x, r
      <3> QED BY <2>2, <2>6, <2>7, <3>2
    <2> QED BY <2>8, <2>9
  <1>1. Total(f, A) <= Total(g, B \cap A) /\ Total(f, A) \in Nat /\ Total(g, B \cap A) \in Nat
    BY <1>0, <1>a DEF Regular
  <1> HIDE DEF Bad
  <1>2. Total(g, B \cap A) <= Total(g, B)
    <2> DEFINE Short(s) == ~(Total(g, s \cap A) <= Total(g, s))
               Low == {n \in Nat : \E s \in SUBSET B : Cardinality(s) = n /\ Short(s)}
    <2> SUFFICES ASSUME Low # {} PROVE FALSE
      BY <1>0
    <2>1. PICK n \in Low : \A k \in Low : n <= k
      <3>1. Low \in SUBSET Nat
        OBVIOUS
      <3> HIDE DEF Low
      <3> QED BY <3>1, LeastNumber
    <2>2. PICK s \in SUBSET B : Cardinality(s) = n /\ Short(s)
      OBVIOUS
    <2> HIDE DEF Short
    <2>3. \A r \in SUBSET B : Cardinality(r) < Cardinality(s) => ~Short(r)
      BY <1>b, <2>1, <2>2
    <2> USE DEF Short
    <2> HIDE DEF Low
    <2>4. s # {}
      <3> SUFFICES ASSUME s = {} PROVE FALSE
        OBVIOUS
      <3>1. s \cap A = {} /\ Total(g, s) = 0 /\ Total(g, s \cap A) = 0
        BY <1>0, TotalPick
      <3> QED BY <2>2, <3>1
    <2> DEFINE x == Pick(s)
               r == s \ {x}
    <2>5. x \in s /\ r \in SUBSET B /\ Cardinality(r) < Cardinality(s)
      BY <1>b, <2>4, PickFacts
    <2>6. Total(g, s) = g[x] + Total(g, r) /\ Total(g, r) \in Nat /\ g[x] \in Nat
      BY <1>0, <2>5 DEF Regular
    <2>7. Total(g, r \cap A) <= Total(g, r) /\ Total(g, r \cap A) \in Nat
      BY <1>0, <2>3, <2>5 DEF Regular
    <2>8. CASE x \in A
      <3>1. x \in s \cap A /\ (s \cap A) \ {x} = r \cap A /\ s \cap A \in SUBSET B
        BY <2>5, <2>8
      <3>2. Total(g, s \cap A) = g[x] + Total(g, r \cap A)
        BY <1>0, <3>1 DEF Regular
      <3> HIDE DEF x, r
      <3> QED BY <2>2, <2>6, <2>7, <3>2
    <2>9. CASE x \notin A
      <3>1. s \cap A = r \cap A
        BY <2>5, <2>9
      <3> HIDE DEF x, r
      <3> QED BY <2>2, <2>6, <2>7, <3>1
    <2> QED BY <2>8, <2>9
  <1>3. Total(g, B) \in Nat
    BY <1>0 DEF Regular
  <1> QED BY <1>1, <1>2, <1>3

(* Totals depend on the summands only. *)
LEMMA TotalSame ==
    ASSUME NEW A, IsFiniteSet(A), NEW f, NEW g,
           \A x \in A : f[x] \in Nat /\ g[x] = f[x]
    PROVE  Total(f, A) = Total(g, A)
  <1>1. Total(f, A) <= Total(g, A) /\ Total(g, A) <= Total(f, A)
    <2>1. \A x \in A : f[x] \in Nat /\ g[x] \in Nat /\ f[x] <= g[x] /\ g[x] <= f[x]
      OBVIOUS
    <2>2. Total(f, A) <= Total(g, A)
      BY <2>1, TotalCompare
    <2>3. Total(g, A) <= Total(f, A)
      BY <2>1, TotalCompare
    <2> QED BY <2>2, <2>3
  <1>2. Total(f, A) \in Nat /\ Total(g, A) \in Nat
    BY TotalRegular DEF Regular
  <1> QED BY <1>1, <1>2

(* One summand grows. *)
LEMMA TotalRaised ==
    ASSUME NEW A, IsFiniteSet(A), NEW f, NEW g, NEW x \in A, NEW d \in Nat,
           \A y \in A : f[y] \in Nat /\ g[y] = IF y = x THEN f[y] + d ELSE f[y]
    PROVE  Total(g, A) = Total(f, A) + d
  <1> DEFINE R == A \ {x}
  <1>1. IsFiniteSet(R) /\ \A y \in R : f[y] \in Nat /\ g[y] = f[y]
    BY FS_Subset
  <1>2. Total(f, R) = Total(g, R)
    BY <1>1, TotalSame
  <1>3. f[x] \in Nat /\ g[x] = f[x] + d /\ \A y \in A : g[y] \in Nat
    OBVIOUS
  <1>4. Total(f, A) = f[x] + Total(f, R) /\ Total(g, A) = g[x] + Total(g, R) /\ Total(f, R) \in Nat
    BY <1>1, <1>3, TotalRegular DEF Regular
  <1> QED BY <1>2, <1>3, <1>4

(* Multiplication distributes over addition. *)
LEMMA Distributes == \A a, b, c \in Int : a * (b + c) = a * b + a * c
  OBVIOUS

(* A bound on every summand, in proportion to another and up to a constant, *)
(* is one on the total.                                                     *)
Scaled(f, h, t, b, c, s) == t * Total(h, s) <= b * Total(f, s) + c * Cardinality(s)

LEMMA TotalScaled ==
    ASSUME NEW A, IsFiniteSet(A), NEW f, NEW h, NEW t \in Nat, NEW b \in Nat, NEW c \in Nat,
           \A x \in A : f[x] \in Nat /\ h[x] \in Nat /\ t * h[x] <= b * f[x] + c
    PROVE  Scaled(f, h, t, b, c, A)
  <1> DEFINE Bad == {n \in Nat : \E s \in SUBSET A : Cardinality(s) = n
                                                     /\ ~Scaled(f, h, t, b, c, s)}
  <1>0. \A s \in SUBSET A : IsFiniteSet(s) /\ Cardinality(s) \in Nat
    BY FS_Subset, FS_CardinalityType
  <1>1. \A s \in SUBSET A : Regular(f, s) /\ Regular(h, s)
    BY <1>0, TotalRegular
  <1> SUFFICES ASSUME Bad # {} PROVE FALSE
    BY <1>0
  <1>2. PICK n \in Bad : \A k \in Bad : n <= k
    <2>1. Bad \in SUBSET Nat
      OBVIOUS
    <2> HIDE DEF Bad
    <2> QED BY <2>1, LeastNumber
  <1>3. PICK s \in SUBSET A : Cardinality(s) = n /\ ~Scaled(f, h, t, b, c, s)
    OBVIOUS
  <1>4. \A r \in SUBSET A : Cardinality(r) < Cardinality(s) => Scaled(f, h, t, b, c, r)
    BY <1>0, <1>2, <1>3
  <1> HIDE DEF Bad
  <1>5. s # {}
    <2> SUFFICES ASSUME s = {} PROVE FALSE
      OBVIOUS
    <2>1. Total(f, s) = 0 /\ Total(h, s) = 0 /\ Cardinality(s) = 0
      BY <1>0, TotalPick, FS_EmptySet
    <2> QED BY <1>3, <2>1 DEF Scaled
  <1> DEFINE x == Pick(s)
             r == s \ {x}
  <1>6. x \in s /\ r \in SUBSET A /\ Cardinality(r) = Cardinality(s) - 1
    BY <1>0, <1>5, PickFacts
  <1>7. /\ Total(f, s) = f[x] + Total(f, r) /\ Total(h, s) = h[x] + Total(h, r)
        /\ Total(f, r) \in Nat /\ Total(h, r) \in Nat
    BY <1>1, <1>6 DEF Regular
  <1>8. Scaled(f, h, t, b, c, r) /\ Cardinality(s) = Cardinality(r) + 1 /\ Cardinality(r) \in Nat
    BY <1>0, <1>4, <1>6
  <1>9. f[x] \in Nat /\ h[x] \in Nat /\ t * h[x] <= b * f[x] + c
    BY <1>6
  <1> HIDE DEF x, r
  <1>10. /\ t * Total(h, s) = t * h[x] + t * Total(h, r)
         /\ b * Total(f, s) = b * f[x] + b * Total(f, r)
         /\ c * Cardinality(s) = c * Cardinality(r) + c
    <2>1. c * Cardinality(s) = c * Cardinality(r) + c * 1
      BY <1>8, Distributes
    <2> QED BY <1>7, <1>9, <2>1, Distributes
  <1>11. /\ t * h[x] \in Int /\ t * Total(h, r) \in Int /\ b * f[x] \in Int
         /\ b * Total(f, r) \in Int /\ c * Cardinality(r) \in Int
    BY <1>7, <1>8, <1>9
  <1>12. t * Total(h, r) <= b * Total(f, r) + c * Cardinality(r)
    BY <1>8 DEF Scaled
  <1>13. t * Total(h, s) <= b * Total(f, s) + c * Cardinality(s)
    BY <1>9, <1>10, <1>11, <1>12
  <1> QED BY <1>3, <1>13 DEF Scaled
=============================================================================
