--------------------------- MODULE OutboundProofs ---------------------------
(***************************************************************************)
(* Proofs about the accounting of output: for any number of connections    *)
(* and any limits, the pool's counters and the semaphores say exactly what *)
(* is held, and every guarantee stays backed.                              *)
(***************************************************************************)
EXTENDS Outbound, FiniteSetTheorems, SequenceTheorems, WellFoundedInduction, TLAPS

-----------------------------------------------------------------------------
(* Induction, over the set of what has a property *)

\* A set that holds zero and with each number its successor holds them all.
LEMMA NumbersReached ==
  ASSUME NEW P, 0 \in P, \A n \in Nat : n \in P => n + 1 \in P
  PROVE  Nat \subseteq P
<1> DEFINE T == {n \in Nat : n \notin P}
<1>1. SUFFICES ASSUME T # {} PROVE FALSE
  OBVIOUS
<1>2. IsWellFoundedOn(OpToRel(<, Nat), Nat)
  BY NatLessThanWellFounded
<1>3. \E x \in T : \A y \in T : <<y, x>> \notin OpToRel(<, Nat)
  BY <1>1, <1>2, WFMin
<1>4. PICK x \in T : \A y \in T : ~(y < x)
  BY <1>3 DEF OpToRel
<1>5. QED
  BY <1>4

\* A set of sets that holds the empty set, and with a subset of S also the
\* subset with one more element of S, holds S if S is finite.
LEMMA SubsetsReached ==
  ASSUME NEW S, IsFiniteSet(S), NEW P, {} \in P,
         \A s \in SUBSET S : \A x \in S \ s : s \in P => s \cup {x} \in P
  PROVE  \A s \in SUBSET S : s \in P
<1> DEFINE Q == {n \in Nat : \A s \in SUBSET S : Cardinality(s) = n => s \in P}
<1>1. \A s \in SUBSET S : IsFiniteSet(s) /\ Cardinality(s) \in Nat
  BY FS_Subset, FS_CardinalityType
<1>2. 0 \in Q
  BY <1>1, FS_EmptySet
<1>3. ASSUME NEW n \in Nat, n \in Q PROVE n + 1 \in Q
  <2> SUFFICES ASSUME NEW s \in SUBSET S, Cardinality(s) = n + 1 PROVE s \in P
    OBVIOUS
  <2>1. IsFiniteSet(s) /\ Cardinality({}) = 0 /\ n + 1 # 0
    BY <1>1, FS_EmptySet
  <2>2. PICK x \in s : TRUE
    BY <2>1
  <2>3. Cardinality(s \ {x}) = n
    <3>1. Cardinality(s \ {x}) = Cardinality(s) - 1
      BY <2>1, <2>2, FS_RemoveElement
    <3>2. QED
      BY <3>1
  <2>4. s \ {x} \in P
    BY <1>3, <2>3
  <2>5. s = (s \ {x}) \cup {x} /\ x \in S \ (s \ {x}) /\ s \ {x} \in SUBSET S
    BY <2>2
  <2>6. (s \ {x}) \cup {x} \in P
    BY <2>4, <2>5
  <2>7. QED
    BY <2>5, <2>6
<1>4. Nat \subseteq Q
  <2> HIDE DEF Q
  <2>1. QED
    BY <1>2, <1>3, NumbersReached
<1>5. QED
  BY <1>1, <1>4

-----------------------------------------------------------------------------
(* What a fold of + over a function is, whatever the order of the fold *)

\* What a fold of + over a function is: it says what every set of arguments sums to.
Sums(it, f) ==
  /\ it \in [SUBSET DOMAIN f -> Int]
  /\ it[{}] = 0
  /\ \A s \in SUBSET DOMAIN f : \A x \in DOMAIN f \ s : it[s \cup {x}] = it[s] + f[x]

Chosen(s) == CHOOSE x \in s : TRUE

\* The recursion of MapThenFoldSet.
Iterates(it, f) ==
  it = [s \in SUBSET DOMAIN f |->
          IF s = {} THEN 0 ELSE f[Chosen(s)] + it[s \ {Chosen(s)}]]

\* The iteration that a fold is defined by exists.
LEMMA IterationExists ==
  ASSUME NEW S, IsFiniteSet(S), NEW f \in [S -> Int]
  PROVE  \E it \in [SUBSET S -> Int] : Iterates(it, f)
<1> DEFINE Good(g, s) == g[s] = IF s = {} THEN 0
                                ELSE f[Chosen(s)] + g[s \ {Chosen(s)}]
           Upto(g, n) == \A s \in SUBSET S : Cardinality(s) <= n => Good(g, s)
           P == {n \in Nat : \E g \in [SUBSET S -> Int] : Upto(g, n)}
<1>1. \A s \in SUBSET S : IsFiniteSet(s) /\ Cardinality(s) \in Nat
  BY FS_Subset, FS_CardinalityType
<1>2. \A s \in SUBSET S : s # {} => /\ Chosen(s) \in s
                                    /\ Cardinality(s \ {Chosen(s)}) = Cardinality(s) - 1
  <2> SUFFICES ASSUME NEW s \in SUBSET S, s # {}
               PROVE  Chosen(s) \in s /\ Cardinality(s \ {Chosen(s)}) = Cardinality(s) - 1
    OBVIOUS
  <2>1. Chosen(s) \in s
    BY DEF Chosen
  <2>2. QED
    BY <1>1, <2>1, FS_RemoveElement
<1>3. 0 \in P
  <2> DEFINE g == [s \in SUBSET S |-> 0]
  <2>1. g \in [SUBSET S -> Int]
    OBVIOUS
  <2>2. \A s \in SUBSET S : Cardinality(s) <= 0 => s = {}
    BY <1>1, FS_EmptySet
  <2>3. Upto(g, 0)
    BY <2>2
  <2> HIDE DEF g
  <2>4. QED
    BY <2>1, <2>3
<1>4. ASSUME NEW n \in Nat, n \in P PROVE n + 1 \in P
  <2>1. PICK g \in [SUBSET S -> Int] : Upto(g, n)
    BY <1>4
  <2> DEFINE h == [s \in SUBSET S |->
                     IF Cardinality(s) = n + 1
                       THEN f[Chosen(s)] + g[s \ {Chosen(s)}] ELSE g[s]]
  <2>2. \A s \in SUBSET S : Cardinality(s) = n + 1 => s # {}
    <3>1. Cardinality({}) = 0 /\ n + 1 # 0
      BY FS_EmptySet
    <3>2. QED
      BY <3>1
  <2>3. h \in [SUBSET S -> Int]
    BY <1>2, <2>2
  <2>4. \A s \in SUBSET S : Cardinality(s) <= n => h[s] = g[s]
    BY <1>1
  <2>5. Upto(h, n + 1)
    <3> SUFFICES ASSUME NEW s \in SUBSET S, Cardinality(s) <= n + 1 PROVE Good(h, s)
      OBVIOUS
    <3>1. CASE Cardinality(s) = n + 1
      <4>1. s # {} /\ s \ {Chosen(s)} \in SUBSET S /\ Cardinality(s \ {Chosen(s)}) <= n
        BY <1>2, <2>2, <3>1
      <4>2. h[s \ {Chosen(s)}] = g[s \ {Chosen(s)}]
        BY <2>4, <4>1
      <4>3. QED
        BY <3>1, <4>1, <4>2
    <3>2. CASE Cardinality(s) <= n
      <4>1. Good(g, s)
        BY <2>1, <3>2
      <4>2. s # {} => s \ {Chosen(s)} \in SUBSET S /\ Cardinality(s \ {Chosen(s)}) <= n
        BY <1>1, <1>2, <3>2
      <4> HIDE DEF h
      <4>3. QED
        BY <2>4, <3>2, <4>1, <4>2
    <3>3. Cardinality(s) \in Nat
      BY <1>1
    <3>4. Cardinality(s) <= n \/ Cardinality(s) = n + 1
      BY <3>3
    <3> HIDE DEF h, Good
    <3>5. QED
      BY <3>1, <3>2, <3>4
  <2> HIDE DEF h
  <2>6. QED
    BY <2>3, <2>5, SMTT(30)
<1>5. Nat \subseteq P
  <2> HIDE DEF P
  <2>1. QED
    BY <1>3, <1>4, NumbersReached
<1>6. Cardinality(S) \in P
  BY <1>1, <1>5
<1>7. PICK it \in [SUBSET S -> Int] : Upto(it, Cardinality(S))
  BY <1>6
<1>8. \A s \in SUBSET S : Cardinality(s) <= Cardinality(S)
  BY FS_Subset
<1>9. \A s \in SUBSET S : Good(it, s)
  BY <1>7, <1>8
<1>10. QED
  BY <1>9 DEF Iterates

\* It yields an integer for every subset.
LEMMA IterationType ==
  ASSUME NEW S, IsFiniteSet(S), NEW f \in [S -> Int], NEW it, Iterates(it, f)
  PROVE  it \in [SUBSET S -> Int]
<1> DEFINE P == {n \in Nat : \A s \in SUBSET S : Cardinality(s) <= n => it[s] \in Int}
<1>1. \A s \in SUBSET S : IsFiniteSet(s) /\ Cardinality(s) \in Nat
  BY FS_Subset, FS_CardinalityType
<1>2. /\ it[{}] = 0
      /\ \A s \in SUBSET S : s # {} => /\ Chosen(s) \in s
                                       /\ it[s] = f[Chosen(s)] + it[s \ {Chosen(s)}]
  BY DEF Iterates, Chosen
<1>3. 0 \in P
  <2> SUFFICES ASSUME NEW s \in SUBSET S, Cardinality(s) <= 0 PROVE it[s] \in Int
    OBVIOUS
  <2>1. s = {}
    BY <1>1, FS_EmptySet
  <2>2. QED
    BY <1>2, <2>1
<1>4. ASSUME NEW n \in Nat, n \in P PROVE n + 1 \in P
  <2> SUFFICES ASSUME NEW s \in SUBSET S, Cardinality(s) <= n + 1 PROVE it[s] \in Int
    OBVIOUS
  <2>1. CASE s = {}
    BY <1>2, <2>1
  <2>2. CASE s # {}
    <3> DEFINE c == Chosen(s)
    <3>1. c \in s /\ it[s] = f[c] + it[s \ {c}]
      BY <1>2, <2>2
    <3> HIDE DEF c
    <3>2. Cardinality(s \ {c}) <= n /\ s \ {c} \in SUBSET S
      BY <1>1, <3>1, FS_RemoveElement
    <3>3. it[s \ {c}] \in Int /\ f[c] \in Int
      BY <1>4, <3>1, <3>2
    <3>4. QED
      BY <3>1, <3>3
  <2>3. QED
    BY <2>1, <2>2
<1>5. Nat \subseteq P
  <2> HIDE DEF P
  <2>1. QED
    BY <1>3, <1>4, NumbersReached
<1>6. \A s \in SUBSET S : it[s] \in Int
  <2> SUFFICES ASSUME NEW s \in SUBSET S PROVE it[s] \in Int
    OBVIOUS
  <2>1. Cardinality(s) \in P /\ Cardinality(s) \in Nat
    BY <1>1, <1>5
  <2>2. QED
    BY <2>1
<1>7. it = [s \in SUBSET S |-> it[s]]
  BY DEF Iterates
<1>8. QED
  BY <1>6, <1>7

\* The order of the recursion does not matter.
LEMMA IterationSums ==
  ASSUME NEW S, IsFiniteSet(S), NEW f \in [S -> Int], NEW it, Iterates(it, f),
         it \in [SUBSET S -> Int]
  PROVE  Sums(it, f)
<1> DEFINE P == {n \in Nat : \A s \in SUBSET S : \A x \in S \ s :
                   Cardinality(s) <= n => it[s \cup {x}] = it[s] + f[x]}
<1>1. \A s \in SUBSET S : IsFiniteSet(s) /\ Cardinality(s) \in Nat
  BY FS_Subset, FS_CardinalityType
<1>2. /\ it[{}] = 0
      /\ \A s \in SUBSET S : s # {} => /\ Chosen(s) \in s
                                       /\ it[s] = f[Chosen(s)] + it[s \ {Chosen(s)}]
  BY DEF Iterates, Chosen
<1>3. 0 \in P
  <2> SUFFICES ASSUME NEW s \in SUBSET S, NEW x \in S \ s, Cardinality(s) <= 0
               PROVE  it[s \cup {x}] = it[s] + f[x]
    OBVIOUS
  <2>1. s = {} /\ {x} \in SUBSET S /\ s \cup {x} = {x} /\ {x} # {}
    BY <1>1, FS_EmptySet
  <2>2. Chosen({x}) = x /\ it[{x}] = f[Chosen({x})] + it[{x} \ {Chosen({x})}]
    BY <1>2, <2>1
  <2>3. {x} \ {x} = {}
    OBVIOUS
  <2>4. QED
    BY <1>2, <2>1, <2>2, <2>3
<1>4. ASSUME NEW n \in Nat, n \in P PROVE n + 1 \in P
  <2> SUFFICES ASSUME NEW s \in SUBSET S, NEW x \in S \ s, Cardinality(s) <= n + 1
               PROVE  it[s \cup {x}] = it[s] + f[x]
    OBVIOUS
  <2> DEFINE t == s \cup {x}
             c == Chosen(t)
  <2>1. t \in SUBSET S /\ t # {} /\ c \in t /\ it[t] = f[c] + it[t \ {c}]
    BY <1>2
  <2>2. CASE c = x
    <3>1. t \ {c} = s
      BY <2>2
    <3>2. it[t] = f[x] + it[s] /\ it[s] \in Int /\ f[x] \in Int
      <4> HIDE DEF c, t
      <4>1. QED
        BY <2>1, <2>2, <3>1
    <3>3. QED
      BY <3>2
  <2>3. CASE c # x
    <3> DEFINE r == s \ {c}
    <3>1. /\ c \in s /\ r \in SUBSET S /\ t \ {c} = r \cup {x} /\ s = r \cup {c}
          /\ x \in S \ r /\ c \in S \ r
      <4>1. c \in t
        BY <2>1
      <4> HIDE DEF c
      <4>2. QED
        BY <2>3, <4>1
    <3>2. Cardinality(r) <= n
      <4> HIDE DEF c
      <4>1. QED
        BY <1>1, <3>1, FS_RemoveElement
    <3> HIDE DEF r, c, t
    <3>3. it[r \cup {x}] = it[r] + f[x] /\ it[r \cup {c}] = it[r] + f[c]
      BY <1>4, <3>1, <3>2
    <3>4. it[t] = f[c] + it[r \cup {x}] /\ it[s] = it[r \cup {c}]
      BY <2>1, <3>1
    <3>5. f[c] \in Int /\ f[x] \in Int /\ it[r] \in Int
      BY <3>1
    <3>6. it[t] = it[s] + f[x]
      BY <3>3, <3>4, <3>5
    <3>7. QED
      BY <3>6 DEF t
  <2>4. QED
    BY <2>2, <2>3
<1>5. Nat \subseteq P
  <2> HIDE DEF P
  <2>1. QED
    BY <1>3, <1>4, NumbersReached
<1>6. \A s \in SUBSET S : \A x \in S \ s : it[s \cup {x}] = it[s] + f[x]
  <2> SUFFICES ASSUME NEW s \in SUBSET S, NEW x \in S \ s
               PROVE  it[s \cup {x}] = it[s] + f[x]
    OBVIOUS
  <2>1. Cardinality(s) \in P /\ Cardinality(s) \in Nat
    BY <1>1, <1>5
  <2>2. QED
    BY <2>1
<1>7. QED
  BY <1>2, <1>6 DEF Sums

\* A fold of + over a finite set is the value that every sum over the set has.
LEMMA FoldSums ==
  ASSUME NEW S, IsFiniteSet(S), NEW f \in [S -> Int]
  PROVE  \E it : Sums(it, f) /\ FoldFunction(+, 0, f) = it[S]
<1> DEFINE it == CHOOSE it : Iterates(it, f)
<1>1. PICK known \in [SUBSET S -> Int] : Iterates(known, f)
  BY IterationExists
<1>2. Iterates(it, f)
  BY <1>1
<1>3. it \in [SUBSET S -> Int]
  <2> HIDE DEF it
  <2>1. QED
    BY <1>2, IterationType
<1>4. FoldFunction(+, 0, f) = it[S]
  BY DEF FoldFunction, FoldFunctionOnSet, MapThenFoldSet, Iterates, Chosen
<1>5. Sums(it, f)
  <2> HIDE DEF it
  <2>1. QED
    BY <1>2, <1>3, IterationSums
<1> HIDE DEF it
<1>6. QED
  BY <1>4, <1>5

-----------------------------------------------------------------------------
(* Sums over the values of a function, and over sequences *)

Total(f) == FoldFunction(+, 0, f)

\* Two functions that agree on a finite set sum to the same over it.
LEMMA SumsAgree ==
  ASSUME NEW f, NEW g, NEW if, NEW ig, Sums(if, f), Sums(ig, g),
         NEW U, IsFiniteSet(U), U \subseteq DOMAIN f, U \subseteq DOMAIN g,
         \A x \in U : f[x] = g[x]
  PROVE  if[U] = ig[U]
<1> DEFINE P == {s \in SUBSET U : if[s] = ig[s]}
<1>1. {} \in P
  BY DEF Sums
<1>2. ASSUME NEW s \in SUBSET U, NEW x \in U \ s, s \in P PROVE s \cup {x} \in P
  <2>1. if[s \cup {x}] = if[s] + f[x] /\ ig[s \cup {x}] = ig[s] + g[x]
    BY DEF Sums
  <2>2. QED
    BY <1>2, <2>1
<1>3. U \in P
  <2> HIDE DEF P
  <2>1. QED
    BY <1>1, <1>2, SubsetsReached
<1>4. QED
  BY <1>3

\* A total of integers is an integer.
LEMMA TotalType ==
  ASSUME NEW S, IsFiniteSet(S), NEW f \in [S -> Int]
  PROVE  Total(f) \in Int
<1>1. PICK it : Sums(it, f) /\ Total(f) = it[S]
  BY FoldSums DEF Total
<1>2. DOMAIN f = S /\ S \in SUBSET S
  OBVIOUS
<1>3. QED
  BY <1>1, <1>2 DEF Sums

\* Changing one value changes the total by as much.
LEMMA TotalChanged ==
  ASSUME NEW S, IsFiniteSet(S), NEW f \in [S -> Int], NEW g \in [S -> Int],
         NEW x \in S, \A y \in S \ {x} : g[y] = f[y]
  PROVE  Total(g) = Total(f) + g[x] - f[x]
<1>1. PICK if : Sums(if, f) /\ Total(f) = if[S]
  BY FoldSums DEF Total
<1>2. PICK ig : Sums(ig, g) /\ Total(g) = ig[S]
  BY FoldSums DEF Total
<1> DEFINE U == S \ {x}
<1>3. IsFiniteSet(U) /\ U \cup {x} = S /\ x \notin U /\ U \subseteq S
  BY FS_Subset
<1>4. DOMAIN f = S /\ DOMAIN g = S
  OBVIOUS
<1>5. if[U] = ig[U]
  <2> HIDE DEF U
  <2>1. \A y \in U : f[y] = g[y]
    BY DEF U
  <2>2. QED
    BY <1>1, <1>2, <1>3, <1>4, <2>1, SumsAgree
<1>6. /\ if[S] = if[U] + f[x] /\ ig[S] = ig[U] + g[x]
      /\ if[U] \in Int /\ f[x] \in Int /\ g[x] \in Int
  <2> HIDE DEF U
  <2>1. U \in SUBSET S /\ x \in S \ U
    BY <1>3
  <2>2. if[U \cup {x}] = if[U] + f[x] /\ if[U] \in Int
    BY <1>1, <1>4, <2>1 DEF Sums
  <2>3. ig[U \cup {x}] = ig[U] + g[x]
    BY <1>2, <1>4, <2>1 DEF Sums
  <2>4. QED
    BY <1>3, <2>2, <2>3
<1>7. QED
  BY <1>1, <1>2, <1>5, <1>6

\* A total of natural numbers is one, and no less than any of them.
LEMMA TotalBounds ==
  ASSUME NEW S, IsFiniteSet(S), NEW f \in [S -> Nat]
  PROVE  Total(f) \in Nat /\ \A x \in S : f[x] <= Total(f)
<1>1. PICK it : Sums(it, f) /\ Total(f) = it[S]
  <2>1. f \in [S -> Int]
    OBVIOUS
  <2>2. QED
    BY <2>1, FoldSums DEF Total
<1> DEFINE P == {s \in SUBSET S : it[s] \in Nat /\ \A x \in s : f[x] <= it[s]}
<1>2. {} \in P
  BY <1>1 DEF Sums
<1>3. ASSUME NEW s \in SUBSET S, NEW x \in S \ s, s \in P PROVE s \cup {x} \in P
  <2>1. it[s \cup {x}] = it[s] + f[x]
    BY <1>1 DEF Sums
  <2>2. f[x] \in Nat /\ \A y \in s : f[y] \in Nat
    OBVIOUS
  <2>3. QED
    BY <1>3, <2>1, <2>2
<1>4. S \in P
  <2> HIDE DEF P
  <2>1. QED
    BY <1>2, <1>3, SubsetsReached
<1>5. QED
  BY <1>1, <1>4

\* A total of sums is the sum of the totals.
LEMMA TotalAdds ==
  ASSUME NEW S, IsFiniteSet(S), NEW f \in [S -> Int], NEW g \in [S -> Int],
         NEW h \in [S -> Int], \A x \in S : h[x] = f[x] + g[x]
  PROVE  Total(h) = Total(f) + Total(g)
<1>1. PICK if : Sums(if, f) /\ Total(f) = if[S]
  BY FoldSums DEF Total
<1>2. PICK ig : Sums(ig, g) /\ Total(g) = ig[S]
  BY FoldSums DEF Total
<1>3. PICK ih : Sums(ih, h) /\ Total(h) = ih[S]
  BY FoldSums DEF Total
<1> DEFINE P == {s \in SUBSET S : ih[s] = if[s] + ig[s]}
<1>4. {} \in P
  BY <1>1, <1>2, <1>3 DEF Sums
<1>5. ASSUME NEW s \in SUBSET S, NEW x \in S \ s, s \in P PROVE s \cup {x} \in P
  <2>1. /\ if[s \cup {x}] = if[s] + f[x] /\ if[s] \in Int
        /\ ig[s \cup {x}] = ig[s] + g[x] /\ ig[s] \in Int
        /\ ih[s \cup {x}] = ih[s] + h[x]
    BY <1>1, <1>2, <1>3 DEF Sums
  <2>2. f[x] \in Int /\ g[x] \in Int /\ h[x] = f[x] + g[x]
    OBVIOUS
  <2>3. ih[s \cup {x}] = if[s \cup {x}] + ig[s \cup {x}]
    BY <1>5, <2>1, <2>2
  <2>4. QED
    BY <2>3
<1>6. S \in P
  <2> HIDE DEF P
  <2>1. QED
    BY <1>4, <1>5, SubsetsReached
<1>7. QED
  BY <1>1, <1>2, <1>3, <1>6

\* A total of equal numbers is a product.
LEMMA TotalOfEqual ==
  ASSUME NEW S, IsFiniteSet(S), NEW T \in SUBSET S, NEW n \in Int,
         NEW f \in [S -> Int], \A x \in S : f[x] = IF x \in T THEN n ELSE 0
  PROVE  Total(f) = n * Cardinality(T)
<1>1. PICK it : Sums(it, f) /\ Total(f) = it[S]
  BY FoldSums DEF Total
<1> DEFINE P == {s \in SUBSET S : it[s] = n * Cardinality(s \cap T)}
<1>2. {} \in P
  <2>1. {} \cap T = {} /\ Cardinality({}) = 0 /\ it[{}] = 0
    BY <1>1, FS_EmptySet DEF Sums
  <2>2. n * 0 = 0
    OBVIOUS
  <2>3. QED
    BY <2>1, <2>2
<1>3. ASSUME NEW s \in SUBSET S, NEW x \in S \ s, s \in P PROVE s \cup {x} \in P
  <2>1. it[s \cup {x}] = it[s] + f[x]
    BY <1>1 DEF Sums
  <2> DEFINE k == Cardinality(s \cap T)
  <2>2. IsFiniteSet(s \cap T) /\ k \in Nat
    <3>1. s \cap T \in SUBSET S
      OBVIOUS
    <3>2. QED
      BY <3>1, FS_Subset, FS_CardinalityType
  <2>3. CASE x \in T
    <3>1. (s \cup {x}) \cap T = (s \cap T) \cup {x} /\ x \notin s \cap T
      BY <2>3
    <3>2. Cardinality((s \cup {x}) \cap T) = k + 1
      BY <2>2, <3>1, FS_AddElement
    <3>3. n * (k + 1) = n * k + n
      BY <2>2
    <3>4. QED
      BY <1>3, <2>1, <2>3, <3>2, <3>3
  <2>4. CASE x \notin T
    <3>1. (s \cup {x}) \cap T = s \cap T
      BY <2>4
    <3>2. n * k + 0 = n * k
      BY <2>2
    <3>3. QED
      BY <1>3, <2>1, <2>4, <3>1, <3>2
  <2>5. QED
    BY <2>3, <2>4
<1>4. S \in P
  <2> HIDE DEF P
  <2>1. QED
    BY <1>2, <1>3, SubsetsReached
<1>5. S \cap T = T
  OBVIOUS
<1>6. QED
  BY <1>1, <1>4, <1>5

\* A sum over 1 .. n + 1 is the sum over 1 .. n and the last number.
LEMMA SumsNext ==
  ASSUME NEW q, NEW it, Sums(it, q), NEW n \in Nat, DOMAIN q = 1..n,
         NEW k \in Nat, k + 1 <= n
  PROVE  it[1..(k + 1)] = it[1..k] + q[k + 1] /\ it[1..k] \in Int
<1>1. \A i \in 1..(k + 1) : i \in 1..k \/ i = k + 1
  OBVIOUS
<1>2. 1..(k + 1) = (1..k) \cup {k + 1}
  BY <1>1
<1>3. 1..k \in SUBSET DOMAIN q /\ k + 1 \in DOMAIN q \ (1..k)
  OBVIOUS
<1> DEFINE U == 1..k
<1> HIDE DEF U
<1>4. it[U \cup {k + 1}] = it[U] + q[k + 1] /\ it[U] \in Int
  BY <1>3 DEF Sums, U
<1>5. QED
  BY <1>2, <1>4 DEF U

\* Nothing totals zero.
LEMMA TotalEmpty == Total(<<>>) = 0
<1>1. <<>> \in [{} -> Int]
  OBVIOUS
<1>2. IsFiniteSet({})
  BY FS_EmptySet
<1>3. PICK it : Sums(it, <<>>) /\ Total(<<>>) = it[{}]
  BY <1>1, <1>2, FoldSums DEF Total
<1>4. QED
  BY <1>3 DEF Sums

\* The total of a concatenation is that of its parts.
LEMMA TotalConcat ==
  ASSUME NEW q \in Seq(Int), NEW r \in Seq(Int)
  PROVE  Total(q \o r) = Total(q) + Total(r)
<1> DEFINE p == q \o r
           m == Len(q)
           n == Len(r)
<1>1. /\ m \in Nat /\ n \in Nat /\ Len(p) = m + n
      /\ q \in [1..m -> Int] /\ r \in [1..n -> Int] /\ p \in [1..(m + n) -> Int]
      /\ \A i \in 1..m : p[i] = q[i]
      /\ \A i \in 1..n : p[m + i] = r[i]
  <2>1. m \in Nat /\ n \in Nat /\ q \in [1..m -> Int] /\ r \in [1..n -> Int]
    BY LenProperties
  <2>2. /\ p \in Seq(Int) /\ Len(p) = m + n
        /\ \A i \in 1..(m + n) : p[i] = IF i <= m THEN q[i] ELSE r[i - m]
    BY ConcatProperties
  <2>3. p \in [1..(m + n) -> Int]
    BY <2>2, LenProperties
  <2> HIDE DEF p, m, n
  <2>4. \A i \in 1..m : i \in 1..(m + n) /\ i <= m
    BY <2>1
  <2>5. \A i \in 1..n : m + i \in 1..(m + n) /\ ~(m + i <= m) /\ (m + i) - m = i
    BY <2>1
  <2>6. \A i \in 1..n : p[m + i] = r[i]
    <3> SUFFICES ASSUME NEW i \in 1..n PROVE p[m + i] = r[i]
      OBVIOUS
    <3>1. p[m + i] = IF m + i <= m THEN q[m + i] ELSE r[(m + i) - m]
      BY <2>2, <2>5
    <3>2. QED
      BY <2>5, <3>1
  <2>7. QED
    BY <2>1, <2>2, <2>3, <2>4, <2>6
<1> HIDE DEF p, m, n
<1>2. IsFiniteSet(1..m) /\ IsFiniteSet(1..n) /\ IsFiniteSet(1..(m + n))
  BY <1>1, FS_Interval
<1>3. PICK ip : Sums(ip, p) /\ Total(p) = ip[1..(m + n)]
  BY <1>1, <1>2, FoldSums DEF Total
<1>4. PICK iq : Sums(iq, q) /\ Total(q) = iq[1..m]
  BY <1>1, <1>2, FoldSums DEF Total
<1>5. PICK ir : Sums(ir, r) /\ Total(r) = ir[1..n]
  BY <1>1, <1>2, FoldSums DEF Total
<1> DEFINE P == {k \in Nat : k <= n => ip[1..(m + k)] = iq[1..m] + ir[1..k]}
<1>6. DOMAIN p = 1..(m + n) /\ DOMAIN q = 1..m /\ DOMAIN r = 1..n
  BY <1>1
<1>7. iq[1..m] \in Int
  BY <1>4, <1>6 DEF Sums
<1>8. 0 \in P
  <2>1. ip[1..m] = iq[1..m]
    <3> DEFINE U == 1..m
    <3>1. U \subseteq DOMAIN p /\ U \subseteq DOMAIN q /\ IsFiniteSet(U)
      BY <1>1, <1>2, <1>6
    <3>2. \A i \in U : p[i] = q[i]
      BY <1>1
    <3> HIDE DEF U
    <3>3. ip[U] = iq[U]
      BY <1>3, <1>4, <3>1, <3>2, SumsAgree
    <3>4. QED
      BY <3>3 DEF U
  <2>2. 1..0 = {} /\ m + 0 = m /\ ir[{}] = 0
    BY <1>1, <1>5 DEF Sums
  <2>3. QED
    BY <1>7, <2>1, <2>2
<1>9. ASSUME NEW k \in Nat, k \in P PROVE k + 1 \in P
  <2> SUFFICES ASSUME k + 1 <= n PROVE ip[1..(m + (k + 1))] = iq[1..m] + ir[1..(k + 1)]
    OBVIOUS
  <2>1. ip[1..(m + k)] = iq[1..m] + ir[1..k]
    BY <1>1, <1>9
  <2>2. /\ m + n \in Nat /\ m + k \in Nat /\ m + (k + 1) = (m + k) + 1
        /\ (m + k) + 1 <= m + n
    BY <1>1
  <2>3. Sums(ip, p) /\ DOMAIN p = 1..(m + n)
    BY <1>3, <1>6
  <2>4. ip[1..((m + k) + 1)] = ip[1..(m + k)] + p[(m + k) + 1]
    <3> DEFINE a == m + n
               b == m + k
    <3>1. a \in Nat /\ b \in Nat /\ b + 1 <= a /\ DOMAIN p = 1..a
      BY <2>2, <2>3
    <3> HIDE DEF a, b
    <3>2. ip[1..(b + 1)] = ip[1..b] + p[b + 1]
      BY <2>3, <3>1, SumsNext
    <3>3. QED
      BY <3>2 DEF b
  <2>5. ir[1..(k + 1)] = ir[1..k] + r[k + 1] /\ ir[1..k] \in Int
    BY <1>1, <1>5, <1>6, SumsNext
  <2>6. p[m + (k + 1)] = r[k + 1] /\ r[k + 1] \in Int
    <3>1. k + 1 \in 1..n
      BY <1>1
    <3>2. QED
      BY <1>1, <3>1
  <2>7. ip[1..((m + k) + 1)] = (iq[1..m] + ir[1..k]) + r[k + 1]
    <3>1. ip[1..(m + k)] = iq[1..m] + ir[1..k]
      BY <2>1
    <3>2. p[(m + k) + 1] = r[k + 1]
      BY <2>2, <2>6
    <3>3. QED
      BY <2>4, <3>1, <3>2
  <2>8. QED
    BY <1>7, <2>1, <2>2, <2>5, <2>6, <2>7
<1>10. n \in P
  <2> HIDE DEF P
  <2>1. QED
    BY <1>1, <1>8, <1>9, NumbersReached
<1>11. QED
  BY <1>1, <1>3, <1>4, <1>5, <1>10 DEF p

\* One number is its own total.
LEMMA TotalSingle ==
  ASSUME NEW x \in Int
  PROVE  Total(<<x>>) = x
<1>1. IsFiniteSet({1})
  BY FS_Singleton
<1>2. <<x>> \in [{1} -> Int]
  OBVIOUS
<1>3. PICK it : Sums(it, <<x>>) /\ Total(<<x>>) = it[{1}]
  BY <1>1, <1>2, FoldSums DEF Total
<1>4. it[{} \cup {1}] = it[{}] + x /\ it[{}] = 0
  <2>1. DOMAIN <<x>> = {1} /\ {} \in SUBSET {1} /\ 1 \in {1} \ {} /\ <<x>>[1] = x
    OBVIOUS
  <2>2. QED
    BY <1>3, <2>1 DEF Sums
<1>5. {} \cup {1} = {1}
  OBVIOUS
<1>6. QED
  BY <1>3, <1>4, <1>5

\* Appending a number adds it.
LEMMA TotalAppend ==
  ASSUME NEW q \in Seq(Int), NEW x \in Int
  PROVE  Total(Append(q, x)) = Total(q) + x
<1>1. Append(q, x) = q \o <<x>> /\ <<x>> \in Seq(Int)
  BY AppendIsConcat
<1>2. QED
  BY <1>1, TotalConcat, TotalSingle

\* Taking the head takes its number.
LEMMA TotalTail ==
  ASSUME NEW q \in Seq(Int), q # <<>>
  PROVE  Total(q) = Head(q) + Total(Tail(q))
<1>1. Head(q) \in Int /\ Tail(q) \in Seq(Int) /\ <<Head(q)>> \in Seq(Int)
  BY HeadTailProperties
<1>2. q = <<Head(q)>> \o Tail(q)
  BY HeadTailProperties
<1>3. Total(<<Head(q)>> \o Tail(q)) = Total(<<Head(q)>>) + Total(Tail(q))
  BY <1>1, TotalConcat
<1>4. QED
  BY <1>1, <1>2, <1>3, TotalSingle

-----------------------------------------------------------------------------
(* The inductive invariant *)

\* The counters of the pool, as sums over the connections.
PoolExact ==
  /\ reserved = FrameBytes * Cardinality({c \in Clients : allocated[c]})
  /\ borrowed = SumOver([c \in Clients |-> Excess(used[c])])
  /\ leased = SumOver(used)

\* What one connection holds.
HeldExact(c) ==
  /\ used[c] = Queued(c) + writing[c] + InSend(c, {"leased"})
  /\ sender[c] # "none" =>
       ClientBytes = permits[c] + Queued(c) + writing[c] + returning[c]
                     + InSend(c, {"acquired", "leased"})

\* A send that has taken a slot finds it free, and its connection is open.
SendOpen ==
  sending # NoSend =>
    /\ sender[sending.client] = "open"
    /\ Len(queue[sending.client]) < Slots

\* An allocation lives at least as long as the sender and what is leased from
\* it; before the connection there is nothing.
AllocationLives ==
  \A c \in Clients :
    /\ sender[c] = "open" => allocated[c]
    /\ ~allocated[c] => used[c] = 0
    /\ sender[c] = "none" =>
         ~allocated[c] /\ queue[c] = <<>> /\ writing[c] = 0 /\ returning[c] = 0

\* What is reserved and what is borrowed beyond it fit the pool together.
WithinTotal == reserved + borrowed <= TotalBytes

OInv == /\ TypeOK /\ PoolExact /\ \A c \in Clients : HeldExact(c)
        /\ SendOpen /\ AllocationLives /\ WithinTotal

-----------------------------------------------------------------------------
(* Sums *)

Weight(q) == FoldSeq(+, 0, q)

\* What is queued is weighed, in this state and in the next.
LEMMA QueuedWeight ==
  \A c \in Clients : Queued(c) = Weight(queue[c]) /\ Queued(c)' = Weight(queue'[c])
BY DEF Queued, Weight, FoldSeq, FoldFunction, FoldFunctionOnSet, MapThenFoldSet

\* A queue weighs what its frames weigh.
LEMMA QueueWeighs ==
  ASSUME NEW q \in Seq(Sizes)
  PROVE  /\ Weight(q) \in Nat
         /\ q = <<>> => Weight(q) = 0
         /\ \A n \in Sizes : Weight(Append(q, n)) = Weight(q) + n
         /\ q # <<>> => /\ Head(q) \in Sizes /\ Tail(q) \in Seq(Sizes)
                        /\ Len(Tail(q)) = Len(q) - 1
                        /\ Weight(Tail(q)) = Weight(q) - Head(q)
<1>1. \A r : Weight(r) = Total(r)
  BY DEF Weight, FoldSeq, Total
<1>2. q \in Seq(Int) /\ Sizes \subseteq Int /\ Sizes \subseteq Nat
  <2>1. Sizes \subseteq Nat
    BY LimitsAssumption
  <2>2. Sizes \subseteq Int
    BY <2>1
  <2>3. q \in Seq(Int)
    BY <2>2, SeqMonotonic
  <2>4. QED
    BY <2>1, <2>2, <2>3
<1>3. Total(q) \in Nat
  <2> DEFINE m == Len(q)
  <2>1. q \in [1..m -> Sizes] /\ m \in Nat
    BY LenProperties
  <2> HIDE DEF m
  <2>2. q \in [1..m -> Nat]
    BY <1>2, <2>1
  <2>3. IsFiniteSet(1..m)
    BY <2>1, FS_Interval
  <2>4. QED
    BY <2>2, <2>3, TotalBounds
<1>4. \A n \in Sizes : Total(Append(q, n)) = Total(q) + n
  BY <1>2, TotalAppend
<1>5. q # <<>> => /\ Head(q) \in Sizes /\ Tail(q) \in Seq(Sizes)
                  /\ Len(Tail(q)) = Len(q) - 1
                  /\ Total(Tail(q)) = Total(q) - Head(q)
  <2> SUFFICES ASSUME q # <<>>
               PROVE  /\ Head(q) \in Sizes /\ Tail(q) \in Seq(Sizes)
                      /\ Len(Tail(q)) = Len(q) - 1
                      /\ Total(Tail(q)) = Total(q) - Head(q)
    OBVIOUS
  <2>1. Head(q) \in Sizes /\ Tail(q) \in Seq(Sizes) /\ Len(Tail(q)) = Len(q) - 1
    BY HeadTailProperties
  <2>2. Total(q) = Head(q) + Total(Tail(q))
    BY <1>2, TotalTail
  <2>3. Total(Tail(q)) \in Int
    <3> DEFINE r == Tail(q)
               m == Len(r)
    <3>1. r \in [1..m -> Sizes] /\ m \in Nat
      BY <2>1, LenProperties
    <3> HIDE DEF r, m
    <3>2. r \in [1..m -> Int]
      BY <1>2, <3>1
    <3>3. IsFiniteSet(1..m)
      BY <3>1, FS_Interval
    <3>4. Total(r) \in Int
      BY <3>2, <3>3, TotalType
    <3>5. QED
      BY <3>4 DEF r
  <2>5. QED
    BY <1>2, <2>1, <2>2, <2>3
<1>6. QED
  BY <1>1, <1>3, <1>4, <1>5, TotalEmpty

\* A lease, or its return, changes the pool's counters as it changes the
\* sums.
LEMMA LeaseSums ==
  ASSUME TypeOK, PoolExact, NEW c \in Clients, NEW m \in Nat,
         used' = [used EXCEPT ![c] = m],
         borrowed' = borrowed + Excess(m) - Excess(used[c]),
         leased' = leased + m - used[c],
         UNCHANGED <<reserved, allocated>>
  PROVE  PoolExact' /\ borrowed' \in Nat /\ leased' \in Nat
<1>1. used \in [Clients -> Nat] /\ used' \in [Clients -> Nat] /\ IsFiniteSet(Clients)
  BY LimitsAssumption DEF TypeOK
<1>2. \A n \in Nat : Excess(n) \in Nat
  BY LimitsAssumption DEF Excess
<1> DEFINE ex == [d \in Clients |-> Excess(used[d])]
           exNext == [d \in Clients |-> Excess(used'[d])]
<1>3. ex \in [Clients -> Nat] /\ exNext \in [Clients -> Nat]
  BY <1>1, <1>2
<1>4. \A d \in Clients \ {c} : used'[d] = used[d] /\ exNext[d] = ex[d]
  BY <1>1
<1>5. used'[c] = m /\ exNext[c] = Excess(m) /\ ex[c] = Excess(used[c])
  BY <1>1
<1>6. borrowed = Total(ex) /\ leased = Total(used)
  BY DEF PoolExact, SumOver, Total
<1>7. Total(used') = Total(used) + used'[c] - used[c]
  <2>1. used \in [Clients -> Int] /\ used' \in [Clients -> Int]
    BY <1>1
  <2> DEFINE next == used'
  <2>2. next \in [Clients -> Int] /\ \A d \in Clients \ {c} : next[d] = used[d]
    BY <1>4, <2>1
  <2> HIDE DEF next
  <2>3. Total(next) = Total(used) + next[c] - used[c]
    BY <1>1, <2>1, <2>2, TotalChanged
  <2>4. QED
    BY <2>3 DEF next
<1>8. Total(exNext) = Total(ex) + exNext[c] - ex[c]
  <2>1. ex \in [Clients -> Int] /\ exNext \in [Clients -> Int]
    BY <1>3
  <2> HIDE DEF ex, exNext
  <2>2. QED
    BY <1>1, <1>4, <2>1, TotalChanged
<1>9. Total(exNext) \in Nat /\ Total(used') \in Nat
  <2> HIDE DEF exNext
  <2>1. QED
    BY <1>1, <1>3, TotalBounds
<1>10. borrowed' = Total(exNext) /\ leased' = Total(used')
  BY <1>5, <1>6, <1>7, <1>8
<1>11. PoolExact'
  <2>1. reserved' = FrameBytes * Cardinality({d \in Clients : allocated'[d]})
    BY DEF PoolExact
  <2>2. Total(exNext) = SumOver([d \in Clients |-> Excess(used'[d])])
        /\ Total(used') = SumOver(used')
    BY DEF SumOver, Total
  <2>3. QED
    BY <1>10, <2>1, <2>2 DEF PoolExact
<1>12. QED
  BY <1>9, <1>10, <1>11

\* What was free for guarantees is enough: reserved and borrowed together are
\* what is leased and what is still guaranteed.
LEMMA RestFits == OInv => GuaranteesBacked
<1> SUFFICES ASSUME OInv PROVE GuaranteesBacked
  OBVIOUS
<1>1. /\ used \in [Clients -> Nat] /\ allocated \in [Clients -> BOOLEAN]
      /\ IsFiniteSet(Clients) /\ FrameBytes \in Nat
  BY LimitsAssumption DEF OInv, TypeOK
<1> DEFINE ex == [c \in Clients |-> Excess(used[c])]
           rest == [c \in Clients |-> IF allocated[c] /\ used[c] < FrameBytes
                                        THEN FrameBytes - used[c] ELSE 0]
           own == [c \in Clients |-> IF c \in {d \in Clients : allocated[d]}
                                       THEN FrameBytes ELSE 0]
           all == [c \in Clients |-> used[c] + rest[c]]
<1>2. /\ ex \in [Clients -> Int] /\ rest \in [Clients -> Int]
      /\ own \in [Clients -> Int] /\ all \in [Clients -> Int]
      /\ used \in [Clients -> Int]
  BY <1>1 DEF Excess
<1>3. \A c \in Clients : all[c] = ex[c] + own[c]
  BY <1>1 DEF Excess, OInv, AllocationLives
<1>4. \A c \in Clients : all[c] = used[c] + rest[c]
  OBVIOUS
<1>5. \A c \in Clients : own[c] = IF c \in {d \in Clients : allocated[d]}
                                    THEN FrameBytes ELSE 0
  OBVIOUS
<1>6. Total(rest) = SumOver(rest)
  BY DEF SumOver, Total
<1>7. borrowed = Total(ex) /\ leased = Total(used)
  BY DEF OInv, PoolExact, SumOver, Total
<1> HIDE DEF ex, rest, own, all
<1>8. Total(all) = Total(ex) + Total(own)
  BY <1>1, <1>2, <1>3, TotalAdds
<1>9. Total(all) = Total(used) + Total(rest)
  BY <1>1, <1>2, <1>4, TotalAdds
<1>10. Total(own) = reserved
  <2>1. {d \in Clients : allocated[d]} \in SUBSET Clients
    OBVIOUS
  <2>2. Total(own) = FrameBytes * Cardinality({d \in Clients : allocated[d]})
    BY <1>1, <1>2, <1>5, <2>1, TotalOfEqual
  <2>3. QED
    BY <2>2 DEF OInv, PoolExact
<1>11. Total(rest) \in Int /\ reserved \in Nat /\ borrowed \in Nat /\ leased \in Nat
  BY <1>1, <1>2, TotalType DEF OInv, TypeOK
<1>12. leased + Total(rest) <= TotalBytes
  BY <1>7, <1>8, <1>9, <1>10, <1>11 DEF OInv, WithinTotal
<1>13. QED
  BY <1>6, <1>12 DEF GuaranteesBacked, rest

-----------------------------------------------------------------------------
(* The steps *)

\* What every connection holds, typed, with the sum of its queue as a number.
LEMMA Holdings ==
  ASSUME OInv
  PROVE  \A c \in Clients :
           /\ Queued(c) \in Nat /\ used[c] \in Nat /\ writing[c] \in Nat
           /\ returning[c] \in Nat /\ permits[c] \in Nat /\ queue[c] \in Seq(Sizes)
           /\ \A stages : InSend(c, stages) \in Nat
<1> SUFFICES ASSUME NEW c \in Clients
             PROVE  /\ Queued(c) \in Nat /\ used[c] \in Nat /\ writing[c] \in Nat
                    /\ returning[c] \in Nat /\ permits[c] \in Nat
                    /\ queue[c] \in Seq(Sizes)
                    /\ \A stages : InSend(c, stages) \in Nat
  OBVIOUS
<1>1. TypeOK
  BY DEF OInv
<1>2. queue[c] \in Seq(Sizes)
  BY <1>1 DEF TypeOK
<1>3. Queued(c) \in Nat
  BY <1>2, QueueWeighs, QueuedWeight
<1>4. sending.bytes \in Nat
  <2>1. CASE sending = NoSend
    BY <2>1 DEF NoSend
  <2>2. CASE sending # NoSend
    BY <1>1, <2>2, LimitsAssumption DEF TypeOK
  <2>3. QED
    BY <2>1, <2>2
<1>5. \A stages : InSend(c, stages) \in Nat
  BY <1>4 DEF InSend
<1>6. QED
  BY <1>1, <1>2, <1>3, <1>5 DEF TypeOK

\* A connection begins with nothing but a reservation.
LEMMA ConnectStep ==
  ASSUME OInv, NEW c \in Clients, Connect(c)
  PROVE  OInv'
<1>1. TypeOK /\ TypeOK'
  <2>1. TypeOK
    BY DEF OInv
  <2>2. QED
    BY <2>1, LimitsAssumption, SMTT(30) DEF TypeOK, Connect
<1>2. ~allocated[c] /\ sender[c] = "none" /\ sending = NoSend
      /\ queue[c] = <<>> /\ writing[c] = 0 /\ returning[c] = 0
  BY DEF OInv, AllocationLives, Connect
<1>3. PoolExact'
  <2> DEFINE A == {d \in Clients : allocated[d]}
             B == {d \in Clients : allocated'[d]}
  <2>1. A \in SUBSET Clients /\ IsFiniteSet(A) /\ Cardinality(A) \in Nat
    BY LimitsAssumption, FS_Subset, FS_CardinalityType
  <2>2. B = A \cup {c} /\ c \notin A
    BY <1>1, <1>2 DEF Connect, TypeOK
  <2>3. reserved = FrameBytes * Cardinality(A)
    BY DEF OInv, PoolExact
  <2> HIDE DEF A
  <2>4. Cardinality(B) = Cardinality(A) + 1
    BY <2>1, <2>2, FS_AddElement
  <2>5. FrameBytes * (Cardinality(A) + 1) = FrameBytes * Cardinality(A) + FrameBytes
    BY <2>1, LimitsAssumption
  <2>6. reserved' = FrameBytes * Cardinality(B)
    BY <2>3, <2>4, <2>5 DEF Connect
  <2>7. UNCHANGED <<borrowed, leased, used>>
    BY DEF Connect
  <2>8. QED
    BY <2>6, <2>7 DEF OInv, PoolExact
<1>4. ASSUME NEW d \in Clients PROVE HeldExact(d)'
  <2>1. /\ used'[d] = used[d] /\ Queued(d)' = Queued(d) /\ writing'[d] = writing[d]
        /\ returning'[d] = returning[d]
        /\ InSend(d, {"leased"})' = 0 /\ InSend(d, {"acquired", "leased"})' = 0
        /\ InSend(d, {"leased"}) = 0 /\ InSend(d, {"acquired", "leased"}) = 0
    BY <1>2, QueuedWeight DEF Connect, InSend, NoSend
  <2>2. HeldExact(d)
    BY DEF OInv
  <2>3. CASE d = c
    <3>1. permits'[d] = ClientBytes /\ ClientBytes \in Nat
      BY <1>1, <2>3, LimitsAssumption DEF Connect, TypeOK
    <3>2. Queued(d) = 0
      BY <1>1, <1>2, <2>3, QueueWeighs, QueuedWeight DEF TypeOK
    <3>3. QED
      BY <1>2, <2>1, <2>2, <2>3, <3>1, <3>2 DEF HeldExact
  <2>4. CASE d # c
    <3>1. permits'[d] = permits[d] /\ sender'[d] = sender[d]
      BY <1>1, <2>4 DEF Connect, TypeOK
    <3>2. QED
      BY <2>1, <2>2, <3>1 DEF HeldExact
  <2>5. QED
    BY <2>3, <2>4
<1>5. SendOpen'
  BY <1>2 DEF Connect, SendOpen
<1>6. AllocationLives'
  BY <1>1 DEF OInv, AllocationLives, Connect, TypeOK
<1>7. WithinTotal'
  BY <1>1, LimitsAssumption DEF Connect, RoomToConnect, WithinTotal, TypeOK
<1>8. QED
  BY <1>1, <1>3, <1>4, <1>5, <1>6, <1>7 DEF OInv

\* A send moves bytes from the semaphore to the send, to a lease, to the queue.
LEMMA AcquireStep ==
  ASSUME OInv, NEW c \in Clients, NEW n \in Sizes, SendAcquire(c, n)
  PROVE  OInv'
<1>1. TypeOK /\ n \in Nat /\ n # 0 /\ permits[c] \in Nat
  BY Holdings, LimitsAssumption DEF OInv
<1>2. TypeOK'
  BY <1>1 DEF TypeOK, SendAcquire, pool
<1>3. PoolExact'
  BY DEF OInv, PoolExact, SendAcquire, pool
<1>4. ASSUME NEW d \in Clients PROVE HeldExact(d)'
  <2>1. HeldExact(d) /\ Queued(d)' = Queued(d)
    BY QueuedWeight DEF OInv, SendAcquire
  <2>2. /\ InSend(d, {"leased"}) = 0 /\ InSend(d, {"leased"})' = 0
        /\ InSend(d, {"acquired", "leased"}) = 0
        /\ InSend(d, {"acquired", "leased"})' = IF d = c THEN n ELSE 0
    BY DEF SendAcquire, InSend, NoSend
  <2>3. permits'[d] = IF d = c THEN permits[d] - n ELSE permits[d]
    BY <1>1 DEF SendAcquire, TypeOK
  <2>4. UNCHANGED <<used, writing, returning, sender>>
    BY DEF SendAcquire, pool
  <2>5. /\ permits[d] \in Nat /\ Queued(d) \in Nat /\ writing[d] \in Nat
        /\ returning[d] \in Nat
    BY Holdings
  <2>6. QED
    BY <1>1, <2>1, <2>2, <2>3, <2>4, <2>5 DEF HeldExact
<1>5. SendOpen'
  BY DEF SendAcquire, SendOpen, SlotFree
<1>6. AllocationLives' /\ WithinTotal'
  BY DEF OInv, AllocationLives, WithinTotal, SendAcquire, pool
<1>7. QED
  BY <1>2, <1>3, <1>4, <1>5, <1>6 DEF OInv

\* A lease takes what it borrows and what it covers.
LEMMA LeaseStep ==
  ASSUME OInv, SendLease
  PROVE  OInv'
<1> DEFINE c == sending.client
           n == sending.bytes
<1>1. sending # NoSend
  BY DEF SendLease, NoSend
<1>2. TypeOK /\ c \in Clients /\ n \in Nat /\ sending.stage = "acquired"
  BY <1>1, LimitsAssumption DEF OInv, TypeOK, SendLease
<1>3. used[c] \in Nat /\ used[c] + n \in Nat
  BY <1>2 DEF TypeOK
<1>4. PoolExact' /\ borrowed' \in Nat /\ leased' \in Nat
  <2> DEFINE m == used[c] + n
  <2>1. Excess(m) \in Nat /\ Excess(used[c]) \in Nat
    BY <1>3, LimitsAssumption DEF Excess
  <2>2. borrowed' = borrowed + (Excess(m) - Excess(used[c]))
    BY DEF SendLease, Additional
  <2>3. /\ used' = [used EXCEPT ![c] = m] /\ leased' = leased + m - used[c]
        /\ borrowed' = borrowed + Excess(m) - Excess(used[c])
    <3>1. used' = [used EXCEPT ![c] = m]
      BY <1>2 DEF SendLease, TypeOK
    <3>2. leased' = leased + m - used[c]
      BY <1>2, <1>3 DEF SendLease, TypeOK
    <3> HIDE DEF m, c
    <3>3. QED
      BY <1>2, <2>1, <2>2, <3>1, <3>2 DEF TypeOK
  <2>4. m \in Nat /\ PoolExact /\ UNCHANGED <<reserved, allocated>>
    BY <1>3 DEF OInv, SendLease
  <2> HIDE DEF m, c
  <2>5. QED
    BY <1>2, <2>3, <2>4, LeaseSums
<1>5. TypeOK'
  <2>1. sending' = [stage |-> "leased", client |-> c, bytes |-> n] /\ n \in Sizes
    BY <1>1, <1>2 DEF TypeOK, SendLease
  <2>2. used' \in [Clients -> Nat]
    BY <1>2, <1>3 DEF TypeOK, SendLease
  <2>3. QED
    BY <1>2, <1>4, <2>1, <2>2 DEF TypeOK, SendLease
<1>6. ASSUME NEW d \in Clients PROVE HeldExact(d)'
  <2>1. HeldExact(d) /\ Queued(d)' = Queued(d)
    BY QueuedWeight DEF OInv, SendLease
  <2>2. /\ InSend(d, {"leased"}) = 0
        /\ InSend(d, {"leased"})' = IF d = c THEN n ELSE 0
        /\ InSend(d, {"acquired", "leased"})' = InSend(d, {"acquired", "leased"})
    BY <1>1, <1>2 DEF SendLease, InSend, TypeOK
  <2>3. used'[d] = IF d = c THEN used[d] + n ELSE used[d]
    BY <1>2 DEF SendLease, TypeOK
  <2>4. UNCHANGED <<permits, writing, returning, sender>>
    BY DEF SendLease
  <2>5. used[d] \in Nat /\ Queued(d) \in Nat /\ writing[d] \in Nat
    BY Holdings
  <2>6. QED
    BY <1>2, <2>1, <2>2, <2>3, <2>4, <2>5 DEF HeldExact
<1>7. SendOpen'
  BY <1>1, <1>2 DEF OInv, SendOpen, SendLease, TypeOK
<1>8. AllocationLives'
  <2>1. sender[c] = "open" /\ allocated[c]
    BY <1>1, <1>2 DEF OInv, SendOpen, AllocationLives
  <2>2. QED
    BY <1>2, <2>1 DEF OInv, AllocationLives, SendLease, TypeOK
<1>9. WithinTotal'
  <2>1. Additional(c, n) \in Int
    BY <1>2, <1>3, LimitsAssumption DEF Additional, Excess
  <2>2. QED
    BY <1>2, <2>1, LimitsAssumption DEF SendLease, WithinTotal, TypeOK
<1>10. QED
  BY <1>4, <1>5, <1>6, <1>7, <1>8, <1>9 DEF OInv

\* The returning of a lease: of a frame that was written, or dropped with the
\* queue.
LEMMA LeaseDropped ==
  ASSUME OInv, NEW c \in Clients, NEW n \in Nat, n <= used[c], DropLease(c, n),
         UNCHANGED <<allocated, reserved>>
  PROVE  /\ PoolExact' /\ WithinTotal' /\ borrowed' \in Nat /\ leased' \in Nat
         /\ used' \in [Clients -> Nat] /\ returning' \in [Clients -> Nat]
         /\ \A d \in Clients : /\ used'[d] = IF d = c THEN used[d] - n ELSE used[d]
                              /\ returning'[d] = IF d = c THEN n ELSE returning[d]
<1> DEFINE m == used[c] - n
<1>1. TypeOK /\ used[c] \in Nat /\ m \in Nat
  BY Holdings DEF OInv
<1>2. used' = [used EXCEPT ![c] = m]
  BY DEF DropLease
<1>3. Excess(m) \in Nat /\ Excess(used[c]) \in Nat /\ Excess(m) <= Excess(used[c])
  BY <1>1, LimitsAssumption DEF Excess
<1>4. borrowed' = borrowed - (Excess(used[c]) - Excess(m)) /\ leased' = leased - n
  BY DEF DropLease, GivenBack
<1>5. borrowed' = borrowed + Excess(m) - Excess(used[c])
  <2> HIDE DEF m
  <2>1. QED
    BY <1>1, <1>3, <1>4 DEF TypeOK
<1>6. leased' = leased + m - used[c]
  BY <1>1, <1>4 DEF TypeOK
<1>7. PoolExact' /\ borrowed' \in Nat /\ leased' \in Nat
  <2>1. PoolExact
    BY DEF OInv
  <2> HIDE DEF m
  <2>2. QED
    BY <1>1, <1>2, <1>5, <1>6, <2>1, LeaseSums
<1>8. WithinTotal'
  <2> DEFINE a == Excess(m)
             b == Excess(used[c])
  <2>1. /\ a \in Nat /\ b \in Nat /\ a <= b /\ borrowed' = borrowed + a - b
        /\ borrowed \in Nat /\ reserved \in Nat
    BY <1>1, <1>3, <1>5 DEF TypeOK
  <2> HIDE DEF a, b, m
  <2>2. borrowed' <= borrowed
    BY <2>1
  <2>3. reserved' = reserved /\ reserved + borrowed <= TotalBytes /\ TotalBytes \in Nat
    BY LimitsAssumption DEF OInv, WithinTotal
  <2>4. QED
    BY <1>7, <2>1, <2>2, <2>3 DEF WithinTotal
<1>9. QED
  BY <1>1, <1>2, <1>7, <1>8 DEF TypeOK, DropLease

\* The frame that was written gives back its lease.
LEMMA WrittenStep ==
  ASSUME OInv, NEW c \in Clients, Written(c)
  PROVE  OInv'
<1> DEFINE n == writing[c]
<1>1. TypeOK /\ HeldExact(c)
  BY DEF OInv
<1>2. n \in Nat /\ n <= used[c] /\ DropLease(c, n) /\ UNCHANGED <<allocated, reserved>>
  <2>1. Queued(c) \in Nat /\ InSend(c, {"leased"}) \in Nat /\ n \in Nat
    BY Holdings
  <2>2. QED
    BY <1>1, <2>1 DEF HeldExact, Written, DropLease
<1>3. /\ PoolExact' /\ WithinTotal' /\ borrowed' \in Nat /\ leased' \in Nat
      /\ used' \in [Clients -> Nat] /\ returning' \in [Clients -> Nat]
      /\ \A d \in Clients : /\ used'[d] = IF d = c THEN used[d] - n ELSE used[d]
                           /\ returning'[d] = IF d = c THEN n ELSE returning[d]
  <2> HIDE DEF n
  <2>1. QED
    BY <1>2, LeaseDropped
<1>4. TypeOK'
  BY <1>1, <1>3 DEF TypeOK, Written, DropLease
<1>5. ASSUME NEW d \in Clients PROVE HeldExact(d)'
  <2>1. HeldExact(d) /\ Queued(d)' = Queued(d)
    BY QueuedWeight DEF OInv, Written
  <2>2. \A stages : InSend(d, stages)' = InSend(d, stages)
    BY DEF Written, InSend
  <2>3. writing'[d] = IF d = c THEN 0 ELSE writing[d]
    BY <1>1 DEF Written, TypeOK
  <2>4. UNCHANGED <<permits, sender>> /\ (d = c => returning[d] = 0)
    BY DEF Written
  <2>5. /\ used[d] \in Nat /\ Queued(d) \in Nat /\ writing[d] \in Nat
        /\ permits[d] \in Nat /\ \A stages : InSend(d, stages) \in Nat
    BY Holdings
  <2>6. QED
    BY <1>3, <2>1, <2>2, <2>3, <2>4, <2>5 DEF HeldExact
<1>6. SendOpen'
  BY DEF OInv, SendOpen, Written
<1>7. AllocationLives'
  <2>1. allocated[c] /\ sender[c] # "none"
    BY <1>1, <1>2 DEF OInv, AllocationLives, Written, TypeOK
  <2>2. QED
    BY <1>1, <1>3, <2>1 DEF OInv, AllocationLives, Written, TypeOK
<1>8. QED
  BY <1>3, <1>4, <1>5, <1>6, <1>7 DEF OInv

\* A queue that loses its first frame is shorter, and the others stay.
LEMMA QueueShortens ==
  ASSUME OInv, NEW c \in Clients, queue[c] # <<>>,
         \A d \in Clients : queue'[d] = IF d = c THEN Tail(queue[c]) ELSE queue[d]
  PROVE  \A d \in Clients : /\ Len(queue'[d]) \in Int /\ Len(queue[d]) \in Int
                            /\ Len(queue'[d]) <= Len(queue[d])
                            /\ Len(queue'[d]) <= Slots
<1> SUFFICES ASSUME NEW d \in Clients
             PROVE  /\ Len(queue'[d]) \in Int /\ Len(queue[d]) \in Int
                    /\ Len(queue'[d]) <= Len(queue[d])
                    /\ Len(queue'[d]) <= Slots
  OBVIOUS
<1>1. /\ queue[d] \in Seq(Sizes) /\ Len(queue[d]) \in Nat
      /\ Len(queue[d]) <= Slots /\ Slots \in Nat
  BY Holdings, LenProperties, LimitsAssumption DEF OInv, TypeOK
<1>2. CASE d # c
  <2>1. queue'[d] = queue[d]
    BY <1>2
  <2>2. QED
    BY <1>1, <2>1
<1>3. CASE d = c
  <2>1. queue'[d] = Tail(queue[d]) /\ queue[d] # <<>>
    BY <1>3
  <2>2. Len(Tail(queue[d])) = Len(queue[d]) - 1
    BY <1>1, <2>1, QueueWeighs
  <2>3. QED
    BY <1>1, <2>1, <2>2
<1>4. QED
  BY <1>2, <1>3

\* So does each frame that is dropped with the queue.
LEMMA DropStep ==
  ASSUME OInv, NEW c \in Clients, DropQueued(c)
  PROVE  OInv'
<1> DEFINE n == Head(queue[c])
<1>1. TypeOK /\ HeldExact(c) /\ queue[c] # <<>> /\ queue[c] \in Seq(Sizes)
  BY Holdings DEF OInv, DropQueued
<1>2. /\ n \in Sizes /\ n \in Nat /\ Tail(queue[c]) \in Seq(Sizes)
      /\ Len(Tail(queue[c])) = Len(queue[c]) - 1
      /\ Weight(Tail(queue[c])) = Weight(queue[c]) - n
      /\ Weight(Tail(queue[c])) \in Nat
  <2>1. n \in Sizes /\ n \in Nat /\ Tail(queue[c]) \in Seq(Sizes)
    BY <1>1, LimitsAssumption, QueueWeighs
  <2>2. QED
    BY <1>1, <2>1, QueueWeighs
<1>3. n <= used[c] /\ DropLease(c, n) /\ UNCHANGED <<allocated, reserved>>
  <2>1. /\ Queued(c) \in Nat /\ InSend(c, {"leased"}) \in Nat /\ writing[c] \in Nat
        /\ Queued(c) = Weight(queue[c])
    BY Holdings, QueuedWeight
  <2> HIDE DEF n
  <2>2. n <= used[c]
    BY <1>1, <1>2, <2>1 DEF HeldExact
  <2>3. QED
    BY <2>2 DEF DropQueued, DropLease, n
<1>4. /\ PoolExact' /\ WithinTotal' /\ borrowed' \in Nat /\ leased' \in Nat
      /\ used' \in [Clients -> Nat] /\ returning' \in [Clients -> Nat]
      /\ \A d \in Clients : /\ used'[d] = IF d = c THEN used[d] - n ELSE used[d]
                           /\ returning'[d] = IF d = c THEN n ELSE returning[d]
  <2> HIDE DEF n
  <2>1. QED
    BY <1>2, <1>3, LeaseDropped
<1>5. /\ queue' \in [Clients -> Seq(Sizes)]
      /\ \A d \in Clients : queue'[d] = IF d = c THEN Tail(queue[c]) ELSE queue[d]
  BY <1>1, <1>2 DEF TypeOK, DropQueued
<1>6. TypeOK'
  <2>1. \A d \in Clients : Len(queue'[d]) <= Slots
    BY <1>1, <1>5, QueueShortens
  <2>2. QED
    BY <1>1, <1>4, <1>5, <2>1 DEF TypeOK, DropQueued, DropLease
<1>7. ASSUME NEW d \in Clients PROVE HeldExact(d)'
  <2>1. /\ HeldExact(d) /\ Queued(d) = Weight(queue[d])
        /\ Queued(d)' = Weight(queue'[d])
    BY QueuedWeight DEF OInv
  <2>2. Queued(d)' = IF d = c THEN Queued(d) - n ELSE Queued(d)
    BY <1>2, <1>5, <2>1
  <2>3. \A stages : InSend(d, stages)' = InSend(d, stages)
    BY DEF DropQueued, InSend
  <2>4. UNCHANGED <<permits, sender, writing>> /\ (d = c => returning[d] = 0)
    BY DEF DropQueued
  <2>5. /\ used[d] \in Nat /\ Queued(d) \in Nat /\ writing[d] \in Nat
        /\ permits[d] \in Nat /\ \A stages : InSend(d, stages) \in Nat
    BY Holdings
  <2>6. /\ used'[d] = IF d = c THEN used[d] - n ELSE used[d]
        /\ returning'[d] = IF d = c THEN n ELSE returning[d]
        /\ n \in Nat
    BY <1>2, <1>4
  <2> HIDE DEF n
  <2>7. CASE d = c
    <3>1. /\ used'[d] = used[d] - n /\ returning'[d] = n /\ returning[d] = 0
          /\ Queued(d)' = Queued(d) - n
      BY <2>2, <2>4, <2>6, <2>7
    <3>2. used'[d] = Queued(d)' + writing'[d] + InSend(d, {"leased"})'
      BY <2>1, <2>3, <2>4, <2>5, <2>6, <3>1 DEF HeldExact
    <3>3. sender'[d] # "none" =>
            ClientBytes = permits'[d] + Queued(d)' + writing'[d] + returning'[d]
                          + InSend(d, {"acquired", "leased"})'
      BY <2>1, <2>3, <2>4, <2>5, <2>6, <3>1 DEF HeldExact
    <3>4. QED
      BY <3>2, <3>3 DEF HeldExact
  <2>8. CASE d # c
    BY <2>1, <2>2, <2>3, <2>4, <2>6, <2>8 DEF HeldExact
  <2>9. QED
    BY <2>7, <2>8
<1>8. SendOpen'
  <2> SUFFICES ASSUME sending # NoSend
               PROVE  /\ sender[sending.client] = "open"
                      /\ Len(queue'[sending.client]) < Slots
    BY DEF SendOpen, DropQueued
  <2>1. /\ sender[sending.client] = "open" /\ sending.client \in Clients
        /\ Len(queue[sending.client]) < Slots
    BY <1>1 DEF OInv, SendOpen, TypeOK
  <2>2. /\ Len(queue'[sending.client]) <= Len(queue[sending.client])
        /\ Len(queue'[sending.client]) \in Int /\ Len(queue[sending.client]) \in Int
    BY <1>1, <1>5, <2>1, QueueShortens
  <2>3. QED
    BY <2>1, <2>2, LimitsAssumption
<1>9. AllocationLives'
  <2>1. sender[c] # "none"
    BY <1>1 DEF OInv, AllocationLives
  <2>2. ~allocated[c] => used[c] = 0
    BY DEF OInv, AllocationLives
  <2>3. n # 0
    BY <1>2, LimitsAssumption
  <2>4. allocated[c]
    <3>1. used[c] \in Nat
      BY Holdings
    <3> HIDE DEF n
    <3>2. QED
      BY <1>2, <1>3, <2>2, <2>3, <3>1
  <2>5. UNCHANGED <<sender, allocated, writing>>
    BY DEF DropQueued
  <2>6. SUFFICES ASSUME NEW d \in Clients
                 PROVE  /\ sender[d] = "open" => allocated[d]
                        /\ ~allocated[d] => used'[d] = 0
                        /\ sender[d] = "none" => /\ ~allocated[d] /\ queue'[d] = <<>>
                                                 /\ writing[d] = 0 /\ returning'[d] = 0
    BY <2>5 DEF AllocationLives
  <2>7. /\ sender[d] = "open" => allocated[d]
        /\ ~allocated[d] => used[d] = 0
        /\ sender[d] = "none" => /\ ~allocated[d] /\ queue[d] = <<>>
                                 /\ writing[d] = 0 /\ returning[d] = 0
    BY DEF OInv, AllocationLives
  <2>8. CASE d = c
    BY <2>1, <2>4, <2>7, <2>8
  <2>9. CASE d # c
    <3>1. used'[d] = used[d] /\ returning'[d] = returning[d]
      BY <1>4, <2>9
    <3>2. queue'[d] = queue[d]
      BY <1>5, <2>9
    <3>3. QED
      BY <2>7, <3>1, <3>2
  <2>10. QED
    BY <2>8, <2>9
<1>10. QED
  BY <1>4, <1>6, <1>7, <1>8, <1>9 DEF OInv

\* The lease enters the queue.
LEMMA PushStep ==
  ASSUME OInv, SendPush
  PROVE  OInv'
<1> DEFINE c == sending.client
           n == sending.bytes
<1>1. sending # NoSend
  BY DEF SendPush, NoSend
<1>2. /\ TypeOK /\ c \in Clients /\ n \in Sizes /\ n \in Nat
      /\ queue[c] \in Seq(Sizes) /\ Len(queue[c]) < Slots
      /\ sender[c] = "open"
  BY <1>1, LimitsAssumption DEF OInv, TypeOK, SendOpen
<1>3. /\ Append(queue[c], n) \in Seq(Sizes)
      /\ Len(Append(queue[c], n)) = Len(queue[c]) + 1
      /\ Weight(Append(queue[c], n)) = Weight(queue[c]) + n
  BY <1>2, AppendProperties, QueueWeighs
<1>4. \A d \in Clients : queue'[d] = IF d = c THEN Append(queue[c], n) ELSE queue[d]
  BY <1>2 DEF SendPush, TypeOK
<1>5. TypeOK'
  <2>1. queue' \in [Clients -> Seq(Sizes)]
    BY <1>2, <1>3 DEF SendPush, TypeOK
  <2>2. \A d \in Clients : Len(queue'[d]) <= Slots
    <3>1. Len(queue[c]) \in Nat
      BY <1>2, LenProperties
    <3>2. Len(Append(queue[c], n)) <= Slots
      BY <1>2, <1>3, <3>1, LimitsAssumption
    <3>3. QED
      BY <1>2, <1>4, <3>2 DEF TypeOK
  <2>3. QED
    BY <1>2, <2>1, <2>2 DEF SendPush, TypeOK, pool
<1>6. PoolExact' /\ WithinTotal' /\ SendOpen'
  BY DEF OInv, PoolExact, WithinTotal, SendOpen, SendPush, pool
<1>7. ASSUME NEW d \in Clients PROVE HeldExact(d)'
  <2>1. /\ HeldExact(d) /\ Queued(d) = Weight(queue[d])
        /\ Queued(d)' = Weight(queue'[d])
    BY QueuedWeight DEF OInv
  <2>2. Queued(d)' = IF d = c THEN Queued(d) + n ELSE Queued(d)
    BY <1>3, <1>4, <2>1
  <2>3. /\ InSend(d, {"leased"})' = 0 /\ InSend(d, {"acquired", "leased"})' = 0
        /\ InSend(d, {"leased"}) = IF d = c THEN n ELSE 0
        /\ InSend(d, {"acquired", "leased"}) = IF d = c THEN n ELSE 0
    BY DEF SendPush, InSend, NoSend
  <2>4. UNCHANGED <<used, permits, sender, writing, returning>>
    BY DEF SendPush, pool
  <2>5. /\ used[d] \in Nat /\ Queued(d) \in Nat /\ writing[d] \in Nat
        /\ permits[d] \in Nat /\ returning[d] \in Nat
    BY Holdings
  <2> HIDE DEF c, n
  <2>6. CASE d = c
    <3>1. /\ Queued(d)' = Queued(d) + n
          /\ InSend(d, {"leased"}) = n /\ InSend(d, {"acquired", "leased"}) = n
      BY <2>2, <2>3, <2>6
    <3>2. used'[d] = Queued(d)' + writing'[d] + InSend(d, {"leased"})'
      BY <1>2, <2>1, <2>3, <2>4, <2>5, <3>1 DEF HeldExact
    <3>3. sender'[d] # "none" =>
            ClientBytes = permits'[d] + Queued(d)' + writing'[d] + returning'[d]
                          + InSend(d, {"acquired", "leased"})'
      BY <1>2, <2>1, <2>3, <2>4, <2>5, <3>1 DEF HeldExact
    <3>4. QED
      BY <3>2, <3>3 DEF HeldExact
  <2>7. CASE d # c
    BY <2>1, <2>2, <2>3, <2>4, <2>7 DEF HeldExact
  <2>8. QED
    BY <2>6, <2>7
<1>8. AllocationLives'
  BY <1>2, <1>4 DEF OInv, AllocationLives, SendPush, TypeOK, pool
<1>9. QED
  BY <1>5, <1>6, <1>7, <1>8 DEF OInv

\* A push that is refused gives back lease and permits.
LEMMA RefusedStep ==
  ASSUME OInv, SendRefused
  PROVE  OInv'
<1> DEFINE c == sending.client
           n == sending.bytes
<1>1. sending # NoSend
  BY DEF SendRefused, NoSend
<1>2. TypeOK /\ c \in Clients /\ n \in Nat /\ sender[c] = "open" /\ permits[c] \in Nat
  BY <1>1, LimitsAssumption DEF OInv, TypeOK, SendOpen
<1>3. /\ permits' = [permits EXCEPT ![c] = @ + n] /\ sending' = NoSend
      /\ sender' = [sender EXCEPT ![c] = "dropped"]
  BY DEF SendRefused, PermitsRefunded, Detach
<1>4. UNCHANGED <<pool, receiver, allocated, queue, writing, returning>>
  BY DEF SendRefused
<1>5. TypeOK'
  BY <1>2, <1>3, <1>4 DEF TypeOK, pool
<1>6. PoolExact' /\ WithinTotal' /\ SendOpen'
  BY <1>3, <1>4 DEF OInv, PoolExact, WithinTotal, SendOpen, pool
<1>7. ASSUME NEW d \in Clients PROVE HeldExact(d)'
  <2>1. HeldExact(d) /\ Queued(d)' = Queued(d)
    BY <1>4, QueuedWeight DEF OInv
  <2>2. /\ InSend(d, {"leased"})' = 0 /\ InSend(d, {"acquired", "leased"})' = 0
        /\ InSend(d, {"leased"}) = 0
        /\ InSend(d, {"acquired", "leased"}) = IF d = c THEN n ELSE 0
    BY <1>3 DEF SendRefused, InSend, NoSend
  <2>3. UNCHANGED <<used, writing, returning>>
    BY <1>4 DEF pool
  <2>4. /\ permits'[d] = IF d = c THEN permits[d] + n ELSE permits[d]
        /\ sender'[d] = IF d = c THEN "dropped" ELSE sender[d]
    BY <1>2, <1>3 DEF TypeOK
  <2>5. /\ used[d] \in Nat /\ Queued(d) \in Nat /\ writing[d] \in Nat
        /\ permits[d] \in Nat /\ returning[d] \in Nat
    BY Holdings
  <2> HIDE DEF c, n
  <2>6. QED
    BY <1>2, <2>1, <2>2, <2>3, <2>4, <2>5 DEF HeldExact
<1>8. AllocationLives'
  BY <1>2, <1>3, <1>4 DEF OInv, AllocationLives, TypeOK, pool
<1>9. QED
  BY <1>5, <1>6, <1>7, <1>8 DEF OInv

\* The ends of a connection.
LEMMA DetachStep ==
  ASSUME OInv, NEW c \in Clients, sender[c] = "open", sending = NoSend, Detach(c),
         UNCHANGED <<pool, receiver, allocated, permits, queue, writing, returning, sending>>
  PROVE  OInv'
<1>1. TypeOK /\ TypeOK'
  BY DEF OInv, TypeOK, Detach, pool
<1>2. PoolExact' /\ WithinTotal' /\ SendOpen'
  BY DEF OInv, PoolExact, WithinTotal, SendOpen, pool
<1>3. ASSUME NEW d \in Clients PROVE HeldExact(d)'
  <2>1. HeldExact(d) /\ Queued(d)' = Queued(d)
    BY QueuedWeight DEF OInv
  <2>2. \A stages : InSend(d, stages)' = InSend(d, stages)
    BY DEF InSend
  <2>3. (sender'[d] = "none") = (sender[d] = "none")
    BY <1>1 DEF TypeOK, Detach
  <2>4. UNCHANGED <<used, writing, returning, permits>>
    BY DEF pool
  <2>5. QED
    BY <2>1, <2>2, <2>3, <2>4 DEF HeldExact
<1>4. AllocationLives'
  BY <1>1 DEF OInv, AllocationLives, Detach, TypeOK, pool
<1>5. QED
  BY <1>1, <1>2, <1>3, <1>4 DEF OInv

\* The task takes the oldest frame from the queue.
LEMMA TakeStep ==
  ASSUME OInv, NEW c \in Clients, TakeFrame(c)
  PROVE  OInv'
<1> DEFINE n == Head(queue[c])
<1>1. TypeOK /\ queue[c] # <<>> /\ queue[c] \in Seq(Sizes)
  BY Holdings DEF OInv, TakeFrame
<1>2. /\ n \in Sizes /\ n \in Nat /\ Tail(queue[c]) \in Seq(Sizes)
      /\ Len(Tail(queue[c])) = Len(queue[c]) - 1
      /\ Weight(Tail(queue[c])) = Weight(queue[c]) - n
  <2>1. n \in Sizes /\ n \in Nat /\ Tail(queue[c]) \in Seq(Sizes)
    BY <1>1, LimitsAssumption, QueueWeighs
  <2>2. QED
    BY <1>1, <2>1, QueueWeighs
<1>3. /\ queue' \in [Clients -> Seq(Sizes)] /\ writing' \in [Clients -> Nat]
      /\ \A d \in Clients :
           /\ queue'[d] = IF d = c THEN Tail(queue[c]) ELSE queue[d]
           /\ writing'[d] = IF d = c THEN n ELSE writing[d]
  BY <1>1, <1>2 DEF TypeOK, TakeFrame
<1>4. TypeOK'
  <2>1. \A d \in Clients : Len(queue'[d]) <= Slots
    BY <1>1, <1>3, QueueShortens
  <2>2. QED
    BY <1>1, <1>3, <2>1 DEF TypeOK, TakeFrame, pool
<1>5. PoolExact' /\ WithinTotal'
  BY DEF OInv, PoolExact, WithinTotal, TakeFrame, pool
<1>6. ASSUME NEW d \in Clients PROVE HeldExact(d)'
  <2>1. /\ HeldExact(d) /\ Queued(d) = Weight(queue[d])
        /\ Queued(d)' = Weight(queue'[d])
    BY QueuedWeight DEF OInv
  <2>2. Queued(d)' = IF d = c THEN Queued(d) - n ELSE Queued(d)
    BY <1>2, <1>3, <2>1
  <2>3. writing'[d] = IF d = c THEN n ELSE writing[d]
    BY <1>3
  <2>4. \A stages : InSend(d, stages)' = InSend(d, stages)
    BY DEF TakeFrame, InSend
  <2>5. UNCHANGED <<used, permits, sender, returning>> /\ (d = c => writing[d] = 0)
    BY DEF TakeFrame, pool
  <2>6. /\ used[d] \in Nat /\ Queued(d) \in Nat /\ writing[d] \in Nat
        /\ permits[d] \in Nat /\ returning[d] \in Nat
        /\ \A stages : InSend(d, stages) \in Nat
    BY Holdings
  <2> HIDE DEF n
  <2>7. CASE d = c
    <3>1. Queued(d)' = Queued(d) - n /\ writing'[d] = n /\ writing[d] = 0
      BY <2>2, <2>3, <2>5, <2>7
    <3>2. used'[d] = Queued(d)' + writing'[d] + InSend(d, {"leased"})'
      BY <1>2, <2>1, <2>4, <2>5, <2>6, <3>1 DEF HeldExact
    <3>3. sender'[d] # "none" =>
            ClientBytes = permits'[d] + Queued(d)' + writing'[d] + returning'[d]
                          + InSend(d, {"acquired", "leased"})'
      BY <1>2, <2>1, <2>4, <2>5, <2>6, <3>1 DEF HeldExact
    <3>4. QED
      BY <3>2, <3>3 DEF HeldExact
  <2>8. CASE d # c
    BY <2>1, <2>2, <2>3, <2>4, <2>5, <2>8 DEF HeldExact
  <2>9. QED
    BY <2>7, <2>8
<1>7. SendOpen'
  <2> SUFFICES ASSUME sending # NoSend
               PROVE  /\ sender[sending.client] = "open"
                      /\ Len(queue'[sending.client]) < Slots
    BY DEF SendOpen, TakeFrame
  <2>1. /\ sender[sending.client] = "open" /\ sending.client \in Clients
        /\ Len(queue[sending.client]) < Slots
    BY <1>1 DEF OInv, SendOpen, TypeOK
  <2>2. /\ Len(queue'[sending.client]) <= Len(queue[sending.client])
        /\ Len(queue'[sending.client]) \in Int /\ Len(queue[sending.client]) \in Int
    BY <1>1, <1>3, <2>1, QueueShortens
  <2>3. QED
    BY <2>1, <2>2, LimitsAssumption
<1>8. AllocationLives'
  <2>1. sender[c] # "none"
    BY <1>1 DEF OInv, AllocationLives
  <2>2. QED
    BY <1>3, <2>1 DEF OInv, AllocationLives, TakeFrame, pool
<1>9. QED
  BY <1>4, <1>5, <1>6, <1>7, <1>8 DEF OInv

\* A closed connection's permits come home.
LEMMA ReturnStep ==
  ASSUME OInv, NEW c \in Clients, ReturnPermits(c)
  PROVE  OInv'
<1>1. TypeOK /\ returning[c] \in Nat /\ permits[c] \in Nat
  BY Holdings DEF OInv
<1>2. /\ permits' \in [Clients -> Nat] /\ returning' \in [Clients -> Nat]
      /\ \A d \in Clients :
           /\ permits'[d] = IF d = c THEN permits[d] + returning[d] ELSE permits[d]
           /\ returning'[d] = IF d = c THEN 0 ELSE returning[d]
  BY <1>1 DEF TypeOK, ReturnPermits
<1>3. TypeOK'
  BY <1>1, <1>2 DEF TypeOK, ReturnPermits, pool
<1>4. PoolExact' /\ WithinTotal' /\ SendOpen'
  BY DEF OInv, PoolExact, WithinTotal, SendOpen, ReturnPermits, pool
<1>5. ASSUME NEW d \in Clients PROVE HeldExact(d)'
  <2>1. HeldExact(d) /\ Queued(d)' = Queued(d)
    BY QueuedWeight DEF OInv, ReturnPermits
  <2>2. \A stages : InSend(d, stages)' = InSend(d, stages)
    BY DEF ReturnPermits, InSend
  <2>3. UNCHANGED <<used, sender, writing>>
    BY DEF ReturnPermits, pool
  <2>4. /\ Queued(d) \in Nat /\ writing[d] \in Nat
        /\ permits[d] \in Nat /\ returning[d] \in Nat
        /\ \A stages : InSend(d, stages) \in Nat
    BY Holdings
  <2>5. QED
    BY <1>2, <2>1, <2>2, <2>3, <2>4 DEF HeldExact
<1>6. AllocationLives'
  BY <1>2 DEF OInv, AllocationLives, ReturnPermits, pool
<1>7. QED
  BY <1>3, <1>4, <1>5, <1>6 DEF OInv

\* A connection's reservation goes when nothing refers to it.
LEMMA ReleaseStep ==
  ASSUME OInv, NEW c \in Clients, Release(c)
  PROVE  OInv'
<1>1. /\ TypeOK /\ allocated[c] /\ queue[c] = <<>> /\ writing[c] = 0
      /\ sender[c] = "dropped" /\ HeldExact(c)
  BY DEF OInv, Release
<1>2. used[c] = 0
  <2>1. Queued(c) = 0
    BY <1>1, QueueWeighs, QueuedWeight DEF TypeOK
  <2>2. InSend(c, {"leased"}) = 0
    BY <1>1 DEF OInv, SendOpen, InSend, NoSend
  <2>3. QED
    BY <1>1, <2>1, <2>2 DEF HeldExact
<1>3. PoolExact' /\ reserved' \in Nat /\ reserved' <= reserved
  <2> DEFINE A == {d \in Clients : allocated[d]}
             B == {d \in Clients : allocated'[d]}
  <2>1. A \in SUBSET Clients /\ IsFiniteSet(A)
    BY LimitsAssumption, FS_Subset
  <2>2. B = A \ {c} /\ c \in A
    BY <1>1 DEF Release, TypeOK
  <2>3. reserved = FrameBytes * Cardinality(A)
    BY DEF OInv, PoolExact
  <2> HIDE DEF A
  <2>4. Cardinality(B) = Cardinality(A) - 1 /\ IsFiniteSet(B)
    BY <2>1, <2>2, FS_RemoveElement
  <2>5. Cardinality(B) \in Nat /\ Cardinality(A) \in Nat
    BY <2>1, <2>4, FS_CardinalityType
  <2>6. FrameBytes * (Cardinality(A) - 1) = FrameBytes * Cardinality(A) - FrameBytes
    BY <2>5, LimitsAssumption
  <2>7. reserved' = FrameBytes * Cardinality(B)
    BY <2>3, <2>4, <2>6 DEF Release
  <2>8. UNCHANGED <<borrowed, leased, used>>
    BY DEF Release
  <2>9. reserved' \in Nat /\ reserved' <= reserved
    <3>1. reserved' = reserved - FrameBytes /\ reserved \in Nat /\ FrameBytes \in Nat
      BY <1>1, LimitsAssumption DEF Release, TypeOK
    <3>2. FrameBytes * Cardinality(B) \in Nat
      BY <2>5, LimitsAssumption
    <3>3. QED
      BY <2>7, <3>1, <3>2
  <2>10. QED
    BY <2>7, <2>8, <2>9 DEF OInv, PoolExact
<1>4. TypeOK'
  BY <1>1, <1>3 DEF TypeOK, Release
<1>5. ASSUME NEW d \in Clients PROVE HeldExact(d)'
  <2>1. HeldExact(d) /\ Queued(d)' = Queued(d)
    BY QueuedWeight DEF OInv, Release
  <2>2. \A stages : InSend(d, stages)' = InSend(d, stages)
    BY DEF Release, InSend
  <2>3. UNCHANGED <<used, sender, writing, permits, returning>>
    BY DEF Release
  <2>4. QED
    BY <2>1, <2>2, <2>3 DEF HeldExact
<1>6. SendOpen'
  BY DEF OInv, SendOpen, Release
<1>7. AllocationLives'
  BY <1>1, <1>2 DEF OInv, AllocationLives, Release, TypeOK
<1>8. WithinTotal'
  BY <1>1, <1>3, LimitsAssumption DEF OInv, WithinTotal, Release, TypeOK
<1>9. QED
  BY <1>3, <1>4, <1>5, <1>6, <1>7, <1>8 DEF OInv

\* The task's end moves alone.
LEMMA ReceiverStep ==
  ASSUME OInv, NEW c \in Clients, TaskEnds(c) \/ ReceiverDropped(c)
  PROVE  OInv'
<1>1. /\ \E end \in {"closing", "dropped"} : receiver' = [receiver EXCEPT ![c] = end]
      /\ UNCHANGED <<pool, sender, allocated, permits, queue, writing, returning, sending>>
  BY DEF TaskEnds, ReceiverDropped
<1>2. TypeOK'
  BY <1>1 DEF OInv, TypeOK, pool
<1>3. PoolExact' /\ WithinTotal' /\ SendOpen' /\ AllocationLives'
  BY <1>1 DEF OInv, PoolExact, WithinTotal, SendOpen, AllocationLives, pool
<1>4. ASSUME NEW d \in Clients PROVE HeldExact(d)'
  <2>1. HeldExact(d) /\ Queued(d)' = Queued(d)
    BY <1>1, QueuedWeight DEF OInv
  <2>2. \A stages : InSend(d, stages)' = InSend(d, stages)
    BY <1>1 DEF InSend
  <2>3. QED
    BY <1>1, <2>1, <2>2 DEF HeldExact, pool
<1>5. QED
  BY <1>2, <1>3, <1>4 DEF OInv

-----------------------------------------------------------------------------
(* The theorems *)

\* Before the first connection nothing is held.
LEMMA OInvInit == Init => OInv
<1> SUFFICES ASSUME Init PROVE OInv
  OBVIOUS
<1>1. IsFiniteSet(Clients)
  BY LimitsAssumption
<1>2. TypeOK
  BY LimitsAssumption DEF Init, TypeOK
<1>3. PoolExact
  <2>1. {c \in Clients : allocated[c]} = {} /\ Cardinality({}) = 0
    BY FS_EmptySet DEF Init
  <2>2. FrameBytes * 0 = 0
    BY LimitsAssumption
  <2>3. Total(used) = 0 /\ Total([c \in Clients |-> Excess(used[c])]) = 0
    <3> DEFINE zero == [c \in Clients |-> 0]
    <3>1. used = zero /\ [c \in Clients |-> Excess(used[c])] = zero
      BY LimitsAssumption DEF Init, Excess
    <3>2. zero \in [Clients -> Int] /\ {} \in SUBSET Clients /\ 0 \in Int
          /\ \A c \in Clients : zero[c] = IF c \in {} THEN 0 ELSE 0
      OBVIOUS
    <3> HIDE DEF zero
    <3>3. Total(zero) = 0 * Cardinality({})
      BY <1>1, <3>2, TotalOfEqual
    <3>4. QED
      BY <2>1, <3>1, <3>3
  <2>4. QED
    BY <2>1, <2>2, <2>3 DEF Init, PoolExact, SumOver, Total
<1>4. ASSUME NEW c \in Clients PROVE HeldExact(c)
  <2>1. Queued(c) = 0
    <3>1. queue[c] = <<>> /\ <<>> \in Seq(Sizes)
      BY DEF Init
    <3>2. QED
      BY <3>1, QueuedWeight, QueueWeighs
  <2>2. QED
    BY <2>1 DEF Init, HeldExact, InSend, NoSend
<1>5. SendOpen /\ AllocationLives /\ WithinTotal
  BY LimitsAssumption DEF Init, SendOpen, AllocationLives, WithinTotal
<1>6. QED
  BY <1>2, <1>3, <1>4, <1>5 DEF OInv

\* Every step keeps the invariant.
LEMMA OInvStep == OInv /\ [Next]_vars => OInv'
<1> SUFFICES ASSUME OInv, [Next]_vars PROVE OInv'
  OBVIOUS
<1>1. ASSUME NEW c \in Clients, Connect(c) \/ Disconnect(c) \/ TaskEnds(c) \/ Task(c)
      PROVE  OInv'
  <2>1. CASE Connect(c)
    BY <2>1, ConnectStep
  <2>2. CASE Disconnect(c)
    BY <2>2, DetachStep DEF Disconnect
  <2>3. CASE TaskEnds(c) \/ ReceiverDropped(c)
    BY <2>3, ReceiverStep
  <2>4. CASE TakeFrame(c)
    BY <2>4, TakeStep
  <2>5. CASE Written(c)
    BY <2>5, WrittenStep
  <2>6. CASE ReturnPermits(c)
    BY <2>6, ReturnStep
  <2>7. CASE DropQueued(c)
    BY <2>7, DropStep
  <2>8. CASE Release(c)
    BY <2>8, ReleaseStep
  <2>9. QED
    BY <1>1, <2>1, <2>2, <2>3, <2>4, <2>5, <2>6, <2>7, <2>8 DEF Task
<1>2. ASSUME NEW c \in Clients, NEW n \in Sizes, SendAcquire(c, n) \/ SendRejected(c, n)
      PROVE  OInv'
  <2>1. CASE SendAcquire(c, n)
    BY <2>1, AcquireStep
  <2>2. CASE SendRejected(c, n)
    BY <2>2, DetachStep DEF SendRejected
  <2>3. QED
    BY <1>2, <2>1, <2>2
<1>3. CASE SendStep
  <2>1. CASE SendLease
    BY <2>1, LeaseStep
  <2>2. CASE SendRefused
    BY <2>2, RefusedStep
  <2>3. CASE SendPush
    BY <2>3, PushStep
  <2>4. QED
    BY <1>3, <2>1, <2>2, <2>3 DEF SendStep
<1>4. CASE UNCHANGED vars
  <2>1. UNCHANGED <<reserved, borrowed, leased, used, sender, receiver, allocated,
                    permits, queue, writing, returning, sending>>
    BY <1>4 DEF vars, pool
  <2>2. TypeOK' /\ PoolExact' /\ WithinTotal' /\ SendOpen' /\ AllocationLives'
    BY <2>1 DEF OInv, TypeOK, PoolExact, WithinTotal, SendOpen, AllocationLives
  <2>3. ASSUME NEW d \in Clients PROVE HeldExact(d)'
    <3>1. HeldExact(d) /\ Queued(d)' = Queued(d)
      BY <2>1, QueuedWeight DEF OInv
    <3>2. \A stages : InSend(d, stages)' = InSend(d, stages)
      BY <2>1 DEF InSend
    <3>3. QED
      BY <2>1, <3>1, <3>2 DEF HeldExact
  <2>4. QED
    BY <2>2, <2>3 DEF OInv
<1>5. QED
  BY <1>1, <1>2, <1>3, <1>4 DEF Next

\* What the pool, the connections, their queues and the sends hold fits together
\* in every reachable state.
THEOREM OutputInvariant == Spec => []OInv
<1>1. QED
  BY OInvInit, OInvStep, PTL DEF Spec

\* The pool's counters and every connection's semaphore say exactly what is
\* held, for any number of connections, any limits and any frames.
THEOREM AccountingIsExact == Spec => []AccountingExact
<1>1. OInv => AccountingExact
  BY DEF OInv, PoolExact, HeldExact, AccountingExact
<1>2. QED
  BY <1>1, OutputInvariant, PTL

\* However the others borrow, every connection's guaranteed frame stays
\* available to it, all of them at once.
THEOREM GuaranteesAreBacked == Spec => []GuaranteesBacked
<1>1. QED
  BY RestFits, OutputInvariant, PTL
=============================================================================
