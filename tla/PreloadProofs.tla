--------------------------- MODULE PreloadProofs ---------------------------
(***************************************************************************)
(* Proofs about the preloader: for any number of jobs, any weights and any *)
(* lists of wanted jobs, the budget holds, no work is done twice, and a    *)
(* demanded group is never behind speculation.                             *)
(***************************************************************************)
EXTENDS Preload, FiniteSetTheorems, SequenceTheorems, WellFoundedInduction, TLAPS

-----------------------------------------------------------------------------
(* The inductive invariant *)

\* A group is demanded exactly while its one caller asks for it, and wanted.
DemandsHeld ==
  /\ demanded = IF asked = NoJob THEN {} ELSE {asked}
  /\ demanded \subseteq wanted

PInv == TypeOK /\ BudgetHeld /\ NoDuplicateWork /\ DemandIsNext /\ DemandsHeld

-----------------------------------------------------------------------------
(* Recursion over a list *)

\* A set that holds zero and with each number its successor holds them all.
LEMMA NumbersReached ==
  ASSUME NEW P, 0 \in P, \A n \in Nat : n \in P => n + 1 \in P
  PROVE  Nat \subseteq P
<1> DEFINE T == {n \in Nat : n \notin P}
<1>1. SUFFICES ASSUME T # {} PROVE FALSE
  OBVIOUS
<1>2. IsWellFoundedOn(OpToRel(<, Nat), Nat)
  BY NatLessThanWellFounded
<1>3. \E x \in T : \A y \in T : <<y, x>> \notin OpToRel(<, Nat)
  BY <1>1, <1>2, WFMin
<1>4. PICK x \in T : \A y \in T : ~(y < x)
  BY <1>3 DEF OpToRel
<1>5. QED
  BY <1>4

\* What holds at the start, and at every position if at the one before, holds
\* at the end.
LEMMA StaysIn ==
  ASSUME NEW n \in Nat, NEW D, NEW f, f[0] \in D,
         \A i \in 1..n : f[i - 1] \in D => f[i] \in D
  PROVE  f[n] \in D
<1> DEFINE P == {k \in Nat : k <= n => f[k] \in D}
<1>1. 0 \in P
  OBVIOUS
<1>2. ASSUME NEW k \in Nat, k \in P PROVE k + 1 \in P
  <2>1. SUFFICES ASSUME k + 1 <= n PROVE f[k + 1] \in D
    OBVIOUS
  <2>2. k + 1 \in 1..n /\ (k + 1) - 1 = k /\ f[k] \in D
    BY <1>2, <2>1
  <2>3. QED
    BY <2>2
<1> HIDE DEF P
<1>3. Nat \subseteq P
  BY <1>1, <1>2, NumbersReached
<1>4. QED
  BY <1>3 DEF P

\* A function that begins with b and goes on by h.
Follows(f, n, D, b, h) ==
  /\ f \in [0..n -> D]
  /\ f[0] = b /\ \A i \in 1..n : f[i] = h[<<f[i - 1], i>>]

\* A function may be defined position by position.
LEMMA RecursionExists ==
  ASSUME NEW n \in Nat, NEW D, NEW b \in D, NEW h \in [D \X (1..n) -> D]
  PROVE  \E f : Follows(f, n, D, b, h)
<1> DEFINE Upto(k, f) == f = [i \in 0..k |-> IF i = 0 THEN b ELSE h[<<f[i - 1], i>>]]
           P == {k \in Nat : k <= n => \E f \in [0..k -> D] : Upto(k, f)}
<1>1. 0 \in P
  <2> DEFINE f == [i \in 0..0 |-> b]
  <2>1. f \in [0..0 -> D] /\ Upto(0, f)
    OBVIOUS
  <2>2. QED
    BY <2>1
<1>2. ASSUME NEW k \in Nat, k \in P PROVE k + 1 \in P
  <2>1. SUFFICES ASSUME k + 1 <= n PROVE \E g \in [0..(k + 1) -> D] : Upto(k + 1, g)
    OBVIOUS
  <2>2. PICK f \in [0..k -> D] : Upto(k, f)
    BY <1>2, <2>1
  <2> DEFINE g == [i \in 0..(k + 1) |-> IF i = k + 1 THEN h[<<f[k], k + 1>>] ELSE f[i]]
  <2>3. h[<<f[k], k + 1>>] \in D
    BY <2>1
  <2>4. g \in [0..(k + 1) -> D]
    BY <2>3
  <2>5. ASSUME NEW i \in 0..(k + 1)
        PROVE  g[i] = IF i = 0 THEN b ELSE h[<<g[i - 1], i>>]
    <3>1. CASE i = k + 1
      <4>1. i # 0 /\ i - 1 = k /\ k # k + 1 /\ k \in 0..(k + 1)
        BY <3>1
      <4>2. g[i] = h[<<f[k], k + 1>>] /\ g[i - 1] = f[k]
        BY <3>1, <4>1
      <4>3. QED
        BY <3>1, <4>1, <4>2
    <3>2. CASE i # k + 1
      <4>1. i \in 0..k /\ g[i] = f[i] /\ (i # 0 => g[i - 1] = f[i - 1])
        BY <3>2
      <4>2. f[i] = IF i = 0 THEN b ELSE h[<<f[i - 1], i>>]
        BY <2>2, <4>1
      <4>3. QED
        BY <4>1, <4>2
    <3>3. QED
      BY <3>1, <3>2
  <2>6. Upto(k + 1, g)
    BY <2>4, <2>5
  <2>7. QED
    BY <2>4, <2>6
<1> HIDE DEF P
<1>3. n \in P
  BY <1>1, <1>2, NumbersReached
<1>4. PICK f \in [0..n -> D] : Upto(n, f)
  BY <1>3 DEF P
<1>5. 0 \in 0..n /\ \A i \in 1..n : i \in 0..n /\ i # 0
  OBVIOUS
<1>6. QED
  BY <1>4, <1>5 DEF Follows

-----------------------------------------------------------------------------
(* Lists of jobs *)

Distinct(s) == \A i, j \in DOMAIN s : s[i] = s[j] => i = j

\* A list that grew out of `first` with members of `from`.
Lists(first, from) ==
  {s \in Seq(Jobs) : /\ Distinct(s)
                     /\ ToSet(s) \subseteq ToSet(first) \cup from
                     /\ first # <<>> => s # <<>> /\ Head(s) = Head(first)}

\* A job that is new to a list leaves it one.
LEMMA ListAppend ==
  ASSUME NEW first, NEW from, NEW s \in Lists(first, from), NEW j \in Jobs, j \in from,
         ~Contains(s, j)
  PROVE  Append(s, j) \in Lists(first, from)
<1>1. s \in Seq(Jobs) /\ Distinct(s) /\ ToSet(s) \subseteq ToSet(first) \cup from
  BY DEF Lists
<1>2. Len(s) \in Nat /\ DOMAIN s = 1..Len(s)
  BY <1>1, LenProperties
<1>3. /\ Append(s, j) \in Seq(Jobs) /\ Len(Append(s, j)) = Len(s) + 1
      /\ DOMAIN Append(s, j) = 1..(Len(s) + 1)
      /\ \A i \in 1..Len(s) : Append(s, j)[i] = s[i]
      /\ Append(s, j)[Len(s) + 1] = j
  BY <1>1, AppendProperties, LenProperties
<1>4. \A i \in 1..Len(s) : s[i] # j
  BY <1>2 DEF Contains
<1>5. Distinct(Append(s, j))
  BY <1>1, <1>2, <1>3, <1>4 DEF Distinct
<1>6. ToSet(Append(s, j)) \subseteq ToSet(first) \cup from
  BY <1>1, <1>2, <1>3 DEF ToSet
<1>7. first # <<>> => Append(s, j) # <<>> /\ Head(Append(s, j)) = Head(first)
  <2>1. SUFFICES ASSUME first # <<>>
                 PROVE  Append(s, j) # <<>> /\ Head(Append(s, j)) = Head(first)
    OBVIOUS
  <2>2. s # <<>> /\ Head(s) = Head(first)
    BY <2>1 DEF Lists
  <2>3. Head(s) = s[1] /\ Len(s) # 0
    BY <1>1, <2>2, EmptySeq, HeadTailProperties
  <2>4. Append(s, j) # <<>> /\ Head(Append(s, j)) = Append(s, j)[1]
    BY <1>2, <1>3, EmptySeq, HeadTailProperties
  <2>5. QED
    BY <1>2, <1>3, <2>2, <2>3, <2>4
<1>8. QED
  BY <1>3, <1>5, <1>6, <1>7 DEF Lists

\* Enlisting yields a list without repetition that begins as it did, and
\* whose new members are due and named.
LEMMA EnlistedLists ==
  ASSUME NEW first \in Seq(Jobs), Distinct(first), NEW jobs \in Seq(Jobs),
         NEW due \in SUBSET Jobs
  PROVE  Enlisted(first, jobs, due) \in Lists(first, due \cap ToSet(jobs))
<1> DEFINE n == Len(jobs)
           D == Lists(first, due \cap ToSet(jobs))
           Step(s, j) == IF j \in due /\ ~Contains(s, j) THEN Append(s, j) ELSE s
           Builds(f) == f = [i \in 0..n |-> IF i = 0 THEN first ELSE Step(f[i - 1], jobs[i])]
<1>1. n \in Nat /\ DOMAIN jobs = 1..n /\ \A i \in 1..n : jobs[i] \in Jobs
  BY LenProperties, ElementOfSeq
<1>2. first \in D
  BY DEF Lists
<1>3. ASSUME NEW s \in D, NEW i \in 1..n PROVE Step(s, jobs[i]) \in D
  <2>1. jobs[i] \in Jobs /\ jobs[i] \in ToSet(jobs)
    BY <1>1, <1>3 DEF ToSet
  <2>2. QED
    BY <1>3, <2>1, ListAppend
<1> HIDE DEF n, D
<1>4. \E f : Builds(f)
  <2> DEFINE h == [p \in D \X (1..n) |-> Step(p[1], jobs[p[2]])]
  <2>1. h \in [D \X (1..n) -> D]
    BY <1>3
  <2>2. \A s \in D, i \in 1..n : h[<<s, i>>] = Step(s, jobs[i])
    OBVIOUS
  <2> HIDE DEF h, Step
  <2>3. PICK f : Follows(f, n, D, first, h)
    <3>1. n \in Nat
      BY <1>1
    <3>2. QED
      BY <3>1, <1>2, <2>1, RecursionExists
  <2>4. ASSUME NEW i \in 0..n
        PROVE  f[i] = IF i = 0 THEN first ELSE Step(f[i - 1], jobs[i])
    <3>1. i # 0 => i - 1 \in 0..n /\ i \in 1..n
      BY <1>1
    <3>2. QED
      BY <2>2, <2>3, <3>1 DEF Follows
  <2>5. Builds(f)
    BY <2>3, <2>4 DEF Follows
  <2>6. QED
    BY <2>5
<1> DEFINE f == CHOOSE g : Builds(g)
<1>5. Enlisted(first, jobs, due) = f[n]
  BY DEF Enlisted, n
<1>6. Builds(f)
  BY <1>4
<1> HIDE DEF f, Step
<1>7. f[0] = first /\ \A i \in 1..n : f[i] = Step(f[i - 1], jobs[i])
  <2>1. n \in Nat
    BY <1>1
  <2>2. 0 \in 0..n /\ \A i \in 1..n : i \in 0..n /\ i # 0
    BY <2>1
  <2>3. QED
    BY <1>6, <2>2
<1> HIDE DEF Builds
<1>8. f[n] \in D
  <2>1. ASSUME NEW i \in 1..n, f[i - 1] \in D PROVE f[i] \in D
    <3>1. Step(f[i - 1], jobs[i]) \in D
      BY <1>3, <2>1
    <3>2. QED
      BY <1>7, <3>1
  <2>2. QED
    BY <1>1, <1>2, <1>7, <2>1, StaysIn
<1>9. QED
  BY <1>5, <1>8 DEF D

-----------------------------------------------------------------------------
(* Weights *)

\* The weight of a set grows with each job in it by the job's cost.
LEMMA Weights ==
  /\ LastJob \in Nat /\ Limit \in Nat /\ Groups \subseteq Jobs /\ NoJob \notin Jobs
  /\ TotalCost[{}] = 0
  /\ \A S \in SUBSET Jobs : TotalCost[S] \in Nat
  /\ \A j \in Jobs : Cost(j) \in Nat
  /\ \A S \in SUBSET Jobs : \A j \in Jobs :
       j \notin S => TotalCost[S \cup {j}] = TotalCost[S] + Cost(j)
  /\ \A S, T \in SUBSET Jobs : S \subseteq T => TotalCost[S] <= TotalCost[T]
<1>1. /\ LastJob \in Nat /\ Limit \in Nat /\ Groups \subseteq Jobs /\ NoJob \notin Jobs
      /\ TotalCost[{}] = 0
  BY CostAssumption DEF Groups, Jobs, NoJob
<1>2. \A S \in SUBSET Jobs : TotalCost[S] \in Nat
  BY CostAssumption
<1>3. \A j \in Jobs : Cost(j) \in Nat
  BY <1>2 DEF Cost
<1>4. ASSUME NEW S \in SUBSET Jobs, NEW j \in Jobs, j \notin S
      PROVE  TotalCost[S \cup {j}] = TotalCost[S] + Cost(j)
  <2>1. {j} \in SUBSET Jobs /\ S \cap {j} = {}
    BY <1>4
  <2>2. QED
    BY <2>1, CostAssumption DEF Cost
<1>5. ASSUME NEW S \in SUBSET Jobs, NEW T \in SUBSET Jobs, S \subseteq T
      PROVE  TotalCost[S] <= TotalCost[T]
  <2>1. T \ S \in SUBSET Jobs /\ S \cap (T \ S) = {} /\ S \cup (T \ S) = T
    BY <1>5
  <2>2. TotalCost[T] = TotalCost[S] + TotalCost[T \ S]
    BY <2>1, CostAssumption
  <2>3. QED
    BY <1>2, <2>1, <2>2
<1>6. QED
  BY <1>1, <1>2, <1>3, <1>4, <1>5

\* What nobody wants weighs a number.
LEMMA Obsolete ==
  ASSUME TypeOK, NEW w
  PROVE  ObsoleteCost(w) \in Nat
BY Weights DEF TypeOK, ObsoleteCost

\* What want admits fits the budget, the running job included, unless it
\* admits nothing.
LEMMA AdmittedFits ==
  ASSUME TypeOK, demanded = {}, NEW jobs \in Seq(Jobs)
  PROVE  /\ Admitted(jobs) \in SUBSET Jobs
         /\ TotalCost[Admitted(jobs)] <= Limit
         /\ TotalCost[Admitted(jobs)] + ObsoleteCost(Admitted(jobs)) > Limit
              => Admitted(jobs) = {}
<1> DEFINE n == Len(jobs)
           start == [set |-> {}, cost |-> ObsoleteCost({})]
           D == {a \in [set : SUBSET Jobs, cost : Nat] :
                   /\ a.cost = TotalCost[a.set] + ObsoleteCost(a.set)
                   /\ a.set # {} => a.cost <= Limit}
           extra == [j \in Jobs |-> IF running = j THEN 0 ELSE Cost(j)]
           Step(a, j) == IF j \notin a.set /\ a.cost + extra[j] <= Limit
                           THEN [set |-> a.set \cup {j}, cost |-> a.cost + extra[j]]
                           ELSE a
           Builds(f) == f = [i \in 0..n |-> IF i = 0 THEN start ELSE Step(f[i - 1], jobs[i])]
<1>1. n \in Nat /\ \A i \in 1..n : jobs[i] \in Jobs
  BY LenProperties, ElementOfSeq
<1>2. start \in D
  <2>1. ObsoleteCost({}) \in Nat /\ TotalCost[{}] = 0
    BY Obsolete, Weights
  <2>2. start \in [set : SUBSET Jobs, cost : Nat]
    BY <2>1
  <2>3. start.set = {} /\ start.cost = TotalCost[start.set] + ObsoleteCost(start.set)
    BY <2>1
  <2>4. QED
    BY <2>2, <2>3
<1>3. ASSUME NEW a \in D, NEW j \in Jobs PROVE Step(a, j) \in D
  <2>1. SUFFICES ASSUME j \notin a.set, a.cost + extra[j] <= Limit
                 PROVE  [set |-> a.set \cup {j}, cost |-> a.cost + extra[j]] \in D
    BY <1>3
  <2>2. /\ a.set \in SUBSET Jobs /\ a.cost \in Nat
        /\ a.cost = TotalCost[a.set] + ObsoleteCost(a.set)
    BY <1>3
  <2>3. /\ TotalCost[a.set \cup {j}] = TotalCost[a.set] + Cost(j)
        /\ TotalCost[a.set] \in Nat /\ Cost(j) \in Nat /\ a.set \cup {j} \in SUBSET Jobs
    BY <2>1, <2>2, Weights
  <2>4. extra[j] \in Nat
    BY <2>3
  <2>5. ObsoleteCost(a.set) \in Nat /\ ObsoleteCost(a.set \cup {j}) \in Nat
    BY Obsolete
  <2>6. a.cost + extra[j] = TotalCost[a.set \cup {j}] + ObsoleteCost(a.set \cup {j})
    <3>1. CASE running = j
      <4>1. ObsoleteCost(a.set) = Cost(j) /\ ObsoleteCost(a.set \cup {j}) = 0
        BY <2>1, <3>1, Weights DEF ObsoleteCost
      <4>2. QED
        BY <2>2, <2>3, <3>1, <4>1
    <3>2. CASE running # j
      <4>1. ObsoleteCost(a.set \cup {j}) = ObsoleteCost(a.set)
        BY <3>2 DEF ObsoleteCost
      <4>2. extra[j] = Cost(j)
        BY <3>2
      <4>3. QED
        BY <2>2, <2>3, <2>5, <4>1, <4>2
    <3>3. QED
      BY <3>1, <3>2
  <2> DEFINE b == [set |-> a.set \cup {j}, cost |-> a.cost + extra[j]]
  <2>7. b.set = a.set \cup {j} /\ b.cost = a.cost + extra[j]
    OBVIOUS
  <2> HIDE DEF extra
  <2>8. b \in [set : SUBSET Jobs, cost : Nat]
    BY <2>2, <2>3, <2>4
  <2>9. b.cost = TotalCost[b.set] + ObsoleteCost(b.set) /\ b.cost <= Limit
    BY <2>1, <2>6, <2>7
  <2> HIDE DEF b
  <2>10. b \in D
    BY <2>8, <2>9
  <2>11. QED
    BY <2>10 DEF b
<1>4. Admitted(jobs) = (CHOOSE f : Builds(f))[n].set
  <2>1. TotalCost[demanded] + ObsoleteCost(demanded) = ObsoleteCost({})
    BY Obsolete, Weights
  <2>2. QED
    BY <2>1, ZenonT(60) DEF Admitted, WantedFrom
<1> HIDE DEF n, D, start, extra
<1>5. \E f : Builds(f)
  <2> DEFINE h == [p \in D \X (1..n) |-> Step(p[1], jobs[p[2]])]
  <2>1. h \in [D \X (1..n) -> D]
    BY <1>1, <1>3
  <2>2. \A s \in D, i \in 1..n : h[<<s, i>>] = Step(s, jobs[i])
    OBVIOUS
  <2> HIDE DEF h, Step
  <2>3. PICK f : Follows(f, n, D, start, h)
    <3>1. n \in Nat
      BY <1>1
    <3>2. QED
      BY <3>1, <1>2, <2>1, RecursionExists
  <2>4. ASSUME NEW i \in 0..n
        PROVE  f[i] = IF i = 0 THEN start ELSE Step(f[i - 1], jobs[i])
    <3>1. i # 0 => i - 1 \in 0..n /\ i \in 1..n
      BY <1>1
    <3>2. QED
      BY <2>2, <2>3, <3>1 DEF Follows
  <2>5. Builds(f)
    BY <2>3, <2>4 DEF Follows
  <2>6. QED
    BY <2>5
<1> DEFINE f == CHOOSE g : Builds(g)
<1>6. Builds(f)
  BY <1>5
<1>7. Admitted(jobs) = f[n].set
  BY <1>4
<1> HIDE DEF f, Step
<1>8. f[0] = start /\ \A i \in 1..n : f[i] = Step(f[i - 1], jobs[i])
  <2>1. n \in Nat
    BY <1>1
  <2>2. 0 \in 0..n /\ \A i \in 1..n : i \in 0..n /\ i # 0
    BY <2>1
  <2>3. QED
    BY <1>6, <2>2
<1> HIDE DEF Builds
<1>9. f[n] \in D
  <2>1. n \in Nat /\ f[0] \in D
    BY <1>1, <1>2, <1>8
  <2>2. \A i \in 1..n : f[i - 1] \in D => f[i] \in D
    BY <1>1, <1>3, <1>8
  <2>3. QED
    BY <2>1, <2>2, StaysIn
<1>10. /\ f[n].set \in SUBSET Jobs
       /\ f[n].cost = TotalCost[f[n].set] + ObsoleteCost(f[n].set)
       /\ f[n].set # {} => f[n].cost <= Limit
  BY <1>9 DEF D
<1>11. /\ TotalCost[f[n].set] \in Nat /\ ObsoleteCost(f[n].set) \in Nat
       /\ TotalCost[{}] = 0 /\ Limit \in Nat
  BY <1>10, Obsolete, Weights
<1> DEFINE w == Admitted(jobs)
<1>12. /\ w \in SUBSET Jobs
       /\ w # {} => TotalCost[w] + ObsoleteCost(w) <= Limit
       /\ TotalCost[w] \in Nat /\ ObsoleteCost(w) \in Nat
  BY <1>7, <1>10, <1>11
<1> HIDE DEF w
<1>13. TotalCost[w] <= Limit /\ (TotalCost[w] + ObsoleteCost(w) > Limit => w = {})
  <2>1. CASE w = {}
    <3>1. TotalCost[w] = 0
      BY <1>11, <2>1
    <3>2. QED
      BY <1>11, <2>1, <3>1
  <2>2. CASE w # {}
    BY <1>11, <1>12, <2>2
  <2>3. QED
    BY <2>1, <2>2
<1>14. QED
  BY <1>12, <1>13 DEF w

-----------------------------------------------------------------------------
(* The steps *)

\* The members of a sequence of jobs are jobs, and its head and tail are it.
LEMMA Members ==
  ASSUME NEW q \in Seq(Jobs)
  PROVE  /\ ToSet(q) \subseteq Jobs
         /\ q = <<>> => ToSet(q) = {}
         /\ q # <<>> => /\ Head(q) \in ToSet(q) /\ Tail(q) \in Seq(Jobs)
                        /\ ToSet(Tail(q)) \subseteq ToSet(q)
                        /\ Distinct(q) => /\ Distinct(Tail(q))
                                          /\ Head(q) \notin ToSet(Tail(q))
<1>1. Len(q) \in Nat /\ DOMAIN q = 1..Len(q) /\ \A i \in 1..Len(q) : q[i] \in Jobs
  BY LenProperties, ElementOfSeq
<1>2. ToSet(q) \subseteq Jobs /\ (q = <<>> => ToSet(q) = {})
  BY <1>1, EmptySeq DEF ToSet
<1>3. ASSUME q # <<>>
      PROVE  /\ Head(q) \in ToSet(q) /\ Tail(q) \in Seq(Jobs)
             /\ ToSet(Tail(q)) \subseteq ToSet(q)
             /\ Distinct(q) => Distinct(Tail(q)) /\ Head(q) \notin ToSet(Tail(q))
  <2>1. /\ Head(q) = q[1] /\ Tail(q) \in Seq(Jobs) /\ Len(Tail(q)) = Len(q) - 1
        /\ \A i \in 1..Len(Tail(q)) : Tail(q)[i] = q[i + 1]
    BY <1>3, HeadTailProperties
  <2>2. Len(q) # 0 /\ DOMAIN Tail(q) = 1..(Len(q) - 1)
    BY <1>3, <2>1, EmptySeq, LenProperties
  <2>3. \A i \in DOMAIN Tail(q) : i + 1 \in DOMAIN q /\ Tail(q)[i] = q[i + 1]
    BY <1>1, <2>1, <2>2
  <2>4. Head(q) \in ToSet(q)
    BY <1>1, <2>1, <2>2 DEF ToSet
  <2>5. ToSet(Tail(q)) \subseteq ToSet(q)
    BY <2>3 DEF ToSet
  <2>6. Distinct(q) => Distinct(Tail(q)) /\ Head(q) \notin ToSet(Tail(q))
    BY <1>1, <2>1, <2>2, <2>3 DEF Distinct, ToSet
  <2>7. QED
    BY <2>1, <2>4, <2>5, <2>6
<1>4. QED
  BY <1>2, <1>3

\* The invariant's parts that the steps speak of.
LEMMA Parts ==
  ASSUME PInv
  PROVE  /\ TypeOK /\ queue \in Seq(Jobs) /\ ToSet(queue) \subseteq Jobs
         /\ Distinct(queue)
         /\ prepared \subseteq wanted /\ ToSet(queue) \subseteq wanted
         /\ ToSet(queue) \cap prepared = {} /\ running \notin ToSet(queue)
         /\ running \notin prepared /\ TotalCost[wanted] <= Limit
         /\ TotalCost[wanted] + ObsoleteCost(wanted) > Limit => wanted = demanded
<1>1. TypeOK /\ BudgetHeld /\ NoDuplicateWork
  BY DEF PInv
<1>2. queue \in Seq(Jobs)
  BY <1>1 DEF TypeOK
<1>3. ToSet(queue) \subseteq Jobs
  BY <1>2, Members
<1>4. QED
  BY <1>1, <1>2, <1>3 DEF BudgetHeld, NoDuplicateWork, Distinct

\* Nothing twice: the same, for the next state, from the parts.
LEMMA NoDuplicates ==
  ASSUME Distinct(queue'), ToSet(queue') \cap prepared' = {},
         running' \notin ToSet(queue'), running' \notin prepared'
  PROVE  NoDuplicateWork'
BY DEF NoDuplicateWork, Distinct, ToSet

\* want keeps what is prepared of what it admits and queues the rest.
LEMMA WantStep ==
  ASSUME PInv, NEW jobs \in Seq(Jobs), Want(jobs)
  PROVE  PInv'
<1> DEFINE w == Admitted(jobs)
<1>1. TypeOK /\ caller = "idle" /\ asked = NoJob /\ demanded = {}
  BY DEF PInv, DemandsHeld, Want, TypeOK
<1>2. /\ w \in SUBSET Jobs /\ TotalCost[w] <= Limit
      /\ TotalCost[w] + ObsoleteCost(w) > Limit => w = {}
  BY <1>1, AdmittedFits
<1>3. /\ wanted' = w /\ prepared' = prepared \cap w /\ queue' = QueueOf(w, jobs)
      /\ UNCHANGED <<running, demanded, stop, caller, asked>>
  BY DEF Want
<1> HIDE DEF w
<1>4. /\ queue' \in Seq(Jobs) /\ Distinct(queue')
      /\ ToSet(queue') \subseteq w \ (prepared \cup {running})
  <2> DEFINE due == w \ (prepared \cup {running})
             first == Enlisted(<<>>, Ascending, due \cap demanded)
  <2>1. <<>> \in Seq(Jobs) /\ Distinct(<<>>) /\ ToSet(<<>>) = {}
    BY DEF Distinct, ToSet
  <2>2. Ascending \in Seq(Jobs)
    <3>1. LastJob \in Nat /\ Ascending \in [1..LastJob -> Jobs]
      BY Weights DEF Ascending, Jobs
    <3>2. QED
      BY <3>1, SeqDef
  <2>3. due \in SUBSET Jobs /\ due \cap demanded \in SUBSET Jobs
    BY <1>2
  <2>4. queue' = Enlisted(first, jobs, due)
    BY <1>3 DEF QueueOf
  <2> HIDE DEF due
  <2>5. first \in Lists(<<>>, (due \cap demanded) \cap ToSet(Ascending))
    BY <2>1, <2>2, <2>3, EnlistedLists
  <2> HIDE DEF first
  <2>6. first \in Seq(Jobs) /\ Distinct(first) /\ ToSet(first) \subseteq due
    BY <2>1, <2>5 DEF Lists
  <2>7. queue' \in Lists(first, due \cap ToSet(jobs))
    BY <2>3, <2>4, <2>6, EnlistedLists
  <2>8. queue' \in Seq(Jobs) /\ Distinct(queue') /\ ToSet(queue') \subseteq due
    BY <2>6, <2>7 DEF Lists
  <2>9. QED
    BY <2>8 DEF due
<1>5. TypeOK'
  BY <1>1, <1>2, <1>3, <1>4 DEF TypeOK, Want, WakeThread
<1>6. BudgetHeld'
  <2>1. prepared' \cup ToSet(queue') \subseteq wanted'
    BY <1>3, <1>4
  <2>2. wanted' = w /\ demanded' = {} /\ ObsoleteCost(wanted)' = ObsoleteCost(w)
    BY <1>1, <1>3 DEF ObsoleteCost, Cost
  <2>3. ToSet(queue)' = ToSet(queue')
    BY DEF ToSet
  <2>4. QED
    BY <1>2, <2>1, <2>2, <2>3 DEF BudgetHeld
<1>7. NoDuplicateWork'
  BY <1>3, <1>4, Parts, NoDuplicates
<1>8. DemandIsNext' /\ DemandsHeld'
  BY <1>1, <1>3 DEF DemandIsNext, DemandsHeld
<1>9. QED
  BY <1>5, <1>6, <1>7, <1>8 DEF PInv

\* The cut leaves the demanded group, and what fits beside it.
LEMMA KeptFits ==
  ASSUME PInv, demanded = {}, NEW job \in Groups, Cost(job) <= Limit
  PROVE  /\ KeptWith(job) \in SUBSET Jobs /\ job \in KeptWith(job)
         /\ TotalCost[KeptWith(job)] <= Limit
         /\ TotalCost[KeptWith(job)] + ObsoleteCost(KeptWith(job)) > Limit
              => KeptWith(job) = {job}
<1> DEFINE all == wanted \cup {job}
           must == demanded \cup {job}
           upTo(k) == must \cup {j \in all : j <= k}
           fits(v) == TotalCost[v] + ObsoleteCost(v) <= Limit
           cuts == {k \in 0..LastJob : fits(upTo(k))}
           best == CHOOSE k \in cuts : \A other \in cuts : other <= k
<1>1. must = {job} /\ job \in Jobs /\ all \in SUBSET Jobs /\ must \in SUBSET Jobs
      /\ \A k : upTo(k) \in SUBSET Jobs /\ job \in upTo(k)
  BY Weights DEF PInv, TypeOK
<1>2. KeptWith(job) = IF cuts = {} THEN must ELSE upTo(best)
  BY DEF KeptWith
<1>3. CASE cuts = {}
  <2>1. KeptWith(job) = {job}
    BY <1>1, <1>2, <1>3
  <2>2. TotalCost[{job}] = Cost(job)
    BY DEF Cost
  <2>3. QED
    BY <1>1, <2>1, <2>2
<1>4. CASE cuts # {}
  <2>1. best \in cuts
    <3> HIDE DEF fits, upTo
    <3> DEFINE back == {LastJob - k : k \in cuts}
    <3>1. LastJob \in Nat /\ cuts \subseteq 0..LastJob
      BY Weights
    <3> HIDE DEF cuts
    <3>2. back \subseteq Nat /\ back # {}
      <4>1. \A k \in cuts : LastJob - k \in Nat
        BY <3>1
      <4>2. back \subseteq Nat
        BY <4>1
      <4>3. cuts # {}
        BY <1>4
      <4>4. QED
        BY <4>2, <4>3
    <3>3. IsWellFoundedOn(OpToRel(<, Nat), Nat)
      BY NatLessThanWellFounded
    <3> HIDE DEF back
    <3>4. \E x \in back : \A y \in back : <<y, x>> \notin OpToRel(<, Nat)
      BY <3>2, <3>3, WFMin
    <3>5. PICK x \in back : \A y \in back : ~(y < x)
      BY <3>2, <3>4 DEF OpToRel
    <3>6. PICK k \in cuts : x = LastJob - k
      BY DEF back
    <3>7. \A other \in cuts : other <= k
      <4>1. \A other \in cuts : LastJob - other \in back
        BY DEF back
      <4>2. QED
        BY <3>1, <3>5, <3>6, <4>1
    <3>8. QED
      BY <3>7
  <2> HIDE DEF best
  <2>2. fits(upTo(best)) /\ KeptWith(job) = upTo(best)
    BY <1>2, <1>4, <2>1
  <2> DEFINE v == upTo(best)
  <2>3. v \in SUBSET Jobs /\ job \in v
    BY <1>1
  <2>4. TotalCost[v] + ObsoleteCost(v) <= Limit /\ KeptWith(job) = v
    BY <2>2
  <2> HIDE DEF v
  <2>5. TotalCost[v] \in Nat /\ ObsoleteCost(v) \in Nat /\ Limit \in Nat
    BY <2>3, Weights, Obsolete DEF PInv
  <2>6. QED
    BY <2>3, <2>4, <2>5
<1>5. QED
  BY <1>3, <1>4

\* A demand cuts speculation and puts its group first.
LEMMA DemandStep ==
  ASSUME PInv, NEW job \in Groups, Demand(job)
  PROVE  PInv'
<1> DEFINE w == KeptWith(job)
<1>1. /\ TypeOK /\ caller = "idle" /\ asked = NoJob /\ demanded = {}
      /\ Cost(job) <= Limit /\ job \in Jobs
  BY Weights DEF PInv, DemandsHeld, Demand, Served, TypeOK
<1>2. /\ w \in SUBSET Jobs /\ job \in w /\ TotalCost[w] <= Limit
      /\ TotalCost[w] + ObsoleteCost(w) > Limit => w = {job}
  BY <1>1, KeptFits
<1> DEFINE kept == Enlisted(<<>>, queue, w)
<1>3. /\ wanted' = w /\ prepared' = prepared \cap w /\ demanded' = {job}
      /\ queue' = IF job \in prepared' \/ running = job THEN kept
                  ELSE QueuedFirst(job, kept)
      /\ asked' = job /\ caller' = "woken" /\ UNCHANGED <<running, stop>>
  <2>1. wanted' = KeptWith(job)
    BY DEF Demand
  <2>2. QED
    BY <1>1, <2>1 DEF Demand
<1> HIDE DEF w
<1>4. /\ kept \in Seq(Jobs) /\ Distinct(kept)
      /\ ToSet(kept) \subseteq w \cap ToSet(queue)
  <2>1. <<>> \in Seq(Jobs) /\ Distinct(<<>>) /\ ToSet(<<>>) = {}
    BY DEF Distinct, ToSet
  <2>2. kept \in Lists(<<>>, w \cap ToSet(queue))
    BY <1>2, <2>1, Parts, EnlistedLists
  <2> HIDE DEF kept
  <2>3. QED
    BY <2>1, <2>2 DEF Lists
<1> HIDE DEF kept
<1>5. /\ queue' \in Seq(Jobs) /\ Distinct(queue')
      /\ ToSet(queue') \subseteq w
      /\ ToSet(queue') \cap prepared' = {} /\ running \notin ToSet(queue')
      /\ job \in prepared' \/ running = job \/ (queue' # <<>> /\ Head(queue') = job)
  <2>1. CASE job \in prepared' \/ running = job
    BY <1>3, <1>4, <2>1, Parts
  <2>2. CASE ~(job \in prepared' \/ running = job)
    <3> DEFINE one == <<job>>
    <3>1. /\ one \in Seq(Jobs) /\ Distinct(one) /\ ToSet(one) = {job}
          /\ one # <<>> /\ Head(one) = job
      BY <1>1 DEF Distinct, ToSet
    <3>2. queue' = Enlisted(one, kept, Jobs)
      BY <1>3, <2>2 DEF QueuedFirst
    <3> HIDE DEF one
    <3>3. queue' \in Lists(one, Jobs \cap ToSet(kept))
      BY <1>4, <3>1, <3>2, EnlistedLists
    <3>4. /\ queue' \in Seq(Jobs) /\ Distinct(queue')
          /\ ToSet(queue') \subseteq {job} \cup ToSet(kept)
          /\ queue' # <<>> /\ Head(queue') = job
      BY <3>1, <3>3 DEF Lists
    <3>5. ToSet(queue) \cap prepared = {} /\ running \notin ToSet(queue)
      BY Parts
    <3>6. QED
      BY <1>2, <1>3, <1>4, <2>2, <3>4, <3>5
  <2>3. QED
    BY <2>1, <2>2
<1>6. TypeOK'
  <2>1. NoJob # job
    BY <1>1, Weights
  <2>2. queue' \in Seq(Jobs) /\ wanted' \subseteq Jobs /\ prepared' \subseteq Jobs
    BY <1>2, <1>3, <1>5
  <2>3. worker' \in {"looking", "waiting", "working", "exited"}
        /\ (worker' = "working" <=> worker = "working")
    BY <1>1 DEF Demand, WakeThread, TypeOK
  <2>4. QED
    BY <1>1, <1>3, <2>1, <2>2, <2>3 DEF TypeOK
<1>7. BudgetHeld'
  <2>1. prepared' \cup ToSet(queue') \subseteq wanted'
    BY <1>3, <1>5
  <2>2. ObsoleteCost(wanted)' = ObsoleteCost(w) /\ ToSet(queue)' = ToSet(queue')
    BY <1>3 DEF ObsoleteCost, Cost, ToSet
  <2>3. QED
    BY <1>2, <1>3, <2>1, <2>2 DEF BudgetHeld
<1>8. NoDuplicateWork'
  BY <1>3, <1>5, Parts, NoDuplicates
<1>9. DemandIsNext' /\ DemandsHeld'
  <2>1. job # NoJob
    BY <1>1, Weights
  <2>2. QED
    BY <1>2, <1>3, <1>5, <2>1 DEF DemandIsNext, DemandsHeld
<1>10. QED
  BY <1>6, <1>7, <1>8, <1>9 DEF PInv

\* The caller takes its group, or waits on.
LEMMA TurnStep ==
  ASSUME PInv, DemandTurn
  PROVE  PInv'
<1>1. TypeOK /\ caller = "woken" /\ asked # NoJob /\ asked \in Jobs
      /\ demanded = {asked} /\ asked \in wanted
  BY Weights DEF PInv, DemandsHeld, DemandTurn, TypeOK
<1>2. CASE asked \notin prepared
  <2>1. caller' = "waiting"
        /\ UNCHANGED <<prepared, demanded, wanted, asked, queue, running, stop, worker>>
    BY <1>2 DEF DemandTurn
  <2>2. QED
    BY <1>1, <2>1 DEF PInv, TypeOK, BudgetHeld, NoDuplicateWork, DemandIsNext,
       DemandsHeld, ObsoleteCost, Cost, ToSet
<1>3. CASE asked \in prepared
  <2>1. /\ prepared' = prepared \ {asked} /\ demanded' = {}
        /\ wanted' = wanted \ {asked} /\ caller' = "idle" /\ asked' = NoJob
        /\ UNCHANGED <<queue, running, stop, worker>>
    BY <1>1, <1>3 DEF DemandTurn
  <2>2. TypeOK'
    BY <1>1, <2>1 DEF TypeOK
  <2>3. BudgetHeld'
    <3>1. running # asked /\ asked \notin ToSet(queue)
      BY <1>3, Parts
    <3>2. ObsoleteCost(wanted)' = ObsoleteCost(wanted) /\ ToSet(queue)' = ToSet(queue)
      BY <2>1, <3>1 DEF ObsoleteCost, Cost, ToSet
    <3>3. prepared' \cup ToSet(queue) \subseteq wanted'
      BY <2>1, <3>1, Parts
    <3>4. wanted \in SUBSET Jobs /\ wanted' \in SUBSET Jobs /\ wanted' \subseteq wanted
      BY <1>1, <2>1 DEF TypeOK
    <3>5. /\ TotalCost[wanted'] <= TotalCost[wanted] /\ TotalCost[wanted'] \in Nat
          /\ TotalCost[wanted] \in Nat /\ Limit \in Nat
      BY <3>4, Weights
    <3>6. ObsoleteCost(wanted) \in Nat
      BY <1>1, Obsolete
    <3>7. TotalCost[wanted] <= Limit
          /\ (TotalCost[wanted] + ObsoleteCost(wanted) > Limit => wanted = {asked})
      BY <1>1, Parts
    <3>8. TotalCost[wanted'] <= Limit
      BY <3>5, <3>7
    <3>9. TotalCost[wanted'] + ObsoleteCost(wanted) > Limit => wanted' = {}
      <4>1. TotalCost[wanted'] + ObsoleteCost(wanted) > Limit => wanted = {asked}
        BY <3>5, <3>6, <3>7
      <4>2. QED
        BY <2>1, <4>1
    <3>10. QED
      BY <2>1, <3>2, <3>3, <3>8, <3>9 DEF BudgetHeld
  <2>4. NoDuplicateWork'
    <3>1. queue' = queue /\ running' = running
      BY <2>1
    <3>2. QED
      BY <2>1, <3>1, Parts, NoDuplicates
  <2>5. DemandIsNext' /\ DemandsHeld'
    BY <2>1 DEF DemandIsNext, DemandsHeld
  <2>6. QED
    BY <2>2, <2>3, <2>4, <2>5 DEF PInv
<1>4. QED
  BY <1>2, <1>3

\* The thread takes the head of the queue, which is wanted.
LEMMA StartStep ==
  ASSUME PInv, ThreadStart
  PROVE  PInv'
<1>1. /\ TypeOK /\ queue # <<>> /\ running = NoJob
      /\ running' = Head(queue) /\ queue' = Tail(queue) /\ worker' = "working"
      /\ UNCHANGED <<prepared, wanted, demanded, stop, caller, asked>>
  BY DEF ThreadStart, PInv, TypeOK
<1>2. /\ Head(queue) \in ToSet(queue) /\ Tail(queue) \in Seq(Jobs)
      /\ ToSet(Tail(queue)) \subseteq ToSet(queue) /\ Distinct(Tail(queue))
      /\ Head(queue) \notin ToSet(Tail(queue))
  BY <1>1, Parts, Members
<1>3. /\ Head(queue) \in Jobs /\ Head(queue) \in wanted /\ Head(queue) \notin prepared
      /\ Head(queue) # NoJob
  BY <1>2, Parts, Weights
<1>4. TypeOK'
  BY <1>1, <1>2, <1>3 DEF TypeOK
<1>5. BudgetHeld'
  <2>1. ObsoleteCost(wanted)' = 0 /\ ToSet(queue)' = ToSet(Tail(queue))
    BY <1>1, <1>3 DEF ObsoleteCost, ToSet
  <2>2. TotalCost[wanted] \in Nat /\ Limit \in Nat
    BY <1>1, Weights DEF TypeOK
  <2>3. TotalCost[wanted] <= Limit /\ prepared \subseteq wanted /\ ToSet(queue) \subseteq wanted
    BY Parts
  <2>4. ~(TotalCost[wanted] + 0 > Limit)
    BY <2>2, <2>3
  <2>5. QED
    BY <1>1, <1>2, <2>1, <2>3, <2>4 DEF BudgetHeld
<1>6. NoDuplicateWork'
  BY <1>1, <1>2, <1>3, Parts, NoDuplicates
<1>7. DemandIsNext' /\ DemandsHeld'
  <2>1. DemandsHeld'
    BY <1>1 DEF PInv, DemandsHeld
  <2>2. caller \in {"woken", "waiting"} => asked # NoJob
    BY <1>1 DEF TypeOK
  <2>3. DemandIsNext'
    BY <1>1, <2>2 DEF PInv, DemandIsNext
  <2>4. QED
    BY <2>1, <2>3
<1>8. QED
  BY <1>4, <1>5, <1>6, <1>7 DEF PInv

\* A result is kept if it is wanted; a demanded one always is.
LEMMA FinishStep ==
  ASSUME PInv, ThreadFinish
  PROVE  PInv'
<1>1. /\ TypeOK /\ running \in Jobs /\ running' = NoJob /\ worker' = "looking"
      /\ UNCHANGED <<queue, wanted, demanded, stop, asked>>
      /\ prepared' \in {prepared, prepared \cup {running}}
      /\ prepared' # prepared => running \in wanted
      /\ NoJob \notin Jobs
  BY Weights DEF ThreadFinish, ClearRunning, Kept, PInv, TypeOK
<1>2. running \in wanted => running \notin prepared
        /\ TotalCost[prepared] + Cost(running) <= Limit
  <2>1. SUFFICES ASSUME running \in wanted
                 PROVE  running \notin prepared
                        /\ TotalCost[prepared] + Cost(running) <= Limit
    OBVIOUS
  <2>2. /\ running \notin prepared /\ prepared \cup {running} \subseteq wanted
        /\ TotalCost[wanted] <= Limit
    BY <2>1, Parts
  <2>3. /\ prepared \in SUBSET Jobs /\ prepared \cup {running} \in SUBSET Jobs
        /\ wanted \in SUBSET Jobs
    BY <1>1 DEF TypeOK
  <2>4. /\ TotalCost[prepared \cup {running}] = TotalCost[prepared] + Cost(running)
        /\ TotalCost[prepared \cup {running}] <= TotalCost[wanted]
        /\ TotalCost[prepared \cup {running}] \in Nat /\ TotalCost[wanted] \in Nat
        /\ Limit \in Nat
    BY <1>1, <2>2, <2>3, Weights
  <2>5. QED
    BY <2>2, <2>4
<1>3. running \in wanted /\ running \in Groups => running \in prepared'
  BY <1>2 DEF ThreadFinish, Kept
<1>4. /\ caller' \in {"idle", "woken", "waiting", "joining"}
      /\ caller' \in {"woken", "waiting"} <=> caller \in {"woken", "waiting"}
  BY <1>1 DEF ThreadFinish, WakeCaller, TypeOK
<1>5. TypeOK'
  BY <1>1, <1>4 DEF TypeOK
<1>6. BudgetHeld'
  <2>1. ObsoleteCost(wanted)' = 0 /\ ToSet(queue)' = ToSet(queue)
    BY <1>1 DEF ObsoleteCost, ToSet
  <2>2. TotalCost[wanted] \in Nat /\ Limit \in Nat
    BY <1>1, Weights DEF TypeOK
  <2>3. TotalCost[wanted] <= Limit /\ prepared' \subseteq wanted /\ ToSet(queue) \subseteq wanted
    BY <1>1, Parts
  <2>4. ~(TotalCost[wanted] + 0 > Limit)
    BY <2>2, <2>3
  <2>5. QED
    BY <1>1, <2>1, <2>3, <2>4 DEF BudgetHeld
<1>7. NoDuplicateWork'
  <2>1. ToSet(queue) \subseteq Jobs /\ prepared' \subseteq Jobs
    BY <1>1, Parts DEF TypeOK
  <2>2. ToSet(queue) \cap prepared' = {}
    BY <1>1, Parts
  <2>3. running' \notin ToSet(queue) /\ running' \notin prepared'
    BY <1>1, <2>1
  <2>4. QED
    BY <1>1, <2>2, <2>3, Parts, NoDuplicates
<1>8. DemandsHeld'
  BY <1>1 DEF PInv, DemandsHeld
<1>9. DemandIsNext'
  <2>1. SUFFICES ASSUME caller' \in {"woken", "waiting"}
                 PROVE  asked \in prepared' \/ (queue # <<>> /\ Head(queue) = asked)
    BY <1>1 DEF DemandIsNext
  <2>2. caller \in {"woken", "waiting"} /\ asked \in Groups
    BY <1>4, <2>1, <1>1 DEF TypeOK
  <2>3. asked \in prepared \/ asked = running \/ (queue # <<>> /\ Head(queue) = asked)
    BY <2>2 DEF PInv, DemandIsNext
  <2>4. asked \in wanted
    BY <1>1, <2>2 DEF PInv, DemandsHeld, TypeOK
  <2>5. QED
    BY <1>1, <1>3, <2>2, <2>3, <2>4
<1>10. QED
  BY <1>5, <1>6, <1>7, <1>8, <1>9 DEF PInv

\* A step that only moves the thread or wakes the caller changes nothing of
\* the work.
LEMMA WorkKept ==
  ASSUME PInv, TypeOK',
         UNCHANGED <<queue, running, prepared, wanted, demanded, asked>>,
         (caller' \in {"woken", "waiting"}) <=> (caller \in {"woken", "waiting"})
  PROVE  PInv'
<1>1. BudgetHeld'
  BY DEF PInv, BudgetHeld, ObsoleteCost, Cost, ToSet
<1>2. NoDuplicateWork'
  BY DEF PInv, NoDuplicateWork, ToSet
<1>3. DemandIsNext'
  BY DEF PInv, DemandIsNext
<1>4. DemandsHeld'
  BY DEF PInv, DemandsHeld
<1>5. QED
  BY <1>1, <1>2, <1>3, <1>4 DEF PInv

\* Taking a prepared region, waiting, waking, exiting and dropping.
LEMMA OtherSteps ==
  ASSUME PInv, \/ \E job \in Jobs : Take(job)
               \/ ThreadWait \/ ThreadExit \/ SpuriousWake \/ Drop
  PROVE  PInv'
<1>1. CASE \E job \in Jobs : Take(job)
  <2>1. /\ prepared' \subseteq prepared
        /\ UNCHANGED <<queue, running, wanted, demanded, stop, worker, caller, asked>>
        /\ caller = "idle"
    BY <1>1 DEF Take
  <2>2. QED
    BY <2>1 DEF PInv, TypeOK, BudgetHeld, NoDuplicateWork, DemandIsNext,
       DemandsHeld, ObsoleteCost, Cost, ToSet
<1>2. CASE ThreadWait \/ ThreadExit
  <2>1. /\ UNCHANGED <<queue, running, prepared, wanted, demanded, asked, stop, caller>>
        /\ worker # "working" /\ worker' \in {"waiting", "exited"}
    BY <1>2 DEF ThreadWait, ThreadExit, shared
  <2>2. TypeOK'
    BY <2>1 DEF PInv, TypeOK
  <2>3. QED
    BY <2>1, <2>2, WorkKept
<1>3. CASE SpuriousWake
  <2>1. /\ UNCHANGED <<queue, running, prepared, wanted, demanded, asked, stop>>
        /\ worker # "working" \/ worker' = worker
        /\ worker' # "working" \/ worker' = worker
        /\ worker' \in {"looking", worker}
        /\ \/ caller' = caller
           \/ caller \in {"woken", "waiting"} /\ caller' \in {"woken", "waiting"}
    BY <1>3 DEF SpuriousWake, shared
  <2>2. TypeOK'
    BY <2>1 DEF PInv, TypeOK
  <2>3. QED
    BY <2>1, <2>2, WorkKept
<1>4. CASE Drop
  <2>1. /\ UNCHANGED <<queue, running, prepared, wanted, demanded, asked>>
        /\ stop' \in BOOLEAN /\ caller = "idle" /\ caller' = "joining"
        /\ \/ worker' = worker
           \/ worker # "working" /\ worker' = "looking"
    BY <1>4 DEF Drop, WakeThread
  <2>2. TypeOK'
    <3>1. /\ worker' \in {"looking", "waiting", "working", "exited"}
          /\ running' = NoJob <=> worker' # "working"
      BY <2>1 DEF PInv, TypeOK
    <3>2. QED
      BY <2>1, <3>1 DEF PInv, TypeOK
  <2>3. QED
    BY <2>1, <2>2, WorkKept
<1>5. QED
  BY <1>1, <1>2, <1>3, <1>4

-----------------------------------------------------------------------------
(* The theorems *)

\* At the start nothing is wanted.
LEMMA PInvInit == Init => PInv
<1> SUFFICES ASSUME Init PROVE PInv
  OBVIOUS
<1>1. TypeOK
  <2>1. <<>> \in Seq(Jobs)
    OBVIOUS
  <2>2. queue = <<>> /\ prepared = {} /\ wanted = {} /\ demanded = {}
        /\ running = NoJob /\ asked = NoJob /\ worker = "looking" /\ caller = "idle"
        /\ stop = FALSE
    BY DEF Init
  <2>3. QED
    BY <2>1, <2>2 DEF TypeOK
<1>2. BudgetHeld
  <2>1. ToSet(queue) = {} /\ wanted = {} /\ prepared = {} /\ demanded = {}
    BY DEF Init, ToSet
  <2>2. TotalCost[{}] = 0 /\ Limit \in Nat
    BY Weights
  <2>3. QED
    BY <2>1, <2>2 DEF BudgetHeld
<1>3. NoDuplicateWork /\ DemandIsNext /\ DemandsHeld
  BY DEF Init, NoDuplicateWork, DemandIsNext, DemandsHeld, ToSet
<1>4. QED
  BY <1>1, <1>2, <1>3 DEF PInv

\* Every step keeps the invariant.
LEMMA PInvStep == PInv /\ [Next]_vars => PInv'
<1> SUFFICES ASSUME PInv, [Next]_vars PROVE PInv'
  OBVIOUS
<1>1. ASSUME NEW jobs \in Wants, Want(jobs) PROVE PInv'
  <2>1. jobs \in Seq(Jobs)
    <3>1. PICK n \in 0..MaxWants : jobs \in [1..n -> Jobs]
      BY DEF Wants
    <3>2. n \in Nat
      BY CostAssumption
    <3>3. QED
      BY <3>1, <3>2, SeqDef
  <2>2. QED
    BY <1>1, <2>1, WantStep
<1>2. ASSUME NEW job \in Groups, Demand(job) PROVE PInv'
  BY <1>2, DemandStep
<1>3. CASE Thread
  BY <1>3, StartStep, FinishStep, OtherSteps DEF Thread
<1>4. CASE UNCHANGED vars
  BY <1>4 DEF vars, shared, PInv, TypeOK, BudgetHeld, NoDuplicateWork, DemandIsNext,
     DemandsHeld, ObsoleteCost, Cost, ToSet
<1>5. CASE \/ DemandTurn \/ SpuriousWake \/ Drop \/ \E job \in Jobs : Take(job)
  BY <1>5, TurnStep, OtherSteps
<1>6. QED
  BY <1>1, <1>2, <1>3, <1>4, <1>5 DEF Next

\* What the preloader wants, queues, does and has done fits together in every
\* reachable state.
THEOREM PreloadInvariant == Spec => []PInv
BY PInvInit, PInvStep, PTL DEF Spec

\* Speculation never takes more than the budget, whatever is wanted and
\* demanded, in any order, and however long an obsolete job runs.
THEOREM BudgetIsHeld == Spec => []BudgetHeld
<1>1. PInv => BudgetHeld
  BY DEF PInv
<1>2. QED
  BY PreloadInvariant, <1>1, PTL

\* A region that is prepared, running or queued is never prepared again.
THEOREM NoWorkIsDuplicated == Spec => []NoDuplicateWork
<1>1. PInv => NoDuplicateWork
  BY DEF PInv
<1>2. QED
  BY PreloadInvariant, <1>1, PTL

\* The engine, which waits for a group, waits for at most the job that runs.
THEOREM DemandComesFirst == Spec => []DemandIsNext
<1>1. PInv => DemandIsNext
  BY DEF PInv
<1>2. QED
  BY PreloadInvariant, <1>1, PTL
=============================================================================
