---------------------------- MODULE CommandsProofs ----------------------------
(***************************************************************************)
(* Proofs about commands, receipts and recovery: however often requests    *)
(* are repeated and the save is reopened, the history holds one record of  *)
(* each, a saved receipt stands, no command needs an authority that is not *)
(* in the save, every save opens, and what is opened is what its history   *)
(* describes.                                                              *)
(*                                                                         *)
(* The argument: the history is one that an engine ran from the start,     *)
(* each record a command it permitted (Legal), and the engine that runs is *)
(* like the one that ran it (Running), so that what it holds is what the   *)
(* history says: receipts (ReceiptsExact), boundaries (BoundariesExpected) *)
(* and games (LineageIs).  A checkpoint is a snapshot of such an engine,   *)
(* and whatever restore checks of it holds (SnapshotAllowed); the replay   *)
(* from there leads to a like engine again (OpenedReproduces).             *)
(***************************************************************************)
EXTENDS Commands, FiniteSetTheorems, SequenceTheorems, WellFoundedInduction, TLAPS

\* What the variables are made of: games, branches, boundaries, records, engines.
Games    == SUBSET Ids
Branches == Ids \cup {None}
Kinds    == {"intention", "note", "setup", "rewind", "started", "queued"}
Bounds   == [id : Branches, selectable : BOOLEAN, game : Games]
Snaps    == [count : Nat, branch : Branches, game : Games, boundaries : Seq(Bounds),
             marked : BOOLEAN]
Recs     == [kind : Kinds, id : Ids, by : Requests \cup {None}, branch : Branches,
             target : Branches, leaves : Branches, snapshot : Snaps]
Engines  == [valid : BOOLEAN, branch : Branches, game : Games, boundaries : Seq(Bounds),
             receipts : [Requests -> Nat], count : Nat, marked : BOOLEAN, enabled : BOOLEAN]
Asked    == [kind : Kinds, branch : Branches, target : Branches]

\* Every variable has its type, and the save's marks are in their order.
TypeOK ==
  /\ log \in Seq(Recs \cup {Marker}) /\ Len(log) <= MaxEntries
  /\ stable \in 0..Len(log) /\ promised \in 0..stable
  /\ checkpoint \in 0..stable /\ (checkpoint # 0 => IsRecord(log[checkpoint]))
  /\ status \in {"up", "enabling", "down", "refused"}
  /\ opening \in 1..MaxOpenings
  /\ engine \in Engines
  /\ asked \in [Requests -> Asked \cup {None}]
  /\ current \subseteq Requests
  /\ answer \in [Requests -> Ids \cup {None}]

\* The engine that ran a history.
Ran(h) ==
  LET after[i \in 0..Len(h)] == IF i = 0 THEN Fresh ELSE Committed(after[i - 1], h[i])
  IN  after[Len(h)]

\* Two engines that differ at most in the authority they give.
Like(e, d) ==
  /\ e.valid = d.valid /\ e.branch = d.branch /\ e.game = d.game
  /\ e.boundaries = d.boundaries /\ e.receipts = d.receipts /\ e.count = d.count

\* A record of a command that this engine permits, and of what came of it.
Fits(e, r) ==
  /\ r.branch = e.branch
  /\ r.kind = "rewind" => Restores(e, r.target) # {}
  /\ r.by # None => e.receipts[r.by] = 0
  /\ LET after == Committed(e, r)
     IN  /\ r.leaves = after.branch
         /\ r.snapshot.count = after.count /\ r.snapshot.branch = after.branch
         /\ r.snapshot.game = after.game /\ r.snapshot.boundaries = after.boundaries

\* Every record fits the engine that ran those before it.
Legal(h) == \A i \in 1..Len(h) : Fits(Ran(SubSeq(h, 1, i - 1)), h[i])

\* An entry is identified by its place, and was made after the marker if it needed it.
Placed(s, o) ==
  \A i \in 1..Len(s) : IsRecord(s[i]) =>
    /\ s[i].id[2] = i /\ s[i].id[1] <= o
    /\ s[i].snapshot.marked = Marked(SubSeq(s, 1, i - 1))
    /\ s[i].kind \in WizardKinds => s[i].snapshot.marked

\* A receipt named a record of its request.
Answered(s, given) ==
  \A r \in Requests : given[r] # None =>
    \E i \in 1..Len(s) : IsRecord(s[i]) /\ s[i].id = given[r] /\ s[i].by = r

\* The engine that runs is like the one that ran the records, and knows of the marker.
Running(state, e, s, saved) ==
  state \in {"up", "enabling"} =>
    /\ Like(e, Ran(Records(s))) /\ e.marked = Marked(s)
    /\ e.enabled => Marked(SubSeq(s, 1, saved))
    /\ state = "enabling" => e.marked

\* The inductive invariant.
IInv ==
  /\ TypeOK
  /\ Legal(Records(log))
  /\ Placed(log, opening)
  /\ Answered(log, answer)
  /\ Running(status, engine, log, stable)

-----------------------------------------------------------------------------
(* Induction *)

\* A set that holds zero and with each number its successor holds them all.
LEMMA NumbersReached ==
  ASSUME NEW P, 0 \in P, \A n \in Nat : n \in P => n + 1 \in P
  PROVE  Nat \subseteq P
<1> DEFINE T == {n \in Nat : n \notin P}
<1>1. SUFFICES ASSUME T # {} PROVE FALSE
  OBVIOUS
<1>2. IsWellFoundedOn(OpToRel(<, Nat), Nat)
  BY NatLessThanWellFounded
<1>3. \E x \in T : \A y \in T : <<y, x>> \notin OpToRel(<, Nat)
  BY <1>1, <1>2, WFMin
<1>4. PICK x \in T : \A y \in T : ~(y < x)
  BY <1>3 DEF OpToRel
<1>5. QED
  BY <1>4

-----------------------------------------------------------------------------
(* What a sequence holds at some positions *)

\* What is picked up to each position.
Picks(f, seq, kept) ==
  /\ f[0] = <<>>
  /\ \A i \in 1..Len(seq) : f[i] = IF i \in kept THEN Append(f[i - 1], seq[i]) ELSE f[i - 1]

\* A sequence has such a function.
LEMMA PicksExist ==
  ASSUME NEW S, NEW s \in Seq(S), NEW kept
  PROVE  \E f : f = [i \in 0..Len(s) |->
           IF i = 0 THEN <<>> ELSE IF i \in kept THEN Append(f[i - 1], s[i]) ELSE f[i - 1]]
<1> DEFINE Upto(k, f) == f = [i \in 0..k |->
             IF i = 0 THEN <<>> ELSE IF i \in kept THEN Append(f[i - 1], s[i]) ELSE f[i - 1]]
           P == {k \in Nat : \E f : Upto(k, f)}
<1>1. 0 \in P
  <2> DEFINE f == [i \in 0..0 |-> <<>>]
  <2>1. Upto(0, f)
    OBVIOUS
  <2>2. QED
    BY <2>1
<1>2. ASSUME NEW k \in Nat, k \in P PROVE k + 1 \in P
  <2>1. PICK f : Upto(k, f)
    BY <1>2
  <2> DEFINE last == IF k + 1 \in kept THEN Append(f[k], s[k + 1]) ELSE f[k]
             g == [i \in 0..(k + 1) |-> IF i = k + 1 THEN last ELSE f[i]]
  <2>2. ASSUME NEW i \in 0..(k + 1)
        PROVE  g[i] = IF i = 0 THEN <<>>
                      ELSE IF i \in kept THEN Append(g[i - 1], s[i]) ELSE g[i - 1]
    <3>1. CASE i = k + 1
      <4>1. i # 0 /\ i - 1 = k /\ k # k + 1 /\ k \in 0..(k + 1)
        BY <3>1
      <4>2. g[i] = last /\ g[i - 1] = f[k]
        BY <3>1, <4>1
      <4>3. QED
        BY <3>1, <4>1, <4>2
    <3>2. CASE i # k + 1
      <4>1. i \in 0..k /\ (i # 0 => i - 1 \in 0..(k + 1) /\ i - 1 # k + 1)
        BY <3>2
      <4>2. g[i] = f[i] /\ (i # 0 => g[i - 1] = f[i - 1])
        BY <3>2, <4>1
      <4>3. f[i] = IF i = 0 THEN <<>>
                   ELSE IF i \in kept THEN Append(f[i - 1], s[i]) ELSE f[i - 1]
        BY <2>1, <4>1
      <4>4. QED
        BY <4>2, <4>3
    <3>3. QED
      BY <3>1, <3>2
  <2> HIDE DEF last
  <2>3. Upto(k + 1, g)
    BY <2>2
  <2> HIDE DEF g, Upto
  <2>4. QED
    BY <2>3
<1> HIDE DEF P
<1>3. Nat \subseteq P
  BY <1>1, <1>2, NumbersReached
<1>4. QED
  BY <1>3, LenProperties DEF P

\* What is picked is what that function ends with, whichever it is.
LEMMA PickedIs ==
  ASSUME NEW S, NEW s \in Seq(S), NEW kept
  PROVE  /\ \E f : Picks(f, s, kept)
         /\ \A f : Picks(f, s, kept) => Picked(s, kept) = f[Len(s)]
<1> DEFINE n == Len(s)
           Built(f) == f = [i \in 0..n |->
             IF i = 0 THEN <<>> ELSE IF i \in kept THEN Append(f[i - 1], s[i]) ELSE f[i - 1]]
<1>1. n \in Nat
  BY LenProperties
<1>2. \E f : Built(f)
  BY PicksExist
<1> DEFINE g == CHOOSE f : Built(f)
<1>3. Built(g)
  BY <1>2
<1>4. Picked(s, kept) = g[n]
  BY DEF Picked
<1> HIDE DEF g
<1>5. Picks(g, s, kept)
  <2>1. g[0] = <<>>
    BY <1>1, <1>3
  <2>2. ASSUME NEW i \in 1..n
        PROVE  g[i] = IF i \in kept THEN Append(g[i - 1], s[i]) ELSE g[i - 1]
    <3>1. i \in 0..n /\ i # 0
      BY <1>1
    <3>2. QED
      BY <1>3, <3>1
  <2>3. QED
    BY <2>1, <2>2 DEF Picks
<1>6. ASSUME NEW f, Picks(f, s, kept) PROVE Picked(s, kept) = f[n]
  <2> DEFINE Q == {i \in Nat : i <= n => f[i] = g[i]}
  <2>1. 0 \in Q
    BY <1>5, <1>6 DEF Picks
  <2>2. ASSUME NEW i \in Nat, i \in Q PROVE i + 1 \in Q
    <3> SUFFICES ASSUME i + 1 <= n PROVE f[i + 1] = g[i + 1]
      OBVIOUS
    <3>1. i + 1 \in 1..n /\ (i + 1) - 1 = i /\ f[i] = g[i]
      BY <1>1, <2>2
    <3>2. QED
      BY <1>5, <1>6, <3>1 DEF Picks
  <2> HIDE DEF Q
  <2>3. Nat \subseteq Q
    BY <2>1, <2>2, NumbersReached
  <2>4. QED
    BY <1>1, <1>4, <2>3 DEF Q
<1>7. QED
  BY <1>5, <1>6

\* Nothing is picked of nothing.
LEMMA PickedEmpty ==
  ASSUME NEW kept
  PROVE  Picked(<<>>, kept) = <<>>
<1>1. <<>> \in Seq({}) /\ Len(<<>>) = 0
  OBVIOUS
<1>2. PICK f : Picks(f, <<>>, kept) /\ Picked(<<>>, kept) = f[0]
  BY <1>1, PickedIs
<1>3. QED
  BY <1>2 DEF Picks

\* One element more.
LEMMA PickedAppend ==
  ASSUME NEW S, NEW s \in Seq(S), NEW x \in S, NEW kept
  PROVE  Picked(Append(s, x), kept) =
           IF Len(s) + 1 \in kept THEN Append(Picked(s, kept), x) ELSE Picked(s, kept)
<1> DEFINE t == Append(s, x)
           n == Len(s)
<1>1. /\ t \in Seq(S) /\ Len(t) = n + 1 /\ t[n + 1] = x
      /\ n \in Nat /\ \A i \in 1..n : t[i] = s[i]
  BY AppendProperties, LenProperties
<1> HIDE DEF t
<1>2. PICK f : Picks(f, t, kept) /\ Picked(t, kept) = f[n + 1]
  BY <1>1, PickedIs
<1>3. \A i \in 1..n : i \in 1..(n + 1)
  BY <1>1
<1>4. n + 1 \in 1..(n + 1) /\ (n + 1) - 1 = n
  BY <1>1
<1>5. Picks(f, s, kept)
  BY <1>1, <1>2, <1>3 DEF Picks
<1>6. Picked(s, kept) = f[n]
  BY <1>5, PickedIs
<1>7. f[n + 1] = IF n + 1 \in kept THEN Append(f[n], x) ELSE f[n]
  BY <1>1, <1>2, <1>4 DEF Picks
<1>8. QED
  BY <1>2, <1>6, <1>7 DEF t

\* Only positions of the sequence count.
LEMMA PickedSame ==
  ASSUME NEW S, NEW s \in Seq(S), NEW kept, NEW other,
         \A i \in 1..Len(s) : i \in kept <=> i \in other
  PROVE  Picked(s, kept) = Picked(s, other)
<1>1. PICK f : Picks(f, s, kept) /\ Picked(s, kept) = f[Len(s)]
  BY PickedIs
<1>2. Picks(f, s, other)
  BY <1>1 DEF Picks
<1>3. QED
  BY <1>1, <1>2, PickedIs

\* What is picked is in the sequence.
LEMMA PickedType ==
  ASSUME NEW S, NEW s \in Seq(S), NEW kept
  PROVE  Picked(s, kept) \in Seq(S)
<1>1. PICK f : Picks(f, s, kept) /\ Picked(s, kept) = f[Len(s)]
  BY PickedIs
<1> DEFINE P == {i \in Nat : i <= Len(s) => f[i] \in Seq(S)}
<1>2. 0 \in P
  BY <1>1, EmptySeq DEF Picks
<1>3. ASSUME NEW i \in Nat, i \in P PROVE i + 1 \in P
  <2> SUFFICES ASSUME i + 1 <= Len(s) PROVE f[i + 1] \in Seq(S)
    OBVIOUS
  <2>1. Len(s) \in Nat
    BY LenProperties
  <2>2. i + 1 \in 1..Len(s) /\ (i + 1) - 1 = i /\ f[i] \in Seq(S)
    BY <1>3, <2>1
  <2>3. s[i + 1] \in S
    BY <2>2, ElementOfSeq
  <2>4. Append(f[i], s[i + 1]) \in Seq(S)
    BY <2>2, <2>3, AppendProperties
  <2>5. QED
    BY <1>1, <2>2, <2>4 DEF Picks
<1> HIDE DEF P
<1>4. Nat \subseteq P
  BY <1>2, <1>3, NumbersReached
<1>5. QED
  BY <1>1, <1>4, LenProperties DEF P

\* A sequence holds its beginning and one more element.
LEMMA Beginnings ==
  ASSUME NEW S, NEW s \in Seq(S)
  PROVE  /\ SubSeq(s, 1, 0) = <<>> /\ SubSeq(s, 1, Len(s)) = s
         /\ \A k \in 0..Len(s) : SubSeq(s, 1, k) \in Seq(S) /\ Len(SubSeq(s, 1, k)) = k
                                 /\ \A i \in 1..k : SubSeq(s, 1, k)[i] = s[i]
         /\ \A k \in 1..Len(s) : SubSeq(s, 1, k) = Append(SubSeq(s, 1, k - 1), s[k])
<1> DEFINE n == Len(s)
<1>1. n \in Nat
  BY LenProperties
<1>2. ASSUME NEW k \in 0..n
      PROVE  SubSeq(s, 1, k) \in Seq(S) /\ Len(SubSeq(s, 1, k)) = k
             /\ \A i \in 1..k : SubSeq(s, 1, k)[i] = s[i]
  <2>1. \A i \in 1..k : i \in 1..n
    BY <1>1
  <2>2. SubSeq(s, 1, k) = [i \in 1..k |-> s[i]]
    BY <1>1, SubSeqProperties
  <2>3. \A i \in 1..k : s[i] \in S
    BY <2>1, ElementOfSeq
  <2> DEFINE t == [i \in 1..k |-> s[i]]
  <2>4. t \in [1..k -> S]
    BY <2>3
  <2>5. t \in Seq(S) /\ DOMAIN t = 1..k
    BY <1>1, <2>4, SeqDef
  <2>6. Len(t) = k
    BY <1>1, <2>5, LenProperties
  <2>7. QED
    BY <2>2, <2>5, <2>6
<1>3. ASSUME NEW k \in 1..n
      PROVE  SubSeq(s, 1, k) = Append(SubSeq(s, 1, k - 1), s[k])
  <2> DEFINE t == SubSeq(s, 1, k)
             u == SubSeq(s, 1, k - 1)
             v == Append(u, s[k])
  <2>1. k \in 0..n /\ k - 1 \in 0..n /\ k \in Nat
    BY <1>1
  <2>2. t \in Seq(S) /\ Len(t) = k /\ \A i \in 1..k : t[i] = s[i]
    BY <1>2, <2>1
  <2>3. u \in Seq(S) /\ Len(u) = k - 1 /\ \A i \in 1..(k - 1) : u[i] = s[i]
    BY <1>2, <2>1
  <2>4. s[k] \in S
    BY ElementOfSeq
  <2> HIDE DEF t, u
  <2>5. v \in Seq(S) /\ Len(v) = k /\ v[k] = s[k] /\ \A i \in 1..(k - 1) : v[i] = u[i]
    <3>1. /\ v \in Seq(S) /\ Len(v) = Len(u) + 1 /\ v[Len(u) + 1] = s[k]
          /\ \A i \in 1..Len(u) : v[i] = u[i]
      BY <2>3, <2>4, AppendProperties
    <3>2. Len(u) + 1 = k
      BY <2>1, <2>3
    <3>3. QED
      BY <2>3, <3>1, <3>2
  <2>6. \A i \in 1..k : i = k \/ i \in 1..(k - 1)
    BY <2>1
  <2> HIDE DEF v
  <2>7. \A i \in 1..k : t[i] = v[i]
    BY <2>2, <2>3, <2>5, <2>6
  <2>8. t = v
    BY <2>2, <2>5, <2>7, SeqEqual
  <2>9. QED
    BY <2>8 DEF t, u, v
<1>4. SubSeq(s, 1, 0) = <<>>
  <2>1. 0 \in 0..n
    BY <1>1
  <2>2. SubSeq(s, 1, 0) \in Seq(S) /\ Len(SubSeq(s, 1, 0)) = 0
    BY <1>2, <2>1
  <2>3. QED
    BY <2>2, EmptySeq
<1>5. SubSeq(s, 1, n) = s
  <2> DEFINE t == SubSeq(s, 1, n)
  <2>1. n \in 0..n
    BY <1>1
  <2>2. t \in Seq(S) /\ Len(t) = n /\ \A i \in 1..n : t[i] = s[i]
    BY <1>2, <2>1
  <2> HIDE DEF t
  <2>3. t = s
    BY <2>2, SeqEqual
  <2>4. QED
    BY <2>3 DEF t
<1>6. QED
  BY <1>2, <1>3, <1>4, <1>5

\* The beginnings of a beginning.
LEMMA BeginningBegins ==
  ASSUME NEW S, NEW s \in Seq(S), NEW n \in 0..Len(s)
  PROVE  \A k \in 0..n : SubSeq(SubSeq(s, 1, n), 1, k) = SubSeq(s, 1, k)
<1> SUFFICES ASSUME NEW k \in 0..n PROVE SubSeq(SubSeq(s, 1, n), 1, k) = SubSeq(s, 1, k)
  OBVIOUS
<1>1. PICK t : t = SubSeq(s, 1, n)
  OBVIOUS
<1>2. t \in Seq(S) /\ Len(t) = n /\ Len(s) \in Nat /\ \A i \in 1..n : t[i] = s[i]
  BY <1>1, Beginnings, LenProperties
<1>3. PICK u, v : u = SubSeq(t, 1, k) /\ v = SubSeq(s, 1, k)
  OBVIOUS
<1>4. k \in 0..Len(t) /\ k \in 0..Len(s) /\ \A i \in 1..k : i \in 1..n
  BY <1>2
<1>5. u \in Seq(S) /\ Len(u) = k /\ \A i \in 1..k : u[i] = t[i]
  BY <1>2, <1>3, <1>4, Beginnings
<1>6. v \in Seq(S) /\ Len(v) = k /\ \A i \in 1..k : v[i] = s[i]
  BY <1>3, <1>4, Beginnings
<1>7. \A i \in 1..k : u[i] = v[i]
  BY <1>2, <1>4, <1>5, <1>6
<1>8. u = v
  BY <1>5, <1>6, <1>7, SeqEqual
<1>9. QED
  BY <1>1, <1>3, <1>8

\* What is picked of the beginnings of a sequence.
LEMMA PickedGrow ==
  ASSUME NEW S, NEW s \in Seq(S), NEW kept
  PROVE  /\ Picked(SubSeq(s, 1, 0), kept) = <<>>
         /\ \A k \in 1..Len(s) :
              /\ k \in kept => Picked(SubSeq(s, 1, k), kept) =
                              Append(Picked(SubSeq(s, 1, k - 1), kept), s[k])
              /\ k \notin kept => Picked(SubSeq(s, 1, k), kept) =
                                 Picked(SubSeq(s, 1, k - 1), kept)
         /\ \A k \in 0..Len(s) : Picked(SubSeq(s, 1, k), kept) \in Seq(S)
<1>1. Picked(SubSeq(s, 1, 0), kept) = <<>>
  <2>1. SubSeq(s, 1, 0) = <<>>
    BY Beginnings
  <2>2. QED
    BY <2>1, PickedEmpty
<1>2. ASSUME NEW k \in 1..Len(s)
      PROVE  /\ k \in kept => Picked(SubSeq(s, 1, k), kept) =
                              Append(Picked(SubSeq(s, 1, k - 1), kept), s[k])
             /\ k \notin kept => Picked(SubSeq(s, 1, k), kept) =
                                Picked(SubSeq(s, 1, k - 1), kept)
  <2>1. PICK t : t = SubSeq(s, 1, k - 1)
    OBVIOUS
  <2>2. k - 1 \in 0..Len(s) /\ (k - 1) + 1 = k
    BY LenProperties
  <2>3. t \in Seq(S) /\ Len(t) = k - 1 /\ SubSeq(s, 1, k) = Append(t, s[k])
    <3>1. SubSeq(s, 1, k) = Append(SubSeq(s, 1, k - 1), s[k])
      BY Beginnings
    <3>2. t \in Seq(S) /\ Len(t) = k - 1
      BY <2>1, <2>2, Beginnings
    <3>3. QED
      BY <2>1, <3>1, <3>2
  <2>4. s[k] \in S
    BY ElementOfSeq
  <2>5. Len(t) + 1 = k
    BY <2>2, <2>3
  <2>6. Picked(Append(t, s[k]), kept) =
          IF Len(t) + 1 \in kept THEN Append(Picked(t, kept), s[k]) ELSE Picked(t, kept)
    <3>1. PICK x : x = s[k]
      OBVIOUS
    <3>2. x \in S /\ t \in Seq(S)
      BY <2>3, <2>4, <3>1
    <3>3. Picked(Append(t, x), kept) =
            IF Len(t) + 1 \in kept THEN Append(Picked(t, kept), x) ELSE Picked(t, kept)
      BY <3>2, PickedAppend
    <3>4. QED
      BY <3>1, <3>3
  <2>7. QED
    BY <2>1, <2>3, <2>5, <2>6
<1>3. ASSUME NEW k \in 0..Len(s) PROVE Picked(SubSeq(s, 1, k), kept) \in Seq(S)
  <2>1. SubSeq(s, 1, k) \in Seq(S)
    BY Beginnings
  <2>2. QED
    BY <2>1, PickedType
<1>4. QED
  BY <1>1, <1>2, <1>3

\* What is picked of a beginning begins what is picked.
LEMMA PickedBegin ==
  ASSUME NEW S, NEW s \in Seq(S), NEW kept, NEW k \in 0..Len(s)
  PROVE  LET a == Picked(SubSeq(s, 1, k), kept)
             b == Picked(s, kept)
         IN  /\ a \in Seq(S) /\ b \in Seq(S) /\ Len(a) \in 0..Len(b)
             /\ a = SubSeq(b, 1, Len(a))
             /\ \A j \in 1..Len(a) : b[j] = a[j]
<1> DEFINE n == Len(s)
           At(i) == Picked(SubSeq(s, 1, i), kept)
<1>1. n \in Nat /\ k \in Nat /\ SubSeq(s, 1, n) = s
  BY LenProperties, Beginnings
<1>2. PICK a : a = At(k)
  OBVIOUS
<1>3. a \in Seq(S) /\ Len(a) \in Nat
  <2>1. a \in Seq(S)
    BY <1>2, PickedGrow
  <2>2. QED
    BY <2>1, LenProperties
<1> DEFINE Good(b) == Len(a) <= Len(b) /\ \A j \in 1..Len(a) : b[j] = a[j]
           P == {i \in Nat : k <= i /\ i <= n => Good(At(i))}
<1>4. 0 \in P
  <2> SUFFICES ASSUME k <= 0 PROVE Good(At(0))
    OBVIOUS
  <2>1. k = 0
    BY <1>1
  <2>2. QED
    BY <1>2, <1>3, <2>1
<1>5. ASSUME NEW i \in Nat, i \in P PROVE i + 1 \in P
  <2> SUFFICES ASSUME k <= i + 1, i + 1 <= n PROVE Good(At(i + 1))
    OBVIOUS
  <2>1. i + 1 \in 1..n /\ (i + 1) - 1 = i /\ i \in 0..n
    BY <1>1
  <2>2. CASE k = i + 1
    BY <1>2, <1>3, <2>2
  <2>3. CASE k # i + 1
    <3>1. PICK b, x : b = At(i) /\ x = s[i + 1]
      OBVIOUS
    <3>2. k <= i /\ i <= n
      BY <1>1, <2>1, <2>3
    <3>3. Good(b)
      BY <1>5, <3>1, <3>2
    <3>4. b \in Seq(S)
      BY <2>1, <3>1, PickedGrow
    <3>5. /\ i + 1 \in kept => At(i + 1) = Append(b, x)
          /\ i + 1 \notin kept => At(i + 1) = b
      <4>1. /\ i + 1 \in kept => At(i + 1) = Append(At((i + 1) - 1), s[i + 1])
            /\ i + 1 \notin kept => At(i + 1) = At((i + 1) - 1)
        BY <2>1, PickedGrow, Zenon
      <4>2. QED
        BY <2>1, <3>1, <4>1
    <3>6. CASE i + 1 \in kept
      <4>1. x \in S
        BY <2>1, <3>1, ElementOfSeq
      <4>2. PICK c : c = Append(b, x)
        OBVIOUS
      <4>3. Len(b) \in Nat /\ Len(c) = Len(b) + 1 /\ \A j \in 1..Len(b) : c[j] = b[j]
        BY <3>4, <4>1, <4>2, AppendProperties, LenProperties
      <4>4. \A j \in 1..Len(a) : j \in 1..Len(b)
        BY <1>3, <3>3, <4>3
      <4>5. Len(a) <= Len(c)
        BY <1>3, <3>3, <4>3
      <4>6. \A j \in 1..Len(a) : c[j] = a[j]
        BY <3>3, <4>3, <4>4
      <4>7. QED
        BY <3>5, <3>6, <4>2, <4>5, <4>6
    <3>7. CASE i + 1 \notin kept
      BY <3>3, <3>5, <3>7
    <3>8. QED
      BY <3>6, <3>7
  <2>4. QED
    BY <2>2, <2>3
<1> HIDE DEF P
<1>6. Nat \subseteq P
  BY <1>4, <1>5, NumbersReached
<1>7. PICK b : b = Picked(s, kept)
  OBVIOUS
<1>8. Good(b)
  <2>1. k <= n /\ n \in P
    BY <1>1, <1>6
  <2>2. Good(At(n))
    BY <1>1, <2>1 DEF P
  <2>3. At(n) = b
    BY <1>1, <1>7
  <2>4. QED
    BY <2>2, <2>3
<1>9. b \in Seq(S) /\ Len(b) \in Nat
  <2>1. b \in Seq(S)
    BY <1>7, PickedType
  <2>2. QED
    BY <2>1, LenProperties
<1>10. Len(a) \in 0..Len(b)
  BY <1>3, <1>8, <1>9
<1>11. a = SubSeq(b, 1, Len(a))
  <2> DEFINE c == SubSeq(b, 1, Len(a))
  <2>1. c \in Seq(S) /\ Len(c) = Len(a) /\ \A j \in 1..Len(a) : c[j] = b[j]
    BY <1>9, <1>10, Beginnings
  <2> HIDE DEF c
  <2>2. \A j \in 1..Len(a) : a[j] = c[j]
    BY <1>8, <2>1
  <2>3. a = c
    BY <1>3, <2>1, <2>2, SeqEqual
  <2>4. QED
    BY <2>3 DEF c
<1>12. \A j \in 1..Len(a) : b[j] = a[j]
  BY <1>8
<1>13. QED
  BY <1>2, <1>3, <1>7, <1>9, <1>10, <1>11, <1>12

\* Where an element that is kept is in what is picked.
Place(s, kept, i) == Len(Picked(SubSeq(s, 1, i), kept))

\* The places after each element.
LEMMA PlaceGrows ==
  ASSUME NEW S, NEW s \in Seq(S), NEW kept
  PROVE  /\ Place(s, kept, 0) = 0
         /\ \A k \in 0..Len(s) : Place(s, kept, k) \in Nat
         /\ \A k \in 1..Len(s) :
              /\ k \in kept => Place(s, kept, k) = Place(s, kept, k - 1) + 1
              /\ k \notin kept => Place(s, kept, k) = Place(s, kept, k - 1)
<1>1. Place(s, kept, 0) = 0
  BY PickedGrow, EmptySeq DEF Place
<1>2. ASSUME NEW k \in 0..Len(s) PROVE Place(s, kept, k) \in Nat
  <2>1. PICK a : a = Picked(SubSeq(s, 1, k), kept)
    OBVIOUS
  <2>2. a \in Seq(S)
    BY <2>1, PickedGrow
  <2>3. QED
    BY <2>1, <2>2, LenProperties DEF Place
<1>3. ASSUME NEW k \in 1..Len(s)
      PROVE  /\ k \in kept => Place(s, kept, k) = Place(s, kept, k - 1) + 1
             /\ k \notin kept => Place(s, kept, k) = Place(s, kept, k - 1)
  <2>1. PICK a : a = Picked(SubSeq(s, 1, k - 1), kept)
    OBVIOUS
  <2>2. k - 1 \in 0..Len(s) /\ s[k] \in S
    BY LenProperties, ElementOfSeq
  <2>3. a \in Seq(S)
    BY <2>1, <2>2, PickedGrow
  <2>4. Len(Append(a, s[k])) = Len(a) + 1
    BY <2>2, <2>3, AppendProperties
  <2>5. /\ k \in kept => Picked(SubSeq(s, 1, k), kept) = Append(a, s[k])
        /\ k \notin kept => Picked(SubSeq(s, 1, k), kept) = a
    BY <2>1, PickedGrow
  <2>6. QED
    BY <2>1, <2>4, <2>5 DEF Place
<1>4. QED
  BY <1>1, <1>2, <1>3

\* An element that is kept is at its place.
LEMMA PickedPlace ==
  ASSUME NEW S, NEW s \in Seq(S), NEW kept, NEW i \in 1..Len(s), i \in kept
  PROVE  /\ Place(s, kept, i) \in 1..Len(Picked(s, kept))
         /\ Picked(s, kept)[Place(s, kept, i)] = s[i]
<1>1. i - 1 \in 0..Len(s) /\ i \in 0..Len(s) /\ s[i] \in S
  BY LenProperties, ElementOfSeq
<1>2. PICK a, c : a = Picked(SubSeq(s, 1, i - 1), kept) /\ c = Picked(SubSeq(s, 1, i), kept)
  OBVIOUS
<1>3. a \in Seq(S) /\ c = Append(a, s[i])
  BY <1>1, <1>2, PickedGrow
<1>4. Len(a) \in Nat /\ Len(c) = Len(a) + 1 /\ c[Len(a) + 1] = s[i]
  BY <1>1, <1>3, AppendProperties, LenProperties
<1>5. PICK b : b = Picked(s, kept)
  OBVIOUS
<1>6. Len(c) \in 0..Len(b) /\ \A j \in 1..Len(c) : b[j] = c[j]
  BY <1>1, <1>2, <1>5, PickedBegin
<1>7. Len(c) \in 1..Len(c) /\ Len(c) \in 1..Len(b) /\ c[Len(c)] = s[i]
  BY <1>4, <1>6
<1>8. QED
  BY <1>2, <1>5, <1>6, <1>7 DEF Place

\* Later elements have later places.
LEMMA PlacesIncrease ==
  ASSUME NEW S, NEW s \in Seq(S), NEW kept, NEW i \in 0..Len(s), NEW j \in 0..Len(s), i <= j
  PROVE  /\ Place(s, kept, i) <= Place(s, kept, j)
         /\ i < j /\ j \in kept => Place(s, kept, i) < Place(s, kept, j)
<1> DEFINE n == Len(s)
           P(k) == Place(s, kept, k)
           Q == {k \in Nat : i <= k /\ k <= n => P(i) <= P(k)}
<1>1. n \in Nat /\ i \in Nat /\ j \in Nat
  BY LenProperties
<1>2. \A k \in 0..n : P(k) \in Nat
  BY PlaceGrows
<1>3. \A k \in 1..n : /\ k \in kept => P(k) = P(k - 1) + 1
                      /\ k \notin kept => P(k) = P(k - 1)
  BY PlaceGrows
<1>4. 0 \in Q
  <2>1. ASSUME i <= 0 PROVE P(i) <= P(0)
    <3>1. i = 0
      BY <1>1, <2>1
    <3>2. QED
      BY <1>1, <1>2, <3>1
  <2>2. QED
    BY <2>1
<1>5. ASSUME NEW k \in Nat, k \in Q PROVE k + 1 \in Q
  <2> SUFFICES ASSUME i <= k + 1, k + 1 <= n PROVE P(i) <= P(k + 1)
    OBVIOUS
  <2>1. k + 1 \in 1..n /\ (k + 1) - 1 = k /\ k \in 0..n /\ k + 1 \in 0..n
    BY <1>1
  <2>2. PICK p, q, r : p = P(k) /\ q = P(k + 1) /\ r = P(i)
    OBVIOUS
  <2>3. p \in Nat /\ q \in Nat /\ r \in Nat
    BY <1>1, <1>2, <2>1, <2>2
  <2>4. CASE i = k + 1
    BY <2>2, <2>3, <2>4
  <2>5. CASE i # k + 1
    <3>1. i <= k /\ k <= n
      BY <1>1, <2>1, <2>5
    <3>2. r <= p
      BY <1>5, <2>2, <3>1
    <3>3. q = p + 1 \/ q = p
      <4>1. /\ k + 1 \in kept => P(k + 1) = P((k + 1) - 1) + 1
            /\ k + 1 \notin kept => P(k + 1) = P((k + 1) - 1)
        BY <2>1, PlaceGrows, Zenon
      <4>2. QED
        BY <2>1, <2>2, <4>1
    <3>4. QED
      BY <2>2, <2>3, <3>2, <3>3
  <2>6. QED
    BY <2>4, <2>5
<1> HIDE DEF Q
<1>6. Nat \subseteq Q
  BY <1>4, <1>5, NumbersReached
<1>7. ASSUME NEW k \in 0..n, i <= k PROVE P(i) <= P(k)
  BY <1>1, <1>6, <1>7 DEF Q
<1>8. ASSUME i < j, j \in kept PROVE P(i) < P(j)
  <2>1. j \in 1..n /\ j - 1 \in 0..n /\ i <= j - 1
    BY <1>1, <1>8
  <2>2. PICK p, q, r : p = P(j - 1) /\ q = P(j) /\ r = P(i)
    OBVIOUS
  <2>3. r <= p
    BY <1>7, <2>1, <2>2
  <2>4. q = p + 1
    <3>1. P(j) = P(j - 1) + 1
      BY <1>8, <2>1, PlaceGrows, Zenon
    <3>2. QED
      BY <2>2, <3>1
  <2>5. p \in Nat /\ r \in Nat
    BY <1>2, <2>1, <2>2
  <2>6. QED
    BY <2>2, <2>3, <2>4, <2>5
<1>9. P(i) <= P(j)
  BY <1>7
<1>10. QED
  BY <1>8, <1>9

\* Everything picked is an element that was kept.
LEMMA PickedFound ==
  ASSUME NEW S, NEW s \in Seq(S), NEW kept, NEW m \in 1..Len(Picked(s, kept))
  PROVE  \E i \in 1..Len(s) : i \in kept /\ Place(s, kept, i) = m /\ Picked(s, kept)[m] = s[i]
<1> DEFINE n == Len(s)
           Found(k) == \A p \in 1..Place(s, kept, k) : \E i \in 1..n :
                         i \in kept /\ Place(s, kept, i) = p
           Q == {k \in Nat : k <= n => Found(k)}
<1>1. n \in Nat /\ SubSeq(s, 1, n) = s
  BY LenProperties, Beginnings
<1>2. 0 \in Q
  BY PlaceGrows
<1>3. ASSUME NEW k \in Nat, k \in Q PROVE k + 1 \in Q
  <2> SUFFICES ASSUME k + 1 <= n PROVE Found(k + 1)
    OBVIOUS
  <2>1. k + 1 \in 1..n /\ (k + 1) - 1 = k /\ k \in 0..n
    BY <1>1
  <2>2. PICK p, q : p = Place(s, kept, k) /\ q = Place(s, kept, k + 1)
    OBVIOUS
  <2>3. /\ p \in Nat
        /\ k + 1 \in kept => q = p + 1
        /\ k + 1 \notin kept => q = p
    BY <2>1, <2>2, PlaceGrows
  <2>4. \A r \in 1..p : \E i \in 1..n : i \in kept /\ Place(s, kept, i) = r
    BY <1>3, <2>1, <2>2
  <2>5. SUFFICES ASSUME NEW r \in 1..q
                 PROVE  \E i \in 1..n : i \in kept /\ Place(s, kept, i) = r
    BY <2>2
  <2>6. CASE r \in 1..p
    BY <2>4, <2>6
  <2>7. CASE r \notin 1..p
    <3>1. k + 1 \in kept /\ r = q
      BY <2>3, <2>5, <2>7
    <3>2. QED
      BY <2>1, <2>2, <3>1
  <2>8. QED
    BY <2>6, <2>7
<1> HIDE DEF Q
<1>4. Nat \subseteq Q
  BY <1>2, <1>3, NumbersReached
<1>5. Found(n)
  BY <1>1, <1>4 DEF Q
<1>6. Place(s, kept, n) = Len(Picked(s, kept))
  BY <1>1 DEF Place
<1>7. PICK i \in 1..n : i \in kept /\ Place(s, kept, i) = m
  BY <1>5, <1>6
<1>8. Picked(s, kept)[Place(s, kept, i)] = s[i]
  BY <1>7, PickedPlace
<1>9. QED
  BY <1>7, <1>8

-----------------------------------------------------------------------------
(* The newest elements of a set of positions *)

\* A set of numbers has a least.
LEMMA LeastNumber ==
  ASSUME NEW T \in SUBSET Nat, T # {}
  PROVE  \E m \in T : \A k \in T : m <= k
<1>1. IsWellFoundedOn(OpToRel(<, Nat), Nat)
  BY NatLessThanWellFounded
<1>2. \E x \in T : \A y \in T : <<y, x>> \notin OpToRel(<, Nat)
  BY <1>1, WFMin
<1>3. PICK x \in T : \A y \in T : ~(y < x)
  BY <1>2 DEF OpToRel
<1>4. QED
  BY <1>3

\* How many elements of a set come after a number.
After(S, i) == {j \in S : j > i}

\* What it is to be one of the newest.
LEMMA NewestIs ==
  ASSUME NEW S, NEW i
  PROVE  i \in Newest(S) <=> i \in S /\ Cardinality(After(S, i)) < Window
  BY DEF Newest, After

\* Fewer come after it in a smaller set.
LEMMA AfterFewer ==
  ASSUME NEW S, IsFiniteSet(S), NEW T, \A j \in T : j \in S, NEW i
  PROVE  /\ IsFiniteSet(After(S, i)) /\ Cardinality(After(S, i)) \in Nat
         /\ Cardinality(After(T, i)) \in Nat
         /\ Cardinality(After(T, i)) <= Cardinality(After(S, i))
<1>1. After(S, i) \subseteq S /\ After(T, i) \subseteq After(S, i)
  BY DEF After
<1>2. IsFiniteSet(After(S, i))
  BY <1>1, FS_Subset
<1>3. IsFiniteSet(After(T, i)) /\ Cardinality(After(T, i)) <= Cardinality(After(S, i))
  BY <1>1, <1>2, FS_Subset
<1>4. QED
  BY <1>2, <1>3, FS_CardinalityType

\* A set that has as many elements as are kept has as many newest ones.
LEMMA NewestMany ==
  ASSUME NEW S \in SUBSET Nat, IsFiniteSet(S), Cardinality(S) >= Window
  PROVE  Cardinality(Newest(S)) >= Window
<1> DEFINE W == Window
           Q == {n \in Nat : \A T \in SUBSET Nat : IsFiniteSet(T) /\ Cardinality(T) = W + n =>
                               Cardinality(Newest(T)) >= W}
<1>1. W \in Nat /\ W # 0
  BY CommandsAssumption
<1>2. 0 \in Q
  <2> SUFFICES ASSUME NEW T \in SUBSET Nat, IsFiniteSet(T), Cardinality(T) = W + 0
               PROVE  Cardinality(Newest(T)) >= W
    OBVIOUS
  <2>1. ASSUME NEW j \in T PROVE j \in Newest(T)
    <3>1. Cardinality(T \ {j}) = W - 1 /\ IsFiniteSet(T \ {j})
      <4>1. Cardinality(T \ {j}) = Cardinality(T) - 1 /\ IsFiniteSet(T \ {j})
        BY FS_RemoveElement
      <4>2. QED
        BY <1>1, <4>1
    <3>2. After(T, j) \subseteq T \ {j}
      BY <2>1 DEF After
    <3>3. Cardinality(After(T, j)) <= W - 1 /\ Cardinality(After(T, j)) \in Nat
      BY <3>1, <3>2, FS_Subset, FS_CardinalityType
    <3>4. QED
      BY <1>1, <2>1, <3>3, NewestIs
  <2>2. Newest(T) = T
    BY <2>1 DEF Newest
  <2>3. QED
    BY <1>1, <2>2
<1>3. ASSUME NEW n \in Nat, n \in Q PROVE n + 1 \in Q
  <2> SUFFICES ASSUME NEW T \in SUBSET Nat, IsFiniteSet(T), Cardinality(T) = W + (n + 1)
               PROVE  Cardinality(Newest(T)) >= W
    OBVIOUS
  <2>1. T # {}
    BY <1>1, FS_EmptySet
  <2>2. PICK m \in T : \A k \in T : m <= k
    BY <2>1, LeastNumber
  <2>3. PICK U : U = T \ {m}
    OBVIOUS
  <2>4. U \in SUBSET Nat /\ IsFiniteSet(U) /\ Cardinality(U) = W + n
    <3>1. Cardinality(U) = Cardinality(T) - 1 /\ IsFiniteSet(U)
      BY <2>3, FS_RemoveElement
    <3>2. QED
      BY <1>1, <2>3, <3>1
  <2>5. Cardinality(Newest(U)) >= W
    BY <1>3, <2>4
  <2>6. ASSUME NEW j \in Newest(U) PROVE j \in Newest(T)
    <3>1. j \in U /\ Cardinality(After(U, j)) < W
      BY <2>6, NewestIs
    <3>2. After(T, j) = After(U, j)
      BY <2>2, <2>3, <3>1 DEF After
    <3>3. QED
      BY <2>3, <3>1, <3>2, NewestIs
  <2>7. Newest(T) \subseteq T /\ Newest(U) \subseteq Newest(T)
    BY <2>6 DEF Newest
  <2>8. IsFiniteSet(Newest(T)) /\ Cardinality(Newest(U)) <= Cardinality(Newest(T))
    BY <2>7, FS_Subset
  <2>9. IsFiniteSet(Newest(U))
    BY <2>7, <2>8, FS_Subset
  <2>10. Cardinality(Newest(T)) \in Nat /\ Cardinality(Newest(U)) \in Nat
    BY <2>8, <2>9, FS_CardinalityType
  <2>11. QED
    BY <1>1, <2>5, <2>8, <2>10
<1> HIDE DEF Q
<1>4. Nat \subseteq Q
  BY <1>2, <1>3, NumbersReached
<1>5. Cardinality(S) \in Nat
  BY FS_CardinalityType
<1>6. PICK n \in Nat : Cardinality(S) = W + n
  <2>1. Cardinality(S) - W \in Nat /\ Cardinality(S) = W + (Cardinality(S) - W)
    BY <1>1, <1>5
  <2>2. QED
    BY <2>1
<1>7. n \in Q
  BY <1>4
<1>8. QED
  BY <1>6, <1>7 DEF Q

\* Dropping none of the newest leaves the newest.
LEMMA NewestLeft ==
  ASSUME NEW S \in SUBSET Nat, IsFiniteSet(S), NEW T \in SUBSET S, Newest(S) \subseteq T
  PROVE  Newest(T) = Newest(S)
<1>1. Window \in Nat
  BY CommandsAssumption
<1>2. ASSUME NEW i \in Newest(S) PROVE i \in Newest(T)
  <2>1. i \in T /\ Cardinality(After(S, i)) < Window
    BY <1>2, NewestIs
  <2>2. /\ Cardinality(After(S, i)) \in Nat /\ Cardinality(After(T, i)) \in Nat
        /\ Cardinality(After(T, i)) <= Cardinality(After(S, i))
    BY AfterFewer
  <2>3. Cardinality(After(T, i)) < Window
    BY <1>1, <2>1, <2>2
  <2>4. QED
    BY <2>1, <2>3, NewestIs
<1>3. ASSUME NEW i \in Newest(T) PROVE i \in Newest(S)
  <2>1. i \in T /\ i \in S /\ i \in Nat /\ Cardinality(After(T, i)) < Window
    BY <1>3, NewestIs
  <2>2. SUFFICES ASSUME ~(Cardinality(After(S, i)) < Window) PROVE FALSE
    BY <2>1, NewestIs
  <2>3. PICK X : X = After(S, i)
    OBVIOUS
  <2>4. IsFiniteSet(X) /\ Cardinality(X) \in Nat /\ X \in SUBSET Nat
    <3>1. X \subseteq S
      BY <2>3 DEF After
    <3>2. QED
      BY <3>1, FS_Subset, FS_CardinalityType
  <2>5. Cardinality(Newest(X)) >= Window
    <3>1. Cardinality(X) >= Window
      BY <1>1, <2>2, <2>3, <2>4
    <3>2. QED
      BY <2>4, <3>1, NewestMany
  <2>6. ASSUME NEW j \in Newest(X) PROVE j \in After(T, i)
    <3>1. j \in X /\ Cardinality(After(X, j)) < Window
      BY <2>6, NewestIs
    <3>2. j \in S /\ j > i /\ j \in Nat
      BY <2>3, <3>1 DEF After
    <3>3. After(X, j) = After(S, j)
      <4>1. \A l \in S : l \in Nat
        OBVIOUS
      <4>2. \A l \in S : l > j => l > i
        BY <2>1, <3>2, <4>1
      <4>3. QED
        BY <2>3, <4>2 DEF After
    <3>4. j \in Newest(S)
      BY <3>1, <3>2, <3>3, NewestIs
    <3>5. QED
      BY <3>2, <3>4 DEF After
  <2>7. IsFiniteSet(After(T, i)) /\ Cardinality(After(T, i)) \in Nat
    <3>1. After(T, i) \subseteq S
      BY DEF After
    <3>2. QED
      BY <3>1, FS_Subset, FS_CardinalityType
  <2>8. Newest(X) \subseteq After(T, i)
    BY <2>6
  <2>9. IsFiniteSet(Newest(X)) /\ Cardinality(Newest(X)) <= Cardinality(After(T, i))
    BY <2>7, <2>8, FS_Subset
  <2>10. Cardinality(Newest(X)) \in Nat
    BY <2>9, FS_CardinalityType
  <2>11. QED
    BY <1>1, <2>1, <2>5, <2>7, <2>9, <2>10
<1>4. QED
  BY <1>2, <1>3

\* The newest of more are among the newest of fewer.
LEMMA NewestFewer ==
  ASSUME NEW S, IsFiniteSet(S), NEW T \in SUBSET S, NEW i \in Newest(S), i \in T
  PROVE  i \in Newest(T)
<1>1. Window \in Nat /\ Cardinality(After(S, i)) < Window
  BY CommandsAssumption, NewestIs
<1>2. /\ Cardinality(After(S, i)) \in Nat /\ Cardinality(After(T, i)) \in Nat
      /\ Cardinality(After(T, i)) <= Cardinality(After(S, i))
  BY AfterFewer
<1>3. Cardinality(After(T, i)) < Window
  BY <1>1, <1>2
<1>4. QED
  BY <1>3, NewestIs

\* What comes after one of the newest is one of them.
LEMMA NewestUp ==
  ASSUME NEW S \in SUBSET Nat, IsFiniteSet(S), NEW i \in Newest(S), NEW j \in S, j > i
  PROVE  j \in Newest(S)
<1>1. Window \in Nat /\ Cardinality(After(S, i)) < Window /\ i \in S
  BY CommandsAssumption, NewestIs
<1>2. After(S, j) \subseteq After(S, i)
  <2>1. i \in Nat /\ j \in Nat /\ \A l \in S : l \in Nat
    BY <1>1
  <2>2. \A l \in S : l > j => l > i
    BY <2>1
  <2>3. QED
    BY <2>2 DEF After
<1>3. IsFiniteSet(After(S, i))
  <2>1. After(S, i) \subseteq S
    BY DEF After
  <2>2. QED
    BY <2>1, FS_Subset
<1>4. IsFiniteSet(After(S, j)) /\ Cardinality(After(S, j)) <= Cardinality(After(S, i))
  BY <1>2, <1>3, FS_Subset
<1>5. Cardinality(After(S, j)) \in Nat /\ Cardinality(After(S, i)) \in Nat
  BY <1>3, <1>4, FS_CardinalityType
<1>6. Cardinality(After(S, j)) < Window
  BY <1>1, <1>4, <1>5
<1>7. QED
  BY <1>6, NewestIs

\* Of the first numbers, the newest are the last.
LEMMA NewestNumbers ==
  ASSUME NEW n \in Nat
  PROVE  Newest(1..n) = {i \in 1..n : i > n - Window}
<1>1. Window \in Nat
  BY CommandsAssumption
<1>2. ASSUME NEW i \in 1..n PROVE Cardinality(After(1..n, i)) = n - i
  <2>1. After(1..n, i) = (i + 1)..n
    BY DEF After
  <2>2. Cardinality((i + 1)..n) = IF i + 1 > n THEN 0 ELSE n - (i + 1) + 1
    BY FS_Interval
  <2>3. QED
    BY <2>1, <2>2
<1>3. ASSUME NEW i \in 1..n PROVE i \in Newest(1..n) <=> i > n - Window
  <2>1. i \in Newest(1..n) <=> Cardinality(After(1..n, i)) < Window
    BY NewestIs
  <2>2. QED
    BY <1>1, <1>2, <2>1
<1>4. Newest(1..n) \subseteq 1..n
  BY DEF Newest
<1>5. QED
  BY <1>3, <1>4

-----------------------------------------------------------------------------
(* Picking the newest of what was picked *)

\* Picking from what was picked.
LEMMA PickedPicked ==
  ASSUME NEW S, NEW s \in Seq(S), NEW kept, NEW again, NEW both,
         \A i \in 1..Len(s) : i \in both <=> i \in kept /\ Place(s, kept, i) \in again
  PROVE  Picked(Picked(s, kept), again) = Picked(s, both)
<1> DEFINE n == Len(s)
           At(k) == Picked(SubSeq(s, 1, k), kept)
           Both(k) == Picked(SubSeq(s, 1, k), both)
           Q == {k \in Nat : k <= n => Picked(At(k), again) = Both(k)}
<1>1. n \in Nat /\ SubSeq(s, 1, n) = s
  BY LenProperties, Beginnings
<1>2. 0 \in Q
  <2>1. At(0) = <<>> /\ Both(0) = <<>>
    BY PickedGrow
  <2>2. QED
    BY <2>1, PickedEmpty
<1>3. ASSUME NEW k \in Nat, k \in Q PROVE k + 1 \in Q
  <2> SUFFICES ASSUME k + 1 <= n PROVE Picked(At(k + 1), again) = Both(k + 1)
    OBVIOUS
  <2>1. k + 1 \in 1..n /\ (k + 1) - 1 = k /\ k \in 0..n
    BY <1>1
  <2>2. PICK p, b, x : p = At(k) /\ b = Both(k) /\ x = s[k + 1]
    OBVIOUS
  <2>3. p \in Seq(S) /\ x \in S /\ Picked(p, again) = b
    <3>1. p \in Seq(S)
      BY <2>1, <2>2, PickedGrow
    <3>2. x \in S
      BY <2>1, <2>2, ElementOfSeq
    <3>3. QED
      BY <1>3, <2>1, <2>2, <3>1, <3>2
  <2>4. /\ k + 1 \in kept => At(k + 1) = Append(At((k + 1) - 1), s[k + 1])
        /\ k + 1 \notin kept => At(k + 1) = At((k + 1) - 1)
    <3>1. \A l \in 1..Len(s) :
            /\ l \in kept => At(l) = Append(At(l - 1), s[l])
            /\ l \notin kept => At(l) = At(l - 1)
      BY PickedGrow
    <3> HIDE DEF At
    <3>2. QED
      BY <2>1, <3>1
  <2>5. /\ k + 1 \in both => Both(k + 1) = Append(Both((k + 1) - 1), s[k + 1])
        /\ k + 1 \notin both => Both(k + 1) = Both((k + 1) - 1)
    BY <2>1, PickedGrow
  <2>6. CASE k + 1 \in kept
    <3>1. At(k + 1) = Append(p, x)
      BY <2>1, <2>2, <2>4, <2>6
    <3>2. Place(s, kept, k + 1) = Len(p) + 1
      <4>1. Len(Append(p, x)) = Len(p) + 1
        BY <2>3, AppendProperties
      <4>2. QED
        BY <3>1, <4>1 DEF Place
    <3>3. Picked(Append(p, x), again) =
            IF Len(p) + 1 \in again THEN Append(Picked(p, again), x) ELSE Picked(p, again)
      BY <2>3, PickedAppend
    <3>4. k + 1 \in both <=> Len(p) + 1 \in again
      BY <2>1, <2>6, <3>2
    <3>5. Both(k + 1) = IF Len(p) + 1 \in again THEN Append(b, x) ELSE b
      BY <2>1, <2>2, <2>5, <3>4
    <3> HIDE DEF At, Both
    <3>6. Picked(Append(p, x), again) = IF Len(p) + 1 \in again THEN Append(b, x) ELSE b
      BY <2>3, <3>3, Zenon
    <3>7. QED
      BY <3>1, <3>5, <3>6, Zenon
  <2>7. CASE k + 1 \notin kept
    <3>1. k + 1 \notin both
      <4>1. k + 1 \in 1..Len(s)
        BY <2>1
      <4>2. QED
        BY <2>7, <4>1, Zenon
    <3>2. At(k + 1) = p /\ Both(k + 1) = b
      BY <2>1, <2>2, <2>4, <2>5, <2>7, <3>1
    <3> HIDE DEF At, Both
    <3>3. QED
      BY <2>3, <3>2
  <2>8. QED
    BY <2>6, <2>7
<1> HIDE DEF Q
<1>4. Nat \subseteq Q
  BY <1>2, <1>3, NumbersReached
<1>5. Picked(At(n), again) = Both(n)
  BY <1>1, <1>4 DEF Q
<1>6. QED
  BY <1>1, <1>5

\* What is picked of two sequences at the same places.
LEMMA PickedAlike ==
  ASSUME NEW S, NEW s \in Seq(S), NEW U, NEW t \in Seq(U), Len(s) = Len(t), NEW kept
  PROVE  /\ Len(Picked(s, kept)) = Len(Picked(t, kept))
         /\ \A m \in 1..Len(Picked(s, kept)) : \E i \in 1..Len(s) :
              /\ i \in kept /\ Place(s, kept, i) = m
              /\ Picked(s, kept)[m] = s[i] /\ Picked(t, kept)[m] = t[i]
<1> DEFINE n == Len(s)
           Q == {k \in Nat : k <= n => Place(s, kept, k) = Place(t, kept, k)}
<1>1. n \in Nat /\ SubSeq(s, 1, n) = s /\ SubSeq(t, 1, n) = t
  BY LenProperties, Beginnings
<1>2. 0 \in Q
  BY PlaceGrows
<1>3. ASSUME NEW k \in Nat, k \in Q PROVE k + 1 \in Q
  <2> SUFFICES ASSUME k + 1 <= n PROVE Place(s, kept, k + 1) = Place(t, kept, k + 1)
    OBVIOUS
  <2>1. k + 1 \in 1..n /\ (k + 1) - 1 = k
    BY <1>1
  <2>2. /\ k + 1 \in kept => Place(s, kept, k + 1) = Place(s, kept, (k + 1) - 1) + 1
        /\ k + 1 \notin kept => Place(s, kept, k + 1) = Place(s, kept, (k + 1) - 1)
    BY <2>1, PlaceGrows, Zenon
  <2>3. /\ k + 1 \in kept => Place(t, kept, k + 1) = Place(t, kept, (k + 1) - 1) + 1
        /\ k + 1 \notin kept => Place(t, kept, k + 1) = Place(t, kept, (k + 1) - 1)
    <3>1. k + 1 \in 1..Len(t)
      BY <2>1
    <3>2. QED
      BY <3>1, PlaceGrows, Zenon
  <2>4. Place(s, kept, k) = Place(t, kept, k)
    BY <1>1, <1>3, <2>1
  <2>5. QED
    BY <2>1, <2>2, <2>3, <2>4
<1> HIDE DEF Q
<1>4. Nat \subseteq Q
  BY <1>2, <1>3, NumbersReached
<1>5. \A k \in 0..n : Place(s, kept, k) = Place(t, kept, k)
  BY <1>1, <1>4 DEF Q
<1>6. Len(Picked(s, kept)) = Len(Picked(t, kept))
  <2>1. n \in 0..n
    BY <1>1
  <2>2. Place(s, kept, n) = Place(t, kept, n)
    BY <1>5, <2>1
  <2>3. QED
    BY <1>1, <2>2 DEF Place
<1>7. ASSUME NEW m \in 1..Len(Picked(s, kept))
      PROVE  \E i \in 1..Len(s) : /\ i \in kept /\ Place(s, kept, i) = m
               /\ Picked(s, kept)[m] = s[i] /\ Picked(t, kept)[m] = t[i]
  <2>1. PICK i \in 1..n : i \in kept /\ Place(s, kept, i) = m /\ Picked(s, kept)[m] = s[i]
    BY PickedFound
  <2>2. i \in 1..Len(t) /\ i \in 0..n
    BY <1>1
  <2>3. Picked(t, kept)[Place(t, kept, i)] = t[i]
    BY <2>1, <2>2, PickedPlace
  <2>4. Place(t, kept, i) = m
    BY <1>5, <2>1, <2>2
  <2>5. QED
    BY <2>1, <2>3, <2>4
<1>8. QED
  BY <1>6, <1>7

\* An order is all that being one of the newest depends on.
LEMMA NewestOrdered ==
  ASSUME NEW A \in SUBSET Nat, IsFiniteSet(A), NEW p, \A i \in A : p[i] \in Nat,
         \A i, j \in A : i < j => p[i] < p[j], NEW B, B = {p[i] : i \in A}, NEW i \in A
  PROVE  p[i] \in Newest(B) <=> i \in Newest(A)
<1> DEFINE X == After(A, i)
           Y == After(B, p[i])
           f == [j \in X |-> p[j]]
<1>1. \A j \in A : j \in Nat
  OBVIOUS
<1>2. \A j \in A : j > i => p[j] > p[i]
  BY <1>1
<1>3. \A j \in A : p[j] > p[i] => j > i
  <2> SUFFICES ASSUME NEW j \in A, p[j] > p[i], ~(j > i) PROVE FALSE
    OBVIOUS
  <2>1. j = i \/ j < i
    BY <1>1
  <2>2. p[j] = p[i] \/ p[j] < p[i]
    BY <2>1
  <2>3. p[j] \in Nat /\ p[i] \in Nat
    OBVIOUS
  <2>4. QED
    BY <2>2, <2>3
<1>4. f \in [X -> Y]
  BY <1>2 DEF After
<1>5. \A a, b \in X : f[a] = f[b] => a = b
  <2> SUFFICES ASSUME NEW a \in X, NEW b \in X, p[a] = p[b], a # b PROVE FALSE
    OBVIOUS
  <2>1. a \in A /\ b \in A
    BY DEF After
  <2>2. a < b \/ b < a
    BY <1>1, <2>1
  <2>3. p[a] < p[b] \/ p[b] < p[a]
    BY <2>1, <2>2
  <2>4. p[a] \in Nat /\ p[b] \in Nat
    BY <2>1
  <2>5. QED
    BY <2>3, <2>4
<1>6. \A y \in Y : \E j \in X : f[j] = y
  <2> SUFFICES ASSUME NEW y \in Y PROVE \E j \in X : f[j] = y
    OBVIOUS
  <2>1. y \in B /\ y > p[i]
    BY DEF After
  <2>2. PICK j \in A : y = p[j]
    BY <2>1
  <2>3. j \in X
    BY <1>3, <2>1, <2>2 DEF After
  <2>4. QED
    BY <2>2, <2>3
<1>7. IsFiniteSet(X)
  <2>1. X \subseteq A
    BY DEF After
  <2>2. QED
    BY <2>1, FS_Subset
<1> HIDE DEF X, Y, f
<1>8. f \in Bijection(X, Y)
  BY <1>4, <1>5, <1>6 DEF Bijection, Injection, Surjection, IsInjective
<1>9. Cardinality(Y) = Cardinality(X)
  BY <1>7, <1>8, FS_Bijection DEF ExistsBijection
<1>10. p[i] \in B
  OBVIOUS
<1>11. QED
  BY <1>9, <1>10, NewestIs DEF X, Y

\* The newest of some positions, in what is picked, if it holds all of these.
LEMMA NewestPicked ==
  ASSUME NEW S, NEW s \in Seq(S), NEW kept, NEW P \in SUBSET (1..Len(s)),
         Newest(P) \subseteq kept, NEW B, B = {Place(s, kept, j) : j \in P \cap kept},
         NEW i \in P \cap kept
  PROVE  Place(s, kept, i) \in Newest(B) <=> i \in Newest(P)
<1>1. Len(s) \in Nat
  BY LenProperties
<1>2. P \in SUBSET Nat /\ IsFiniteSet(P)
  <2>1. IsFiniteSet(1..Len(s))
    BY <1>1, FS_Interval
  <2>2. IsFiniteSet(P)
    BY <2>1, FS_Subset
  <2>3. QED
    BY <1>1, <2>2
<1>3. PICK A : A = P \cap kept
  OBVIOUS
<1>4. A \in SUBSET P /\ A \in SUBSET Nat /\ IsFiniteSet(A) /\ i \in A
  <2>1. A \subseteq P
    BY <1>3
  <2>2. QED
    BY <1>2, <1>3, <2>1, FS_Subset
<1>5. Newest(P) \subseteq A
  BY <1>3 DEF Newest
<1>6. Newest(A) = Newest(P)
  BY <1>2, <1>4, <1>5, NewestLeft
<1>7. PICK p : p = [j \in A |-> Place(s, kept, j)]
  OBVIOUS
<1>8. \A j \in A : j \in 0..Len(s) /\ j \in kept /\ p[j] = Place(s, kept, j)
  <2>1. \A j \in A : j \in 1..Len(s) /\ j \in kept
    BY <1>3
  <2>2. \A j \in 1..Len(s) : j \in 0..Len(s)
    BY <1>1
  <2>3. QED
    BY <1>7, <2>1, <2>2
<1>9. \A j \in A : p[j] \in Nat
  <2>1. \A j \in 0..Len(s) : Place(s, kept, j) \in Nat
    BY PlaceGrows
  <2>2. QED
    BY <1>8, <2>1
<1>10. ASSUME NEW j \in A, NEW l \in A, j < l PROVE p[j] < p[l]
  <2>1. j \in 0..Len(s) /\ l \in 0..Len(s) /\ l \in kept /\ j <= l
    BY <1>1, <1>8, <1>10
  <2>2. Place(s, kept, j) < Place(s, kept, l)
    BY <1>10, <2>1, PlacesIncrease
  <2>3. QED
    BY <1>8, <2>2
<1>11. B = {p[j] : j \in A}
  BY <1>3, <1>8
<1>12. p[i] \in Newest(B) <=> i \in Newest(A)
  BY <1>4, <1>9, <1>10, <1>11, NewestOrdered
<1>13. QED
  BY <1>4, <1>6, <1>8, <1>12

\* What is kept of a sequence and kept again.
LEMMA KeptAgain ==
  ASSUME NEW S, NEW s \in Seq(S), NEW kept, Kept(s) \subseteq kept
  PROVE  Picked(Picked(s, kept), Kept(Picked(s, kept))) = Picked(s, Kept(s))
<1>1. PICK x : x = Picked(s, kept)
  OBVIOUS
<1>2. x \in Seq(S) /\ DOMAIN x = 1..Len(x) /\ DOMAIN s = 1..Len(s) /\ Len(s) \in Nat
  BY <1>1, PickedType, LenProperties
<1>3. Kept(s) = Newest(1..Len(s)) \cup Newest(SelectableAt(s))
  BY <1>2 DEF Kept
<1>4. Kept(x) = Newest(1..Len(x)) \cup Newest(SelectableAt(x))
  BY <1>2 DEF Kept
<1>5. \A i \in 1..Len(s) : i \in kept => Place(s, kept, i) \in 1..Len(x)
                                         /\ x[Place(s, kept, i)] = s[i]
  BY <1>1, PickedPlace, Zenon
<1>6. \A m \in 1..Len(x) : \E i \in 1..Len(s) : i \in kept /\ Place(s, kept, i) = m /\ x[m] = s[i]
  BY <1>1, PickedFound
<1>7. 1..Len(x) = {Place(s, kept, j) : j \in (1..Len(s)) \cap kept}
  BY <1>5, <1>6
<1>8. SelectableAt(s) = {i \in 1..Len(s) : s[i].selectable}
  BY <1>2 DEF SelectableAt
<1>9. SelectableAt(x) = {Place(s, kept, j) : j \in SelectableAt(s) \cap kept}
  <2>1. SelectableAt(x) = {m \in 1..Len(x) : x[m].selectable}
    BY <1>2 DEF SelectableAt
  <2>2. ASSUME NEW m \in SelectableAt(x)
        PROVE  m \in {Place(s, kept, j) : j \in SelectableAt(s) \cap kept}
    <3>1. m \in 1..Len(x) /\ x[m].selectable
      BY <2>1, <2>2
    <3>2. PICK i \in 1..Len(s) : i \in kept /\ Place(s, kept, i) = m /\ x[m] = s[i]
      BY <1>6, <3>1
    <3>3. i \in SelectableAt(s) \cap kept
      BY <1>8, <3>1, <3>2
    <3>4. QED
      BY <3>2, <3>3
  <2>3. ASSUME NEW j \in SelectableAt(s) \cap kept
        PROVE  Place(s, kept, j) \in SelectableAt(x)
    BY <1>5, <1>8, <2>1, <2>3
  <2>4. QED
    BY <2>2, <2>3
<1>10. ASSUME NEW i \in 1..Len(s)
       PROVE  i \in Kept(s) <=> i \in kept /\ Place(s, kept, i) \in Kept(x)
  <2>1. CASE i \notin kept
    BY <2>1
  <2>2. CASE i \in kept
    <3>1. Place(s, kept, i) \in Newest(1..Len(x)) <=> i \in Newest(1..Len(s))
      <4>1. PICK P, B : P = 1..Len(s) /\ B = 1..Len(x)
        OBVIOUS
      <4>2. P \in SUBSET (1..Len(s)) /\ i \in P \cap kept
        BY <2>2, <4>1
      <4>3. Newest(P) \subseteq kept /\ B = {Place(s, kept, j) : j \in P \cap kept}
        BY <1>3, <1>7, <4>1
      <4>4. Place(s, kept, i) \in Newest(B) <=> i \in Newest(P)
        BY <4>2, <4>3, NewestPicked
      <4>5. QED
        BY <4>1, <4>4
    <3>2. CASE i \in SelectableAt(s)
      <4>1. SelectableAt(s) \in SUBSET (1..Len(s))
        BY <1>8
      <4>2. Place(s, kept, i) \in Newest(SelectableAt(x)) <=> i \in Newest(SelectableAt(s))
        BY <1>3, <1>9, <2>2, <3>2, <4>1, NewestPicked
      <4>3. QED
        BY <1>3, <1>4, <2>2, <3>1, <4>2
    <3>3. CASE i \notin SelectableAt(s)
      <4>1. Place(s, kept, i) \notin SelectableAt(x)
        BY <1>5, <1>8, <2>2, <3>3 DEF SelectableAt
      <4>2. i \notin Newest(SelectableAt(s)) /\ Place(s, kept, i) \notin Newest(SelectableAt(x))
        BY <3>3, <4>1 DEF Newest
      <4>3. QED
        BY <1>3, <1>4, <2>2, <3>1, <4>2
    <3>4. QED
      BY <3>2, <3>3
  <2>3. QED
    BY <2>1, <2>2
<1>11. Picked(x, Kept(x)) = Picked(s, Kept(s))
  BY <1>1, <1>10, PickedPicked
<1>12. QED
  BY <1>1, <1>11

\* Keeping one at a time is as good as keeping at the end.
LEMMA KeptGrows ==
  ASSUME NEW S, NEW s \in Seq(S), NEW x \in S
  PROVE  LET t == Append(s, x)
             u == Append(Picked(s, Kept(s)), x)
         IN  Picked(u, Kept(u)) = Picked(t, Kept(t))
<1>1. PICK n, t, u : n = Len(s) /\ t = Append(s, x) /\ u = Append(Picked(s, Kept(s)), x)
  OBVIOUS
<1>2. /\ t \in Seq(S) /\ Len(t) = n + 1 /\ n \in Nat /\ \A i \in 1..n : t[i] = s[i]
      /\ DOMAIN s = 1..n /\ DOMAIN t = 1..(n + 1)
  BY <1>1, AppendProperties, LenProperties
<1>3. PICK kept : kept = Kept(s) \cup {n + 1}
  OBVIOUS
<1>4. u = Picked(t, kept)
  <2>1. \A i \in 1..n : i \in Kept(s) <=> i \in kept
    <3>1. \A i \in 1..n : i # n + 1
      BY <1>2
    <3>2. QED
      BY <1>3, <3>1
  <2>2. Picked(s, Kept(s)) = Picked(s, kept)
    BY <1>1, <2>1, PickedSame
  <2>3. Picked(t, kept) = IF n + 1 \in kept THEN Append(Picked(s, kept), x) ELSE Picked(s, kept)
    BY <1>1, PickedAppend
  <2>4. n + 1 \in kept
    BY <1>3
  <2>5. QED
    BY <1>1, <2>2, <2>3, <2>4
<1>5. ASSUME NEW P \in SUBSET Nat, IsFiniteSet(P), NEW i \in Newest(P), i # n + 1,
             NEW R, R = P \ {n + 1}
      PROVE  i \in Newest(R)
  <2>1. R \in SUBSET P /\ i \in R
    BY <1>5 DEF Newest
  <2>2. QED
    BY <1>5, <2>1, NewestFewer
<1>6. IsFiniteSet(1..(n + 1))
  BY <1>2, FS_Interval
<1>7. ASSUME NEW i \in Kept(t), i # n + 1 PROVE i \in Kept(s)
  <2>1. CASE i \in Newest(1..(n + 1))
    <3>1. 1..n = (1..(n + 1)) \ {n + 1} /\ 1..(n + 1) \in SUBSET Nat
      BY <1>2
    <3>2. i \in Newest(1..n)
      BY <1>5, <1>6, <1>7, <2>1, <3>1
    <3>3. QED
      BY <1>2, <3>2 DEF Kept
  <2>2. CASE i \in Newest(SelectableAt(t))
    <3>1. SelectableAt(t) = {j \in 1..(n + 1) : t[j].selectable}
          /\ SelectableAt(s) = {j \in 1..n : s[j].selectable}
      BY <1>2 DEF SelectableAt
    <3>2. \A j \in 1..(n + 1) : j # n + 1 <=> j \in 1..n
      BY <1>2
    <3>3. SelectableAt(s) = SelectableAt(t) \ {n + 1}
      BY <1>2, <3>1, <3>2
    <3>4. SelectableAt(t) \in SUBSET Nat /\ IsFiniteSet(SelectableAt(t))
      <4>1. SelectableAt(t) \subseteq 1..(n + 1)
        BY <3>1
      <4>2. QED
        BY <1>2, <1>6, <4>1, FS_Subset
    <3>5. i \in Newest(SelectableAt(s))
      BY <1>5, <1>7, <2>2, <3>3, <3>4
    <3>6. QED
      BY <3>5 DEF Kept
  <2>3. QED
    BY <1>2, <1>7, <2>1, <2>2 DEF Kept
<1>8. Kept(t) \subseteq kept
  BY <1>3, <1>7
<1>9. Picked(u, Kept(u)) = Picked(t, Kept(t))
  BY <1>2, <1>4, <1>8, KeptAgain
<1>10. QED
  BY <1>1, <1>9

\* Boundaries are retained by the same rule.
LEMMA RetainIs ==
  ASSUME NEW S, NEW s \in Seq(S)
  PROVE  Retain(s) = Picked(s, Kept(s))
<1>1. DOMAIN s = 1..Len(s) /\ Len(s) \in Nat
  BY LenProperties
<1> DEFINE R == {i \in DOMAIN s :
                  \/ i > Len(s) - Window
                  \/ /\ i \in SelectableAt(s)
                     /\ Cardinality({j \in SelectableAt(s) : j > i}) < Window}
<1>2. Retain(s) = Picked(s, R)
  BY DEF Retain
<1>3. ASSUME NEW i \in 1..Len(s) PROVE i \in R <=> i \in Kept(s)
  <2>1. i \in Newest(1..Len(s)) <=> i > Len(s) - Window
    BY <1>1, NewestNumbers
  <2>2. i \in Newest(SelectableAt(s)) <=>
          i \in SelectableAt(s) /\ Cardinality({j \in SelectableAt(s) : j > i}) < Window
    BY DEF Newest
  <2>3. i \in R <=> \/ i > Len(s) - Window
                    \/ /\ i \in SelectableAt(s)
                       /\ Cardinality({j \in SelectableAt(s) : j > i}) < Window
    BY <1>1
  <2> HIDE DEF R
  <2>4. QED
    BY <1>1, <2>1, <2>2, <2>3 DEF Kept
<1> HIDE DEF R
<1>4. QED
  BY <1>2, <1>3, PickedSame

-----------------------------------------------------------------------------
(* The engine that ran a history *)

\* The engine after each record.
Runs(f, h) == f[0] = Fresh /\ \A i \in 1..Len(h) : f[i] = Committed(f[i - 1], h[i])

\* A history has such a function.
LEMMA RunsExist ==
  ASSUME NEW S, NEW h \in Seq(S)
  PROVE  \E f : f = [i \in 0..Len(h) |-> IF i = 0 THEN Fresh ELSE Committed(f[i - 1], h[i])]
<1> DEFINE Upto(k, f) == f = [i \in 0..k |-> IF i = 0 THEN Fresh ELSE Committed(f[i - 1], h[i])]
           P == {k \in Nat : \E f : Upto(k, f)}
<1>1. 0 \in P
  <2> DEFINE f == [i \in 0..0 |-> Fresh]
  <2>1. Upto(0, f)
    OBVIOUS
  <2>2. QED
    BY <2>1
<1>2. ASSUME NEW k \in Nat, k \in P PROVE k + 1 \in P
  <2>1. PICK f : Upto(k, f)
    BY <1>2
  <2> DEFINE last == Committed(f[k], h[k + 1])
             g == [i \in 0..(k + 1) |-> IF i = k + 1 THEN last ELSE f[i]]
  <2>2. ASSUME NEW i \in 0..(k + 1)
        PROVE  g[i] = IF i = 0 THEN Fresh ELSE Committed(g[i - 1], h[i])
    <3>1. CASE i = k + 1
      <4>1. i # 0 /\ i - 1 = k /\ k # k + 1 /\ k \in 0..(k + 1)
        BY <3>1
      <4>2. g[i] = last /\ g[i - 1] = f[k]
        BY <3>1, <4>1
      <4>3. QED
        BY <3>1, <4>1, <4>2
    <3>2. CASE i # k + 1
      <4>1. i \in 0..k /\ (i # 0 => i - 1 \in 0..(k + 1) /\ i - 1 # k + 1)
        BY <3>2
      <4>2. g[i] = f[i] /\ (i # 0 => g[i - 1] = f[i - 1])
        BY <3>2, <4>1
      <4>3. f[i] = IF i = 0 THEN Fresh ELSE Committed(f[i - 1], h[i])
        BY <2>1, <4>1
      <4>4. QED
        BY <4>2, <4>3
    <3>3. QED
      BY <3>1, <3>2
  <2> HIDE DEF last
  <2>3. Upto(k + 1, g)
    BY <2>2
  <2> HIDE DEF g, Upto
  <2>4. QED
    BY <2>3
<1> HIDE DEF P
<1>3. Nat \subseteq P
  BY <1>1, <1>2, NumbersReached
<1>4. QED
  BY <1>3, LenProperties DEF P

\* The engine that ran a history is what that function ends with.
LEMMA RanIs ==
  ASSUME NEW S, NEW h \in Seq(S)
  PROVE  /\ \E f : Runs(f, h)
         /\ \A f : Runs(f, h) => Ran(h) = f[Len(h)]
<1> DEFINE n == Len(h)
           Built(f) == f = [i \in 0..n |-> IF i = 0 THEN Fresh ELSE Committed(f[i - 1], h[i])]
<1>1. n \in Nat
  BY LenProperties
<1>2. \E f : Built(f)
  BY RunsExist
<1> DEFINE g == CHOOSE f : Built(f)
<1>3. Built(g)
  BY <1>2
<1>4. Ran(h) = g[n]
  BY DEF Ran
<1> HIDE DEF g
<1>5. Runs(g, h)
  <2>1. g[0] = Fresh
    BY <1>1, <1>3
  <2>2. ASSUME NEW i \in 1..n PROVE g[i] = Committed(g[i - 1], h[i])
    <3>1. i \in 0..n /\ i # 0
      BY <1>1
    <3>2. QED
      BY <1>3, <3>1
  <2>3. QED
    BY <2>1, <2>2 DEF Runs
<1>6. ASSUME NEW f, Runs(f, h) PROVE Ran(h) = f[n]
  <2> DEFINE Q == {i \in Nat : i <= n => f[i] = g[i]}
  <2>1. 0 \in Q
    BY <1>5, <1>6 DEF Runs
  <2>2. ASSUME NEW i \in Nat, i \in Q PROVE i + 1 \in Q
    <3> SUFFICES ASSUME i + 1 <= n PROVE f[i + 1] = g[i + 1]
      OBVIOUS
    <3>1. i + 1 \in 1..n /\ (i + 1) - 1 = i /\ f[i] = g[i]
      BY <1>1, <2>2
    <3>2. QED
      BY <1>5, <1>6, <3>1 DEF Runs
  <2> HIDE DEF Q
  <2>3. Nat \subseteq Q
    BY <2>1, <2>2, NumbersReached
  <2>4. QED
    BY <1>1, <1>4, <2>3 DEF Q
<1>7. QED
  BY <1>5, <1>6

\* No history leads to a fresh engine, and one record more commits it.
LEMMA RanStep ==
  ASSUME NEW S, NEW h \in Seq(S)
  PROVE  /\ Ran(<<>>) = Fresh
         /\ \A x \in S : Ran(Append(h, x)) = Committed(Ran(h), x)
<1>1. Ran(<<>>) = Fresh
  <2>1. <<>> \in Seq(S) /\ Len(<<>>) = 0
    BY EmptySeq
  <2>2. PICK f : Runs(f, <<>>) /\ Ran(<<>>) = f[0]
    BY <2>1, RanIs
  <2>3. QED
    BY <2>2 DEF Runs
<1>2. ASSUME NEW x \in S PROVE Ran(Append(h, x)) = Committed(Ran(h), x)
  <2> DEFINE t == Append(h, x)
             n == Len(h)
  <2>1. /\ t \in Seq(S) /\ Len(t) = n + 1 /\ t[n + 1] = x
        /\ n \in Nat /\ \A i \in 1..n : t[i] = h[i]
    BY AppendProperties, LenProperties
  <2> HIDE DEF t
  <2>2. PICK f : Runs(f, t) /\ Ran(t) = f[n + 1]
    BY <2>1, RanIs
  <2>3. \A i \in 1..n : i \in 1..(n + 1)
    BY <2>1
  <2>4. n + 1 \in 1..(n + 1) /\ (n + 1) - 1 = n
    BY <2>1
  <2>5. Runs(f, h)
    BY <2>1, <2>2, <2>3 DEF Runs
  <2>6. Ran(h) = f[n]
    BY <2>5, RanIs
  <2>7. f[n + 1] = Committed(f[n], x)
    BY <2>1, <2>2, <2>4 DEF Runs
  <2>8. QED
    BY <2>2, <2>6, <2>7 DEF t
<1>3. QED
  BY <1>1, <1>2

\* What is retained is some of the boundaries.
LEMMA RetainType ==
  ASSUME NEW bs \in Seq(Bounds)
  PROVE  Retain(bs) \in Seq(Bounds)
  BY PickedType DEF Retain

\* A fresh engine.
LEMMA FreshType == Fresh \in Engines /\ Fresh.valid /\ Fresh.count = 0
                   /\ ~Fresh.marked /\ ~Fresh.enabled
<1>1. <<[id |-> None, selectable |-> TRUE, game |-> {}]>> \in Seq(Bounds)
  BY DEF Bounds, Branches, Games
<1>2. QED
  BY <1>1 DEF Fresh, Engines, Branches, Games

\* What a record does, field by field.
LEMMA CommittedFields ==
  ASSUME NEW e \in Engines, NEW c, c.kind \in Kinds, c.id \in Ids,
         c.by \in Requests \cup {None}, c.kind = "rewind" => Restores(e, c.target) # {}
  PROVE  LET d == Committed(e, c)
         IN  /\ d \in Engines /\ d.valid = e.valid /\ d.count = e.count + 1
             /\ d.branch = IF c.kind = "rewind" THEN c.id ELSE e.branch
             /\ d.game = GameAfter(e, c) /\ GameAfter(e, c) \in Games
             /\ d.boundaries = IF c.kind = "note" THEN e.boundaries
                  ELSE Retain(Append(e.boundaries,
                         [id |-> c.id, selectable |-> c.kind \notin Private,
                          game |-> GameAfter(e, c)]))
             /\ \A r \in Requests : d.receipts[r] = IF r = c.by THEN e.count + 1
                                                    ELSE e.receipts[r]
             /\ d.marked = e.marked /\ d.enabled = e.enabled
<1>1. GameAfter(e, c) \in Games
  <2>1. CASE c.kind = "note"
    BY <2>1 DEF GameAfter, Engines
  <2>2. CASE c.kind = "rewind"
    <3>1. PICK b : b = CHOOSE x \in Restores(e, c.target) : TRUE
      OBVIOUS
    <3>2. b \in Restores(e, c.target)
      BY <2>2, <3>1
    <3>3. b \in Bounds
      <4>1. b \in Range(e.boundaries) /\ e.boundaries \in Seq(Bounds)
        BY <3>2 DEF Restores, Engines
      <4>2. PICK i \in DOMAIN e.boundaries : b = e.boundaries[i]
        BY <4>1 DEF Range
      <4>3. DOMAIN e.boundaries = 1..Len(e.boundaries)
        BY <4>1, LenProperties
      <4>4. QED
        BY <4>1, <4>2, <4>3, ElementOfSeq
    <3>4. GameAfter(e, c) = b.game
      BY <2>2, <3>1 DEF GameAfter
    <3>5. QED
      BY <3>3, <3>4 DEF Bounds
  <2>3. CASE c.kind \notin {"note", "rewind"}
    BY <2>3 DEF GameAfter, Engines, Games
  <2>4. QED
    BY <2>1, <2>2, <2>3
<1> DEFINE game == GameAfter(e, c)
           bound == [id |-> c.id, selectable |-> c.kind \notin Private, game |-> game]
           bounds == IF c.kind = "note" THEN e.boundaries ELSE Retain(Append(e.boundaries, bound))
           receipts == IF c.by = None THEN e.receipts
                       ELSE [e.receipts EXCEPT ![c.by] = e.count + 1]
           branch == IF c.kind = "rewind" THEN c.id ELSE e.branch
<1>2. bounds \in Seq(Bounds)
  <2>1. bound \in Bounds
    BY <1>1 DEF Bounds, Branches
  <2>2. e.boundaries \in Seq(Bounds)
    BY DEF Engines
  <2> HIDE DEF bound
  <2>3. Append(e.boundaries, bound) \in Seq(Bounds)
    BY <2>1, <2>2, AppendProperties
  <2>4. QED
    BY <2>2, <2>3, RetainType
<1>3. receipts \in [Requests -> Nat] /\ None \notin Requests
      /\ \A r \in Requests : receipts[r] = IF r = c.by THEN e.count + 1 ELSE e.receipts[r]
  BY CommandsAssumption DEF Engines
<1>4. branch \in Branches
  BY DEF Engines, Branches
<1>5. Committed(e, c) = [e EXCEPT !.branch = branch, !.game = game, !.boundaries = bounds,
                                  !.receipts = receipts, !.count = e.count + 1]
  BY DEF Committed
<1> HIDE DEF game, bounds, receipts, branch, bound
<1>6. PICK d : d = [e EXCEPT !.branch = branch, !.game = game, !.boundaries = bounds,
                             !.receipts = receipts, !.count = e.count + 1]
  OBVIOUS
<1>7. /\ d \in Engines /\ d.valid = e.valid /\ d.count = e.count + 1 /\ d.branch = branch
      /\ d.game = game /\ d.boundaries = bounds /\ d.receipts = receipts
      /\ d.marked = e.marked /\ d.enabled = e.enabled
  <2>1. e \in [valid : BOOLEAN, branch : Branches, game : Games, boundaries : Seq(Bounds),
                receipts : [Requests -> Nat], count : Nat, marked : BOOLEAN, enabled : BOOLEAN]
    BY DEF Engines
  <2>2. d = [valid |-> e.valid, branch |-> branch, game |-> game, boundaries |-> bounds,
             receipts |-> receipts, count |-> e.count + 1, marked |-> e.marked,
             enabled |-> e.enabled]
    BY <1>6, <2>1
  <2>3. e.valid \in BOOLEAN /\ e.count + 1 \in Nat /\ e.marked \in BOOLEAN /\ e.enabled \in BOOLEAN
    BY <2>1
  <2>4. d \in Engines
    BY <1>1, <1>2, <1>3, <1>4, <2>2, <2>3 DEF Engines, game
  <2>5. QED
    BY <2>2, <2>4
<1>8. QED
  BY <1>1, <1>3, <1>5, <1>6, <1>7 DEF game, bounds, bound, branch

\* A record commits like engines to like engines.
LEMMA CommittedLike ==
  ASSUME NEW e \in Engines, NEW d \in Engines, Like(e, d), NEW c, c.kind \in Kinds, c.id \in Ids,
         c.by \in Requests \cup {None}, c.kind = "rewind" => Restores(e, c.target) # {}
  PROVE  /\ Like(Committed(e, c), Committed(d, c))
         /\ Restores(d, c.target) = Restores(e, c.target) /\ GameAfter(d, c) = GameAfter(e, c)
<1>1. Restores(d, c.target) = Restores(e, c.target) /\ GameAfter(d, c) = GameAfter(e, c)
  BY DEF Like, Restores, GameAfter
<1>2. PICK p : p = Committed(e, c)
  OBVIOUS
<1>3. PICK q : q = Committed(d, c)
  OBVIOUS
<1>4. /\ p \in Engines /\ p.valid = e.valid /\ p.count = e.count + 1
      /\ p.branch = IF c.kind = "rewind" THEN c.id ELSE e.branch
      /\ p.game = GameAfter(e, c)
      /\ p.boundaries = IF c.kind = "note" THEN e.boundaries
           ELSE Retain(Append(e.boundaries,
                  [id |-> c.id, selectable |-> c.kind \notin Private, game |-> GameAfter(e, c)]))
      /\ \A r \in Requests : p.receipts[r] = IF r = c.by THEN e.count + 1 ELSE e.receipts[r]
  BY <1>2, CommittedFields
<1>5. /\ q \in Engines /\ q.valid = d.valid /\ q.count = d.count + 1
      /\ q.branch = IF c.kind = "rewind" THEN c.id ELSE d.branch
      /\ q.game = GameAfter(d, c)
      /\ q.boundaries = IF c.kind = "note" THEN d.boundaries
           ELSE Retain(Append(d.boundaries,
                  [id |-> c.id, selectable |-> c.kind \notin Private, game |-> GameAfter(d, c)]))
      /\ \A r \in Requests : q.receipts[r] = IF r = c.by THEN d.count + 1 ELSE d.receipts[r]
  BY <1>1, <1>3, CommittedFields
<1>6. p.receipts = q.receipts
  <2>1. p.receipts \in [Requests -> Nat] /\ q.receipts \in [Requests -> Nat]
    BY <1>4, <1>5 DEF Engines
  <2>2. \A r \in Requests : p.receipts[r] = q.receipts[r]
    BY <1>4, <1>5 DEF Like
  <2>3. QED
    BY <2>1, <2>2
<1>7. Like(p, q)
  BY <1>1, <1>4, <1>5, <1>6 DEF Like
<1>8. QED
  BY <1>1, <1>2, <1>3, <1>7

\* What fits one engine fits a like one.
LEMMA FitsLike ==
  ASSUME NEW e \in Engines, NEW d \in Engines, Like(e, d), NEW r \in Recs, Fits(d, r)
  PROVE  Fits(e, r)
<1>1. r.kind \in Kinds /\ r.id \in Ids /\ r.by \in Requests \cup {None}
  BY DEF Recs
<1>2. Like(d, e)
  BY DEF Like
<1>3. Like(Committed(d, r), Committed(e, r)) /\ Restores(e, r.target) = Restores(d, r.target)
  BY <1>1, <1>2, CommittedLike DEF Fits
<1>4. QED
  BY <1>3 DEF Fits, Like

\* The beginnings of a legal history, and what they lead to.
LEMMA LegalRuns ==
  ASSUME NEW h \in Seq(Recs), Legal(h)
  PROVE  /\ \A k \in 0..Len(h) : LET e == Ran(SubSeq(h, 1, k))
                                 IN  /\ e \in Engines /\ e.valid /\ e.count = k
                                     /\ ~e.marked /\ ~e.enabled
         /\ \A k \in 1..Len(h) : Ran(SubSeq(h, 1, k)) = Committed(Ran(SubSeq(h, 1, k - 1)), h[k])
<1> DEFINE n == Len(h)
           At(k) == Ran(SubSeq(h, 1, k))
           Good(k) == At(k) \in Engines /\ At(k).valid /\ At(k).count = k
                      /\ ~At(k).marked /\ ~At(k).enabled
<1>1. n \in Nat
  BY LenProperties
<1>2. ASSUME NEW k \in 1..n PROVE At(k) = Committed(At(k - 1), h[k])
  <2>1. k - 1 \in 0..n
    BY <1>1
  <2>2. SubSeq(h, 1, k - 1) \in Seq(Recs) /\ SubSeq(h, 1, k) = Append(SubSeq(h, 1, k - 1), h[k])
    BY <2>1, Beginnings
  <2>3. h[k] \in Recs
    BY ElementOfSeq
  <2>4. QED
    BY <2>2, <2>3, RanStep
<1>3. At(0) = Fresh
  <2>1. SubSeq(h, 1, 0) = <<>>
    BY Beginnings
  <2>2. QED
    BY <2>1, RanStep
<1> DEFINE P == {k \in Nat : k <= n => Good(k)}
<1>4. 0 \in P
  BY <1>3, FreshType
<1>5. ASSUME NEW k \in Nat, k \in P PROVE k + 1 \in P
  <2> SUFFICES ASSUME k + 1 <= n PROVE Good(k + 1)
    OBVIOUS
  <2>1. k + 1 \in 1..n /\ (k + 1) - 1 = k
    BY <1>1
  <2>2. PICK e : e = At(k)
    OBVIOUS
  <2>3. e \in Engines /\ e.valid /\ e.count = k /\ ~e.marked /\ ~e.enabled
    BY <1>5, <2>2
  <2>4. PICK c : c = h[k + 1]
    OBVIOUS
  <2>5. c \in Recs
    BY <2>1, <2>4, ElementOfSeq
  <2>6. Fits(e, c)
    BY <2>1, <2>2, <2>4 DEF Legal
  <2>7. At(k + 1) = Committed(e, c)
    BY <1>2, <2>1, <2>2, <2>4
  <2>8. c.kind \in Kinds /\ c.id \in Ids /\ c.by \in Requests \cup {None}
        /\ (c.kind = "rewind" => Restores(e, c.target) # {})
    BY <2>5, <2>6 DEF Recs, Fits
  <2>9. PICK d : d = Committed(e, c)
    OBVIOUS
  <2>10. d \in Engines /\ d.valid = e.valid /\ d.count = e.count + 1
         /\ d.marked = e.marked /\ d.enabled = e.enabled
    BY <2>3, <2>8, <2>9, CommittedFields
  <2>11. QED
    BY <2>3, <2>7, <2>9, <2>10
<1> HIDE DEF P, At, Good
<1>6. Nat \subseteq P
  BY <1>4, <1>5, NumbersReached
<1>7. \A k \in 0..n : Good(k)
  BY <1>1, <1>6 DEF P
<1>8. QED
  BY <1>2, <1>7 DEF At, Good

\* The same of the whole of it.
LEMMA LegalRan ==
  ASSUME NEW h \in Seq(Recs), Legal(h)
  PROVE  LET e == Ran(h)
         IN  e \in Engines /\ e.valid /\ e.count = Len(h) /\ ~e.marked /\ ~e.enabled
<1>1. Len(h) \in 0..Len(h) /\ SubSeq(h, 1, Len(h)) = h
  BY LenProperties, Beginnings
<1>2. QED
  BY <1>1, LegalRuns

\* A history grows by what fits.
LEMMA LegalGrows ==
  ASSUME NEW h \in Seq(Recs), Legal(h), NEW x \in Recs, Fits(Ran(h), x)
  PROVE  Legal(Append(h, x))
<1> DEFINE t == Append(h, x)
           n == Len(h)
<1>1. /\ t \in Seq(Recs) /\ Len(t) = n + 1 /\ t[n + 1] = x
      /\ n \in Nat /\ \A i \in 1..n : t[i] = h[i]
  BY AppendProperties, LenProperties
<1> HIDE DEF t
<1>2. ASSUME NEW k \in 0..n PROVE SubSeq(t, 1, k) = SubSeq(h, 1, k)
  <2> DEFINE u == SubSeq(t, 1, k)
             v == SubSeq(h, 1, k)
  <2>1. k \in 0..Len(t) /\ \A i \in 1..k : i \in 1..n
    BY <1>1
  <2>2. u \in Seq(Recs) /\ Len(u) = k /\ \A i \in 1..k : u[i] = t[i]
    BY <1>1, <2>1, Beginnings
  <2>3. v \in Seq(Recs) /\ Len(v) = k /\ \A i \in 1..k : v[i] = h[i]
    BY Beginnings
  <2> HIDE DEF u, v
  <2>4. \A i \in 1..k : u[i] = v[i]
    BY <1>1, <2>1, <2>2, <2>3
  <2>5. u = v
    BY <2>2, <2>3, <2>4, SeqEqual
  <2>6. QED
    BY <2>5 DEF u, v
<1>3. SubSeq(h, 1, n) = h
  BY Beginnings
<1>4. ASSUME NEW i \in 1..(n + 1) PROVE Fits(Ran(SubSeq(t, 1, i - 1)), t[i])
  <2>1. i - 1 \in 0..n /\ SubSeq(t, 1, i - 1) = SubSeq(h, 1, i - 1)
    BY <1>1, <1>2
  <2>2. CASE i = n + 1
    <3>1. i - 1 = n
      BY <1>1, <2>2
    <3>2. QED
      BY <1>1, <1>3, <2>1, <2>2, <3>1
  <2>3. CASE i # n + 1
    <3>1. i \in 1..n
      BY <1>1, <2>3
    <3>2. QED
      BY <1>1, <2>1, <3>1 DEF Legal
  <2>4. QED
    BY <2>2, <2>3
<1>5. QED
  BY <1>1, <1>4 DEF Legal, t

\* Its beginnings are legal.
LEMMA LegalBegins ==
  ASSUME NEW h \in Seq(Recs), Legal(h), NEW k \in 0..Len(h)
  PROVE  Legal(SubSeq(h, 1, k))
<1> DEFINE t == SubSeq(h, 1, k)
<1>1. t \in Seq(Recs) /\ Len(t) = k /\ Len(h) \in Nat /\ \A i \in 1..k : t[i] = h[i]
  BY Beginnings, LenProperties
<1> HIDE DEF t
<1>2. ASSUME NEW j \in 0..k PROVE SubSeq(t, 1, j) = SubSeq(h, 1, j)
  <2> DEFINE u == SubSeq(t, 1, j)
             v == SubSeq(h, 1, j)
  <2>1. j \in 0..Len(t) /\ j \in 0..Len(h) /\ \A i \in 1..j : i \in 1..k
    BY <1>1
  <2>2. u \in Seq(Recs) /\ Len(u) = j /\ \A i \in 1..j : u[i] = t[i]
    BY <1>1, <2>1, Beginnings
  <2>3. v \in Seq(Recs) /\ Len(v) = j /\ \A i \in 1..j : v[i] = h[i]
    BY <2>1, Beginnings
  <2> HIDE DEF u, v
  <2>4. \A i \in 1..j : u[i] = v[i]
    BY <1>1, <2>1, <2>2, <2>3
  <2>5. u = v
    BY <2>2, <2>3, <2>4, SeqEqual
  <2>6. QED
    BY <2>5 DEF u, v
<1>3. ASSUME NEW i \in 1..k PROVE Fits(Ran(SubSeq(t, 1, i - 1)), t[i])
  <2>1. i \in 1..Len(h) /\ i - 1 \in 0..k
    BY <1>1
  <2>2. QED
    BY <1>1, <1>2, <2>1 DEF Legal
<1>4. QED
  BY <1>1, <1>3 DEF Legal, t

-----------------------------------------------------------------------------
(* Receipts *)

\* A receipt names the one record of its request among the first k.
Exact(receipts, h, k) ==
  \A r \in Requests :
    IF receipts[r] = 0 THEN \A i \in 1..k : h[i].by # r
    ELSE /\ receipts[r] \in 1..k /\ h[receipts[r]].by = r
         /\ \A i \in 1..k : h[i].by = r => i = receipts[r]

\* The receipts after each record.
LEMMA ReceiptsRun ==
  ASSUME NEW h \in Seq(Recs), Legal(h), NEW k \in 0..Len(h)
  PROVE  Exact(Ran(SubSeq(h, 1, k)).receipts, h, k)
<1> DEFINE n == Len(h)
           At(j) == Ran(SubSeq(h, 1, j))
           P == {j \in Nat : j <= n => Exact(At(j).receipts, h, j)}
<1>1. n \in Nat
  BY LenProperties
<1>2. 0 \in P
  <2>1. At(0) = Fresh
    <3>1. SubSeq(h, 1, 0) = <<>>
      BY Beginnings
    <3>2. QED
      BY <3>1, RanStep
  <2>2. \A r \in Requests : Fresh.receipts[r] = 0
    BY DEF Fresh
  <2>3. QED
    BY <2>1, <2>2 DEF Exact
<1>3. ASSUME NEW j \in Nat, j \in P PROVE j + 1 \in P
  <2> SUFFICES ASSUME j + 1 <= n PROVE Exact(At(j + 1).receipts, h, j + 1)
    OBVIOUS
  <2>1. j + 1 \in 1..n /\ (j + 1) - 1 = j /\ j \in 0..n
    BY <1>1
  <2>2. PICK e, d, c : e = At(j) /\ d = At(j + 1) /\ c = h[j + 1]
    OBVIOUS
  <2>3. e \in Engines /\ e.count = j /\ d = Committed(e, c)
    BY <2>1, <2>2, LegalRuns
  <2>4. Exact(e.receipts, h, j)
    BY <1>3, <2>2
  <2>5. c \in Recs
    BY <2>1, <2>2, ElementOfSeq
  <2>6. Fits(e, c)
    BY <2>1, <2>2 DEF Legal
  <2>7. c.kind \in Kinds /\ c.id \in Ids /\ c.by \in Requests \cup {None}
        /\ (c.kind = "rewind" => Restores(e, c.target) # {})
        /\ (c.by # None => e.receipts[c.by] = 0)
    BY <2>5, <2>6 DEF Recs, Fits
  <2>8. \A r \in Requests : d.receipts[r] = IF r = c.by THEN j + 1 ELSE e.receipts[r]
    <3>1. PICK f : f = IF c.by = None THEN e.receipts
                       ELSE [e.receipts EXCEPT ![c.by] = e.count + 1]
      OBVIOUS
    <3>2. d.receipts = f
      BY <2>3, <3>1 DEF Committed, Engines
    <3>3. e.receipts \in [Requests -> Nat] /\ None \notin Requests
      BY <2>3, CommandsAssumption DEF Engines
    <3>4. \A r \in Requests : f[r] = IF r = c.by THEN e.count + 1 ELSE e.receipts[r]
      BY <2>7, <3>1, <3>3
    <3>5. QED
      BY <2>3, <3>2, <3>4
  <2>9. \A i \in 1..(j + 1) : i = j + 1 \/ i \in 1..j
    OBVIOUS
  <2>10. ASSUME NEW r \in Requests
         PROVE  IF d.receipts[r] = 0 THEN \A i \in 1..(j + 1) : h[i].by # r
                ELSE /\ d.receipts[r] \in 1..(j + 1) /\ h[d.receipts[r]].by = r
                     /\ \A i \in 1..(j + 1) : h[i].by = r => i = d.receipts[r]
    <3>1. r # None
      BY CommandsAssumption
    <3>2. CASE r = c.by
      <4>1. d.receipts[r] = j + 1 /\ e.receipts[r] = 0
        BY <2>7, <2>8, <3>1, <3>2
      <4>2. \A i \in 1..j : h[i].by # r
        BY <2>4, <4>1 DEF Exact
      <4>3. h[j + 1].by = r /\ j + 1 # 0 /\ j + 1 \in 1..(j + 1)
        BY <2>2, <3>2
      <4>4. QED
        BY <2>9, <4>1, <4>2, <4>3
    <3>3. CASE r # c.by
      <4>1. d.receipts[r] = e.receipts[r] /\ h[j + 1].by # r
        BY <2>2, <2>8, <3>3
      <4>2. \A i \in 1..j : i \in 1..(j + 1)
        OBVIOUS
      <4>3. CASE e.receipts[r] = 0
        BY <2>4, <2>9, <4>1, <4>3 DEF Exact
      <4>4. CASE e.receipts[r] # 0
        <5>1. /\ e.receipts[r] \in 1..j /\ h[e.receipts[r]].by = r
              /\ \A i \in 1..j : h[i].by = r => i = e.receipts[r]
          BY <2>4, <4>4 DEF Exact
        <5>2. QED
          BY <2>9, <4>1, <4>2, <4>4, <5>1
      <4>5. QED
        BY <4>3, <4>4
    <3>4. QED
      BY <3>2, <3>3
  <2>11. Exact(d.receipts, h, j + 1)
    BY <2>10 DEF Exact
  <2>12. QED
    BY <2>2, <2>11
<1> HIDE DEF P
<1>4. Nat \subseteq P
  BY <1>2, <1>3, NumbersReached
<1>5. QED
  BY <1>1, <1>4 DEF P

\* The receipts are those the history has, and so is the branch.
LEMMA ReceiptsExact ==
  ASSUME NEW h \in Seq(Recs), Legal(h)
  PROVE  /\ Exact(Ran(h).receipts, h, Len(h))
         /\ Receipted(h) = Ran(h).receipts
         /\ Branch(h) = Ran(h).branch
         /\ \A r \in Requests : Cardinality(RecordsOf(r, h)) <= 1
<1> DEFINE n == Len(h)
<1>1. n \in Nat /\ n \in 0..n /\ DOMAIN h = 1..n /\ SubSeq(h, 1, n) = h
  BY LenProperties, Beginnings
<1>2. PICK e : e = Ran(h)
  OBVIOUS
<1>3. e \in Engines /\ Exact(e.receipts, h, n)
  BY <1>1, <1>2, ReceiptsRun, LegalRan
<1>4. ASSUME NEW r \in Requests
      PROVE  /\ RecordsOf(r, h) = IF e.receipts[r] = 0 THEN {} ELSE {e.receipts[r]}
             /\ Cardinality(RecordsOf(r, h)) <= 1
  <2>1. RecordsOf(r, h) = {i \in 1..n : h[i].by = r}
    BY <1>1 DEF RecordsOf
  <2>2. PICK m : m = e.receipts[r]
    OBVIOUS
  <2>3. IF m = 0 THEN \A i \in 1..n : h[i].by # r
        ELSE m \in 1..n /\ h[m].by = r /\ \A i \in 1..n : h[i].by = r => i = m
    BY <1>3, <2>2 DEF Exact
  <2>4. {i \in 1..n : h[i].by = r} = IF m = 0 THEN {} ELSE {m}
    BY <2>3
  <2>5. Cardinality({}) = 0 /\ Cardinality({m}) = 1
    BY FS_EmptySet, FS_Singleton
  <2>6. PICK at : at = RecordsOf(r, h)
    OBVIOUS
  <2>7. at = IF m = 0 THEN {} ELSE {m}
    BY <2>1, <2>4, <2>6
  <2>8. Cardinality(at) <= 1
    <3>1. CASE m = 0
      BY <2>5, <2>7, <3>1
    <3>2. CASE m # 0
      BY <2>5, <2>7, <3>2
    <3>3. QED
      BY <3>1, <3>2
  <2>9. QED
    BY <2>2, <2>6, <2>7, <2>8
<1>5. Receipted(h) = e.receipts
  <2>1. Receipted(h) = [r \in Requests |-> LET at == RecordsOf(r, h)
                                           IN  IF at = {} THEN 0 ELSE CHOOSE i \in at : TRUE]
    BY DEF Receipted
  <2>2. ASSUME NEW r \in Requests
        PROVE  LET at == RecordsOf(r, h)
               IN  (IF at = {} THEN 0 ELSE CHOOSE i \in at : TRUE) = e.receipts[r]
    <3>1. PICK at : at = RecordsOf(r, h)
      OBVIOUS
    <3>2. at = IF e.receipts[r] = 0 THEN {} ELSE {e.receipts[r]}
      BY <1>4, <3>1
    <3>3. (IF at = {} THEN 0 ELSE CHOOSE i \in at : TRUE) = e.receipts[r]
      BY <3>2
    <3>4. QED
      BY <3>1, <3>3
  <2>3. e.receipts \in [Requests -> Nat]
    BY <1>3 DEF Engines
  <2>4. QED
    BY <2>1, <2>2, <2>3
<1>6. Branch(h) = e.branch
  <2>1. CASE h = <<>>
    <3>1. Ran(h) = Fresh
      BY <2>1, RanStep
    <3>2. QED
      BY <1>2, <2>1, <3>1 DEF Branch, Fresh
  <2>2. CASE h # <<>>
    <3>1. n # 0 /\ n \in 1..n
      BY <1>1, <2>2, EmptySeq
    <3>2. Fits(Ran(SubSeq(h, 1, n - 1)), h[n])
      BY <3>1 DEF Legal
    <3>3. Ran(SubSeq(h, 1, n)) = Committed(Ran(SubSeq(h, 1, n - 1)), h[n])
      BY <3>1, LegalRuns
    <3>4. h[n].leaves = e.branch
      BY <1>1, <1>2, <3>2, <3>3 DEF Fits
    <3>5. QED
      BY <2>2, <3>4 DEF Branch, Last
  <2>3. QED
    BY <2>1, <2>2
<1>7. QED
  BY <1>2, <1>3, <1>4, <1>5, <1>6

-----------------------------------------------------------------------------
(* The records of a log *)

\* What a log is made of.
Items == Recs \cup {Marker}

\* The records are the items that are not the marker.
LEMMA ItemKinds ==
  /\ \A x \in Recs : IsRecord(x) /\ x # Marker
  /\ \A x \in Items : IF IsRecord(x) THEN x \in Recs ELSE x = Marker
<1>1. \A x \in Recs : x.kind # "marker"
  BY DEF Recs, Kinds
<1>2. Marker.kind = "marker"
  BY DEF Marker
<1>3. QED
  BY <1>1, <1>2 DEF IsRecord, Items

\* The records of a log that grows.
LEMMA RecordsAppend ==
  ASSUME NEW s \in Seq(Items), NEW x \in Items
  PROVE  Records(Append(s, x)) = IF IsRecord(x) THEN Append(Records(s), x) ELSE Records(s)
<1> DEFINE t == Append(s, x)
           n == Len(s)
<1>1. /\ t \in Seq(Items) /\ Len(t) = n + 1 /\ t[n + 1] = x /\ DOMAIN t = 1..(n + 1)
      /\ n \in Nat /\ DOMAIN s = 1..n /\ \A i \in 1..n : t[i] = s[i]
  BY AppendProperties, LenProperties
<1> HIDE DEF t
<1> DEFINE inS == {i \in 1..n : IsRecord(s[i])}
           inT == {i \in 1..(n + 1) : IsRecord(t[i])}
<1>2. inS = {i \in DOMAIN s : IsRecord(s[i])} /\ inT = {i \in DOMAIN t : IsRecord(t[i])}
  BY <1>1
<1>3. Records(s) = Picked(s, inS) /\ Records(t) = Picked(t, inT)
  BY <1>2 DEF Records
<1>4. \A i \in 1..n : i \in inS <=> i \in inT
  BY <1>1
<1>5. n + 1 \in inT <=> IsRecord(x)
  BY <1>1
<1> HIDE DEF inS, inT
<1>6. Picked(s, inS) = Picked(s, inT)
  BY <1>4, PickedSame
<1>7. Picked(t, inT) = IF n + 1 \in inT THEN Append(Picked(s, inT), x) ELSE Picked(s, inT)
  BY PickedAppend DEF t
<1>8. QED
  BY <1>3, <1>5, <1>6, <1>7 DEF t

\* Where the records are, in a log and in its beginnings.
RecordsAt(s) == {i \in DOMAIN s : IsRecord(s[i])}

\* The records of a log, and of each beginning of it, are picked at one set of places.
LEMMA RecordsPicked ==
  ASSUME NEW s \in Seq(Items)
  PROVE  /\ Records(s) = Picked(s, RecordsAt(s))
         /\ \A i \in 1..Len(s) : i \in RecordsAt(s) <=> IsRecord(s[i])
         /\ \A k \in 0..Len(s) : Records(SubSeq(s, 1, k)) = Picked(SubSeq(s, 1, k), RecordsAt(s))
<1>1. DOMAIN s = 1..Len(s) /\ Len(s) \in Nat
  BY LenProperties
<1>2. ASSUME NEW k \in 0..Len(s)
      PROVE  Records(SubSeq(s, 1, k)) = Picked(SubSeq(s, 1, k), RecordsAt(s))
  <2>1. PICK t : t = SubSeq(s, 1, k)
    OBVIOUS
  <2>2. t \in Seq(Items) /\ Len(t) = k /\ \A i \in 1..k : t[i] = s[i]
    BY <2>1, Beginnings
  <2>3. DOMAIN t = 1..Len(t) /\ \A i \in 1..k : i \in 1..Len(s)
    BY <1>1, <2>2, LenProperties
  <2>4. \A i \in 1..Len(t) : i \in RecordsAt(t) <=> i \in RecordsAt(s)
    BY <1>1, <2>2, <2>3 DEF RecordsAt
  <2>5. Picked(t, RecordsAt(t)) = Picked(t, RecordsAt(s))
    BY <2>2, <2>4, PickedSame
  <2>6. QED
    BY <2>1, <2>5 DEF Records, RecordsAt
<1>3. QED
  BY <1>1, <1>2 DEF Records, RecordsAt

\* The records of no log.
LEMMA RecordsEmpty == Records(<<>>) = <<>>
  BY PickedEmpty DEF Records

\* The records of a log are records.
LEMMA RecordsType ==
  ASSUME NEW s \in Seq(Items)
  PROVE  Records(s) \in Seq(Recs)
<1>1. PICK h : h = Records(s)
  OBVIOUS
<1>2. h \in Seq(Items)
  BY <1>1, RecordsPicked, PickedType
<1>3. ASSUME NEW m \in 1..Len(h) PROVE h[m] \in Recs
  <2>1. PICK i \in 1..Len(s) : i \in RecordsAt(s) /\ h[m] = s[i]
    BY <1>1, RecordsPicked, PickedFound
  <2>2. s[i] \in Items /\ IsRecord(s[i])
    BY <2>1, ElementOfSeq, RecordsPicked
  <2>3. QED
    BY <2>1, <2>2, ItemKinds
<1>4. h = [m \in 1..Len(h) |-> h[m]] /\ Len(h) \in Nat
  BY <1>2, LenProperties, SeqDef
<1>5. h \in [1..Len(h) -> Recs]
  BY <1>3, <1>4
<1>6. QED
  BY <1>1, <1>4, <1>5, SeqDef

\* The records of its beginnings.
LEMMA RecordsGrow ==
  ASSUME NEW s \in Seq(Items)
  PROVE  /\ Records(SubSeq(s, 1, 0)) = <<>>
         /\ \A k \in 1..Len(s) : Records(SubSeq(s, 1, k)) =
              IF IsRecord(s[k]) THEN Append(Records(SubSeq(s, 1, k - 1)), s[k])
              ELSE Records(SubSeq(s, 1, k - 1))
         /\ \A k \in 0..Len(s) : Records(SubSeq(s, 1, k)) \in Seq(Recs)
<1>1. ASSUME NEW k \in 1..Len(s)
      PROVE  Records(SubSeq(s, 1, k)) =
               IF IsRecord(s[k]) THEN Append(Records(SubSeq(s, 1, k - 1)), s[k])
               ELSE Records(SubSeq(s, 1, k - 1))
  <2>1. k - 1 \in 0..Len(s)
    BY LenProperties
  <2>2. PICK t : t = SubSeq(s, 1, k - 1)
    OBVIOUS
  <2>3. t \in Seq(Items) /\ SubSeq(s, 1, k) = Append(t, s[k])
    BY <2>1, <2>2, Beginnings
  <2>4. s[k] \in Items
    BY ElementOfSeq
  <2>5. QED
    BY <2>2, <2>3, <2>4, RecordsAppend
<1>2. ASSUME NEW k \in 0..Len(s) PROVE Records(SubSeq(s, 1, k)) \in Seq(Recs)
  BY Beginnings, RecordsType
<1>3. Records(SubSeq(s, 1, 0)) = <<>>
  BY Beginnings, RecordsEmpty
<1>4. QED
  BY <1>1, <1>2, <1>3

\* The records of a beginning begin the records.
LEMMA RecordsBegin ==
  ASSUME NEW s \in Seq(Items), NEW k \in 0..Len(s)
  PROVE  LET a == Records(SubSeq(s, 1, k))
             b == Records(s)
         IN  /\ a \in Seq(Recs) /\ Len(a) \in 0..Len(b)
             /\ a = SubSeq(b, 1, Len(a))
             /\ \A j \in 1..Len(a) : b[j] = a[j]
<1>1. PICK a, b : a = Records(SubSeq(s, 1, k)) /\ b = Records(s)
  OBVIOUS
<1>2. a = Picked(SubSeq(s, 1, k), RecordsAt(s)) /\ b = Picked(s, RecordsAt(s))
  BY <1>1, RecordsPicked
<1>3. /\ Len(a) \in 0..Len(b) /\ a = SubSeq(b, 1, Len(a))
      /\ \A j \in 1..Len(a) : b[j] = a[j]
  BY <1>2, PickedBegin
<1>4. a \in Seq(Recs)
  BY <1>1, RecordsGrow
<1>5. QED
  BY <1>1, <1>3, <1>4

\* Where a record is among the records.
PlaceOf(s, i) == Place(s, RecordsAt(s), i)

\* A record of the log is at its place among the records.
LEMMA RecordAtPlace ==
  ASSUME NEW s \in Seq(Items), NEW i \in 1..Len(s), IsRecord(s[i])
  PROVE  /\ PlaceOf(s, i) \in 1..Len(Records(s)) /\ Records(s)[PlaceOf(s, i)] = s[i]
         /\ Len(Records(SubSeq(s, 1, i))) = PlaceOf(s, i)
<1>1. i \in RecordsAt(s) /\ Records(s) = Picked(s, RecordsAt(s))
  BY RecordsPicked
<1>2. i \in 0..Len(s)
  BY LenProperties
<1>3. Records(SubSeq(s, 1, i)) = Picked(SubSeq(s, 1, i), RecordsAt(s))
  BY <1>2, RecordsPicked
<1>4. QED
  BY <1>1, <1>3, PickedPlace DEF PlaceOf, Place

\* Later records have later places.
LEMMA PlacesApart ==
  ASSUME NEW s \in Seq(Items), NEW i \in 1..Len(s), NEW j \in 1..Len(s),
         IsRecord(s[i]), IsRecord(s[j]), i < j
  PROVE  PlaceOf(s, i) < PlaceOf(s, j)
<1>1. j \in RecordsAt(s)
  BY RecordsPicked
<1>2. i \in 0..Len(s) /\ j \in 0..Len(s) /\ i <= j
  BY LenProperties
<1>3. QED
  BY <1>1, <1>2, PlacesIncrease DEF PlaceOf

\* Each of the records is in the log.
LEMMA RecordFound ==
  ASSUME NEW s \in Seq(Items), NEW j \in 1..Len(Records(s))
  PROVE  \E i \in 1..Len(s) : IsRecord(s[i]) /\ s[i] = Records(s)[j] /\ PlaceOf(s, i) = j
<1>1. Records(s) = Picked(s, RecordsAt(s))
  BY RecordsPicked
<1>2. PICK i \in 1..Len(s) : /\ i \in RecordsAt(s) /\ Place(s, RecordsAt(s), i) = j
                             /\ Records(s)[j] = s[i]
  BY <1>1, PickedFound
<1>3. QED
  BY <1>2, RecordsPicked DEF PlaceOf

\* A legal history has one record of a request.
LEMMA OneRecordEach ==
  ASSUME NEW s \in Seq(Items), Legal(Records(s)), NEW i \in 1..Len(s), NEW j \in 1..Len(s),
         IsRecord(s[i]), IsRecord(s[j]), NEW r \in Requests, s[i].by = r, s[j].by = r
  PROVE  i = j
<1>1. PICK h, e : h = Records(s) /\ e = Ran(h)
  OBVIOUS
<1>2. h \in Seq(Recs) /\ Exact(e.receipts, h, Len(h))
  BY <1>1, RecordsType, ReceiptsExact
<1>3. PICK p, q : p = PlaceOf(s, i) /\ q = PlaceOf(s, j)
  OBVIOUS
<1>4. p \in 1..Len(h) /\ h[p] = s[i] /\ q \in 1..Len(h) /\ h[q] = s[j]
  BY <1>1, <1>3, RecordAtPlace
<1>5. h[p].by = r /\ h[q].by = r
  BY <1>4
<1>6. p = q
  BY <1>2, <1>4, <1>5 DEF Exact
<1>7. Len(h) \in Nat /\ Len(s) \in Nat
  BY <1>2, LenProperties
<1>8. ~(p < q) /\ ~(q < p)
  BY <1>4, <1>6, <1>7
<1>9. ~(i < j) /\ ~(j < i)
  BY <1>3, <1>8, PlacesApart
<1>10. QED
  BY <1>7, <1>9

\* A set with no two elements.
LEMMA AtMostOne ==
  ASSUME NEW T, \A i, j \in T : i = j
  PROVE  Cardinality(T) <= 1
<1>1. CASE T = {}
  <2>1. Cardinality(T) = 0
    BY <1>1, FS_EmptySet
  <2>2. QED
    BY <2>1
<1>2. CASE T # {}
  <2>1. PICK i \in T : TRUE
    BY <1>2
  <2>2. T = {i}
    BY <2>1
  <2>3. Cardinality(T) = 1
    BY <2>2, FS_Singleton
  <2>4. QED
    BY <2>3
<1>3. QED
  BY <1>1, <1>2

\* So a log executes a request once.
LEMMA LegalExecutesOnce ==
  ASSUME log \in Seq(Items), Legal(Records(log))
  PROVE  ExecutedOnce
<1>1. PICK s : s = log
  OBVIOUS
<1>2. s \in Seq(Items) /\ Legal(Records(s)) /\ DOMAIN s = 1..Len(s)
  BY <1>1, LenProperties
<1>3. ASSUME NEW r \in Requests
      PROVE  Cardinality({i \in DOMAIN s : IsRecord(s[i]) /\ s[i].by = r}) <= 1
  <2> DEFINE T == {i \in DOMAIN s : IsRecord(s[i]) /\ s[i].by = r}
  <2>1. ASSUME NEW i \in T, NEW j \in T PROVE i = j
    <3>1. i \in 1..Len(s) /\ IsRecord(s[i]) /\ s[i].by = r
      BY <1>2
    <3>2. j \in 1..Len(s) /\ IsRecord(s[j]) /\ s[j].by = r
      BY <1>2
    <3>3. QED
      BY <1>2, <3>1, <3>2, OneRecordEach
  <2> HIDE DEF T
  <2>2. Cardinality(T) <= 1
    BY <2>1, AtMostOne
  <2>3. QED
    BY <2>2 DEF T
<1>4. QED
  BY <1>1, <1>3 DEF ExecutedOnce

-----------------------------------------------------------------------------
(* Opening a save *)

\* An engine that could not be opened.
LEMMA BrokenType == [Fresh EXCEPT !.valid = FALSE] \in Engines /\ ~[Fresh EXCEPT !.valid = FALSE].valid
<1>1. Fresh \in Engines
  BY FreshType
<1>2. QED
  BY <1>1 DEF Engines

\* A record is redone by an engine like the one that ran it.
LEMMA RedoFits ==
  ASSUME NEW e \in Engines, NEW d \in Engines, e.valid, Like(e, d), NEW c \in Recs, Fits(d, c),
         c.kind \in WizardKinds => e.enabled
  PROVE  /\ Redo(e, c) = Committed(e, c)
         /\ Like(Redo(e, c), Committed(d, c)) /\ Redo(e, c) \in Engines /\ Redo(e, c).valid
         /\ Redo(e, c).marked = e.marked /\ Redo(e, c).enabled = e.enabled
<1>1. Fits(e, c)
  BY FitsLike
<1>2. c.kind \in Kinds /\ c.id \in Ids /\ c.by \in Requests \cup {None}
      /\ (c.kind = "rewind" => Restores(e, c.target) # {})
  BY <1>1 DEF Recs, Fits
<1>3. Permits(e, c) /\ (c.by # None => e.receipts[c.by] = 0)
  BY <1>1 DEF Permits, Fits
<1>4. Committed(e, c).branch = c.leaves
  BY <1>1 DEF Fits
<1>5. Redo(e, c) = Committed(e, c)
  BY <1>3, <1>4 DEF Redo
<1>6. PICK f : f = Committed(e, c)
  OBVIOUS
<1>7. f \in Engines /\ f.valid = e.valid /\ f.marked = e.marked /\ f.enabled = e.enabled
  BY <1>2, <1>6, CommittedFields
<1>8. Like(f, Committed(d, c))
  BY <1>2, <1>6, CommittedLike
<1>9. QED
  BY <1>5, <1>6, <1>7, <1>8

\* What follows one that could not be opened.
LEMMA RedoBroken ==
  ASSUME NEW e \in Engines, ~e.valid, NEW c
  PROVE  Redo(e, c) \in Engines /\ ~Redo(e, c).valid
  BY BrokenType DEF Redo

\* The engine after each record of a replay that starts after the first a.
Replays(f, start, h, a) ==
  f[a] = start /\ \A i \in (a + 1)..Len(h) : f[i] = Redo(f[i - 1], h[i])

\* A replay ends with what such a function ends with.
LEMMA ReplayIs ==
  ASSUME NEW h \in Seq(Recs), NEW a \in 0..Len(h), NEW start
  PROVE  \E f : Replays(f, start, h, a) /\ Replayed(start, h, a) = f[Len(h)]
<1> DEFINE n == Len(h)
           Upto(k, f) == f = [i \in a..(a + k) |-> IF i = a THEN start ELSE Redo(f[i - 1], h[i])]
           P == {k \in Nat : \E f : Upto(k, f)}
<1>1. n \in Nat /\ a \in Nat
  BY LenProperties
<1>2. 0 \in P
  <2> DEFINE f == [i \in a..(a + 0) |-> start]
  <2>1. \A i \in a..(a + 0) : i = a
    BY <1>1
  <2>2. Upto(0, f)
    BY <2>1
  <2>3. QED
    BY <2>2
<1>3. ASSUME NEW k \in Nat, k \in P PROVE k + 1 \in P
  <2>1. PICK f : Upto(k, f)
    BY <1>3
  <2>2. PICK m : m = a + (k + 1)
    OBVIOUS
  <2>3. m \in Nat /\ m - 1 = a + k /\ m # a /\ m - 1 # m /\ m - 1 \in a..m
    BY <1>1, <2>2
  <2> DEFINE last == Redo(f[m - 1], h[m])
             g == [i \in a..m |-> IF i = m THEN last ELSE f[i]]
  <2>4. ASSUME NEW i \in a..m
        PROVE  g[i] = IF i = a THEN start ELSE Redo(g[i - 1], h[i])
    <3>1. CASE i = m
      <4>1. g[i] = last /\ g[i - 1] = f[m - 1]
        BY <2>3, <3>1
      <4>2. QED
        BY <2>3, <3>1, <4>1
    <3>2. CASE i # m
      <4>1. i \in a..(a + k) /\ (i # a => i - 1 \in a..m /\ i - 1 # m)
        BY <1>1, <2>3, <3>2
      <4>2. g[i] = f[i] /\ (i # a => g[i - 1] = f[i - 1])
        BY <3>2, <4>1
      <4>3. f[i] = IF i = a THEN start ELSE Redo(f[i - 1], h[i])
        BY <2>1, <4>1
      <4>4. QED
        BY <4>2, <4>3
    <3>3. QED
      BY <3>1, <3>2
  <2> HIDE DEF last
  <2>5. Upto(k + 1, g)
    BY <2>2, <2>4
  <2> HIDE DEF g, Upto
  <2>6. QED
    BY <2>5
<1> HIDE DEF P
<1>4. Nat \subseteq P
  BY <1>2, <1>3, NumbersReached
<1>5. n - a \in Nat /\ a + (n - a) = n
  BY <1>1
<1>6. \E f : f = [i \in a..n |-> IF i = a THEN start ELSE Redo(f[i - 1], h[i])]
  BY <1>4, <1>5 DEF P
<1> DEFINE f == CHOOSE f : f = [i \in a..n |-> IF i = a THEN start ELSE Redo(f[i - 1], h[i])]
<1>7. Replayed(start, h, a) = f[n]
  BY DEF Replayed
<1>8. f = [i \in a..n |-> IF i = a THEN start ELSE Redo(f[i - 1], h[i])]
  BY <1>6
<1> HIDE DEF f
<1>9. a \in a..n /\ \A i \in (a + 1)..n : i \in a..n /\ i # a
  BY <1>1
<1>10. f[a] = start /\ \A i \in (a + 1)..n : f[i] = Redo(f[i - 1], h[i])
  BY <1>8, <1>9
<1>11. Replays(f, start, h, a)
  BY <1>10 DEF Replays
<1>12. QED
  BY <1>7, <1>11

\* The replay of a legal history, by an engine like the one its beginning led
\* to, leads to the one that wrote it.
LEMMA ReplayReproduces ==
  ASSUME NEW h \in Seq(Recs), Legal(h), NEW a \in 0..Len(h), NEW start \in Engines,
         start.valid => Like(start, Ran(SubSeq(h, 1, a))),
         \A i \in 1..Len(h) : h[i].kind \in WizardKinds => start.enabled
  PROVE  LET e == Replayed(start, h, a)
         IN  /\ e \in Engines /\ e.valid = start.valid
             /\ e.valid => Like(e, Ran(h)) /\ e.marked = start.marked
<1> DEFINE n == Len(h)
           At(i) == Ran(SubSeq(h, 1, i))
           Good(e, i) == /\ e \in Engines /\ e.valid = start.valid
                         /\ (e.valid => Like(e, At(i)) /\ e.marked = start.marked
                                        /\ e.enabled = start.enabled)
<1>1. n \in Nat /\ a \in Nat /\ SubSeq(h, 1, n) = h
  BY LenProperties, Beginnings
<1>2. PICK f : Replays(f, start, h, a) /\ Replayed(start, h, a) = f[n]
  BY ReplayIs
<1>3. f[a] = start /\ \A i \in (a + 1)..n : f[i] = Redo(f[i - 1], h[i])
  BY <1>2 DEF Replays
<1> DEFINE P == {i \in Nat : a <= i /\ i <= n => Good(f[i], i)}
<1>4. 0 \in P
  <2> SUFFICES ASSUME a <= 0 PROVE Good(f[0], 0)
    OBVIOUS
  <2>1. a = 0
    BY <1>1
  <2>2. QED
    BY <1>3, <2>1
<1>5. ASSUME NEW i \in Nat, i \in P PROVE i + 1 \in P
  <2> SUFFICES ASSUME a <= i + 1, i + 1 <= n PROVE Good(f[i + 1], i + 1)
    OBVIOUS
  <2>1. CASE a = i + 1
    BY <1>3, <2>1
  <2>2. CASE a # i + 1
    <3>1. a <= i /\ i <= n /\ i + 1 \in (a + 1)..n /\ i + 1 \in 1..n /\ (i + 1) - 1 = i /\ i \in 0..n
      BY <1>1, <2>2
    <3>2. PICK e, c, d : e = f[i] /\ c = h[i + 1] /\ d = At(i)
      OBVIOUS
    <3>3. Good(e, i)
      BY <1>5, <3>1, <3>2
    <3>4. f[i + 1] = Redo(e, c)
      BY <1>3, <3>1, <3>2
    <3>5. c \in Recs /\ (c.kind \in WizardKinds => start.enabled)
      BY <3>1, <3>2, ElementOfSeq
    <3>6. d \in Engines /\ Fits(d, c) /\ At(i + 1) = Committed(d, c)
      BY <3>1, <3>2, LegalRuns DEF Legal
    <3>7. CASE e.valid
      <4>1. Like(e, d) /\ (c.kind \in WizardKinds => e.enabled) /\ e \in Engines
        BY <3>2, <3>3, <3>5, <3>7
      <4>2. PICK g : g = Redo(e, c)
        OBVIOUS
      <4>3. /\ Like(g, Committed(d, c)) /\ g \in Engines /\ g.valid
            /\ g.marked = e.marked /\ g.enabled = e.enabled
        BY <3>5, <3>6, <3>7, <4>1, <4>2, RedoFits
      <4>4. e.valid = start.valid /\ e.marked = start.marked /\ e.enabled = start.enabled
        BY <3>3, <3>7
      <4>5. g.valid = start.valid
        <5>1. g.valid \in BOOLEAN /\ start.valid \in BOOLEAN /\ e.valid \in BOOLEAN
          BY <3>3, <4>3 DEF Engines
        <5>2. QED
          BY <3>7, <4>3, <4>4, <5>1
      <4>6. QED
        BY <3>4, <3>6, <4>2, <4>3, <4>4, <4>5
    <3>8. CASE ~e.valid
      <4>1. e \in Engines
        BY <3>3
      <4>2. PICK g : g = Redo(e, c)
        OBVIOUS
      <4>3. g \in Engines /\ ~g.valid
        BY <3>8, <4>1, <4>2, RedoBroken
      <4>4. g.valid = start.valid
        <5>1. g.valid \in BOOLEAN /\ start.valid \in BOOLEAN /\ e.valid \in BOOLEAN
          BY <4>1, <4>3 DEF Engines
        <5>2. QED
          BY <3>3, <3>8, <4>3, <5>1
      <4>5. QED
        BY <3>4, <4>2, <4>3, <4>4
    <3>9. QED
      BY <3>7, <3>8
  <2>3. QED
    BY <2>1, <2>2
<1> HIDE DEF P
<1>6. Nat \subseteq P
  BY <1>4, <1>5, NumbersReached
<1>7. a <= n /\ n \in P
  BY <1>1, <1>6
<1>8. Good(f[n], n)
  BY <1>7 DEF P
<1>9. QED
  BY <1>1, <1>2, <1>8

\* What the last record of a legal history kept is what the history led to.
LEMMA SnapshotIs ==
  ASSUME NEW h \in Seq(Recs), Legal(h), Len(h) # 0
  PROVE  LET s == h[Len(h)].snapshot
             e == Ran(h)
         IN  /\ s \in Snaps /\ s.count = e.count /\ s.branch = e.branch
             /\ s.game = e.game /\ s.boundaries = e.boundaries
<1>1. Len(h) \in 1..Len(h) /\ Len(h) \in 0..Len(h) /\ SubSeq(h, 1, Len(h)) = h
  BY LenProperties, Beginnings
<1>2. PICK c, e, d : c = h[Len(h)] /\ e = Ran(h) /\ d = Ran(SubSeq(h, 1, Len(h) - 1))
  OBVIOUS
<1>3. c \in Recs
  BY <1>1, <1>2, ElementOfSeq
<1>4. Fits(d, c)
  BY <1>1, <1>2 DEF Legal
<1>5. e = Committed(d, c)
  BY <1>1, <1>2, LegalRuns
<1>6. c.snapshot \in Snaps
  BY <1>3 DEF Recs
<1>7. QED
  BY <1>2, <1>4, <1>5, <1>6 DEF Fits

\* A checkpoint that restores gives an engine like the one that wrote it.
LEMMA RestoredLike ==
  ASSUME NEW h \in Seq(Recs), Legal(h), Len(h) # 0, NEW marked
  PROVE  LET s == h[Len(h)].snapshot
             e == Restored(s, h, marked)
         IN  /\ e \in Engines /\ (e.valid <=> RestoreAllowed(s, h, marked))
             /\ e.valid => Like(e, Ran(h))
<1>1. PICK s, d, e : s = h[Len(h)].snapshot /\ d = Ran(h) /\ e = Restored(s, h, marked)
  OBVIOUS
<1>2. /\ s \in Snaps /\ s.count = d.count /\ s.branch = d.branch
      /\ s.game = d.game /\ s.boundaries = d.boundaries
  BY <1>1, SnapshotIs
<1>3. d \in Engines /\ d.valid /\ d.count = Len(h) /\ Receipted(h) = d.receipts
  BY <1>1, LegalRan, ReceiptsExact
<1>4. CASE ~RestoreAllowed(s, h, marked)
  <2>1. e = [Fresh EXCEPT !.valid = FALSE]
    BY <1>1, <1>4 DEF Restored
  <2>2. e \in Engines /\ ~e.valid
    BY <2>1, BrokenType
  <2>3. QED
    BY <1>1, <1>4, <2>2
<1>5. CASE RestoreAllowed(s, h, marked)
  <2>1. e = [Fresh EXCEPT !.branch = d.branch, !.game = d.game, !.boundaries = d.boundaries,
                          !.receipts = d.receipts, !.count = d.count]
    BY <1>1, <1>2, <1>3, <1>5 DEF Restored, RestoredReceipts
  <2>2. Fresh \in [valid : BOOLEAN, branch : Branches, game : Games, boundaries : Seq(Bounds),
                   receipts : [Requests -> Nat], count : Nat, marked : BOOLEAN,
                   enabled : BOOLEAN]
        /\ Fresh.valid /\ ~Fresh.marked /\ ~Fresh.enabled
    BY FreshType DEF Engines
  <2>3. e = [valid |-> Fresh.valid, branch |-> d.branch, game |-> d.game,
             boundaries |-> d.boundaries, receipts |-> d.receipts, count |-> d.count,
             marked |-> Fresh.marked, enabled |-> Fresh.enabled]
    BY <2>1, <2>2
  <2>4. /\ d.branch \in Branches /\ d.game \in Games /\ d.boundaries \in Seq(Bounds)
        /\ d.receipts \in [Requests -> Nat] /\ d.count \in Nat /\ d.valid \in BOOLEAN
        /\ Fresh.valid \in BOOLEAN /\ Fresh.marked \in BOOLEAN /\ Fresh.enabled \in BOOLEAN
    BY <1>3, <2>2 DEF Engines
  <2>5. e \in Engines
    BY <2>3, <2>4 DEF Engines
  <2>6. e.valid /\ e.valid = d.valid
    <3>1. e.valid = Fresh.valid
      BY <2>3
    <3>2. QED
      BY <1>3, <2>2, <2>4, <3>1
  <2>7. Like(e, d)
    BY <2>3, <2>6 DEF Like
  <2>8. QED
    BY <1>1, <1>5, <2>5, <2>6, <2>7
<1>6. QED
  BY <1>4, <1>5

\* The marker, in a log and in its beginnings.
LEMMA MarkedGrows ==
  ASSUME NEW s \in Seq(Items)
  PROVE  /\ \A k \in 0..Len(s) : Marked(SubSeq(s, 1, k)) <=> \E i \in 1..k : s[i] = Marker
         /\ Marked(s) <=> \E i \in 1..Len(s) : s[i] = Marker
         /\ \A x \in Items : Marked(Append(s, x)) <=> Marked(s) \/ x = Marker
<1>1. Len(s) \in Nat
  BY LenProperties
<1>2. ASSUME NEW k \in 0..Len(s)
      PROVE  Marked(SubSeq(s, 1, k)) <=> \E i \in 1..k : s[i] = Marker
  <2>1. PICK t : t = SubSeq(s, 1, k)
    OBVIOUS
  <2>2. Len(t) = k /\ \A i \in 1..k : t[i] = s[i]
    BY <2>1, Beginnings
  <2>3. Marked(t) <=> \E i \in 1..k : s[i] = Marker
    BY <2>2 DEF Marked, Contains
  <2>4. QED
    BY <2>1, <2>3
<1>3. Marked(s) <=> \E i \in 1..Len(s) : s[i] = Marker
  BY DEF Marked, Contains
<1>4. ASSUME NEW x \in Items PROVE Marked(Append(s, x)) <=> Marked(s) \/ x = Marker
  <2>1. PICK t : t = Append(s, x)
    OBVIOUS
  <2>2. Len(t) = Len(s) + 1 /\ t[Len(s) + 1] = x /\ \A i \in 1..Len(s) : t[i] = s[i]
    BY <2>1, AppendProperties
  <2>3. Marked(t) <=> \E i \in 1..Len(t) : t[i] = Marker
    BY DEF Marked, Contains
  <2>4. \A i \in 1..Len(t) : i = Len(s) + 1 \/ i \in 1..Len(s)
    BY <1>1, <2>2
  <2>5. Len(s) + 1 \in 1..Len(t) /\ \A i \in 1..Len(s) : i \in 1..Len(t)
    BY <1>1, <2>2
  <2>6. Marked(t) <=> Marked(s) \/ x = Marker
    BY <1>3, <2>2, <2>3, <2>4, <2>5
  <2>7. QED
    BY <2>1, <2>6
<1>5. QED
  BY <1>2, <1>3, <1>4

\* Wizard records are made after the marker.
LEMMA WizardsAfterMarker ==
  ASSUME log \in Seq(Items), Placed(log, opening)
  PROVE  /\ \A i \in 1..Len(log) : log[i].kind \in WizardKinds => Marked(SubSeq(log, 1, i - 1))
         /\ \A j \in 1..Len(Records(log)) : Records(log)[j].kind \in WizardKinds => Marked(log)
<1>1. PICK s : s = log
  OBVIOUS
<1>2. s \in Seq(Items) /\ Len(s) \in Nat
  BY <1>1, LenProperties
<1>3. ASSUME NEW i \in 1..Len(s), s[i].kind \in WizardKinds
      PROVE  IsRecord(s[i]) /\ Marked(SubSeq(s, 1, i - 1)) /\ Marked(s)
  <2>1. "marker" \notin WizardKinds
    BY DEF WizardKinds
  <2>2. IsRecord(s[i])
    BY <1>3, <2>1 DEF IsRecord
  <2>3. Marked(SubSeq(s, 1, i - 1))
    BY <1>1, <1>3, <2>2 DEF Placed
  <2>4. i - 1 \in 0..Len(s) /\ \A k \in 1..(i - 1) : k \in 1..Len(s)
    BY <1>2
  <2>5. Marked(s)
    BY <1>2, <2>3, <2>4, MarkedGrows
  <2>6. QED
    BY <2>2, <2>3, <2>5
<1>4. ASSUME NEW j \in 1..Len(Records(s)), Records(s)[j].kind \in WizardKinds PROVE Marked(s)
  <2>1. PICK i \in 1..Len(s) : s[i] = Records(s)[j]
    BY <1>2, RecordFound
  <2>2. QED
    BY <1>3, <1>4, <2>1
<1>5. QED
  BY <1>1, <1>3, <1>4

\* The records under a checkpoint, and its snapshot.
LEMMA CoveredIs ==
  ASSUME NEW s \in Seq(Items), NEW p \in 1..Len(s), IsRecord(s[p]), Legal(Records(s))
  PROVE  LET c == Records(SubSeq(s, 1, p))
         IN  /\ c \in Seq(Recs) /\ Legal(c) /\ Len(c) # 0 /\ Len(c) \in 0..Len(Records(s))
             /\ c = SubSeq(Records(s), 1, Len(c)) /\ c[Len(c)] = s[p]
<1>1. PICK c, h : c = Records(SubSeq(s, 1, p)) /\ h = Records(s)
  OBVIOUS
<1>2. p \in 0..Len(s)
  BY LenProperties
<1>3. /\ c \in Seq(Recs) /\ Len(c) \in 0..Len(h) /\ c = SubSeq(h, 1, Len(c))
      /\ \A j \in 1..Len(c) : h[j] = c[j]
  BY <1>1, <1>2, RecordsBegin
<1>4. PlaceOf(s, p) \in 1..Len(h) /\ h[PlaceOf(s, p)] = s[p] /\ Len(c) = PlaceOf(s, p)
  BY <1>1, RecordAtPlace
<1>5. Len(c) # 0 /\ Len(c) \in 1..Len(c)
  BY <1>4
<1>6. h \in Seq(Recs)
  BY <1>1, RecordsType
<1>7. Legal(c)
  BY <1>1, <1>3, <1>6, LegalBegins
<1>8. c[Len(c)] = s[p]
  BY <1>3, <1>4, <1>5
<1>9. QED
  BY <1>1, <1>3, <1>5, <1>7, <1>8

\* The checkpoint of the save is one that restores.
Restorable ==
  checkpoint = 0 \/ RestoreAllowed(log[checkpoint].snapshot,
                                   Records(SubSeq(log, 1, checkpoint)), Marked(log))

\* What is opened is like the engine that wrote the save.
LEMMA OpenedReproduces ==
  ASSUME log \in Seq(Items), checkpoint \in 0..Len(log),
         checkpoint # 0 => IsRecord(log[checkpoint]), Legal(Records(log)), Placed(log, opening)
  PROVE  /\ Opened \in Engines /\ ~Opened.enabled /\ (Opened.valid <=> Restorable)
         /\ Opened.valid => Like(Opened, Ran(Records(log))) /\ Opened.marked = Marked(log)
<1>1. PICK s, p : s = log /\ p = checkpoint
  OBVIOUS
<1>2. PICK h, c, marked : h = Records(s) /\ c = Records(SubSeq(s, 1, p)) /\ marked = Marked(s)
  OBVIOUS
<1>3. s \in Seq(Items) /\ Len(s) \in Nat /\ DOMAIN s = 1..Len(s) /\ p \in 0..Len(s)
  BY <1>1, LenProperties
<1>4. h \in Seq(Recs) /\ Legal(h)
  BY <1>1, <1>2, <1>3, RecordsType
<1> DEFINE first == IF p = 0 THEN Fresh ELSE Restored(s[p].snapshot, c, marked)
           allowed == p = 0 \/ RestoreAllowed(s[p].snapshot, c, marked)
<1>5. /\ c \in Seq(Recs) /\ Len(c) \in 0..Len(h)
      /\ first \in Engines /\ (first.valid <=> allowed)
      /\ first.valid => Like(first, Ran(SubSeq(h, 1, Len(c))))
  <2>1. CASE p = 0
    <3>1. c = <<>> /\ Len(c) = 0 /\ c \in Seq(Recs)
      <4>1. c = <<>>
        BY <1>2, <1>3, <2>1, RecordsGrow
      <4>2. QED
        BY <4>1, EmptySeq
    <3>2. SubSeq(h, 1, 0) = <<>> /\ Ran(<<>>) = Fresh
      BY <1>4, Beginnings, RanStep
    <3>3. first = Fresh /\ Fresh \in Engines /\ Fresh.valid
      BY <2>1, FreshType
    <3>4. Like(Fresh, Fresh)
      BY DEF Like
    <3>5. Len(h) \in Nat
      BY <1>4, LenProperties
    <3>6. Len(c) \in 0..Len(h)
      BY <3>1, <3>5
    <3>7. allowed
      BY <2>1
    <3> HIDE DEF first, allowed
    <3>8. QED
      BY <3>1, <3>2, <3>3, <3>4, <3>6, <3>7
  <2>2. CASE p # 0
    <3>1. p \in 1..Len(s) /\ IsRecord(s[p])
      BY <1>1, <1>3, <2>2
    <3>2. /\ c \in Seq(Recs) /\ Legal(c) /\ Len(c) # 0 /\ Len(c) \in 0..Len(h)
          /\ c = SubSeq(h, 1, Len(c)) /\ c[Len(c)] = s[p]
      BY <1>2, <1>3, <1>4, <3>1, CoveredIs
    <3>3. PICK e : e = Restored(s[p].snapshot, c, marked)
      OBVIOUS
    <3>4. /\ e \in Engines /\ (e.valid <=> RestoreAllowed(s[p].snapshot, c, marked))
          /\ e.valid => Like(e, Ran(c))
      BY <3>2, <3>3, RestoredLike
    <3>5. first = e /\ (allowed <=> RestoreAllowed(s[p].snapshot, c, marked))
      BY <2>2, <3>3
    <3> HIDE DEF first, allowed
    <3>6. QED
      BY <3>2, <3>4, <3>5
  <2>3. QED
    BY <2>1, <2>2
<1> HIDE DEF first, allowed
<1>6. PICK f0 : f0 = first
  OBVIOUS
<1>7. PICK start : start = [f0 EXCEPT !.marked = marked, !.enabled = marked]
  OBVIOUS
<1>8. marked \in BOOLEAN
  BY <1>2 DEF Marked, Contains
<1>9. /\ start \in Engines /\ start.valid = f0.valid /\ start.marked = marked
      /\ start.enabled = marked
      /\ start.valid => Like(start, Ran(SubSeq(h, 1, Len(c))))
  <2>1. f0 \in [valid : BOOLEAN, branch : Branches, game : Games, boundaries : Seq(Bounds),
                receipts : [Requests -> Nat], count : Nat, marked : BOOLEAN, enabled : BOOLEAN]
    BY <1>5, <1>6 DEF Engines
  <2>2. start = [valid |-> f0.valid, branch |-> f0.branch, game |-> f0.game,
                 boundaries |-> f0.boundaries, receipts |-> f0.receipts, count |-> f0.count,
                 marked |-> marked, enabled |-> marked]
    BY <1>7, <2>1
  <2>3. start \in Engines
    BY <1>8, <2>1, <2>2 DEF Engines
  <2>4. start.valid => Like(start, Ran(SubSeq(h, 1, Len(c))))
    BY <1>5, <1>6, <2>2 DEF Like
  <2>5. QED
    BY <2>2, <2>3, <2>4
<1>10. \A i \in 1..Len(h) : h[i].kind \in WizardKinds => start.enabled
  BY <1>1, <1>2, <1>9, WizardsAfterMarker
<1>11. PICK end : end = Replayed(start, h, Len(c))
  OBVIOUS
<1>12. /\ end \in Engines /\ end.valid = start.valid
       /\ end.valid => Like(end, Ran(h)) /\ end.marked = start.marked
  BY <1>4, <1>5, <1>9, <1>10, <1>11, ReplayReproduces
<1>13. Ordered
  BY <1>1, <1>3, WizardsAfterMarker DEF Ordered
<1>14. Opened = [end EXCEPT !.enabled = FALSE]
  <2>1. Loaded = f0
    BY <1>1, <1>2, <1>6 DEF Loaded, first
  <2>2. [Loaded EXCEPT !.marked = Marked(log), !.enabled = Marked(log)] = start
    BY <1>1, <1>2, <1>7, <2>1
  <2>3. Replayed(start, Records(log), Len(Records(SubSeq(log, 1, checkpoint)))) = end
    BY <1>1, <1>2, <1>11
  <2>4. QED
    BY <1>13, <2>2, <2>3 DEF Opened
<1>15. PICK o : o = [end EXCEPT !.enabled = FALSE]
  OBVIOUS
<1>16. /\ o \in Engines /\ ~o.enabled /\ o.valid = end.valid /\ o.marked = end.marked
       /\ Like(o, end)
  <2>1. end \in [valid : BOOLEAN, branch : Branches, game : Games, boundaries : Seq(Bounds),
                 receipts : [Requests -> Nat], count : Nat, marked : BOOLEAN, enabled : BOOLEAN]
    BY <1>12 DEF Engines
  <2>2. o = [valid |-> end.valid, branch |-> end.branch, game |-> end.game,
             boundaries |-> end.boundaries, receipts |-> end.receipts, count |-> end.count,
             marked |-> end.marked, enabled |-> FALSE]
    BY <1>15, <2>1
  <2>3. o \in Engines
    BY <2>1, <2>2 DEF Engines
  <2>4. QED
    BY <2>2, <2>3 DEF Like
<1>17. o.valid <=> allowed
  BY <1>5, <1>6, <1>9, <1>12, <1>16
<1>18. o.valid => Like(o, Ran(h)) /\ o.marked = marked
  BY <1>9, <1>12, <1>16 DEF Like
<1>19. Restorable <=> allowed
  BY <1>1, <1>2 DEF Restorable, allowed
<1>20. QED
  BY <1>1, <1>2, <1>14, <1>15, <1>16, <1>17, <1>18, <1>19

-----------------------------------------------------------------------------
(* A log that grows and a log that is cut *)

\* The record of a command fits the engine that permits it, and means the
\* same to it as the command.
LEMMA RecordFits ==
  ASSUME NEW e \in Engines, NEW k \in Kinds, NEW id \in Ids, NEW by \in Requests \cup {None},
         NEW b, b = e.branch, NEW t \in Branches,
         k = "rewind" => Restores(e, t) # {}, by # None => e.receipts[by] = 0
  PROVE  LET c == [kind |-> k, id |-> id, by |-> by, branch |-> b, target |-> t]
             x == Record(c, Committed(e, c))
         IN  /\ x \in Recs /\ Fits(e, x) /\ Committed(e, x) = Committed(e, c)
             /\ x.kind = k /\ x.id = id /\ x.by = by /\ x.snapshot.marked = e.marked
<1>1. PICK c : c = [kind |-> k, id |-> id, by |-> by, branch |-> b, target |-> t]
  OBVIOUS
<1>2. PICK d : d = Committed(e, c)
  OBVIOUS
<1>3. PICK x : x = Record(c, d)
  OBVIOUS
<1>4. c.kind \in Kinds /\ c.id \in Ids /\ c.by \in Requests \cup {None}
      /\ (c.kind = "rewind" => Restores(e, c.target) # {})
  BY <1>1
<1>5. d \in Engines /\ d.marked = e.marked
  BY <1>2, <1>4, CommittedFields
<1>6. x = [kind |-> k, id |-> id, by |-> by, branch |-> b, target |-> t, leaves |-> d.branch,
           snapshot |-> Snapshot(d)]
  BY <1>1, <1>3 DEF Record
<1>7. Snapshot(d) \in Snaps
  BY <1>5 DEF Engines, Snapshot, Snaps
<1>8. b \in Branches /\ d.branch \in Branches
  BY <1>5 DEF Engines
<1>9. x \in Recs
  BY <1>6, <1>7, <1>8 DEF Recs
<1>10. Committed(e, x) = d
  <2>1. x.kind = c.kind /\ x.id = c.id /\ x.by = c.by /\ x.target = c.target
    BY <1>1, <1>6
  <2>2. GameAfter(e, x) = GameAfter(e, c)
    BY <2>1 DEF GameAfter
  <2>3. QED
    BY <1>2, <2>1, <2>2 DEF Committed
<1>11. Fits(e, x)
  <2>1. x.branch = e.branch /\ x.kind = k /\ x.target = t /\ x.by = by /\ x.leaves = d.branch
        /\ x.snapshot = Snapshot(d)
    BY <1>6
  <2>2. QED
    BY <1>10, <2>1 DEF Fits, Snapshot
<1>12. x.snapshot.marked = e.marked
  BY <1>5, <1>6 DEF Snapshot
<1>13. QED
  BY <1>1, <1>2, <1>3, <1>6, <1>9, <1>10, <1>11, <1>12

\* A record that fits is added to a legal history.
LEMMA RecordAccepted ==
  ASSUME NEW s \in Seq(Items), Legal(Records(s)), NEW e \in Engines,
         Like(e, Ran(Records(s))), NEW x \in Recs, Fits(e, x)
  PROVE  LET d == Committed(e, x)
             t == Append(s, x)
         IN  /\ Legal(Records(t)) /\ Like(d, Ran(Records(t)))
             /\ d \in Engines /\ d.marked = e.marked /\ d.enabled = e.enabled
<1>1. PICK h, g : h = Records(s) /\ g = Ran(h)
  OBVIOUS
<1>2. h \in Seq(Recs) /\ g \in Engines
  BY <1>1, RecordsType, LegalRan
<1>3. IsRecord(x) /\ x \in Items
  BY ItemKinds DEF Items
<1>4. Records(Append(s, x)) = Append(h, x)
  BY <1>1, <1>3, RecordsAppend
<1>5. Like(g, e)
  BY <1>1 DEF Like
<1>6. Fits(g, x)
  BY <1>2, <1>5, FitsLike
<1>7. Legal(Append(h, x)) /\ Ran(Append(h, x)) = Committed(g, x)
  BY <1>1, <1>2, <1>6, LegalGrows, RanStep
<1>8. x.kind \in Kinds /\ x.id \in Ids /\ x.by \in Requests \cup {None}
      /\ (x.kind = "rewind" => Restores(e, x.target) # {})
  BY DEF Recs, Fits
<1>9. Like(Committed(e, x), Committed(g, x))
  BY <1>1, <1>2, <1>8, CommittedLike
<1>10. PICK d : d = Committed(e, x)
  OBVIOUS
<1>11. d \in Engines /\ d.marked = e.marked /\ d.enabled = e.enabled
  BY <1>8, <1>10, CommittedFields
<1>12. QED
  BY <1>4, <1>7, <1>9, <1>10, <1>11

\* The beginnings of a log that grows.
LEMMA AppendBegins ==
  ASSUME NEW S, NEW s \in Seq(S), NEW x \in S
  PROVE  \A k \in 0..Len(s) : SubSeq(Append(s, x), 1, k) = SubSeq(s, 1, k)
<1> SUFFICES ASSUME NEW k \in 0..Len(s) PROVE SubSeq(Append(s, x), 1, k) = SubSeq(s, 1, k)
  OBVIOUS
<1>1. PICK t : t = Append(s, x)
  OBVIOUS
<1>2. /\ t \in Seq(S) /\ Len(t) = Len(s) + 1 /\ Len(s) \in Nat
      /\ \A i \in 1..Len(s) : t[i] = s[i]
  BY <1>1, AppendProperties, LenProperties
<1>3. PICK u, v : u = SubSeq(t, 1, k) /\ v = SubSeq(s, 1, k)
  OBVIOUS
<1>4. k \in 0..Len(t) /\ \A i \in 1..k : i \in 1..Len(s)
  BY <1>2
<1>5. u \in Seq(S) /\ Len(u) = k /\ \A i \in 1..k : u[i] = t[i]
  BY <1>2, <1>3, <1>4, Beginnings
<1>6. v \in Seq(S) /\ Len(v) = k /\ \A i \in 1..k : v[i] = s[i]
  BY <1>3, Beginnings
<1>7. \A i \in 1..k : u[i] = v[i]
  BY <1>2, <1>4, <1>5, <1>6
<1>8. u = v
  BY <1>5, <1>6, <1>7, SeqEqual
<1>9. QED
  BY <1>1, <1>3, <1>8

\* A log that grows stays placed.
LEMMA PlacedGrows ==
  ASSUME NEW s \in Seq(Items), NEW o, Placed(s, o), NEW x \in Items,
         IsRecord(x) => /\ x.id[2] = Len(s) + 1 /\ x.id[1] <= o
                        /\ x.snapshot.marked = Marked(s)
                        /\ x.kind \in WizardKinds => x.snapshot.marked
  PROVE  Placed(Append(s, x), o)
<1>1. PICK t, n : t = Append(s, x) /\ n = Len(s)
  OBVIOUS
<1>2. /\ t \in Seq(Items) /\ Len(t) = n + 1 /\ t[n + 1] = x /\ n \in Nat
      /\ \A i \in 1..n : t[i] = s[i]
  BY <1>1, AppendProperties, LenProperties
<1>3. ASSUME NEW i \in 1..(n + 1), IsRecord(t[i])
      PROVE  /\ t[i].id[2] = i /\ t[i].id[1] <= o
             /\ t[i].snapshot.marked = Marked(SubSeq(t, 1, i - 1))
             /\ t[i].kind \in WizardKinds => t[i].snapshot.marked
  <2>1. i - 1 \in 0..n
    BY <1>2
  <2>2. SubSeq(t, 1, i - 1) = SubSeq(s, 1, i - 1)
    BY <1>1, <2>1, AppendBegins
  <2>3. CASE i = n + 1
    <3>1. i - 1 = n /\ SubSeq(s, 1, n) = s
      BY <1>1, <1>2, <2>3, Beginnings
    <3>2. t[i] = x
      BY <1>2, <2>3
    <3>3. QED
      BY <1>1, <1>3, <2>2, <2>3, <3>1, <3>2
  <2>4. CASE i # n + 1
    <3>1. i \in 1..n
      BY <1>2, <2>4
    <3>2. t[i] = s[i]
      BY <1>2, <3>1
    <3>3. QED
      BY <1>1, <1>3, <2>2, <3>1, <3>2 DEF Placed
  <2>5. QED
    BY <2>3, <2>4
<1>4. QED
  BY <1>1, <1>2, <1>3 DEF Placed

\* And one that is cut.
LEMMA PlacedCut ==
  ASSUME NEW s \in Seq(Items), NEW o, Placed(s, o), NEW n \in 0..Len(s)
  PROVE  Placed(SubSeq(s, 1, n), o)
<1>1. PICK t : t = SubSeq(s, 1, n)
  OBVIOUS
<1>2. Len(t) = n /\ Len(s) \in Nat /\ \A i \in 1..n : t[i] = s[i]
  BY <1>1, Beginnings, LenProperties
<1>3. ASSUME NEW i \in 1..n, IsRecord(t[i])
      PROVE  /\ t[i].id[2] = i /\ t[i].id[1] <= o
             /\ t[i].snapshot.marked = Marked(SubSeq(t, 1, i - 1))
             /\ t[i].kind \in WizardKinds => t[i].snapshot.marked
  <2>1. i - 1 \in 0..n /\ i \in 1..Len(s)
    BY <1>2
  <2>2. SubSeq(t, 1, i - 1) = SubSeq(s, 1, i - 1)
    BY <1>1, <2>1, BeginningBegins
  <2>3. t[i] = s[i]
    BY <1>2
  <2>4. QED
    BY <1>3, <2>1, <2>2, <2>3 DEF Placed
<1>4. QED
  BY <1>1, <1>2, <1>3 DEF Placed

\* The identity of a record is its own.
LEMMA OneIdEach ==
  ASSUME NEW s \in Seq(Items), NEW o, Placed(s, o), NEW i \in 1..Len(s), NEW j \in 1..Len(s),
         IsRecord(s[i]), IsRecord(s[j]), s[i].id = s[j].id
  PROVE  i = j
<1>1. s[i].id[2] = i /\ s[j].id[2] = j
  BY DEF Placed
<1>2. QED
  BY <1>1

\* What was answered is answered by a log that grows.
LEMMA AnsweredGrows ==
  ASSUME NEW s \in Seq(Items), NEW given, NEW other, Answered(s, given), NEW x \in Items,
         \A r \in Requests : other[r] \in {None, given[r]} \/
           (IsRecord(x) /\ x.id = other[r] /\ x.by = r)
  PROVE  Answered(Append(s, x), other)
<1>1. PICK t, n : t = Append(s, x) /\ n = Len(s)
  OBVIOUS
<1>2. /\ t \in Seq(Items) /\ Len(t) = n + 1 /\ t[n + 1] = x /\ n \in Nat
      /\ \A i \in 1..n : t[i] = s[i]
  BY <1>1, AppendProperties, LenProperties
<1>3. ASSUME NEW r \in Requests, other[r] # None
      PROVE  \E i \in 1..(n + 1) : IsRecord(t[i]) /\ t[i].id = other[r] /\ t[i].by = r
  <2>1. CASE other[r] = given[r]
    <3>1. PICK i \in 1..n : IsRecord(s[i]) /\ s[i].id = other[r] /\ s[i].by = r
      BY <1>1, <1>3, <2>1 DEF Answered
    <3>2. i \in 1..(n + 1) /\ t[i] = s[i]
      BY <1>2
    <3>3. QED
      BY <3>1, <3>2
  <2>2. CASE IsRecord(x) /\ x.id = other[r] /\ x.by = r
    <3>1. n + 1 \in 1..(n + 1)
      BY <1>2
    <3>2. QED
      BY <1>2, <2>2, <3>1
  <2>3. QED
    BY <1>3, <2>1, <2>2
<1>4. QED
  BY <1>1, <1>2, <1>3 DEF Answered

-----------------------------------------------------------------------------
(* The boundaries of a whole history *)

\* A boundary before it has a game, and that of the start.
Trans == [id : Branches, selectable : BOOLEAN, at : Nat]
Start == [id |-> None, selectable |-> TRUE, at |-> 0]

\* The boundary each record would leave, and which records do.
Row(r, i) == [id |-> r.id, at |-> i, selectable |-> r.kind \notin Private]
Rows(h)   == [i \in DOMAIN h |-> Row(h[i], i)]
Owning(h) == {i \in DOMAIN h : h[i].kind # "note"}

\* What the boundaries of a history are picked from.
LEMMA TransactionsAre ==
  ASSUME NEW h \in Seq(Recs)
  PROVE  /\ Start \in Trans /\ Rows(h) \in Seq(Trans) /\ Len(Rows(h)) = Len(h)
         /\ \A i \in 1..Len(h) : Rows(h)[i] = Row(h[i], i) /\ Row(h[i], i) \in Trans
         /\ \A i \in 1..Len(h) : i \in Owning(h) <=> h[i].kind # "note"
         /\ Picked(Rows(h), Owning(h)) \in Seq(Trans)
         /\ Transactions(h) = <<Start>> \o Picked(Rows(h), Owning(h))
<1>1. DOMAIN h = 1..Len(h) /\ Len(h) \in Nat
  BY LenProperties
<1>2. ASSUME NEW i \in 1..Len(h) PROVE Row(h[i], i) \in Trans
  <2>1. h[i] \in Recs /\ i \in Nat
    BY <1>1, ElementOfSeq
  <2>2. h[i].id \in Branches
    BY <2>1 DEF Recs, Branches
  <2>3. (h[i].kind \notin Private) \in BOOLEAN
    OBVIOUS
  <2>4. QED
    BY <2>1, <2>2, <2>3 DEF Row, Trans
<1>3. Rows(h) = [i \in 1..Len(h) |-> Row(h[i], i)]
  BY <1>1 DEF Rows
<1>4. Rows(h) \in [1..Len(h) -> Trans]
  BY <1>2, <1>3
<1>5. Rows(h) \in Seq(Trans) /\ DOMAIN Rows(h) = 1..Len(h)
  BY <1>1, <1>4, SeqDef
<1>6. Len(Rows(h)) = Len(h)
  BY <1>1, <1>5, LenProperties
<1>7. Picked(Rows(h), Owning(h)) \in Seq(Trans)
  BY <1>5, PickedType
<1>8. Start \in Trans
  BY DEF Start, Trans, Branches
<1>9. Transactions(h) = <<Start>> \o Picked(Rows(h), Owning(h))
  BY DEF Transactions, Start, Rows, Row, Owning
<1>10. \A i \in 1..Len(h) : i \in Owning(h) <=> h[i].kind # "note"
  BY <1>1 DEF Owning
<1>11. QED
  BY <1>2, <1>3, <1>5, <1>6, <1>7, <1>8, <1>9, <1>10

\* Nothing but the start.
LEMMA TransactionsEmpty == Transactions(<<>>) = <<Start>>
<1>1. <<>> \in Seq(Recs) /\ Len(<<>>) = 0
  BY EmptySeq
<1>2. PICK r : r = Rows(<<>>)
  OBVIOUS
<1>3. r \in Seq(Trans) /\ Len(r) = 0
  BY <1>1, <1>2, TransactionsAre
<1>4. r = <<>>
  BY <1>3, EmptySeq
<1>5. Picked(r, Owning(<<>>)) = <<>>
  BY <1>4, PickedEmpty
<1>6. Transactions(<<>>) = <<Start>> \o <<>>
  BY <1>1, <1>2, <1>5, TransactionsAre
<1>7. <<Start>> \in Seq(Trans)
  <2>1. Start \in Trans
    BY <1>1, TransactionsAre
  <2>2. QED
    BY <2>1
<1>8. QED
  BY <1>6, <1>7, ConcatEmptySeq

\* One record more.
LEMMA TransactionsGrow ==
  ASSUME NEW h \in Seq(Recs), NEW x \in Recs
  PROVE  /\ Transactions(h) \in Seq(Trans)
         /\ Transactions(Append(h, x)) =
              IF x.kind = "note" THEN Transactions(h)
              ELSE Append(Transactions(h), Row(x, Len(h) + 1))
<1>1. PICK n, t : n = Len(h) /\ t = Append(h, x)
  OBVIOUS
<1>2. /\ t \in Seq(Recs) /\ Len(t) = n + 1 /\ t[n + 1] = x /\ n \in Nat
      /\ \A i \in 1..n : t[i] = h[i]
  BY <1>1, AppendProperties, LenProperties
<1>3. PICK a, b : a = Rows(h) /\ b = Rows(t)
  OBVIOUS
<1>4. a \in Seq(Trans) /\ Len(a) = n /\ \A i \in 1..n : a[i] = Row(h[i], i)
  BY <1>1, <1>3, TransactionsAre
<1>5. /\ b \in Seq(Trans) /\ Len(b) = n + 1 /\ \A i \in 1..(n + 1) : b[i] = Row(t[i], i)
      /\ Row(t[n + 1], n + 1) \in Trans
  <2>1. n + 1 \in 1..(n + 1)
    BY <1>2
  <2>2. QED
    BY <1>2, <1>3, <2>1, TransactionsAre
<1>6. PICK y : y = Row(x, n + 1)
  OBVIOUS
<1>7. y \in Trans
  BY <1>2, <1>5, <1>6
<1>8. b = Append(a, y)
  <2>1. PICK c : c = Append(a, y)
    OBVIOUS
  <2>2. c \in Seq(Trans) /\ Len(c) = n + 1 /\ c[n + 1] = y /\ \A i \in 1..n : c[i] = a[i]
    BY <1>4, <1>7, <2>1, AppendProperties
  <2>3. ASSUME NEW i \in 1..(n + 1) PROVE b[i] = c[i]
    <3>1. CASE i = n + 1
      BY <1>2, <1>5, <1>6, <2>2, <3>1
    <3>2. CASE i # n + 1
      <4>1. i \in 1..n
        BY <1>2, <3>2
      <4>2. QED
        BY <1>2, <1>4, <1>5, <2>2, <4>1
    <3>3. QED
      BY <3>1, <3>2
  <2>4. b = c
    BY <1>5, <2>2, <2>3, SeqEqual
  <2>5. QED
    BY <2>1, <2>4
<1>9. \A i \in 1..n : i \in Owning(h) <=> i \in Owning(t)
  <2>1. \A i \in 1..n : i \in 1..(n + 1)
    BY <1>2
  <2>2. \A i \in 1..n : i \in Owning(h) <=> h[i].kind # "note"
    BY <1>1, TransactionsAre
  <2>3. \A i \in 1..(n + 1) : i \in Owning(t) <=> t[i].kind # "note"
    BY <1>2, TransactionsAre
  <2>4. QED
    BY <1>2, <2>1, <2>2, <2>3
<1>10. n + 1 \in Owning(t) <=> x.kind # "note"
  <2>1. n + 1 \in 1..Len(t)
    BY <1>2
  <2>2. QED
    BY <1>2, <2>1, TransactionsAre
<1>11. PICK p : p = Picked(a, Owning(h))
  OBVIOUS
<1>12. p \in Seq(Trans) /\ Transactions(h) = <<Start>> \o p
  BY <1>3, <1>11, TransactionsAre
<1>13. p = Picked(a, Owning(t))
  BY <1>4, <1>9, <1>11, PickedSame
<1>14. Picked(b, Owning(t)) = IF x.kind # "note" THEN Append(p, y) ELSE p
  <2>1. Picked(Append(a, y), Owning(t)) =
          IF Len(a) + 1 \in Owning(t) THEN Append(Picked(a, Owning(t)), y)
          ELSE Picked(a, Owning(t))
    BY <1>4, <1>7, PickedAppend
  <2>2. Len(a) + 1 \in Owning(t) <=> x.kind # "note"
    BY <1>4, <1>10
  <2>3. QED
    BY <1>8, <1>13, <2>1, <2>2
<1>15. Transactions(t) = <<Start>> \o Picked(b, Owning(t))
  BY <1>2, <1>3, TransactionsAre
<1>16. /\ <<Start>> \in Seq(Trans) /\ <<Start>> \o p \in Seq(Trans)
       /\ <<Start>> \o Append(p, y) = Append(<<Start>> \o p, y)
  <2>1. Start \in Trans
    BY TransactionsAre
  <2>2. <<Start>> \in Seq(Trans) /\ <<y>> \in Seq(Trans)
    BY <1>7, <2>1
  <2>3. <<Start>> \o p \in Seq(Trans)
    BY <1>12, <2>2, ConcatProperties
  <2>4. <<Start>> \o (p \o <<y>>) = (<<Start>> \o p) \o <<y>>
    BY <1>12, <2>2, ConcatAssociative
  <2>5. Append(p, y) = p \o <<y>> /\ Append(<<Start>> \o p, y) = (<<Start>> \o p) \o <<y>>
    BY <1>7, <1>12, <2>3, AppendIsConcat
  <2>6. QED
    BY <2>2, <2>3, <2>4, <2>5
<1>17. Transactions(t) = IF x.kind = "note" THEN Transactions(h)
                         ELSE Append(Transactions(h), y)
  BY <1>12, <1>14, <1>15, <1>16
<1>18. QED
  BY <1>1, <1>6, <1>12, <1>16, <1>17

\* The first boundary is the start; every other is of a record, in their order, and
\* every record but a note has one.
LEMMA TransactionsOf ==
  ASSUME NEW h \in Seq(Recs)
  PROVE  LET T == Transactions(h)
         IN  /\ T \in Seq(Trans) /\ Len(T) \in Nat /\ Len(T) >= 1 /\ T[1] = Start
             /\ \A i \in 2..Len(T) : /\ T[i].at \in 1..Len(h) /\ h[T[i].at].kind # "note"
                                     /\ T[i] = Row(h[T[i].at], T[i].at)
             /\ \A i, j \in 1..Len(T) : i < j => T[i].at < T[j].at
             /\ \A l \in 1..Len(h) : h[l].kind # "note" => \E i \in 2..Len(T) : T[i].at = l
<1>1. PICK T, a, O, p : T = Transactions(h) /\ a = Rows(h) /\ O = Owning(h) /\ p = Picked(a, O)
  OBVIOUS
<1>2. /\ Start \in Trans /\ a \in Seq(Trans) /\ Len(a) = Len(h) /\ p \in Seq(Trans)
      /\ T = <<Start>> \o p /\ Len(p) \in Nat /\ Len(h) \in Nat
  BY <1>1, TransactionsAre, LenProperties
<1>3. \A i \in 1..Len(h) : a[i] = Row(h[i], i) /\ (i \in O <=> h[i].kind # "note")
  BY <1>1, TransactionsAre
<1>4. T \in Seq(Trans) /\ Len(T) = Len(p) + 1 /\ T[1] = Start
      /\ \A m \in 1..Len(p) : T[m + 1] = p[m]
  <2>1. <<Start>> \in Seq(Trans) /\ Len(<<Start>>) = 1 /\ <<Start>>[1] = Start
    BY <1>2
  <2>2. PICK b : b = <<Start>>
    OBVIOUS
  <2>3. b \in Seq(Trans) /\ Len(b) = 1 /\ b[1] = Start
    BY <2>1, <2>2
  <2>4. /\ b \o p \in Seq(Trans) /\ Len(b \o p) = Len(b) + Len(p)
        /\ \A i \in 1..(Len(b) + Len(p)) : (b \o p)[i] = IF i <= Len(b) THEN b[i]
                                                          ELSE p[i - Len(b)]
    <3>1. PICK q : q = b \o p
      OBVIOUS
    <3>2. p \in Seq(Trans) /\ b \in Seq(Trans)
      BY <1>2, <2>3
    <3>3. /\ q \in Seq(Trans) /\ Len(q) = Len(b) + Len(p)
          /\ \A i \in 1..(Len(b) + Len(p)) : q[i] = IF i <= Len(b) THEN b[i] ELSE p[i - Len(b)]
      BY <3>1, <3>2, ConcatProperties
    <3>4. QED
      BY <3>1, <3>3
  <2>5. T = b \o p
    BY <1>2, <2>2
  <2>6. /\ T \in Seq(Trans) /\ Len(T) = 1 + Len(p)
        /\ \A i \in 1..(1 + Len(p)) : T[i] = IF i <= 1 THEN b[i] ELSE p[i - 1]
    BY <2>3, <2>4, <2>5
  <2>7. 1 \in 1..(1 + Len(p)) /\ 1 <= 1
    BY <1>2
  <2>8. T[1] = Start
    BY <2>3, <2>6, <2>7
  <2>9. ASSUME NEW m \in 1..Len(p) PROVE T[m + 1] = p[m]
    <3>1. m + 1 \in 1..(1 + Len(p)) /\ ~(m + 1 <= 1) /\ (m + 1) - 1 = m
      BY <1>2
    <3>2. QED
      BY <2>6, <3>1
  <2>10. QED
    BY <1>2, <2>6, <2>8, <2>9
<1>5. ASSUME NEW m \in 1..Len(p)
      PROVE  \E i \in 1..Len(h) : i \in O /\ Place(a, O, i) = m /\ p[m] = Row(h[i], i)
                                  /\ p[m].at = i
  <2>1. PICK i \in 1..Len(h) : i \in O /\ Place(a, O, i) = m /\ p[m] = a[i]
    <3>1. m \in 1..Len(Picked(a, O))
      BY <1>1
    <3>2. \E i \in 1..Len(a) : i \in O /\ Place(a, O, i) = m /\ Picked(a, O)[m] = a[i]
      <4>1. a \in Seq(Trans)
        BY <1>2
      <4>2. QED
        BY <3>1, <4>1, PickedFound
    <3>3. QED
      BY <1>1, <1>2, <3>2
  <2>2. p[m] = Row(h[i], i)
    BY <1>3, <2>1
  <2>3. p[m].at = i
    BY <2>2 DEF Row
  <2>4. QED
    BY <2>1, <2>2, <2>3
<1>6. ASSUME NEW i \in 2..Len(T)
      PROVE  /\ i - 1 \in 1..Len(p) /\ T[i] = p[i - 1]
             /\ T[i].at \in 1..Len(h) /\ h[T[i].at].kind # "note"
             /\ T[i] = Row(h[T[i].at], T[i].at)
  <2>1. i - 1 \in 1..Len(p) /\ (i - 1) + 1 = i
    BY <1>2, <1>4
  <2>2. T[i] = p[i - 1]
    BY <1>4, <2>1
  <2>3. PICK l \in 1..Len(h) : l \in O /\ p[i - 1] = Row(h[l], l) /\ p[i - 1].at = l
    BY <1>5, <2>1
  <2>4. h[l].kind # "note"
    BY <1>3, <2>3
  <2>5. T[i].at = l /\ T[i] = Row(h[l], l)
    BY <2>2, <2>3
  <2>6. QED
    BY <2>1, <2>2, <2>4, <2>5
<1>7. ASSUME NEW i \in 1..Len(T), NEW j \in 1..Len(T), i < j PROVE T[i].at < T[j].at
  <2>1. j \in 2..Len(T)
    BY <1>2, <1>4, <1>7
  <2>2. CASE i = 1
    <3>1. T[j].at \in 1..Len(h)
      BY <1>6, <2>1
    <3>2. T[i].at = 0
      BY <1>4, <2>2 DEF Start
    <3>3. QED
      BY <1>2, <3>1, <3>2
  <2>3. CASE i # 1
    <3>1. i \in 2..Len(T)
      BY <1>2, <1>4, <2>3
    <3>2. PICK k, l : k = i - 1 /\ l = j - 1
      OBVIOUS
    <3>3. k \in 1..Len(p) /\ l \in 1..Len(p) /\ T[i] = p[k] /\ T[j] = p[l] /\ k < l
      BY <1>2, <1>6, <1>7, <2>1, <3>1, <3>2
    <3>4. PICK x \in 1..Len(h) : x \in O /\ Place(a, O, x) = k /\ p[k].at = x
      BY <1>5, <3>3
    <3>5. PICK y \in 1..Len(h) : y \in O /\ Place(a, O, y) = l /\ p[l].at = y
      BY <1>5, <3>3
    <3>6. SUFFICES ASSUME ~(x < y) PROVE FALSE
      BY <3>3, <3>4, <3>5
    <3>7. y <= x /\ x \in 0..Len(a) /\ y \in 0..Len(a)
      BY <1>2, <3>6
    <3>8. Place(a, O, y) <= Place(a, O, x)
      BY <1>2, <3>7, PlacesIncrease
    <3>9. l <= k /\ k \in Nat /\ l \in Nat
      BY <1>2, <3>3, <3>4, <3>5, <3>8
    <3>10. QED
      BY <3>3, <3>9
  <2>4. QED
    BY <2>2, <2>3
<1>8. ASSUME NEW l \in 1..Len(h), h[l].kind # "note" PROVE \E i \in 2..Len(T) : T[i].at = l
  <2>1. l \in O /\ l \in 1..Len(a)
    BY <1>2, <1>3, <1>8
  <2>2. PICK m : m = Place(a, O, l)
    OBVIOUS
  <2>3. m \in 1..Len(p) /\ p[m] = a[l]
    BY <1>1, <1>2, <2>1, <2>2, PickedPlace
  <2>4. m + 1 \in 2..Len(T) /\ T[m + 1] = p[m]
    BY <1>2, <1>4, <2>3
  <2>5. T[m + 1].at = l
    <3>1. T[m + 1] = Row(h[l], l)
      BY <1>3, <2>3, <2>4
    <3>2. QED
      BY <3>1 DEF Row
  <2>6. QED
    BY <2>4, <2>5
<1>9. Len(T) \in Nat /\ Len(T) >= 1
  BY <1>2, <1>4
<1>10. QED
  BY <1>1, <1>4, <1>6, <1>7, <1>8, <1>9

-----------------------------------------------------------------------------
(* The boundaries of an engine *)

\* The games after each record, and the boundaries of a history with their games.
GamesOf(h)  == [k \in 0..Len(h) |-> Ran(SubSeq(h, 1, k)).game]
Mark(t, g)  == [id |-> t.id, selectable |-> t.selectable, game |-> g[t.at]]
Marks(T, g) == [i \in DOMAIN T |-> Mark(T[i], g)]

\* The boundaries of one transaction more.
LEMMA MarksGrow ==
  ASSUME NEW T \in Seq(Trans), NEW t \in Trans, NEW g
  PROVE  /\ Marks(Append(T, t), g) = Append(Marks(T, g), Mark(t, g))
         /\ Len(Marks(T, g)) = Len(T) /\ \A i \in 1..Len(T) : Marks(T, g)[i] = Mark(T[i], g)
         /\ Kept(Marks(T, g)) = Kept(T)
         /\ \E S : Marks(T, g) \in Seq(S) /\ Mark(t, g) \in S
<1>1. PICK n, u, a, b : n = Len(T) /\ u = Append(T, t) /\ a = Marks(T, g) /\ b = Marks(u, g)
  OBVIOUS
<1>2. /\ u \in Seq(Trans) /\ Len(u) = n + 1 /\ u[n + 1] = t /\ n \in Nat
      /\ \A i \in 1..n : u[i] = T[i]
      /\ DOMAIN T = 1..n /\ DOMAIN u = 1..(n + 1)
  BY <1>1, AppendProperties, LenProperties
<1>3. a = [i \in 1..n |-> Mark(T[i], g)] /\ b = [i \in 1..(n + 1) |-> Mark(u[i], g)]
  BY <1>1, <1>2 DEF Marks
<1>4. PICK S : S = {Mark(u[i], g) : i \in 1..(n + 1)}
  OBVIOUS
<1>5. \A i \in 1..n : i \in 1..(n + 1) /\ Mark(u[i], g) = Mark(T[i], g)
  BY <1>2
<1>6. a \in [1..n -> S] /\ b \in [1..(n + 1) -> S]
  BY <1>3, <1>4, <1>5
<1>7. a \in Seq(S) /\ b \in Seq(S) /\ DOMAIN a = 1..n /\ DOMAIN b = 1..(n + 1)
  BY <1>2, <1>6, SeqDef
<1>8. Len(a) = n /\ Len(b) = n + 1
  BY <1>2, <1>7, LenProperties
<1>9. Mark(t, g) \in S
  <2>1. n + 1 \in 1..(n + 1)
    BY <1>2
  <2>2. QED
    BY <1>2, <1>4, <2>1
<1>10. b = Append(a, Mark(t, g))
  <2>1. PICK c : c = Append(a, Mark(t, g))
    OBVIOUS
  <2>2. /\ c \in Seq(S) /\ Len(c) = n + 1 /\ c[n + 1] = Mark(t, g)
        /\ \A i \in 1..n : c[i] = a[i]
    BY <1>7, <1>8, <1>9, <2>1, AppendProperties
  <2>3. ASSUME NEW i \in 1..(n + 1) PROVE b[i] = c[i]
    <3>1. CASE i = n + 1
      BY <1>2, <1>3, <2>2, <3>1
    <3>2. CASE i # n + 1
      <4>1. i \in 1..n
        BY <1>2, <3>2
      <4>2. QED
        BY <1>3, <1>5, <2>2, <4>1
    <3>3. QED
      BY <3>1, <3>2
  <2>4. b = c
    BY <1>7, <1>8, <2>2, <2>3, SeqEqual
  <2>5. QED
    BY <2>1, <2>4
<1>11. Kept(a) = Kept(T)
  <2>1. \A i \in 1..n : a[i].selectable = T[i].selectable
    BY <1>3 DEF Mark
  <2>2. SelectableAt(a) = SelectableAt(T)
    BY <1>2, <1>7, <2>1 DEF SelectableAt
  <2>3. QED
    BY <1>2, <1>7, <2>2 DEF Kept
<1>12. \A i \in 1..n : a[i] = Mark(T[i], g)
  BY <1>3
<1>13. QED
  BY <1>1, <1>7, <1>8, <1>9, <1>10, <1>11, <1>12

\* One record of a legal history.
LEMMA LegalStep ==
  ASSUME NEW h \in Seq(Recs), Legal(h), NEW k \in 1..Len(h)
  PROVE  LET e == Ran(SubSeq(h, 1, k - 1))
             d == Ran(SubSeq(h, 1, k))
             c == h[k]
         IN  /\ e \in Engines /\ d \in Engines /\ c \in Recs /\ Fits(e, c)
             /\ d.game = GameAfter(e, c) /\ d.game \in Games
             /\ c.kind = "note" => d.boundaries = e.boundaries
             /\ c.kind # "note" => d.boundaries =
                  Retain(Append(e.boundaries, [id |-> c.id, selectable |-> c.kind \notin Private,
                                               game |-> d.game]))
<1>1. PICK e, d, c : e = Ran(SubSeq(h, 1, k - 1)) /\ d = Ran(SubSeq(h, 1, k)) /\ c = h[k]
  OBVIOUS
<1>2. k - 1 \in 0..Len(h) /\ k \in 0..Len(h)
  BY LenProperties
<1>3. e \in Engines /\ d \in Engines /\ d = Committed(e, c)
  BY <1>1, <1>2, LegalRuns
<1>4. c \in Recs /\ Fits(e, c)
  BY <1>1, ElementOfSeq DEF Legal
<1>5. c.kind \in Kinds /\ c.id \in Ids /\ c.by \in Requests \cup {None}
      /\ (c.kind = "rewind" => Restores(e, c.target) # {})
  BY <1>4 DEF Recs, Fits
<1>6. PICK game : game = GameAfter(e, c)
  OBVIOUS
<1>7. PICK bounds : bounds = Retain(Append(e.boundaries,
                      [id |-> c.id, selectable |-> c.kind \notin Private, game |-> game]))
  OBVIOUS
<1>8. /\ d.game = game /\ game \in Games
      /\ c.kind = "note" => d.boundaries = e.boundaries
      /\ c.kind # "note" => d.boundaries = bounds
  <2>1. game \in Games
    BY <1>3, <1>5, <1>6, CommittedFields
  <2>2. /\ d.game = game
        /\ d.boundaries = IF c.kind = "note" THEN e.boundaries ELSE bounds
    BY <1>3, <1>6, <1>7 DEF Committed, Engines
  <2>3. QED
    BY <2>1, <2>2
<1>9. /\ d.game = GameAfter(e, c)
      /\ c.kind # "note" => d.boundaries =
           Retain(Append(e.boundaries, [id |-> c.id, selectable |-> c.kind \notin Private,
                                        game |-> d.game]))
  BY <1>6, <1>7, <1>8
<1>10. QED
  BY <1>1, <1>3, <1>4, <1>8, <1>9

\* What is kept of one is the one.
LEMMA KeptOne ==
  ASSUME NEW S, NEW x \in S
  PROVE  Picked(<<x>>, Kept(<<x>>)) = <<x>>
<1>1. <<>> \in Seq(S) /\ Len(<<>>) = 0 /\ <<x>> = Append(<<>>, x)
  BY EmptySeq
<1>2. PICK t : t = <<x>>
  OBVIOUS
<1>3. DOMAIN t = 1..1
  BY <1>2
<1>4. 1 \in Newest(1..1)
  <2>1. 1 \in Nat /\ 1 > 1 - Window
    BY CommandsAssumption
  <2>2. PICK n : n = 1
    OBVIOUS
  <2>3. Newest(1..n) = {i \in 1..n : i > n - Window}
    BY <2>1, <2>2, NewestNumbers
  <2>4. QED
    BY <2>1, <2>2, <2>3
<1>5. PICK kept : kept = Kept(t)
  OBVIOUS
<1>6. 1 \in kept
  BY <1>3, <1>4, <1>5 DEF Kept
<1>7. PICK e : e = <<>>
  OBVIOUS
<1>8. e \in Seq(S) /\ Len(e) + 1 = 1 /\ t = Append(e, x) /\ Picked(e, kept) = e
  BY <1>1, <1>2, <1>7, PickedEmpty
<1>9. Picked(Append(e, x), kept) =
        IF Len(e) + 1 \in kept THEN Append(Picked(e, kept), x) ELSE Picked(e, kept)
  BY <1>8, PickedAppend
<1>10. Len(e) + 1 \in kept
  BY <1>6, <1>8
<1>11. Picked(t, kept) = t
  BY <1>8, <1>9, <1>10, Zenon
<1>12. QED
  BY <1>2, <1>5, <1>11

\* After each record the engine retains what is kept of all the boundaries so far.
LEMMA BoundariesRun ==
  ASSUME NEW h \in Seq(Recs), Legal(h), NEW g, g = GamesOf(h), NEW k \in 0..Len(h)
  PROVE  LET M == Marks(Transactions(SubSeq(h, 1, k)), g)
         IN  Ran(SubSeq(h, 1, k)).boundaries = Picked(M, Kept(M))
<1> DEFINE n == Len(h)
           T(j) == Transactions(SubSeq(h, 1, j))
           M(j) == Marks(T(j), g)
           Good(j) == Ran(SubSeq(h, 1, j)).boundaries = Picked(M(j), Kept(M(j)))
           P == {j \in Nat : j <= n => Good(j)}
<1>1. n \in Nat
  BY LenProperties
<1>2. \A j \in 0..n : g[j] = Ran(SubSeq(h, 1, j)).game
  BY DEF GamesOf
<1>3. 0 \in P
  <2>1. SubSeq(h, 1, 0) = <<>> /\ Ran(<<>>) = Fresh
    BY Beginnings, RanStep
  <2>2. PICK x : x = Mark(Start, g)
    OBVIOUS
  <2>3. M(0) = <<x>>
    <3>1. T(0) = <<Start>>
      <4>1. Transactions(<<>>) = <<Start>>
        BY TransactionsEmpty
      <4>2. QED
        BY <2>1, <4>1
    <3>2. QED
      BY <2>2, <3>1 DEF Marks
  <2>4. x = [id |-> None, selectable |-> TRUE, game |-> {}]
    <3>1. g[0] = {}
      <4>1. 0 \in 0..n
        BY <1>1
      <4>2. g[0] = Ran(SubSeq(h, 1, 0)).game
        BY <1>2, <4>1
      <4>3. Fresh.game = {}
        BY DEF Fresh
      <4>4. QED
        BY <2>1, <4>2, <4>3
    <3>2. QED
      BY <2>2, <3>1 DEF Mark, Start
  <2>5. Fresh.boundaries = <<x>>
    BY <2>4 DEF Fresh
  <2>6. Picked(<<x>>, Kept(<<x>>)) = <<x>>
    BY KeptOne
  <2>7. QED
    BY <2>1, <2>3, <2>5, <2>6
<1>4. ASSUME NEW j \in Nat, j \in P PROVE j + 1 \in P
  <2> SUFFICES ASSUME j + 1 <= n PROVE Good(j + 1)
    OBVIOUS
  <2>1. j + 1 \in 1..n /\ (j + 1) - 1 = j /\ j \in 0..n /\ j + 1 \in 0..n
    BY <1>1
  <2>2. PICK e, d, c, t, m : /\ e = Ran(SubSeq(h, 1, j)) /\ d = Ran(SubSeq(h, 1, j + 1))
                             /\ c = h[j + 1] /\ t = T(j) /\ m = M(j)
    OBVIOUS
  <2>3. /\ c \in Recs /\ e \in Engines
        /\ c.kind = "note" => d.boundaries = e.boundaries
        /\ c.kind # "note" => d.boundaries =
             Retain(Append(e.boundaries, [id |-> c.id, selectable |-> c.kind \notin Private,
                                          game |-> d.game]))
    BY <2>1, <2>2, LegalStep
  <2>4. e.boundaries = Picked(m, Kept(m))
    BY <1>4, <2>1, <2>2
  <2>5. PICK u : u = SubSeq(h, 1, j)
    OBVIOUS
  <2>6. u \in Seq(Recs) /\ Len(u) = j /\ SubSeq(h, 1, j + 1) = Append(u, c)
    <3>1. u \in Seq(Recs) /\ Len(u) = j
      BY <2>1, <2>5, Beginnings
    <3>2. PICK l : l = j + 1
      OBVIOUS
    <3>3. SubSeq(h, 1, l) = Append(SubSeq(h, 1, l - 1), h[l])
      BY <2>1, <3>2, Beginnings
    <3>4. QED
      BY <2>1, <2>2, <2>5, <3>1, <3>2, <3>3
  <2>7. PICK r : r = Row(c, j + 1)
    OBVIOUS
  <2>8. /\ t \in Seq(Trans) /\ t = Transactions(u)
        /\ T(j + 1) = IF c.kind = "note" THEN t ELSE Append(t, r)
    BY <2>2, <2>3, <2>5, <2>6, <2>7, TransactionsGrow
  <2>9. CASE c.kind = "note"
    <3>1. M(j + 1) = m
      BY <2>2, <2>8, <2>9
    <3>2. d.boundaries = e.boundaries
      BY <2>3, <2>9
    <3> HIDE DEF M
    <3>3. QED
      BY <2>2, <2>4, <3>1, <3>2
  <2>10. CASE c.kind # "note"
    <3>1. r \in Trans
      <4>1. r.id \in Branches /\ r.at \in Nat /\ r.selectable \in BOOLEAN
        BY <2>1, <2>3, <2>7 DEF Row, Recs, Branches
      <4>2. QED
        BY <2>7, <4>1 DEF Row, Trans
    <3>2. PICK x : x = Mark(r, g)
      OBVIOUS
    <3>3. M(j + 1) = Append(m, x)
      BY <2>2, <2>8, <2>10, <3>1, <3>2, MarksGrow
    <3>4. PICK S : m \in Seq(S) /\ x \in S
      BY <2>2, <2>8, <3>1, <3>2, MarksGrow
    <3>5. x = [id |-> c.id, selectable |-> c.kind \notin Private, game |-> d.game]
      <4>1. g[j + 1] = d.game
        BY <1>2, <2>1, <2>2
      <4>2. QED
        BY <2>7, <3>2, <4>1 DEF Mark, Row
    <3>6. d.boundaries = Retain(Append(e.boundaries, x))
      BY <2>3, <2>10, <3>5
    <3>7. PICK v, w : v = Append(Picked(m, Kept(m)), x) /\ w = Append(m, x)
      OBVIOUS
    <3>8. v \in Seq(S)
      <4>1. Picked(m, Kept(m)) \in Seq(S)
        BY <3>4, PickedType
      <4>2. QED
        BY <3>4, <3>7, <4>1, AppendProperties
    <3>9. Retain(v) = Picked(v, Kept(v))
      BY <3>8, RetainIs
    <3>10. Picked(v, Kept(v)) = Picked(w, Kept(w))
      BY <3>4, <3>7, KeptGrows
    <3> HIDE DEF M
    <3>11. QED
      BY <2>2, <2>4, <3>3, <3>6, <3>7, <3>9, <3>10
  <2>11. QED
    BY <2>9, <2>10
<1> HIDE DEF P
<1>5. Nat \subseteq P
  BY <1>3, <1>4, NumbersReached
<1>6. Good(k)
  BY <1>1, <1>5 DEF P
<1>7. QED
  BY <1>6

\* The boundaries of an engine that ran a history are the expected ones.
LEMMA BoundariesExpected ==
  ASSUME NEW h \in Seq(Recs), Legal(h), NEW g, g = GamesOf(h)
  PROVE  LET E == Expected(h)
             b == Ran(h).boundaries
         IN  /\ Len(E) = Len(b) /\ DOMAIN E = 1..Len(b)
             /\ \A i \in 1..Len(b) : b[i] = Mark(E[i], g)
             /\ b = [i \in DOMAIN E |-> Mark(E[i], g)]
<1>1. PICK T, M, E, b : /\ T = Transactions(h) /\ M = Marks(T, g) /\ E = Expected(h)
                        /\ b = Ran(h).boundaries
  OBVIOUS
<1>2. Len(h) \in 0..Len(h) /\ SubSeq(h, 1, Len(h)) = h
  BY LenProperties, Beginnings
<1>3. b = Picked(M, Kept(M))
  BY <1>1, <1>2, BoundariesRun
<1>4. E = Picked(T, Kept(T))
  BY <1>1 DEF Expected
<1>5. T \in Seq(Trans) /\ Start \in Trans
  BY <1>1, TransactionsOf, TransactionsAre
<1>6. /\ Len(M) = Len(T) /\ Kept(M) = Kept(T)
      /\ \A i \in 1..Len(T) : M[i] = Mark(T[i], g)
  BY <1>1, <1>5, MarksGrow
<1>7. PICK S : M \in Seq(S)
  BY <1>1, <1>5, MarksGrow
<1>8. PICK K : K = Kept(T)
  OBVIOUS
<1>9. b = Picked(M, K) /\ E = Picked(T, K)
  BY <1>3, <1>4, <1>6, <1>8
<1>10. /\ Len(Picked(T, K)) = Len(Picked(M, K))
       /\ \A m \in 1..Len(Picked(T, K)) : \E i \in 1..Len(T) :
            /\ i \in K /\ Place(T, K, i) = m
            /\ Picked(T, K)[m] = T[i] /\ Picked(M, K)[m] = M[i]
  BY <1>5, <1>6, <1>7, PickedAlike
<1>11. Len(E) = Len(b)
  BY <1>9, <1>10
<1>12. ASSUME NEW m \in 1..Len(b) PROVE b[m] = Mark(E[m], g)
  <2>1. PICK i \in 1..Len(T) : E[m] = T[i] /\ b[m] = M[i]
    BY <1>9, <1>10, <1>11
  <2>2. QED
    BY <1>6, <2>1
<1>13. E \in Seq(Trans) /\ b \in Seq(S)
  BY <1>5, <1>7, <1>9, PickedType
<1>14. DOMAIN E = 1..Len(b) /\ DOMAIN b = 1..Len(b) /\ b = [i \in 1..Len(b) |-> b[i]]
  BY <1>11, <1>13, LenProperties, SeqDef
<1>15. b = [i \in DOMAIN E |-> Mark(E[i], g)]
  BY <1>12, <1>14
<1>16. QED
  BY <1>1, <1>11, <1>12, <1>14, <1>15

-----------------------------------------------------------------------------
(* The game a history leads to *)

\* No two records of a history have one identifier.
Apart(h) == \A i, j \in 1..Len(h) : h[i].id = h[j].id => i = j

\* The boundary of the start, or of a record of the history.
Described(t, h) ==
  t = Start \/ (t.at \in 1..Len(h) /\ h[t.at].kind # "note" /\ t = Row(h[t.at], t.at))

\* The boundaries expected of a history are its own.
LEMMA ExpectedOf ==
  ASSUME NEW h \in Seq(Recs)
  PROVE  LET T == Transactions(h)
             E == Expected(h)
         IN  /\ E = Picked(T, Kept(T)) /\ E \in Seq(Trans) /\ Len(E) \in Nat
             /\ \A m \in 1..Len(E) : \E i \in 1..Len(T) :
                  i \in Kept(T) /\ Place(T, Kept(T), i) = m /\ E[m] = T[i]
             /\ \A m \in 1..Len(E) : Described(E[m], h)
<1>1. PICK T, E, K : T = Transactions(h) /\ E = Expected(h) /\ K = Kept(T)
  OBVIOUS
<1>2. E = Picked(T, K)
  BY <1>1 DEF Expected
<1>3. /\ T \in Seq(Trans) /\ Len(T) \in Nat /\ T[1] = Start
      /\ \A i \in 2..Len(T) : /\ T[i].at \in 1..Len(h) /\ h[T[i].at].kind # "note"
                              /\ T[i] = Row(h[T[i].at], T[i].at)
  BY <1>1, TransactionsOf
<1>4. E \in Seq(Trans) /\ Len(E) \in Nat
  BY <1>2, <1>3, PickedType, LenProperties
<1>5. ASSUME NEW m \in 1..Len(E)
      PROVE  \E i \in 1..Len(T) : i \in K /\ Place(T, K, i) = m /\ E[m] = T[i]
  BY <1>2, <1>3, <1>5, PickedFound
<1>6. ASSUME NEW m \in 1..Len(E) PROVE Described(E[m], h)
  <2>1. PICK i \in 1..Len(T) : E[m] = T[i]
    BY <1>5
  <2>2. CASE i = 1
    BY <1>3, <2>1, <2>2 DEF Described
  <2>3. CASE i # 1
    <3>1. i \in 2..Len(T)
      BY <1>3, <2>3
    <3>2. QED
      BY <1>3, <2>1, <3>1 DEF Described
  <2>4. QED
    BY <2>2, <2>3
<1>7. QED
  BY <1>1, <1>2, <1>4, <1>5, <1>6

\* Where an identifier stands in a history.
AtOf(h, id) == IF id = None THEN 0 ELSE CHOOSE i \in DOMAIN h : h[i].id = id

\* A rewind leads back to the game of an earlier record, or of the start.
LEMMA RewindLeads ==
  ASSUME NEW h \in Seq(Recs), Legal(h), Apart(h), NEW g, g = GamesOf(h),
         NEW k \in 1..Len(h), h[k].kind = "rewind"
  PROVE  AtOf(h, h[k].target) \in 0..(k - 1) /\ g[k] = g[AtOf(h, h[k].target)]
<1>1. PICK n, e, d, c, u, f :
        /\ n = k - 1 /\ u = SubSeq(h, 1, n) /\ e = Ran(u) /\ d = Ran(SubSeq(h, 1, k))
        /\ c = h[k] /\ f = GamesOf(u)
  OBVIOUS
<1>2. n \in 0..Len(h) /\ k \in 0..Len(h) /\ Len(h) \in Nat /\ n \in Nat
  BY <1>1, LenProperties
<1>3. e \in Engines /\ c \in Recs /\ Fits(e, c) /\ d.game = GameAfter(e, c) /\ c.kind = "rewind"
  BY <1>1, LegalStep
<1>4. u \in Seq(Recs) /\ Len(u) = n /\ Legal(u) /\ \A i \in 1..n : u[i] = h[i]
  BY <1>1, <1>2, Beginnings, LegalBegins
<1>5. \A i \in 0..n : f[i] = g[i]
  <2>1. ASSUME NEW i \in 0..n PROVE f[i] = g[i]
    <3>1. SubSeq(u, 1, i) = SubSeq(h, 1, i)
      BY <1>1, <1>2, BeginningBegins
    <3>2. f[i] = Ran(SubSeq(u, 1, i)).game
      BY <1>1, <1>4 DEF GamesOf
    <3>3. i \in 0..Len(h)
      BY <1>2
    <3>4. g[i] = Ran(SubSeq(h, 1, i)).game
      BY <3>3 DEF GamesOf
    <3>5. QED
      BY <3>1, <3>2, <3>4
  <2>2. QED
    BY <2>1
<1>6. PICK b : b = CHOOSE x \in Restores(e, c.target) : TRUE
  OBVIOUS
<1>7. d.game = b.game
  BY <1>3, <1>6 DEF GameAfter
<1>8. b \in Restores(e, c.target)
  BY <1>3, <1>6 DEF Fits
<1>9. PICK E : E = Expected(u)
  OBVIOUS
<1>10. PICK bs : bs = e.boundaries
  OBVIOUS
<1>11. /\ Len(E) = Len(bs) /\ \A i \in 1..Len(bs) : bs[i] = Mark(E[i], f)
  <2>1. LET x == Expected(u)
            y == Ran(u).boundaries
        IN  Len(x) = Len(y) /\ \A i \in 1..Len(y) : y[i] = Mark(x[i], f)
    <3>1. u \in Seq(Recs) /\ Legal(u) /\ f = GamesOf(u)
      BY <1>1, <1>4
    <3>2. QED
      BY <3>1, BoundariesExpected
  <2>2. bs = Ran(u).boundaries
    BY <1>1, <1>10
  <2>3. QED
    BY <1>9, <2>1, <2>2
<1>12. b \in Range(bs) /\ b.id = c.target
  BY <1>8, <1>10 DEF Restores
<1>13. bs \in Seq(Bounds)
  BY <1>3, <1>10 DEF Engines
<1>14. PICK i \in 1..Len(bs) : b = bs[i]
  <2>1. DOMAIN bs = 1..Len(bs)
    BY <1>13, LenProperties
  <2>2. QED
    BY <1>12, <2>1 DEF Range
<1>15. PICK t : t = E[i]
  OBVIOUS
<1>16. b = Mark(t, f) /\ Described(t, u)
  BY <1>4, <1>9, <1>11, <1>14, <1>15, ExpectedOf
<1>17. t.id = c.target /\ d.game = f[t.at]
  BY <1>7, <1>12, <1>16 DEF Mark
<1>18. g[k] = d.game
  BY <1>1, <1>2 DEF GamesOf
<1>19. t.at \in 0..n /\ AtOf(h, c.target) = t.at
  <2>1. CASE t = Start
    BY <1>2, <1>17, <2>1 DEF Start, AtOf
  <2>2. CASE t # Start
    <3>1. t.at \in 1..n /\ t.id = u[t.at].id
      BY <1>4, <1>16, <2>2 DEF Described, Row
    <3>2. PICK a : a = t.at
      OBVIOUS
    <3>3. a \in 1..n /\ a \in 1..Len(h) /\ h[a].id = c.target /\ h[a] \in Recs
      BY <1>2, <1>4, <1>17, <3>1, <3>2, ElementOfSeq
    <3>4. c.target # None
      BY <3>3, CommandsAssumption DEF Recs
    <3>5. DOMAIN h = 1..Len(h)
      BY LenProperties
    <3>6. \A i_1 \in 1..Len(h) : h[i_1].id = c.target => i_1 = a
      BY <3>3 DEF Apart
    <3>7. (CHOOSE i_1 \in 1..Len(h) : h[i_1].id = c.target) = a
      BY <3>3, <3>6
    <3>8. QED
      BY <1>2, <3>2, <3>3, <3>4, <3>5, <3>7 DEF AtOf
  <2>3. QED
    BY <2>1, <2>2
<1>20. QED
  BY <1>1, <1>5, <1>17, <1>18, <1>19

\* The game after each record.
LEMMA GamesStep ==
  ASSUME NEW h \in Seq(Recs), Legal(h), Apart(h), NEW g, g = GamesOf(h)
  PROVE  /\ g[0] = {}
         /\ \A k \in 1..Len(h) :
              /\ h[k].kind = "note" => g[k] = g[k - 1]
              /\ h[k].kind = "rewind" => /\ AtOf(h, h[k].target) \in 0..(k - 1)
                                         /\ g[k] = g[AtOf(h, h[k].target)]
              /\ h[k].kind \notin {"note", "rewind"} => g[k] = g[k - 1] \cup {h[k].id}
<1>1. Len(h) \in Nat
  BY LenProperties
<1>2. g[0] = {}
  <2>1. 0 \in 0..Len(h)
    BY <1>1
  <2>2. g[0] = Ran(SubSeq(h, 1, 0)).game
    BY <2>1 DEF GamesOf
  <2>3. SubSeq(h, 1, 0) = <<>> /\ Ran(<<>>) = Fresh
    BY Beginnings, RanStep
  <2>4. Fresh.game = {}
    BY DEF Fresh
  <2>5. QED
    BY <2>2, <2>3, <2>4
<1>3. ASSUME NEW k \in 1..Len(h)
      PROVE  /\ h[k].kind = "note" => g[k] = g[k - 1]
             /\ h[k].kind = "rewind" => /\ AtOf(h, h[k].target) \in 0..(k - 1)
                                        /\ g[k] = g[AtOf(h, h[k].target)]
             /\ h[k].kind \notin {"note", "rewind"} => g[k] = g[k - 1] \cup {h[k].id}
  <2>1. PICK n, e, d, c : /\ n = k - 1 /\ e = Ran(SubSeq(h, 1, n))
                          /\ d = Ran(SubSeq(h, 1, k)) /\ c = h[k]
    OBVIOUS
  <2>2. d.game = GameAfter(e, c)
    BY <2>1, LegalStep
  <2>3. n \in 0..Len(h) /\ k \in 0..Len(h)
    BY <1>1, <2>1
  <2>4. g[k] = d.game /\ g[n] = e.game
    BY <2>1, <2>3 DEF GamesOf
  <2>5. c.kind = "note" => g[k] = g[n]
    BY <2>2, <2>4 DEF GameAfter
  <2>6. c.kind \notin {"note", "rewind"} => g[k] = g[n] \cup {c.id}
    BY <2>2, <2>4 DEF GameAfter
  <2>7. QED
    BY <2>1, <2>5, <2>6, RewindLeads
<1>4. QED
  BY <1>2, <1>3

\* The game after each record, as the history alone gives it.
Lineal(f, h) ==
  f = [i \in 0..Len(h) |->
        IF i = 0 THEN {}
        ELSE CASE h[i].kind = "note"   -> f[i - 1]
               [] h[i].kind = "rewind" -> f[AtOf(h, h[i].target)]
               [] OTHER                -> f[i - 1] \cup {h[i].id}]

\* It is the game of the engine that ran the history.
LEMMA LineageIs ==
  ASSUME NEW h \in Seq(Recs), Legal(h), Apart(h)
  PROVE  Lineage(h) = GamesOf(h)
<1>1. PICK g : g = GamesOf(h)
  OBVIOUS
<1> DEFINE n == Len(h)
<1>2. n \in Nat
  BY LenProperties
<1>3. /\ g[0] = {}
      /\ \A k \in 1..n :
           /\ h[k].kind = "note" => g[k] = g[k - 1]
           /\ h[k].kind = "rewind" => /\ AtOf(h, h[k].target) \in 0..(k - 1)
                                      /\ g[k] = g[AtOf(h, h[k].target)]
           /\ h[k].kind \notin {"note", "rewind"} => g[k] = g[k - 1] \cup {h[k].id}
  BY <1>1, GamesStep
<1>4. Lineal(g, h)
  <2> DEFINE w == [i \in 0..n |->
                    IF i = 0 THEN {}
                    ELSE CASE h[i].kind = "note"   -> g[i - 1]
                           [] h[i].kind = "rewind" -> g[AtOf(h, h[i].target)]
                           [] OTHER                -> g[i - 1] \cup {h[i].id}]
  <2>1. ASSUME NEW i \in 0..n PROVE g[i] = w[i]
    <3>1. CASE i = 0
      BY <1>3, <3>1
    <3>2. CASE i # 0
      <4>1. i \in 1..n
        BY <1>2, <3>2
      <4>2. w[i] = CASE h[i].kind = "note"   -> g[i - 1]
                     [] h[i].kind = "rewind" -> g[AtOf(h, h[i].target)]
                     [] OTHER                -> g[i - 1] \cup {h[i].id}
        BY <3>2
      <4> HIDE DEF w
      <4>3. QED
        BY <1>3, <4>1, <4>2
    <3>3. QED
      BY <3>1, <3>2
  <2>2. g = [i \in 0..n |-> g[i]]
    BY <1>1 DEF GamesOf
  <2>3. g = w
    BY <2>1, <2>2
  <2>4. QED
    BY <2>3 DEF Lineal
<1> DEFINE l == CHOOSE f : Lineal(f, h)
<1>5. Lineal(l, h)
  BY <1>4
<1>6. Lineage(h) = l
  BY DEF Lineage, Lineal, AtOf
<1> HIDE DEF l
<1>7. \A k \in 0..n : l[k] = g[k]
  <2> DEFINE P == {j \in Nat : j <= n => \A k \in 0..j : l[k] = g[k]}
  <2>1. /\ l[0] = {}
        /\ \A k \in 1..n :
             /\ h[k].kind = "note" => l[k] = l[k - 1]
             /\ h[k].kind = "rewind" => l[k] = l[AtOf(h, h[k].target)]
             /\ h[k].kind \notin {"note", "rewind"} => l[k] = l[k - 1] \cup {h[k].id}
    <3>1. \A k \in 0..n : l[k] = IF k = 0 THEN {}
            ELSE CASE h[k].kind = "note"   -> l[k - 1]
                   [] h[k].kind = "rewind" -> l[AtOf(h, h[k].target)]
                   [] OTHER                -> l[k - 1] \cup {h[k].id}
      BY <1>5 DEF Lineal
    <3>2. ASSUME NEW k \in 1..n
          PROVE  /\ h[k].kind = "note" => l[k] = l[k - 1]
                 /\ h[k].kind = "rewind" => l[k] = l[AtOf(h, h[k].target)]
                 /\ h[k].kind \notin {"note", "rewind"} => l[k] = l[k - 1] \cup {h[k].id}
      <4>1. k \in 0..n /\ k # 0
        BY <1>2
      <4>2. l[k] = CASE h[k].kind = "note"   -> l[k - 1]
                     [] h[k].kind = "rewind" -> l[AtOf(h, h[k].target)]
                     [] OTHER                -> l[k - 1] \cup {h[k].id}
        BY <3>1, <4>1
      <4>3. QED
        BY <4>2
    <3>3. l[0] = {}
      <4>1. 0 \in 0..n
        BY <1>2
      <4>2. \A k \in 0..n : k = 0 => l[k] = {}
        BY <3>1
      <4>3. QED
        BY <4>1, <4>2
    <3>4. QED
      BY <3>2, <3>3
  <2>2. 0 \in P
    <3>1. l[0] = g[0]
      BY <1>3, <2>1
    <3>2. \A k \in 0..0 : k = 0
      OBVIOUS
    <3>3. \A k \in 0..0 : l[k] = g[k]
      BY <3>1, <3>2
    <3>4. 0 \in Nat
      OBVIOUS
    <3>5. QED
      BY <3>3, <3>4
  <2>3. ASSUME NEW j \in Nat, j \in P PROVE j + 1 \in P
    <3> SUFFICES ASSUME j + 1 <= n, NEW k \in 0..(j + 1) PROVE l[k] = g[k]
      OBVIOUS
    <3>1. \A i \in 0..j : l[i] = g[i]
      BY <1>2, <2>3
    <3>2. CASE k <= j
      BY <3>1, <3>2
    <3>3. CASE k = j + 1
      <4>1. k \in 1..n /\ k - 1 \in 0..j /\ k - 1 = j
        BY <1>2, <3>3
      <4>2. l[k - 1] = g[k - 1]
        BY <3>1, <4>1
      <4>3. CASE h[k].kind = "rewind"
        <5>1. PICK a : a = AtOf(h, h[k].target)
          OBVIOUS
        <5>2. a \in 0..j /\ g[k] = g[a] /\ l[k] = l[a]
          BY <1>3, <2>1, <4>1, <4>3, <5>1
        <5>3. QED
          BY <3>1, <5>2
      <4>4. CASE h[k].kind # "rewind"
        BY <1>3, <2>1, <4>1, <4>2, <4>4
      <4>5. QED
        BY <4>3, <4>4
    <3>4. QED
      BY <3>2, <3>3
  <2> HIDE DEF P
  <2>4. Nat \subseteq P
    BY <2>2, <2>3, NumbersReached
  <2>5. n \in P
    BY <1>2, <2>4
  <2>6. QED
    BY <1>2, <2>5 DEF P
<1>8. l = [k \in 0..n |-> l[k]] /\ g = [k \in 0..n |-> g[k]]
  <2>1. g = [k \in 0..n |-> g[k]]
    BY <1>1 DEF GamesOf
  <2>2. l = [k \in 0..n |-> l[k]]
    BY <1>5 DEF Lineal
  <2>3. QED
    BY <2>1, <2>2
<1>9. l = g
  BY <1>7, <1>8
<1>10. QED
  BY <1>1, <1>6, <1>9

-----------------------------------------------------------------------------
(* A checkpoint can be restored *)

\* The newest boundary is always retained.
LEMMA RetainLast ==
  ASSUME NEW S, NEW s \in Seq(S), NEW x \in S
  PROVE  \E y \in Seq(S) : Retain(Append(s, x)) = Append(y, x)
<1>1. PICK v, K : v = Append(s, x) /\ K = Kept(v)
  OBVIOUS
<1>2. v \in Seq(S) /\ Len(v) = Len(s) + 1 /\ Len(s) \in Nat /\ DOMAIN v = 1..Len(v)
  BY <1>1, AppendProperties, LenProperties
<1>3. PICK n : n = Len(v)
  OBVIOUS
<1>4. n \in Nat /\ n \in 1..n /\ n > n - Window
  BY <1>2, <1>3, CommandsAssumption
<1>5. Newest(1..n) = {i \in 1..n : i > n - Window}
  BY <1>4, NewestNumbers
<1>6. n \in Newest(1..n)
  BY <1>4, <1>5
<1>7. n \in K
  BY <1>1, <1>2, <1>3, <1>6 DEF Kept
<1>8. Retain(v) = Picked(v, K)
  BY <1>1, <1>2, RetainIs
<1>9. PICK y : y = Picked(s, K)
  OBVIOUS
<1>10. y \in Seq(S)
  BY <1>9, PickedType
<1>11. Len(s) + 1 \in K
  BY <1>2, <1>3, <1>7
<1>12. Picked(Append(s, x), K) = IF Len(s) + 1 \in K THEN Append(Picked(s, K), x)
                                ELSE Picked(s, K)
  BY PickedAppend
<1>13. Picked(v, K) = Append(y, x)
  BY <1>1, <1>9, <1>11, <1>12
<1>14. QED
  BY <1>1, <1>8, <1>10, <1>13

\* The newest boundary is of the game that is played.
LEMMA LastGame ==
  ASSUME NEW h \in Seq(Recs), Legal(h)
  PROVE  LET e == Ran(h)
         IN  Len(e.boundaries) # 0 /\ e.boundaries[Len(e.boundaries)].game = e.game
<1> DEFINE n == Len(h)
           Ends(e) == Len(e.boundaries) # 0 /\ e.boundaries[Len(e.boundaries)].game = e.game
           P == {j \in Nat : j <= n => Ends(Ran(SubSeq(h, 1, j)))}
<1>1. n \in Nat /\ n \in 0..n
  BY LenProperties
<1>2. 0 \in P
  <2>1. SubSeq(h, 1, 0) = <<>> /\ Ran(<<>>) = Fresh
    BY Beginnings, RanStep
  <2>2. Ends(Fresh)
    BY DEF Fresh
  <2>3. QED
    BY <2>1, <2>2
<1>3. ASSUME NEW j \in Nat, j \in P PROVE j + 1 \in P
  <2> SUFFICES ASSUME j + 1 <= n PROVE Ends(Ran(SubSeq(h, 1, j + 1)))
    OBVIOUS
  <2>1. PICK k : k = j + 1
    OBVIOUS
  <2>2. k \in 1..n /\ k - 1 = j
    BY <1>1, <2>1
  <2>3. PICK e, d, c, x :
          /\ e = Ran(SubSeq(h, 1, k - 1)) /\ d = Ran(SubSeq(h, 1, k)) /\ c = h[k]
          /\ x = [id |-> c.id, selectable |-> c.kind \notin Private, game |-> d.game]
    OBVIOUS
  <2>4. /\ e \in Engines /\ c \in Recs /\ d.game = GameAfter(e, c) /\ d.game \in Games
        /\ c.kind = "note" => d.boundaries = e.boundaries
        /\ c.kind # "note" => d.boundaries = Retain(Append(e.boundaries, x))
    BY <2>2, <2>3, LegalStep
  <2>5. Ends(e)
    BY <1>3, <2>2, <2>3
  <2>6. CASE c.kind = "note"
    BY <2>1, <2>3, <2>4, <2>5, <2>6 DEF GameAfter
  <2>7. CASE c.kind # "note"
    <3>1. x \in Bounds
      BY <2>3, <2>4 DEF Bounds, Recs, Branches
    <3>2. PICK bs : bs = e.boundaries
      OBVIOUS
    <3>3. bs \in Seq(Bounds)
      BY <2>4, <3>2 DEF Engines
    <3>4. PICK y \in Seq(Bounds) : Retain(Append(bs, x)) = Append(y, x)
      BY <3>1, <3>3, RetainLast
    <3>5. /\ d.boundaries = Append(y, x) /\ x.game = d.game
          /\ Len(Append(y, x)) = Len(y) + 1 /\ Len(y) \in Nat
          /\ Append(y, x)[Len(y) + 1] = x
      BY <2>3, <2>4, <2>7, <3>1, <3>2, <3>4, AppendProperties, LenProperties
    <3>6. QED
      BY <2>1, <2>3, <3>5
  <2>8. QED
    BY <2>6, <2>7
<1> HIDE DEF P
<1>4. Nat \subseteq P
  BY <1>2, <1>3, NumbersReached
<1>5. SubSeq(h, 1, n) = h
  BY Beginnings
<1>6. Ends(Ran(SubSeq(h, 1, n)))
  <2>1. n \in P
    BY <1>1, <1>4
  <2>2. QED
    BY <1>1, <2>1 DEF P
<1> HIDE DEF n
<1>7. Ends(Ran(h))
  BY <1>5, <1>6
<1>8. QED
  BY <1>7

\* What a boundary tells of its record.
LEMMA RowFields ==
  ASSUME NEW r, NEW i
  PROVE  Row(r, i).id = r.id /\ Row(r, i).at = i /\ (Row(r, i).selectable <=> r.kind \notin Private)
BY DEF Row

\* Between two boundaries that are kept, all is private or a note.
LEMMA GapPrivate ==
  ASSUME NEW h \in Seq(Recs), NEW E, E = Expected(h), NEW i \in 2..Len(E)
  PROVE  /\ E[i].at \in 1..Len(h) /\ E[i - 1].at \in 0..(E[i].at - 1)
         /\ E[i].id = h[E[i].at].id /\ h[E[i].at].kind # "note"
         /\ \A l \in (E[i - 1].at + 1)..(E[i].at - 1) : h[l].kind \in Private \cup {"note"}
<1>1. PICK T, K, n : T = Transactions(h) /\ K = Kept(T) /\ n = Len(h)
  OBVIOUS
<1>2. /\ T \in Seq(Trans) /\ Len(T) \in Nat /\ T[1] = Start
      /\ \A a \in 2..Len(T) : /\ T[a].at \in 1..n /\ h[T[a].at].kind # "note"
                              /\ T[a] = Row(h[T[a].at], T[a].at)
      /\ \A a, b \in 1..Len(T) : a < b => T[a].at < T[b].at
      /\ \A l \in 1..n : h[l].kind # "note" => \E a \in 2..Len(T) : T[a].at = l
  BY <1>1, TransactionsOf
<1>3. /\ Len(E) \in Nat
      /\ \A m \in 1..Len(E) : \E a \in 1..Len(T) : a \in K /\ Place(T, K, a) = m /\ E[m] = T[a]
  BY <1>1, ExpectedOf
<1>4. i \in 1..Len(E) /\ i - 1 \in 1..Len(E) /\ i \in Nat
  BY <1>3
<1>5. PICK w \in 1..Len(T) : w \in K /\ Place(T, K, w) = i /\ E[i] = T[w]
  BY <1>3, <1>4
<1>6. PICK u \in 1..Len(T) : u \in K /\ Place(T, K, u) = i - 1 /\ E[i - 1] = T[u]
  BY <1>3, <1>4
<1>7. u < w
  <2>1. SUFFICES ASSUME w <= u PROVE FALSE
    BY <1>2
  <2>2. w \in 0..Len(T) /\ u \in 0..Len(T)
    BY <1>2
  <2>3. Place(T, K, w) <= Place(T, K, u)
    BY <1>2, <2>1, <2>2, PlacesIncrease
  <2>4. QED
    BY <1>4, <1>5, <1>6, <2>3
<1>8. w \in 2..Len(T) /\ T[u].at < T[w].at
  BY <1>2, <1>7
<1>9. n \in Nat
  BY <1>1, LenProperties
<1>10. T[u].at \in Nat
  <2>1. CASE u = 1
    BY <1>2, <2>1 DEF Start
  <2>2. CASE u # 1
    <3>1. u \in 2..Len(T)
      BY <1>2, <2>2
    <3>2. QED
      BY <1>2, <1>9, <3>1
  <2>3. QED
    BY <2>1, <2>2
<1>11. T[w].at \in 1..n /\ T[u].at \in 0..(T[w].at - 1) /\ h[T[w].at].kind # "note"
       /\ T[w].id = h[T[w].at].id
  <2>1. T[w].at \in 1..n /\ h[T[w].at].kind # "note" /\ T[w] = Row(h[T[w].at], T[w].at)
    <3>1. \A a \in 2..Len(T) : /\ T[a].at \in 1..n /\ h[T[a].at].kind # "note"
                                /\ T[a] = Row(h[T[a].at], T[a].at)
      BY <1>2
    <3>2. w \in 2..Len(T)
      BY <1>8
    <3>3. QED
      BY <3>1, <3>2
  <2>2. PICK r, l : l = T[w].at /\ r = h[l]
    OBVIOUS
  <2>3. T[w].id = r.id
    BY <2>1, <2>2, RowFields
  <2>4. T[u].at \in 0..(T[w].at - 1)
    <3>1. T[u].at < T[w].at /\ T[w].at \in Nat
      BY <1>8, <1>9, <2>1
    <3>2. QED
      BY <1>10, <3>1
  <2>5. T[w].id = h[T[w].at].id
    BY <2>2, <2>3
  <2>6. QED
    BY <2>1, <2>4, <2>5
<1>12. ASSUME NEW l \in (T[u].at + 1)..(T[w].at - 1), h[l].kind # "note"
       PROVE  h[l].kind \in Private
  <2>1. l \in 1..n /\ T[u].at < l /\ l < T[w].at
    <3>1. PICK a, b : a = T[u].at /\ b = T[w].at
      OBVIOUS
    <3>2. a \in Nat /\ b \in 1..n /\ l \in (a + 1)..(b - 1)
      BY <1>10, <1>11, <3>1
    <3>3. l \in 1..n /\ a < l /\ l < b
      BY <1>9, <3>2
    <3>4. QED
      BY <3>1, <3>3
  <2>2. PICK q \in 2..Len(T) : T[q].at = l
    BY <1>2, <1>12, <2>1
  <2>3. q \in 1..Len(T) /\ u < q /\ q < w
    <3>1. q \in 1..Len(T) /\ q \in Nat /\ u \in Nat /\ w \in Nat
      BY <1>2
    <3>2. ~(q < u) /\ q # u
      <4>1. q < u => l < T[u].at
        BY <1>2, <2>2, <3>1
      <4>2. QED
        BY <1>9, <1>10, <2>1, <2>2, <4>1
    <3>3. ~(w < q) /\ q # w
      <4>1. w < q => T[w].at < l
        BY <1>2, <2>2, <3>1
      <4>2. QED
        BY <1>9, <1>11, <2>1, <2>2, <4>1
    <3>4. QED
      BY <3>1, <3>2, <3>3
  <2>4. q \notin K
    <3>1. SUFFICES ASSUME q \in K PROVE FALSE
      OBVIOUS
    <3>2. u \in 0..Len(T) /\ q \in 0..Len(T) /\ w \in 0..Len(T) /\ u <= q /\ q <= w
      BY <1>2, <2>3
    <3>3. Place(T, K, u) < Place(T, K, q)
      BY <1>2, <2>3, <3>1, <3>2, PlacesIncrease
    <3>4. Place(T, K, q) < Place(T, K, w)
      BY <1>2, <1>5, <2>3, <3>2, PlacesIncrease
    <3>5. Place(T, K, q) \in Nat
      BY <1>2, <3>2, PlaceGrows
    <3>6. QED
      BY <1>4, <1>5, <1>6, <3>3, <3>4, <3>5
  <2>5. PICK D, C : D = DOMAIN T /\ C = SelectableAt(T)
    OBVIOUS
  <2>6. D = 1..Len(T) /\ C \subseteq D /\ D \in SUBSET Nat /\ C \in SUBSET Nat
    BY <1>2, <2>5, LenProperties DEF SelectableAt
  <2>7. IsFiniteSet(D) /\ IsFiniteSet(C)
    <3>1. 1 \in Int /\ Len(T) \in Int
      BY <1>2
    <3>2. IsFiniteSet(D)
      BY <2>6, <3>1, FS_Interval
    <3>3. QED
      BY <2>6, <3>2, FS_Subset
  <2>8. K = Newest(D) \cup Newest(C)
    BY <1>1, <2>5 DEF Kept
  <2>9. u \notin Newest(D)
    <3>1. u \in Newest(D) => q \in Newest(D)
      BY <2>3, <2>6, <2>7, NewestUp
    <3>2. QED
      BY <2>4, <2>8, <3>1
  <2>10. u \in Newest(C)
    BY <1>6, <2>8, <2>9
  <2>11. q \notin C
    <3>1. q \in C => q \in Newest(C)
      BY <2>3, <2>6, <2>7, <2>10, NewestUp
    <3>2. QED
      BY <2>4, <2>8, <3>1
  <2>12. ~T[q].selectable
    BY <2>3, <2>5, <2>6, <2>11 DEF SelectableAt
  <2>13. T[q] = Row(h[l], l)
    BY <1>2, <2>2
  <2>14. PICK r : r = h[l]
    OBVIOUS
  <2>15. r.kind \in Private
    BY <2>12, <2>13, <2>14, RowFields
  <2>16. QED
    BY <2>14, <2>15
<1>13. PICK from, to : from = T[u].at /\ to = T[w].at
  OBVIOUS
<1>14. \A l \in (from + 1)..(to - 1) : h[l].kind \in Private \cup {"note"}
  BY <1>12, <1>13
<1>15. E[i].at = to /\ E[i - 1].at = from /\ E[i].id = T[w].id
  BY <1>5, <1>6, <1>13
<1>16. to \in 1..n /\ from \in 0..(to - 1) /\ h[to].kind # "note" /\ T[w].id = h[to].id
  BY <1>11, <1>13
<1>17. QED
  BY <1>1, <1>14, <1>15, <1>16

\* Records that rewind nothing add to the game, unless they are notes.
LEMMA GapGame ==
  ASSUME NEW h \in Seq(Recs), Legal(h), Apart(h), NEW g, g = GamesOf(h),
         NEW a \in 0..Len(h), NEW b \in a..Len(h), \A l \in (a + 1)..b : h[l].kind # "rewind"
  PROVE  g[b] = g[a] \cup {h[l].id : l \in {m \in (a + 1)..b : h[m].kind # "note"}}
<1> DEFINE Owned(k) == {h[l].id : l \in {m \in (a + 1)..k : h[m].kind # "note"}}
           P == {j \in Nat : a + j <= b => g[a + j] = g[a] \cup Owned(a + j)}
<1>1. Len(h) \in Nat /\ a \in Nat /\ b \in Nat /\ a <= b
  BY LenProperties
<1>2. \A k \in 1..Len(h) :
        /\ h[k].kind = "note" => g[k] = g[k - 1]
        /\ h[k].kind \notin {"note", "rewind"} => g[k] = g[k - 1] \cup {h[k].id}
  BY GamesStep
<1>3. 0 \in P
  <2>1. a + 0 = a /\ (a + 1)..a = {}
    BY <1>1
  <2>2. Owned(a) = {}
    BY <2>1
  <2> HIDE DEF Owned
  <2>3. QED
    BY <2>1, <2>2
<1>4. ASSUME NEW j \in Nat, j \in P PROVE j + 1 \in P
  <2>1. PICK k : k = a + (j + 1)
    OBVIOUS
  <2> SUFFICES ASSUME k <= b PROVE g[k] = g[a] \cup Owned(k)
    BY <2>1
  <2>2. k \in 1..Len(h) /\ k - 1 = a + j /\ k - 1 <= b /\ k \in (a + 1)..b /\ k \in Nat
    BY <1>1, <2>1
  <2>3. g[k - 1] = g[a] \cup Owned(k - 1)
    BY <1>4, <2>2
  <2>4. \A m : m \in (a + 1)..k <=> m \in (a + 1)..(k - 1) \/ m = k
    BY <1>1, <2>2
  <2>5. CASE h[k].kind = "note"
    <3>1. {m \in (a + 1)..k : h[m].kind # "note"} = {m \in (a + 1)..(k - 1) : h[m].kind # "note"}
      BY <2>4, <2>5
    <3>2. Owned(k) = Owned(k - 1)
      BY <3>1
    <3> HIDE DEF Owned
    <3>3. QED
      BY <1>2, <2>2, <2>3, <2>5, <3>2
  <2>6. CASE h[k].kind # "note"
    <3>1. {m \in (a + 1)..k : h[m].kind # "note"} =
            {m \in (a + 1)..(k - 1) : h[m].kind # "note"} \cup {k}
      BY <2>4, <2>6
    <3>2. Owned(k) = Owned(k - 1) \cup {h[k].id}
      BY <3>1
    <3> HIDE DEF Owned
    <3>3. g[k] = g[k - 1] \cup {h[k].id}
      BY <1>2, <2>2, <2>6
    <3>4. QED
      BY <2>3, <3>2, <3>3
  <2>7. QED
    BY <2>5, <2>6
<1> HIDE DEF P
<1>5. Nat \subseteq P
  BY <1>3, <1>4, NumbersReached
<1>6. PICK j : j = b - a
  OBVIOUS
<1>7. j \in Nat /\ a + j = b /\ a + j <= b
  BY <1>1, <1>6
<1>8. g[a + j] = g[a] \cup Owned(a + j)
  BY <1>5, <1>7 DEF P
<1> HIDE DEF Owned
<1>9. g[b] = g[a] \cup Owned(b)
  BY <1>7, <1>8
<1>10. QED
  BY <1>9 DEF Owned

\* What lies between two boundaries that are kept can be replayed from the first.
LEMMA GapHolds ==
  ASSUME NEW h \in Seq(Recs), Legal(h), Apart(h), NEW E, E = Expected(h),
         NEW b, b = Ran(h).boundaries, NEW i \in 2..Len(E)
  PROVE  GapReplays(b[i - 1], b[i], E[i - 1].at, E[i].at, h)
<1>1. PICK g, from, to : g = GamesOf(h) /\ from = E[i - 1].at /\ to = E[i].at
  OBVIOUS
<1>2. /\ to \in 1..Len(h) /\ from \in 0..(to - 1) /\ E[i].id = h[to].id /\ h[to].kind # "note"
      /\ \A l \in (from + 1)..(to - 1) : h[l].kind \in Private \cup {"note"}
  BY <1>1, GapPrivate
<1>3. Len(h) \in Nat /\ to \in Nat /\ from \in Nat /\ to \in from..Len(h) /\ from \in 0..Len(h)
  BY <1>2, LenProperties
<1>4. Len(E) = Len(b) /\ \A j \in 1..Len(b) : b[j] = Mark(E[j], g)
  <2>1. LET x == Expected(h)
            y == Ran(h).boundaries
        IN  Len(x) = Len(y) /\ \A j \in 1..Len(y) : y[j] = Mark(x[j], g)
    BY <1>1, BoundariesExpected
  <2>2. PICK y : y = Ran(h).boundaries
    OBVIOUS
  <2>3. QED
    BY <2>1, <2>2
<1>5. Len(E) \in Nat
  BY ExpectedOf
<1>6. i \in 1..Len(b) /\ i - 1 \in 1..Len(b)
  BY <1>4, <1>5
<1>7. b[i].game = g[to] /\ b[i - 1].game = g[from] /\ b[i].id = h[to].id
  <2>1. b[i] = Mark(E[i], g) /\ b[i - 1] = Mark(E[i - 1], g)
    BY <1>4, <1>6
  <2>2. \A t : Mark(t, g).id = t.id /\ Mark(t, g).game = g[t.at]
    BY DEF Mark
  <2>3. QED
    BY <1>1, <1>2, <2>1, <2>2
<1> DEFINE between == {h[l] : l \in (from + 1)..(to - 1)}
           ids == {r.id : r \in {r \in between : r.kind # "note"}}
           Owned == {h[l].id : l \in {m \in (from + 1)..to : h[m].kind # "note"}}
<1>8. \A r \in between : r.kind \in Private \cup {"note"}
  BY <1>2
<1>9. ASSUME h[to].kind \in Private PROVE b[i].game = b[i - 1].game \cup {b[i].id} \cup ids
  <2>1. \A l \in (from + 1)..to : l \in (from + 1)..(to - 1) \/ l = to
    BY <1>3
  <2>2. to \in (from + 1)..to /\ \A l \in (from + 1)..(to - 1) : l \in (from + 1)..to
    BY <1>2, <1>3
  <2>3. \A l \in (from + 1)..to : h[l].kind # "rewind"
    <3>1. \A k \in Private \cup {"note"} : k # "rewind"
      BY DEF Private
    <3>2. ASSUME NEW l \in (from + 1)..to PROVE h[l].kind \in Private \cup {"note"}
      BY <1>2, <1>9, <2>1
    <3>3. QED
      BY <3>1, <3>2
  <2>4. g[to] = g[from] \cup Owned
    <3>1. g = GamesOf(h)
      BY <1>1
    <3>2. from \in 0..Len(h) /\ to \in from..Len(h)
      BY <1>3
    <3>3. g[to] = g[from] \cup {h[l].id : l \in {m \in (from + 1)..to : h[m].kind # "note"}}
      BY <2>3, <3>1, <3>2, GapGame
    <3>4. QED
      BY <3>3
  <2>5. Owned = {h[to].id} \cup ids
    <3>1. ASSUME NEW x \in Owned PROVE x \in {h[to].id} \cup ids
      <4>1. PICK l \in (from + 1)..to : h[l].kind # "note" /\ x = h[l].id
        BY <3>1
      <4>2. CASE l = to
        BY <4>1, <4>2
      <4>3. CASE l # to
        <5>1. l \in (from + 1)..(to - 1)
          BY <2>1, <4>3
        <5>2. QED
          BY <4>1, <5>1
      <4>4. QED
        BY <4>2, <4>3
    <3>2. ASSUME NEW x \in {h[to].id} \cup ids PROVE x \in Owned
      <4>1. h[to].id \in Owned
        BY <1>2, <2>2
      <4>2. CASE x \in ids
        <5>1. PICK r \in between : r.kind # "note" /\ x = r.id
          BY <4>2
        <5>2. PICK l \in (from + 1)..(to - 1) : r = h[l]
          BY <5>1
        <5>3. QED
          BY <2>2, <5>1, <5>2
      <4>3. QED
        BY <3>2, <4>1, <4>2
    <3> HIDE DEF ids, Owned
    <3>3. QED
      BY <3>1, <3>2
  <2> HIDE DEF ids, Owned
  <2>6. QED
    BY <1>7, <2>4, <2>5
<1>10. GapReplays(b[i - 1], b[i], from, to, h)
  BY <1>8, <1>9 DEF GapReplays
<1>11. QED
  BY <1>1, <1>10

\* What a record snapshots can be restored from the records up to it.
LEMMA SnapshotAllowed ==
  ASSUME NEW h \in Seq(Recs), Legal(h), Apart(h), Len(h) # 0,
         NEW s, s = h[Len(h)].snapshot, NEW marked, s.marked => marked,
         \A i \in 1..Len(h) : h[i].kind \in WizardKinds => s.marked
  PROVE  RestoreAllowed(s, h, marked)
<1>1. PICK e, b, E : e = Ran(h) /\ b = e.boundaries /\ E = Expected(h)
  OBVIOUS
<1>2. e \in Engines /\ e.count = Len(h)
  BY <1>1, LegalRan
<1>3. s.count = e.count /\ s.branch = e.branch /\ s.game = e.game /\ s.boundaries = b
  BY <1>1, SnapshotIs
<1>4. Branch(h) = e.branch /\ \A r \in Requests : Cardinality(RecordsOf(r, h)) <= 1
  BY <1>1, ReceiptsExact
<1>5. DOMAIN h = 1..Len(h)
  BY LenProperties
<1>6. PICK g : g = GamesOf(h)
  OBVIOUS
<1>7. /\ Len(E) = Len(b) /\ DOMAIN E = 1..Len(b)
      /\ \A i \in 1..Len(b) : b[i] = Mark(E[i], g)
  <2>1. LET x == Expected(h)
            y == Ran(h).boundaries
        IN  /\ Len(x) = Len(y) /\ DOMAIN x = 1..Len(y)
            /\ \A j \in 1..Len(y) : y[j] = Mark(x[j], g)
    BY <1>6, BoundariesExpected
  <2>2. b = Ran(h).boundaries
    BY <1>1
  <2>3. QED
    BY <1>1, <2>1, <2>2
<1>8. ASSUME NEW i \in DOMAIN E PROVE b[i].id = E[i].id
  <2>1. b[i] = Mark(E[i], g)
    BY <1>7, <1>8
  <2>2. QED
    BY <2>1 DEF Mark
<1>9. ASSUME NEW i \in 2..Len(E)
      PROVE  GapReplays(b[i - 1], b[i], E[i - 1].at, E[i].at, h)
  <2>1. b = Ran(h).boundaries
    BY <1>1
  <2>2. QED
    BY <1>1, <1>9, <2>1, GapHolds
<1>10. Last(b).game = e.game
  BY <1>1, LastGame DEF Last
<1>11. QED
  <2> DEFINE expected == Expected(h)
  <2>1. s.count = Len(h) /\ s.branch = Branch(h)
    BY <1>2, <1>3, <1>4
  <2>2. \A i \in DOMAIN h : h[i].kind \in WizardKinds => s.marked
    BY <1>5
  <2>3. /\ Len(s.boundaries) = Len(expected)
        /\ \A i \in DOMAIN expected : s.boundaries[i].id = expected[i].id
    BY <1>1, <1>3, <1>7, <1>8
  <2>4. \A i \in 2..Len(expected) :
          GapReplays(s.boundaries[i - 1], s.boundaries[i],
                     expected[i - 1].at, expected[i].at, h)
    BY <1>1, <1>3, <1>9
  <2>5. Last(s.boundaries).game = s.game
    BY <1>3, <1>10
  <2> HIDE DEF expected
  <2>6. expected = Expected(h)
    BY DEF expected
  <2>7. QED
    BY <1>4, <2>1, <2>2, <2>3, <2>4, <2>5, <2>6 DEF RestoreAllowed

\* The records of a log have identifiers of their own.
LEMMA RecordsApart ==
  ASSUME NEW s \in Seq(Items), NEW o, Placed(s, o)
  PROVE  Apart(Records(s))
<1>1. PICK h : h = Records(s)
  OBVIOUS
<1>2. ASSUME NEW i \in 1..Len(h), NEW j \in 1..Len(h), h[i].id = h[j].id PROVE i = j
  <2>1. PICK a \in 1..Len(s) : IsRecord(s[a]) /\ s[a] = h[i] /\ PlaceOf(s, a) = i
    BY <1>1, RecordFound
  <2>2. PICK b \in 1..Len(s) : IsRecord(s[b]) /\ s[b] = h[j] /\ PlaceOf(s, b) = j
    BY <1>1, RecordFound
  <2>3. a = b
    BY <1>2, <2>1, <2>2, OneIdEach
  <2>4. QED
    BY <2>1, <2>2, <2>3
<1>3. QED
  BY <1>1, <1>2 DEF Apart

\* Whatever record the save's checkpoint is of, it can be restored.
LEMMA AlwaysRestorable ==
  ASSUME log \in Seq(Items), checkpoint \in 0..Len(log),
         checkpoint # 0 => IsRecord(log[checkpoint]), Legal(Records(log)), Placed(log, opening)
  PROVE  Restorable
<1>1. CASE checkpoint = 0
  BY <1>1 DEF Restorable
<1>2. CASE checkpoint # 0
  <2>1. PICK l, p, o : l = log /\ p = checkpoint /\ o = opening
    OBVIOUS
  <2>2. /\ l \in Seq(Items) /\ p \in 0..Len(l) /\ p # 0 /\ IsRecord(l[p])
        /\ Legal(Records(l)) /\ Placed(l, o)
    BY <1>2, <2>1
  <2>3. Len(l) \in Nat /\ p \in 1..Len(l) /\ p - 1 \in 0..Len(l) /\ p - 1 \in Nat
    BY <2>2, LenProperties
  <2>4. PICK u, c, s : u = SubSeq(l, 1, p) /\ c = Records(u) /\ s = l[p].snapshot
    OBVIOUS
  <2>5. c \in Seq(Recs) /\ Legal(c) /\ Len(c) # 0 /\ c[Len(c)] = l[p]
    BY <2>2, <2>3, <2>4, CoveredIs
  <2>6. u \in Seq(Items) /\ Len(u) = p /\ \A i \in 1..p : u[i] = l[i]
    BY <2>2, <2>3, <2>4, Beginnings
  <2>7. Placed(u, o) /\ Apart(c)
    <3>1. Placed(u, o)
      BY <2>2, <2>4, PlacedCut
    <3>2. QED
      BY <2>4, <2>6, <3>1, RecordsApart
  <2>8. /\ \A k \in 0..Len(l) : Marked(SubSeq(l, 1, k)) <=> \E i \in 1..k : l[i] = Marker
        /\ Marked(l) <=> \E i \in 1..Len(l) : l[i] = Marker
    BY <2>2, MarkedGrows
  <2>9. s.marked = Marked(SubSeq(l, 1, p - 1))
    BY <2>2, <2>3, <2>4 DEF Placed
  <2>10. s.marked => Marked(l)
    <3>1. \A i \in 1..(p - 1) : i \in 1..Len(l)
      BY <2>3
    <3>2. QED
      BY <2>3, <2>8, <2>9, <3>1
  <2>11. ASSUME NEW j \in 1..Len(c), c[j].kind \in WizardKinds PROVE s.marked
    <3>1. PICK i \in 1..Len(u) : IsRecord(u[i]) /\ u[i] = c[j]
      BY <2>4, <2>6, RecordFound
    <3>2. i \in 1..Len(l) /\ i <= p /\ i \in 1..p /\ i - 1 \in 0..Len(l) /\ l[i] = c[j]
      BY <2>3, <2>6, <3>1
    <3>3. IsRecord(l[i])
      <4>1. u[i] = l[i]
        BY <2>6, <3>2
      <4>2. QED
        BY <3>1, <4>1
    <3>4. Marked(SubSeq(l, 1, i - 1))
      <4>1. l[i].snapshot.marked = Marked(SubSeq(l, 1, i - 1))
            /\ (l[i].kind \in WizardKinds => l[i].snapshot.marked)
        BY <2>2, <3>2, <3>3 DEF Placed
      <4>2. l[i].kind \in WizardKinds
        BY <2>11, <3>2
      <4>3. QED
        BY <4>1, <4>2
    <3>5. \A k \in 1..(i - 1) : k \in 1..(p - 1)
      BY <2>3, <3>2
    <3>6. QED
      BY <2>3, <2>8, <2>9, <3>2, <3>4, <3>5
  <2>12. s = c[Len(c)].snapshot
    BY <2>4, <2>5
  <2>13. RestoreAllowed(s, c, Marked(l))
    <3>1. PICK marked : marked = Marked(l)
      OBVIOUS
    <3>2. s.marked => marked
      BY <2>10, <3>1
    <3>3. RestoreAllowed(s, c, marked)
      BY <2>5, <2>7, <2>11, <2>12, <3>2, SnapshotAllowed
    <3>4. QED
      BY <3>1, <3>3
  <2>14. QED
    BY <2>1, <2>4, <2>13 DEF Restorable
<1>3. QED
  BY <1>1, <1>2

\* A history describes the engine that ran it.
LEMMA RanDescribed ==
  ASSUME NEW h \in Seq(Recs), Legal(h), Apart(h)
  PROVE  LET e == Ran(h)
             expected == Expected(h)
         IN  /\ e.game = Lineage(h)[Len(h)]
             /\ e.boundaries =
                  [i \in DOMAIN expected |->
                     [id |-> expected[i].id, selectable |-> expected[i].selectable,
                      game |-> Lineage(h)[expected[i].at]]]
             /\ e.branch = Branch(h) /\ e.receipts = Receipted(h) /\ e.count = Len(h)
<1>1. PICK g, e, E : g = GamesOf(h) /\ e = Ran(h) /\ E = Expected(h)
  OBVIOUS
<1>2. Lineage(h) = g
  BY <1>1, LineageIs
<1>3. e.game = g[Len(h)]
  <2>1. Len(h) \in 0..Len(h) /\ SubSeq(h, 1, Len(h)) = h
    BY LenProperties, Beginnings
  <2>2. g[Len(h)] = Ran(SubSeq(h, 1, Len(h))).game
    BY <1>1, <2>1 DEF GamesOf
  <2>3. QED
    BY <1>1, <2>1, <2>2
<1>4. e.boundaries = [i \in DOMAIN E |-> Mark(E[i], g)]
  <2>1. LET x == Expected(h)
            y == Ran(h).boundaries
        IN  y = [i \in DOMAIN x |-> Mark(x[i], g)]
    BY <1>1, BoundariesExpected
  <2>2. QED
    BY <1>1, <2>1
<1>5. [i \in DOMAIN E |-> Mark(E[i], g)] =
        [i \in DOMAIN E |-> [id |-> E[i].id, selectable |-> E[i].selectable,
                             game |-> g[E[i].at]]]
  BY DEF Mark
<1>6. e.branch = Branch(h) /\ e.receipts = Receipted(h) /\ e.count = Len(h)
  BY <1>1, ReceiptsExact, LegalRan
<1>7. QED
  BY <1>1, <1>2, <1>3, <1>4, <1>5, <1>6

\* The commands that are journaled.
Cmds == [kind : Kinds, id : Ids, by : Requests \cup {None}, branch : Branches, target : Branches]

\* A log and an engine to which records are added.
Ready(s, o, e) ==
  /\ s \in Seq(Items) /\ o \in 1..MaxOpenings /\ Len(s) < MaxEntries
  /\ Legal(Records(s)) /\ Placed(s, o)
  /\ e \in Engines /\ Like(e, Ran(Records(s))) /\ e.marked = Marked(s)
  /\ e.enabled => e.marked

\* A command of which a record is added.
Suits(e, c, s, o) ==
  /\ c.id = <<o, Len(s) + 1>> /\ c.branch = e.branch
  /\ c.kind \in WizardKinds => e.enabled
  /\ c.kind = "rewind" => Restores(e, c.target) # {}
  /\ c.by # None => e.receipts[c.by] = 0

\* The log, its new record and the engine after it.
Journals(u, x, d, o, e) ==
  /\ IsRecord(x) /\ x \in Items /\ u \in Seq(Items)
  /\ Legal(Records(u)) /\ Placed(u, o)
  /\ d \in Engines /\ Like(d, Ran(Records(u))) /\ d.marked = Marked(u) /\ d.enabled = e.enabled

\* A command that the engine permits is journaled, and everything stays so.
LEMMA Journaled ==
  ASSUME NEW s, NEW o, NEW e, Ready(s, o, e), NEW c \in Cmds, Suits(e, c, s, o)
  PROVE  LET d == Committed(e, c)
             x == Record(c, d)
         IN  Journals(Append(s, x), x, d, o, e) /\ x.id = c.id /\ x.by = c.by
<1>1. PICK id, k, by, b, t : id = c.id /\ k = c.kind /\ by = c.by /\ b = c.branch /\ t = c.target
  OBVIOUS
<1>2. /\ Len(s) \in Nat /\ id \in Ids /\ id[2] = Len(s) + 1 /\ id[1] = o /\ o \in Nat
      /\ s \in Seq(Items) /\ e \in Engines
  BY <1>1, LenProperties DEF Ready, Suits, Cmds
<1>3. c = [kind |-> k, id |-> id, by |-> by, branch |-> b, target |-> t]
  BY <1>1 DEF Cmds
<1>4. PICK d : d = Committed(e, c)
  OBVIOUS
<1>5. PICK x : x = Record(c, d)
  OBVIOUS
<1>5a. /\ k \in Kinds /\ by \in Requests \cup {None} /\ b = e.branch /\ t \in Branches
       /\ (k = "rewind" => Restores(e, t) # {}) /\ (by # None => e.receipts[by] = 0)
  BY <1>1 DEF Cmds, Suits
<1>6. /\ x \in Recs /\ Fits(e, x) /\ Committed(e, x) = d
      /\ x.kind = k /\ x.id = id /\ x.by = by /\ x.snapshot.marked = e.marked
  BY <1>2, <1>3, <1>4, <1>5, <1>5a, RecordFits
<1>7. IsRecord(x) /\ x \in Items /\ x # Marker
  BY <1>6, ItemKinds DEF Items
<1>8. PICK u : u = Append(s, x)
  OBVIOUS
<1>9. /\ Legal(Records(u)) /\ Like(d, Ran(Records(u))) /\ d \in Engines
      /\ d.marked = e.marked /\ d.enabled = e.enabled
  BY <1>2, <1>6, <1>8, RecordAccepted DEF Ready
<1>10. Placed(u, o)
  <2>1. o <= o
    BY <1>2
  <2>2. x.id[2] = Len(s) + 1 /\ x.id[1] <= o /\ x.snapshot.marked = Marked(s)
        /\ (x.kind \in WizardKinds => x.snapshot.marked)
    BY <1>1, <1>2, <1>6, <2>1 DEF Ready, Suits
  <2>3. QED
    BY <1>2, <1>7, <1>8, <2>2, PlacedGrows DEF Ready
<1>11. Marked(u) <=> Marked(s)
  BY <1>2, <1>7, <1>8, MarkedGrows
<1>12. d.marked = Marked(u)
  <2>1. Marked(u) \in BOOLEAN /\ Marked(s) \in BOOLEAN
    BY DEF Marked, Contains
  <2>2. QED
    BY <1>9, <1>11, <2>1 DEF Ready
<1>13. u \in Seq(Items)
  BY <1>2, <1>7, <1>8, AppendProperties
<1>14. Journals(u, x, d, o, e)
  BY <1>7, <1>9, <1>10, <1>12, <1>13 DEF Journals
<1>15. QED
  BY <1>1, <1>4, <1>5, <1>6, <1>8, <1>14

\* The type of a log that grows by one item.
LEMMA LogGrows ==
  ASSUME NEW s \in Seq(Items), NEW x \in Items
  PROVE  /\ Append(s, x) \in Seq(Items) /\ Len(s) \in Nat /\ Len(Append(s, x)) = Len(s) + 1
         /\ Append(s, x)[Len(s) + 1] = x /\ \A i \in 1..Len(s) : Append(s, x)[i] = s[i]
  BY AppendProperties, LenProperties

\* The marker that is stable is there.
LEMMA MarkedBegins ==
  ASSUME NEW s \in Seq(Items), NEW m \in 0..Len(s), NEW n \in 0..m, Marked(SubSeq(s, 1, n))
  PROVE  Marked(SubSeq(s, 1, m)) /\ Marked(s)
<1>1. Len(s) \in Nat /\ n \in 0..Len(s) /\ m \in Nat /\ n \in Nat
  BY LenProperties
<1>2. PICK i \in 1..n : s[i] = Marker
  BY <1>1, MarkedGrows
<1>3. i \in 1..m /\ i \in 1..Len(s)
  BY <1>1
<1>4. QED
  BY <1>1, <1>2, <1>3, MarkedGrows

\* The first state.
LEMMA InitHolds == Init => IInv
<1> SUFFICES ASSUME Init PROVE IInv
  OBVIOUS
<1>1. /\ log = <<>> /\ stable = 0 /\ promised = 0 /\ checkpoint = 0
      /\ status = "up" /\ opening = 1 /\ engine = Fresh
      /\ asked = [r \in Requests |-> None] /\ current = {}
      /\ answer = [r \in Requests |-> None]
  BY DEF Init, Save!LogInit
<1>2. <<>> \in Seq(Items) /\ Len(<<>>) = 0
  BY EmptySeq
<1>3. TypeOK
  <2>1. 1 \in 1..MaxOpenings /\ 0 <= MaxEntries /\ 0 \in 0..0
    BY CommandsAssumption
  <2>2. log \in Seq(Recs \cup {Marker}) /\ Len(log) = 0
    BY <1>1, <1>2 DEF Items
  <2>3. asked \in [Requests -> Asked \cup {None}] /\ answer \in [Requests -> Ids \cup {None}]
    BY <1>1
  <2>4. QED
    BY <1>1, <2>1, <2>2, <2>3, FreshType DEF TypeOK
<1>4. Records(log) = <<>> /\ Ran(<<>>) = Fresh
  BY <1>1, <1>2, RecordsEmpty, RanStep
<1>5. Legal(Records(log))
  BY <1>2, <1>4 DEF Legal
<1>6. Placed(log, opening)
  BY <1>1, <1>2 DEF Placed
<1>7. Answered(log, answer)
  BY <1>1 DEF Answered
<1>8. Running(status, engine, log, stable)
  <2>1. Like(Fresh, Fresh)
    BY DEF Like
  <2>2. Marked(log) = FALSE
    BY <1>1, <1>2 DEF Marked, Contains
  <2>3. Fresh.marked = FALSE /\ ~Fresh.enabled
    BY DEF Fresh
  <2>4. QED
    BY <1>1, <1>4, <2>1, <2>2, <2>3 DEF Running
<1>9. QED
  BY <1>3, <1>5, <1>6, <1>7, <1>8 DEF IInv

\* What the invariant says of a running engine.
LEMMA WhenRunning ==
  ASSUME IInv, status \in {"up", "enabling"}
  PROVE  /\ log \in Seq(Items) /\ Len(log) \in Nat /\ engine \in Engines
         /\ Like(engine, Ran(Records(log))) /\ engine.marked = Marked(log)
         /\ engine.enabled => Marked(SubSeq(log, 1, stable)) /\ engine.marked
         /\ status = "enabling" => engine.marked
<1>1. log \in Seq(Items) /\ engine \in Engines /\ stable \in 0..Len(log)
  BY DEF IInv, TypeOK, Items
<1>2. /\ Like(engine, Ran(Records(log))) /\ engine.marked = Marked(log)
      /\ engine.enabled => Marked(SubSeq(log, 1, stable))
      /\ status = "enabling" => engine.marked
  BY DEF IInv, Running
<1>3. Len(log) \in Nat
  BY <1>1, LenProperties
<1>4. engine.enabled => engine.marked
  <2>1. Len(log) \in 0..Len(log)
    BY <1>3
  <2>2. PICK s : s = log
    OBVIOUS
  <2>3. \A n \in 0..Len(s) : Marked(SubSeq(s, 1, n)) => Marked(s)
    BY <1>1, <2>1, <2>2, MarkedBegins
  <2>4. QED
    BY <1>1, <1>2, <2>2, <2>3
<1>5. QED
  BY <1>1, <1>2, <1>3, <1>4

\* A client composes a command.
LEMMA ComposeKeeps ==
  ASSUME IInv, NEW r \in Requests, Compose(r)
  PROVE  IInv'
<1>1. status = "up" /\ UNCHANGED <<saveVars, status, opening, engine, answer>>
      /\ current' = current \cup {r}
  BY DEF Compose
<1>2. PICK k \in (IF r \in Wizards THEN WizardKinds ELSE {"intention", "note"}) :
      \E t \in IF k = "rewind" THEN Selectable(engine) ELSE {None} :
        asked' = [asked EXCEPT ![r] = [kind |-> k, branch |-> engine.branch, target |-> t]]
  BY DEF Compose
<1>3. PICK t \in (IF k = "rewind" THEN Selectable(engine) ELSE {None}) :
        asked' = [asked EXCEPT ![r] = [kind |-> k, branch |-> engine.branch, target |-> t]]
  BY <1>2
<1>4. k \in Kinds
  BY DEF WizardKinds, Kinds
<1>5. engine \in Engines
  BY DEF IInv, TypeOK
<1>6. t \in Branches
  <2>1. ASSUME NEW i \in Selectable(engine) PROVE i \in Branches
    <3>1. PICK q : q = engine.boundaries
      OBVIOUS
    <3>2. q \in Seq(Bounds) /\ DOMAIN q = 1..Len(q)
      BY <1>5, <3>1, LenProperties DEF Engines
    <3>3. PICK b \in Range(q) : i = b.id
      BY <2>1, <3>1 DEF Selectable
    <3>4. PICK j \in DOMAIN q : b = q[j]
      BY <3>3 DEF Range
    <3>5. b \in Bounds
      BY <3>2, <3>4, ElementOfSeq
    <3>6. QED
      BY <3>3, <3>5 DEF Bounds
  <2>2. QED
    BY <2>1 DEF Branches
<1>7. [kind |-> k, branch |-> engine.branch, target |-> t] \in Asked
  BY <1>4, <1>5, <1>6 DEF Asked, Engines
<1>8. asked' \in [Requests -> Asked \cup {None}] /\ current' \subseteq Requests
  BY <1>1, <1>3, <1>7 DEF IInv, TypeOK
<1>9. TypeOK'
  BY <1>1, <1>8 DEF IInv, TypeOK, saveVars
<1>10. QED
  BY <1>1, <1>9 DEF IInv, saveVars

\* The scheduler journals.
LEMMA ScheduleKeeps ==
  ASSUME IInv, Schedule
  PROVE  IInv'
<1>1. status = "up" /\ Len(log) < MaxEntries /\ UNCHANGED <<status, opening, clientVars>>
  BY DEF Schedule, Room
<1>2. PICK k \in {"started", "queued"} :
        LET c == [kind |-> k, id |-> NewId, by |-> None, branch |-> engine.branch,
                  target |-> None]
            after == Committed(engine, c)
        IN  Accept(Record(c, after)) /\ engine' = after
  BY DEF Schedule
<1>3. PICK s, o, e, n : s = log /\ o = opening /\ e = engine /\ n = stable
  OBVIOUS
<1>4. PICK c : c = [kind |-> k, id |-> <<o, Len(s) + 1>>, by |-> None, branch |-> e.branch,
                    target |-> None]
  OBVIOUS
<1>5. PICK d, x : d = Committed(e, c) /\ x = Record(c, d)
  OBVIOUS
<1>6. PICK u : u = Append(s, x)
  OBVIOUS
<1>7. log' = u /\ engine' = d /\ UNCHANGED <<stable, promised, checkpoint>>
  BY <1>2, <1>3, <1>4, <1>5, <1>6 DEF Accept, NewId
<1>8. /\ s \in Seq(Items) /\ Len(s) \in Nat /\ e \in Engines /\ Like(e, Ran(Records(s)))
      /\ e.marked = Marked(s) /\ (e.enabled => Marked(SubSeq(s, 1, n)) /\ e.marked)
  BY <1>1, <1>3, WhenRunning
<1>9. /\ o \in 1..MaxOpenings /\ Legal(Records(s)) /\ Placed(s, o) /\ n \in 0..Len(s)
      /\ Len(s) < MaxEntries
  BY <1>1, <1>3 DEF IInv, TypeOK
<1>10. c \in Cmds /\ Suits(e, c, s, o)
  <2>1. k \in Kinds /\ k \notin WizardKinds /\ k # "rewind" /\ None \in Branches
    BY DEF Kinds, WizardKinds, Branches
  <2>2. <<o, Len(s) + 1>> \in Ids
    BY <1>8, <1>9, CommandsAssumption DEF Ids
  <2>3. e.branch \in Branches
    BY <1>8 DEF Engines
  <2>4. QED
    BY <1>4, <2>1, <2>2, <2>3 DEF Cmds, Suits
<1>11. Journals(u, x, d, o, e)
  <2>1. Ready(s, o, e)
    BY <1>8, <1>9 DEF Ready
  <2>2. QED
    BY <1>5, <1>6, <1>10, <2>1, Journaled
<1>11a. /\ IsRecord(x) /\ x \in Items /\ Legal(Records(u)) /\ Placed(u, o)
        /\ d \in Engines /\ Like(d, Ran(Records(u))) /\ d.marked = Marked(u)
        /\ d.enabled = e.enabled
  BY <1>11 DEF Journals
<1>12. /\ u \in Seq(Items) /\ Len(u) = Len(s) + 1 /\ \A i \in 1..Len(s) : u[i] = s[i]
  BY <1>6, <1>8, <1>11a, LogGrows
<1>13. TypeOK'
  <2>1. Len(u) <= MaxEntries /\ stable \in 0..Len(u) /\ promised \in 0..stable
        /\ checkpoint \in 0..stable
    BY <1>3, <1>8, <1>9, <1>12, CommandsAssumption DEF IInv, TypeOK
  <2>2. checkpoint # 0 => IsRecord(u[checkpoint])
    <3>1. ASSUME checkpoint # 0 PROVE checkpoint \in 1..Len(s)
      BY <1>3, <1>8, <3>1 DEF IInv, TypeOK
    <3>2. QED
      BY <1>3, <1>12, <3>1 DEF IInv, TypeOK
  <2>3. QED
    BY <1>1, <1>7, <1>11a, <1>12, <2>1, <2>2 DEF IInv, TypeOK, Items, clientVars
<1>14. Answered(u, answer)
  BY <1>3, <1>6, <1>8, <1>11a, AnsweredGrows DEF IInv
<1>15. Running(status, d, u, n)
  <2>1. SubSeq(u, 1, n) = SubSeq(s, 1, n)
    BY <1>6, <1>8, <1>9, <1>11a, AppendBegins
  <2>2. QED
    BY <1>1, <1>8, <1>11a, <2>1 DEF Running
<1>16. QED
  BY <1>1, <1>3, <1>7, <1>11a, <1>13, <1>14, <1>15 DEF IInv, clientVars

\* A fresh command is executed.
LEMMA ExecuteKeeps ==
  ASSUME IInv, NEW r \in Requests, Execute(r)
  PROVE  IInv' /\ answer[r] = None
<1>1. /\ status = "up" /\ asked[r] # None /\ Len(log) < MaxEntries /\ engine.receipts[r] = 0
      /\ UNCHANGED <<status, opening>>
      /\ current' = IF r \in Wizards THEN {} ELSE current \ {r}
      /\ answer' = [answer EXCEPT ![r] = NewId]
      /\ asked' = [asked EXCEPT ![r] = None]
  BY DEF Execute, Room, Used, Fulfilled
<1>2. LET c == Command(r)
          after == Committed(engine, c)
      IN  Permits(engine, c) /\ Accept(Record(c, after)) /\ engine' = after
  BY DEF Execute
<1>3. PICK s, o, e, n : s = log /\ o = opening /\ e = engine /\ n = stable
  OBVIOUS
<1>4. PICK q : q = asked[r]
  OBVIOUS
<1>5. q \in Asked
  BY <1>1, <1>4 DEF IInv, TypeOK
<1>6. PICK id : id = <<o, Len(s) + 1>>
  OBVIOUS
<1>7. PICK c : c = [kind |-> q.kind, id |-> id, by |-> r, branch |-> q.branch,
                    target |-> q.target]
  OBVIOUS
<1>8. PICK d, x : d = Committed(e, c) /\ x = Record(c, d)
  OBVIOUS
<1>9. PICK u : u = Append(s, x)
  OBVIOUS
<1>10. Command(r) = c
  BY <1>3, <1>4, <1>6, <1>7 DEF Command, NewId
<1>11. Permits(e, c) /\ log' = u /\ engine' = d /\ UNCHANGED <<stable, promised, checkpoint>>
  BY <1>2, <1>3, <1>8, <1>9, <1>10 DEF Accept
<1>12. /\ s \in Seq(Items) /\ Len(s) \in Nat /\ e \in Engines /\ Like(e, Ran(Records(s)))
       /\ e.marked = Marked(s) /\ (e.enabled => Marked(SubSeq(s, 1, n)) /\ e.marked)
  BY <1>1, <1>3, WhenRunning
<1>13. /\ o \in 1..MaxOpenings /\ Legal(Records(s)) /\ Placed(s, o) /\ n \in 0..Len(s)
       /\ Len(s) < MaxEntries /\ Answered(s, answer)
  BY <1>1, <1>3 DEF IInv, TypeOK
<1>14. id \in Ids
  BY <1>6, <1>12, <1>13, CommandsAssumption DEF Ids
<1>15. c \in Cmds
  BY <1>5, <1>7, <1>14 DEF Cmds, Asked
<1>16. Suits(e, c, s, o)
  <2>1. c.id = <<o, Len(s) + 1>> /\ c.by = r
    BY <1>6, <1>7
  <2>2. c.branch = e.branch /\ (c.kind \in WizardKinds => e.enabled)
        /\ (c.kind = "rewind" => Restores(e, c.target) # {})
    BY <1>11 DEF Permits
  <2>3. e.receipts[r] = 0
    BY <1>1, <1>3
  <2>4. QED
    BY <2>1, <2>2, <2>3 DEF Suits
<1>17. Journals(u, x, d, o, e) /\ x.id = c.id /\ x.by = c.by
  <2>1. Ready(s, o, e)
    BY <1>12, <1>13 DEF Ready
  <2>2. QED
    BY <1>8, <1>9, <1>15, <1>16, <2>1, Journaled
<1>18. /\ IsRecord(x) /\ x \in Items /\ Legal(Records(u)) /\ Placed(u, o)
       /\ d \in Engines /\ Like(d, Ran(Records(u))) /\ d.marked = Marked(u)
       /\ d.enabled = e.enabled /\ x.id = id /\ x.by = r
  BY <1>7, <1>17 DEF Journals
<1>19. /\ u \in Seq(Items) /\ Len(u) = Len(s) + 1 /\ \A i \in 1..Len(s) : u[i] = s[i]
  BY <1>9, <1>12, <1>18, LogGrows
<1>20. asked' \in [Requests -> Asked \cup {None}] /\ current' \subseteq Requests
       /\ answer' \in [Requests -> Ids \cup {None}] /\ answer'[r] = id
       /\ \A p \in Requests : p # r => answer'[p] = answer[p]
  BY <1>1, <1>3, <1>6, <1>14 DEF IInv, TypeOK, NewId
<1>21. TypeOK'
  <2>1. Len(u) <= MaxEntries /\ stable \in 0..Len(u) /\ promised \in 0..stable
        /\ checkpoint \in 0..stable
    BY <1>3, <1>12, <1>13, <1>19, CommandsAssumption DEF IInv, TypeOK
  <2>2. checkpoint # 0 => IsRecord(u[checkpoint])
    <3>1. ASSUME checkpoint # 0 PROVE checkpoint \in 1..Len(s)
      BY <1>3, <1>12, <3>1 DEF IInv, TypeOK
    <3>2. QED
      BY <1>3, <1>19, <3>1 DEF IInv, TypeOK
  <2>3. QED
    BY <1>1, <1>11, <1>18, <1>19, <1>20, <2>1, <2>2 DEF IInv, TypeOK, Items
<1>22. Answered(u, answer')
  <2>1. PICK given, other : given = answer /\ other = answer'
    OBVIOUS
  <2>2. \A p \in Requests : other[p] \in {None, given[p]} \/
          (IsRecord(x) /\ x.id = other[p] /\ x.by = p)
    BY <1>18, <1>20, <2>1
  <2>3. Answered(u, other)
    BY <1>9, <1>12, <1>13, <1>18, <2>1, <2>2, AnsweredGrows
  <2>4. QED
    BY <2>1, <2>3
<1>23. Running(status, d, u, n)
  <2>1. SubSeq(u, 1, n) = SubSeq(s, 1, n)
    BY <1>9, <1>12, <1>13, <1>18, AppendBegins
  <2>2. QED
    BY <1>1, <1>12, <1>18, <2>1 DEF Running
<1>24. IInv'
  BY <1>1, <1>3, <1>11, <1>18, <1>21, <1>22, <1>23 DEF IInv
<1>25. answer[r] = None
  <2>1. SUFFICES ASSUME answer[r] # None PROVE FALSE
    OBVIOUS
  <2>2. PICK i \in 1..Len(s) : IsRecord(s[i]) /\ s[i].by = r
    BY <1>13, <2>1 DEF Answered
  <2>3. PICK h, p : h = Records(s) /\ p = PlaceOf(s, i)
    OBVIOUS
  <2>4. p \in 1..Len(h) /\ h[p] = s[i]
    BY <1>12, <2>2, <2>3, RecordAtPlace
  <2>5. h \in Seq(Recs) /\ Exact(Ran(h).receipts, h, Len(h))
    BY <1>12, <1>13, <2>3, RecordsType, ReceiptsExact
  <2>6. Ran(h).receipts[r] = 0
    BY <1>1, <1>3, <1>12, <2>3 DEF Like
  <2>7. QED
    BY <2>2, <2>4, <2>5, <2>6 DEF Exact
<1>26. QED
  BY <1>24, <1>25

\* A repeated command is answered with its record.
LEMMA RetryKeeps ==
  ASSUME IInv, NEW r \in Requests, Retry(r)
  PROVE  IInv' /\ (answer[r] # None => answer'[r] = answer[r])
<1>1. /\ status = "up" /\ engine.receipts[r] # 0
      /\ answer' = [answer EXCEPT ![r] = Records(log)[engine.receipts[r]].id]
      /\ UNCHANGED <<saveVars, status, opening, engine, asked, current>>
  BY DEF Retry, Used
<1>2. PICK s, h, m : s = log /\ h = Records(s) /\ m = engine.receipts[r]
  OBVIOUS
<1>3. s \in Seq(Items) /\ Like(engine, Ran(h)) /\ Legal(h) /\ h \in Seq(Recs)
  <2>1. s \in Seq(Items) /\ Like(engine, Ran(h))
    BY <1>1, <1>2, WhenRunning
  <2>2. Legal(h)
    BY <1>2 DEF IInv
  <2>3. QED
    BY <1>2, <2>1, <2>2, RecordsType
<1>4. m \in 1..Len(h) /\ h[m].by = r
  <2>1. Exact(Ran(h).receipts, h, Len(h)) /\ Ran(h).receipts[r] = m /\ m # 0
    BY <1>1, <1>2, <1>3, ReceiptsExact DEF Like
  <2>2. QED
    BY <2>1 DEF Exact
<1>5. PICK i \in 1..Len(s) : IsRecord(s[i]) /\ s[i] = h[m]
  BY <1>2, <1>3, <1>4, RecordFound
<1>6. h[m].id \in Ids
  <2>1. h[m] \in Recs
    BY <1>3, <1>4, ElementOfSeq
  <2>2. QED
    BY <2>1 DEF Recs
<1>7. answer' \in [Requests -> Ids \cup {None}] /\ answer'[r] = s[i].id
      /\ \A p \in Requests : p # r => answer'[p] = answer[p]
  BY <1>1, <1>2, <1>5, <1>6 DEF IInv, TypeOK
<1>8. TypeOK'
  BY <1>1, <1>7 DEF IInv, TypeOK, saveVars
<1>9. Answered(s, answer')
  <2>1. SUFFICES ASSUME NEW p \in Requests, answer'[p] # None
                 PROVE  \E j \in 1..Len(s) : IsRecord(s[j]) /\ s[j].id = answer'[p] /\ s[j].by = p
    BY DEF Answered
  <2>2. CASE p = r
    BY <1>4, <1>5, <1>7, <2>2
  <2>3. CASE p # r
    BY <1>2, <1>7, <2>1, <2>3 DEF IInv, Answered
  <2>4. QED
    BY <2>2, <2>3
<1>10. IInv'
  BY <1>1, <1>2, <1>8, <1>9 DEF IInv, saveVars
<1>11. ASSUME answer[r] # None PROVE answer'[r] = answer[r]
  <2>1. PICK j \in 1..Len(s) : IsRecord(s[j]) /\ s[j].id = answer[r] /\ s[j].by = r
    BY <1>2, <1>11 DEF IInv, Answered
  <2>2. s[i].by = r
    BY <1>4, <1>5
  <2>3. i = j
    BY <1>2, <1>3, <1>5, <2>1, <2>2, OneRecordEach
  <2>4. QED
    BY <1>7, <2>1, <2>3
<1>12. QED
  BY <1>10, <1>11

\* A command is refused.
LEMMA RefuseKeeps ==
  ASSUME IInv, NEW r \in Requests, Refuse(r)
  PROVE  IInv'
<1>1. /\ asked' = [asked EXCEPT ![r] = None] /\ current' = current \ {r}
      /\ UNCHANGED <<saveVars, status, opening, engine, answer>>
  BY DEF Refuse, Fulfilled
<1>2. asked' \in [Requests -> Asked \cup {None}] /\ current' \subseteq Requests
  BY <1>1 DEF IInv, TypeOK
<1>3. TypeOK'
  BY <1>1, <1>2 DEF IInv, TypeOK, saveVars
<1>4. QED
  BY <1>1, <1>3 DEF IInv, saveVars

\* Authority is asked for.
LEMMA EnableWizardKeeps ==
  ASSUME IInv, EnableWizard
  PROVE  IInv'
<1>1. status = "up" /\ ~engine.enabled /\ status' = "enabling" /\ UNCHANGED <<opening, clientVars>>
  BY DEF EnableWizard
<1>2. PICK s, e, n : s = log /\ e = engine /\ n = stable
  OBVIOUS
<1>3. /\ s \in Seq(Items) /\ Len(s) \in Nat /\ e \in Engines /\ Like(e, Ran(Records(s)))
      /\ e.marked = Marked(s) /\ ~e.enabled
  BY <1>1, <1>2, WhenRunning
<1>4. CASE engine.marked
  <2>1. UNCHANGED <<saveVars, engine>>
    BY <1>4 DEF EnableWizard
  <2>2. TypeOK'
    BY <1>1, <2>1 DEF IInv, TypeOK, saveVars, clientVars
  <2>3. Running("enabling", e, s, n)
    BY <1>2, <1>3, <1>4 DEF Running
  <2>4. QED
    BY <1>1, <1>2, <2>1, <2>2, <2>3 DEF IInv, saveVars, clientVars
<1>5. CASE ~engine.marked
  <2>1. Len(log) < MaxEntries /\ Accept(Marker) /\ engine' = [engine EXCEPT !.marked = TRUE]
    BY <1>5 DEF EnableWizard, Room
  <2>2. PICK u, d : u = Append(s, Marker) /\ d = [e EXCEPT !.marked = TRUE]
    OBVIOUS
  <2>3. log' = u /\ engine' = d /\ UNCHANGED <<stable, promised, checkpoint>>
    BY <1>2, <2>1, <2>2 DEF Accept
  <2>4. Marker \in Items /\ ~IsRecord(Marker)
    BY DEF Items, Marker, IsRecord
  <2>5. /\ u \in Seq(Items) /\ Len(u) = Len(s) + 1 /\ \A i \in 1..Len(s) : u[i] = s[i]
    BY <1>3, <2>2, <2>4, LogGrows
  <2>6. Records(u) = Records(s)
    BY <1>3, <2>2, <2>4, RecordsAppend
  <2>7. d \in Engines /\ Like(d, e) /\ d.marked = TRUE /\ ~d.enabled
    <3>1. e \in [valid : BOOLEAN, branch : Branches, game : Games, boundaries : Seq(Bounds),
                 receipts : [Requests -> Nat], count : Nat, marked : BOOLEAN, enabled : BOOLEAN]
      BY <1>3 DEF Engines
    <3>2. d = [valid |-> e.valid, branch |-> e.branch, game |-> e.game,
               boundaries |-> e.boundaries, receipts |-> e.receipts, count |-> e.count,
               marked |-> TRUE, enabled |-> e.enabled]
      BY <2>2, <3>1
    <3>3. d \in Engines
      BY <3>1, <3>2 DEF Engines
    <3>4. QED
      BY <1>3, <3>2, <3>3 DEF Like
  <2>8. Placed(u, opening)
    <3>1. PICK o : o = opening
      OBVIOUS
    <3>2. Placed(s, o)
      BY <1>2, <3>1 DEF IInv
    <3>3. Placed(u, o)
      BY <1>3, <2>2, <2>4, <3>2, PlacedGrows
    <3>4. QED
      BY <3>1, <3>3
  <2>9. Answered(u, answer)
    <3>1. PICK given : given = answer
      OBVIOUS
    <3>2. Answered(s, given)
      BY <1>2, <3>1 DEF IInv
    <3>3. Answered(u, given)
      BY <1>3, <2>2, <2>4, <3>2, AnsweredGrows
    <3>4. QED
      BY <3>1, <3>3
  <2>10. Running("enabling", d, u, n)
    <3>1. Marked(u)
      BY <1>3, <2>2, <2>4, MarkedGrows
    <3>2. Marked(u) = TRUE
      <4>1. Marked(u) \in BOOLEAN
        BY DEF Marked, Contains
      <4>2. QED
        BY <3>1, <4>1
    <3>3. Like(d, Ran(Records(u)))
      BY <1>3, <2>6, <2>7 DEF Like
    <3>4. QED
      BY <2>7, <3>2, <3>3 DEF Running
  <2>11. TypeOK'
    <3>1. Len(u) <= MaxEntries /\ stable \in 0..Len(u) /\ promised \in 0..stable
          /\ checkpoint \in 0..stable
      BY <1>2, <1>3, <2>1, <2>5, CommandsAssumption DEF IInv, TypeOK
    <3>2. checkpoint # 0 => IsRecord(u[checkpoint])
      <4>1. ASSUME checkpoint # 0 PROVE checkpoint \in 1..Len(s)
        BY <1>2, <1>3, <4>1 DEF IInv, TypeOK
      <4>2. QED
        BY <1>2, <2>5, <4>1 DEF IInv, TypeOK
    <3>3. QED
      BY <1>1, <2>3, <2>5, <2>7, <3>1, <3>2 DEF IInv, TypeOK, Items, clientVars
  <2>12. Legal(Records(u))
    BY <1>2, <2>6 DEF IInv
  <2>13. QED
    BY <1>1, <1>2, <2>3, <2>8, <2>9, <2>10, <2>11, <2>12 DEF IInv, clientVars
<1>6. QED
  BY <1>4, <1>5

\* The flush returns, and authority is given.
LEMMA WizardEnabledKeeps ==
  ASSUME IInv, WizardEnabled
  PROVE  IInv'
<1>1. /\ status = "enabling" /\ FlushReturns /\ engine' = [engine EXCEPT !.enabled = TRUE]
      /\ status' = "up" /\ UNCHANGED <<checkpoint, opening, clientVars>>
  BY DEF WizardEnabled
<1>2. Len(log) \in promised..stable /\ promised' = Len(log) /\ UNCHANGED <<log, stable>>
  BY <1>1 DEF FlushReturns, Save!Promise
<1>3. PICK s, e, n, d : s = log /\ e = engine /\ n = stable /\ d = [e EXCEPT !.enabled = TRUE]
  OBVIOUS
<1>4. /\ s \in Seq(Items) /\ Len(s) \in Nat /\ e \in Engines /\ Like(e, Ran(Records(s)))
      /\ e.marked = Marked(s) /\ e.marked
  BY <1>1, <1>3, WhenRunning
<1>5. n = Len(s)
  BY <1>2, <1>3, <1>4 DEF IInv, TypeOK
<1>6. d \in Engines /\ Like(d, e) /\ d.marked = e.marked
  <2>1. e \in [valid : BOOLEAN, branch : Branches, game : Games, boundaries : Seq(Bounds),
               receipts : [Requests -> Nat], count : Nat, marked : BOOLEAN, enabled : BOOLEAN]
    BY <1>4 DEF Engines
  <2>2. d = [valid |-> e.valid, branch |-> e.branch, game |-> e.game,
             boundaries |-> e.boundaries, receipts |-> e.receipts, count |-> e.count,
             marked |-> e.marked, enabled |-> TRUE]
    BY <1>3, <2>1
  <2>3. d \in Engines
    BY <2>1, <2>2 DEF Engines
  <2>4. QED
    BY <2>2, <2>3 DEF Like
<1>7. Running("up", d, s, n)
  <2>1. SubSeq(s, 1, n) = s
    BY <1>4, <1>5, Beginnings
  <2>2. Like(d, Ran(Records(s)))
    BY <1>4, <1>6 DEF Like
  <2>3. QED
    BY <1>4, <1>6, <2>1, <2>2 DEF Running
<1>8. TypeOK'
  <2>1. promised' \in 0..stable
    BY <1>2, <1>3, <1>4, <1>5
  <2>2. QED
    BY <1>1, <1>2, <1>3, <1>6, <2>1 DEF IInv, TypeOK, clientVars
<1>9. QED
  BY <1>1, <1>2, <1>3, <1>7, <1>8 DEF IInv, clientVars

\* It fails.
LEMMA EnableFailsKeeps ==
  ASSUME IInv, EnableFails
  PROVE  IInv'
<1>1. /\ status = "enabling" /\ status' = "up"
      /\ UNCHANGED <<saveVars, opening, engine, clientVars>>
  BY DEF EnableFails
<1>2. TypeOK'
  BY <1>1 DEF IInv, TypeOK, saveVars, clientVars
<1>3. Running("up", engine, log, stable)
  BY <1>1 DEF IInv, Running
<1>4. QED
  BY <1>1, <1>2, <1>3 DEF IInv, saveVars, clientVars

\* More of the log is stable.
LEMMA HardenKeeps ==
  ASSUME IInv, Harden
  PROVE  IInv'
<1>1. status \in {"up", "enabling"} /\ UNCHANGED <<checkpoint, status, opening, engine, clientVars>>
  BY DEF Harden
<1>2. PICK m \in (stable + 1)..Len(log) : stable' = m /\ UNCHANGED <<log, promised>>
  BY DEF Harden, Save!Harden
<1>3. PICK s, n : s = log /\ n = stable
  OBVIOUS
<1>4. s \in Seq(Items) /\ Len(s) \in Nat /\ (engine.enabled => Marked(SubSeq(s, 1, n)))
  BY <1>1, <1>3, WhenRunning
<1>5. n \in 0..m /\ m \in 0..Len(s)
  BY <1>2, <1>3, <1>4 DEF IInv, TypeOK
<1>6. engine.enabled => Marked(SubSeq(s, 1, m))
  <2>1. ASSUME Marked(SubSeq(s, 1, n)) PROVE Marked(SubSeq(s, 1, m))
    BY <1>4, <1>5, <2>1, MarkedBegins
  <2>2. QED
    BY <1>4, <2>1
<1>7. Running(status, engine, s, m)
  BY <1>3, <1>6 DEF IInv, Running
<1>8. TypeOK'
  <2>1. promised \in 0..m /\ checkpoint \in 0..m
    BY <1>3, <1>4, <1>5 DEF IInv, TypeOK
  <2>2. QED
    BY <1>1, <1>2, <1>3, <1>5, <2>1 DEF IInv, TypeOK, clientVars
<1>9. QED
  BY <1>1, <1>2, <1>3, <1>7, <1>8 DEF IInv, clientVars

\* The process ends.
LEMMA CrashKeeps ==
  ASSUME IInv, Crash
  PROVE  IInv'
<1>1. /\ Save!Restart /\ status' = "down" /\ engine' = Fresh
      /\ checkpoint' \in {checkpoint} \cup {i \in (checkpoint + 1)..stable : IsRecord(log[i])}
      /\ asked' = [r \in Requests |-> None] /\ current' = {} /\ UNCHANGED opening
      /\ answer' = [r \in Requests |-> IF Saved(answer[r]) THEN answer[r] ELSE None]
  BY DEF Crash
<1>2. PICK s, n, u, o : s = log /\ n = stable /\ u = SubSeq(s, 1, n) /\ o = opening
  OBVIOUS
<1>3. log' = u /\ UNCHANGED <<stable, promised>>
  BY <1>1, <1>2 DEF Save!Restart
<1>4. s \in Seq(Items) /\ n \in 0..Len(s) /\ Legal(Records(s)) /\ Placed(s, o) /\ Len(s) <= MaxEntries
  BY <1>2 DEF IInv, TypeOK, Items
<1>5. /\ u \in Seq(Items) /\ Len(u) = n /\ n \in Nat /\ Len(s) \in Nat
      /\ \A i \in 1..n : u[i] = s[i]
  BY <1>2, <1>4, Beginnings, LenProperties
<1>6. Legal(Records(u))
  <2>1. PICK a, h : a = Records(u) /\ h = Records(s)
    OBVIOUS
  <2>2. a \in Seq(Recs) /\ Len(a) \in 0..Len(h) /\ a = SubSeq(h, 1, Len(a))
    BY <1>2, <1>4, <2>1, RecordsBegin
  <2>3. h \in Seq(Recs)
    BY <1>4, <2>1, RecordsType
  <2>4. QED
    BY <1>4, <2>1, <2>2, <2>3, LegalBegins
<1>7. Placed(u, o)
  BY <1>2, <1>4, PlacedCut
<1>8. answer' \in [Requests -> Ids \cup {None}]
  BY <1>1 DEF IInv, TypeOK
<1>9. Answered(u, answer')
  <2>1. SUFFICES ASSUME NEW r \in Requests, answer'[r] # None
                 PROVE  \E i \in 1..n : IsRecord(u[i]) /\ u[i].id = answer'[r] /\ u[i].by = r
    BY <1>5 DEF Answered
  <2>2. answer'[r] = answer[r] /\ Saved(answer[r])
    BY <1>1, <2>1
  <2>3. PICK i \in 1..n : IsRecord(s[i]) /\ s[i].id = answer[r]
    BY <1>2, <2>2 DEF Saved
  <2>4. PICK j \in 1..Len(s) : IsRecord(s[j]) /\ s[j].id = answer[r] /\ s[j].by = r
    BY <1>2, <2>1, <2>2 DEF IInv, Answered
  <2>5. i \in 1..Len(s)
    BY <1>4, <1>5
  <2>6. i = j
    BY <1>4, <2>3, <2>4, <2>5, OneIdEach
  <2>7. QED
    BY <1>5, <2>2, <2>3, <2>4, <2>6
<1>10. Running("down", Fresh, u, n)
  BY DEF Running
<1>11. TypeOK'
  <2>1. promised \in 0..n /\ Len(u) <= MaxEntries /\ n \in 0..Len(u)
    BY <1>2, <1>4, <1>5, CommandsAssumption DEF IInv, TypeOK
  <2>2. checkpoint' \in 0..n /\ (checkpoint' # 0 => IsRecord(u[checkpoint']))
    <3>1. checkpoint \in 0..n /\ (checkpoint # 0 => IsRecord(s[checkpoint]))
      BY <1>2 DEF IInv, TypeOK
    <3>2. CASE checkpoint' = checkpoint
      <4>1. ASSUME checkpoint # 0 PROVE IsRecord(u[checkpoint])
        <5>1. checkpoint \in 1..n
          BY <1>5, <3>1, <4>1
        <5>2. QED
          BY <1>5, <3>1, <4>1, <5>1
      <4>2. QED
        BY <3>1, <3>2, <4>1
    <3>3. CASE checkpoint' # checkpoint
      <4>1. checkpoint' \in (checkpoint + 1)..n /\ IsRecord(s[checkpoint'])
        BY <1>1, <1>2, <3>3
      <4>2. checkpoint' \in 1..n
        BY <1>5, <3>1, <4>1
      <4>3. QED
        BY <1>5, <4>1, <4>2
    <3>4. QED
      BY <3>2, <3>3
  <2>3. asked' \in [Requests -> Asked \cup {None}]
    BY <1>1
  <2>4. QED
    BY <1>1, <1>2, <1>3, <1>5, <1>8, <2>1, <2>2, <2>3, FreshType DEF IInv, TypeOK, Items
<1>12. QED
  BY <1>1, <1>2, <1>3, <1>6, <1>7, <1>9, <1>10, <1>11 DEF IInv

\* The save is opened.
LEMMA ReopenKeeps ==
  ASSUME IInv, Reopen
  PROVE  IInv' /\ (Restorable => status' = "up")
<1>1. /\ status = "down" /\ opening < MaxOpenings /\ opening' = opening + 1 /\ engine' = Opened
      /\ status' = IF Opened.valid THEN "up" ELSE "refused"
      /\ UNCHANGED <<saveVars, clientVars>>
  BY DEF Reopen
<1>2. /\ log \in Seq(Items) /\ stable \in 0..Len(log) /\ checkpoint \in 0..stable
      /\ (checkpoint # 0 => IsRecord(log[checkpoint]))
      /\ Legal(Records(log)) /\ Placed(log, opening) /\ opening \in 1..MaxOpenings
  BY DEF IInv, TypeOK, Items
<1>3. checkpoint \in 0..Len(log)
  <2>1. Len(log) \in Nat
    BY <1>2, LenProperties
  <2>2. QED
    BY <1>2, <2>1
<1>4. /\ Opened \in Engines /\ ~Opened.enabled /\ (Opened.valid <=> Restorable)
      /\ Opened.valid => Like(Opened, Ran(Records(log))) /\ Opened.marked = Marked(log)
  BY <1>2, <1>3, OpenedReproduces
<1>5. PICK e, s, o : e = Opened /\ s = log /\ o = opening
  OBVIOUS
<1>6. Running(status', e, s, stable)
  BY <1>1, <1>4, <1>5 DEF Running
<1>7. Placed(s, o + 1)
  <2>1. ASSUME NEW i \in 1..Len(s), IsRecord(s[i]) PROVE s[i].id[1] \in Nat
    <3>1. s[i] \in Recs
      <4>1. s[i] \in Items
        BY <1>2, <1>5, ElementOfSeq
      <4>2. QED
        BY <2>1, <4>1, ItemKinds
    <3>2. s[i].id \in (1..MaxOpenings) \X (1..MaxEntries)
      BY <3>1 DEF Recs, Ids
    <3>3. QED
      BY <3>2, CommandsAssumption
  <2>2. o \in Nat /\ Placed(s, o)
    BY <1>2, <1>5, CommandsAssumption
  <2>3. \A i \in 1..Len(s) : IsRecord(s[i]) => s[i].id[1] <= o + 1
    BY <2>1, <2>2 DEF Placed
  <2>4. QED
    BY <2>2, <2>3 DEF Placed
<1>8. TypeOK'
  <2>1. opening' \in 1..MaxOpenings
    BY <1>1, <1>2, CommandsAssumption
  <2>2. QED
    BY <1>1, <1>4, <2>1 DEF IInv, TypeOK, saveVars, clientVars
<1>9. IInv'
  BY <1>1, <1>5, <1>6, <1>7, <1>8 DEF IInv, saveVars, clientVars
<1>10. QED
  BY <1>1, <1>4, <1>9

\* Every step keeps it.
LEMMA StepHolds == IInv /\ [Next]_vars => IInv'
<1> SUFFICES ASSUME IInv, [Next]_vars PROVE IInv'
  OBVIOUS
<1>1. CASE UNCHANGED vars
  <2>1. TypeOK'
    BY <1>1 DEF IInv, TypeOK, vars, saveVars, clientVars
  <2>2. QED
    BY <1>1, <2>1 DEF IInv, vars, saveVars, clientVars
<1>2. ASSUME NEW r \in Requests, Compose(r) \/ Retry(r) \/ Execute(r) \/ Refuse(r)
      PROVE  IInv'
  <2>1. CASE Compose(r)
    BY <2>1, ComposeKeeps
  <2>2. CASE Retry(r)
    BY <2>2, RetryKeeps
  <2>3. CASE Execute(r)
    BY <2>3, ExecuteKeeps
  <2>4. CASE Refuse(r)
    BY <2>4, RefuseKeeps
  <2>5. QED
    BY <1>2, <2>1, <2>2, <2>3, <2>4
<1>3. CASE Schedule
  BY <1>3, ScheduleKeeps
<1>4. CASE EnableWizard
  BY <1>4, EnableWizardKeeps
<1>5. CASE WizardEnabled
  BY <1>5, WizardEnabledKeeps
<1>6. CASE EnableFails
  BY <1>6, EnableFailsKeeps
<1>7. CASE Harden
  BY <1>7, HardenKeeps
<1>8. CASE Crash
  BY <1>8, CrashKeeps
<1>9. CASE Reopen
  BY <1>9, ReopenKeeps
<1>10. QED
  BY <1>1, <1>2, <1>3, <1>4, <1>5, <1>6, <1>7, <1>8, <1>9 DEF Next

\* What is named by a saved answer.
LEMMA SavedIsNamed ==
  ASSUME IInv, NEW r \in Requests, Saved(answer[r])
  PROVE  answer[r] # None
<1>1. PICK i \in 1..stable : IsRecord(log[i]) /\ log[i].id = answer[r]
  BY DEF Saved
<1>2. PICK s, n : s = log /\ n = stable
  OBVIOUS
<1>3. s \in Seq(Items) /\ n \in 0..Len(s)
  BY <1>2 DEF IInv, TypeOK, Items
<1>4. i \in 1..Len(s)
  BY <1>2, <1>3, LenProperties
<1>5. s[i] \in Recs
  <2>1. s[i] \in Items
    BY <1>3, <1>4, ElementOfSeq
  <2>2. QED
    BY <1>1, <1>2, <2>1, ItemKinds
<1>6. s[i].id \in Ids
  BY <1>5 DEF Recs
<1>7. QED
  BY <1>1, <1>2, <1>6, CommandsAssumption

\* No step changes a saved answer.
LEMMA StepStands ==
  ASSUME IInv, [Next]_vars
  PROVE  \A r \in Requests : Saved(answer[r]) => answer'[r] = answer[r]
<1> SUFFICES ASSUME NEW r \in Requests, Saved(answer[r]) PROVE answer'[r] = answer[r]
  OBVIOUS
<1>1. answer[r] # None
  BY SavedIsNamed
<1>2. CASE UNCHANGED vars
  BY <1>2 DEF vars, clientVars
<1>3. ASSUME NEW p \in Requests, Compose(p) \/ Refuse(p) PROVE answer'[r] = answer[r]
  BY <1>3 DEF Compose, Refuse
<1>4. ASSUME NEW p \in Requests, Retry(p) PROVE answer'[r] = answer[r]
  <2>1. CASE p = r
    BY <1>1, <1>4, <2>1, RetryKeeps
  <2>2. CASE p # r
    BY <1>4, <2>2 DEF Retry, IInv, TypeOK
  <2>3. QED
    BY <2>1, <2>2
<1>5. ASSUME NEW p \in Requests, Execute(p) PROVE answer'[r] = answer[r]
  <2>1. p # r
    BY <1>1, <1>5, ExecuteKeeps
  <2>2. answer' = [answer EXCEPT ![p] = NewId]
    BY <1>5 DEF Execute
  <2>3. QED
    BY <2>1, <2>2 DEF IInv, TypeOK
<1>6. CASE Crash
  BY <1>6 DEF Crash
<1>7. CASE Schedule \/ EnableWizard \/ WizardEnabled \/ EnableFails \/ Harden \/ Reopen
  BY <1>7 DEF Schedule, EnableWizard, WizardEnabled, EnableFails, Harden, Reopen, clientVars
<1>8. QED
  BY <1>2, <1>3, <1>4, <1>5, <1>6, <1>7 DEF Next

-----------------------------------------------------------------------------
(* Every save opens *)

\* Under the invariant the checkpoint can always be restored.
LEMMA InvariantRestores == IInv => Restorable
<1> SUFFICES ASSUME IInv PROVE Restorable
  OBVIOUS
<1>1. log \in Seq(Items) /\ stable \in 0..Len(log) /\ checkpoint \in 0..stable
      /\ (checkpoint # 0 => IsRecord(log[checkpoint]))
  BY DEF IInv, TypeOK, Items
<1>2. Len(log) \in Nat
  BY <1>1, LenProperties
<1>3. checkpoint \in 0..Len(log)
  BY <1>1, <1>2
<1>4. Legal(Records(log)) /\ Placed(log, opening)
  BY DEF IInv
<1>5. QED
  BY <1>1, <1>3, <1>4, AlwaysRestorable

\* No step refuses a save.
LEMMA StepOpens ==
  ASSUME IInv, status # "refused", [Next]_vars
  PROVE  status' # "refused"
<1>1. CASE UNCHANGED vars
  BY <1>1 DEF vars
<1>2. ASSUME NEW r \in Requests, Compose(r) \/ Retry(r) \/ Execute(r) \/ Refuse(r)
      PROVE  status' # "refused"
  BY <1>2 DEF Compose, Retry, Execute, Refuse
<1>3. CASE Schedule \/ EnableWizard \/ WizardEnabled \/ EnableFails \/ Harden \/ Crash
  BY <1>3 DEF Schedule, EnableWizard, WizardEnabled, EnableFails, Harden, Crash
<1>4. CASE Reopen
  <2>1. status' = "up"
    BY <1>4, InvariantRestores, ReopenKeeps
  <2>2. QED
    BY <2>1
<1>5. QED
  BY <1>1, <1>2, <1>3, <1>4 DEF Next

\* The engine that runs is the one that its history describes.
LEMMA InvariantReproduces ==
  ASSUME IInv, status # "refused"
  PROVE  RecoveryReproduces
<1>1. PICK h, l, e : h = Records(log) /\ l = log /\ e = engine
  OBVIOUS
<1>2. l \in Seq(Items) /\ Legal(h) /\ Placed(l, opening)
  BY <1>1 DEF IInv, TypeOK, Items
<1>3. h \in Seq(Recs) /\ Apart(h)
  <2>1. PICK o : o = opening
    OBVIOUS
  <2>2. Placed(l, o)
    BY <1>2, <2>1
  <2>3. QED
    BY <1>1, <1>2, <2>2, RecordsType, RecordsApart
<1>4. ASSUME status \in {"up", "enabling"}
      PROVE  Like(e, Ran(h)) /\ e.marked = Marked(log)
  BY <1>1, <1>4 DEF IInv, Running
<1>5. PICK d, E, lines : d = Ran(h) /\ E = Expected(h) /\ lines = Lineage(h)
  OBVIOUS
<1>6. /\ d.game = lines[Len(h)]
      /\ d.boundaries = [i \in DOMAIN E |-> [id |-> E[i].id, selectable |-> E[i].selectable,
                                             game |-> lines[E[i].at]]]
      /\ d.branch = Branch(h) /\ d.receipts = Receipted(h) /\ d.count = Len(h)
  BY <1>2, <1>3, <1>5, RanDescribed
<1>7. ASSUME status \in {"up", "enabling"}
      PROVE  /\ e.game = lines[Len(h)]
             /\ e.boundaries = [i \in DOMAIN E |-> [id |-> E[i].id,
                                  selectable |-> E[i].selectable, game |-> lines[E[i].at]]]
             /\ e.branch = Branch(h) /\ e.receipts = Receipted(h) /\ e.count = Len(h)
             /\ e.marked = Marked(log)
  BY <1>4, <1>5, <1>6, <1>7 DEF Like
<1>8. QED
  BY <1>1, <1>5, <1>7 DEF RecoveryReproduces

-----------------------------------------------------------------------------
(* Theorems *)

\* In every reachable state the history is one that an engine ran, every entry
\* stands where its identifier says, every receipt a client holds names a record
\* of its request, and the engine that runs is like the one that ran the history.
THEOREM InvariantHolds == Spec => []IInv
  BY InitHolds, StepHolds, PTL DEF Spec

\* However often a request is repeated, across crashes, rewinds and openings, the
\* history holds at most one record of it (resolve_receipt).
THEOREM RequestsOnce == Spec => []ExecutedOnce
<1>1. IInv => ExecutedOnce
  <2>1. ASSUME IInv PROVE ExecutedOnce
    <3>1. log \in Seq(Items) /\ Legal(Records(log))
      BY <2>1 DEF IInv, TypeOK, Items
    <3>2. QED
      BY <3>1, LegalExecutesOnce
  <2>2. QED
    BY <2>1
<1>2. QED
  BY <1>1, InvariantHolds, PTL

\* An engine gives authority only once the marker is on disk, and no wizard's
\* command precedes its marker, whatever a crash leaves (enable_wizard).
THEOREM AuthorityAfterMarker == Spec => []AuthorityMarked
<1>1. IInv => AuthorityMarked
  <2>1. ASSUME IInv PROVE AuthorityMarked
    <3>1. log \in Seq(Items) /\ Placed(log, opening)
      BY <2>1 DEF IInv, TypeOK, Items
    <3>2. status = "up" /\ engine.enabled => Marked(SubSeq(log, 1, stable))
      BY <2>1 DEF IInv, Running
    <3>3. DOMAIN log = 1..Len(log)
      BY <3>1, LenProperties
    <3>4. QED
      BY <3>1, <3>2, <3>3, WizardsAfterMarker DEF AuthorityMarked
  <2>2. QED
    BY <2>1
<1>2. QED
  BY <1>1, InvariantHolds, PTL

\* Once a receipt has named an entry that is on disk, no step, a crash or a
\* reopening among them, leads to a receipt that names another (retry_decoded).
THEOREM AnswersStand == Spec => SavedAnswerStands
<1>1. IInv /\ [Next]_vars =>
        [\A r \in Requests : Saved(answer[r]) => answer'[r] = answer[r]]_vars
  BY StepStands
<1>2. QED
  BY <1>1, InvariantHolds, PTL DEF Spec, SavedAnswerStands

\* Every save opens, from whatever checkpoint it holds, and the engine is at every
\* moment the one its history describes: its game, the boundaries a rewind may select
\* with their games, the branch, the receipts (replay, restore, retain_boundaries).
THEOREM EverySaveOpens == Spec => []RecoveryReproduces
<1>1. Init => IInv /\ status # "refused"
  BY InitHolds DEF Init
<1>2. (IInv /\ status # "refused") /\ [Next]_vars => (IInv /\ status # "refused")'
  BY StepHolds, StepOpens
<1>3. IInv /\ status # "refused" => RecoveryReproduces
  BY InvariantReproduces
<1>4. QED
  BY <1>1, <1>2, <1>3, PTL DEF Spec
=============================================================================
