------------------------ MODULE RegionRecordsProofs ------------------------
(***************************************************************************)
(* Proofs about the records of unloaded regions: every record that the     *)
(* game or a boundary refers to is found, and is the one that was meant;   *)
(* no batch ever writes a row again with another content; every file       *)
(* opens; and an accepted input can be read.                               *)
(*                                                                         *)
(* The argument: the entries of the file, of the worker's batch and those  *)
(* pending are one line of accepted entries (Placed), and the games they   *)
(* make, one after the other, explain everything else (Legal).  Entries    *)
(* give out growing identities, so a record is known by its identity       *)
(* alone (Unique), and a game refers only to records that an earlier one   *)
(* refers to or that were made since (Inherits).  So what a checkpoint     *)
(* drops no later game can mean (KeepsLater), and what the engine believes *)
(* to be on disk is there, as far as its game refers to it (EngineHolds).  *)
(***************************************************************************)
EXTENDS RegionRecords, Integers, FiniteSetTheorems, SequenceTheorems,
        WellFoundedInduction, TLAPS

\* What the variables are made of.
Records    == [id : Nat, by : Nat \X Nat]
Games      == [at : [Regions -> {NotBuilt, Loaded} \cup Records], next : Nat]
Bounds     == [sequence : Nat, game : Games]
Ops        == [kind : {"turn"}, horizon : Horizons] \cup [kind : {"rewind"}, target : Nat]
Entries    == [sequence : Nat, by : Nat \X Nat, op : Ops,
               made : SUBSET Records, sources : SUBSET Regions]
Captures   == [sequence : Nat, game : Games, boundaries : Seq(Bounds),
               watermark : Nat, records : SUBSET Records]
Reports    == [named : SUBSET Nat, watermark : Nat]
Holdings   == [resident : SUBSET Records, durable : SUBSET Nat,
               saved : SUBSET Regions, unsaved : SUBSET Regions]
States     == [game : Games, boundaries : Seq(Bounds)]

Stores     == [pending : Seq(Entries), checkpoint : Captures \cup {None}, failed : BOOLEAN,
               written : Reports \cup {None}, appended : SUBSET Nat,
               accepted : Nat, requested : Nat]
Ownership  == [known : SUBSET Regions, pending : UNION {[S -> Nat] : S \in SUBSET Regions}]
Workers    == [stage : {"idle", "writing", "committed"}, batch : Seq(Entries),
               checkpoint : Captures \cup {None}]
Files      == [entries : Seq(Entries), checkpoint : Captures \cup {None},
               rows : SUBSET Records, sources : SUBSET Regions]

\* Every variable has its type.
TypeOK ==
  /\ game \in Games /\ boundaries \in Seq(Bounds) /\ regions \in Holdings
  /\ command \in {"none", "heard", "ready"}
  /\ store \in Stores /\ inputs \in Ownership /\ worker \in Workers /\ file \in Files
  /\ status \in {"up", "down", "refused"} /\ opening \in Nat

-----------------------------------------------------------------------------
(* Induction *)

\* A set that holds zero and with each number its successor holds them all.
LEMMA NumbersReached ==
  ASSUME NEW P, 0 \in P, \A n \in Nat : n \in P => n + 1 \in P
  PROVE  Nat \subseteq P
<1> DEFINE T == {n \in Nat : n \notin P}
<1>1. SUFFICES ASSUME T # {} PROVE FALSE
  OBVIOUS
<1>2. IsWellFoundedOn(OpToRel(<, Nat), Nat)
  BY NatLessThanWellFounded
<1>3. \E x \in T : \A y \in T : <<y, x>> \notin OpToRel(<, Nat)
  BY <1>1, <1>2, WFMin
<1>4. PICK x \in T : \A y \in T : ~(y < x)
  BY <1>3 DEF OpToRel
<1>5. QED
  BY <1>4

-----------------------------------------------------------------------------
(* One operation *)

\* What an entry makes of a game and its boundaries.
Then(e, entry) ==
  LET after == Applied(e.game, e.boundaries, entry.op, entry.by)
  IN  [game |-> after.game,
       boundaries |-> RetainLast(Append(e.boundaries,
                        [sequence |-> entry.sequence, game |-> after.game]))]

\* The records that a game and its boundaries refer to.
Refs(e) == Referenced(e.game, e.boundaries)

\* A rewind goes to a boundary there is.
Possible(bs, op) == op.kind = "rewind" => \E b \in Range(bs) : b.sequence = op.target

\* What a game refers to is a record.
LEMMA ReferencesType ==
  ASSUME NEW g \in Games
  PROVE  References(g) \subseteq Records
  BY DEF References, IsReference, Games

\* What a sequence holds, by place.
LEMMA InSequence ==
  ASSUME NEW S, NEW s \in Seq(S)
  PROVE  /\ Len(s) \in Nat
         /\ \A i \in 1..Len(s) : s[i] \in Range(s) /\ s[i] \in S
         /\ \A x \in Range(s) : x \in S /\ \E i \in 1..Len(s) : x = s[i]
<1>1. Len(s) \in Nat /\ s \in [1..Len(s) -> S] /\ DOMAIN s = 1..Len(s)
  BY LenProperties
<1>2. QED
  BY <1>1 DEF Range

\* What a game and its boundaries refer to are records.
LEMMA RefsType ==
  ASSUME NEW e \in States
  PROVE  Refs(e) \subseteq Records
<1>1. e.boundaries \in Seq(Bounds)
  BY DEF States
<1>2. \A b \in Range(e.boundaries) : b \in Bounds
  BY <1>1, InSequence
<1>3. \A b \in Range(e.boundaries) : b.game \in Games
  BY <1>2 DEF Bounds
<1>4. QED
  BY <1>3, ReferencesType DEF Refs, Referenced, States

\* The identities of an ordered set of regions: each its own.
LEMMA NumberedIs ==
  ASSUME NEW S \in SUBSET Regions, NEW first \in Nat, NEW by, NEW r \in S,
         NEW f, f = Numbered(S, first, by)
  PROVE  \E i \in first..(first + Cardinality(S) - 1) : f[r] = RecordOf(i, by)
<1> DEFINE T == {q \in S : q < r}
<1>1. IsFiniteSet(S) /\ S \subseteq Nat
  BY RegionRecordsAssumption, FS_Subset
<1>2. T \in SUBSET S /\ r \notin T
  BY <1>1
<1>3. /\ Cardinality(S) \in Nat /\ Cardinality(T) \in Nat
      /\ Cardinality(T) <= Cardinality(S) /\ Cardinality(T) # Cardinality(S)
  BY <1>1, <1>2, FS_Subset, FS_CardinalityType
<1> HIDE DEF T
<1>4. first + Cardinality(T) \in first..(first + Cardinality(S) - 1)
  BY <1>3
<1>5. QED
  BY <1>4 DEF Numbered, T

\* A transition gives out the identities from the game's next one on.
LEMMA TransitionIs ==
  ASSUME NEW g \in Games, NEW horizon \in Horizons, NEW by \in Nat \X Nat,
         NEW t, t = Transition(g, horizon, by)
  PROVE  /\ t.game \in Games /\ t.game.next >= g.next
         /\ t.made \subseteq {RecordOf(i, by) : i \in g.next..(t.game.next - 1)}
         /\ References(t.game) \subseteq References(g) \cup t.made
<1> DEFINE group    == Builds(g, horizon) \cap Group
           leaving  == {r \in Regions : g.at[r] = Loaded /\ r \notin horizon}
           a        == Cardinality(group)
           b        == Cardinality(leaving)
           middle   == g.next + a
           shared   == Numbered(group, g.next, by)
           detached == Numbered(leaving, middle, by)
           end      == g.next + a + b
<1>1. group \subseteq Regions /\ leaving \subseteq Regions /\ horizon \subseteq Regions
  BY RegionRecordsAssumption
<1>2. a \in Nat /\ b \in Nat /\ g.next \in Nat
  BY <1>1, RegionRecordsAssumption, FS_Subset, FS_CardinalityType DEF Games
<1>3. DOMAIN shared = group /\ DOMAIN detached = leaving
  BY DEF Numbered
<1>4. /\ t.made = Range(shared) \cup Range(detached)
      /\ t.game.next = end
      /\ t.game = [at |-> t.game.at, next |-> t.game.next]
      /\ t.game.at = [r \in Regions |->
                             CASE r \in horizon -> Loaded
                               [] r \in leaving -> detached[r]
                               [] r \in group \ horizon -> shared[r]
                               [] OTHER -> g.at[r]]
  BY DEF Transition
<1> DEFINE Given == {RecordOf(i, by) : i \in g.next..(end - 1)}
<1>5. ASSUME NEW r \in group PROVE shared[r] \in Given
  <2>1. PICK i \in g.next..(g.next + a - 1) : shared[r] = RecordOf(i, by)
    BY <1>1, <1>2, NumberedIs
  <2> HIDE DEF shared, a, b
  <2>2. i \in g.next..(end - 1)
    BY <1>2
  <2>3. QED
    BY <2>1, <2>2
<1>6. ASSUME NEW r \in leaving PROVE detached[r] \in Given
  <2>1. middle \in Nat
    BY <1>2
  <2>0. leaving \in SUBSET Regions /\ r \in leaving
    BY <1>1
  <2> HIDE DEF a, middle, leaving
  <2>2. PICK i \in middle..(middle + b - 1) : detached[r] = RecordOf(i, by)
    BY <2>1, <2>0, NumberedIs
  <2> HIDE DEF detached, b
  <2>3. i \in g.next..(end - 1)
    BY <1>2, <2>1 DEF middle
  <2>4. QED
    BY <2>2, <2>3
<1>7. Given \subseteq Records
  <2> HIDE DEF a, b
  <2>1. \A i \in g.next..(end - 1) : i \in Nat
    BY <1>2
  <2>2. QED
    BY <2>1 DEF RecordOf, Records
<1> HIDE DEF shared, detached, group, leaving, a, b, middle
<1>8. /\ \A r \in Regions :
           t.game.at[r] \in {Loaded, g.at[r]} \cup Range(shared) \cup Range(detached)
  <2>1. \A r \in group : shared[r] \in Range(shared)
    BY <1>3 DEF Range
  <2>2. \A r \in leaving : detached[r] \in Range(detached)
    BY <1>3 DEF Range
  <2>3. QED
    BY <1>4, <2>1, <2>2
<1>9. t.made \subseteq Given
  BY <1>3, <1>4, <1>5, <1>6 DEF Range
<1>10. t.game \in Games
  <2>1. end \in Nat
    BY <1>2
  <2>2. \A r \in Regions : t.game.at[r] \in {NotBuilt, Loaded} \cup Records
    BY <1>4, <1>7, <1>8, <1>9 DEF Games
  <2>3. QED
    BY <1>4, <2>1, <2>2 DEF Games
<1>11. References(t.game) \subseteq References(g) \cup t.made
  BY <1>4, <1>8 DEF References, IsReference
<1>12. end >= g.next
  BY <1>2
<1>13. QED
  BY <1>4, <1>9, <1>10, <1>11, <1>12

\* The boundaries that are kept are some of those there were.
LEMMA RetainLastIs ==
  ASSUME NEW S, NEW bs \in Seq(S)
  PROVE  RetainLast(bs) \in Seq(S) /\ Range(RetainLast(bs)) \subseteq Range(bs)
<1> DEFINE from == IF Len(bs) > Window THEN Len(bs) - Window + 1 ELSE 1
           kept == SubSeq(bs, from, Len(bs))
<1>1. Len(bs) \in Nat /\ \A i \in 1..Len(bs) : bs[i] \in S /\ bs[i] \in Range(bs)
  BY InSequence
<1>2. from \in Nat \ {0}
  BY <1>1, RegionRecordsAssumption
<1> HIDE DEF from
<1>3. \A i \in from..Len(bs) : i \in 1..Len(bs)
  BY <1>1, <1>2
<1>4. kept \in Seq(S) /\ kept \in Seq(Range(bs))
  BY <1>1, <1>2, <1>3, SubSeqProperties
<1>5. \A x \in Range(kept) : x \in Range(bs)
  BY <1>4, InSequence
<1>6. RetainLast(bs) = kept
  BY DEF RetainLast, from
<1>7. QED
  BY <1>4, <1>5, <1>6

\* An operation gives out new identities and refers to nothing but what was
\* referred to before and what it made.
LEMMA AppliedIs ==
  ASSUME NEW e \in States, NEW op \in Ops, Possible(e.boundaries, op), NEW by \in Nat \X Nat,
         NEW t, t = Applied(e.game, e.boundaries, op, by)
  PROVE  /\ t.game \in Games /\ t.game.next >= e.game.next
         /\ t.made \subseteq {RecordOf(i, by) : i \in e.game.next..(t.game.next - 1)}
         /\ References(t.game) \subseteq Refs(e) \cup t.made
<1> DEFINE g == e.game
           bs == e.boundaries
<1>1. g \in Games /\ bs \in Seq(Bounds)
  BY DEF States
<1>2. CASE op.kind = "turn"
  <2>1. op.horizon \in Horizons /\ t = Transition(g, op.horizon, by)
    BY <1>2 DEF Ops, Applied
  <2>2. References(g) \subseteq Refs(e)
    BY DEF Refs, Referenced
  <2> HIDE DEF g
  <2>3. QED
    BY <1>1, <2>1, <2>2, TransitionIs DEF g
<1>3. CASE op.kind # "turn"
  <2>1. op.kind = "rewind"
    BY <1>3 DEF Ops
  <2> DEFINE b == CHOOSE b \in Range(bs) : b.sequence = op.target
  <2>2. b \in Range(bs)
    BY <2>1 DEF Possible
  <2>3. t.game = ContinueIds(b.game, g) /\ t.made = {}
    BY <1>3 DEF Applied
  <2> HIDE DEF b
  <2>4. b \in Bounds
    BY <1>1, <2>2, InSequence
  <2>5. b.game \in Games /\ References(b.game) \subseteq Refs(e)
    BY <2>2, <2>4 DEF Bounds, Refs, Referenced
  <2>6. /\ t.game = [at |-> b.game.at,
                     next |-> IF g.next > b.game.next THEN g.next ELSE b.game.next]
        /\ b.game.next \in Nat /\ g.next \in Nat
    BY <1>1, <2>3, <2>5 DEF ContinueIds, Games
  <2>7. t.game \in Games /\ t.game.next >= g.next /\ References(t.game) = References(b.game)
    BY <2>5, <2>6 DEF Games, References
  <2>8. QED
    BY <2>3, <2>5, <2>7
<1>4. QED
  BY <1>2, <1>3

\* So does an entry, which the game becomes a boundary of.
LEMMA ThenIs ==
  ASSUME NEW e \in States, NEW entry \in Entries, Possible(e.boundaries, entry.op),
         NEW d, d = Then(e, entry),
         NEW t, t = Applied(e.game, e.boundaries, entry.op, entry.by)
  PROVE  /\ d \in States /\ d.game = t.game /\ d.game.next >= e.game.next
         /\ t.made \subseteq {RecordOf(i, entry.by) : i \in e.game.next..(d.game.next - 1)}
         /\ Refs(d) \subseteq Refs(e) \cup t.made
<1>1. entry.op \in Ops /\ entry.by \in Nat \X Nat /\ entry.sequence \in Nat
  BY DEF Entries
<1>2. /\ t.game \in Games /\ t.game.next >= e.game.next
      /\ t.made \subseteq {RecordOf(i, entry.by) : i \in e.game.next..(t.game.next - 1)}
      /\ References(t.game) \subseteq Refs(e) \cup t.made
  BY <1>1, AppliedIs
<1> DEFINE b == [sequence |-> entry.sequence, game |-> t.game]
           all == Append(e.boundaries, b)
<1>3. d = [game |-> t.game, boundaries |-> RetainLast(all)]
  BY DEF Then
<1>4. b \in Bounds /\ e.boundaries \in Seq(Bounds)
  BY <1>1, <1>2 DEF Bounds, States
<1> HIDE DEF b
<1>5. all \in Seq(Bounds)
  BY <1>4
<1>6. \A x \in Range(all) : x \in Range(e.boundaries) \cup {b}
  <2>1. TAKE x \in Range(all)
  <2>2. PICK i \in 1..Len(all) : x = all[i]
    BY <1>5, InSequence
  <2>3. Len(all) = Len(e.boundaries) + 1 /\ Len(e.boundaries) \in Nat
    BY <1>4, LenProperties
  <2>4. CASE i = Len(all)
    BY <1>4, <2>2, <2>3, <2>4
  <2>5. CASE i # Len(all)
    <3>1. i \in 1..Len(e.boundaries) /\ all[i] = e.boundaries[i]
      BY <1>4, <2>2, <2>3, <2>5
    <3>2. QED
      BY <1>4, <2>2, <3>1, InSequence
  <2>6. QED
    BY <2>4, <2>5
<1> HIDE DEF all
<1>7. RetainLast(all) \in Seq(Bounds) /\ Range(RetainLast(all)) \subseteq Range(all)
  BY <1>5, RetainLastIs
<1>8. d \in States /\ d.game = t.game
  BY <1>2, <1>3, <1>7 DEF States
<1>9. \A x \in Range(d.boundaries) : References(x.game) \subseteq Refs(e) \cup t.made
  <2>1. TAKE x \in Range(d.boundaries)
  <2>2. CASE x \in Range(e.boundaries)
    BY <2>2 DEF Refs, Referenced
  <2>3. CASE x = b
    BY <1>2, <2>3 DEF b
  <2>4. QED
    BY <1>3, <1>6, <1>7, <2>2, <2>3
<1>10. Refs(d) \subseteq Refs(e) \cup t.made
  BY <1>2, <1>8, <1>9 DEF Refs, Referenced
<1>11. QED
  BY <1>2, <1>8, <1>10

-----------------------------------------------------------------------------
(* The beginning *)

Original == Initial.regions.resident
First    == [game |-> Initial.game, boundaries |-> Initial.boundaries]

\* A new save's game refers to the records that were made with it.
LEMMA FirstIs ==
  /\ First \in States /\ Refs(First) \subseteq Original
  /\ Original \subseteq {RecordOf(i, <<0, 0>>) : i \in 1..(First.game.next - 1)}
  /\ Initial.regions \in Holdings /\ Initial.regions.durable = {}
  /\ Initial.regions.saved = {} /\ Initial.valid
<1> DEFINE t == Transition(Unbuilt, Start, <<0, 0>>)
<1>1. /\ Initial.game = t.game /\ Initial.boundaries = <<[sequence |-> 0, game |-> t.game]>>
      /\ Initial.regions = [resident |-> t.made, durable |-> {}, saved |-> {},
                            unsaved |-> Builds(Unbuilt, Start)]
      /\ Initial.valid
  BY DEF Initial
<1> HIDE DEF t
<1>2. Unbuilt \in Games /\ Unbuilt.next = 1 /\ References(Unbuilt) = {}
  BY DEF Unbuilt, Games, References, IsReference
<1>3. /\ t.game \in Games
      /\ t.made \subseteq {RecordOf(i, <<0, 0>>) : i \in 1..(t.game.next - 1)}
      /\ References(t.game) \subseteq t.made
  <2>1. Start \in Horizons /\ <<0, 0>> \in Nat \X Nat
    BY RegionRecordsAssumption
  <2>2. QED
    BY <1>2, <2>1, TransitionIs DEF t
<1> DEFINE b == [sequence |-> 0, game |-> t.game]
<1>4. b \in Bounds
  BY <1>3 DEF Bounds
<1>5. Range(<<b>>) = {b}
  BY DEF Range
<1>6. First \in States
  BY <1>1, <1>3, <1>4 DEF First, States
<1>7. Refs(First) \subseteq t.made
  BY <1>1, <1>3, <1>5 DEF First, Refs, Referenced
<1>8. t.made \subseteq Records
  BY <1>3 DEF RecordOf, Records
<1>9. Builds(Unbuilt, Start) \subseteq Regions
  BY RegionRecordsAssumption DEF Builds
<1>10. Initial.regions \in Holdings
  BY <1>1, <1>8, <1>9 DEF Holdings
<1>11. QED
  BY <1>1, <1>3, <1>6, <1>7, <1>10 DEF First, Original

-----------------------------------------------------------------------------
(* The line of accepted entries *)

\* What the entries after the j-th, up to the k-th, made.
Made(L, j, k) == UNION {L[i].made : i \in (j + 1)..k}
\* The records there are, and the inputs that are accepted, after k entries.
Known(L, k)   == Original \cup Made(L, 0, k)
Sources(L, k) == Initial.regions.unsaved \cup UNION {L[i].sources : i \in 1..k}

\* An entry fits the game it was executed on.
Fits(e, entry, accepted) ==
  /\ Possible(e.boundaries, entry.op)
  /\ entry.made = Applied(e.game, e.boundaries, entry.op, entry.by).made
  /\ entry.op.kind = "turn" => Builds(e.game, entry.op.horizon) \subseteq accepted

\* The entries make these games, the first is the one a save starts with.
Legal(L, H) ==
  /\ L \in Seq(Entries) /\ H[0] = First
  /\ \A k \in 0..Len(L) : H[k] \in States
  /\ \A k \in 1..Len(L) :
       /\ L[k].sequence = k /\ H[k] = Then(H[k - 1], L[k])
       /\ Fits(H[k - 1], L[k], Sources(L, k))

\* One entry of the line.
LEMMA EntryIs ==
  ASSUME NEW L, NEW H, Legal(L, H), NEW k \in 1..Len(L)
  PROVE  /\ L[k] \in Entries /\ H[k] \in States /\ H[k - 1] \in States
         /\ H[k].game.next \in Nat /\ H[k - 1].game.next \in Nat
         /\ H[k].game.next >= H[k - 1].game.next
         /\ \A x \in L[k].made : /\ x = RecordOf(x.id, L[k].by) /\ x \in Records
                                 /\ H[k - 1].game.next <= x.id /\ x.id < H[k].game.next
         /\ Refs(H[k]) \subseteq Refs(H[k - 1]) \cup L[k].made
<1>1. L \in Seq(Entries) /\ Len(L) \in Nat /\ L[k] \in Entries
  BY InSequence DEF Legal
<1>2. k \in 0..Len(L) /\ k - 1 \in 0..Len(L)
  BY <1>1
<1>3. H[k] \in States /\ H[k - 1] \in States
  BY <1>2 DEF Legal
<1>4. H[k] = Then(H[k - 1], L[k]) /\ Fits(H[k - 1], L[k], Sources(L, k))
  BY DEF Legal
<1> DEFINE e == H[k - 1]
           t == Applied(e.game, e.boundaries, L[k].op, L[k].by)
<1>5. /\ H[k].game.next >= e.game.next
      /\ t.made \subseteq {RecordOf(i, L[k].by) : i \in e.game.next..(H[k].game.next - 1)}
      /\ Refs(H[k]) \subseteq Refs(e) \cup t.made
  <2>1. Possible(e.boundaries, L[k].op) /\ e \in States
    BY <1>3, <1>4 DEF Fits
  <2> HIDE DEF e
  <2>2. H[k] = Then(e, L[k])
    BY <1>4 DEF e
  <2>3. QED
    BY <1>1, <2>1, <2>2, ThenIs
<1>6. L[k].made = t.made
  BY <1>4 DEF Fits
<1> HIDE DEF t, e
<1>7. e.game.next \in Nat /\ H[k].game.next \in Nat
  BY <1>3 DEF States, Games, e
<1>8. L[k].made \subseteq Records
  BY <1>1 DEF Entries
<1>9. ASSUME NEW x \in L[k].made
      PROVE  x = RecordOf(x.id, L[k].by) /\ e.game.next <= x.id /\ x.id < H[k].game.next
  <2>1. PICK i \in e.game.next..(H[k].game.next - 1) : x = RecordOf(i, L[k].by)
    BY <1>5, <1>6, <1>9
  <2>2. x.id = i
    BY <2>1 DEF RecordOf
  <2>3. QED
    BY <1>7, <2>1, <2>2
<1>10. QED
  BY <1>1, <1>3, <1>5, <1>6, <1>7, <1>8, <1>9 DEF e

\* Later games give out later identities, and refer only to records that an
\* earlier one refers to or that were made since.
LEMMA Inherits ==
  ASSUME NEW L, NEW H, Legal(L, H), NEW k \in 0..Len(L), NEW j \in 0..k
  PROVE  /\ H[j].game.next <= H[k].game.next
         /\ Refs(H[k]) \subseteq Refs(H[j]) \cup Made(L, j, k)
<1> DEFINE P == {d \in Nat : j + d <= Len(L) =>
                   /\ H[j].game.next <= H[j + d].game.next
                   /\ Refs(H[j + d]) \subseteq Refs(H[j]) \cup Made(L, j, j + d)}
<1>1. Len(L) \in Nat /\ j \in Nat /\ k \in Nat /\ j \in 0..Len(L)
  BY InSequence DEF Legal
<1>2. H[j].game.next \in Nat
  BY <1>1 DEF Legal, States, Games
<1>3. 0 \in P
  BY <1>1, <1>2
<1>4. ASSUME NEW d \in Nat, d \in P PROVE d + 1 \in P
  <2>1. SUFFICES ASSUME j + (d + 1) <= Len(L)
                 PROVE  /\ H[j].game.next <= H[j + (d + 1)].game.next
                        /\ Refs(H[j + (d + 1)]) \subseteq Refs(H[j]) \cup Made(L, j, j + (d + 1))
    OBVIOUS
  <2>2. PICK i : i = j + (d + 1)
    OBVIOUS
  <2>3. i \in 1..Len(L) /\ i - 1 = j + d /\ j + d <= Len(L) /\ i \in (j + 1)..i
    BY <1>1, <2>1, <2>2
  <2>4. /\ H[j].game.next <= H[i - 1].game.next
        /\ Refs(H[i - 1]) \subseteq Refs(H[j]) \cup Made(L, j, i - 1)
    BY <1>4, <2>3
  <2>5. /\ H[i].game.next \in Nat /\ H[i - 1].game.next \in Nat
        /\ H[i].game.next >= H[i - 1].game.next
        /\ Refs(H[i]) \subseteq Refs(H[i - 1]) \cup L[i].made
    BY <2>3, EntryIs
  <2>6. Made(L, j, i - 1) \subseteq Made(L, j, i) /\ L[i].made \subseteq Made(L, j, i)
    BY <1>1, <2>3 DEF Made
  <2>7. QED
    BY <1>2, <2>2, <2>4, <2>5, <2>6
<1> HIDE DEF P
<1>5. Nat \subseteq P
  BY <1>3, <1>4, NumbersReached
<1>6. k - j \in P /\ j + (k - j) = k
  BY <1>1, <1>5
<1>7. QED
  BY <1>1, <1>6 DEF P

\* What entries made has the identities they gave out.
LEMMA MadeIs ==
  ASSUME NEW L, NEW H, Legal(L, H), NEW k \in 0..Len(L), NEW j \in 0..k, NEW x \in Made(L, j, k)
  PROVE  x \in Records /\ H[j].game.next <= x.id /\ x.id < H[k].game.next
<1>1. PICK i \in (j + 1)..k : x \in L[i].made
  BY DEF Made
<1>2. Len(L) \in Nat
  BY InSequence DEF Legal
<1>3. i \in 1..Len(L) /\ i \in 0..k /\ i - 1 \in 0..Len(L) /\ j \in 0..(i - 1)
  BY <1>1, <1>2
<1>4. /\ H[i].game.next \in Nat /\ H[i - 1].game.next \in Nat /\ x \in Records
      /\ H[i - 1].game.next <= x.id /\ x.id < H[i].game.next
  BY <1>1, <1>3, EntryIs
<1>5. H[i].game.next <= H[k].game.next /\ H[j].game.next <= H[i - 1].game.next
  BY <1>3, Inherits
<1>6. H[j].game.next \in Nat /\ H[k].game.next \in Nat
  BY <1>2 DEF Legal, States, Games
<1>7. x.id \in Nat
  BY <1>4 DEF Records
<1>8. QED
  BY <1>4, <1>5, <1>6, <1>7

\* A record there is has an identity that was given out.
LEMMA KnownIs ==
  ASSUME NEW L, NEW H, Legal(L, H), NEW k \in 0..Len(L), NEW x \in Known(L, k)
  PROVE  x \in Records /\ x.id \in Nat /\ x.id < H[k].game.next
<1>1. Len(L) \in Nat /\ 0 \in 0..k
  BY InSequence DEF Legal
<1>2. H[k].game.next \in Nat /\ H[0].game.next \in Nat /\ H[0] = First
  BY <1>1 DEF Legal, States, Games
<1>3. H[0].game.next <= H[k].game.next
  BY <1>1, Inherits
<1>4. CASE x \in Original
  <2>1. PICK i \in 1..(H[0].game.next - 1) : x = RecordOf(i, <<0, 0>>)
    BY <1>2, <1>4, FirstIs
  <2>2. x.id = i /\ x \in Records
    BY <2>1 DEF RecordOf, Records
  <2>3. QED
    BY <1>2, <1>3, <2>1, <2>2
<1>5. CASE x \in Made(L, 0, k)
  BY <1>1, <1>5, MadeIs DEF Records
<1>6. QED
  BY <1>4, <1>5 DEF Known

\* What a game refers to exists.
LEMMA RefsKnown ==
  ASSUME NEW L, NEW H, Legal(L, H), NEW k \in 0..Len(L)
  PROVE  Refs(H[k]) \subseteq Known(L, k)
<1>1. Len(L) \in Nat /\ 0 \in 0..k /\ H[0] = First
  BY InSequence DEF Legal
<1>2. Refs(H[k]) \subseteq Refs(First) \cup Made(L, 0, k)
  BY <1>1, Inherits
<1>3. QED
  BY <1>2, FirstIs DEF Known

\* A record is known by its identity: who made it, and so what it is.
LEMMA Unique ==
  ASSUME NEW L, NEW H, Legal(L, H), NEW k \in 0..Len(L),
         NEW x \in Known(L, k), NEW y \in Known(L, k), x.id = y.id
  PROVE  x = y
<1>1. Len(L) \in Nat /\ 0 \in 0..Len(L) /\ H[0] = First
  BY InSequence DEF Legal
<1>2. H[0].game.next \in Nat
  BY <1>1 DEF Legal, States, Games
<1> DEFINE At(z, i) == IF i = 0 THEN z \in Original ELSE z \in L[i].made
           By(i) == IF i = 0 THEN <<0, 0>> ELSE L[i].by
<1>3. ASSUME NEW z \in Known(L, k)
      PROVE  /\ z.id \in Nat /\ \E i \in 0..k : At(z, i)
             /\ \A i \in 0..k : At(z, i) =>
                  /\ z = RecordOf(z.id, By(i)) /\ z.id < H[i].game.next
                  /\ i # 0 => H[i - 1].game.next <= z.id
  <2>1. z.id \in Nat
    BY KnownIs
  <2>2. \E i \in 0..k : At(z, i)
    <3>1. CASE z \in Original
      BY <1>1, <3>1
    <3>2. CASE z \in Made(L, 0, k)
      <4>1. PICK i \in 1..k : z \in L[i].made
        BY <3>2 DEF Made
      <4>2. i \in 0..k /\ i # 0
        BY <1>1, <4>1
      <4>3. QED
        BY <4>1, <4>2
    <3>3. QED
      BY <3>1, <3>2 DEF Known
  <2>3. ASSUME NEW i \in 0..k, At(z, i)
        PROVE  /\ z = RecordOf(z.id, By(i)) /\ z.id < H[i].game.next
               /\ i # 0 => H[i - 1].game.next <= z.id
    <3>1. CASE i = 0
      <4>1. PICK d \in 1..(H[0].game.next - 1) : z = RecordOf(d, <<0, 0>>)
        BY <1>1, <2>3, <3>1, FirstIs
      <4>2. z.id = d
        BY <4>1 DEF RecordOf
      <4>3. QED
        BY <1>2, <3>1, <4>1, <4>2
    <3>2. CASE i # 0
      <4>1. i \in 1..Len(L)
        BY <1>1, <3>2
      <4>2. QED
        BY <2>3, <3>2, <4>1, EntryIs
    <3>3. QED
      BY <3>1, <3>2
  <2>4. QED
    BY <2>1, <2>2, <2>3
<1>4. PICK i \in 0..k : At(x, i)
  BY <1>3
<1>5. PICK j \in 0..k : At(y, j)
  BY <1>3
<1>6. /\ x = RecordOf(x.id, By(i)) /\ x.id < H[i].game.next
      /\ i # 0 => H[i - 1].game.next <= x.id
  BY <1>3, <1>4
<1>7. /\ y = RecordOf(y.id, By(j)) /\ y.id < H[j].game.next
      /\ j # 0 => H[j - 1].game.next <= y.id
  BY <1>3, <1>5
<1>8. x.id \in Nat
  BY <1>3
<1> HIDE DEF At, By
<1>9. i = j
  <2>1. ASSUME NEW a \in 0..k, NEW b \in 0..k, a < b, x.id < H[a].game.next,
               b # 0 => H[b - 1].game.next <= x.id
        PROVE  FALSE
    <3>1. b - 1 \in 0..Len(L) /\ a \in 0..(b - 1) /\ a \in 0..Len(L) /\ b # 0
      BY <1>1, <2>1
    <3>2. H[a].game.next <= H[b - 1].game.next
      BY <3>1, Inherits
    <3>3. H[a].game.next \in Nat /\ H[b - 1].game.next \in Nat
      BY <3>1 DEF Legal, States, Games
    <3>4. QED
      BY <1>8, <2>1, <3>1, <3>2, <3>3
  <2>2. ~(i < j)
    BY <1>6, <1>7, <2>1
  <2>3. ~(j < i)
    BY <1>6, <1>7, <2>1
  <2>4. QED
    BY <1>1, <2>2, <2>3
<1>10. QED
  BY <1>6, <1>7, <1>9

\* Rows that a checkpoint leaves hold whatever they held of what a later game
\* refers to: what it does not name, and no entry since then wrote, is not
\* referred to any more.
LEMMA KeepsLater ==
  ASSUME NEW L, NEW H, Legal(L, H), NEW s \in 0..Len(L), NEW j \in s..Len(L),
         NEW m \in 0..Len(L), NEW rows, rows \subseteq Known(L, m),
         NEW ref \in Refs(H[j]), ref \in rows, ref \notin Refs(H[s])
  PROVE  ref \in Made(L, s, m)
<1>1. Len(L) \in Nat /\ j \in 0..Len(L) /\ s \in 0..j
  BY InSequence DEF Legal
<1>2. ref \in Made(L, s, j)
  BY <1>1, Inherits
<1>3. ref \in Records /\ H[s].game.next <= ref.id
  BY <1>1, <1>2, MadeIs
<1>4. H[s].game.next \in Nat /\ ref.id \in Nat
  BY <1>1, <1>3 DEF Legal, States, Games, Records
<1>5. ref \notin Known(L, s)
  BY <1>3, <1>4, KnownIs
<1>6. PICK i \in 1..m : ref \in L[i].made
  BY <1>5 DEF Known, Made
<1>7. i \in (s + 1)..m
  <2>1. ~(i <= s)
    BY <1>5, <1>6 DEF Known, Made
  <2>2. QED
    BY <1>1, <1>6, <2>1
<1>8. QED
  BY <1>6, <1>7 DEF Made

-----------------------------------------------------------------------------
(* Lines that agree *)

\* What lines made up to where they agree is the same.
LEMMA SameLine ==
  ASSUME NEW L, NEW M, NEW k \in Nat, \A i \in 1..k : L[i] = M[i]
  PROVE  /\ \A j \in Nat : Made(L, j, k) = Made(M, j, k)
         /\ Known(L, k) = Known(M, k) /\ Sources(L, k) = Sources(M, k)
<1>1. ASSUME NEW j \in Nat PROVE Made(L, j, k) = Made(M, j, k)
  <2>1. \A i \in (j + 1)..k : i \in 1..k
    OBVIOUS
  <2>2. QED
    BY <2>1 DEF Made
<1>2. Sources(L, k) = Sources(M, k)
  BY DEF Sources
<1>3. QED
  BY <1>1, <1>2 DEF Known

\* What there is grows with the line.
LEMMA KnownGrows ==
  ASSUME NEW L, NEW k \in Nat, NEW j \in 0..k
  PROVE  /\ Known(L, j) \subseteq Known(L, k) /\ Sources(L, j) \subseteq Sources(L, k)
         /\ Made(L, j, k) \subseteq Known(L, k)
<1>1. \A i \in (0 + 1)..j : i \in (0 + 1)..k
  OBVIOUS
<1>2. \A i \in 1..j : i \in 1..k
  OBVIOUS
<1>3. \A i \in (j + 1)..k : i \in (0 + 1)..k
  OBVIOUS
<1>4. Known(L, j) \subseteq Known(L, k) /\ Made(L, j, k) \subseteq Known(L, k)
  BY <1>1, <1>3 DEF Known, Made
<1>5. Sources(L, j) \subseteq Sources(L, k)
  BY <1>2 DEF Sources
<1>6. QED
  BY <1>4, <1>5

\* A beginning of the line is such a line.
LEMMA LegalPrefix ==
  ASSUME NEW L, NEW H, Legal(L, H), NEW M \in Seq(Entries), Len(M) <= Len(L),
         \A i \in 1..Len(M) : M[i] = L[i]
  PROVE  Legal(M, H)
<1>1. Len(L) \in Nat /\ Len(M) \in Nat
  BY InSequence DEF Legal
<1>2. H[0] = First /\ \A k \in 0..Len(M) : H[k] \in States
  BY <1>1 DEF Legal
<1>3. ASSUME NEW k \in 1..Len(M)
      PROVE  /\ M[k].sequence = k /\ H[k] = Then(H[k - 1], M[k])
             /\ Fits(H[k - 1], M[k], Sources(M, k))
  <2>1. k \in 1..Len(L) /\ M[k] = L[k] /\ k \in Nat
    BY <1>1
  <2>2. \A i \in 1..k : M[i] = L[i]
    BY <1>1
  <2>3. Sources(M, k) = Sources(L, k)
    BY <2>1, <2>2, SameLine
  <2>4. QED
    BY <2>1, <2>3 DEF Legal
<1>4. QED
  BY <1>2, <1>3 DEF Legal

\* The games of a line and of one more entry.
Extended(H, n, e) == [k \in 0..(n + 1) |-> IF k = n + 1 THEN e ELSE H[k]]

\* A line with one more entry.
Grown(L, n, entry, e, H, M, G) ==
  /\ n \in Nat /\ Legal(M, G) /\ Len(M) = n + 1 /\ e \in States
  /\ M[n + 1] = entry /\ \A i \in 1..n : M[i] = L[i]
  /\ G[n + 1] = e /\ \A k \in 0..n : G[k] = H[k]
  /\ \A k \in 0..n : Known(M, k) = Known(L, k) /\ Sources(M, k) = Sources(L, k)
  /\ \A j, k \in 0..n : Made(M, j, k) = Made(L, j, k)
  /\ Known(M, n + 1) = Known(L, n) \cup entry.made
  /\ Sources(M, n + 1) = Sources(L, n) \cup entry.sources

\* An entry that fits is one more of the line.
LEMMA LegalExtended ==
  ASSUME NEW L, NEW H, Legal(L, H), NEW n, n = Len(L), NEW entry \in Entries,
         entry.sequence = n + 1, Fits(H[n], entry, Sources(L, n) \cup entry.sources),
         NEW M, M = Append(L, entry), NEW e, e = Then(H[n], entry),
         NEW G, G = Extended(H, n, e)
  PROVE  Grown(L, n, entry, e, H, M, G)
<1>1. L \in Seq(Entries) /\ n \in Nat /\ H[n] \in States
  BY InSequence DEF Legal
<1>2. /\ M \in Seq(Entries) /\ Len(M) = n + 1 /\ M[n + 1] = entry
      /\ \A i \in 1..n : M[i] = L[i]
  BY <1>1
<1>3. e \in States
  BY <1>1, ThenIs DEF Fits
<1>4. G[n + 1] = e /\ \A k \in 0..n : G[k] = H[k]
  BY <1>1 DEF Extended
<1>5. ASSUME NEW k \in 0..n
      PROVE  /\ Known(M, k) = Known(L, k) /\ Sources(M, k) = Sources(L, k)
             /\ \A j \in 0..n : Made(M, j, k) = Made(L, j, k)
  <2>1. k \in Nat /\ \A i \in 1..k : M[i] = L[i]
    BY <1>1, <1>2
  <2>2. /\ \A j \in Nat : Made(L, j, k) = Made(M, j, k)
        /\ Known(L, k) = Known(M, k) /\ Sources(L, k) = Sources(M, k)
    <3>1. \A i \in 1..k : L[i] = M[i]
      BY <2>1
    <3>2. QED
      BY <2>1, <3>1, SameLine
  <2>3. \A j \in 0..n : j \in Nat
    OBVIOUS
  <2>4. QED
    BY <2>2, <2>3
<1>6. Known(M, n + 1) = Known(L, n) \cup entry.made
  <2>1. (0 + 1)..(n + 1) = (0 + 1)..n \cup {n + 1}
    BY <1>1
  <2>2. Made(M, 0, n + 1) = Made(M, 0, n) \cup entry.made
    BY <1>2, <2>1 DEF Made
  <2>3. 0 \in 0..n /\ n \in 0..n
    BY <1>1
  <2>4. QED
    BY <1>5, <2>2, <2>3 DEF Known
<1>7. Sources(M, n + 1) = Sources(L, n) \cup entry.sources
  <2>1. 1..(n + 1) = 1..n \cup {n + 1}
    BY <1>1
  <2>2. QED
    BY <1>2, <2>1 DEF Sources
<1>8. Legal(M, G)
  <2>1. G[0] = First
    BY <1>1, <1>4 DEF Legal
  <2>2. \A k \in 0..Len(M) : G[k] \in States
    BY <1>1, <1>2, <1>3, <1>4 DEF Legal
  <2>3. ASSUME NEW k \in 1..Len(M)
        PROVE  /\ M[k].sequence = k /\ G[k] = Then(G[k - 1], M[k])
               /\ Fits(G[k - 1], M[k], Sources(M, k))
    <3>1. CASE k = n + 1
      <4>1. /\ M[k] = entry /\ G[k] = e /\ G[k - 1] = H[n]
            /\ Sources(M, k) = Sources(L, n) \cup entry.sources
        BY <1>1, <1>2, <1>4, <1>7, <3>1
      <4>2. QED
        BY <3>1, <4>1
    <3>2. CASE k # n + 1
      <4>1. k \in 1..n /\ k \in 0..n /\ k - 1 \in 0..n /\ k \in 1..Len(L)
        BY <1>1, <1>2, <3>2
      <4>2. M[k] = L[k] /\ G[k] = H[k] /\ G[k - 1] = H[k - 1] /\ Sources(M, k) = Sources(L, k)
        BY <1>2, <1>4, <1>5, <4>1
      <4>3. QED
        BY <4>1, <4>2 DEF Legal
    <3>3. QED
      BY <3>1, <3>2
  <2>4. QED
    BY <1>2, <2>1, <2>2, <2>3 DEF Legal
<1>9. QED
  BY <1>1, <1>2, <1>3, <1>4, <1>5, <1>6, <1>7, <1>8 DEF Grown

-----------------------------------------------------------------------------
(* The inductive invariant *)

\* A sequence holds the entries after the j-th, up to the k-th.
Part(s, L, j, k) == Len(s) = k - j /\ \A i \in 1..(k - j) : s[i] = L[j + i]

\* The file, the batch and what is pending are where they are in the line.
Placed(L, p, q) ==
  /\ p \in 0..q /\ q \in 0..Len(L) /\ Len(file.entries) \in p..Len(L)
  /\ store.accepted = Len(L)
  /\ \A i \in 1..Len(file.entries) : file.entries[i] = L[i]
  /\ Part(worker.batch, L, p, q) /\ Part(store.pending, L, q, Len(L))
  /\ worker.stage = "idle" => p = q
  /\ worker.stage # "idle" => p < q /\ Len(file.entries) <= q
  /\ worker.stage = "committed" => Len(file.entries) = q
  /\ status # "up" =>
       status = "down" /\ command = "none" /\ worker.stage = "idle" /\ p = Len(L)

\* A checkpoint is of one of the line's games, with records there were then.
CheckpointIs(L, H, c) ==
  /\ c.sequence \in 0..Len(L)
  /\ c.game = H[c.sequence].game /\ c.boundaries = H[c.sequence].boundaries
  /\ c.watermark = c.game.next /\ c.records \subseteq Known(L, c.sequence)

\* What a checkpoint names is in it or in the file, once committed in the file.
Checkpoints(L, H, p, q) ==
  /\ store.checkpoint # None =>
       /\ CheckpointIs(L, H, store.checkpoint) /\ q < store.checkpoint.sequence
       /\ Refs(store.checkpoint) \subseteq store.checkpoint.records \cup file.rows
  /\ worker.stage # "idle" /\ worker.checkpoint # None =>
       /\ CheckpointIs(L, H, worker.checkpoint)
       /\ p < worker.checkpoint.sequence /\ worker.checkpoint.sequence <= q
       /\ Refs(worker.checkpoint) \subseteq worker.checkpoint.records \cup file.rows
       /\ worker.stage = "committed" => Refs(worker.checkpoint) \subseteq file.rows
  /\ file.checkpoint # None =>
       /\ CheckpointIs(L, H, file.checkpoint)
       /\ file.checkpoint.sequence <= Len(file.entries)
       /\ Refs(file.checkpoint) \subseteq file.rows

\* The file holds nothing but what its entries made, and all their inputs.
FileHolds(L, p, q) ==
  /\ file.rows \subseteq Known(L, Len(file.entries))
  /\ file.sources = Sources(L, Len(file.entries))
  /\ worker.stage = "committed" => Made(L, p, q) \subseteq file.rows

\* The identities that the engine was told, or will be, are on disk.
Claimed ==
  regions.durable \cup store.appended
    \cup IF store.written = None THEN {} ELSE store.written.named

\* What the engine has not heard yet is of one of the line's games.
ReportIs(L, H) ==
  store.written # None =>
    \E s \in 0..Len(L) : /\ store.written.named = Identities(Refs(H[s]))
                         /\ store.written.watermark = H[s].game.next

\* The engine's game is the last of the line, what it refers to is there, and
\* what is claimed to be on disk is, as far as the game refers to it.
EngineHolds(L, H) ==
  status = "up" =>
    /\ game = H[Len(L)].game /\ boundaries = H[Len(L)].boundaries
    /\ regions.saved \subseteq Sources(L, Len(L))
    /\ regions.resident \subseteq Known(L, Len(L))
    /\ Refs(H[Len(L)]) \subseteq regions.resident \cup file.rows
    /\ \A i \in Claimed : i < H[Len(L)].game.next
    /\ \A ref \in Refs(H[Len(L)]) : ref.id \in Claimed => ref \in file.rows

InputsHold == inputs.known \subseteq DOMAIN inputs.pending \cup file.sources

Explains(L, H, p, q) ==
  /\ Legal(L, H) /\ Placed(L, p, q) /\ Checkpoints(L, H, p, q) /\ FileHolds(L, p, q)
  /\ ReportIs(L, H) /\ EngineHolds(L, H) /\ InputsHold

IInv == TypeOK /\ \E L, H, p, q : Explains(L, H, p, q)

\* The inputs offered with entries, of a sequence and of the line.
OfferedBy(s)     == UNION {entry.sources : entry \in Range(s)}
Offered(L, j, k) == UNION {L[i].sources : i \in (j + 1)..k}

\* What a part of the line made and offered.
LEMMA PartIs ==
  ASSUME NEW L, NEW s \in Seq(Entries), NEW j \in Nat, NEW k \in Nat, j <= k, Part(s, L, j, k)
  PROVE  /\ RowsOf(s) = Made(L, j, k)
         /\ OfferedBy(s) = Offered(L, j, k)
         /\ \A entry \in Range(s) : \E i \in (j + 1)..k : entry = L[i]
         /\ \A i \in (j + 1)..k : L[i] \in Range(s)
<1>1. \A i \in 1..(k - j) : s[i] = L[j + i] /\ s[i] \in Range(s)
  BY InSequence DEF Part
<1>2. \A entry \in Range(s) : \E i \in 1..(k - j) : entry = s[i]
  BY InSequence DEF Part
<1>3. \A i \in (j + 1)..k : i - j \in 1..(k - j) /\ j + (i - j) = i
  OBVIOUS
<1>4. \A i \in 1..(k - j) : j + i \in (j + 1)..k
  OBVIOUS
<1>5. \A i \in (j + 1)..k : L[i] \in Range(s)
  BY <1>1, <1>3
<1>6. \A entry \in Range(s) : \E i \in (j + 1)..k : entry = L[i]
  BY <1>1, <1>2, <1>4
<1>7. QED
  BY <1>5, <1>6 DEF RowsOf, Made, OfferedBy, Offered

-----------------------------------------------------------------------------
(* The steps *)

\* Where things are, in numbers.
LEMMA Places ==
  ASSUME TypeOK, NEW L, NEW H, NEW p, NEW q, Explains(L, H, p, q)
  PROVE  /\ L \in Seq(Entries) /\ Len(L) \in Nat /\ p \in Nat /\ q \in Nat
         /\ Len(file.entries) \in Nat /\ file.entries \in Seq(Entries)
         /\ p <= q /\ q <= Len(L) /\ p <= Len(file.entries) /\ Len(file.entries) <= Len(L)
         /\ Len(L) \in 0..Len(L) /\ H[Len(L)] \in States
         /\ Refs(H[Len(L)]) \subseteq Known(L, Len(L))
         /\ file.rows \subseteq Known(L, Len(L))
         /\ \A s \in 0..Len(L) : H[s] \in States /\ Refs(H[s]) \subseteq Known(L, Len(L))
<1>1. L \in Seq(Entries) /\ Len(L) \in Nat /\ file.entries \in Seq(Entries)
  BY InSequence DEF TypeOK, Files, Explains, Legal
<1>2. Len(file.entries) \in Nat
  BY <1>1, InSequence
<1>3. /\ p \in Nat /\ q \in Nat /\ p <= q /\ q <= Len(L) /\ p <= Len(file.entries)
      /\ Len(file.entries) <= Len(L)
  BY <1>1, <1>2 DEF Explains, Placed
<1>4. \A s \in 0..Len(L) : H[s] \in States
  BY DEF Explains, Legal
<1>5. Legal(L, H) /\ Len(L) \in 0..Len(L)
  BY <1>1 DEF Explains
<1>6. ASSUME NEW s \in 0..Len(L) PROVE Refs(H[s]) \subseteq Known(L, Len(L))
  <2>1. Refs(H[s]) \subseteq Known(L, s)
    BY <1>5, RefsKnown
  <2>2. QED
    BY <1>1, <2>1, KnownGrows
<1>7. file.rows \subseteq Known(L, Len(L))
  <2>1. Len(file.entries) \in 0..Len(L)
    BY <1>1, <1>2, <1>3
  <2>2. file.rows \subseteq Known(L, Len(file.entries))
    BY DEF Explains, FileHolds
  <2>3. QED
    BY <1>1, <2>1, <2>2, KnownGrows
<1>8. QED
  BY <1>1, <1>2, <1>3, <1>4, <1>5, <1>6, <1>7

\* What is evicted is on disk, by what the engine was told.
LEMMA EvictIs ==
  ASSUME NEW resident, NEW durable
  PROVE  /\ Evict(resident, durable) \subseteq resident
         /\ \A x \in resident : x.id \notin durable => x \in Evict(resident, durable)
  BY DEF Evict

\* A new save.
LEMMA InitHolds ==
  ASSUME Init
  PROVE  IInv
<1> DEFINE L == <<>>
           H == [k \in {0} |-> First]
<1>1. /\ First \in States /\ Refs(First) \subseteq Original
      /\ Original \subseteq {RecordOf(i, <<0, 0>>) : i \in 1..(First.game.next - 1)}
      /\ Initial.regions \in Holdings /\ Initial.regions.durable = {}
  BY FirstIs
<1>2. L \in Seq(Entries) /\ Len(L) = 0 /\ H[0] = First
  OBVIOUS
<1>3. Original \subseteq Records /\ Initial.regions.unsaved \subseteq Regions
  BY <1>1 DEF Original, Holdings
<1>4. /\ file = [entries |-> L, checkpoint |-> None, rows |-> Original,
                 sources |-> Initial.regions.unsaved]
      /\ game = First.game /\ boundaries = First.boundaries
  BY DEF Init, Original, First
<1>5. store = [pending |-> L, checkpoint |-> None, failed |-> FALSE, written |-> None,
               appended |-> Identities(Original), accepted |-> 0, requested |-> 0]
  <2>1. store = OpenedStore
    BY DEF Init
  <2>2. file.checkpoint = None /\ file.rows = Original /\ Len(file.entries) = 0
    BY <1>2, <1>4
  <2>3. QED
    BY <2>1, <2>2 DEF OpenedStore
<1>6. inputs = [known |-> Initial.regions.unsaved, pending |-> [r \in {} |-> 0]]
  BY <1>4 DEF Init, OpenedInputs
<1>7. worker = [stage |-> "idle", batch |-> L, checkpoint |-> None]
  BY DEF Init, Resting
<1>8. /\ regions \in Holdings /\ regions.resident = Original /\ regions.durable = {}
      /\ regions.saved = Initial.regions.unsaved
  BY <1>1 DEF Init, Holdings, Original
<1>9. command = "none" /\ status = "up" /\ opening = 1
  BY DEF Init
<1>10. Identities(Original) \subseteq Nat
  BY <1>3 DEF Identities, Records
<1> HIDE DEF L, H
<1>11. TypeOK
  <2>1. [r \in {} |-> 0] \in UNION {[S -> Nat] : S \in SUBSET Regions}
    OBVIOUS
  <2>2. store \in Stores
    BY <1>2, <1>5, <1>10 DEF Stores
  <2>3. game \in Games /\ boundaries \in Seq(Bounds)
    BY <1>1, <1>4 DEF States
  <2>4. QED
    BY <1>2, <1>3, <1>4, <1>6, <1>7, <1>8, <1>9, <2>1, <2>2, <2>3
    DEF TypeOK, Ownership, Workers, Files
<1>12. Made(L, 0, 0) = {} /\ Known(L, 0) = Original /\ Sources(L, 0) = Initial.regions.unsaved
  BY DEF Made, Known, Sources
<1>13. Legal(L, H)
  BY <1>1, <1>2 DEF Legal
<1>14. Placed(L, 0, 0)
  BY <1>2, <1>4, <1>5, <1>7, <1>9 DEF Placed, Part
<1>15. Checkpoints(L, H, 0, 0)
  BY <1>4, <1>5, <1>7 DEF Checkpoints
<1>16. FileHolds(L, 0, 0)
  BY <1>2, <1>4, <1>7, <1>12 DEF FileHolds
<1>17. ReportIs(L, H)
  BY <1>5 DEF ReportIs
<1>18. EngineHolds(L, H)
  <2>1. Claimed = Identities(Original)
    BY <1>5, <1>8 DEF Claimed
  <2>2. ASSUME NEW i \in Claimed PROVE i < First.game.next
    <3>1. PICK x \in Original : x.id = i
      BY <2>1, <2>2 DEF Identities
    <3>2. PICK d \in 1..(First.game.next - 1) : x = RecordOf(d, <<0, 0>>)
      BY <1>1, <3>1
    <3>3. i = d
      BY <3>1, <3>2 DEF RecordOf
    <3>4. First.game.next \in Nat
      BY <1>1 DEF States, Games
    <3>5. QED
      BY <3>2, <3>3, <3>4
  <2>3. QED
    BY <1>1, <1>2, <1>4, <1>8, <1>9, <1>12, <2>2 DEF EngineHolds
<1>19. InputsHold
  BY <1>4, <1>6 DEF InputsHold
<1>20. Explains(L, H, 0, 0)
  BY <1>13, <1>14, <1>15, <1>16, <1>17, <1>18, <1>19 DEF Explains
<1>21. QED
  BY <1>11, <1>20 DEF IInv

\* The engine hears of a checkpoint: what it drops then is not referred to, or
\* is in the file.
LEMMA TakeWrittenStep ==
  ASSUME TypeOK, NEW L, NEW H, NEW p, NEW q, Explains(L, H, p, q), TakeWritten
  PROVE  TypeOK' /\ Explains(L, H, p, q)'
<1> DEFINE n == Len(L)
           report == store.written
<1>1. /\ status = "up" /\ command' = "heard"
      /\ regions' = IF report = None THEN regions ELSE Written(regions, report)
      /\ store' = [store EXCEPT !.written = None]
      /\ UNCHANGED <<game, boundaries, inputs, worker, file, status, opening>>
  BY DEF TakeWritten, processVars
<1>2. /\ store' \in Stores
      /\ store'.pending = store.pending /\ store'.checkpoint = store.checkpoint
      /\ store'.written = None /\ store'.appended = store.appended
      /\ store'.accepted = store.accepted
  BY <1>1 DEF TypeOK, Stores
<1>3. /\ regions' \in Holdings /\ regions'.saved = regions.saved
      /\ regions'.resident \subseteq regions.resident
      /\ Claimed' \subseteq Claimed
      /\ \A ref \in Refs(H[n]) : ref \in regions.resident =>
           ref \in regions'.resident \/ ref \in file.rows
  <2>1. CASE report = None
    BY <1>1, <1>2, <2>1 DEF Claimed, TypeOK
  <2>2. CASE report # None
    <3> DEFINE kept == {record \in regions.resident :
                          record.id \in report.named \/ record.id >= report.watermark}
    <3>1. report \in Reports /\ regions \in Holdings
      BY <2>2 DEF TypeOK, Stores
    <3>2. regions' = [regions EXCEPT !.durable = report.named,
                                     !.resident = Evict(kept, report.named)]
      BY <1>1, <2>2 DEF Written
    <3> HIDE DEF kept
    <3>3. /\ Evict(kept, report.named) \subseteq kept /\ kept \subseteq regions.resident
          /\ \A x \in kept : x.id \notin report.named => x \in Evict(kept, report.named)
      BY EvictIs DEF kept
    <3>4. /\ regions' \in Holdings /\ regions'.saved = regions.saved
          /\ regions'.resident = Evict(kept, report.named) /\ regions'.durable = report.named
      BY <3>1, <3>2, <3>3 DEF Holdings, Reports
    <3>5. Claimed' \subseteq Claimed
      BY <1>2, <2>2, <3>4 DEF Claimed
    <3>6. ASSUME NEW ref \in Refs(H[n]), ref \in regions.resident, ref \notin regions'.resident
          PROVE  ref \in file.rows
      <4>1. PICK s \in 0..n : /\ report.named = Identities(Refs(H[s]))
                              /\ report.watermark = H[s].game.next
        BY <2>2 DEF Explains, ReportIs
      <4>2. ref \in kept
        <5>1. SUFFICES ASSUME ref \notin Refs(H[s]) PROVE ref.id >= H[s].game.next
          BY <3>6, <4>1 DEF kept, Identities
        <5>2. Legal(L, H) /\ n \in 0..n
          BY Places DEF Explains
        <5>3. ref \in Made(L, s, n)
          BY <3>6, <4>1, <5>1, <5>2, Inherits
        <5>4. ref \in Records /\ H[s].game.next <= ref.id
          BY <4>1, <5>2, <5>3, MadeIs
        <5>5. H[s].game.next \in Nat /\ ref.id \in Nat
          BY <4>1, <5>2, <5>4 DEF Legal, States, Games, Records
        <5>6. QED
          BY <5>4, <5>5
      <4>3. ref.id \in Claimed
        BY <2>2, <3>3, <3>4, <3>6, <4>2 DEF Claimed
      <4>4. QED
        BY <1>1, <3>6, <4>3 DEF Explains, EngineHolds
    <3>7. QED
      BY <3>3, <3>4, <3>5, <3>6
  <2>3. QED
    BY <2>1, <2>2
<1>4. TypeOK'
  BY <1>1, <1>2, <1>3 DEF TypeOK
<1>5. Placed(L, p, q)' /\ Checkpoints(L, H, p, q)' /\ FileHolds(L, p, q)' /\ InputsHold'
  BY <1>1, <1>2 DEF Explains, Placed, Checkpoints, FileHolds, InputsHold
<1>6. ReportIs(L, H)'
  BY <1>2 DEF ReportIs
<1>7. EngineHolds(L, H)'
  BY <1>1, <1>3 DEF Explains, EngineHolds
<1>8. QED
  BY <1>4, <1>5, <1>6, <1>7 DEF Explains

\* The engine hears of entries: what it drops then is in the file.
LEMMA TakeAppendedStep ==
  ASSUME TypeOK, NEW L, NEW H, NEW p, NEW q, Explains(L, H, p, q), TakeAppended
  PROVE  TypeOK' /\ Explains(L, H, p, q)'
<1> DEFINE n == Len(L)
           all == regions.durable \cup store.appended
<1>1. /\ command = "heard" /\ command' = "ready"
      /\ regions' = Appended(regions, store.appended)
      /\ store' = [store EXCEPT !.appended = {}]
      /\ UNCHANGED <<game, boundaries, inputs, worker, file, status, opening>>
  BY DEF TakeAppended, processVars
<1>2. /\ store' \in Stores
      /\ store'.pending = store.pending /\ store'.checkpoint = store.checkpoint
      /\ store'.written = store.written /\ store'.appended = {}
      /\ store'.accepted = store.accepted
  BY <1>1 DEF TypeOK, Stores
<1>3. regions \in Holdings /\ regions.durable \subseteq Nat /\ store.appended \subseteq Nat
  <2>1. regions \in Holdings /\ store.appended \subseteq Nat
    BY DEF TypeOK, Stores
  <2>2. regions.durable \subseteq Nat
    BY <2>1 DEF Holdings
  <2>3. QED
    BY <2>1, <2>2
<1>4. /\ regions' \in Holdings /\ regions'.saved = regions.saved
      /\ regions'.resident = Evict(regions.resident, all) /\ regions'.durable = all
  <2> DEFINE left == Evict(regions.resident, all)
  <2>1. regions' = [regions EXCEPT !.durable = all, !.resident = left]
    BY <1>1, <1>3 DEF Appended, Holdings
  <2>2. left \subseteq regions.resident
    BY EvictIs
  <2>3. all \subseteq Nat
    BY <1>3
  <2> HIDE DEF left, all
  <2>4. /\ regions' \in Holdings /\ regions'.saved = regions.saved
        /\ regions'.resident = left /\ regions'.durable = all
    BY <1>3, <2>1, <2>2, <2>3 DEF Holdings
  <2>5. QED
    BY <2>4 DEF left
<1>5. Claimed' \subseteq Claimed /\ all \subseteq Claimed
  BY <1>2, <1>4 DEF Claimed
<1>6. status = "up"
  BY <1>1 DEF Explains, Placed
<1>7. /\ regions'.resident \subseteq regions.resident
      /\ \A ref \in Refs(H[n]) : ref \in regions.resident =>
           ref \in regions'.resident \/ ref \in file.rows
  BY <1>4, <1>5, <1>6, EvictIs DEF Explains, EngineHolds
<1>8. TypeOK'
  BY <1>1, <1>2, <1>4 DEF TypeOK
<1>9. Placed(L, p, q)' /\ Checkpoints(L, H, p, q)' /\ FileHolds(L, p, q)' /\ InputsHold'
  BY <1>1, <1>2, <1>6 DEF Explains, Placed, Checkpoints, FileHolds, InputsHold
<1>10. ReportIs(L, H)'
  BY <1>2 DEF ReportIs, Explains
<1>11. EngineHolds(L, H)'
  BY <1>1, <1>4, <1>5, <1>6, <1>7 DEF Explains, EngineHolds
<1>12. QED
  BY <1>8, <1>9, <1>10, <1>11 DEF Explains

\* A refused command leaves nothing but regions whose files are to be saved.
LEMMA RefuseStep ==
  ASSUME TypeOK, NEW L, NEW H, NEW p, NEW q, Explains(L, H, p, q), Refuse
  PROVE  TypeOK' /\ Explains(L, H, p, q)'
<1>1. PICK op \in Operations : regions' = NeedFiles(regions, BuiltBy(op))
  BY DEF Refuse
<1>2. /\ command = "ready" /\ command' = "none"
      /\ UNCHANGED <<game, boundaries, store, inputs, worker, file, status, opening>>
  BY DEF Refuse, processVars
<1>3. BuiltBy(op) \subseteq Regions
  <2>1. op.kind = "turn" => op.horizon \subseteq Regions
    BY RegionRecordsAssumption DEF Operations
  <2>2. QED
    BY <2>1, RegionRecordsAssumption DEF BuiltBy, Builds
<1>4. /\ regions' \in Holdings /\ regions'.saved = regions.saved
      /\ regions'.resident = regions.resident /\ regions'.durable = regions.durable
  BY <1>1, <1>3 DEF NeedFiles, TypeOK, Holdings
<1>5. Claimed' = Claimed
  BY <1>2, <1>4 DEF Claimed
<1>6. status = "up"
  BY <1>2 DEF Explains, Placed
<1>7. TypeOK'
  BY <1>2, <1>4 DEF TypeOK
<1>8. Placed(L, p, q)' /\ Checkpoints(L, H, p, q)' /\ FileHolds(L, p, q)' /\ InputsHold'
  BY <1>2, <1>6 DEF Explains, Placed, Checkpoints, FileHolds, InputsHold
<1>9. ReportIs(L, H)'
  BY <1>2 DEF ReportIs, Explains
<1>10. EngineHolds(L, H)'
  BY <1>2, <1>4, <1>5 DEF Explains, EngineHolds
<1>11. QED
  BY <1>7, <1>8, <1>9, <1>10 DEF Explains

\* A retry is asked for.
LEMMA RequestFlushStep ==
  ASSUME TypeOK, NEW L, NEW H, NEW p, NEW q, Explains(L, H, p, q), RequestFlush
  PROVE  TypeOK' /\ Explains(L, H, p, q)'
<1>1. /\ store' = [store EXCEPT !.failed = FALSE]
      /\ UNCHANGED <<game, boundaries, regions, command, inputs, worker, file, status, opening>>
  BY DEF RequestFlush, processVars, engineVars
<1>2. /\ store' \in Stores
      /\ store'.pending = store.pending /\ store'.checkpoint = store.checkpoint
      /\ store'.written = store.written /\ store'.appended = store.appended
      /\ store'.accepted = store.accepted
  BY <1>1 DEF TypeOK, Stores
<1>3. Claimed' = Claimed
  BY <1>1, <1>2 DEF Claimed
<1>4. TypeOK'
  BY <1>1, <1>2 DEF TypeOK
<1>5. Placed(L, p, q)' /\ Checkpoints(L, H, p, q)' /\ FileHolds(L, p, q)' /\ InputsHold'
  BY <1>1, <1>2 DEF Explains, Placed, Checkpoints, FileHolds, InputsHold
<1>6. ReportIs(L, H)'
  BY <1>2 DEF ReportIs, Explains
<1>7. EngineHolds(L, H)'
  BY <1>1, <1>3 DEF Explains, EngineHolds
<1>8. QED
  BY <1>4, <1>5, <1>6, <1>7 DEF Explains

\* The worker takes all that is pending.
LEMMA DrainStep ==
  ASSUME TypeOK, NEW L, NEW H, NEW p, NEW q, Explains(L, H, p, q), Drain
  PROVE  TypeOK' /\ Explains(L, H, p, Len(L))'
<1>1. /\ status = "up" /\ worker.stage = "idle" /\ store.pending # <<>>
      /\ worker' = [stage |-> "writing", batch |-> store.pending,
                    checkpoint |-> store.checkpoint]
      /\ store' = [store EXCEPT !.pending = <<>>, !.checkpoint = None]
      /\ UNCHANGED <<game, boundaries, regions, command, inputs, file, status, opening>>
  BY DEF Drain, processVars, engineVars
<1>2. /\ store' \in Stores
      /\ store'.pending = <<>> /\ store'.checkpoint = None
      /\ store'.written = store.written /\ store'.appended = store.appended
      /\ store'.accepted = store.accepted
  <2> DEFINE nothing == <<>>
  <2>1. nothing \in Seq(Entries) /\ store' = [store EXCEPT !.pending = nothing, !.checkpoint = None]
    BY <1>1
  <2> HIDE DEF nothing
  <2>2. /\ store' \in Stores
        /\ store'.pending = nothing /\ store'.checkpoint = None
        /\ store'.written = store.written /\ store'.appended = store.appended
        /\ store'.accepted = store.accepted
    BY <2>1 DEF TypeOK, Stores
  <2>3. QED
    BY <2>2 DEF nothing
<1>3. worker' \in Workers /\ store.pending \in Seq(Entries)
  BY <1>1 DEF TypeOK, Stores, Workers
<1>4. /\ Len(L) \in Nat /\ p \in Nat /\ q \in Nat /\ p <= q /\ q <= Len(L)
      /\ Len(file.entries) \in Nat /\ p <= Len(file.entries) /\ Len(file.entries) <= Len(L)
  BY Places
<1>5. p = q /\ Part(store.pending, L, q, Len(L))
  BY <1>1 DEF Explains, Placed
<1>6. p < Len(L)
  <2>1. Len(store.pending) # 0
    BY <1>1, <1>3, EmptySeq
  <2>2. QED
    BY <1>4, <1>5, <2>1 DEF Part
<1>7. Claimed' = Claimed
  BY <1>1, <1>2 DEF Claimed
<1>8. TypeOK'
  BY <1>1, <1>2, <1>3 DEF TypeOK
<1>9. Placed(L, p, Len(L))'
  <2>1. Part(<<>>, L, Len(L), Len(L))
    BY <1>4 DEF Part
  <2>2. Part(store.pending, L, p, Len(L))
    BY <1>5
  <2>3. p \in 0..Len(L) /\ Len(L) \in 0..Len(L)
    BY <1>4
  <2>4. QED
    BY <1>1, <1>2, <1>4, <1>6, <2>1, <2>2, <2>3 DEF Explains, Placed
<1>10. Checkpoints(L, H, p, Len(L))'
  <2>1. store.checkpoint # None =>
          /\ CheckpointIs(L, H, store.checkpoint)
          /\ p < store.checkpoint.sequence /\ store.checkpoint.sequence <= Len(L)
          /\ Refs(store.checkpoint) \subseteq store.checkpoint.records \cup file.rows
    BY <1>4, <1>5 DEF Explains, Checkpoints, CheckpointIs
  <2>2. QED
    BY <1>1, <1>2, <2>1 DEF Explains, Checkpoints
<1>11. FileHolds(L, p, Len(L))' /\ InputsHold'
  BY <1>1 DEF Explains, FileHolds, InputsHold
<1>12. ReportIs(L, H)'
  BY <1>2 DEF ReportIs, Explains
<1>13. EngineHolds(L, H)'
  BY <1>1, <1>7 DEF Explains, EngineHolds
<1>14. Legal(L, H)
  BY DEF Explains
<1>15. QED
  BY <1>8, <1>9, <1>10, <1>11, <1>12, <1>13, <1>14 DEF Explains

\* A failed batch is pending again, before what came since.
LEMMA ReportFailureStep ==
  ASSUME TypeOK, NEW L, NEW H, NEW p, NEW q, Explains(L, H, p, q), ReportFailure
  PROVE  TypeOK' /\ Explains(L, H, p, p)'
<1> DEFINE all == worker.batch \o store.pending
           c == IF store.checkpoint = None THEN worker.checkpoint ELSE store.checkpoint
<1>1. /\ worker.stage # "idle" /\ worker' = Resting
      /\ store' = [store EXCEPT !.pending = worker.batch \o @, !.failed = TRUE,
                                !.checkpoint = IF @ = None THEN worker.checkpoint ELSE @]
      /\ inputs' = [inputs EXCEPT !.pending = @]
      /\ UNCHANGED <<game, boundaries, regions, command, file, status, opening>>
  BY DEF ReportFailure, processVars, engineVars, ReleaseNone
<1>2. /\ store.pending \in Seq(Entries) /\ worker.batch \in Seq(Entries)
      /\ c \in Captures \cup {None}
  BY DEF TypeOK, Stores, Workers
<1>3. all \in Seq(Entries)
  BY <1>2
<1>4. /\ store' \in Stores
      /\ store'.pending = all /\ store'.checkpoint = c
      /\ store'.written = store.written /\ store'.appended = store.appended
      /\ store'.accepted = store.accepted
  <2>1. store' = [store EXCEPT !.pending = all, !.failed = TRUE, !.checkpoint = c]
    BY <1>1 DEF TypeOK, Stores
  <2> HIDE DEF all, c
  <2>2. QED
    BY <1>2, <1>3, <2>1 DEF TypeOK, Stores
<1>5. inputs' = inputs
  BY <1>1 DEF TypeOK, Ownership
<1>6. worker' \in Workers /\ worker'.stage = "idle" /\ worker'.batch = <<>>
  BY <1>1 DEF Resting, Workers
<1>7. /\ Len(L) \in Nat /\ p \in Nat /\ q \in Nat /\ p <= q /\ q <= Len(L)
      /\ Len(file.entries) \in Nat /\ p <= Len(file.entries) /\ Len(file.entries) <= Len(L)
  BY Places
<1>8. Part(all, L, p, Len(L))
  <2>1. /\ Len(worker.batch) = q - p /\ \A i \in 1..(q - p) : worker.batch[i] = L[p + i]
        /\ Len(store.pending) = Len(L) - q
        /\ \A i \in 1..(Len(L) - q) : store.pending[i] = L[q + i]
    BY DEF Explains, Placed, Part
  <2> HIDE DEF all
  <2>2. /\ Len(all) = Len(worker.batch) + Len(store.pending)
        /\ \A i \in 1..(Len(worker.batch) + Len(store.pending)) :
             all[i] = IF i <= Len(worker.batch) THEN worker.batch[i]
                      ELSE store.pending[i - Len(worker.batch)]
    BY <1>2, ConcatProperties DEF all
  <2>3. Len(all) = Len(L) - p
    BY <1>7, <2>1, <2>2
  <2>4. ASSUME NEW i \in 1..(Len(L) - p) PROVE all[i] = L[p + i]
    <3>1. i \in 1..(Len(worker.batch) + Len(store.pending)) /\ i \in Nat
      BY <1>7, <2>1
    <3>2. CASE i <= q - p
      <4>1. i \in 1..(q - p)
        BY <1>7, <3>1, <3>2
      <4>2. QED
        BY <2>1, <2>2, <3>1, <4>1
    <3>3. CASE ~(i <= q - p)
      <4>1. i - (q - p) \in 1..(Len(L) - q) /\ q + (i - (q - p)) = p + i
        BY <1>7, <3>1, <3>3
      <4>2. all[i] = store.pending[i - (q - p)]
        BY <2>1, <2>2, <3>1, <3>3
      <4>3. QED
        BY <2>1, <4>1, <4>2
    <3>4. QED
      BY <3>2, <3>3
  <2>5. QED
    BY <2>3, <2>4 DEF Part
<1> HIDE DEF all
<1>9. Claimed' = Claimed
  BY <1>1, <1>4 DEF Claimed
<1>10. status = "up"
  BY <1>1 DEF Explains, Placed
<1>11. TypeOK'
  BY <1>1, <1>4, <1>5, <1>6 DEF TypeOK
<1>12. Placed(L, p, p)'
  <2>1. Part(<<>>, L, p, p)
    BY <1>7 DEF Part
  <2>2. p \in 0..p /\ p \in 0..Len(L)
    BY <1>7
  <2>3. QED
    BY <1>1, <1>4, <1>6, <1>7, <1>8, <1>10, <2>1, <2>2 DEF Explains, Placed
<1>13. Checkpoints(L, H, p, p)'
  <2>1. c # None => /\ CheckpointIs(L, H, c) /\ p < c.sequence
                    /\ Refs(c) \subseteq c.records \cup file.rows
    <3>1. CASE store.checkpoint = None
      BY <1>1, <3>1 DEF Explains, Checkpoints
    <3>2. CASE store.checkpoint # None
      <4>1. /\ CheckpointIs(L, H, c) /\ q < c.sequence
            /\ Refs(c) \subseteq c.records \cup file.rows
        BY <3>2 DEF Explains, Checkpoints
      <4>2. c.sequence \in 0..Len(L)
        BY <4>1 DEF CheckpointIs
      <4>3. QED
        BY <1>7, <4>1, <4>2
    <3>3. QED
      BY <3>1, <3>2
  <2> HIDE DEF c
  <2>2. QED
    BY <1>1, <1>4, <1>6, <2>1 DEF Explains, Checkpoints
<1>14. FileHolds(L, p, p)' /\ InputsHold'
  BY <1>1, <1>5, <1>6 DEF Explains, FileHolds, InputsHold
<1>15. ReportIs(L, H)'
  BY <1>4 DEF ReportIs, Explains
<1>16. EngineHolds(L, H)'
  BY <1>1, <1>9 DEF Explains, EngineHolds
<1>17. Legal(L, H)
  BY DEF Explains
<1>18. QED
  BY <1>11, <1>12, <1>13, <1>14, <1>15, <1>16, <1>17 DEF Explains

\* A checkpoint refers to what the game of its place refers to.
LEMMA CheckpointRefs ==
  ASSUME NEW L, NEW H, NEW c, CheckpointIs(L, H, c)
  PROVE  Refs(c) = Refs(H[c.sequence]) /\ c.sequence \in 0..Len(L)
  BY DEF CheckpointIs, Refs

\* What a batch writes exists.
LEMMA BatchIs ==
  ASSUME TypeOK, NEW L, NEW H, NEW p, NEW q, Explains(L, H, p, q), worker.stage # "idle"
  PROVE  /\ RowsOf(worker.batch) = Made(L, p, q)
         /\ OfferedBy(worker.batch) = Offered(L, p, q)
         /\ NewRows(worker.batch, worker.checkpoint) \subseteq Known(L, q)
         /\ file.rows \subseteq Known(L, q)
<1>1. /\ Len(L) \in Nat /\ p \in Nat /\ q \in Nat /\ p <= q /\ q <= Len(L)
      /\ Len(file.entries) \in Nat
  BY Places
<1>2. Len(file.entries) <= q /\ Part(worker.batch, L, p, q)
  BY DEF Explains, Placed
<1>3. worker.batch \in Seq(Entries)
  BY DEF TypeOK, Workers
<1>4. /\ RowsOf(worker.batch) = Made(L, p, q)
      /\ OfferedBy(worker.batch) = Offered(L, p, q)
  BY <1>1, <1>2, <1>3, PartIs
<1>5. p \in 0..q /\ Len(file.entries) \in 0..q
  BY <1>1, <1>2
<1>6. file.rows \subseteq Known(L, q)
  <2>1. file.rows \subseteq Known(L, Len(file.entries))
    BY DEF Explains, FileHolds
  <2>2. QED
    BY <1>1, <1>5, <2>1, KnownGrows
<1>7. Made(L, p, q) \subseteq Known(L, q)
  BY <1>1, <1>5, KnownGrows
<1>8. ASSUME worker.checkpoint # None PROVE worker.checkpoint.records \subseteq Known(L, q)
  <2>1. /\ CheckpointIs(L, H, worker.checkpoint) /\ worker.checkpoint.sequence <= q
    BY <1>8 DEF Explains, Checkpoints
  <2>2. /\ worker.checkpoint.sequence \in 0..q
        /\ worker.checkpoint.records \subseteq Known(L, worker.checkpoint.sequence)
    BY <1>1, <2>1 DEF CheckpointIs
  <2>3. QED
    BY <1>1, <2>2, KnownGrows
<1>9. QED
  BY <1>4, <1>6, <1>7, <1>8 DEF NewRows

\* The entries that are stored after a commit.
EntriesAfter(batch) == SubSeq(file.entries, 1, Head(batch).sequence - 1) \o batch

\* They are the line's, up to the end of the batch.
LEMMA CommitEntries ==
  ASSUME TypeOK, NEW L, NEW H, NEW p, NEW q, Explains(L, H, p, q), worker.stage # "idle",
         NEW all, all = EntriesAfter(worker.batch)
  PROVE  all \in Seq(Entries) /\ Len(all) = q /\ \A i \in 1..q : all[i] = L[i]
<1> DEFINE batch == worker.batch
           old == SubSeq(file.entries, 1, p)
<1>1. /\ Len(L) \in Nat /\ p \in Nat /\ q \in Nat /\ p < q /\ q <= Len(L)
      /\ Len(file.entries) \in Nat /\ p <= Len(file.entries) /\ file.entries \in Seq(Entries)
  <2>1. p < q
    BY DEF Explains, Placed
  <2>2. QED
    BY <2>1, Places
<1>2. /\ batch \in Seq(Entries) /\ Len(batch) = q - p
      /\ \A i \in 1..(q - p) : batch[i] = L[p + i]
  BY DEF Explains, Placed, Part, TypeOK, Workers
<1>3. Head(batch).sequence - 1 = p
  <2>1. 1 \in 1..(q - p) /\ p + 1 \in 1..Len(L)
    BY <1>1
  <2>2. Head(batch) = L[p + 1]
    BY <1>2, <2>1
  <2>3. L[p + 1].sequence = p + 1
    BY <2>1 DEF Explains, Legal
  <2>4. QED
    BY <1>1, <2>2, <2>3
<1>4. \A i \in 1..p : file.entries[i] \in Entries /\ file.entries[i] = L[i]
  <2>1. \A i \in 1..p : i \in 1..Len(file.entries)
    BY <1>1
  <2>2. QED
    BY <1>1, <2>1, InSequence DEF Explains, Placed
<1>5. old \in Seq(Entries) /\ Len(old) = p /\ \A i \in 1..p : old[i] = L[i]
  <2>1. /\ old \in Seq(Entries)
        /\ Len(old) = IF 1 <= p THEN p - 1 + 1 ELSE 0
        /\ \A i \in 1..(p - 1 + 1) : old[i] = file.entries[1 + i - 1]
    BY <1>1, <1>4, SubSeqProperties
  <2>2. Len(old) = p
    BY <1>1, <2>1
  <2>3. \A i \in 1..p : i \in 1..(p - 1 + 1) /\ 1 + i - 1 = i
    BY <1>1
  <2>4. QED
    BY <1>4, <2>1, <2>2, <2>3
<1>6. all = old \o batch
  BY <1>3 DEF EntriesAfter
<1> HIDE DEF old, batch
<1>7. /\ all \in Seq(Entries) /\ Len(all) = p + (q - p)
      /\ \A i \in 1..(p + (q - p)) : all[i] = IF i <= p THEN old[i] ELSE batch[i - p]
  <2>1. /\ all \in Seq(Entries) /\ Len(all) = Len(old) + Len(batch)
        /\ \A i \in 1..(Len(old) + Len(batch)) :
             all[i] = IF i <= Len(old) THEN old[i] ELSE batch[i - Len(old)]
    <3>1. /\ old \o batch \in Seq(Entries) /\ Len(old \o batch) = Len(old) + Len(batch)
          /\ \A i \in 1..(Len(old) + Len(batch)) :
               (old \o batch)[i] = IF i <= Len(old) THEN old[i] ELSE batch[i - Len(old)]
      BY <1>2, <1>5, ConcatProperties
    <3>2. QED
      BY <1>6, <3>1
  <2>2. Len(old) = p /\ Len(batch) = q - p
    BY <1>2, <1>5
  <2>3. QED
    BY <2>1, <2>2
<1>8. ASSUME NEW i \in 1..q PROVE all[i] = L[i]
  <2>1. i \in 1..(p + (q - p)) /\ i \in Nat
    BY <1>1
  <2>2. CASE i <= p
    BY <1>5, <1>7, <2>1, <2>2
  <2>3. CASE ~(i <= p)
    <3>1. i - p \in 1..(q - p) /\ p + (i - p) = i
      BY <1>1, <2>1, <2>3
    <3>2. QED
      BY <1>2, <1>7, <2>1, <2>3, <3>1
  <2>4. QED
    BY <2>2, <2>3
<1>9. p + (q - p) = q
  BY <1>1
<1>10. QED
  BY <1>7, <1>8, <1>9

\* A commit: the batch is in the file, and of what was there everything that the
\* checkpoint's game or a later one refers to.
LEMMA CommitFile ==
  ASSUME TypeOK, NEW L, NEW H, NEW p, NEW q, Explains(L, H, p, q), worker.stage # "idle",
         NEW f, f = Committed(worker.batch, worker.checkpoint)
  PROVE  /\ f \in Files /\ Len(f.entries) = q /\ \A i \in 1..q : f.entries[i] = L[i]
         /\ f.checkpoint = IF worker.checkpoint = None THEN file.checkpoint ELSE worker.checkpoint
         /\ f.sources = Sources(L, q) /\ f.rows \subseteq Known(L, q)
         /\ Made(L, p, q) \subseteq f.rows
         /\ worker.checkpoint = None => file.rows \subseteq f.rows
         /\ worker.checkpoint # None =>
              \A j \in worker.checkpoint.sequence..Len(L) : \A ref \in Refs(H[j]) :
                ref \in file.rows \cup worker.checkpoint.records => ref \in f.rows
<1> DEFINE batch == worker.batch
           c == worker.checkpoint
           rows == file.rows \cup NewRows(batch, c)
           kept == IF c = None THEN rows ELSE {row \in rows : row.id \in Keep(batch, c)}
           entries == SubSeq(file.entries, 1, Head(batch).sequence - 1) \o batch
           latest == IF c = None THEN file.checkpoint ELSE c
           sources == file.sources \cup OfferedBy(batch)
<1>1. f = [entries |-> entries, checkpoint |-> latest, rows |-> kept, sources |-> sources]
  BY DEF Committed, OfferedBy
<1>2. entries \in Seq(Entries) /\ Len(entries) = q /\ \A i \in 1..q : entries[i] = L[i]
  <2>1. entries = EntriesAfter(worker.batch)
    BY DEF EntriesAfter
  <2> HIDE DEF entries
  <2>2. QED
    BY <2>1, CommitEntries
<1>3. /\ Len(L) \in Nat /\ p \in Nat /\ q \in Nat /\ p <= q /\ q <= Len(L)
      /\ Len(file.entries) \in Nat /\ p <= Len(file.entries) /\ Len(file.entries) <= q
  <2>1. Len(file.entries) <= q
    BY DEF Explains, Placed
  <2>2. QED
    BY <2>1, Places
<1>4. /\ RowsOf(batch) = Made(L, p, q)
      /\ OfferedBy(batch) = Offered(L, p, q)
      /\ rows \subseteq Known(L, q)
  BY BatchIs
<1>5. sources = Sources(L, q)
  <2>1. file.sources = Initial.regions.unsaved
                         \cup UNION {L[i].sources : i \in 1..Len(file.entries)}
    BY DEF Explains, FileHolds, Sources
  <2>2. 1..q = 1..Len(file.entries) \cup (p + 1)..q
    BY <1>3
  <2>3. QED
    BY <1>4, <2>1, <2>2 DEF Sources, Offered
<1>6. latest \in Captures \cup {None}
  BY DEF TypeOK, Files, Workers
<1>7. sources \subseteq Regions
  <2>1. file.sources \subseteq Regions /\ batch \in Seq(Entries)
    BY DEF TypeOK, Files, Workers
  <2>2. \A entry \in Range(batch) : entry \in Entries
    BY <2>1, InSequence
  <2>3. \A entry \in Range(batch) : entry.sources \subseteq Regions
    BY <2>2 DEF Entries
  <2>4. QED
    BY <2>1, <2>3 DEF OfferedBy
<1>8. rows \subseteq Records
  <2>1. Legal(L, H) /\ q \in 0..Len(L)
    BY <1>3 DEF Explains
  <2>2. QED
    BY <1>4, <2>1, KnownIs
<1>9. Made(L, p, q) \subseteq rows
  BY <1>4 DEF NewRows
<1> HIDE DEF entries, sources, latest
<1>10. Made(L, p, q) \subseteq kept
  BY <1>4, <1>9 DEF Keep, Identities
<1>11. ASSUME c # None, NEW j \in c.sequence..Len(L), NEW ref \in Refs(H[j]),
              ref \in file.rows \cup c.records
       PROVE  ref \in kept
  <2>1. CheckpointIs(L, H, c) /\ p < c.sequence /\ c.sequence <= q
    BY <1>11 DEF Explains, Checkpoints
  <2>2. /\ c.sequence \in Nat /\ c.sequence \in 0..Len(L) /\ q \in 0..Len(L)
        /\ Refs(c) = Refs(H[c.sequence])
    BY <1>3, <2>1, CheckpointRefs
  <2>3. ref \in rows
    BY <1>11 DEF NewRows
  <2>4. CASE ref \in Refs(c)
    BY <1>11, <2>3, <2>4 DEF Keep, Identities, Refs
  <2>5. CASE ref \notin Refs(c)
    <3>1. Legal(L, H)
      BY DEF Explains
    <3> HIDE DEF rows
    <3>2. ref \in Made(L, c.sequence, q)
      BY <1>4, <1>11, <2>2, <2>3, <2>5, <3>1, KeepsLater
    <3>3. \A i \in (c.sequence + 1)..q : i \in (p + 1)..q
      BY <1>3, <2>1, <2>2
    <3>4. ref \in Made(L, p, q)
      BY <3>2, <3>3 DEF Made
    <3>5. QED
      BY <1>10, <3>4
  <2>6. QED
    BY <2>4, <2>5
<1>12. kept \subseteq rows /\ (c = None => file.rows \subseteq kept)
  OBVIOUS
<1> HIDE DEF kept, rows
<1>13. f \in Files
  BY <1>1, <1>2, <1>6, <1>7, <1>8, <1>12 DEF Files
<1>14. f.entries = entries /\ f.checkpoint = latest /\ f.rows = kept /\ f.sources = sources
  BY <1>1
<1>15. QED
  BY <1>2, <1>4, <1>5, <1>10, <1>11, <1>12, <1>13, <1>14 DEF latest

\* The batch is in the file.
LEMMA CommitStep ==
  ASSUME TypeOK, NEW L, NEW H, NEW p, NEW q, Explains(L, H, p, q), Commit
  PROVE  TypeOK' /\ Explains(L, H, p, q)'
<1> DEFINE n == Len(L)
           c == worker.checkpoint
<1>1. /\ worker.stage = "writing" /\ worker' = [worker EXCEPT !.stage = "committed"]
      /\ file' = Committed(worker.batch, c)
      /\ UNCHANGED <<game, boundaries, regions, command, store, inputs, status, opening>>
  BY DEF Commit, processVars, engineVars
<1>2. /\ worker' \in Workers /\ worker'.stage = "committed"
      /\ worker'.batch = worker.batch /\ worker'.checkpoint = c
  BY <1>1 DEF TypeOK, Workers
<1>3. /\ file' \in Files /\ Len(file'.entries) = q /\ \A i \in 1..q : file'.entries[i] = L[i]
      /\ file'.checkpoint = IF c = None THEN file.checkpoint ELSE c
      /\ file'.sources = Sources(L, q) /\ file'.rows \subseteq Known(L, q)
      /\ Made(L, p, q) \subseteq file'.rows
      /\ c = None => file.rows \subseteq file'.rows
      /\ c # None =>
           \A j \in c.sequence..n : \A ref \in Refs(H[j]) :
             ref \in file.rows \cup c.records => ref \in file'.rows
  BY <1>1, CommitFile
<1>4. /\ n \in Nat /\ p \in Nat /\ q \in Nat /\ p <= q /\ q <= n
      /\ Len(file.entries) \in Nat /\ p <= Len(file.entries) /\ Len(file.entries) <= q
  <2>1. Len(file.entries) <= q
    BY <1>1 DEF Explains, Placed
  <2>2. QED
    BY <2>1, Places
<1>5. c # None => /\ CheckpointIs(L, H, c) /\ p < c.sequence /\ c.sequence <= q
                  /\ Refs(c) \subseteq c.records \cup file.rows
                  /\ c.sequence \in 0..n /\ Refs(c) = Refs(H[c.sequence])
  <2>1. c # None => /\ CheckpointIs(L, H, c) /\ p < c.sequence /\ c.sequence <= q
                    /\ Refs(c) \subseteq c.records \cup file.rows
    BY <1>1 DEF Explains, Checkpoints
  <2>2. QED
    BY <2>1, CheckpointRefs
<1>6. ASSUME NEW j \in q..n, NEW ref \in Refs(H[j]), ref \in file.rows
      PROVE  ref \in file'.rows
  <2>1. CASE c = None
    BY <1>3, <1>6, <2>1
  <2>2. CASE c # None
    <3>1. j \in c.sequence..n
      BY <1>4, <1>5, <2>2
    <3>2. QED
      BY <1>3, <1>6, <2>2, <3>1
  <2>3. QED
    BY <2>1, <2>2
<1>7. Claimed' = Claimed
  BY <1>1 DEF Claimed
<1>8. TypeOK'
  BY <1>1, <1>2, <1>3 DEF TypeOK
<1>9. Placed(L, p, q)'
  <2>1. q \in p..n
    BY <1>4
  <2>2. QED
    BY <1>1, <1>2, <1>3, <1>4, <2>1 DEF Explains, Placed
<1>10. Checkpoints(L, H, p, q)'
  <2>1. ASSUME store.checkpoint # None
        PROVE  Refs(store.checkpoint) \subseteq store.checkpoint.records \cup file'.rows
    <3>1. /\ CheckpointIs(L, H, store.checkpoint) /\ q < store.checkpoint.sequence
          /\ Refs(store.checkpoint) \subseteq store.checkpoint.records \cup file.rows
      BY <2>1 DEF Explains, Checkpoints
    <3>2. /\ Refs(store.checkpoint) = Refs(H[store.checkpoint.sequence])
          /\ store.checkpoint.sequence \in q..n
      BY <1>4, <3>1, CheckpointRefs
    <3>3. QED
      BY <1>6, <3>1, <3>2
  <2>2. ASSUME c # None PROVE Refs(c) \subseteq file'.rows
    <3>1. c.sequence \in c.sequence..n
      BY <1>4, <1>5, <2>2
    <3>2. QED
      BY <1>3, <1>5, <2>2, <3>1
  <2>3. ASSUME file'.checkpoint # None
        PROVE  /\ CheckpointIs(L, H, file'.checkpoint) /\ file'.checkpoint.sequence <= q
               /\ Refs(file'.checkpoint) \subseteq file'.rows
    <3>1. CASE c = None
      <4>1. /\ CheckpointIs(L, H, file.checkpoint)
            /\ file.checkpoint.sequence <= Len(file.entries)
            /\ Refs(file.checkpoint) \subseteq file.rows
        BY <1>3, <2>3, <3>1 DEF Explains, Checkpoints
      <4>2. file.checkpoint.sequence \in 0..n
        BY <4>1 DEF CheckpointIs
      <4>3. QED
        BY <1>3, <1>4, <3>1, <4>1, <4>2
    <3>2. CASE c # None
      BY <1>3, <1>5, <2>2, <3>2
    <3>3. QED
      BY <3>1, <3>2
  <2>4. QED
    BY <1>1, <1>2, <1>3, <1>5, <2>1, <2>2, <2>3 DEF Explains, Checkpoints
<1>11. FileHolds(L, p, q)'
  BY <1>2, <1>3 DEF FileHolds
<1>12. InputsHold'
  <2>1. file.sources \subseteq file'.sources
    <3>1. file.sources = Sources(L, Len(file.entries)) /\ Len(file.entries) \in 0..q
      BY <1>4 DEF Explains, FileHolds
    <3>2. QED
      BY <1>3, <1>4, <3>1, KnownGrows
  <2>2. QED
    BY <1>1, <2>1 DEF Explains, InputsHold
<1>13. ReportIs(L, H)'
  BY <1>1 DEF ReportIs, Explains
<1>14. EngineHolds(L, H)'
  <2>1. n \in q..n
    BY <1>4
  <2>2. QED
    BY <1>1, <1>6, <1>7, <2>1 DEF Explains, EngineHolds
<1>15. Legal(L, H)
  BY DEF Explains
<1>16. QED
  BY <1>8, <1>9, <1>10, <1>11, <1>12, <1>13, <1>14, <1>15 DEF Explains

\* A commit is reported: what is claimed then is in the file.
LEMMA ReportStep ==
  ASSUME TypeOK, NEW L, NEW H, NEW p, NEW q, Explains(L, H, p, q), Report
  PROVE  TypeOK' /\ Explains(L, H, q, q)'
<1> DEFINE n == Len(L)
           batch == worker.batch
           c == worker.checkpoint
           names == [named |-> Identities(Referenced(c.game, c.boundaries)),
                     watermark |-> c.watermark]
           written == IF c = None THEN store.written ELSE names
           appended == (IF c = None THEN store.appended ELSE {}) \cup Identities(RowsOf(batch))
           released == ReleaseCommitted(inputs.pending)
<1>1. /\ worker.stage = "committed" /\ worker' = Resting
      /\ store' = [store EXCEPT !.written = written, !.appended = appended]
      /\ inputs' = [inputs EXCEPT !.pending = released]
      /\ UNCHANGED <<game, boundaries, regions, command, file, status, opening>>
  <2>1. store' = [store EXCEPT
           !.written  = IF c = None THEN @
                        ELSE [named |-> Identities(Referenced(c.game, c.boundaries)),
                              watermark |-> c.watermark],
           !.appended = (IF c = None THEN @ ELSE {}) \cup Identities(RowsOf(batch))]
    BY DEF Report
  <2>2. store' = [store EXCEPT !.written = written, !.appended = appended]
    BY <2>1 DEF TypeOK, Stores
  <2>3. QED
    BY <2>2 DEF Report, processVars, engineVars
<1>2. /\ n \in Nat /\ p \in Nat /\ q \in Nat /\ p <= q /\ q <= n
      /\ Len(file.entries) \in Nat /\ Len(file.entries) <= n
  BY Places
<1>3. RowsOf(batch) = Made(L, p, q) /\ OfferedBy(batch) = Offered(L, p, q)
  BY <1>1, BatchIs
<1>4. p < q /\ Len(file.entries) = q /\ status = "up"
  BY <1>1 DEF Explains, Placed
<1>5. Made(L, p, q) \subseteq Known(L, n) /\ Made(L, p, q) \subseteq file.rows
  <2>1. p \in 0..q /\ q \in 0..n
    BY <1>2
  <2>2. Made(L, p, q) \subseteq Known(L, q) /\ Known(L, q) \subseteq Known(L, n)
    BY <1>2, <2>1, KnownGrows
  <2>3. QED
    BY <1>1, <2>2 DEF Explains, FileHolds
<1>6. c # None => /\ c \in Captures /\ CheckpointIs(L, H, c) /\ Refs(c) \subseteq file.rows
                  /\ c.sequence \in 0..n /\ Refs(c) = Refs(H[c.sequence])
                  /\ Refs(c) \subseteq Known(L, n)
  <2>1. c # None => c \in Captures /\ CheckpointIs(L, H, c) /\ Refs(c) \subseteq file.rows
    BY <1>1 DEF Explains, Checkpoints, TypeOK, Workers
  <2>2. QED
    BY <2>1, CheckpointRefs, Places
<1>7. \A x \in Known(L, n) : x.id \in Nat /\ x.id < H[n].game.next
  <2>1. Legal(L, H) /\ n \in 0..n
    BY <1>2 DEF Explains
  <2>2. QED
    BY <2>1, KnownIs
<1>8. \A x, y \in Known(L, n) : x.id = y.id => x = y
  <2>1. Legal(L, H) /\ n \in 0..n
    BY <1>2 DEF Explains
  <2>2. QED
    BY <2>1, Unique
<1>9. written \in Reports \cup {None} /\ appended \subseteq Nat
  <2>1. store.written \in Reports \cup {None} /\ store.appended \subseteq Nat
    BY DEF TypeOK, Stores
  <2>2. Identities(RowsOf(batch)) \subseteq Nat
    BY <1>3, <1>5, <1>7 DEF Identities
  <2>3. ASSUME c # None PROVE names \in Reports
    <3>1. Identities(Refs(c)) \subseteq Nat
      BY <1>6, <1>7, <2>3 DEF Identities
    <3>2. c.watermark \in Nat
      BY <1>6, <2>3 DEF Captures
    <3>3. QED
      BY <3>1, <3>2 DEF Reports, Refs
  <2> HIDE DEF names
  <2>4. QED
    BY <2>1, <2>2, <2>3
<1>10. ReportIs(L, H)'
  <2>1. CASE c = None
    BY <1>1, <2>1 DEF Explains, ReportIs, TypeOK, Stores
  <2>2. CASE c # None
    <3>1. names.named = Identities(Refs(H[c.sequence])) /\ names.watermark = H[c.sequence].game.next
      BY <1>6, <2>2 DEF Refs, CheckpointIs
    <3> HIDE DEF names
    <3>2. store'.written = names
      BY <1>1, <2>2 DEF TypeOK, Stores
    <3>3. QED
      BY <1>6, <2>2, <3>1, <3>2 DEF ReportIs
  <2>3. QED
    BY <2>1, <2>2
<1>11. \A i \in Claimed' : i \in Claimed \/ \E x \in Known(L, n) \cap file.rows : x.id = i
  <2>1. \A i \in Identities(RowsOf(batch)) : \E x \in Known(L, n) \cap file.rows : x.id = i
    BY <1>3, <1>5 DEF Identities
  <2>2. c # None => \A i \in names.named : \E x \in Known(L, n) \cap file.rows : x.id = i
    BY <1>6 DEF Identities, Refs
  <2>3. Claimed' = regions.durable \cup appended \cup IF written = None THEN {} ELSE written.named
    BY <1>1 DEF Claimed, TypeOK, Stores
  <2> HIDE DEF names
  <2>4. QED
    BY <2>1, <2>2, <2>3 DEF Claimed
<1> HIDE DEF written, appended
<1>12. /\ store' \in Stores
      /\ store'.pending = store.pending /\ store'.checkpoint = store.checkpoint
      /\ store'.written = written /\ store'.appended = appended
      /\ store'.accepted = store.accepted
  BY <1>1, <1>9 DEF TypeOK, Stores
<1>13. /\ released \in UNION {[S -> Nat] : S \in SUBSET Regions}
       /\ \A r \in DOMAIN inputs.pending : r \in DOMAIN released \/ r \in file.sources
  <2>1. PICK S \in SUBSET Regions : inputs.pending \in [S -> Nat]
    BY DEF TypeOK, Ownership
  <2> DEFINE owned(r) == \E entry \in Range(batch) :
                           r \in entry.sources /\ inputs.pending[r] = entry.sequence
             T == {r \in S : ~owned(r)}
  <2>2. released = [r \in T |-> inputs.pending[r]]
    BY <2>1 DEF ReleaseCommitted
  <2>3. \A r \in S : owned(r) => r \in Offered(L, p, q)
    BY <1>3 DEF OfferedBy
  <2>4. Offered(L, p, q) \subseteq file.sources
    <3>1. file.sources = Sources(L, q)
      BY <1>4 DEF Explains, FileHolds
    <3>2. \A i \in (p + 1)..q : i \in 1..q
      BY <1>2
    <3>3. QED
      BY <3>1, <3>2 DEF Offered, Sources
  <2>5. T \in SUBSET Regions /\ released \in [T -> Nat]
    BY <2>1, <2>2
  <2>6. QED
    BY <2>1, <2>2, <2>3, <2>4, <2>5
<1> HIDE DEF released
<1>14. inputs' \in Ownership /\ inputs'.known = inputs.known /\ inputs'.pending = released
  BY <1>1, <1>13 DEF TypeOK, Ownership
<1>15. worker' \in Workers /\ worker'.stage = "idle" /\ worker'.batch = <<>>
  BY <1>1 DEF Resting, Workers
<1>16. TypeOK'
  BY <1>1, <1>12, <1>14, <1>15 DEF TypeOK
<1>17. Placed(L, q, q)'
  <2>1. Part(<<>>, L, q, q)
    BY <1>2 DEF Part
  <2>2. q \in 0..q /\ q \in 0..n /\ q \in q..n
    BY <1>2
  <2>3. QED
    BY <1>1, <1>2, <1>4, <1>12, <1>15, <2>1, <2>2 DEF Explains, Placed
<1>18. Checkpoints(L, H, q, q)'
  BY <1>1, <1>12, <1>15 DEF Explains, Checkpoints
<1>19. FileHolds(L, q, q)'
  BY <1>1, <1>15 DEF Explains, FileHolds
<1>20. InputsHold'
  BY <1>1, <1>13, <1>14 DEF Explains, InputsHold
<1>21. EngineHolds(L, H)'
  <2>1. \A i \in Claimed' : i < H[n].game.next
    BY <1>4, <1>7, <1>11 DEF Explains, EngineHolds
  <2>2. ASSUME NEW ref \in Refs(H[n]), ref.id \in Claimed' PROVE ref \in file.rows
    <3>1. CASE ref.id \in Claimed
      BY <1>4, <2>2, <3>1 DEF Explains, EngineHolds
    <3>2. CASE \E x \in Known(L, n) \cap file.rows : x.id = ref.id
      <4>1. ref \in Known(L, n)
        BY Places
      <4>2. QED
        BY <1>8, <3>2, <4>1
    <3>3. QED
      BY <1>11, <2>2, <3>1, <3>2
  <2>3. QED
    BY <1>1, <1>4, <2>1, <2>2 DEF Explains, EngineHolds
<1>22. Legal(L, H)
  BY DEF Explains
<1>23. QED
  BY <1>10, <1>16, <1>17, <1>18, <1>19, <1>20, <1>21, <1>22 DEF Explains

\* What a process finds of the save that it opens.
LEMMA OpenedIs ==
  ASSUME TypeOK
  PROVE  /\ OpenedStore \in Stores /\ OpenedStore.pending = <<>>
         /\ OpenedStore.checkpoint = None /\ OpenedStore.written = None
         /\ OpenedStore.appended = Identities(file.rows)
         /\ OpenedStore.accepted = Len(file.entries)
         /\ OpenedInputs \in Ownership /\ OpenedInputs.known = file.sources
         /\ Resting \in Workers /\ Resting.stage = "idle" /\ Resting.batch = <<>>
<1>1. /\ file.entries \in Seq(Entries) /\ Len(file.entries) \in Nat
      /\ file.rows \subseteq Records /\ file.sources \subseteq Regions
      /\ file.checkpoint \in Captures \cup {None}
  BY InSequence DEF TypeOK, Files
<1>2. Identities(file.rows) \subseteq Nat
  BY <1>1 DEF Identities, Records
<1>3. (IF file.checkpoint = None THEN 0 ELSE file.checkpoint.sequence) \in Nat
  BY <1>1 DEF Captures
<1>4. [r \in {} |-> 0] \in UNION {[S -> Nat] : S \in SUBSET Regions}
  OBVIOUS
<1> DEFINE requested == IF file.checkpoint = None THEN 0 ELSE file.checkpoint.sequence
           nothing == <<>>
<1>5. nothing \in Seq(Entries)
  OBVIOUS
<1>6. OpenedStore = [pending |-> nothing, checkpoint |-> None, failed |-> FALSE,
                     written |-> None, appended |-> Identities(file.rows),
                     accepted |-> Len(file.entries), requested |-> requested]
  BY DEF OpenedStore
<1>7. Resting = [stage |-> "idle", batch |-> nothing, checkpoint |-> None]
  BY DEF Resting
<1> HIDE DEF requested, nothing
<1>8. requested \in Nat
  BY <1>3 DEF requested
<1>9. /\ OpenedStore \in Stores /\ OpenedStore.pending = nothing
      /\ OpenedStore.checkpoint = None /\ OpenedStore.written = None
      /\ OpenedStore.appended = Identities(file.rows)
      /\ OpenedStore.accepted = Len(file.entries)
  BY <1>1, <1>2, <1>5, <1>6, <1>8 DEF Stores
<1>10. Resting \in Workers /\ Resting.stage = "idle" /\ Resting.batch = nothing
  BY <1>5, <1>7 DEF Workers
<1>11. OpenedInputs \in Ownership /\ OpenedInputs.known = file.sources
  BY <1>1, <1>4 DEF OpenedInputs, Ownership
<1>12. QED
  BY <1>9, <1>10, <1>11 DEF nothing

\* The process ends: what is not in the file is gone.
LEMMA CrashStep ==
  ASSUME TypeOK, NEW L, NEW H, NEW p, NEW q, Explains(L, H, p, q), Crash
  PROVE  TypeOK' /\ \E M, m : Explains(M, H, m, m)'
<1>0. PICK M : M = file.entries
  OBVIOUS
<1> DEFINE m == Len(M)
<1>1. /\ status' = "down" /\ command' = "none"
      /\ game' = Initial.game /\ boundaries' = Initial.boundaries /\ regions' = Initial.regions
      /\ store' = OpenedStore /\ inputs' = OpenedInputs /\ worker' = Resting
      /\ UNCHANGED <<file, opening>>
  BY DEF Crash
<1>2. TypeOK'
  <2>1. Initial.regions \in Holdings /\ Initial.game \in Games /\ Initial.boundaries \in Seq(Bounds)
    BY FirstIs DEF First, States
  <2>2. QED
    BY <1>1, <2>1, OpenedIs DEF TypeOK
<1>3. /\ Legal(L, H) /\ M \in Seq(Entries) /\ m \in Nat /\ m <= Len(L)
      /\ \A i \in 1..m : M[i] = L[i]
  BY <1>0, Places DEF Explains, Placed
<1>4. Legal(M, H)
  BY <1>3, LegalPrefix
<1>5. /\ \A k \in 0..m : Known(M, k) = Known(L, k) /\ Sources(M, k) = Sources(L, k)
  <2>1. \A k \in 0..m : k \in Nat /\ \A i \in 1..k : M[i] = L[i]
    BY <1>3
  <2>2. QED
    BY <2>1, SameLine
<1>6. Placed(M, m, m)'
  <2>1. Part(<<>>, M, m, m)
    BY <1>3 DEF Part
  <2>2. m \in 0..m /\ m \in m..m
    BY <1>3
  <2>3. QED
    BY <1>1, <2>1, <2>2, <1>0, OpenedIs DEF Placed
<1>7. Checkpoints(M, H, m, m)'
  <2>1. ASSUME file.checkpoint # None
        PROVE  /\ CheckpointIs(M, H, file.checkpoint)
               /\ file.checkpoint.sequence <= Len(file.entries)
               /\ Refs(file.checkpoint) \subseteq file.rows
    <3>1. /\ CheckpointIs(L, H, file.checkpoint) /\ file.checkpoint.sequence <= m
          /\ Refs(file.checkpoint) \subseteq file.rows
      BY <1>0, <2>1 DEF Explains, Checkpoints
    <3>2. file.checkpoint.sequence \in 0..m
      BY <1>3, <3>1 DEF CheckpointIs
    <3>3. QED
      BY <1>0, <1>5, <3>1, <3>2 DEF CheckpointIs
  <2>2. QED
    BY <1>1, <2>1, OpenedIs DEF Checkpoints
<1>8. FileHolds(M, m, m)'
  <2>1. m \in 0..m
    BY <1>3
  <2>2. file.rows \subseteq Known(M, m) /\ file.sources = Sources(M, m)
    BY <1>0, <1>5, <2>1 DEF Explains, FileHolds
  <2>3. QED
    BY <1>0, <1>1, <2>2, OpenedIs DEF FileHolds
<1>9. InputsHold' /\ ReportIs(M, H)' /\ EngineHolds(M, H)'
  BY <1>1, OpenedIs DEF InputsHold, ReportIs, EngineHolds
<1>10. Explains(M, H, m, m)'
  BY <1>4, <1>6, <1>7, <1>8, <1>9 DEF Explains
<1>11. QED
  BY <1>2, <1>10

\* What a command makes of the engine, and the entry that says so.
Executed(L, H, op, n, by, after, bs, needed, entry, d) ==
  /\ status = "up" /\ op \in Operations /\ n = Len(L) /\ by \in Nat \X Nat
  /\ after = Applied(game, boundaries, op, by)
  /\ bs = RetainLast(Append(boundaries, [sequence |-> n + 1, game |-> after.game]))
  /\ needed = NeedFiles(regions, BuiltBy(op))
  /\ entry = [sequence |-> n + 1, by |-> by, op |-> op, made |-> after.made,
              sources |-> needed.unsaved]
  /\ d = Then(H[n], entry)

\* The entry is one that fits the line.
LEMMA ExecutedIs ==
  ASSUME TypeOK, NEW L, NEW H, NEW p, NEW q, Explains(L, H, p, q),
         NEW op, NEW n, NEW by, NEW after, NEW bs, NEW needed, NEW entry, NEW d,
         Executed(L, H, op, n, by, after, bs, needed, entry, d)
  PROVE  /\ entry \in Entries /\ Fits(H[n], entry, Sources(L, n) \cup entry.sources)
         /\ d = [game |-> after.game, boundaries |-> bs] /\ d \in States
         /\ needed \in Holdings /\ needed.resident = regions.resident
         /\ needed.durable = regions.durable /\ needed.saved = regions.saved
         /\ H[n].game.next \in Nat /\ d.game.next \in Nat /\ d.game.next >= H[n].game.next
         /\ Refs(d) \subseteq Refs(H[n]) \cup after.made
         /\ \A x \in after.made : x \in Records /\ x.id \in Nat /\ x.id >= H[n].game.next
<1>1. /\ status = "up" /\ op \in Operations /\ n = Len(L) /\ by \in Nat \X Nat
      /\ after = Applied(game, boundaries, op, by)
      /\ bs = RetainLast(Append(boundaries, [sequence |-> n + 1, game |-> after.game]))
      /\ needed = NeedFiles(regions, BuiltBy(op))
      /\ entry = [sequence |-> n + 1, by |-> by, op |-> op, made |-> after.made,
                  sources |-> needed.unsaved]
      /\ d = Then(H[n], entry)
  BY DEF Executed
<1>2. n \in Nat /\ H[n] \in States
  BY <1>1, Places
<1>3. game = H[n].game /\ boundaries = H[n].boundaries /\ regions.saved \subseteq Sources(L, n)
  BY <1>1 DEF Explains, EngineHolds
<1>4. boundaries \in Seq(Bounds) /\ regions \in Holdings
  BY DEF TypeOK
<1>5. op \in Ops /\ Possible(boundaries, op)
  <2>1. \A b \in Range(boundaries) : b \in Bounds
    BY <1>4, InSequence
  <2>2. \A b \in Range(boundaries) : b.sequence \in Nat
    BY <2>1 DEF Bounds
  <2>3. CASE op \in [kind : {"turn"}, horizon : Horizons]
    BY <2>3 DEF Ops, Possible
  <2>4. CASE op \in [kind : {"rewind"}, target : {b.sequence : b \in Range(boundaries)}]
    <3>1. op.kind = "rewind" /\ \E b \in Range(boundaries) : b.sequence = op.target
      BY <2>4
    <3>2. op \in [kind : {"rewind"}, target : Nat]
      BY <2>2, <2>4
    <3>3. QED
      BY <3>1, <3>2 DEF Ops, Possible
  <2>5. QED
    BY <1>1, <2>3, <2>4 DEF Operations
<1>6. op.kind = "turn" => op.horizon \subseteq Regions
  BY <1>5, RegionRecordsAssumption DEF Ops
<1>7. BuiltBy(op) \subseteq Regions
  BY <1>6, RegionRecordsAssumption DEF BuiltBy, Builds
<1>8. /\ needed \in Holdings /\ needed.resident = regions.resident
      /\ needed.durable = regions.durable /\ needed.saved = regions.saved
      /\ needed.unsaved = regions.unsaved \cup (BuiltBy(op) \ regions.saved)
  BY <1>1, <1>4, <1>7 DEF NeedFiles, Holdings
<1>9. after.game \in Games /\ after.made \subseteq Records
  <2>1. /\ after.game \in Games
        /\ after.made \subseteq {RecordOf(i, by) : i \in H[n].game.next..(after.game.next - 1)}
    <3>1. PICK e : e = H[n]
      OBVIOUS
    <3>2. /\ e \in States /\ op \in Ops /\ Possible(e.boundaries, op) /\ by \in Nat \X Nat
          /\ after = Applied(e.game, e.boundaries, op, by)
      BY <1>1, <1>2, <1>3, <1>5, <3>1
    <3>3. /\ after.game \in Games
          /\ after.made \subseteq {RecordOf(i, by) : i \in e.game.next..(after.game.next - 1)}
      BY <3>2, AppliedIs
    <3>4. QED
      BY <3>1, <3>3
  <2>2. H[n].game.next \in Nat
    BY <1>2 DEF States, Games
  <2>3. QED
    BY <1>1, <2>1, <2>2 DEF RecordOf, Records
<1>10. /\ entry \in Entries /\ entry.op = op /\ entry.by = by /\ entry.made = after.made
       /\ entry.sequence = n + 1 /\ entry.sources = needed.unsaved
  BY <1>1, <1>2, <1>5, <1>8, <1>9 DEF Entries, Holdings
<1>11. Fits(H[n], entry, Sources(L, n) \cup entry.sources)
  <2>1. op.kind = "turn" => Builds(H[n].game, op.horizon) \subseteq Sources(L, n) \cup entry.sources
    BY <1>3, <1>8, <1>10 DEF BuiltBy
  <2>2. QED
    BY <1>1, <1>3, <1>5, <1>10, <2>1 DEF Fits
<1>12. after = Applied(H[n].game, H[n].boundaries, entry.op, entry.by)
  BY <1>1, <1>3, <1>10
<1>13. /\ d \in States /\ d.game = after.game /\ d.game.next >= H[n].game.next
       /\ after.made \subseteq {RecordOf(i, entry.by) : i \in H[n].game.next..(d.game.next - 1)}
       /\ Refs(d) \subseteq Refs(H[n]) \cup after.made
  <2>1. PICK e : e = H[n]
    OBVIOUS
  <2>2. /\ e \in States /\ entry \in Entries /\ Possible(e.boundaries, entry.op)
        /\ d = Then(e, entry) /\ after = Applied(e.game, e.boundaries, entry.op, entry.by)
    BY <1>1, <1>2, <1>3, <1>5, <1>10, <1>12, <2>1
  <2>3. /\ d \in States /\ d.game = after.game /\ d.game.next >= e.game.next
        /\ after.made \subseteq {RecordOf(i, entry.by) : i \in e.game.next..(d.game.next - 1)}
        /\ Refs(d) \subseteq Refs(e) \cup after.made
    BY <2>2, ThenIs
  <2>4. QED
    BY <2>1, <2>3
<1>14. d = [game |-> after.game, boundaries |-> bs]
  BY <1>1, <1>3, <1>10, <1>12 DEF Then
<1>15. H[n].game.next \in Nat /\ d.game.next \in Nat
  BY <1>2, <1>13 DEF States, Games
<1>16. ASSUME NEW x \in after.made PROVE x \in Records /\ x.id \in Nat /\ x.id >= H[n].game.next
  <2>1. PICK i \in H[n].game.next..(d.game.next - 1) : x = RecordOf(i, entry.by)
    BY <1>13, <1>16
  <2>2. x.id = i
    BY <2>1 DEF RecordOf
  <2>3. QED
    BY <1>9, <1>15, <1>16, <2>1, <2>2
<1>17. QED
  BY <1>8, <1>10, <1>11, <1>13, <1>14, <1>15, <1>16

\* A checkpoint that is captured with an entry is of the game that the entry
\* made, and has what that refers to, or it is in the file.
LEMMA CapturedIs ==
  ASSUME TypeOK, NEW L, NEW H, NEW p, NEW q, Explains(L, H, p, q),
         NEW op, NEW n, NEW by, NEW after, NEW bs, NEW needed, NEW entry, NEW d,
         Executed(L, H, op, n, by, after, bs, needed, entry, d),
         NEW c, c = Captured(n + 1, after, bs, needed)
  PROVE  /\ c \in Captures /\ c.sequence = n + 1 /\ c.game = d.game /\ c.boundaries = d.boundaries
         /\ c.watermark = c.game.next /\ c.records \subseteq Known(L, n) \cup after.made
         /\ Refs(c) \subseteq c.records \cup file.rows
<1>1. /\ d = [game |-> after.game, boundaries |-> bs] /\ d \in States
      /\ needed \in Holdings /\ needed.resident = regions.resident
      /\ needed.durable = regions.durable
      /\ Refs(d) \subseteq Refs(H[n]) \cup after.made
      /\ \A x \in after.made : x \in Records
  <2>1. /\ entry \in Entries /\ Fits(H[n], entry, Sources(L, n) \cup entry.sources)
        /\ d = [game |-> after.game, boundaries |-> bs] /\ d \in States
        /\ needed \in Holdings /\ needed.resident = regions.resident
        /\ needed.durable = regions.durable /\ needed.saved = regions.saved
        /\ H[n].game.next \in Nat /\ d.game.next \in Nat /\ d.game.next >= H[n].game.next
        /\ Refs(d) \subseteq Refs(H[n]) \cup after.made
        /\ \A x \in after.made : x \in Records /\ x.id \in Nat /\ x.id >= H[n].game.next
    BY ExecutedIs
  <2>2. QED
    BY <2>1
<1>2. n = Len(L) /\ status = "up" /\ n \in Nat
  BY Places DEF Executed
<1>3. /\ regions.resident \subseteq Known(L, n)
      /\ Refs(H[n]) \subseteq regions.resident \cup file.rows
      /\ \A ref \in Refs(H[n]) : ref.id \in Claimed => ref \in file.rows
  BY <1>2 DEF Explains, EngineHolds
<1> DEFINE named == Referenced(after.game, bs)
           records == Unwritten(needed, named) \cup (after.made \cap named)
<1>4. named = Refs(d)
  BY <1>1 DEF Refs
<1>5. c = [sequence |-> n + 1, game |-> after.game, boundaries |-> bs,
           watermark |-> after.game.next, records |-> records]
  BY DEF Captured
<1>6. records \subseteq regions.resident \cup after.made /\ regions.resident \subseteq Records
  BY <1>1 DEF Unwritten, Holdings
<1>7. after.game \in Games /\ bs \in Seq(Bounds) /\ after.game.next \in Nat
  BY <1>1 DEF States, Games
<1>8. ASSUME NEW ref \in named PROVE ref \in records \cup file.rows
  <2>1. CASE ref \in after.made
    BY <1>8, <2>1
  <2>2. CASE ref \in Refs(H[n]) /\ ref.id \in regions.durable
    BY <1>3, <2>2 DEF Claimed
  <2>3. CASE ref \in Refs(H[n]) /\ ref.id \notin regions.durable
    <3>1. ref \in regions.resident => ref \in Unwritten(needed, named)
      BY <1>1, <1>8, <2>3 DEF Unwritten, Identities
    <3>2. QED
      BY <1>3, <2>3, <3>1
  <2>4. QED
    BY <1>1, <1>4, <2>1, <2>2, <2>3
<1>9. records \subseteq Records
  BY <1>1, <1>6
<1> HIDE DEF records, named
<1>10. c \in Captures /\ c.sequence = n + 1 /\ c.game = after.game /\ c.boundaries = bs
       /\ c.watermark = after.game.next /\ c.records = records
  BY <1>2, <1>5, <1>7, <1>9 DEF Captures
<1>11. Refs(c) = named
  BY <1>10 DEF Refs, named
<1>12. QED
  BY <1>1, <1>3, <1>6, <1>8, <1>10, <1>11

\* The command runs, and its entry is accepted.
LEMMA ExecuteStep ==
  ASSUME TypeOK, NEW L, NEW H, NEW p, NEW q, Explains(L, H, p, q), Execute
  PROVE  TypeOK' /\ \E M, G : Explains(M, G, p, q)'
<1>1. command = "ready" /\ status = "up"
  BY DEF Execute, Explains, Placed
<1>2. PICK n : n = Len(L)
  OBVIOUS
<1>3. store.accepted = n /\ n \in Nat /\ opening \in Nat
  BY <1>2, Places DEF Explains, Placed, TypeOK
<1>4. PICK by : by = <<opening, n + 1>>
  OBVIOUS
<1>5. PICK op \in Operations :
       LET sequence == n + 1
           after    == Applied(game, boundaries, op, by)
           bs       == RetainLast(Append(boundaries, [sequence |-> sequence, game |-> after.game]))
           needed   == NeedFiles(regions, BuiltBy(op))
           due      == sequence - store.requested >= CheckpointInterval
           entry    == [sequence |-> sequence, by |-> by, op |-> op,
                        made |-> after.made, sources |-> needed.unsaved]
       IN  /\ game' = after.game /\ boundaries' = bs
           /\ regions' = Published(needed, after.made)
           /\ inputs' = Admitted(sequence, needed.unsaved)
           /\ store' = [store EXCEPT
                !.pending = Append(@, entry), !.accepted = sequence,
                !.checkpoint = IF due THEN Captured(sequence, after, bs, needed) ELSE @,
                !.requested = IF due THEN sequence ELSE @]
  BY <1>3, <1>4 DEF Execute
<1> DEFINE after  == Applied(game, boundaries, op, by)
           bs     == RetainLast(Append(boundaries, [sequence |-> n + 1, game |-> after.game]))
           needed == NeedFiles(regions, BuiltBy(op))
           due    == (n + 1) - store.requested >= CheckpointInterval
           entry  == [sequence |-> n + 1, by |-> by, op |-> op, made |-> after.made,
                      sources |-> needed.unsaved]
           d      == Then(H[n], entry)
           c      == IF due THEN Captured(n + 1, after, bs, needed) ELSE store.checkpoint
           latest == IF due THEN n + 1 ELSE store.requested
           all    == Append(store.pending, entry)
<1>6. /\ game' = after.game /\ boundaries' = bs /\ regions' = Published(needed, after.made)
      /\ inputs' = Admitted(n + 1, needed.unsaved)
      /\ store' = [store EXCEPT !.pending = all, !.accepted = n + 1,
                               !.checkpoint = c, !.requested = latest]
  BY <1>5
<1>7. entry.sequence = n + 1 /\ entry.made = after.made /\ entry.sources = needed.unsaved
  OBVIOUS
<1>8. by \in Nat \X Nat
  BY <1>3, <1>4
<1>9. Executed(L, H, op, n, by, after, bs, needed, entry, d)
  BY <1>1, <1>2, <1>8 DEF Executed
<1>10. PICK M : M = Append(L, entry)
  OBVIOUS
<1>11. PICK G : G = Extended(H, n, d)
  OBVIOUS
<1>12. d = Then(H[n], entry)
  OBVIOUS
<1> HIDE DEF after, bs, needed, entry, d, c, latest, all
<1>14. command' = "none" /\ UNCHANGED <<worker, file, status, opening>>
  BY DEF Execute, processVars
<1>17. /\ entry \in Entries /\ Fits(H[n], entry, Sources(L, n) \cup entry.sources)
       /\ d = [game |-> after.game, boundaries |-> bs] /\ d \in States
       /\ needed \in Holdings /\ needed.resident = regions.resident
       /\ needed.durable = regions.durable /\ needed.saved = regions.saved
       /\ H[n].game.next \in Nat /\ d.game.next \in Nat /\ d.game.next >= H[n].game.next
       /\ Refs(d) \subseteq Refs(H[n]) \cup after.made
       /\ \A x \in after.made : x \in Records /\ x.id \in Nat /\ x.id >= H[n].game.next
  BY <1>9, ExecutedIs
<1>21. /\ Legal(M, G) /\ Len(M) = n + 1
       /\ M[n + 1] = entry /\ \A i \in 1..n : M[i] = L[i]
       /\ G[n + 1] = d /\ \A k \in 0..n : G[k] = H[k]
       /\ \A k \in 0..n : Known(M, k) = Known(L, k) /\ Sources(M, k) = Sources(L, k)
       /\ \A j, k \in 0..n : Made(M, j, k) = Made(L, j, k)
       /\ Known(M, n + 1) = Known(L, n) \cup after.made
       /\ Sources(M, n + 1) = Sources(L, n) \cup needed.unsaved
  <2>1. Legal(L, H)
    BY DEF Explains
  <2>2. entry \in Entries /\ Fits(H[n], entry, Sources(L, n) \cup entry.sources)
    BY <1>17
  <2>3. entry.sequence = n + 1
    BY <1>7
  <2>4. Grown(L, n, entry, d, H, M, G)
    BY <1>2, <1>10, <1>11, <1>12, <2>1, <2>2, <2>3, LegalExtended
  <2>5. QED
    BY <1>7, <2>4 DEF Grown
<1>22. /\ p \in Nat /\ q \in Nat /\ p <= q /\ q <= n
       /\ Len(file.entries) \in Nat /\ p <= Len(file.entries) /\ Len(file.entries) <= n
  BY <1>2, Places
<1>23. /\ store' \in Stores
       /\ store'.pending = all /\ store'.checkpoint = c
       /\ store'.written = store.written /\ store'.appended = store.appended
       /\ store'.accepted = n + 1
  <2>1. due => Captured(n + 1, after, bs, needed) \in Captures
    BY <1>9, CapturedIs
  <2>2. c \in Captures \cup {None} /\ store.pending \in Seq(Entries)
    BY <2>1 DEF TypeOK, Stores, c
  <2>3. all \in Seq(Entries)
    BY <1>17, <2>2 DEF all
  <2>4. latest \in Nat
    BY <1>3 DEF TypeOK, Stores, latest
  <2>5. store' = [pending |-> all, checkpoint |-> c, failed |-> store.failed,
                  written |-> store.written, appended |-> store.appended,
                  accepted |-> n + 1, requested |-> latest]
    BY <1>6 DEF TypeOK, Stores
  <2>6. /\ store.failed \in BOOLEAN /\ store.written \in Reports \cup {None}
        /\ store.appended \in SUBSET Nat /\ n + 1 \in Nat
    BY <1>3 DEF TypeOK, Stores
  <2>7. store' \in Stores
    BY <2>2, <2>3, <2>4, <2>5, <2>6 DEF Stores
  <2>8. QED
    BY <2>5, <2>7
<1>24. PICK left :
         left = {x \in regions.resident : x.id \notin Identities(after.made)} \cup after.made
  OBVIOUS
<1>25. /\ regions' \in Holdings /\ regions'.resident = left
       /\ regions'.durable = regions.durable
       /\ regions'.saved = regions.saved \cup needed.unsaved
  <2>1. left \subseteq Records /\ regions.saved \cup needed.unsaved \subseteq Regions
    BY <1>17, <1>24 DEF Holdings
  <2>2. regions' = [needed EXCEPT !.resident = left, !.saved = regions.saved \cup needed.unsaved,
                                  !.unsaved = {}]
    BY <1>6, <1>17, <1>24 DEF Published, Holdings
  <2>3. QED
    BY <1>17, <2>1, <2>2 DEF Holdings
<1>26. /\ inputs' \in Ownership /\ inputs'.known = inputs.known \cup needed.unsaved
       /\ DOMAIN inputs'.pending = DOMAIN inputs.pending \cup needed.unsaved
  <2>1. PICK S \in SUBSET Regions : inputs.pending \in [S -> Nat]
    BY DEF TypeOK, Ownership
  <2>2. needed.unsaved \subseteq Regions /\ inputs.known \subseteq Regions
    BY <1>17 DEF TypeOK, Ownership, Holdings
  <2> DEFINE pending == [r \in S \cup needed.unsaved |->
                           IF r \in needed.unsaved THEN n + 1 ELSE inputs.pending[r]]
  <2>3. inputs' = [known |-> inputs.known \cup needed.unsaved, pending |-> pending]
    BY <1>6, <2>1 DEF Admitted
  <2>4. pending \in [S \cup needed.unsaved -> Nat]
    BY <1>3, <2>1
  <2>5. DOMAIN pending = DOMAIN inputs.pending \cup needed.unsaved
    BY <2>1
  <2>6. S \cup needed.unsaved \in SUBSET Regions
    BY <2>1, <2>2
  <2> HIDE DEF pending
  <2>7. pending \in UNION {[T -> Nat] : T \in SUBSET Regions}
    BY <2>4, <2>6
  <2>8. QED
    BY <2>2, <2>3, <2>5, <2>7 DEF Ownership
<1>27. TypeOK'
  <2>1. game' \in Games /\ boundaries' \in Seq(Bounds)
    BY <1>6, <1>17 DEF States
  <2>2. QED
    BY <1>14, <1>23, <1>25, <1>26, <2>1 DEF TypeOK
<1>28. Placed(M, p, q)'
  <2>1. \A i \in 1..Len(file.entries) : file.entries[i] = M[i]
    <3>1. \A i \in 1..Len(file.entries) : i \in 1..n
      BY <1>3, <1>22
    <3>2. QED
      BY <1>21, <3>1 DEF Explains, Placed
  <2>2. Part(worker.batch, M, p, q)
    <3>1. \A i \in 1..(q - p) : p + i \in 1..n
      BY <1>3, <1>22
    <3>2. QED
      BY <1>21, <3>1 DEF Explains, Placed, Part
  <2>3. Part(store'.pending, M, q, n + 1)
    <3>1. /\ store.pending \in Seq(Entries) /\ Len(store.pending) = n - q
          /\ \A i \in 1..(n - q) : store.pending[i] = L[q + i]
      BY <1>2 DEF Explains, Placed, Part, TypeOK, Stores
    <3>2. Len(store'.pending) = (n + 1) - q /\ (n + 1) - q \in Nat
      <4>1. Len(all) = Len(store.pending) + 1
        BY <3>1 DEF all
      <4>2. Len(all) = (n + 1) - q /\ (n + 1) - q \in Nat
        BY <1>3, <1>22, <3>1, <4>1
      <4>3. QED
        BY <1>23, <4>2
    <3>3. ASSUME NEW i \in 1..((n + 1) - q) PROVE store'.pending[i] = M[q + i]
      <4>1. CASE i = (n + 1) - q
        <5>1. i = Len(store.pending) + 1 /\ q + i = n + 1
          BY <1>3, <1>22, <3>1, <4>1
        <5>2. store'.pending[i] = entry
          BY <1>23, <3>1, <5>1 DEF all
        <5>3. QED
          BY <1>21, <5>1, <5>2
      <4>2. CASE i # (n + 1) - q
        <5>1. i \in 1..(n - q) /\ q + i \in 1..n /\ i \in 1..Len(store.pending)
          BY <1>3, <1>22, <3>1, <4>2
        <5>2. store'.pending[i] = store.pending[i]
          BY <1>23, <3>1, <5>1 DEF all
        <5>3. QED
          BY <1>21, <3>1, <5>1, <5>2
      <4>3. QED
        BY <4>1, <4>2
    <3>4. QED
      BY <3>2, <3>3 DEF Part
  <2>4. q \in 0..(n + 1) /\ Len(file.entries) \in p..(n + 1)
    BY <1>3, <1>22
  <2>5. QED
    BY <1>1, <1>14, <1>21, <1>23, <2>1, <2>2, <2>3, <2>4 DEF Explains, Placed
<1>29. ASSUME NEW x, CheckpointIs(L, H, x) PROVE CheckpointIs(M, G, x)
  <2>1. x.sequence \in 0..n /\ x.sequence \in 0..(n + 1)
    BY <1>2, <1>3, <1>29 DEF CheckpointIs
  <2>2. QED
    BY <1>21, <1>29, <2>1 DEF CheckpointIs
<1>30. Checkpoints(M, G, p, q)'
  <2>1. ASSUME c # None
        PROVE  CheckpointIs(M, G, c) /\ q < c.sequence /\ Refs(c) \subseteq c.records \cup file.rows
    <3>1. CASE due
      <4>1. /\ c.sequence = n + 1 /\ c.game = d.game /\ c.boundaries = d.boundaries
            /\ c.watermark = c.game.next /\ c.records \subseteq Known(L, n) \cup after.made
            /\ Refs(c) \subseteq c.records \cup file.rows
        BY <1>9, <3>1, CapturedIs DEF c
      <4>2. n + 1 \in 0..(n + 1) /\ q < n + 1
        BY <1>3, <1>22
      <4>3. QED
        BY <1>21, <4>1, <4>2 DEF CheckpointIs
    <3>2. CASE ~due
      BY <1>29, <2>1, <3>2 DEF Explains, Checkpoints, c
    <3>3. QED
      BY <3>1, <3>2
  <2>2. QED
    BY <1>14, <1>23, <1>29, <2>1 DEF Explains, Checkpoints
<1>31. FileHolds(M, p, q)'
  <2>1. Len(file.entries) \in 0..n /\ p \in 0..n /\ q \in 0..n
    BY <1>3, <1>22
  <2>2. QED
    BY <1>14, <1>21, <2>1 DEF Explains, FileHolds
<1>32. ReportIs(M, G)'
  <2>1. ASSUME store.written # None
        PROVE  \E s \in 0..(n + 1) : /\ store.written.named = Identities(Refs(G[s]))
                                     /\ store.written.watermark = G[s].game.next
    <3>1. PICK s \in 0..n : /\ store.written.named = Identities(Refs(H[s]))
                            /\ store.written.watermark = H[s].game.next
      BY <1>2, <2>1 DEF Explains, ReportIs
    <3>2. s \in 0..(n + 1) /\ G[s] = H[s]
      BY <1>3, <1>21
    <3>3. QED
      BY <3>1, <3>2
  <2>2. QED
    BY <1>21, <1>23, <2>1 DEF ReportIs
<1>33. EngineHolds(M, G)'
  <2>1. /\ regions.saved \subseteq Sources(L, n)
        /\ regions.resident \subseteq Known(L, n)
        /\ Refs(H[n]) \subseteq regions.resident \cup file.rows
        /\ \A i \in Claimed : i < H[n].game.next
        /\ \A ref \in Refs(H[n]) : ref.id \in Claimed => ref \in file.rows
    BY <1>1, <1>2 DEF Explains, EngineHolds
  <2>2. Claimed' = Claimed
    BY <1>23, <1>25 DEF Claimed
  <2>3. game' = G[n + 1].game /\ boundaries' = G[n + 1].boundaries
    BY <1>6, <1>17, <1>21
  <2>4. regions'.saved \subseteq Sources(M, n + 1)
    BY <1>21, <1>25, <2>1
  <2>5. regions'.resident \subseteq Known(M, n + 1)
    BY <1>21, <1>24, <1>25, <2>1
  <2>6. ASSUME NEW ref \in Refs(H[n]), ref \in regions.resident PROVE ref \in left
    <3>1. ref.id \in Nat /\ ref.id < H[n].game.next
      <4>1. Legal(L, H) /\ n \in 0..Len(L) /\ ref \in Known(L, n)
        BY <1>2, <2>1, <2>6, Places DEF Explains
      <4>2. QED
        BY <4>1, KnownIs
    <3>2. \A x \in after.made : x.id # ref.id
      BY <1>17, <3>1
    <3>3. QED
      BY <1>24, <2>6, <3>2 DEF Identities
  <2>7. Refs(d) \subseteq left \cup file.rows
    BY <1>17, <1>24, <2>1, <2>6
  <2>8. \A i \in Claimed : i \in Nat
    BY <1>1 DEF Claimed, TypeOK, Holdings, Stores, Reports
  <2>9. \A i \in Claimed : i < d.game.next
    BY <1>17, <2>1, <2>8
  <2>10. ASSUME NEW ref \in Refs(d), ref.id \in Claimed PROVE ref \in file.rows
    <3>1. ref \notin after.made
      BY <1>17, <2>1, <2>8, <2>10
    <3>2. QED
      BY <1>17, <2>1, <2>10, <3>1
  <2>11. QED
    BY <1>14, <1>21, <1>25, <2>2, <2>3, <2>4, <2>5, <2>7, <2>9, <2>10 DEF EngineHolds
<1>34. InputsHold'
  BY <1>14, <1>26 DEF Explains, InputsHold
<1>35. Explains(M, G, p, q)'
  BY <1>21, <1>28, <1>30, <1>31, <1>32, <1>33, <1>34 DEF Explains
<1>36. QED
  BY <1>27, <1>35

-----------------------------------------------------------------------------
(* Replay *)

\* An engine that resumes after k entries: its game is that of the line, and it
\* finds what that refers to.
Resumed(L, H, k, e) ==
  /\ e.valid /\ e.game = H[k].game /\ e.boundaries = H[k].boundaries
  /\ e.regions \in Holdings /\ e.regions.resident \subseteq Known(L, k)
  /\ Refs(H[k]) \subseteq e.regions.resident \cup file.rows
  /\ \A i \in e.regions.durable : \E x \in file.rows : x.id = i

\* What is in memory or in the file is found, and is the record that was meant.
LEMMA FoundIs ==
  ASSUME NEW L, NEW H, Legal(L, H), NEW k \in 0..Len(L),
         NEW resident, resident \subseteq Known(L, k),
         NEW ref \in Known(L, k), ref \in resident \cup file.rows
  PROVE  Finds(resident, ref)
<1>1. CASE Stored(resident, ref)
  <2>1. PICK x \in resident : x.id = ref.id
    BY <1>1 DEF Stored
  <2>2. x = ref
    BY <2>1, Unique
  <2>3. QED
    BY <1>1, <2>1, <2>2 DEF Finds
<1>2. CASE ~Stored(resident, ref)
  <2>1. ref \notin resident
    BY <1>2 DEF Stored
  <2>2. QED
    BY <1>2, <2>1 DEF Finds
<1>3. QED
  BY <1>1, <1>2

\* One entry of a file that is replayed is possible and makes what it made.
LEMMA RedoIs ==
  ASSUME TypeOK, NEW L, NEW H, NEW p, NEW q, Explains(L, H, p, q), status = "down",
         NEW k \in 1..Len(L), NEW e, Resumed(L, H, k - 1, e), NEW d, d = Redo(e, L[k])
  PROVE  Resumed(L, H, k, d)
<1>1. Legal(L, H) /\ Len(L) \in Nat /\ file.sources = Sources(L, Len(L))
  <2>1. p = Len(L)
    BY DEF Explains, Placed
  <2>2. Len(file.entries) = Len(L)
    BY <2>1, Places
  <2>3. QED
    BY <2>2, Places DEF Explains, FileHolds
<1>2. k \in 0..Len(L) /\ k - 1 \in 0..k /\ k - 1 \in 0..Len(L) /\ k \in Nat
  BY <1>1
<1>3. PICK entry : entry = L[k]
  OBVIOUS
<1>4. PICK s : s = H[k - 1]
  OBVIOUS
<1>5. /\ entry \in Entries /\ s \in States /\ entry.made \subseteq Records
      /\ Refs(H[k]) \subseteq Refs(s) \cup entry.made
  BY <1>1, <1>3, <1>4, EntryIs DEF Entries
<1>6. H[k] = Then(s, entry) /\ Fits(s, entry, Sources(L, k))
  BY <1>1, <1>3, <1>4 DEF Legal
<1>7. /\ e.valid /\ e.game = s.game /\ e.boundaries = s.boundaries
      /\ e.regions \in Holdings /\ e.regions.resident \subseteq Known(L, k - 1)
      /\ Refs(s) \subseteq e.regions.resident \cup file.rows
      /\ \A i \in e.regions.durable : \E x \in file.rows : x.id = i
  BY <1>4 DEF Resumed
<1> DEFINE op    == entry.op
           after == Applied(e.game, e.boundaries, op, entry.by)
           built == IF op.kind = "turn" THEN Builds(e.game, op.horizon) ELSE {}
           bs    == RetainLast(Append(e.boundaries,
                                      [sequence |-> entry.sequence, game |-> after.game]))
           needed == NeedFiles(e.regions, built)
<1>8. /\ entry.made = after.made /\ Possible(e.boundaries, op)
      /\ op.kind = "turn" => built \subseteq Sources(L, k)
  BY <1>6, <1>7 DEF Fits
<1>9. op.kind = "turn" =>
        /\ \A ref \in Attaches(e.game, op.horizon) : Finds(e.regions.resident, ref)
        /\ built \subseteq file.sources
  <2>1. SUFFICES ASSUME op.kind = "turn"
                 PROVE  /\ \A ref \in Attaches(e.game, op.horizon) : Finds(e.regions.resident, ref)
                        /\ built \subseteq file.sources
    OBVIOUS
  <2>2. op.horizon \subseteq Regions
    BY <1>5, <2>1, RegionRecordsAssumption DEF Entries, Ops
  <2>3. Attaches(e.game, op.horizon) \subseteq Refs(s)
    BY <1>7, <2>2 DEF Attaches, Refs, Referenced, References
  <2>4. Refs(s) \subseteq Known(L, k - 1)
    BY <1>1, <1>2, <1>4, RefsKnown
  <2>5. ASSUME NEW ref \in Attaches(e.game, op.horizon) PROVE Finds(e.regions.resident, ref)
    <3>1. ref \in Known(L, k - 1) /\ ref \in e.regions.resident \cup file.rows
      BY <1>7, <2>3, <2>4, <2>5
    <3>2. QED
      BY <1>1, <1>2, <1>7, <3>1, FoundIs
  <2>6. Sources(L, k) \subseteq Sources(L, Len(L))
    BY <1>1, <1>2, KnownGrows
  <2>7. QED
    BY <1>1, <1>8, <2>1, <2>5, <2>6
<1>10. op.kind # "turn" => \E b \in Range(e.boundaries) : b.sequence = op.target
  <2>1. op.kind \in {"turn", "rewind"}
    BY <1>5 DEF Entries, Ops
  <2>2. QED
    BY <1>8, <2>1 DEF Possible
<1>11. d = [game |-> after.game, boundaries |-> bs,
            regions |-> [needed EXCEPT !.resident = @ \cup after.made],
            valid |-> after.made = entry.made]
  BY <1>3, <1>7, <1>9, <1>10 DEF Redo
<1>12. H[k] = [game |-> after.game, boundaries |-> bs]
  BY <1>6, <1>7 DEF Then
<1>13. built \subseteq Regions
  <2>1. op.kind = "turn" => op.horizon \subseteq Regions
    BY <1>5, RegionRecordsAssumption DEF Entries, Ops
  <2>2. QED
    BY <2>1, RegionRecordsAssumption DEF Builds
<1> HIDE DEF after, built, bs, op
<1>14. /\ needed \in Holdings /\ needed.resident = e.regions.resident
       /\ needed.durable = e.regions.durable
  BY <1>7, <1>13 DEF NeedFiles, Holdings
<1> HIDE DEF needed
<1>15. PICK held : held = [needed EXCEPT !.resident = @ \cup after.made]
  OBVIOUS
<1>16. /\ held \in Holdings /\ held.resident = e.regions.resident \cup entry.made
       /\ held.durable = e.regions.durable
  BY <1>5, <1>8, <1>14, <1>15 DEF Holdings
<1>17. d.valid /\ d.game = H[k].game /\ d.boundaries = H[k].boundaries /\ d.regions = held
  <2>1. (after.made = entry.made) = TRUE
    BY <1>8
  <2>2. d = [game |-> after.game, boundaries |-> bs, regions |-> held, valid |-> TRUE]
    BY <1>11, <1>15, <2>1, Zenon
  <2>3. d.valid /\ d.game = after.game /\ d.boundaries = bs /\ d.regions = held
    BY <2>2
  <2>4. H[k].game = after.game /\ H[k].boundaries = bs
    BY <1>12
  <2>5. QED
    BY <2>3, <2>4
<1>18. Known(L, k - 1) \subseteq Known(L, k) /\ entry.made \subseteq Known(L, k)
  <2>1. k \in (0 + 1)..k
    BY <1>2
  <2>2. entry.made \subseteq Known(L, k)
    BY <1>3, <2>1 DEF Known, Made
  <2>3. QED
    BY <1>2, <2>2, KnownGrows
<1>19. QED
  BY <1>5, <1>7, <1>16, <1>17, <1>18 DEF Resumed

\* A function that is the engine after each entry of a replay.
Replays(f, start, a) ==
  f[a] = start /\ \A i \in (a + 1)..Len(file.entries) : f[i] = Redo(f[i - 1], file.entries[i])

\* Where the replay begins, and after how many entries.
ReplayStart == IF file.checkpoint = None THEN Initial ELSE Restored(file.checkpoint)
ReplayFrom  == IF file.checkpoint = None THEN 0 ELSE file.checkpoint.sequence

\* A replay ends with what such a function ends with.
LEMMA ReplayIs ==
  ASSUME NEW n \in Nat, n = Len(file.entries), NEW a \in 0..n, a = ReplayFrom
  PROVE  \E f : Replays(f, ReplayStart, a) /\ Replayed = f[n]
<1> DEFINE start == ReplayStart
           Upto(k, f) == f = [i \in a..(a + k) |-> IF i = a THEN start
                                                   ELSE Redo(f[i - 1], file.entries[i])]
           P == {k \in Nat : \E f : Upto(k, f)}
<1>1. a \in Nat
  OBVIOUS
<1> HIDE DEF start
<1>2. 0 \in P
  <2> DEFINE f == [i \in a..(a + 0) |-> start]
  <2>1. \A i \in a..(a + 0) : i = a
    BY <1>1
  <2>2. Upto(0, f)
    BY <2>1
  <2>3. QED
    BY <2>2
<1>3. ASSUME NEW k \in Nat, k \in P PROVE k + 1 \in P
  <2>1. PICK f : Upto(k, f)
    BY <1>3
  <2>2. PICK m : m = a + (k + 1)
    OBVIOUS
  <2>3. m \in Nat /\ m - 1 = a + k /\ m # a /\ m - 1 # m /\ m - 1 \in a..m
    BY <1>1, <2>2
  <2> DEFINE last == Redo(f[m - 1], file.entries[m])
             g == [i \in a..m |-> IF i = m THEN last ELSE f[i]]
  <2>4. ASSUME NEW i \in a..m
        PROVE  g[i] = IF i = a THEN start ELSE Redo(g[i - 1], file.entries[i])
    <3>1. CASE i = m
      <4>1. g[i] = last /\ g[i - 1] = f[m - 1]
        BY <2>3, <3>1
      <4>2. QED
        BY <2>3, <3>1, <4>1
    <3>2. CASE i # m
      <4>1. i \in a..(a + k) /\ (i # a => i - 1 \in a..m /\ i - 1 # m)
        BY <1>1, <2>3, <3>2
      <4>2. g[i] = f[i] /\ (i # a => g[i - 1] = f[i - 1])
        BY <3>2, <4>1
      <4>3. f[i] = IF i = a THEN start ELSE Redo(f[i - 1], file.entries[i])
        BY <2>1, <4>1
      <4>4. QED
        BY <4>2, <4>3
    <3>3. QED
      BY <3>1, <3>2
  <2> HIDE DEF last
  <2>5. Upto(k + 1, g)
    BY <2>2, <2>4
  <2> HIDE DEF g, Upto
  <2>6. QED
    BY <2>5
<1> HIDE DEF P
<1>4. Nat \subseteq P
  BY <1>2, <1>3, NumbersReached
<1>5. n - a \in Nat /\ a + (n - a) = n
  BY <1>1
<1> DEFINE body(f) == [i \in a..n |-> IF i = a THEN start ELSE Redo(f[i - 1], file.entries[i])]
<1>6. \E f : f = body(f)
  BY <1>4, <1>5 DEF P
<1> DEFINE f == CHOOSE f : f = body(f)
<1>7. Replayed = f[n]
  BY DEF Replayed, ReplayFrom, ReplayStart, start
<1>8. f = body(f)
  BY <1>6
<1> HIDE DEF f
<1>9. a \in a..n /\ \A i \in (a + 1)..n : i \in a..n /\ i # a
  BY <1>1
<1>10. f[a] = start /\ \A i \in (a + 1)..n : f[i] = Redo(f[i - 1], file.entries[i])
  BY <1>8, <1>9
<1>11. Replays(f, ReplayStart, a)
  BY <1>10 DEF Replays, start
<1>12. QED
  BY <1>7, <1>11

\* A save that is opened resumes where its line ends.
LEMMA ReplayResumes ==
  ASSUME TypeOK, NEW L, NEW H, NEW p, NEW q, Explains(L, H, p, q), status = "down"
  PROVE  Resumed(L, H, Len(L), Replayed)
<1>1. PICK n : n = Len(L)
  OBVIOUS
<1>2. /\ Legal(L, H) /\ n \in Nat /\ Len(file.entries) = n
      /\ \A i \in 1..n : file.entries[i] = L[i]
  <2>1. p = n
    BY <1>1 DEF Explains, Placed
  <2>2. Len(file.entries) = n
    BY <1>1, <2>1, Places
  <2>3. QED
    BY <1>1, <2>2, Places DEF Explains, Placed
<1>3. PICK a : a = ReplayFrom
  OBVIOUS
<1>4. a \in 0..n /\ Resumed(L, H, a, ReplayStart)
  <2>1. CASE file.checkpoint = None
    <3>1. a = 0 /\ ReplayStart = Initial
      BY <1>3, <2>1 DEF ReplayFrom, ReplayStart
    <3>2. H[0] = First
      BY <1>2 DEF Legal
    <3>3. /\ Initial.valid /\ Initial.game = First.game /\ Initial.boundaries = First.boundaries
          /\ Initial.regions \in Holdings /\ Initial.regions.durable = {}
          /\ Initial.regions.resident = Original /\ Refs(First) \subseteq Original
      BY FirstIs DEF First, Original
    <3>4. Original \subseteq Known(L, 0)
      BY DEF Known
    <3>5. QED
      BY <1>2, <3>1, <3>2, <3>3, <3>4 DEF Resumed
  <2>2. CASE file.checkpoint # None
    <3>1. PICK c : c = file.checkpoint
      OBVIOUS
    <3>2. a = c.sequence /\ ReplayStart = Restored(c)
      BY <1>3, <2>2, <3>1 DEF ReplayFrom, ReplayStart
    <3>3. CheckpointIs(L, H, c) /\ Refs(c) \subseteq file.rows
      BY <2>2, <3>1 DEF Explains, Checkpoints
    <3>4. /\ a \in 0..n /\ c.game = H[a].game /\ c.boundaries = H[a].boundaries
          /\ Refs(c) = Refs(H[a])
      <4>1. c.sequence \in 0..Len(L) /\ Refs(c) = Refs(H[c.sequence])
        BY <3>3, CheckpointRefs
      <4>2. c.game = H[c.sequence].game /\ c.boundaries = H[c.sequence].boundaries
        BY <3>3 DEF CheckpointIs
      <4>3. QED
        BY <1>1, <3>2, <4>1, <4>2
    <3>5. Refs(c) \subseteq Records
      BY <3>4, <1>1, <1>2, RefsType DEF Legal
    <3>6. Identities(Refs(c)) \subseteq Nat
      BY <3>5 DEF Identities, Records
    <3> DEFINE held == [resident |-> {}, saved |-> {}, unsaved |-> {},
                        durable |-> Identities(Refs(c))]
    <3>7. ReplayStart = [game |-> c.game, boundaries |-> c.boundaries, regions |-> held,
                         valid |-> TRUE]
      BY <3>2 DEF Restored, Refs
    <3>8. held \in Holdings /\ held.resident = {} /\ held.durable = Identities(Refs(c))
      BY <3>6 DEF Holdings
    <3>9. \A i \in held.durable : \E x \in file.rows : x.id = i
      BY <3>3, <3>8 DEF Identities
    <3> HIDE DEF held
    <3>10. QED
      BY <3>3, <3>4, <3>7, <3>8, <3>9 DEF Resumed
  <2>3. QED
    BY <2>1, <2>2
<1>5. PICK f : Replays(f, ReplayStart, a) /\ Replayed = f[n]
  BY <1>2, <1>3, <1>4, ReplayIs
<1> DEFINE P == {k \in Nat : a + k <= n => Resumed(L, H, a + k, f[a + k])}
<1>6. a \in Nat
  BY <1>2, <1>4
<1>7. 0 \in P
  BY <1>4, <1>5, <1>6 DEF Replays
<1>8. ASSUME NEW k \in Nat, k \in P PROVE k + 1 \in P
  <2>1. SUFFICES ASSUME a + (k + 1) <= n PROVE Resumed(L, H, a + (k + 1), f[a + (k + 1)])
    OBVIOUS
  <2>2. PICK i : i = a + (k + 1)
    OBVIOUS
  <2>3. i \in (a + 1)..n /\ i \in 1..n /\ i - 1 = a + k /\ a + k <= n
    BY <1>2, <1>6, <2>1, <2>2
  <2>4. Resumed(L, H, i - 1, f[i - 1])
    BY <1>8, <2>3
  <2>5. f[i] = Redo(f[i - 1], L[i])
    BY <1>2, <1>5, <2>3 DEF Replays
  <2>6. Resumed(L, H, i, f[i])
    BY <1>1, <2>3, <2>4, <2>5, RedoIs
  <2>7. QED
    BY <2>2, <2>6
<1> HIDE DEF P
<1>9. Nat \subseteq P
  BY <1>7, <1>8, NumbersReached
<1>10. n - a \in P /\ a + (n - a) = n
  BY <1>2, <1>4, <1>6, <1>9
<1>11. Resumed(L, H, n, f[n])
  BY <1>2, <1>10 DEF P
<1>12. QED
  BY <1>1, <1>5, <1>11

\* The save is opened again.
LEMMA ReopenStep ==
  ASSUME TypeOK, NEW L, NEW H, NEW p, NEW q, Explains(L, H, p, q), Reopen
  PROVE  TypeOK' /\ Explains(L, H, p, q)'
<1>1. PICK n : n = Len(L)
  OBVIOUS
<1>2. PICK e : e = Replayed
  OBVIOUS
<1>3. PICK held : held = [e.regions EXCEPT !.saved = file.sources, !.unsaved = @ \ file.sources]
  OBVIOUS
<1>4. /\ status = "down" /\ opening' = opening + 1
      /\ status' = IF e.valid THEN "up" ELSE "refused"
      /\ game' = e.game /\ boundaries' = e.boundaries /\ regions' = held
      /\ store' = OpenedStore /\ inputs' = OpenedInputs
      /\ UNCHANGED <<command, worker, file>>
  BY <1>2, <1>3 DEF Reopen
<1>5. Resumed(L, H, n, e)
  BY <1>1, <1>2, <1>4, ReplayResumes
<1>6. /\ command = "none" /\ worker.stage = "idle" /\ p = n /\ q = n /\ n \in Nat
      /\ Len(file.entries) = n
  <2>1. command = "none" /\ worker.stage = "idle" /\ p = n
    BY <1>1, <1>4 DEF Explains, Placed
  <2>2. QED
    BY <1>1, <2>1, Places
<1>7. /\ e.valid /\ e.game = H[n].game /\ e.boundaries = H[n].boundaries
      /\ e.regions \in Holdings /\ e.regions.resident \subseteq Known(L, n)
      /\ Refs(H[n]) \subseteq e.regions.resident \cup file.rows
      /\ \A i \in e.regions.durable : \E x \in file.rows : x.id = i
  BY <1>5 DEF Resumed
<1>8. file.sources = Sources(L, n) /\ file.sources \subseteq Regions
  BY <1>6 DEF Explains, FileHolds, TypeOK, Files
<1>9. /\ held \in Holdings /\ held.resident = e.regions.resident
      /\ held.durable = e.regions.durable /\ held.saved = file.sources
  BY <1>3, <1>7, <1>8 DEF Holdings
<1>10. TypeOK'
  <2>1. H[n] \in States /\ opening + 1 \in Nat
    BY <1>1, Places DEF TypeOK
  <2>2. H[n].game \in Games /\ H[n].boundaries \in Seq(Bounds)
    BY <2>1 DEF States
  <2>3. QED
    BY <1>4, <1>7, <1>9, <2>1, <2>2, OpenedIs DEF TypeOK
<1>11. Placed(L, p, q)'
  <2>1. Part(<<>>, L, n, n)
    BY <1>6 DEF Part
  <2>2. QED
    BY <1>1, <1>4, <1>6, <1>7, <2>1, OpenedIs DEF Explains, Placed
<1>12. Checkpoints(L, H, p, q)'
  BY <1>4, <1>6, OpenedIs DEF Explains, Checkpoints
<1>13. FileHolds(L, p, q)'
  BY <1>4 DEF Explains, FileHolds
<1>14. InputsHold' /\ ReportIs(L, H)'
  BY <1>4, OpenedIs DEF InputsHold, ReportIs
<1>15. EngineHolds(L, H)'
  <2>1. Claimed' = e.regions.durable \cup Identities(file.rows)
    BY <1>4, <1>9, OpenedIs DEF Claimed
  <2>2. \A i \in Claimed' : \E x \in file.rows : x.id = i
    BY <1>7, <2>1 DEF Identities
  <2>3. /\ Legal(L, H) /\ n \in 0..Len(L) /\ file.rows \subseteq Known(L, n)
        /\ Refs(H[n]) \subseteq Known(L, n)
    BY <1>1, Places DEF Explains
  <2>4. \A i \in Claimed' : i < H[n].game.next
    BY <2>2, <2>3, KnownIs
  <2>5. ASSUME NEW ref \in Refs(H[n]), ref.id \in Claimed' PROVE ref \in file.rows
    <3>1. PICK x \in file.rows : x.id = ref.id
      BY <2>2, <2>5
    <3>2. x = ref
      BY <2>3, <3>1, Unique
    <3>3. QED
      BY <3>1, <3>2
  <2>6. QED
    BY <1>1, <1>4, <1>7, <1>8, <1>9, <2>4, <2>5 DEF EngineHolds
<1>16. Legal(L, H)
  BY DEF Explains
<1>17. QED
  BY <1>10, <1>11, <1>12, <1>13, <1>14, <1>15, <1>16 DEF Explains

-----------------------------------------------------------------------------
(* The theorems *)

\* Nothing changes.
LEMMA StutterStep ==
  ASSUME TypeOK, NEW L, NEW H, NEW p, NEW q, Explains(L, H, p, q), UNCHANGED vars
  PROVE  TypeOK' /\ Explains(L, H, p, q)'
<1>1. UNCHANGED <<game, boundaries, regions, command, store, inputs, worker, file, status, opening>>
  BY DEF vars
<1>2. TypeOK'
  BY <1>1 DEF TypeOK
<1>3. Placed(L, p, q)' /\ Checkpoints(L, H, p, q)' /\ FileHolds(L, p, q)' /\ InputsHold'
  BY <1>1 DEF Explains, Placed, Checkpoints, FileHolds, InputsHold
<1>4. ReportIs(L, H)' /\ EngineHolds(L, H)'
  BY <1>1 DEF Explains, ReportIs, EngineHolds, Claimed
<1>5. QED
  BY <1>2, <1>3, <1>4 DEF Explains

\* Every step keeps the invariant.
LEMMA IInvStep ==
  ASSUME IInv, [Next]_vars
  PROVE  IInv'
<1>1. TypeOK
  BY DEF IInv
<1>2. PICK L, H, p, q : Explains(L, H, p, q)
  BY DEF IInv
<1>3. SUFFICES TypeOK' /\ \E M, G, r, s : Explains(M, G, r, s)'
  BY DEF IInv
<1>4. CASE TakeWritten
  BY <1>1, <1>2, <1>4, TakeWrittenStep
<1>5. CASE TakeAppended
  BY <1>1, <1>2, <1>5, TakeAppendedStep
<1>6. CASE Execute
  BY <1>1, <1>2, <1>6, ExecuteStep
<1>7. CASE Refuse
  BY <1>1, <1>2, <1>7, RefuseStep
<1>8. CASE Drain
  BY <1>1, <1>2, <1>8, DrainStep
<1>9. CASE Commit
  BY <1>1, <1>2, <1>9, CommitStep
<1>10. CASE Report
  BY <1>1, <1>2, <1>10, ReportStep
<1>11. CASE ReportFailure
  BY <1>1, <1>2, <1>11, ReportFailureStep
<1>12. CASE RequestFlush
  BY <1>1, <1>2, <1>12, RequestFlushStep
<1>13. CASE Crash
  BY <1>1, <1>2, <1>13, CrashStep
<1>14. CASE Reopen
  BY <1>1, <1>2, <1>14, ReopenStep
<1>15. CASE UNCHANGED vars
  BY <1>1, <1>2, <1>15, StutterStep
<1>16. QED
  BY <1>4, <1>5, <1>6, <1>7, <1>8, <1>9, <1>10, <1>11, <1>12, <1>13, <1>14, <1>15 DEF Next

\* The invariant holds of every behaviour.
LEMMA Invariant == Spec => []IInv
<1>1. Init => IInv
  BY InitHolds
<1>2. IInv /\ [Next]_vars => IInv'
  BY IInvStep
<1>3. QED
  BY <1>1, <1>2, PTL DEF Spec

\* The variables have their types: among the rest, what a replay rebuilds is a
\* game, and every identity is a number (Engine::replay, DiskCheckpoint::restore).
THEOREM TypeCorrect == Spec => []TypeOK
<1>1. IInv => TypeOK
  BY DEF IInv
<1>2. QED
  BY <1>1, Invariant, PTL

\* At every moment of every thread, each record that the game or a boundary
\* refers to is in memory or in the file, and it is the one that was meant
\* (Regions::written, appended; commit_batch; continue_record_ids).
THEOREM Reachable == Spec => []RecordsReachable
<1>1. IInv => RecordsReachable
  <2>1. SUFFICES ASSUME IInv, status = "up", NEW ref \in Referenced(game, boundaries)
                 PROVE  Finds(regions.resident, ref)
    BY DEF RecordsReachable
  <2>2. TypeOK
    BY <2>1 DEF IInv
  <2>3. PICK L, H, p, q : Explains(L, H, p, q)
    BY <2>1 DEF IInv
  <2>4. PICK n : n = Len(L)
    OBVIOUS
  <2>5. /\ game = H[n].game /\ boundaries = H[n].boundaries
        /\ regions.resident \subseteq Known(L, n)
        /\ Refs(H[n]) \subseteq regions.resident \cup file.rows
    BY <2>1, <2>3, <2>4 DEF Explains, EngineHolds
  <2>6. Legal(L, H) /\ n \in 0..Len(L) /\ Refs(H[n]) \subseteq Known(L, n)
    BY <2>2, <2>3, <2>4, Places DEF Explains
  <2>7. ref \in Refs(H[n])
    BY <2>1, <2>5 DEF Refs
  <2>8. ref \in Known(L, n) /\ ref \in regions.resident \cup file.rows
    BY <2>5, <2>6, <2>7
  <2>9. QED
    BY <2>5, <2>6, <2>8, FoundIs
<1>2. QED
  BY <1>1, Invariant, PTL

\* What is accepted can be saved, by no batch with another content of a stored
\* row, and whenever the process ends its file opens (commit_batch,
\* write_region_rows, Engine::replay, mark_saved).
THEOREM Restores == Spec => []SaveRestores
<1>1. IInv => SaveRestores
  <2>1. SUFFICES ASSUME IInv PROVE SaveRestores
    OBVIOUS
  <2>2. TypeOK
    BY <2>1 DEF IInv
  <2>3. PICK L, H, p, q : Explains(L, H, p, q)
    BY <2>1 DEF IInv
  <2>4. RowsNeverConflict
    <3>1. SUFFICES ASSUME worker.stage = "writing",
                          NEW row \in NewRows(worker.batch, worker.checkpoint),
                          NEW old \in file.rows \cup NewRows(worker.batch, worker.checkpoint),
                          row.id = old.id
                   PROVE  row = old
      BY DEF RowsNeverConflict, Conflict
    <3>2. row \in Known(L, q) /\ old \in Known(L, q)
      BY <2>2, <2>3, <3>1, BatchIs
    <3>3. Legal(L, H) /\ q \in 0..Len(L)
      BY <2>3 DEF Explains, Placed
    <3>4. QED
      BY <3>1, <3>2, <3>3, Unique
  <2>5. status # "refused"
    BY <2>3 DEF Explains, Placed
  <2>6. file.checkpoint # None => Refs(file.checkpoint) \subseteq file.rows
    BY <2>3 DEF Explains, Checkpoints
  <2>7. QED
    BY <2>4, <2>5, <2>6 DEF SaveRestores, Refs
<1>2. QED
  BY <1>1, Invariant, PTL

\* An input that the save has accepted can be read by any thread: it is pending
\* or in the file (SourceReader::read, InputOwnership).
THEOREM Readable == Spec => []InputsReadable
<1>1. IInv => InputsReadable
  BY DEF IInv, Explains, InputsHold, InputsReadable
<1>2. QED
  BY <1>1, Invariant, PTL
=============================================================================
