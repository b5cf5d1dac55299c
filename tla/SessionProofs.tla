--------------------------- MODULE SessionProofs ---------------------------
(***************************************************************************)
(* Proofs about the session service: work is executed only under the lease *)
(* it was queued under, and never while a pause is owed; no client is sent *)
(* an update of a new branch before its snapshot of it; and when a request *)
(* has been handled every client knows its readiness and how its actor's   *)
(* journey stands.                                                         *)
(*                                                                         *)
(* The inductive invariant is about the call stack.  Stacked says what a   *)
(* statement still to be run may rely on, although any send before it may  *)
(* disconnect clients, release control and stop journeys: each kind of     *)
(* frame carries the condition under which it was pushed, and every step   *)
(* is shown to keep the conditions of the frames below it.  Leased relates *)
(* the lease of every actor's work to who controls the actor, to the       *)
(* pauses owed and to its journey.  ResetPending, kept by the same steps,  *)
(* says where in the stack the reset of the streams is that a client       *)
(* without a snapshot waits for.                                           *)
(*                                                                         *)
(* What clients know rests on what the stack still holds: Published says   *)
(* which refresh of readiness is still to come, and what a pass of it that *)
(* nothing interrupted has seen; Told says which frame will tell a client  *)
(* of a journey it was not told of, and Broadcasting that there is one     *)
(* round of such sends at most, so that a journey stopped in the middle of *)
(* its own round, which is not told of again at once, is told of by that   *)
(* round when it ends.                                                     *)
(*                                                                         *)
(* First come lemmas about what the model is built from: the call stack of *)
(* the running handler, the lowest of a set of clients, and sets listed in *)
(* some order.                                                             *)
(***************************************************************************)
EXTENDS Session, Integers, FiniteSetTheorems, SequenceTheorems, WellFoundedInduction, TLAPS

-----------------------------------------------------------------------------
(* The call stack *)

\* Frames that run as soon as they are pushed, and so are only on top.
Tops == {"execute", "walk", "snapshot"}

\* Statements of a handler behind which only its end is left, and the frames
\* of that end.
Lasts == {"choose", "execute", "acquire"}
Ends  == {"refresh", "refreshing", "fewer", "reply"}

\* What may lie under a frame.
Below(f, r) ==
  \A g \in ToSet(r) : /\ g.do \notin Tops
                      /\ f.do \in Lasts => g.do \in {"refresh", "reply"}
                      /\ f.do \in Ends => g.do = "reply"

Structured(s) ==
  /\ s \in Seq(ToSet(s))
  /\ \A i, j \in 1..Len(s) : i < j =>
       /\ s[j].do \notin Tops
       /\ s[i].do \in Lasts => s[j].do \in {"refresh", "reply"}
       /\ s[i].do \in Ends => s[j].do = "reply"

\* A frame that may lie anywhere.
Plain(f) == f.do \notin Tops \cup Lasts \cup Ends

NoTops(r) == \A g \in ToSet(r) : g.do \notin Tops

\* Nothing is a stack.
LEMMA EmptyStack == Structured(<<>>) /\ ToSet(<<>>) = {}
<1>1. ToSet(<<>>) = {}
  BY DEF ToSet
<1>2. QED
  BY <1>1 DEF Structured

\* What is under the head of a stack is a stack.
LEMMA UnderHead ==
  ASSUME NEW s, Structured(s), s # <<>>
  PROVE  /\ Structured(Tail(s)) /\ ToSet(s) = {Head(s)} \cup ToSet(Tail(s))
         /\ Below(Head(s), Tail(s)) /\ NoTops(Tail(s))
<1> DEFINE S == ToSet(s)
           r == Tail(s)
           n == Len(s)
<1>1. s \in Seq(S) /\ n \in Nat /\ n > 0 /\ s = [i \in 1..n |-> s[i]]
      /\ DOMAIN s = 1..n
  BY LenProperties, EmptySeq DEF Structured
<1>2. /\ r \in Seq(S) /\ Len(r) = n - 1 /\ Head(s) = s[1]
      /\ \A i \in 1..(n - 1) : r[i] = s[i + 1]
      /\ DOMAIN r = 1..(n - 1)
  BY <1>1, HeadTailProperties, LenProperties
<1>3. ToSet(s) = {s[i] : i \in 1..n} /\ ToSet(r) = {r[i] : i \in 1..(n - 1)}
  BY <1>1, <1>2 DEF ToSet
<1>4. ToSet(s) = {Head(s)} \cup ToSet(r)
  <2>1. ASSUME NEW i \in 1..n PROVE s[i] = s[1] \/ s[i] \in {r[j] : j \in 1..(n - 1)}
    <3>1. CASE i = 1
      BY <3>1
    <3>2. CASE i # 1
      <4>1. i - 1 \in 1..(n - 1) /\ (i - 1) + 1 = i
        BY <1>1, <3>2
      <4>2. r[i - 1] = s[i]
        BY <1>2, <4>1
      <4>3. QED
        BY <4>1, <4>2
    <3>3. QED
      BY <3>1, <3>2
  <2>2. ASSUME NEW j \in 1..(n - 1) PROVE r[j] \in {s[i] : i \in 1..n}
    <3>1. j + 1 \in 1..n
      BY <1>1
    <3>2. QED
      BY <1>2, <3>1
  <2>3. s[1] \in {s[i] : i \in 1..n}
    BY <1>1
  <2>4. QED
    BY <1>2, <1>3, <2>1, <2>2, <2>3
<1>5. r \in Seq(ToSet(r))
  <2>1. \A i \in 1..Len(r) : r[i] \in ToSet(r)
    BY <1>2, <1>3
  <2>2. r \in [1..Len(r) -> ToSet(r)]
    BY <1>2, <2>1, LenProperties
  <2>3. Len(r) \in Nat
    BY <1>1, <1>2
  <2>4. QED
    BY <2>2, <2>3, SeqDef
<1>6. Structured(r)
  <2> SUFFICES ASSUME NEW i \in 1..Len(r), NEW j \in 1..Len(r), i < j
               PROVE  /\ r[j].do \notin Tops
                      /\ r[i].do \in Lasts => r[j].do \in {"refresh", "reply"}
                      /\ r[i].do \in Ends => r[j].do = "reply"
    BY <1>5 DEF Structured
  <2>1. i + 1 \in 1..n /\ j + 1 \in 1..n /\ i + 1 < j + 1
    BY <1>1, <1>2
  <2>2. r[i] = s[i + 1] /\ r[j] = s[j + 1]
    BY <1>2
  <2>3. QED
    BY <2>1, <2>2 DEF Structured
<1>7. Below(Head(s), r) /\ NoTops(r)
  <2>1. ASSUME NEW j \in 1..(n - 1)
        PROVE  /\ r[j].do \notin Tops
               /\ s[1].do \in Lasts => r[j].do \in {"refresh", "reply"}
               /\ s[1].do \in Ends => r[j].do = "reply"
    <3>1. 1 \in 1..n /\ j + 1 \in 1..n /\ 1 < j + 1
      BY <1>1
    <3>2. QED
      BY <1>2, <3>1 DEF Structured
  <2>2. QED
    BY <1>2, <1>3, <2>1 DEF Below, NoTops
<1>8. QED
  BY <1>4, <1>6, <1>7

\* A frame pushed on a stack it may lie on.
LEMMA Pushed ==
  ASSUME NEW f, NEW r, Structured(r), Below(f, r)
  PROVE  /\ Structured(<<f>> \o r) /\ ToSet(<<f>> \o r) = {f} \cup ToSet(r)
         /\ <<f>> \o r # <<>> /\ Head(<<f>> \o r) = f /\ Tail(<<f>> \o r) = r
<1> DEFINE s == <<f>> \o r
           S == {f} \cup ToSet(r)
           n == Len(r)
<1>1. r \in Seq(S) /\ <<f>> \in Seq(S) /\ Len(<<f>>) = 1 /\ <<f>>[1] = f /\ n \in Nat
      /\ DOMAIN r = 1..n
  BY LenProperties DEF Structured
<1>2. /\ s \in Seq(S) /\ Len(s) = n + 1 /\ s[1] = f
      /\ \A j \in 1..n : s[j + 1] = r[j]
  <2>1. /\ s \in Seq(S) /\ Len(s) = Len(<<f>>) + Len(r)
        /\ \A i \in 1..(Len(<<f>>) + Len(r)) :
             s[i] = IF i <= Len(<<f>>) THEN <<f>>[i] ELSE r[i - Len(<<f>>)]
    BY <1>1, ConcatProperties
  <2>2. 1 \in 1..(1 + n) /\ \A j \in 1..n : j + 1 \in 1..(1 + n) /\ ~(j + 1 <= 1) /\ (j + 1) - 1 = j
    BY <1>1
  <2>3. Len(s) = 1 + n /\ 1 + n = n + 1
    BY <1>1, <2>1
  <2>4. s[1] = f
    BY <1>1, <2>1, <2>2
  <2>5. ASSUME NEW j \in 1..n PROVE s[j + 1] = r[j]
    BY <1>1, <2>1, <2>2
  <2>6. QED
    BY <2>1, <2>3, <2>4, <2>5
<1> HIDE DEF s, n
<1>3. DOMAIN s = 1..(n + 1) /\ s # <<>>
  BY <1>1, <1>2, LenProperties, EmptySeq
<1>4. \A i \in 1..(n + 1) : i = 1 \/ (i - 1 \in 1..n /\ s[i] = r[i - 1])
  <2> SUFFICES ASSUME NEW i \in 1..(n + 1), i # 1 PROVE i - 1 \in 1..n /\ s[i] = r[i - 1]
    OBVIOUS
  <2>1. i - 1 \in 1..n /\ (i - 1) + 1 = i
    BY <1>1
  <2>2. QED
    BY <1>2, <2>1
<1>5. ToSet(r) = {r[j] : j \in 1..n}
  BY <1>1 DEF ToSet
<1>6. ToSet(s) = S
  <2>1. ToSet(s) = {s[i] : i \in 1..(n + 1)}
    BY <1>3 DEF ToSet
  <2>2. \A j \in 1..n : j + 1 \in 1..(n + 1)
    BY <1>1
  <2>3. 1 \in 1..(n + 1)
    BY <1>1
  <2>4. \A j \in 1..n : r[j] \in ToSet(s)
    BY <1>2, <2>1, <2>2
  <2>5. \A i \in 1..(n + 1) : s[i] \in S
    BY <1>2, <1>4, <1>5
  <2>6. QED
    BY <1>2, <1>5, <2>1, <2>3, <2>4, <2>5
<1>7. Structured(s)
  <2> SUFFICES ASSUME NEW i \in 1..(n + 1), NEW j \in 1..(n + 1), i < j
               PROVE  /\ s[j].do \notin Tops
                      /\ s[i].do \in Lasts => s[j].do \in {"refresh", "reply"}
                      /\ s[i].do \in Ends => s[j].do = "reply"
    BY <1>2, <1>6 DEF Structured
  <2>1. j - 1 \in 1..n /\ s[j] = r[j - 1]
    <3>1. j # 1
      BY <1>1
    <3>2. QED
      BY <1>4, <3>1
  <2>2. CASE i = 1
    BY <1>2, <1>5, <2>1, <2>2 DEF Below
  <2>3. CASE i # 1
    <3>1. i - 1 \in 1..n /\ s[i] = r[i - 1] /\ i - 1 < j - 1
      BY <1>1, <1>4, <2>3
    <3>2. QED
      BY <2>1, <3>1 DEF Structured, n
  <2>4. QED
    BY <2>2, <2>3
<1>8. Head(s) = f /\ Tail(s) = r
  <2>1. /\ Head(s) = s[1] /\ Tail(s) \in Seq(S) /\ Len(Tail(s)) = Len(s) - 1
        /\ \A i \in 1..Len(Tail(s)) : Tail(s)[i] = s[i + 1]
    BY <1>2, <1>3, HeadTailProperties
  <2>2. Len(Tail(s)) = n
    BY <1>1, <1>2, <2>1
  <2>3. \A i \in 1..n : Tail(s)[i] = r[i]
    BY <1>2, <2>1, <2>2
  <2>4. Tail(s) = r
    BY <1>1, <2>1, <2>2, <2>3, SeqEqual DEF n
  <2>5. QED
    BY <1>2, <2>1, <2>4
<1>9. QED
  BY <1>3, <1>6, <1>7, <1>8 DEF s

\* A stack of frames that may lie anywhere, put on another one.
LEMMA ManyPushed ==
  ASSUME NEW p, p \in Seq(ToSet(p)), \A f \in ToSet(p) : Plain(f),
         NEW r, Structured(r), NoTops(r)
  PROVE  /\ Structured(p \o r) /\ ToSet(p \o r) = ToSet(p) \cup ToSet(r)
         /\ NoTops(p \o r)
<1> DEFINE s == p \o r
           S == ToSet(p) \cup ToSet(r)
           m == Len(p)
           n == Len(r)
<1>1. /\ p \in Seq(S) /\ r \in Seq(S) /\ m \in Nat /\ n \in Nat
      /\ DOMAIN p = 1..m /\ DOMAIN r = 1..n
  BY LenProperties DEF Structured
<1>2. /\ s \in Seq(S) /\ Len(s) = m + n
      /\ \A i \in 1..(m + n) : s[i] = IF i <= m THEN p[i] ELSE r[i - m]
  BY <1>1, ConcatProperties
<1> HIDE DEF s, m, n
<1>3. DOMAIN s = 1..(m + n)
  BY <1>2, LenProperties
<1>4. \A i \in 1..(m + n) : \/ (i \in 1..m /\ s[i] = p[i])
                             \/ (~(i \in 1..m) /\ i - m \in 1..n /\ s[i] = r[i - m])
  <2> TAKE i \in 1..(m + n)
  <2>1. CASE i <= m
    <3>1. i \in 1..m
      BY <1>1, <2>1
    <3>2. QED
      BY <1>2, <2>1, <3>1
  <2>2. CASE ~(i <= m)
    <3>1. ~(i \in 1..m) /\ i - m \in 1..n
      <4>1. m \in Nat /\ n \in Nat
        BY <1>1
      <4>2. i \in Int /\ i <= m + n /\ i > m
        BY <2>2, <4>1
      <4>3. QED
        BY <4>1, <4>2
    <3>2. QED
      BY <1>2, <2>2, <3>1
  <2>3. QED
    BY <2>1, <2>2
<1>5. /\ ToSet(p) = {p[i] : i \in 1..m} /\ ToSet(r) = {r[j] : j \in 1..n}
      /\ ToSet(s) = {s[i] : i \in 1..(m + n)}
  BY <1>1, <1>3 DEF ToSet
<1>6. ToSet(s) = S
  <2>1. \A i \in 1..(m + n) : s[i] \in S
    BY <1>4, <1>5
  <2>2. \A i \in 1..m : i \in 1..(m + n) /\ s[i] = p[i]
    BY <1>1, <1>2
  <2>3. ASSUME NEW j \in 1..n PROVE j + m \in 1..(m + n) /\ s[j + m] = r[j]
    <3>1. j + m \in 1..(m + n) /\ ~(j + m <= m) /\ (j + m) - m = j
      BY <1>1
    <3>2. QED
      BY <1>2, <3>1
  <2>4. QED
    BY <1>5, <2>1, <2>2, <2>3
<1>7. Structured(s)
  <2> SUFFICES ASSUME NEW i \in 1..(m + n), NEW j \in 1..(m + n), i < j
               PROVE  /\ s[j].do \notin Tops
                      /\ s[i].do \in Lasts => s[j].do \in {"refresh", "reply"}
                      /\ s[i].do \in Ends => s[j].do = "reply"
    BY <1>2, <1>6, SMTT(30) DEF Structured
  <2>1. CASE i \in 1..m
    <3>1. Plain(s[i])
      BY <1>4, <1>5, <2>1
    <3>2. s[j].do \notin Tops
      BY <1>4, <1>5 DEF Plain, NoTops
    <3>3. QED
      BY <3>1, <3>2 DEF Plain
  <2>2. CASE ~(i \in 1..m)
    <3>1. ~(j \in 1..m)
      BY <1>1, <2>2
    <3>2. /\ i - m \in 1..n /\ s[i] = r[i - m] /\ j - m \in 1..n /\ s[j] = r[j - m]
      BY <1>4, <2>2, <3>1
    <3>3. i - m < j - m
      BY <1>1
    <3>4. QED
      BY <3>2, <3>3 DEF Structured, n
  <2>3. QED
    BY <2>1, <2>2
<1>8. NoTops(s)
  BY <1>6 DEF Plain, NoTops
<1>9. QED
  BY <1>6, <1>7, <1>8 DEF s

\* An answer owed after everything else.
LEMMA ReplyAppended ==
  ASSUME NEW g, g.do = "reply", NEW r, Structured(r), NoTops(r)
  PROVE  /\ Structured(Append(r, g)) /\ ToSet(Append(r, g)) = ToSet(r) \cup {g}
         /\ NoTops(Append(r, g)) /\ Append(r, g) # <<>>
<1> DEFINE s == Append(r, g)
           S == ToSet(r) \cup {g}
           n == Len(r)
<1>1. r \in Seq(S) /\ n \in Nat /\ DOMAIN r = 1..n
  BY LenProperties DEF Structured
<1>2. /\ s \in Seq(S) /\ Len(s) = n + 1 /\ s[n + 1] = g /\ s # <<>>
      /\ \A i \in 1..n : s[i] = r[i]
  BY <1>1, AppendProperties
<1> HIDE DEF s, n
<1>3. DOMAIN s = 1..(n + 1)
  BY <1>2, LenProperties
<1>4. \A i \in 1..(n + 1) : i = n + 1 \/ (i \in 1..n /\ s[i] = r[i])
  BY <1>1, <1>2
<1>5. /\ ToSet(r) = {r[j] : j \in 1..n} /\ ToSet(s) = {s[i] : i \in 1..(n + 1)}
  BY <1>1, <1>3 DEF ToSet
<1>6. ToSet(s) = S
  <2>1. \A i \in 1..n : i \in 1..(n + 1)
    BY <1>1
  <2>2. n + 1 \in 1..(n + 1)
    BY <1>1
  <2>3. \A i \in 1..(n + 1) : s[i] \in S
    BY <1>2, <1>4, <1>5
  <2>4. QED
    BY <1>2, <1>5, <2>1, <2>2, <2>3
<1>7. Structured(s)
  <2> SUFFICES ASSUME NEW i \in 1..(n + 1), NEW j \in 1..(n + 1), i < j
               PROVE  /\ s[j].do \notin Tops
                      /\ s[i].do \in Lasts => s[j].do \in {"refresh", "reply"}
                      /\ s[i].do \in Ends => s[j].do = "reply"
    BY <1>2, <1>6 DEF Structured
  <2>1. CASE j = n + 1
    BY <1>2, <2>1 DEF Tops
  <2>2. CASE j # n + 1
    <3>1. i \in 1..n /\ j \in 1..n
      BY <1>1, <2>2
    <3>2. s[i] = r[i] /\ s[j] = r[j]
      BY <1>2, <3>1
    <3>3. QED
      BY <3>1, <3>2 DEF Structured, n
  <2>3. QED
    BY <2>1, <2>2
<1>8. NoTops(s)
  BY <1>6 DEF NoTops, Tops
<1>9. QED
  BY <1>2, <1>6, <1>7, <1>8 DEF s

\* Two frames written out.
LEMMA PairWritten ==
  ASSUME NEW f, NEW g
  PROVE  <<f>> \o <<g>> = <<f, g>>
<1> DEFINE S == {f, g}
           t == <<f>> \o <<g>>
           u == <<f, g>>
<1>1. t \in Seq(S) /\ Len(t) = 2 /\ t[1] = f /\ t[2] = g
  <2>1. <<f>> \in Seq(S) /\ <<g>> \in Seq(S) /\ Len(<<f>>) = 1 /\ Len(<<g>>) = 1
        /\ <<f>>[1] = f /\ <<g>>[1] = g
    OBVIOUS
  <2>2. \A i \in 1..2 : t[i] = IF i <= 1 THEN <<f>>[i] ELSE <<g>>[i - 1]
    BY <2>1, ConcatProperties
  <2>3. t \in Seq(S) /\ Len(t) = 2
    BY <2>1, ConcatProperties
  <2>4. QED
    BY <2>1, <2>2, <2>3
<1>2. u \in Seq(S) /\ Len(u) = 2 /\ u[1] = f /\ u[2] = g
  OBVIOUS
<1> HIDE DEF t, u
<1>3. \A i \in 1..2 : i = 1 \/ i = 2
  OBVIOUS
<1>4. t = u
  BY <1>1, <1>2, <1>3, SeqEqual
<1>5. QED
  BY <1>4 DEF t, u

\* Nothing pushed.
LEMMA NothingPushed ==
  ASSUME NEW r, r \in Seq(ToSet(r))
  PROVE  <<>> \o r = r
  BY ConcatEmptySeq

\* One stack pushed with another.
LEMMA PushedInTurn ==
  ASSUME NEW r, r \in Seq(ToSet(r)), NEW p, p \in Seq(ToSet(p)), NEW q, q \in Seq(ToSet(q))
  PROVE  (p \o q) \o r = p \o (q \o r)
<1> DEFINE S == ToSet(r) \cup ToSet(p) \cup ToSet(q)
<1>1. r \in Seq(S) /\ p \in Seq(S) /\ q \in Seq(S)
  OBVIOUS
<1> HIDE DEF S
<1>2. QED
  BY <1>1, ConcatAssociative

\* One frame pushed with another.
LEMMA PushedOneOne ==
  ASSUME NEW r, r \in Seq(ToSet(r)), NEW f, NEW g
  PROVE  (<<f>> \o <<g>>) \o r = <<f>> \o (<<g>> \o r)
<1>1. <<f>> \in Seq(ToSet(<<f>>)) /\ <<g>> \in Seq(ToSet(<<g>>))
  BY DEF ToSet
<1>2. QED
  BY <1>1, PushedInTurn

\* Two frames pushed together.
LEMMA PushedTwo ==
  ASSUME NEW r, r \in Seq(ToSet(r)), NEW f, NEW g
  PROVE  <<f, g>> \o r = <<f>> \o (<<g>> \o r)
<1>1. (<<f>> \o <<g>>) \o r = <<f>> \o (<<g>> \o r)
  BY PushedOneOne
<1>2. <<f>> \o <<g>> = <<f, g>>
  BY PairWritten
<1>3. QED
  BY <1>1, <1>2, Zenon

\* A sequence is one of its own elements.
LEMMA SeqOfOwn ==
  ASSUME NEW S, NEW s \in Seq(S)
  PROVE  s \in Seq(ToSet(s))
<1>1. DOMAIN s = 1..Len(s) /\ Len(s) \in Nat /\ s = [i \in 1..Len(s) |-> s[i]]
  BY LenProperties
<1>2. \A i \in 1..Len(s) : s[i] \in ToSet(s)
  BY <1>1 DEF ToSet
<1>3. s \in [1..Len(s) -> ToSet(s)]
  BY <1>1, <1>2
<1>4. QED
  BY <1>1, <1>3, SeqDef

\* Two frames pushed with a third.
LEMMA PushedThree ==
  ASSUME NEW r, r \in Seq(ToSet(r)), NEW f, NEW g, NEW h
  PROVE  (<<f, g>> \o <<h>>) \o r = <<f>> \o (<<g>> \o (<<h>> \o r))
<1>1. /\ <<f, g>> \in Seq(ToSet(<<f, g>>)) /\ <<h>> \in Seq(ToSet(<<h>>))
  BY DEF ToSet
<1>2. (<<f, g>> \o <<h>>) \o r = <<f, g>> \o (<<h>> \o r)
  BY <1>1, PushedInTurn
<1>3. <<h>> \o r \in Seq(ToSet(<<h>> \o r))
  <2> DEFINE s == <<h>> \o r
             S == ToSet(r) \cup {h}
  <2>1. s \in Seq(S)
    BY ConcatProperties
  <2> HIDE DEF s
  <2>2. QED
    BY <2>1, SeqOfOwn DEF s
<1>4. QED
  BY <1>2, <1>3, PushedTwo

\* What a sequence with one more element in front holds.
LEMMA PutInFront ==
  ASSUME NEW S, NEW x \in S, NEW v \in Seq(S)
  PROVE  /\ <<x>> \o v \in Seq(S) /\ Len(<<x>> \o v) = 1 + Len(v)
         /\ (<<x>> \o v)[1] = x
         /\ \A i \in 2..(1 + Len(v)) : (<<x>> \o v)[i] = v[i - 1]
<1>1. PICK p : p = <<x>>
  OBVIOUS
<1>2. p \in Seq(S) /\ Len(p) = 1 /\ p[1] = x
  BY <1>1
<1>3. /\ p \o v \in Seq(S) /\ Len(p \o v) = Len(p) + Len(v)
      /\ \A i \in 1..(Len(p) + Len(v)) :
           (p \o v)[i] = IF i <= Len(p) THEN p[i] ELSE v[i - Len(p)]
  BY <1>2, ConcatProperties
<1>4. Len(v) \in Nat
  BY LenProperties
<1>5. 1 \in 1..(1 + Len(v)) /\ \A i \in 2..(1 + Len(v)) : i \in 1..(1 + Len(v)) /\ ~(i <= 1)
  BY <1>4
<1>6. QED
  BY <1>1, <1>2, <1>3, <1>5

\* Three frames written out are pushed one by one.
LEMMA ThreeWritten ==
  ASSUME NEW f, NEW g, NEW h
  PROVE  <<f, g, h>> = <<f>> \o (<<g>> \o (<<h>> \o <<>>))
<1> DEFINE S == {f, g, h}
<1>1. \A x \in S : <<x>> \in Seq(S) /\ Len(<<x>>) = 1 /\ <<x>>[1] = x
  OBVIOUS
<1>2. <<h>> \o <<>> = <<h>>
  BY <1>1, ConcatEmptySeq
<1>4. <<f>> \o <<g, h>> = <<f, g, h>> /\ <<g>> \o <<h>> = <<g, h>>
  <2> DEFINE v == <<g, h>>
             t == <<f>> \o v
             w == <<g>> \o <<h>>
             u == <<f, g, h>>
  <2>1. v \in Seq(S) /\ Len(v) = 2 /\ v[1] = g /\ v[2] = h
    OBVIOUS
  <2>2. w \in Seq(S) /\ Len(w) = 2 /\ w[1] = g /\ w[2] = h
    <3>1. \A i \in 1..2 : w[i] = IF i <= 1 THEN <<g>>[i] ELSE <<h>>[i - 1]
      BY <1>1, ConcatProperties
    <3>2. w \in Seq(S) /\ Len(w) = 2
      BY <1>1, ConcatProperties
    <3>3. QED
      BY <1>1, <3>1, <3>2
  <2> HIDE DEF v, w
  <2>3. t \in Seq(S) /\ Len(t) = 3 /\ t[1] = f /\ t[2] = g /\ t[3] = h
    <3>1. /\ <<f>> \o v \in Seq(S) /\ Len(<<f>> \o v) = 1 + Len(v)
          /\ (<<f>> \o v)[1] = f
          /\ \A i \in 2..(1 + Len(v)) : (<<f>> \o v)[i] = v[i - 1]
      <4>1. f \in S /\ v \in Seq(S)
        BY <2>1
      <4> HIDE DEF S
      <4>2. QED
        BY <4>1, PutInFront
    <3>2. 1 + Len(v) = 3 /\ 2 \in 2..3 /\ 3 \in 2..3 /\ 2 - 1 = 1 /\ 3 - 1 = 2
      BY <2>1
    <3>3. QED
      BY <2>1, <3>1, <3>2
  <2>4. u \in Seq(S) /\ Len(u) = 3 /\ u[1] = f /\ u[2] = g /\ u[3] = h
    OBVIOUS
  <2> HIDE DEF t, u
  <2>5. (\A i \in 1..2 : i = 1 \/ i = 2) /\ (\A i \in 1..3 : i = 1 \/ i = 2 \/ i = 3)
    OBVIOUS
  <2>6. t = u /\ v = w
    BY <2>1, <2>2, <2>3, <2>4, <2>5, SeqEqual
  <2>7. QED
    BY <2>6 DEF t, u, v, w
<1>5. QED
  BY <1>2, <1>4

\* A stack written out is pushed frame by frame.
LEMMA Written ==
  ASSUME NEW f, NEW g, NEW h
  PROVE  /\ <<f>> = <<f>> \o <<>>
         /\ <<f, g>> = <<f>> \o (<<g>> \o <<>>)
         /\ <<f, g, h>> = <<f>> \o (<<g>> \o (<<h>> \o <<>>))
<1> DEFINE S == {f, g, h}
<1>1. /\ \A x \in S : <<x>> \in Seq(S) /\ Len(<<x>>) = 1 /\ <<x>>[1] = x
      /\ <<f, g>> \in Seq(S) /\ <<f, g, h>> \in Seq(S)
  OBVIOUS
<1>2. \A x \in S : <<x>> \o <<>> = <<x>>
  BY <1>1, ConcatEmptySeq
<1>3. <<f>> \o <<g>> = <<f, g>>
  <2> DEFINE t == <<f>> \o <<g>>
             u == <<f, g>>
  <2>1. t \in Seq(S) /\ Len(t) = 2 /\ t[1] = f /\ t[2] = g
    <3>1. \A i \in 1..2 : t[i] = IF i <= 1 THEN <<f>>[i] ELSE <<g>>[i - 1]
      BY <1>1, ConcatProperties
    <3>2. t \in Seq(S) /\ Len(t) = 2
      BY <1>1, ConcatProperties
    <3>3. QED
      BY <1>1, <3>1, <3>2
  <2>2. u \in Seq(S) /\ Len(u) = 2 /\ u[1] = f /\ u[2] = g
    OBVIOUS
  <2> HIDE DEF t, u
  <2>3. \A i \in 1..2 : i = 1 \/ i = 2
    OBVIOUS
  <2>4. t = u
    BY <2>1, <2>2, <2>3, SeqEqual
  <2>5. QED
    BY <2>4 DEF t, u
<1>4. <<f, g, h>> = <<f>> \o (<<g>> \o (<<h>> \o <<>>))
  BY ThreeWritten
<1>5. QED
  BY <1>2, <1>3, <1>4

-----------------------------------------------------------------------------
(* Sets *)

\* A set of clients has a lowest one.
LEMMA LeastIn ==
  ASSUME NEW S, S \subseteq Clients, S # {}
  PROVE  Least(S) \in S /\ \A d \in S : Least(S) <= d
<1>1. S \subseteq Nat
  BY SessionAssumption
<1>2. PICK x \in S : \A y \in S : <<y, x>> \notin OpToRel(<, Nat)
  BY <1>1, NatLessThanWellFounded, WFMin, Zenon
<1>3. \A y \in S : ~(y < x)
  BY <1>1, <1>2, Zenon DEF OpToRel
<1>4. \A y \in S : x <= y
  BY <1>1, <1>3
<1>5. QED
  BY <1>4 DEF Least

\* A set listed in some order.
LEMMA Listed ==
  ASSUME NEW S, IsFiniteSet(S)
  PROVE  \E n \in Nat : SetToSeq(S) \in [1..n -> S] /\ Len(SetToSeq(S)) = n
<1> DEFINE n == Cardinality(S)
<1>1. n \in Nat /\ \E f \in [1..n -> S] : IsInjective(f)
  <2>1. n \in Nat /\ ExistsBijection(1..n, S)
    BY FS_CardinalityType
  <2>2. PICK f : f \in Bijection(1..n, S)
    BY <2>1 DEF ExistsBijection
  <2>3. QED
    BY <2>1, <2>2 DEF Bijection, Injection, IsInjective
<1>2. SetToSeq(S) \in [1..n -> S]
  BY <1>1 DEF SetToSeq
<1>3. SetToSeq(S) \in Seq(S) /\ Len(SetToSeq(S)) = n
  <2>1. SetToSeq(S) \in Seq(S)
    BY <1>1, <1>2, SeqDef
  <2>2. QED
    BY <1>1, <1>2, <2>1, LenProperties
<1>4. QED
  BY <1>1, <1>2, <1>3

-----------------------------------------------------------------------------
(* The inductive invariant *)

\* Frames about one actor.
WithActor == {"travel", "travelling", "stop", "drop", "acquire", "pausePrep", "settled",
              "execute", "walk", "finish"}

\* What a frame may rely on when its turn comes.
FrameOK(f) ==
  /\ f.do \in WithActor => f.actor \in Actors
  /\ f.do \in {"acquire", "drop"} => f.client \in Clients
  /\ f.do = "drop" => (controllers[f.actor] = f.client => travels[f.actor] = None)
  /\ f.do = "pauses" => \A a \in f.to : a \in Actors /\ travels[a] = None
  /\ f.do = "pausePrep" => travels[f.actor] = None /\ queue[f.actor] # "human"
  /\ f.do = "settled" => queue[f.actor] # "human" /\ prep[f.actor] # "active"
  /\ f.do = "executeAi" => (pendingPauses = {} \/ ~autonomous)

\* What a frame that runs as soon as it is pushed may rely on besides.
OnTop(f) ==
  /\ f.do = "execute" => pendingPauses = {} /\ WorkDue(f.actor)
  /\ f.do = "walk" => travels[f.actor] # None
  /\ f.do = "snapshot" => f.client \in Attached

\* A stack whose top need not run at once.
Base(s) == Structured(s) /\ NoTops(s) /\ \A f \in ToSet(s) : FrameOK(f)

Stacked ==
  /\ Structured(agenda)
  /\ \A f \in ToSet(agenda) : FrameOK(f)
  /\ agenda # <<>> => OnTop(Head1)

\* Human work that is queued is under the lease of the client in control, or
\* its lease was lost and then its pause is owed; a journey is under the lease
\* of its owner, who is in control and owes no pause, and its status is active.
Leased ==
  \A a \in Actors :
    /\ a \in pendingPauses => travels[a] = None
    /\ queue[a] = "human" => \/ lease[a] = Lost
                             \/ (lease[a] \in Clients /\ controllers[a] = lease[a])
    /\ lease[a] = Lost => a \in pendingPauses /\ (queue[a] = "human" \/ prep[a] = "active")
    /\ travels[a] # None => /\ lease[a] = travels[a].owner
                            /\ controllers[a] = travels[a].owner
                            /\ status[a] # None /\ status[a].active

IInv == TypeOK /\ Stacked /\ Leased /\ offences = {}

-----------------------------------------------------------------------------
(* Stacks and steps *)

\* What a step may do to what frames rely on.
Calm ==
  /\ \A a \in Actors : /\ controllers'[a] \in {controllers[a], None}
                       /\ travels[a] = None => travels'[a] = None
                       /\ queue[a] # "human" => queue'[a] # "human"
                       /\ prep[a] # "active" => prep'[a] # "active"
  /\ (pendingPauses = {} \/ ~autonomous) => (pendingPauses' = {} \/ ~autonomous')

\* No client is None.
LEMMA Apart ==
  /\ None \notin Clients /\ Lost \notin Clients /\ None # Lost
  /\ None \notin Jobs /\ None \notin Statuses /\ None \notin Readiness /\ None \notin Actors
  BY SessionAssumption DEF Lost

\* A stack keeps what its frames rely on.
LEMMA BaseKept ==
  ASSUME NEW r, Calm, Base(r)
  PROVE  Base(r)'
<1>1. ASSUME NEW f \in ToSet(r) PROVE FrameOK(f)'
  <2>1. FrameOK(f)
    BY DEF Base
  <2>2. f.do \in {"acquire", "drop"} => f.client # None
    BY <2>1, Apart DEF FrameOK
  <2>3. QED
    BY <2>1, <2>2 DEF FrameOK, Calm, WithActor
<1>2. QED
  BY <1>1 DEF Base

\* The end of a handler relies on nothing.
LEMMA EndKept ==
  ASSUME NEW r, Base(r), \A f \in ToSet(r) : f.do \in {"refresh", "reply"}
  PROVE  Base(r)'
<1>1. ASSUME NEW f \in ToSet(r) PROVE FrameOK(f)'
  BY DEF FrameOK, WithActor
<1>2. QED
  BY <1>1 DEF Base

\* A stack becomes the agenda.
LEMMA NowStacked ==
  ASSUME NEW r, Base(r)', agenda' = r
  PROVE  Stacked'
<1>1. Structured(r) /\ NoTops(r) /\ \A f \in ToSet(r) : FrameOK(f)'
  BY DEF Base
<1>2. r # <<>> => OnTop(Head(r))'
  <2> SUFFICES ASSUME r # <<>> PROVE OnTop(Head(r))'
    OBVIOUS
  <2>1. Head(r) \in ToSet(r)
    BY <1>1, UnderHead
  <2>2. QED
    BY <1>1, <2>1 DEF NoTops, Tops, OnTop
<1>3. QED
  BY <1>1, <1>2 DEF Stacked, Head1

\* A frame on a stack becomes the agenda.
LEMMA TopStacked ==
  ASSUME NEW r, NEW f, Base(r)', Below(f, r), FrameOK(f)', OnTop(f)', agenda' = <<f>> \o r
  PROVE  Stacked'
<1>1. Structured(r) /\ \A g \in ToSet(r) : FrameOK(g)'
  BY DEF Base
<1>2. Structured(agenda') /\ ToSet(agenda') = {f} \cup ToSet(r) /\ Head(agenda') = f
  BY <1>1, Pushed
<1>3. QED
  BY <1>1, <1>2 DEF Stacked, Head1

\* A frame put on a stack.
LEMMA BasePushed ==
  ASSUME NEW r, NEW f, Base(r)', Below(f, r), f.do \notin Tops, FrameOK(f)'
  PROVE  Base(<<f>> \o r)'
<1> DEFINE s == <<f>> \o r
<1>1. Structured(r) /\ NoTops(r) /\ \A g \in ToSet(r) : FrameOK(g)'
  BY DEF Base
<1>2. Structured(s) /\ ToSet(s) = {f} \cup ToSet(r)
  BY <1>1, Pushed
<1> HIDE DEF s
<1>3. Base(s)'
  BY <1>1, <1>2 DEF Base, NoTops
<1>4. QED
  BY <1>3 DEF s

\* A frame that may lie anywhere put on a stack.
LEMMA BasePlain ==
  ASSUME NEW r, NEW f, Base(r)', Plain(f), FrameOK(f)'
  PROVE  Base(<<f>> \o r)'
<1>1. Below(f, r) /\ f.do \notin Tops
  BY DEF Base, NoTops, Below, Plain
<1>2. QED
  BY <1>1, BasePushed

\* Frames that may lie anywhere put on a stack together.
LEMMA BaseMany ==
  ASSUME NEW r, NEW p, p \in Seq(ToSet(p)), Base(r)',
         \A f \in ToSet(p) : Plain(f) /\ FrameOK(f)'
  PROVE  Base(p \o r)'
<1> DEFINE s == p \o r
<1>1. Structured(r) /\ NoTops(r) /\ \A g \in ToSet(r) : FrameOK(g)'
  BY DEF Base
<1>2. Structured(s) /\ NoTops(s) /\ ToSet(s) = ToSet(p) \cup ToSet(r)
  BY <1>1, ManyPushed
<1> HIDE DEF s
<1>3. Base(s)'
  BY <1>1, <1>2 DEF Base
<1>4. QED
  BY <1>3 DEF s

\* The head of the agenda and what is under it.
LEMMA RestBase ==
  ASSUME Stacked, agenda # <<>>
  PROVE  Base(Rest) /\ FrameOK(Head1) /\ OnTop(Head1) /\ Below(Head1, Rest)
<1>1. /\ Structured(Rest) /\ ToSet(agenda) = {Head1} \cup ToSet(Rest)
      /\ Below(Head1, Rest) /\ NoTops(Rest)
  BY UnderHead DEF Stacked, Head1, Rest
<1>2. QED
  BY <1>1 DEF Stacked, Base

\* Frames that end a handler.
LEMMA BaseAnswering ==
  ASSUME NEW c
  PROVE  Base(Answering(c))' /\ Base(<<Refresh>>)' /\ Base(<<>>)' /\ Base(<<Reply(c)>>)'
<1>1. Base(<<>>)' /\ \A f : Below(f, <<>>)
  BY EmptyStack DEF Base, NoTops, Below
<1>2. /\ Refresh.do = "refresh" /\ Reply(c).do = "reply"
      /\ FrameOK(Refresh)' /\ FrameOK(Reply(c))'
  BY DEF Refresh, Reply, Frame, FrameOK, WithActor
<1>3. Base(<<Reply(c)>> \o <<>>)'
  BY <1>1, <1>2, BasePushed DEF Tops
<1>4. Base(<<Refresh>> \o <<>>)'
  BY <1>1, <1>2, BasePushed DEF Tops
<1>5. Below(Refresh, <<Reply(c)>> \o <<>>)
  <2>1. ToSet(<<Reply(c)>> \o <<>>) = {Reply(c)} \cup ToSet(<<>>)
    BY EmptyStack, <1>1, Pushed, Zenon
  <2>2. QED
    BY <1>2, <2>1, EmptyStack DEF Below, Tops, Lasts
<1>6. Base(<<Refresh>> \o (<<Reply(c)>> \o <<>>))'
  BY <1>2, <1>3, <1>5, BasePushed DEF Tops
<1>7. QED
  BY <1>1, <1>3, <1>4, <1>6, Written DEF Answering

-----------------------------------------------------------------------------
(* Journeys and disconnects *)

\* Stopping a journey.
LEMMA StopKeeps ==
  ASSUME NEW a \in Actors, NEW r, TypeOK, Leased, StopTravel(a, r),
         UNCHANGED <<controlVars, prep, lease>>
  PROVE  /\ Calm /\ Leased' /\ travels'[a] = None
         /\ travels' \in [Actors -> Jobs \cup {None}]
         /\ status' \in [Actors -> Statuses \cup {None}]
         /\ queue' \in [Actors -> {"none", "human", "suspended", "travel"}]
         /\ pendingCancels' \subseteq Actors /\ outdated' \subseteq Clients
         /\ broadcasting' \in BOOLEAN
<1>1. /\ travels' = [travels EXCEPT ![a] = None] /\ broadcasting' = broadcasting
      /\ CancelTravelWork({a})
      /\ \/ (status[a] # None /\ status' = [status EXCEPT ![a].active = FALSE])
         \/ status' = status
  BY DEF StopTravel
<1>2. PICK failed \in SUBSET {b \in {a} : queue[b] = "travel"} :
        /\ queue' = [b \in Actors |-> IF b \in {d \in {a} : queue[d] = "travel"} \ failed
                                      THEN "none" ELSE queue[b]]
        /\ pendingCancels' = (pendingCancels \ {a}) \cup failed
        /\ outdated' \subseteq outdated \cup Clients
  BY <1>1 DEF CancelTravelWork, Outdate, Attached
<1>3. /\ travels' \in [Actors -> Jobs \cup {None}] /\ travels'[a] = None
      /\ \A b \in Actors \ {a} : travels'[b] = travels[b]
  BY <1>1 DEF TypeOK
<1>4. /\ status' \in [Actors -> Statuses \cup {None}]
      /\ \A b \in Actors \ {a} : status'[b] = status[b]
  <2>1. CASE status' = status
    BY <2>1 DEF TypeOK
  <2>2. CASE status[a] # None /\ status' = [status EXCEPT ![a].active = FALSE]
    <3>1. status[a] \in Statuses
      BY <2>2 DEF TypeOK
    <3>2. [status[a] EXCEPT !.active = FALSE] \in Statuses
      BY <3>1 DEF Statuses
    <3>3. status' = [status EXCEPT ![a] = [status[a] EXCEPT !.active = FALSE]]
      BY <2>2
    <3>4. QED
      BY <3>2, <3>3 DEF TypeOK
  <2>3. QED
    BY <1>1, <2>1, <2>2
<1>5. \A b \in Actors : /\ queue'[b] = "human" <=> queue[b] = "human"
                        /\ queue'[b] \in {"none", "human", "suspended", "travel"}
  BY <1>2 DEF TypeOK
<1>6. Leased'
  BY <1>3, <1>4, <1>5 DEF Leased, controlVars
<1>7. Calm
  BY <1>3, <1>5 DEF Calm, controlVars
<1>8. QED
  BY <1>1, <1>2, <1>3, <1>4, <1>5, <1>6, <1>7 DEF TypeOK

\* What stopping a journey leaves to do.
LEMMA StopStacked ==
  ASSUME NEW a \in Actors, NEW r, StopTravel(a, r), Base(r)'
  PROVE  Stacked'
<1>1. CASE agenda' = r
  BY <1>1, NowStacked
<1>2. CASE agenda' = <<TravelUpdate(a)>> \o r
  <2>1. Plain(TravelUpdate(a)) /\ FrameOK(TravelUpdate(a))'
    BY DEF TravelUpdate, Frame, Plain, FrameOK, Tops, Lasts, Ends, WithActor
  <2>2. Base(<<TravelUpdate(a)>> \o r)'
    BY <2>1, BasePlain
  <2>3. QED
    BY <1>2, <2>2, NowStacked
<1>3. <<>> \o r = r
  BY NothingPushed DEF Base, Structured
<1>4. QED
  BY <1>1, <1>2, <1>3 DEF StopTravel

\* A disconnect, whatever was left to do.
LEMMA DepartsKeeps ==
  ASSUME NEW c \in Attached, NEW r, IInv, Departs(c, r), Base(r),
         published' \in BOOLEAN, offences' = offences
  PROVE  IInv'
<1>1. PICK a \in Actors : a = actorOf[c]
  BY DEF Attached, IInv, TypeOK
<1>2. /\ UNCHANGED <<arrived, controlVars, resetting, prep, dead, panicked, strayed, lease>>
      /\ actorOf' \in [Clients -> Actors \cup {None}]
      /\ readiness' \in [Clients -> Readiness \cup {None}]
      /\ toldTravel' \in [Clients -> Statuses \cup {None}] /\ behind' \subseteq Clients
  BY DEF Departs, IInv, TypeOK
<1>3. CASE controllers[a] = c
  <2> DEFINE s == <<Drop(a, c)>> \o r
  <2>1. StopTravel(a, s)
    BY <1>1, <1>3 DEF Departs
  <2>2. /\ Calm /\ Leased' /\ travels'[a] = None
        /\ travels' \in [Actors -> Jobs \cup {None}]
        /\ status' \in [Actors -> Statuses \cup {None}]
        /\ queue' \in [Actors -> {"none", "human", "suspended", "travel"}]
        /\ pendingCancels' \subseteq Actors /\ outdated' \subseteq Clients
        /\ broadcasting' \in BOOLEAN
    BY <1>1, <1>2, <2>1, StopKeeps DEF IInv
  <2>3. Base(r)'
    BY <2>2, BaseKept
  <2>4. Plain(Drop(a, c)) /\ FrameOK(Drop(a, c))'
    <3>1. c \in Clients
      BY DEF Attached
    <3>2. QED
      BY <2>2, <3>1 DEF Drop, Frame, Plain, FrameOK, Tops, Lasts, Ends, WithActor
  <2>5. Base(s)'
    BY <2>3, <2>4, BasePlain
  <2>6. Stacked'
    BY <1>1, <2>1, <2>5, StopStacked
  <2>7. TypeOK'
    BY <1>2, <2>2 DEF IInv, TypeOK, controlVars
  <2>8. QED
    BY <2>2, <2>6, <2>7 DEF IInv
<1>4. CASE controllers[a] # c
  <2>1. agenda' = r /\ UNCHANGED <<travelVars, queue, outdated>>
    BY <1>1, <1>4 DEF Departs
  <2>2. Calm /\ Leased' /\ TypeOK'
    BY <1>2, <2>1 DEF IInv, TypeOK, Calm, Leased, controlVars, travelVars
  <2>3. Stacked'
    BY <2>1, <2>2, BaseKept, NowStacked
  <2>4. QED
    BY <2>2, <2>3 DEF IInv
<1>5. QED
  BY <1>3, <1>4

-----------------------------------------------------------------------------
(* Sends *)

\* A frame put on a stack before a disconnect.
LEMMA PushedNow ==
  ASSUME NEW r, NEW f, Base(r), Below(f, r), f.do \notin Tops, FrameOK(f)
  PROVE  Base(<<f>> \o r)
<1> DEFINE s == <<f>> \o r
<1>1. Structured(r) /\ NoTops(r) /\ \A g \in ToSet(r) : FrameOK(g)
  BY DEF Base
<1>2. Structured(s) /\ ToSet(s) = {f} \cup ToSet(r)
  BY <1>1, Pushed
<1> HIDE DEF s
<1>3. Base(s)
  BY <1>1, <1>2 DEF Base, NoTops
<1>4. QED
  BY <1>3 DEF s

\* The running handler's head, and what it will go on with.
LEMMA Resumes ==
  ASSUME IInv, NEW do, Running(do)
  PROVE  /\ agenda # <<>> /\ Head1.do = do
         /\ Base(Rest) /\ FrameOK(Head1) /\ OnTop(Head1) /\ Below(Head1, Rest)
  BY RestBase DEF IInv, Running

\* The next recipient is attached.
LEMMA ToWaits ==
  ASSUME Waiting # {}
  PROVE  To \in Waiting /\ To \in Attached /\ To \in Clients /\ To \in Head1.to
<1>1. Waiting \subseteq Clients /\ Waiting \subseteq Attached /\ Waiting \subseteq Head1.to
  BY DEF Waiting, Attached
<1>2. QED
  BY <1>1, LeastIn DEF To

\* What frames rely on, and leases, do not depend on the clients' side.
LEMMA Unmoved ==
  ASSUME Leased, UNCHANGED <<controlVars, travels, status, queue, prep, lease>>
  PROVE  Calm /\ Leased'
  BY DEF Leased, Calm, controlVars

\* The head with other recipients.
LEMMA HeadAgain ==
  ASSUME NEW S, NEW r, Below(Head1, r)
  PROVE  /\ Below(HeadTo(S), r) /\ HeadTo(S).do = Head1.do
         /\ HeadTo(S).actor = Head1.actor /\ HeadTo(S).to = S
  BY DEF HeadTo, Frame, Below

\* A step on the clients' side goes on with a stack it had.
LEMMA SideKeeps ==
  ASSUME IInv, NEW q, Base(q), agenda' = q,
         UNCHANGED <<arrived, actorOf, controlVars, travels, status, pendingCancels,
                     engineVars, lease, offences>>,
         readiness' \in [Clients -> Readiness \cup {None}],
         toldTravel' \in [Clients -> Statuses \cup {None}],
         outdated' \subseteq Clients, behind' \subseteq Clients, strayed' \subseteq Clients,
         broadcasting' \in BOOLEAN, resetting' \in BOOLEAN, panicked' \in BOOLEAN,
         published' \in BOOLEAN
  PROVE  IInv'
<1>1. Calm /\ Leased'
  BY Unmoved DEF IInv, engineVars
<1>2. Stacked'
  BY <1>1, BaseKept, NowStacked
<1>3. TypeOK' /\ offences' = {}
  BY DEF IInv, TypeOK, controlVars, engineVars
<1>4. QED
  BY <1>1, <1>2, <1>3 DEF IInv

\* A step that only goes on with a stack it had.
LEMMA QuietKeeps ==
  ASSUME IInv, NEW q, Base(q), agenda' = q, UNCHANGED <<quiet, toldVars>>
  PROVE  IInv'
<1>1. UNCHANGED <<clientVars, controlVars, travelVars, resetting, engineVars, panicked,
                  lease, offences, published, toldVars>>
  BY DEF quiet
<1>2. QED
  BY <1>1, SideKeeps DEF IInv, TypeOK, clientVars, travelVars, toldVars

\* A refused send.
LEMMA DisconnectKeeps ==
  ASSUME IInv, NEW c \in Attached, NEW r, Base(r), Disconnect(c, r)
  PROVE  IInv'
<1>1. Departs(c, r) /\ offences' = offences /\ published' = published
  BY DEF Disconnect
<1>2. published' \in BOOLEAN
  BY <1>1 DEF IInv, TypeOK
<1>3. QED
  BY <1>1, <1>2, DepartsKeeps

\* The head goes on with other recipients.
LEMMA AgainBase ==
  ASSUME IInv, NEW do \in {"tell", "travelling", "announcing"}, Running(do), NEW S
  PROVE  Base(<<HeadTo(S)>> \o Rest)
<1>1. /\ Head1.do = do /\ Base(Rest) /\ FrameOK(Head1) /\ Below(Head1, Rest)
  BY Resumes
<1>2. PICK f : f = HeadTo(S)
  OBVIOUS
<1>3. Below(f, Rest) /\ f.do = do /\ f.actor = Head1.actor
  BY <1>1, <1>2, HeadAgain
<1>4. FrameOK(f) /\ f.do \notin Tops
  BY <1>1, <1>3 DEF FrameOK, Tops, WithActor
<1>5. QED
  BY <1>1, <1>2, <1>3, <1>4, PushedNow

\* A message is sent, or its next recipient disconnected.
LEMMA TellKeeps ==
  ASSUME IInv, TellNext \/ TellDone
  PROVE  IInv'
<1>1. Running("tell") /\ Base(Rest)
  BY Resumes DEF TellNext, TellDone
<1>2. PICK r : r = Sent
  OBVIOUS
<1>3. Base(r)
  <2>1. <<>> \o Rest = Rest
    BY <1>1, NothingPushed DEF Base, Structured
  <2>2. Base(<<HeadTo(Waiting \ {To})>> \o Rest)
    BY <1>1, AgainBase
  <2>3. QED
    BY <1>1, <1>2, <2>1, <2>2 DEF Sent
<1>4. CASE Waiting # {} /\ Disconnect(To, r)
  BY <1>3, <1>4, ToWaits, DisconnectKeeps
<1>5. CASE TellDone
  BY <1>1, <1>5, QuietKeeps DEF TellDone
<1>6. CASE Waiting # {} /\ agenda' = r /\ UNCHANGED <<quiet, toldTravel, behind>>
           /\ (strayed' = strayed \/ Update(To))
  <2>1. strayed' \subseteq Clients
    BY <1>6, ToWaits DEF Update, IInv, TypeOK
  <2>2. UNCHANGED <<clientVars, controlVars, travelVars, resetting, engineVars, panicked,
                    lease, offences, published>>
    BY <1>6 DEF quiet
  <2>3. QED
    BY <1>3, <1>6, <2>1, <2>2, SideKeeps DEF IInv, TypeOK, clientVars, travelVars
<1>7. QED
  BY <1>2, <1>4, <1>5, <1>6 DEF TellNext

\* An answer is sent.
LEMMA ReplyKeeps ==
  ASSUME IInv, SendReply
  PROVE  IInv'
<1>1. Running("reply") /\ Base(Rest) /\ Head1.do = "reply" /\ Below(Head1, Rest)
  BY Resumes DEF SendReply
<1>2. Base(<<Refresh>> \o Rest)
  <2>1. Below(Refresh, Rest) /\ FrameOK(Refresh) /\ Refresh.do \notin Tops
    BY <1>1 DEF Below, Refresh, Frame, FrameOK, Tops, Lasts, Ends, WithActor
  <2>2. QED
    BY <1>1, <2>1, PushedNow
<1>3. CASE agenda' = Rest /\ UNCHANGED <<quiet, toldVars>>
  BY <1>1, <1>3, QuietKeeps
<1>4. CASE Head1.client \in Attached /\ Disconnect(Head1.client, RefreshAfterReply)
  BY <1>2, <1>4, DisconnectKeeps DEF RefreshAfterReply
<1>5. QED
  BY <1>3, <1>4 DEF SendReply

\* A journey's status is sent.
LEMMA TravelUpdateKeeps ==
  ASSUME IInv, TravelUpdateStart \/ TravelUpdateNext \/ TravelUpdateEnd
  PROVE  IInv'
<1>1. CASE TravelUpdateStart
  <2>1. /\ Head1.do = "travel" /\ Base(Rest) /\ FrameOK(Head1) /\ Below(Head1, Rest)
    BY <1>1, Resumes DEF TravelUpdateStart
  <2>2. PICK f : f = Frame("travelling", Head1.actor, None, Viewers(Head1.actor),
                           status[Head1.actor])
    OBVIOUS
  <2>3. Base(<<f>> \o Rest)
    <3>1. Below(f, Rest) /\ FrameOK(f) /\ f.do \notin Tops
      BY <2>1, <2>2 DEF Below, Frame, FrameOK, Tops, Lasts, Ends, WithActor
    <3>2. QED
      BY <2>1, <3>1, PushedNow
  <2>4. PICK q : agenda' = q /\ Base(q)
    BY <1>1, <2>1, <2>2, <2>3 DEF TravelUpdateStart
  <2>5. QED
    BY <1>1, <2>4, SideKeeps DEF TravelUpdateStart, IInv, TypeOK, clientVars, toldVars
<1>2. CASE TravelUpdateNext
  <2>1. PICK q : q = <<HeadTo(Waiting \ {To})>> \o Rest
    OBVIOUS
  <2>2. Running("travelling") /\ Waiting # {} /\ Base(q)
    BY <1>2, <2>1, AgainBase DEF TravelUpdateNext
  <2>3. To \in Attached /\ To \in Clients
    BY <2>2, ToWaits
  <2>4. CASE Disconnect(To, q)
    BY <2>2, <2>3, <2>4, DisconnectKeeps
  <2>5. CASE /\ agenda' = q /\ Update(To) /\ UNCHANGED <<quiet, behind>>
             /\ toldTravel' = [toldTravel EXCEPT ![To] = status[Head1.actor]]
    <3>1. Head1.actor \in Actors
      BY <2>2, Resumes DEF FrameOK, WithActor
    <3>2. /\ toldTravel' \in [Clients -> Statuses \cup {None}]
          /\ strayed' \subseteq Clients
      BY <2>3, <2>5, <3>1 DEF IInv, TypeOK, Update
    <3>3. UNCHANGED <<clientVars, controlVars, travelVars, resetting, engineVars, panicked,
                      lease, offences, published>>
      BY <2>5 DEF quiet
    <3>4. QED
      BY <2>2, <2>5, <3>2, <3>3, SideKeeps DEF IInv, TypeOK, clientVars, travelVars
  <2>6. QED
    BY <1>2, <2>1, <2>4, <2>5 DEF TravelUpdateNext
<1>3. CASE TravelUpdateEnd
  <2>1. /\ Head1.do = "travelling" /\ Base(Rest) /\ FrameOK(Head1) /\ Below(Head1, Rest)
    BY <1>3, Resumes DEF TravelUpdateEnd
  <2>2. PICK f : f = TravelUpdate(Head1.actor)
    OBVIOUS
  <2>3. Base(<<f>> \o Rest)
    <3>1. Below(f, Rest) /\ FrameOK(f) /\ f.do \notin Tops
      BY <2>1, <2>2 DEF Below, TravelUpdate, Frame, FrameOK, Tops, Lasts, Ends, WithActor
    <3>2. QED
      BY <2>1, <3>1, PushedNow
  <2>4. <<>> \o Rest = Rest
    BY <2>1, NothingPushed DEF Base, Structured
  <2>5. PICK q : agenda' = q /\ Base(q)
    BY <1>3, <2>1, <2>2, <2>3, <2>4 DEF TravelUpdateEnd
  <2>6. QED
    BY <1>3, <2>5, SideKeeps DEF TravelUpdateEnd, IInv, TypeOK, clientVars, toldVars
<1>4. QED
  BY <1>1, <1>2, <1>3

\* A frame of the same kind as the head, or a refresh, in place of the end of
\* the handler that runs.
LEMMA EndBase ==
  ASSUME IInv, NEW do \in {"refresh", "refreshing", "fewer"}, Running(do), NEW f,
         f.do \in {"refresh", "refreshing"}
  PROVE  Base(<<f>> \o Rest)
<1>1. /\ Head1.do = do /\ Base(Rest) /\ Below(Head1, Rest)
  BY Resumes
<1>2. Below(f, Rest) /\ FrameOK(f) /\ f.do \notin Tops
  BY <1>1 DEF Below, FrameOK, Tops, Lasts, Ends, WithActor
<1>3. QED
  BY <1>1, <1>2, PushedNow

\* A pass of the refresh of readiness.
LEMMA RefreshKeeps ==
  ASSUME IInv, RefreshTaken \/ RefreshRefused
  PROVE  IInv'
<1>1. PICK do \in {"refresh", "refreshing"} : Running(do)
  BY DEF RefreshTaken, RefreshRefused
<1>2. Base(Rest) /\ <<>> \o Rest = Rest
  BY <1>1, Resumes, NothingPushed DEF Base, Structured
<1>3. \A seen : Base(<<PassAfter(seen)>> \o Rest)
  <2>1. ASSUME NEW seen PROVE Base(<<PassAfter(seen)>> \o Rest)
    <3>1. PassAfter(seen).do = "refreshing"
      BY DEF PassAfter, Pass, Frame
    <3>2. QED
      BY <1>1, <3>1, EndBase
  <2>2. QED
    BY <2>1
<1>4. Base(<<Refresh>> \o Rest)
  <2>1. Refresh.do = "refresh"
    BY DEF Refresh, Frame
  <2>2. QED
    BY <1>1, <2>1, EndBase
<1>5. PassTo \subseteq Attached /\ Attached \subseteq Clients
  BY DEF PassTo, Waiting, Attached
<1>6. CASE RefreshTaken
  <2>1. PICK seen \in SUBSET PassTo :
          LET left == PassTo \ seen
              sent == {c \in seen : Due(c)}
          IN  /\ readiness' = [c \in Clients |-> IF c \in sent
                                  THEN ReadinessFor(c, PassInput(actorOf[c]))
                                  ELSE readiness[c]]
              /\ outdated' = outdated \ sent
              /\ strayed' = strayed \cup (sent \cap behind)
              /\ agenda' = (IF left # {} THEN <<PassAfter(seen)>>
                            ELSE IF AnotherPass(PassCount) THEN <<Refresh>> ELSE <<>>)
                           \o Rest
    BY <1>6 DEF RefreshTaken
  <2>2. PICK q : agenda' = q /\ Base(q)
    BY <1>2, <1>3, <1>4, <2>1
  <2>3. \A c, input : ReadinessFor(c, input) \in Readiness
    BY DEF ReadinessFor, Readiness
  <2>4. readiness' \in [Clients -> Readiness \cup {None}]
    BY <2>1, <2>3 DEF IInv, TypeOK
  <2>5. outdated' \subseteq Clients /\ strayed' \subseteq Clients
    BY <1>5, <2>1 DEF IInv, TypeOK
  <2>6. QED
    BY <1>6, <2>2, <2>4, <2>5, SideKeeps DEF RefreshTaken, IInv, TypeOK, travelVars
<1>7. CASE RefreshRefused
  <2>1. PICK c \in PassTo :
          Disconnect(c, <<PassAfter({d \in PassTo : d <= c})>> \o Rest)
    BY <1>7 DEF RefreshRefused
  <2>2. c \in Attached
    BY <1>5, <2>1
  <2>3. PICK q : q = <<PassAfter({d \in PassTo : d <= c})>> \o Rest /\ Base(q)
    BY <1>3
  <2>4. QED
    BY <2>1, <2>2, <2>3, DisconnectKeeps
<1>8. QED
  BY <1>6, <1>7

\* The number of clients is compared with what it was.
LEMMA FewerKeeps ==
  ASSUME IInv, FewerNext
  PROVE  IInv'
<1>1. Running("fewer") /\ Base(Rest)
  BY Resumes DEF FewerNext
<1>2. <<>> \o Rest = Rest
  BY <1>1, NothingPushed DEF Base, Structured
<1>3. Base(<<Refresh>> \o Rest)
  <2>1. Refresh.do = "refresh"
    BY DEF Refresh, Frame
  <2>2. QED
    BY <1>1, <2>1, EndBase
<1>4. PICK q : agenda' = q /\ Base(q)
  BY <1>1, <1>2, <1>3 DEF FewerNext
<1>5. QED
  BY <1>4, QuietKeeps DEF FewerNext

\* What the game waits for is announced.
LEMMA AnnounceKeeps ==
  ASSUME IInv, AnnounceStart \/ AnnounceNext
  PROVE  IInv'
<1>1. CASE AnnounceStart
  <2>1. Running("announce") /\ Head1.do = "announce" /\ Base(Rest) /\ Below(Head1, Rest)
    BY <1>1, Resumes DEF AnnounceStart
  <2>2. PICK f : f = Frame("announcing", None, None, Attached, None)
    OBVIOUS
  <2>3. Below(f, Rest) /\ FrameOK(f) /\ f.do \notin Tops
    BY <2>1, <2>2 DEF Below, Frame, FrameOK, Tops, Lasts, Ends, WithActor
  <2>4. Base(<<f>> \o Rest)
    BY <2>1, <2>3, PushedNow
  <2>5. QED
    BY <1>1, <2>2, <2>4, QuietKeeps DEF AnnounceStart
<1>2. CASE AnnounceNext
  <2>1. Running("announcing") /\ Head1.do = "announcing" /\ Base(Rest)
    BY <1>2, Resumes DEF AnnounceNext
  <2>2. CASE Head1.to = {} /\ agenda' = Rest /\ UNCHANGED <<quiet, toldVars>>
    BY <2>1, <2>2, QuietKeeps
  <2>3. PICK q : q = <<HeadTo(Head1.to \ {Least(Head1.to)})>> \o Rest /\ Base(q)
    BY <2>1, AgainBase
  <2>4. CASE agenda' = q /\ UNCHANGED <<quiet, toldVars>>
    BY <2>3, <2>4, QuietKeeps
  <2>5. CASE Least(Head1.to) \in Attached /\ Disconnect(Least(Head1.to), q)
    BY <2>3, <2>5, DisconnectKeeps
  <2>6. CASE /\ panicked' = TRUE
             /\ UNCHANGED <<clientVars, controlVars, travelVars, resetting, engineVars,
                            agenda, toldVars, lease, offences, published>>
    <3>1. Calm /\ Leased'
      BY <2>6, Unmoved DEF IInv, travelVars, engineVars
    <3>2. Stacked'
      BY <2>6 DEF IInv, Stacked, FrameOK, OnTop, WorkDue, Attached, Head1, clientVars,
                  controlVars, travelVars, engineVars
    <3>3. TypeOK'
      BY <2>6 DEF IInv, TypeOK, clientVars, controlVars, travelVars, engineVars, toldVars
    <3>4. QED
      BY <2>6, <3>1, <3>2, <3>3 DEF IInv
  <2>7. QED
    BY <1>2, <2>2, <2>3, <2>4, <2>5, <2>6 DEF AnnounceNext
<1>3. QED
  BY <1>1, <1>2

\* A snapshot is sent.
LEMMA SnapshotKeeps ==
  ASSUME IInv, SnapshotNext
  PROVE  IInv'
<1>1. /\ Running("snapshot") /\ Base(Rest) /\ Head1.client \in Attached
      /\ Head1.client \in Clients
  BY Resumes DEF SnapshotNext, OnTop, Attached
<1>2. CASE Disconnect(Head1.client, Rest)
  BY <1>1, <1>2, DisconnectKeeps
<1>3. CASE /\ CommitSnapshot(Head1.client) /\ agenda' = Rest
           /\ UNCHANGED <<arrived, actorOf, controlVars, travelVars, resetting,
                          engineVars, panicked, strayed, lease, offences, published>>
  <2>1. ReadinessFor(Head1.client, Input(actorOf[Head1.client])) \in Readiness
    BY DEF ReadinessFor, Readiness
  <2>2. readiness' \in [Clients -> Readiness \cup {None}]
    BY <1>3, <2>1 DEF CommitSnapshot, IInv, TypeOK
  <2>3. actorOf[Head1.client] \in Actors
    BY <1>1 DEF Attached, IInv, TypeOK
  <2>4. toldTravel' \in [Clients -> Statuses \cup {None}]
    BY <1>1, <1>3, <2>3 DEF CommitSnapshot, IInv, TypeOK
  <2>5. outdated' \subseteq Clients /\ behind' \subseteq Clients
    BY <1>3 DEF CommitSnapshot, IInv, TypeOK
  <2>6. QED
    BY <1>1, <1>3, <2>2, <2>4, <2>5, SideKeeps DEF IInv, TypeOK, travelVars
<1>4. CASE agenda' = Append(Rest, Reply(Head1.client)) /\ UNCHANGED <<quiet, toldVars>>
  <2>1. PICK g : g = Reply(Head1.client)
    OBVIOUS
  <2>2. g.do = "reply" /\ FrameOK(g)
    BY <2>1 DEF Reply, Frame, FrameOK, WithActor
  <2>3. Base(Append(Rest, g))
    BY <1>1, <2>2, ReplyAppended DEF Base
  <2>4. QED
    BY <1>4, <2>1, <2>3, QuietKeeps
<1>5. QED
  BY <1>2, <1>3, <1>4 DEF SnapshotNext

\* Some of the actors listed, and a frame for each of them.
LEMMA FramesListed ==
  ASSUME NEW S, S \subseteq Actors, NEW g, NEW p,
         p = [i \in 1..Len(SetToSeq(S)) |-> g[SetToSeq(S)[i]]]
  PROVE  p \in Seq(ToSet(p)) /\ \A f \in ToSet(p) : \E a \in S : f = g[a]
<1>1. IsFiniteSet(S)
  BY SessionAssumption, FS_Subset
<1>2. PICK n \in Nat : SetToSeq(S) \in [1..n -> S] /\ Len(SetToSeq(S)) = n
  BY <1>1, Listed
<1>3. DOMAIN p = 1..n /\ ToSet(p) = {p[i] : i \in 1..n}
  BY <1>2 DEF ToSet
<1>4. p \in [1..n -> ToSet(p)]
  BY <1>2, <1>3
<1>5. p \in Seq(ToSet(p))
  BY <1>4, SeqDef
<1>6. \A i \in 1..n : \E a \in S : p[i] = g[a]
  BY <1>2
<1>7. QED
  BY <1>3, <1>5, <1>6

\* What is told of control when streams have been reset.
LEMMA HeldBackPlain ==
  ASSUME NEW was, NEW p, p = HeldBack(was)
  PROVE  p \in Seq(ToSet(p)) /\ \A f \in ToSet(p) : Plain(f) /\ FrameOK(f) /\ f.do = "tell"
<1> DEFINE S == {a \in Actors : was[a] # None /\ controllers[a] # was[a]}
           g == [a \in Actors |-> TellControl(a)]
<1>1. p = [i \in 1..Len(SetToSeq(S)) |-> TellControl(SetToSeq(S)[i])]
  BY DEF HeldBack
<1>2. IsFiniteSet(S)
  BY SessionAssumption, FS_Subset
<1>3. PICK n \in Nat : SetToSeq(S) \in [1..n -> S] /\ Len(SetToSeq(S)) = n
  BY <1>2, Listed
<1>4. p = [i \in 1..Len(SetToSeq(S)) |-> g[SetToSeq(S)[i]]]
  BY <1>1, <1>3
<1>5. S \subseteq Actors
  OBVIOUS
<1> HIDE DEF S, g
<1>6. p \in Seq(ToSet(p)) /\ \A f \in ToSet(p) : \E a \in S : f = g[a]
  BY <1>4, <1>5, FramesListed
<1>7. \A a \in S : g[a].do = "tell"
  BY <1>5 DEF g, TellControl, Tell, Frame
<1>8. QED
  BY <1>6, <1>7 DEF Plain, FrameOK, Tops, Lasts, Ends, WithActor

\* Streams are reset.
LEMMA ResetKeeps ==
  ASSUME IInv, ResetStart \/ ResetNext \/ ResetEnd
  PROVE  IInv'
<1>1. CASE ResetStart
  <2>1. Running("reset") /\ Head1.do = "reset" /\ Base(Rest) /\ Below(Head1, Rest)
    BY <1>1, Resumes DEF ResetStart
  <2>2. PICK f : f = Frame("resetting", None, None, Attached, controllers)
    OBVIOUS
  <2>3. Below(f, Rest) /\ FrameOK(f) /\ f.do \notin Tops
    BY <2>1, <2>2 DEF Below, Frame, FrameOK, Tops, Lasts, Ends, WithActor
  <2>4. Base(<<f>> \o Rest)
    BY <2>1, <2>3, PushedNow
  <2>5. QED
    BY <1>1, <2>2, <2>4, SideKeeps
    DEF ResetStart, IInv, TypeOK, clientVars, travelVars, toldVars
<1>2. CASE ResetNext
  <2>1. /\ Running("resetting") /\ Head1.do = "resetting" /\ Base(Rest)
        /\ Below(Head1, Rest) /\ Waiting # {}
    BY <1>2, Resumes DEF ResetNext
  <2>2. PICK r : r = Rest
    OBVIOUS
  <2>3. PICK g : g = HeadTo(Waiting \ {To})
    OBVIOUS
  <2>4. PICK f : f = Frame("snapshot", None, To, {}, None)
    OBVIOUS
  <2>5. Calm /\ Leased' /\ TypeOK' /\ offences' = {} /\ Attached' = Attached
    <3>1. UNCHANGED <<clientVars, controlVars, travelVars, resetting, engineVars, panicked,
                      lease, offences, published, toldVars>>
      BY <1>2 DEF ResetNext, quiet
    <3>2. Calm /\ Leased'
      BY <3>1, Unmoved DEF IInv, travelVars, engineVars
    <3>3. TypeOK' /\ offences' = {} /\ Attached' = Attached
      BY <3>1 DEF IInv, TypeOK, Attached, clientVars, controlVars, travelVars, engineVars,
                  toldVars
    <3>4. QED
      BY <3>2, <3>3
  <2>6. Below(g, r) /\ g.do = "resetting"
    BY <2>1, <2>2, <2>3, HeadAgain
  <2>7. Base(r)'
    BY <2>1, <2>2, <2>5, BaseKept
  <2>8. Base(<<g>> \o r)'
    <3>1. FrameOK(g)' /\ g.do \notin Tops
      BY <2>6 DEF FrameOK, Tops, WithActor
    <3>2. QED
      BY <2>6, <2>7, <3>1, BasePushed
  <2>9. Below(f, <<g>> \o r)
    <3>1. ToSet(<<g>> \o r) = {g} \cup ToSet(r) /\ NoTops(r)
      BY <2>1, <2>2, <2>6, Pushed DEF Base
    <3>2. f.do = "snapshot"
      BY <2>4 DEF Frame
    <3>3. QED
      BY <2>6, <3>1, <3>2 DEF Below, NoTops, Tops, Lasts, Ends
  <2>10. FrameOK(f)' /\ OnTop(f)'
    <3>1. To \in Attached'
      BY <2>1, <2>5, ToWaits
    <3>2. f.do = "snapshot" /\ f.client = To
      BY <2>4 DEF Frame
    <3>3. QED
      BY <3>1, <3>2 DEF FrameOK, OnTop, WithActor
  <2>11. agenda' = <<f>> \o (<<g>> \o r)
    <3>1. agenda' = <<f, g>> \o r
      BY <1>2, <2>2, <2>3, <2>4 DEF ResetNext
    <3>2. r \in Seq(ToSet(r))
      BY <2>1, <2>2 DEF Base, Structured
    <3>3. <<f, g>> \o r = <<f>> \o (<<g>> \o r)
      BY <3>2, PushedTwo
    <3>4. QED
      BY <3>1, <3>3
  <2>12. PICK q : q = <<g>> \o r
    OBVIOUS
  <2>13. Stacked'
    BY <2>8, <2>9, <2>10, <2>11, <2>12, TopStacked
  <2>14. QED
    BY <2>5, <2>13 DEF IInv
<1>3. CASE ResetEnd
  <2>1. Running("resetting") /\ Base(Rest)
    BY <1>3, Resumes DEF ResetEnd
  <2>2. PICK p : p = HeldBack(Head1.mark)
    OBVIOUS
  <2>3. p \in Seq(ToSet(p)) /\ \A f \in ToSet(p) : Plain(f) /\ FrameOK(f)
    BY <2>2, HeldBackPlain
  <2>4. Base(p \o Rest)
    BY <2>1, <2>3, ManyPushed DEF Base
  <2>5. QED
    BY <1>3, <2>2, <2>4, SideKeeps
    DEF ResetEnd, IInv, TypeOK, clientVars, travelVars, toldVars
<1>4. QED
  BY <1>1, <1>2, <1>3

-----------------------------------------------------------------------------
(* Control and pauses *)

\* What a step goes on with, for steps that frames do not notice.
LEMMA CalmRest ==
  ASSUME IInv, NEW do, Running(do), Calm
  PROVE  \E r : r = Rest /\ Base(r)' /\ Below(Head1, r) /\ <<>> \o r = r
<1>1. PICK r : r = Rest
  OBVIOUS
<1>2. Base(r) /\ Below(Head1, r)
  BY <1>1, Resumes
<1>3. <<>> \o r = r
  BY <1>2, NothingPushed DEF Base, Structured
<1>4. QED
  BY <1>1, <1>2, <1>3, BaseKept

\* A journey is stopped and nothing else is done.
LEMMA StopHereKeeps ==
  ASSUME IInv, NEW do \in WithActor, Running(do), StopHere(Head1.actor)
  PROVE  IInv'
<1>1. PICK a \in Actors : a = Head1.actor
  BY Resumes DEF FrameOK
<1>2. PICK r : r = Rest
  OBVIOUS
<1>3. /\ StopTravel(a, r)
      /\ UNCHANGED <<arrived, actorOf, readiness, controlVars, resetting, prep, dead,
                     panicked, toldVars, lease, offences, published>>
  BY <1>1, <1>2 DEF StopHere
<1>4. /\ Calm /\ Leased'
      /\ travels' \in [Actors -> Jobs \cup {None}]
      /\ status' \in [Actors -> Statuses \cup {None}]
      /\ queue' \in [Actors -> {"none", "human", "suspended", "travel"}]
      /\ pendingCancels' \subseteq Actors /\ outdated' \subseteq Clients
      /\ broadcasting' \in BOOLEAN
  BY <1>3, StopKeeps DEF IInv
<1>5. Base(r)'
  BY <1>2, <1>4, CalmRest
<1>6. Stacked'
  BY <1>3, <1>5, StopStacked
<1>7. TypeOK' /\ offences' = {}
  BY <1>3, <1>4 DEF IInv, TypeOK, controlVars, toldVars
<1>8. QED
  BY <1>4, <1>6, <1>7 DEF IInv

\* A journey is stopped by a setup, or because its step may not run.
LEMMA StopsKeep ==
  ASSUME IInv, StopNext \/ RefuseStep
  PROVE  IInv'
<1>1. CASE StopNext
  BY <1>1, StopHereKeeps DEF StopNext, StopHere, WithActor
<1>2. CASE RefuseStep
  BY <1>2, StopHereKeeps DEF RefuseStep, WithActor
<1>3. QED
  BY <1>1, <1>2

\* Generations of clients.
LEMMA OutdateType ==
  ASSUME TypeOK, NEW S, Outdate(S)
  PROVE  outdated' \subseteq Clients
  BY DEF TypeOK, Outdate, Attached

\* A step that frames do not notice goes on after telling something.
LEMMA ToldStacked ==
  ASSUME NEW r, Base(r)', NEW f, f.do \in {"tell", "announce"}, agenda' = <<f>> \o r
  PROVE  Stacked'
<1>1. Plain(f) /\ FrameOK(f)'
  BY DEF Plain, FrameOK, WithActor, Tops, Lasts, Ends
<1>2. PICK q : q = <<f>> \o r /\ Base(q)'
  BY <1>1, BasePlain
<1>3. QED
  BY <1>2, NowStacked

\* Control ends.
LEMMA DropKeeps ==
  ASSUME IInv, DropControl
  PROVE  IInv'
<1>1. PICK a \in Actors : a = Head1.actor
  BY Resumes DEF DropControl, FrameOK, WithActor
<1>2. Running("drop") /\ (controllers[a] = Head1.client => travels[a] = None)
      /\ Base(Rest)
  BY <1>1, Resumes DEF DropControl, FrameOK
<1>3. CASE controllers[a] # Head1.client
  <2>1. agenda' = Rest /\ UNCHANGED <<quiet, toldVars>>
    BY <1>1, <1>3 DEF DropControl, quiet, clientVars
  <2>2. QED
    BY <1>2, <2>1, QuietKeeps
<1>4. CASE controllers[a] = Head1.client
  <2>1. /\ SetController(a, None) /\ pendingPauses' = pendingPauses \cup {a}
        /\ autonomous' = FALSE
        /\ agenda' = (IF HeldNow THEN <<>> ELSE <<TellControl(a)>>) \o Rest
        /\ UNCHANGED <<arrived, actorOf, readiness, travelVars, resetting, engineVars,
                       panicked, toldVars, offences, published>>
    BY <1>1, <1>4 DEF DropControl, OwedPauses
  <2>2. /\ controllers' = [controllers EXCEPT ![a] = None]
        /\ lease' = [lease EXCEPT ![a] = IF queue[a] = "human" \/ prep[a] = "active"
                                         THEN Lost ELSE None]
        /\ outdated' \subseteq Clients
    BY <2>1, OutdateType DEF SetController, IInv
  <2>3. TypeOK' /\ offences' = {}
    BY <2>1, <2>2 DEF IInv, TypeOK, travelVars, engineVars, toldVars
  <2>4. Calm
    BY <2>1, <2>2 DEF Calm, IInv, TypeOK, travelVars, engineVars
  <2>5. Leased'
    <3>1. UNCHANGED <<travels, status, queue, prep>>
      BY <2>1 DEF travelVars, engineVars
    <3>2. ASSUME NEW b \in Actors \ {a}
          PROVE  controllers'[b] = controllers[b] /\ lease'[b] = lease[b]
      BY <2>2 DEF IInv, TypeOK
    <3>3. /\ lease'[a] = IF queue[a] = "human" \/ prep[a] = "active" THEN Lost ELSE None
          /\ travels[a] = None
      BY <1>2, <1>4, <2>2 DEF IInv, TypeOK
    <3>4. QED
      BY <2>1, <3>1, <3>2, <3>3, Apart DEF IInv, Leased
  <2>6. PICK r : r = Rest /\ Base(r)' /\ <<>> \o r = r
    BY <1>2, <2>4, CalmRest
  <2>7. Stacked'
    <3>1. CASE agenda' = r
      BY <2>6, <3>1, NowStacked
    <3>2. PICK f : f = TellControl(a)
      OBVIOUS
    <3>3. CASE agenda' = <<f>> \o r
      <4>1. f.do = "tell"
        BY <3>2 DEF TellControl, Tell, Frame
      <4>2. QED
        BY <2>6, <3>3, <4>1, ToldStacked
    <3>4. QED
      BY <2>1, <2>6, <3>1, <3>2, <3>3
  <2>8. QED
    BY <2>3, <2>5, <2>7 DEF IInv
<1>5. QED
  BY <1>3, <1>4

\* Control is taken, if it is free and no pause is owed.
LEMMA AcquireKeeps ==
  ASSUME IInv, AcquireRest
  PROVE  IInv'
<1>1. /\ Running("acquire") /\ Head1.do = "acquire" /\ Base(Rest) /\ Below(Head1, Rest)
      /\ Head1.client \in Clients
  BY Resumes DEF AcquireRest, FrameOK
<1>2. PICK a \in Actors : a = Head1.actor
  BY Resumes DEF AcquireRest, FrameOK, WithActor
<1>3. PICK r : r = Rest
  OBVIOUS
<1>4. CASE ~MayTake(a)
  <2>1. agenda' = Rest /\ UNCHANGED <<quiet, toldVars>>
    BY <1>2, <1>4 DEF AcquireRest, quiet, clientVars, controlVars
  <2>2. QED
    BY <1>1, <2>1, QuietKeeps
<1>5. CASE MayTake(a)
  <2>1. /\ SetController(a, Head1.client) /\ agenda' = <<TellControl(a)>> \o r
        /\ UNCHANGED <<arrived, actorOf, readiness, pendingPauses, autonomous, travelVars,
                       resetting, engineVars, panicked, toldVars, offences, published>>
    BY <1>2, <1>3, <1>5 DEF AcquireRest
  <2>2. /\ controllers' = [controllers EXCEPT ![a] = Head1.client]
        /\ lease' = [lease EXCEPT ![a] = @]
        /\ outdated' \subseteq Clients
    BY <1>1, <2>1, Apart, OutdateType DEF SetController, IInv
  <2>3. lease' = lease
    BY <2>2 DEF IInv, TypeOK
  <2>4. TypeOK' /\ offences' = {}
    BY <1>1, <2>1, <2>2, <2>3 DEF IInv, TypeOK, travelVars, engineVars, toldVars
  <2>5. Leased'
    <3>1. UNCHANGED <<travels, status, queue, prep, pendingPauses>>
      BY <2>1 DEF travelVars, engineVars
    <3>2. \A b \in Actors \ {a} : controllers'[b] = controllers[b]
      BY <2>2 DEF IInv, TypeOK
    <3>3. a \notin pendingPauses /\ controllers[a] = None
      BY <1>5 DEF MayTake
    <3>4. /\ queue[a] # "human" /\ lease[a] # Lost
      BY <3>3, Apart DEF IInv, Leased
    <3>5. travels[a] = None
      <4>1. travels[a] # None => travels[a] \in Jobs /\ controllers[a] = travels[a].owner
        BY DEF IInv, TypeOK, Leased
      <4>2. travels[a] # None => travels[a].owner \in Clients
        BY <4>1 DEF Jobs
      <4>3. QED
        BY <3>3, <4>1, <4>2, Apart
    <3>6. QED
      BY <2>3, <3>1, <3>2, <3>4, <3>5 DEF IInv, Leased
  <2>6. Base(r)'
    <3>1. \A f \in ToSet(r) : f.do \in {"refresh", "reply"}
      BY <1>1, <1>3 DEF Below, Lasts
    <3>2. QED
      BY <1>1, <1>3, <3>1, EndKept
  <2>7. Stacked'
    <3>1. PICK f : f = TellControl(a)
      OBVIOUS
    <3>2. f.do = "tell"
      BY <3>1 DEF TellControl, Tell, Frame
    <3>3. QED
      BY <2>1, <2>6, <3>1, <3>2, ToldStacked
  <2>8. QED
    BY <2>4, <2>5, <2>7 DEF IInv
<1>6. QED
  BY <1>4, <1>5

\* A frame that may lie anywhere is pushed on what a step goes on with.
LEMMA PlainStacked ==
  ASSUME NEW r, Base(r)', NEW f, Plain(f), FrameOK(f)', agenda' = <<f>> \o r
  PROVE  Stacked'
<1>1. PICK q : q = <<f>> \o r /\ Base(q)'
  BY BasePlain
<1>2. QED
  BY <1>1, NowStacked

\* The queued work of an actor whose controller went is suspended.
LEMMA PausesKeep ==
  ASSUME IInv, PausesNext
  PROVE  IInv'
<1>1. Running("pauses") /\ Base(Rest)
      /\ \A a \in Head1.to : a \in Actors /\ travels[a] = None
  BY Resumes DEF PausesNext, FrameOK
<1>2. CASE agenda' = Rest /\ UNCHANGED <<queue, outdated, lease>>
  <2>1. UNCHANGED <<quiet, toldVars>>
    BY <1>2 DEF PausesNext, quiet, clientVars, engineVars
  <2>2. QED
    BY <1>1, <1>2, <2>1, QuietKeeps
<1>3. CASE Head1.to # {}
  <2>1. PICK a \in Head1.to : a = CHOOSE b \in Head1.to : TRUE
    BY <1>3
  <2>2. a \in Actors /\ travels[a] = None
    BY <1>1
  <2>3. PICK g : g = HeadTo(Head1.to \ {a})
    OBVIOUS
  <2>4. PICK f : f = Frame("pausePrep", a, None, {}, None)
    OBVIOUS
  <2>5. PICK r : r = Rest
    OBVIOUS
  <2>6. /\ Plain(g) /\ g.do = "pauses" /\ g.to \subseteq Head1.to
        /\ Plain(f) /\ f.do = "pausePrep" /\ f.actor = a
    BY <1>1, <2>3, <2>4 DEF HeadTo, Frame, Plain, Tops, Lasts, Ends, Running
  <2>7. ASSUME Calm, Leased', queue' \in [Actors -> {"none", "human", "suspended", "travel"}],
               lease' \in [Actors -> Clients \cup {None, Lost}], outdated' \subseteq Clients,
               UNCHANGED travels
        PROVE  /\ Base(<<g>> \o r)' /\ TypeOK'
               /\ queue'[a] # "human" => Base(<<f>> \o (<<g>> \o r))'
    <3>1. Base(r)'
      BY <1>1, <2>5, <2>7, CalmRest
    <3>2. FrameOK(g)'
      <4>1. \A b \in g.to : b \in Actors /\ travels'[b] = None
        BY <1>1, <2>6, <2>7
      <4>2. QED
        BY <2>6, <4>1 DEF FrameOK, WithActor
    <3>3. PICK q : q = <<g>> \o r /\ Base(q)'
      BY <2>6, <3>1, <3>2, BasePlain
    <3>4. queue'[a] # "human" => FrameOK(f)'
      BY <2>2, <2>6, <2>7 DEF FrameOK, WithActor
    <3>5. queue'[a] # "human" => Base(<<f>> \o q)'
      BY <2>6, <3>3, <3>4, BasePlain
    <3>6. TypeOK'
      BY <2>7 DEF PausesNext, IInv, TypeOK, controlVars, travelVars, toldVars
    <3>7. QED
      BY <3>3, <3>5, <3>6
  <2>8. CASE /\ UNCHANGED <<queue, outdated, lease>>
             /\ \/ agenda' = r
                \/ queue[a] # "human" /\ agenda' = <<f>> \o (<<g>> \o r)
                \/ agenda' = <<g>> \o r
    <3>1. Calm /\ Leased'
      BY <2>8, Unmoved DEF PausesNext, IInv, travelVars
    <3>2. /\ Base(<<g>> \o r)' /\ TypeOK'
          /\ queue[a] # "human" => Base(<<f>> \o (<<g>> \o r))'
      BY <2>7, <2>8, <3>1 DEF PausesNext, travelVars, IInv, TypeOK
    <3>3. PICK q : q = <<g>> \o r /\ Base(q)'
      BY <3>2
    <3>4. PICK p : p = <<f>> \o q
      OBVIOUS
    <3>5. queue[a] # "human" => Base(p)'
      BY <3>2, <3>3, <3>4
    <3>6. agenda' = r \/ agenda' = q \/ (queue[a] # "human" /\ agenda' = p)
      BY <2>8, <3>3, <3>4
    <3>7. Base(r)'
      BY <1>1, <2>5, <3>1, CalmRest
    <3>8. Stacked'
      BY <3>3, <3>5, <3>6, <3>7, NowStacked
    <3>9. QED
      BY <3>1, <3>2, <3>8 DEF PausesNext, IInv
  <2>9. CASE /\ queue[a] = "human"
             /\ queue' = [queue EXCEPT ![a] = "suspended"]
             /\ lease' = [lease EXCEPT ![a] = IF prep[a] = "active" THEN @ ELSE None]
             /\ Outdate({a})
             /\ agenda' = <<TellIntention(a)>> \o (<<f>> \o (<<g>> \o r))
    <3>1. /\ queue'[a] = "suspended" /\ lease'[a] \in {lease[a], None}
          /\ prep[a] # "active" => lease'[a] = None
          /\ \A b \in Actors \ {a} : queue'[b] = queue[b] /\ lease'[b] = lease[b]
      BY <2>2, <2>9 DEF IInv, TypeOK
    <3>2. UNCHANGED <<controlVars, travels, status, prep>>
      BY DEF PausesNext, travelVars
    <3>3. Calm
      BY <3>1, <3>2 DEF Calm, controlVars
    <3>4. Leased'
      <4>1. ASSUME NEW b \in Actors \ {a}
            PROVE  /\ queue'[b] = queue[b] /\ lease'[b] = lease[b]
                   /\ controllers'[b] = controllers[b] /\ prep'[b] = prep[b]
                   /\ travels'[b] = travels[b] /\ status'[b] = status[b]
        BY <3>1, <3>2 DEF controlVars
      <4>2. lease'[a] = Lost => a \in pendingPauses' /\ prep'[a] = "active"
        BY <2>2, <3>1, <3>2, Apart DEF IInv, Leased, controlVars
      <4>3. travels'[a] = None /\ queue'[a] # "human" /\ pendingPauses' = pendingPauses
        BY <2>2, <3>1, <3>2 DEF controlVars
      <4>4. QED
        BY <4>1, <4>2, <4>3 DEF IInv, Leased
    <3>5. /\ queue' \in [Actors -> {"none", "human", "suspended", "travel"}]
          /\ lease' \in [Actors -> Clients \cup {None, Lost}] /\ outdated' \subseteq Clients
      BY <2>2, <2>9, OutdateType DEF IInv, TypeOK
    <3>6. TypeOK' /\ Base(<<f>> \o (<<g>> \o r))'
      BY <2>7, <3>1, <3>2, <3>3, <3>4, <3>5
    <3>7. PICK p : p = <<f>> \o (<<g>> \o r) /\ Base(p)'
      BY <3>6
    <3>8. PICK t : t = TellIntention(a)
      OBVIOUS
    <3>9. Stacked'
      <4>1. t.do = "tell" /\ agenda' = <<t>> \o p
        BY <2>9, <3>7, <3>8 DEF TellIntention, Tell, Frame
      <4>2. Base(p)' /\ t.do \in {"tell", "announce"}
        BY <3>7, <4>1
      <4>3. QED
        BY <4>1, <4>2, ToldStacked
    <3>10. QED
      BY <3>4, <3>6, <3>9 DEF PausesNext, IInv
  <2>10. QED
    BY <1>3, <2>1, <2>3, <2>4, <2>5, <2>8, <2>9 DEF PausesNext
<1>4. QED
  BY <1>2, <1>3 DEF PausesNext

\* Its preparation is paused, or stays active and the pause is still owed.
LEMMA PausePrepKeeps ==
  ASSUME IInv, PausePrep
  PROVE  IInv'
<1>1. Running("pausePrep") /\ Base(Rest)
  BY Resumes DEF PausePrep
<1>2. PICK a \in Actors : a = Head1.actor /\ travels[a] = None /\ queue[a] # "human"
  BY Resumes DEF PausePrep, FrameOK, WithActor
<1>3. PICK r : r = Rest
  OBVIOUS
<1>4. PICK f : f = Frame("settled", a, None, {}, None)
  OBVIOUS
<1>5. Plain(f) /\ f.do = "settled" /\ f.actor = a
  BY <1>4 DEF Frame, Plain, Tops, Lasts, Ends
<1>6. CASE UNCHANGED <<prep, outdated, lease>>
           /\ (agenda' = r \/ (~StillActive(a) /\ agenda' = <<f>> \o r))
  <2>1. Calm /\ Leased'
    BY <1>6, Unmoved DEF PausePrep, IInv, travelVars
  <2>2. Base(r)'
    BY <1>1, <1>3, <2>1, CalmRest
  <2>3. ~StillActive(a) => FrameOK(f)'
    BY <1>2, <1>5, <1>6 DEF PausePrep, StillActive, FrameOK, WithActor
  <2>4. Stacked'
    BY <1>5, <1>6, <2>2, <2>3, NowStacked, PlainStacked
  <2>5. TypeOK' /\ offences' = {}
    BY <1>6 DEF PausePrep, IInv, TypeOK, controlVars, travelVars, toldVars
  <2>6. QED
    BY <2>1, <2>4, <2>5 DEF IInv
<1>7. CASE /\ prep' = [prep EXCEPT ![a] = "paused"]
           /\ lease' = [lease EXCEPT ![a] = IF queue[a] = "human" THEN @ ELSE None]
           /\ Outdate({a})
           /\ agenda' = TellOutcome(a) \o <<f>> \o r
  <2>1. UNCHANGED <<controlVars, travels, status, queue>>
    BY DEF PausePrep, travelVars
  <2>2. /\ prep'[a] = "paused" /\ lease'[a] = None
        /\ \A b \in Actors \ {a} : prep'[b] = prep[b] /\ lease'[b] = lease[b]
    BY <1>2, <1>7 DEF IInv, TypeOK
  <2>3. Calm
    BY <2>1, <2>2 DEF Calm, controlVars
  <2>4. Leased'
    BY <1>2, <2>1, <2>2, Apart DEF IInv, Leased, controlVars
  <2>5. TypeOK' /\ offences' = {}
    <3>1. outdated' \subseteq Clients
      BY <1>7, OutdateType DEF IInv
    <3>2. QED
      BY <1>7, <3>1 DEF PausePrep, IInv, TypeOK, controlVars, travelVars, toldVars
  <2>6. Base(r)'
    BY <1>1, <1>3, <2>3, CalmRest
  <2>7. PICK t, u : t = Tell("outcome", Attached) /\ u = TellIntention(a)
    OBVIOUS
  <2>8. FrameOK(f)' /\ t.do = "tell" /\ u.do = "tell"
    BY <1>2, <1>5, <2>1, <2>2, <2>7 DEF FrameOK, WithActor, TellIntention, Tell, Frame
  <2>9. PICK q : q = <<f>> \o r /\ Base(q)'
    BY <1>5, <2>6, <2>8, BasePlain
  <2>10. PICK p : p = <<u>> \o q /\ Base(p)'
    BY <2>8, <2>9, BasePlain DEF Plain, FrameOK, Tops, Lasts, Ends, WithActor
  <2>11. agenda' = <<t>> \o p
    <3>1. agenda' = (<<t, u>> \o <<f>>) \o r
      BY <1>7, <2>7 DEF TellOutcome
    <3>2. (<<t, u>> \o <<f>>) \o r = <<t>> \o (<<u>> \o (<<f>> \o r))
      BY <2>6, PushedThree DEF Base, Structured
    <3>3. QED
      BY <2>9, <2>10, <3>1, <3>2
  <2>12. Stacked'
    <3>1. Base(p)' /\ t.do \in {"tell", "announce"}
      BY <2>8, <2>10
    <3>2. QED
      BY <2>11, <3>1, ToldStacked
  <2>13. QED
    BY <2>4, <2>5, <2>12 DEF IInv
<1>8. QED
  BY <1>2, <1>3, <1>4, <1>6, <1>7 DEF PausePrep

\* The pause is no longer owed.
LEMMA SettledKeeps ==
  ASSUME IInv, PauseSettled
  PROVE  IInv'
<1>1. Running("settled") /\ Base(Rest)
  BY Resumes DEF PauseSettled
<1>2. PICK a \in Actors : a = Head1.actor /\ queue[a] # "human" /\ prep[a] # "active"
  BY Resumes DEF PauseSettled, FrameOK, WithActor
<1>3. UNCHANGED <<controllers, autonomous, travels, status, queue, prep, lease>>
      /\ pendingPauses' = pendingPauses \ {a}
  BY <1>2 DEF PauseSettled, travelVars, engineVars
<1>4. Calm
  BY <1>3 DEF Calm
<1>5. Leased'
  BY <1>2, <1>3 DEF IInv, Leased
<1>6. PICK r : r = Rest /\ Base(r)'
  BY <1>1, <1>4, CalmRest
<1>7. Stacked'
  BY <1>6, NowStacked DEF PauseSettled
<1>8. TypeOK' /\ offences' = {}
  BY <1>3 DEF PauseSettled, IInv, TypeOK, clientVars, travelVars, engineVars, toldVars
<1>9. QED
  BY <1>5, <1>7, <1>8 DEF IInv

-----------------------------------------------------------------------------
(* Playing *)

\* What to do next is chosen; a turn is executed only if no pause is owed.
LEMMA ChooseKeeps ==
  ASSUME IInv, Choose
  PROVE  IInv'
<1>1. /\ Running("choose") /\ Head1.do = "choose" /\ Base(Rest) /\ Below(Head1, Rest)
  BY Resumes DEF Choose
<1>2. PICK r : r = Rest
  OBVIOUS
<1>3. NoTops(r) /\ \A g \in ToSet(r) : g.do \in {"refresh", "reply"}
  BY <1>1, <1>2 DEF Base, Below, Lasts
<1>4. UNCHANGED <<quiet, toldVars>>
  BY DEF Choose
<1>5. UNCHANGED <<clientVars, controlVars, travelVars, resetting, engineVars, panicked,
                  lease, offences, published, toldVars>>
  BY <1>4 DEF quiet
<1>6. /\ Calm /\ Leased' /\ TypeOK' /\ offences' = {}
  <2>1. Calm /\ Leased'
    BY <1>5, Unmoved DEF IInv, travelVars, engineVars
  <2>2. TypeOK' /\ offences' = {}
    BY <1>5 DEF IInv, TypeOK, clientVars, controlVars, travelVars, engineVars, toldVars
  <2>3. QED
    BY <2>1, <2>2
<1>7. Base(r)'
  BY <1>1, <1>2, <1>6, CalmRest
<1>8. ASSUME NEW f, f.do \in {"announce", "executeAi", "walk", "execute"},
             pendingPauses = {},
             f.do \in {"walk", "execute"} => f.actor \in Actors,
             f.do = "execute" => WorkDue(f.actor),
             f.do = "walk" => travels[f.actor] # None,
             agenda' = <<f>> \o r
      PROVE  Stacked'
  <2>1. Below(f, r)
    BY <1>3, <1>8 DEF Below, NoTops, Ends
  <2>2. UNCHANGED <<pendingPauses, travels, queue, dead, actorOf>>
    BY <1>5 DEF controlVars, travelVars, engineVars, clientVars
  <2>3. FrameOK(f)' /\ OnTop(f)'
    BY <1>8, <2>2 DEF FrameOK, OnTop, WithActor, WorkDue
  <2>4. QED
    BY <1>7, <1>8, <2>1, <2>3, TopStacked
<1>9. CASE agenda' = Rest
  BY <1>1, <1>4, <1>9, QuietKeeps
<1>10. CASE pendingPauses = {} /\ agenda' = <<Announce>> \o Rest
  <2>1. Announce.do = "announce"
    BY DEF Announce, Frame
  <2>2. PICK f : f = Announce
    OBVIOUS
  <2>3. Stacked'
    BY <1>2, <1>8, <1>10, <2>1, <2>2
  <2>4. QED
    BY <1>6, <2>3 DEF IInv
<1>11. CASE /\ pendingPauses = {}
            /\ \E a \in Actors : /\ WorkDue(a)
                                 /\ agenda' = <<Frame("execute", a, None, {}, None)>> \o Rest
  <2>1. PICK a \in Actors : /\ WorkDue(a)
                            /\ agenda' = <<Frame("execute", a, None, {}, None)>> \o Rest
    BY <1>11
  <2>2. PICK f : f = Frame("execute", a, None, {}, None)
    OBVIOUS
  <2>3. f.do = "execute" /\ f.actor = a
    BY <2>2 DEF Frame
  <2>4. Stacked'
    BY <1>2, <1>8, <1>11, <2>1, <2>2, <2>3
  <2>5. QED
    BY <1>6, <2>4 DEF IInv
<1>12. CASE /\ pendingPauses = {}
            /\ \E a \in Actors : /\ travels[a] # None
                                 /\ agenda' = <<Frame("walk", a, None, {}, None)>> \o Rest
  <2>1. PICK a \in Actors : /\ travels[a] # None
                            /\ agenda' = <<Frame("walk", a, None, {}, None)>> \o Rest
    BY <1>12
  <2>2. PICK f : f = Frame("walk", a, None, {}, None)
    OBVIOUS
  <2>3. f.do = "walk" /\ f.actor = a
    BY <2>2 DEF Frame
  <2>4. Stacked'
    BY <1>2, <1>8, <1>12, <2>1, <2>2, <2>3
  <2>5. QED
    BY <1>6, <2>4 DEF IInv
<1>13. CASE pendingPauses = {} /\ agenda' = <<Frame("executeAi", None, None, {}, None)>> \o Rest
  <2>1. PICK f : f = Frame("executeAi", None, None, {}, None)
    OBVIOUS
  <2>2. f.do = "executeAi"
    BY <2>1 DEF Frame
  <2>3. Stacked'
    BY <1>2, <1>8, <1>13, <2>1, <2>2
  <2>4. QED
    BY <1>6, <2>3 DEF IInv
<1>14. QED
  BY <1>9, <1>10, <1>11, <1>12, <1>13 DEF Choose

\* A decision is admitted and told of, or fails and ends autonomous play.
LEMMA AdmitAiKeeps ==
  ASSUME IInv, AdmitAi
  PROVE  IInv'
<1>1. Running("choose") /\ pendingPauses = {}
  BY DEF AdmitAi
<1>2. UNCHANGED <<controllers, pendingPauses, travels, status, queue, prep, lease>>
      /\ autonomous' \in BOOLEAN
  BY DEF AdmitAi, travelVars, IInv, TypeOK
<1>3. Calm /\ Leased'
  BY <1>1, <1>2 DEF Calm, IInv, Leased
<1>4. PICK r : r = Rest /\ Base(r)'
  BY <1>1, <1>3, CalmRest
<1>5. TypeOK' /\ offences' = {}
  BY <1>2 DEF AdmitAi, IInv, TypeOK, clientVars, travelVars, toldVars
<1>6. PICK t, u, f : /\ t = Tell("outcome", Attached)
                     /\ u = Tell("notice", {controllers[a] : a \in Actors} \ {None})
                     /\ f = Frame("executeAi", None, None, {}, None)
  OBVIOUS
<1>7. t.do = "tell" /\ u.do = "tell" /\ f.do = "executeAi" /\ Plain(f)
  BY <1>6 DEF Tell, Frame, Plain, Tops, Lasts, Ends
<1>8. agenda' = <<t, f>> \o r \/ agenda' = <<u>> \o r
  BY <1>4, <1>6 DEF AdmitAi
<1>9. CASE agenda' = <<u>> \o r
  BY <1>4, <1>7, <1>9, ToldStacked, <1>3, <1>5 DEF IInv
<1>10. CASE agenda' = <<t, f>> \o r
  <2>1. FrameOK(f)'
    BY <1>1, <1>2, <1>7 DEF FrameOK, WithActor
  <2>2. PICK q : q = <<f>> \o r /\ Base(q)'
    BY <1>4, <1>7, <2>1, BasePlain
  <2>3. Base(q)' /\ t.do \in {"tell", "announce"}
    BY <1>7, <2>2
  <2>4. agenda' = <<t>> \o q
    <3>1. r \in Seq(ToSet(r))
      BY <1>4 DEF Base, Structured
    <3>2. <<t, f>> \o r = <<t>> \o (<<f>> \o r)
      BY <3>1, PushedTwo
    <3>3. QED
      BY <1>10, <2>2, <3>2
  <2>5. Stacked'
    BY <2>3, <2>4, ToldStacked
  <2>6. QED
    BY <1>3, <1>5, <2>5 DEF IInv
<1>11. QED
  BY <1>8, <1>9, <1>10

\* While no pause is owed, no lease is lost.
LEMMA NoneLost ==
  ASSUME Leased, pendingPauses = {}
  PROVE  \A a \in Actors : lease[a] # Lost
  BY DEF Leased

\* Nothing that should not be executed is.
LEMMA NoOffence ==
  ASSUME IInv, pendingPauses = {}, NEW ok, ok = TRUE, Executes(ok)
  PROVE  offences' = {}
  BY NoneLost DEF Executes, IInv

\* Time passes.
LEMMA TimeTypes ==
  ASSUME TypeOK, NEW a \in Actors, TimePasses(a)
  PROVE  /\ prep' \in [Actors -> {"none", "active", "paused"}] /\ dead' \subseteq Actors
         /\ \A b \in Actors \ {a} : prep'[b] = "active" => prep[b] = "active"
<1>1. PICK ended \in SUBSET {b \in Actors \ {a} : prep[b] = "active"},
           p \in {prep[a], "none", "active"} :
        prep' = [b \in Actors |-> IF b = a THEN p
                                 ELSE IF b \in ended THEN "none" ELSE prep[b]]
  BY DEF TimePasses
<1>2. PICK slain \in {{}} \cup {{b} : b \in Actors} : dead' = dead \cup slain
  BY DEF TimePasses
<1>3. dead' \subseteq Actors
  BY <1>2 DEF TypeOK
<1>4. p \in {"none", "active", "paused"}
  BY DEF TypeOK
<1>5. QED
  BY <1>1, <1>3, <1>4 DEF TypeOK

\* An outcome is told of, then something else.
LEMMA OutcomeStacked ==
  ASSUME NEW a, NEW r, Base(r)', agenda' = <<Tell("outcome", Attached), a>> \o r,
         a.do \in {"tell", "announce"}
  PROVE  Stacked'
<1>1. PICK t : t = Tell("outcome", Attached)
  OBVIOUS
<1>2. t.do = "tell"
  BY <1>1 DEF Tell, Frame
<1>3. PICK q : q = <<a>> \o r /\ Base(q)'
  BY BasePlain DEF Plain, FrameOK, Tops, Lasts, Ends, WithActor
<1>4. agenda' = <<t>> \o q
  <2>1. r \in Seq(ToSet(r))
    BY DEF Base, Structured
  <2>2. <<t, a>> \o r = <<t>> \o (<<a>> \o r)
    BY <2>1, PushedTwo
  <2>3. QED
    BY <1>1, <1>3, <2>2
<1>5. Base(q)' /\ t.do \in {"tell", "announce"}
  BY <1>2, <1>3
<1>6. QED
  BY <1>4, <1>5, ToldStacked

\* Human work is executed under the lease it was queued under.
LEMMA ExecuteHumanKeeps ==
  ASSUME IInv, ExecuteHuman
  PROVE  IInv'
<1>1. /\ Running("execute") /\ Head1.do = "execute" /\ Base(Rest) /\ Below(Head1, Rest)
      /\ pendingPauses = {} /\ WorkDue(Head1.actor)
  BY Resumes DEF ExecuteHuman, OnTop
<1>2. PICK a \in Actors : a = Head1.actor
  BY Resumes DEF ExecuteHuman, FrameOK, WithActor
<1>3. PICK r : r = Rest
  OBVIOUS
<1>4. Base(r)' /\ <<>> \o r = r
  <2>1. \A g \in ToSet(r) : g.do \in {"refresh", "reply"}
    BY <1>1, <1>3 DEF Below, Lasts
  <2>2. r \in Seq(ToSet(r))
    BY <1>1, <1>3 DEF Base, Structured
  <2>3. QED
    BY <1>1, <1>3, <2>1, <2>2, EndKept, NothingPushed
<1>5. queue[a] # "travel" /\ (queue[a] = "human" \/ a \in dead)
  BY <1>1, <1>2 DEF ExecuteHuman, WorkDue
<1>6. /\ UNCHANGED <<arrived, actorOf, readiness, controlVars, travelVars, resetting,
                     panicked, toldVars, published>>
  BY DEF ExecuteHuman
<1>7. UnderLease(a) = TRUE
  BY <1>1, <1>5, NoneLost DEF UnderLease, IInv, Leased
<1>8. CASE /\ TimePasses(a) /\ ExecutedBy(a) /\ Executes(UnderLease(a))
           /\ agenda' = TellOutcome(a) \o r
  <2>1. offences' = {}
    BY <1>1, <1>7, <1>8, NoOffence
  <2>2. /\ prep' \in [Actors -> {"none", "active", "paused"}] /\ dead' \subseteq Actors
        /\ queue' = [queue EXCEPT ![a] = "none"]
        /\ lease' = [lease EXCEPT ![a] = IF prep'[a] = "active" \/ travels[a] # None
                                         THEN @ ELSE None]
        /\ outdated' \subseteq Clients
    BY <1>8, TimeTypes, OutdateType DEF ExecutedBy, IInv
  <2>3. TypeOK'
    BY <1>6, <2>2 DEF IInv, TypeOK, controlVars, travelVars, toldVars
  <2>4. Leased'
    <3>1. /\ queue'[a] = "none" /\ lease'[a] \in {lease[a], None}
          /\ travels[a] # None => lease'[a] = lease[a]
          /\ \A b \in Actors \ {a} : queue'[b] = queue[b] /\ lease'[b] = lease[b]
      BY <2>2 DEF IInv, TypeOK
    <3>2. \A b \in Actors : lease[b] # Lost
      BY <1>1, NoneLost DEF IInv
    <3>3. UNCHANGED <<controllers, travels, status, pendingPauses>>
      BY <1>6 DEF controlVars, travelVars
    <3>4. QED
      BY <3>1, <3>2, <3>3, Apart DEF IInv, Leased
  <2>5. Stacked'
    <3>1. PICK u : u = TellIntention(a)
      OBVIOUS
    <3>2. u.do \in {"tell", "announce"}
      BY <3>1 DEF TellIntention, Tell, Frame
    <3>3. agenda' = <<Tell("outcome", Attached), u>> \o r
      BY <1>8, <3>1 DEF TellOutcome
    <3>4. QED
      BY <1>4, <3>2, <3>3, OutcomeStacked
  <2>6. QED
    BY <2>1, <2>3, <2>4, <2>5 DEF IInv
<1>9. CASE /\ agenda' = (IF HumanMayRun(a) /\ controllers[a] # None
                         THEN <<Tell("notice", {controllers[a]})>> ELSE <<>>)
                        \o <<Announce>> \o r
           /\ UNCHANGED <<engineVars, outdated, lease, offences>>
  <2>1. Leased' /\ TypeOK' /\ offences' = {}
    BY <1>6, <1>9, Unmoved
    DEF IInv, TypeOK, controlVars, travelVars, engineVars, toldVars
  <2>2. PICK t, u : t = Tell("notice", {controllers[a]}) /\ u = Announce
    OBVIOUS
  <2>3. t.do = "tell" /\ u.do = "announce"
    BY <2>2 DEF Tell, Announce, Frame
  <2>4. PICK q : q = <<u>> \o r /\ Base(q)'
    BY <1>4, <2>3, BasePlain DEF Plain, FrameOK, Tops, Lasts, Ends, WithActor
  <2>5. agenda' = <<t>> \o q \/ agenda' = q
    <3>1. r \in Seq(ToSet(r))
      BY <1>4 DEF Base, Structured
    <3>2. (<<t>> \o <<u>>) \o r = <<t>> \o (<<u>> \o r)
      BY <3>1, PushedOneOne
    <3>3. <<>> \o <<u>> = <<u>>
      BY PairWritten, ConcatEmptySeq
    <3>4. agenda' = (<<t>> \o <<u>>) \o r \/ agenda' = (<<>> \o <<u>>) \o r
      BY <1>9, <2>2
    <3>5. QED
      BY <2>4, <3>2, <3>3, <3>4
  <2>6. Base(q)' /\ t.do \in {"tell", "announce"}
    BY <2>3, <2>4
  <2>7. Stacked'
    BY <2>5, <2>6, ToldStacked, NowStacked
  <2>8. QED
    BY <2>1, <2>7 DEF IInv
<1>10. QED
  BY <1>2, <1>3, <1>8, <1>9 DEF ExecuteHuman

\* A decision is executed with a driver, or the game waits.
LEMMA ExecuteAiKeeps ==
  ASSUME IInv, ExecuteAi
  PROVE  IInv'
<1>1. /\ Running("executeAi") /\ Base(Rest) /\ (pendingPauses = {} \/ ~autonomous)
  BY Resumes DEF ExecuteAi, FrameOK
<1>2. /\ UNCHANGED <<arrived, actorOf, readiness, controlVars, travelVars, resetting,
                     panicked, toldVars, published>>
  BY DEF ExecuteAi
<1>3. PICK t, u : t = Tell("outcome", Attached) /\ u = Announce
  OBVIOUS
<1>4. t.do \in {"tell", "announce"} /\ u.do \in {"tell", "announce"}
  BY <1>3 DEF Tell, Announce, Frame
<1>5. CASE /\ Drives
           /\ \E a \in Actors : TimePasses(a) /\ prep'[a] \in {prep[a], "none"}
           /\ Outdate(Actors) /\ Executes(autonomous /\ HasDriver)
           /\ agenda' = <<Tell("outcome", Attached)>> \o Rest
           /\ UNCHANGED <<queue, lease>>
  <2>1. PICK a \in Actors : TimePasses(a) /\ prep'[a] \in {prep[a], "none"}
    BY <1>5
  <2>2. pendingPauses = {} /\ (autonomous /\ HasDriver) = TRUE
    BY <1>1, <1>5 DEF Drives
  <2>3. offences' = {}
    BY <1>5, <2>2, NoOffence
  <2>4. /\ prep' \in [Actors -> {"none", "active", "paused"}] /\ dead' \subseteq Actors
        /\ \A b \in Actors : prep'[b] = "active" => prep[b] = "active"
        /\ outdated' \subseteq Clients
    <3>1. outdated' \subseteq Clients
      BY <1>5, OutdateType DEF IInv
    <3>2. QED
      BY <2>1, <3>1, TimeTypes DEF IInv
  <2>5. TypeOK'
    BY <1>2, <1>5, <2>4 DEF IInv, TypeOK, controlVars, travelVars, toldVars
  <2>6. Calm
    BY <1>2, <1>5, <2>4 DEF Calm, controlVars, travelVars
  <2>7. Leased'
    <3>1. \A b \in Actors : lease[b] # Lost
      BY <2>2, NoneLost DEF IInv
    <3>2. QED
      BY <1>2, <1>5, <3>1 DEF IInv, Leased, controlVars, travelVars
  <2>8. PICK r : r = Rest /\ Base(r)'
    BY <1>1, <2>6, CalmRest
  <2>9. Stacked'
    BY <1>3, <1>4, <1>5, <2>8, ToldStacked
  <2>10. QED
    BY <2>3, <2>5, <2>7, <2>9 DEF IInv
<1>6. CASE /\ agenda' = <<Announce>> \o Rest
           /\ UNCHANGED <<engineVars, outdated, lease, offences>>
  <2>1. Calm /\ Leased' /\ TypeOK' /\ offences' = {}
    BY <1>2, <1>6, Unmoved
    DEF IInv, TypeOK, controlVars, travelVars, engineVars, toldVars
  <2>2. PICK r : r = Rest /\ Base(r)'
    BY <1>1, <2>1, CalmRest
  <2>3. Stacked'
    BY <1>3, <1>4, <1>6, <2>2, ToldStacked
  <2>4. QED
    BY <2>1, <2>3 DEF IInv
<1>7. QED
  BY <1>5, <1>6 DEF ExecuteAi

\* A step of a journey is executed under its owner's lease.
LEMMA ExecuteTravelKeeps ==
  ASSUME IInv, ExecuteTravel
  PROVE  IInv'
<1>1. /\ Running("execute") /\ Head1.do = "execute" /\ Base(Rest) /\ Below(Head1, Rest)
      /\ pendingPauses = {}
  BY Resumes DEF ExecuteTravel, OnTop
<1>2. PICK a \in Actors : a = Head1.actor
  BY Resumes DEF ExecuteTravel, FrameOK, WithActor
<1>3. PICK r : r = Rest
  OBVIOUS
<1>4. Base(r)' /\ r \in Seq(ToSet(r))
  <2>1. \A g \in ToSet(r) : g.do \in {"refresh", "reply"}
    BY <1>1, <1>3 DEF Below, Lasts
  <2>2. QED
    BY <1>1, <1>3, <2>1, EndKept DEF Base, Structured
<1>5. /\ UNCHANGED <<arrived, actorOf, readiness, controlVars, pendingCancels, broadcasting,
                     resetting, panicked, toldVars, published>>
      /\ queue[a] = "travel" /\ travels[a] # None
  BY <1>2 DEF ExecuteTravel
<1>6. /\ travels[a] \in Jobs /\ travels[a].owner \in Clients
      /\ lease[a] = travels[a].owner /\ controllers[a] = travels[a].owner
      /\ status[a] \in Statuses /\ status[a].active
  <2>1. travels[a] \in Jobs /\ status[a] \in Statuses
    BY <1>5 DEF IInv, TypeOK, Leased
  <2>2. QED
    BY <1>5, <2>1 DEF IInv, Leased, Jobs
<1>7. UnderLease(a) = TRUE
  BY <1>6 DEF UnderLease
<1>8. ASSUME NEW moved \in BOOLEAN,
             TimePasses(a), ExecutedBy(a), Executes(UnderLease(a)),
             travels' = [travels EXCEPT ![a].pending = FALSE],
             status' = [status EXCEPT ![a].odd = (@ # moved)],
             agenda' = TellOutcome(a) \o <<Finish(a, moved)>> \o r
      PROVE  IInv'
  <2>1. offences' = {}
    BY <1>1, <1>7, <1>8, NoOffence
  <2>2. /\ prep' \in [Actors -> {"none", "active", "paused"}] /\ dead' \subseteq Actors
        /\ queue' = [queue EXCEPT ![a] = "none"] /\ lease' = lease
        /\ outdated' \subseteq Clients
    <3>1. outdated' \subseteq Clients
      BY <1>8, OutdateType DEF ExecutedBy, IInv
    <3>2. lease' = [lease EXCEPT ![a] = @]
      BY <1>5, <1>8 DEF ExecutedBy
    <3>3. QED
      BY <1>8, <3>1, <3>2, TimeTypes DEF ExecutedBy, IInv, TypeOK
  <2>3. /\ travels' \in [Actors -> Jobs \cup {None}]
        /\ travels'[a] \in Jobs /\ travels'[a].owner = travels[a].owner
        /\ \A b \in Actors \ {a} : travels'[b] = travels[b]
    <3>1. PICK j : j = [travels[a] EXCEPT !.pending = FALSE]
      OBVIOUS
    <3>2. j \in Jobs /\ j.owner = travels[a].owner
      BY <1>6, <3>1 DEF Jobs
    <3>3. travels' = [travels EXCEPT ![a] = j]
      BY <1>8, <3>1
    <3>4. QED
      BY <3>2, <3>3 DEF IInv, TypeOK
  <2>4. /\ status' \in [Actors -> Statuses \cup {None}]
        /\ status'[a] \in Statuses /\ status'[a].active
        /\ \A b \in Actors \ {a} : status'[b] = status[b]
    <3>1. PICK j : j = [status[a] EXCEPT !.odd = (@ # moved)]
      OBVIOUS
    <3>2. j \in Statuses /\ j.active
      BY <1>6, <3>1 DEF Statuses
    <3>3. status' = [status EXCEPT ![a] = j]
      BY <1>8, <3>1
    <3>4. QED
      BY <3>2, <3>3 DEF IInv, TypeOK
  <2>5. TypeOK'
    BY <1>5, <2>2, <2>3, <2>4 DEF IInv, TypeOK, controlVars, toldVars
  <2>6. Leased'
    <3>1. queue'[a] = "none" /\ \A b \in Actors \ {a} : queue'[b] = queue[b]
      BY <2>2 DEF IInv, TypeOK
    <3>2. \A b \in Actors : lease[b] # Lost
      BY <1>1, NoneLost DEF IInv
    <3>3. UNCHANGED <<controllers, pendingPauses>>
      BY <1>5 DEF controlVars
    <3>4. ASSUME NEW b \in Actors \ {a}
          PROVE  /\ queue'[b] = queue[b] /\ travels'[b] = travels[b]
                 /\ status'[b] = status[b] /\ lease'[b] = lease[b]
                 /\ controllers'[b] = controllers[b]
      BY <2>2, <2>3, <2>4, <3>1, <3>3
    <3>5. /\ queue'[a] # "human" /\ lease'[a] = travels'[a].owner
          /\ controllers'[a] = travels'[a].owner
          /\ status'[a] # None /\ status'[a].active
      BY <1>6, <2>2, <2>3, <2>4, <3>1, <3>3, Apart
    <3>6. QED
      BY <1>1, <2>2, <3>2, <3>3, <3>4, <3>5 DEF IInv, Leased
  <2>7. PICK t, u, f : t = Tell("outcome", Attached) /\ u = TellIntention(a)
                       /\ f = Finish(a, moved)
    OBVIOUS
  <2>8. /\ t.do = "tell" /\ u.do = "tell" /\ f.do = "finish" /\ f.actor = a
    BY <2>7 DEF Tell, TellIntention, Finish, Frame
  <2>9. PICK q : q = <<f>> \o r /\ Base(q)'
    BY <1>4, <2>8, BasePlain DEF Plain, FrameOK, Tops, Lasts, Ends
  <2>10. PICK p : p = <<u>> \o q /\ Base(p)'
    BY <2>8, <2>9, BasePlain DEF Plain, FrameOK, Tops, Lasts, Ends, WithActor
  <2>11. agenda' = <<t>> \o p
    <3>1. agenda' = (<<t, u>> \o <<f>>) \o r
      BY <1>8, <2>7 DEF TellOutcome
    <3>2. (<<t, u>> \o <<f>>) \o r = <<t>> \o (<<u>> \o (<<f>> \o r))
      <4>1. r \in Seq(ToSet(r))
        BY <1>4
      <4>2. \A x, y, z : (<<x, y>> \o <<z>>) \o r = <<x>> \o (<<y>> \o (<<z>> \o r))
        BY <4>1, PushedThree
      <4>3. QED
        BY <4>2
    <3>3. QED
      BY <2>9, <2>10, <3>1, <3>2
  <2>12. Base(p)' /\ t.do \in {"tell", "announce"}
    BY <2>8, <2>10
  <2>13. Stacked'
    BY <2>11, <2>12, ToldStacked
  <2>14. QED
    BY <2>1, <2>5, <2>6, <2>13 DEF IInv
<1>9. CASE /\ agenda' = <<Tell("notice", {controllers[a]}), Announce>> \o r
           /\ UNCHANGED <<queue, prep, dead, outdated, lease, offences, travels, status>>
  <2>1. Leased' /\ TypeOK' /\ offences' = {}
    BY <1>5, <1>9, Unmoved DEF IInv, TypeOK, controlVars, toldVars
  <2>2. PICK t, u : t = Tell("notice", {controllers[a]}) /\ u = Announce
    OBVIOUS
  <2>3. t.do \in {"tell", "announce"} /\ u.do = "announce"
    BY <2>2 DEF Tell, Announce, Frame
  <2>4. PICK q : q = <<u>> \o r /\ Base(q)'
    BY <1>4, <2>3, BasePlain DEF Plain, FrameOK, Tops, Lasts, Ends, WithActor
  <2>5. agenda' = <<t>> \o q
    <3>1. <<t, u>> \o r = <<t>> \o (<<u>> \o r)
      BY <1>4, PushedTwo
    <3>2. QED
      BY <1>9, <2>2, <2>4, <3>1
  <2>6. Base(q)'
    BY <2>4
  <2>7. Stacked'
    BY <2>3, <2>5, <2>6, ToldStacked
  <2>8. QED
    BY <2>1, <2>7 DEF IInv
<1>10. QED
  BY <1>2, <1>3, <1>8, <1>9 DEF ExecuteTravel

\* A journey goes on after its step, or ends.
LEMMA FinishKeeps ==
  ASSUME IInv, FinishTravel
  PROVE  IInv'
<1>1. Running("finish") /\ Base(Rest) /\ Head1.do = "finish" /\ Head1.actor \in Actors
      /\ Below(Head1, Rest)
  BY Resumes DEF FinishTravel, FrameOK, WithActor
<1>2. CASE agenda' = Rest /\ UNCHANGED <<quiet, toldVars>>
  BY <1>1, <1>2, QuietKeeps
<1>3. CASE StopHere(Head1.actor)
  BY <1>1, <1>3, StopHereKeeps DEF WithActor
<1>4. CASE agenda' = <<TravelUpdate(Head1.actor)>> \o Rest /\ UNCHANGED <<quiet, toldVars>>
  <2>1. PICK f : f = TravelUpdate(Head1.actor)
    OBVIOUS
  <2>2. f.do = "travel" /\ f.actor = Head1.actor
    BY <2>1 DEF TravelUpdate, Frame
  <2>3. Below(f, Rest) /\ FrameOK(f) /\ f.do \notin Tops
    BY <1>1, <2>2 DEF Below, FrameOK, Tops, Lasts, Ends, WithActor
  <2>4. Base(<<f>> \o Rest)
    BY <1>1, <2>3, PushedNow
  <2>5. QED
    BY <1>4, <2>1, <2>4, QuietKeeps
<1>5. QED
  BY <1>2, <1>3, <1>4 DEF FinishTravel

\* The next step of a journey is queued.
LEMMA WalkKeeps ==
  ASSUME IInv, Walk
  PROVE  IInv'
<1>1. Running("walk") /\ Base(Rest) /\ Head1.actor \in Actors
      /\ travels[Head1.actor] # None
  BY Resumes DEF Walk, FrameOK, OnTop, WithActor
<1>2. CASE agenda' = Rest /\ UNCHANGED <<quiet, toldVars>>
  BY <1>1, <1>2, QuietKeeps
<1>3. CASE StopHere(Head1.actor)
  BY <1>1, <1>3, StopHereKeeps DEF WithActor
<1>4. PICK a \in Actors : a = Head1.actor
  BY <1>1
<1>5. CASE /\ queue' = [queue EXCEPT ![a] = "travel"]
           /\ travels' = [travels EXCEPT ![a].pending = TRUE]
           /\ Outdate({a})
           /\ agenda' = Rest
           /\ UNCHANGED <<arrived, actorOf, readiness, controlVars, status, pendingCancels,
                          broadcasting, resetting, prep, dead, panicked, toldVars,
                          lease, offences, published>>
  <2>1. travels[a] \in Jobs /\ travels[a].owner \in Clients
    BY <1>1, <1>4 DEF IInv, TypeOK, Jobs
  <2>2. /\ travels' \in [Actors -> Jobs \cup {None}]
        /\ travels'[a] \in Jobs /\ travels'[a].owner = travels[a].owner
        /\ \A b \in Actors \ {a} : travels'[b] = travels[b]
    <3>1. PICK j : j = [travels[a] EXCEPT !.pending = TRUE]
      OBVIOUS
    <3>2. j \in Jobs /\ j.owner = travels[a].owner
      BY <2>1, <3>1 DEF Jobs
    <3>3. travels' = [travels EXCEPT ![a] = j]
      BY <1>5, <3>1
    <3>4. QED
      BY <3>2, <3>3 DEF IInv, TypeOK
  <2>3. queue'[a] = "travel" /\ \A b \in Actors \ {a} : queue'[b] = queue[b]
    BY <1>5 DEF IInv, TypeOK
  <2>4. TypeOK' /\ offences' = {}
    <3>1. outdated' \subseteq Clients
      BY <1>5, OutdateType DEF IInv
    <3>2. QED
      BY <1>5, <2>2, <3>1 DEF IInv, TypeOK, controlVars, toldVars
  <2>5. Calm
    BY <1>1, <1>4, <1>5, <2>2, <2>3 DEF Calm, controlVars
  <2>6. Leased'
    <3>1. a \notin pendingPauses /\ lease[a] # Lost
          /\ lease[a] = travels[a].owner /\ controllers[a] = travels[a].owner
          /\ status[a] # None /\ status[a].active
      BY <1>1, <1>4, <2>1, Apart DEF IInv, Leased
    <3>2. QED
      BY <1>5, <2>2, <2>3, <3>1 DEF IInv, Leased, controlVars
  <2>7. PICK r : r = Rest /\ Base(r)'
    BY <1>1, <2>5, CalmRest
  <2>8. Stacked'
    BY <1>5, <2>7, NowStacked
  <2>9. QED
    BY <2>4, <2>6, <2>8 DEF IInv
<1>6. QED
  BY <1>2, <1>3, <1>4, <1>5 DEF Walk

-----------------------------------------------------------------------------
(* Requests *)

\* A request goes on with frames that may lie anywhere, and then answers.
LEMMA HandleStacked ==
  ASSUME NEW c, NEW p, p \in Seq(ToSet(p)), \A f \in ToSet(p) : Plain(f) /\ FrameOK(f)',
         Handle(c, p)
  PROVE  Stacked'
<1>1. PICK r : r = Answering(c) /\ Base(r)'
  BY BaseAnswering
<1>2. PICK q : q = p \o r /\ Base(q)'
  BY <1>1, BaseMany
<1>3. agenda' = q
  BY <1>1, <1>2 DEF Handle, Begin
<1>4. QED
  BY <1>2, <1>3, NowStacked

\* A request is only answered.
LEMMA AnswerStacked ==
  ASSUME NEW c, Handle(c, <<>>)
  PROVE  Stacked'
<1>1. <<>> \in Seq(ToSet(<<>>)) /\ ToSet(<<>>) = {}
  BY EmptyStack DEF Structured
<1>2. QED
  BY <1>1, HandleStacked

\* A request tells of an outcome.
LEMMA OutcomeHandled ==
  ASSUME NEW c, NEW a, Handle(c, TellOutcome(a))
  PROVE  Stacked'
<1>1. PICK t, u : t = Tell("outcome", Attached) /\ u = TellIntention(a)
  OBVIOUS
<1>2. t.do = "tell" /\ u.do = "tell"
  BY <1>1 DEF Tell, TellIntention, Frame
<1>3. PICK p : p = <<t, u>>
  OBVIOUS
<1>4. p \in Seq(ToSet(p)) /\ ToSet(p) = {t, u}
  <2>1. p \in Seq({t, u}) /\ Len(p) = 2 /\ p[1] = t /\ p[2] = u
    BY <1>3
  <2>2. DOMAIN p = 1..2
    BY <2>1, LenProperties
  <2>3. \A i \in 1..2 : i = 1 \/ i = 2
    OBVIOUS
  <2>4. ToSet(p) = {t, u}
    BY <2>1, <2>2, <2>3 DEF ToSet
  <2>5. QED
    BY <2>1, <2>4
<1>5. \A f \in ToSet(p) : Plain(f) /\ FrameOK(f)'
  BY <1>2, <1>4 DEF Plain, FrameOK, Tops, Lasts, Ends, WithActor
<1>6. Handle(c, p)
  BY <1>1, <1>3 DEF TellOutcome
<1>7. QED
  BY <1>4, <1>5, <1>6, HandleStacked

\* A request pushes one frame.
LEMMA OneHandled ==
  ASSUME NEW c, NEW f, Plain(f), FrameOK(f)', Handle(c, <<f>>)
  PROVE  Stacked'
<1>1. PICK p : p = <<f>>
  OBVIOUS
<1>2. p \in Seq(ToSet(p)) /\ ToSet(p) = {f}
  BY <1>1 DEF ToSet
<1>3. QED
  BY <1>1, <1>2, HandleStacked

\* A snapshot begins a handler.
LEMMA SnapshotFirst ==
  ASSUME NEW c, c \in Attached', agenda' = <<Frame("snapshot", None, c, {}, None), Refresh>>
  PROVE  Stacked'
<1>1. PICK f : f = Frame("snapshot", None, c, {}, None)
  OBVIOUS
<1>2. f.do = "snapshot" /\ f.client = c
  BY <1>1 DEF Frame
<1>3. PICK r : r = <<Refresh>> \o <<>> /\ Base(r)'
  BY BaseAnswering, Written
<1>4. Below(f, r)
  BY <1>2, <1>3 DEF Below, Base, NoTops, Lasts, Ends
<1>5. agenda' = <<f>> \o r
  BY <1>1, <1>3, Written
<1>6. QED
  BY <1>2, <1>3, <1>4, <1>5, TopStacked DEF FrameOK, OnTop, WithActor

\* Requests that change nothing but who is attached.
LEMMA AsksKeep ==
  ASSUME IInv, NEW c \in Clients,
         (\E a \in Actors : Attach(c, a)) \/ Query(c) \/ Look(c)
  PROVE  IInv'
<1>1. CASE \E a \in Actors : Attach(c, a)
  <2>1. PICK a \in Actors : Attach(c, a)
    BY <1>1
  <2>2. /\ arrived' = arrived \cup {c} /\ actorOf' = [actorOf EXCEPT ![c] = a]
        /\ agenda' = <<Frame("snapshot", None, c, {}, None), Refresh>>
        /\ published' = TRUE
        /\ UNCHANGED <<readiness, outdated, controlVars, travelVars, engineVars, toldVars,
                       lease, resetting, panicked, offences>>
    BY <2>1 DEF Attach, Begin
  <2>3. TypeOK' /\ offences' = {}
    BY <2>2 DEF IInv, TypeOK, controlVars, travelVars, engineVars, toldVars
  <2>4. Leased'
    BY <2>2, Unmoved DEF IInv, travelVars, engineVars
  <2>5. c \in Attached'
    BY <2>2, Apart DEF Attached, IInv, TypeOK
  <2>6. QED
    BY <2>2, <2>3, <2>4, <2>5, SnapshotFirst DEF IInv
<1>2. CASE Query(c)
  <2>1. TypeOK' /\ offences' = {} /\ Leased'
    BY <1>2, Unmoved DEF Query, Handle, Begin, IInv, TypeOK, clientVars, controlVars,
                         travelVars, engineVars, toldVars
  <2>2. Stacked'
    BY <1>2, AnswerStacked DEF Query
  <2>3. QED
    BY <2>1, <2>2 DEF IInv
<1>3. CASE Look(c)
  <2>1. TypeOK' /\ offences' = {} /\ Leased'
    BY <1>3, Unmoved DEF Look, Begin, IInv, TypeOK, clientVars, controlVars,
                         travelVars, engineVars, toldVars
  <2>2. c \in Attached'
    BY <1>3 DEF Look, clientVars, Attached
  <2>3. CASE agenda' = <<Tell("outcome", {c}), Refresh>>
    <3>1. PICK t : t = Tell("outcome", {c})
      OBVIOUS
    <3>2. t.do = "tell"
      BY <3>1 DEF Tell, Frame
    <3>3. PICK r : r = <<Refresh>> \o <<>> /\ Base(r)'
      BY BaseAnswering, Written
    <3>4. agenda' = <<t>> \o r
      BY <2>3, <3>1, <3>3, Written
    <3>5. Base(r)' /\ t.do \in {"tell", "announce"}
      BY <3>2, <3>3
    <3>6. Stacked'
      BY <3>4, <3>5, ToldStacked
    <3>7. QED
      BY <2>1, <3>6 DEF IInv
  <2>4. CASE agenda' = <<Frame("snapshot", None, c, {}, None), Refresh>>
    BY <2>1, <2>2, <2>4, SnapshotFirst DEF IInv
  <2>5. QED
    BY <1>3, <2>3, <2>4 DEF Look, Begin
<1>4. QED
  BY <1>1, <1>2, <1>3

\* Nothing that frames rely on matters when a handler begins.
LEMMA BeginKeeps ==
  ASSUME IInv, NEW frames, NEW ends \in BOOLEAN, Begin(frames, ends),
         UNCHANGED <<clientVars, controllers, pendingPauses, travelVars, engineVars, toldVars,
                     lease>>,
         autonomous' \in BOOLEAN
  PROVE  TypeOK' /\ Leased' /\ offences' = {} /\ UNCHANGED travels
         /\ UNCHANGED <<queue, prep, status>>
<1>1. UNCHANGED <<resetting, panicked, offences>> /\ published' = ends
  BY DEF Begin
<1>2. TypeOK' /\ offences' = {}
  BY <1>1 DEF IInv, TypeOK, clientVars, travelVars, engineVars, toldVars
<1>3. Leased' /\ UNCHANGED <<travels, queue, prep, status>>
  BY DEF IInv, Leased, travelVars, engineVars
<1>4. QED
  BY <1>2, <1>3

\* Pauses owed are owed for actors without a journey.
LEMMA PausesFrame ==
  ASSUME IInv, NEW f, f = ApplyPauses, UNCHANGED travels
  PROVE  Plain(f) /\ FrameOK(f)'
<1>1. f.do = "pauses" /\ f.to = pendingPauses
  BY DEF ApplyPauses, Frame
<1>2. \A a \in f.to : a \in Actors /\ travels'[a] = None
  BY <1>1 DEF IInv, TypeOK, Leased
<1>3. QED
  BY <1>1, <1>2 DEF Plain, FrameOK, Tops, Lasts, Ends, WithActor

\* Requests about control.
LEMMA ControlKeeps ==
  ASSUME IInv, NEW c \in Clients, Continue(c) \/ AcquireControl(c) \/ ReleaseControl(c)
  PROVE  IInv'
<1>1. CASE Continue(c)
  <2>1. TypeOK' /\ offences' = {} /\ Leased'
    BY <1>1, BeginKeeps DEF Continue, Handle
  <2>2. Stacked'
    BY <1>1, AnswerStacked DEF Continue
  <2>3. QED
    BY <2>1, <2>2 DEF IInv
<1>2. CASE AcquireControl(c)
  <2>1. PICK a \in Actors : a = actorOf[c]
    BY <1>2 DEF AcquireControl, MayAct, Attached, IInv, TypeOK
  <2>2. TypeOK' /\ offences' = {} /\ Leased' /\ UNCHANGED travels
    BY <1>2, BeginKeeps DEF AcquireControl, Handle, controlVars, IInv, TypeOK
  <2>3. PICK f, g : f = ApplyPauses /\ g = Frame("acquire", a, c, {}, None)
    OBVIOUS
  <2>4. g.do = "acquire" /\ g.actor = a /\ g.client = c
    BY <2>3 DEF Frame
  <2>5. PICK r : r = Answering(c) /\ Base(r)' /\ \A h \in ToSet(r) : h.do \in {"refresh", "reply"}
    <3>1. ToSet(Answering(c)) = {Refresh, Reply(c)}
      <4>1. Len(Answering(c)) = 2 /\ Answering(c) \in Seq({Refresh, Reply(c)})
            /\ Answering(c)[1] = Refresh /\ Answering(c)[2] = Reply(c)
        BY DEF Answering
      <4>2. DOMAIN Answering(c) = 1..2 /\ \A i \in 1..2 : i = 1 \/ i = 2
        BY <4>1, LenProperties
      <4>3. QED
        BY <4>1, <4>2 DEF ToSet
    <3>2. Refresh.do = "refresh" /\ Reply(c).do = "reply"
      BY DEF Refresh, Reply, Frame
    <3>3. QED
      BY <3>1, <3>2, BaseAnswering
  <2>6. Below(g, r) /\ FrameOK(g)' /\ g.do \notin Tops
    BY <2>4, <2>5 DEF Below, FrameOK, Tops, Ends, WithActor
  <2>7. PICK q : q = <<g>> \o r /\ Base(q)'
    BY <2>5, <2>6, BasePushed
  <2>8. Plain(f) /\ FrameOK(f)'
    BY <2>2, <2>3, PausesFrame
  <2>9. agenda' = <<f>> \o q
    <3>1. agenda' = <<f, g>> \o r
      BY <1>2, <2>1, <2>3, <2>5 DEF AcquireControl, Handle, Begin
    <3>2. r \in Seq(ToSet(r))
      BY <2>5 DEF Base, Structured
    <3>3. <<f, g>> \o r = <<f>> \o (<<g>> \o r)
      BY <3>2, PushedTwo
    <3>4. QED
      BY <2>7, <3>1, <3>3
  <2>10. Base(q)'
    BY <2>7
  <2>11. Stacked'
    BY <2>8, <2>9, <2>10, PlainStacked
  <2>12. QED
    BY <2>2, <2>11 DEF IInv
<1>3. CASE ReleaseControl(c)
  <2>1. PICK a \in Actors : a = actorOf[c]
    BY <1>3 DEF ReleaseControl, MayAct, Attached, IInv, TypeOK
  <2>2. PICK r : r = Answering(c) /\ Base(r)'
    BY BaseAnswering
  <2>3. PICK s : s = <<Drop(a, c)>> \o r
    OBVIOUS
  <2>4. /\ StopTravel(a, s) /\ published' = TRUE
        /\ UNCHANGED <<arrived, actorOf, readiness, controlVars, resetting, prep, dead,
                       panicked, toldVars, lease, offences>>
    BY <1>3, <2>1, <2>2, <2>3 DEF ReleaseControl
  <2>5. /\ Leased' /\ travels'[a] = None
        /\ travels' \in [Actors -> Jobs \cup {None}]
        /\ status' \in [Actors -> Statuses \cup {None}]
        /\ queue' \in [Actors -> {"none", "human", "suspended", "travel"}]
        /\ pendingCancels' \subseteq Actors /\ outdated' \subseteq Clients
        /\ broadcasting' \in BOOLEAN
    BY <2>4, StopKeeps DEF IInv
  <2>6. TypeOK' /\ offences' = {}
    BY <2>4, <2>5 DEF IInv, TypeOK, controlVars, toldVars
  <2>7. Plain(Drop(a, c)) /\ FrameOK(Drop(a, c))'
    BY <2>5 DEF Drop, Frame, Plain, FrameOK, Tops, Lasts, Ends, WithActor
  <2>8. Base(s)'
    BY <2>2, <2>3, <2>7, BasePlain
  <2>9. Stacked'
    BY <2>4, <2>8, StopStacked
  <2>10. QED
    BY <2>5, <2>6, <2>9 DEF IInv
<1>4. QED
  BY <1>1, <1>2, <1>3

\* What a client that may act knows when its command is taken.
LEMMA AcceptedKnows ==
  ASSUME IInv, NEW c \in Clients, Accepted(c),
         readiness[c].admission \/ readiness[c].resume \/ readiness[c].cancel
  PROVE  \E a \in Actors : /\ a = actorOf[c] /\ controllers[a] = c /\ pendingPauses = {}
                           /\ readiness[c].admission => queue[a] = "none" /\ travels[a] = None
                           /\ c # Lost /\ c # None
<1>1. PICK a \in Actors : a = actorOf[c]
  BY DEF Accepted, Controls, MayAct, Attached, IInv, TypeOK
<1>2. readiness[c] = ReadinessFor(c, Input(a))
  BY <1>1 DEF Accepted, Current
<1>3. /\ pendingPauses = {} /\ controllers[a] = c
      /\ readiness[c].admission => Input(a).slot /\ travels[a] = None
  <2>1. PICK i : i = Input(a)
    OBVIOUS
  <2>2. PICK d : d = ReadinessFor(c, i)
    OBVIOUS
  <2>3. /\ d.admission => controllers[a] = c /\ pendingPauses = {} /\ i.slot /\ travels[a] = None
        /\ d.resume => controllers[a] = c /\ pendingPauses = {}
        /\ d.cancel => controllers[a] = c /\ pendingPauses = {}
    BY <1>1, <2>2 DEF ReadinessFor
  <2>4. readiness[c] = d
    BY <1>2, <2>1, <2>2
  <2>5. QED
    BY <2>1, <2>3, <2>4
<1>4. Input(a).slot => queue[a] = "none"
  BY DEF Input
<1>5. c # Lost /\ c # None
  BY Apart
<1>6. QED
  BY <1>1, <1>3, <1>4, <1>5

\* Requests about work.
LEMMA WorkKeeps ==
  ASSUME IInv, NEW c \in Clients, AdmitIntention(c) \/ ResumeIntention(c)
  PROVE  IInv'
<1>1. /\ Accepted(c) /\ (readiness[c].admission \/ readiness[c].resume)
      /\ queue' = [queue EXCEPT ![actorOf[c]] = "human"]
      /\ Outdate({actorOf[c]}) /\ Handle(c, TellOutcome(actorOf[c]))
      /\ autonomous' = TRUE /\ lease' = [lease EXCEPT ![actorOf[c]] = c]
      /\ UNCHANGED <<arrived, actorOf, readiness, controllers, pendingPauses, travelVars, prep,
                     dead, toldVars>>
  BY DEF AdmitIntention, ResumeIntention, Play
<1>2. PICK a \in Actors : /\ a = actorOf[c] /\ controllers[a] = c /\ pendingPauses = {}
                          /\ c # Lost /\ c # None
  BY <1>1, AcceptedKnows
<1>3. UNCHANGED <<resetting, panicked, offences>> /\ published' = TRUE
      /\ outdated' \subseteq Clients
  BY <1>1, OutdateType DEF Handle, Begin, IInv
<1>4. TypeOK' /\ offences' = {}
  BY <1>1, <1>2, <1>3 DEF IInv, TypeOK, travelVars, toldVars
<1>5. Leased'
  <2>1. queue'[a] = "human" /\ lease'[a] = c
    BY <1>1, <1>2 DEF IInv, TypeOK
  <2>2. ASSUME NEW b \in Actors \ {a}
        PROVE  queue'[b] = queue[b] /\ lease'[b] = lease[b]
    BY <1>1, <1>2 DEF IInv, TypeOK
  <2>3. travels[a] # None => travels[a].owner = c
    BY <1>2 DEF IInv, Leased
  <2>4. UNCHANGED <<controllers, pendingPauses, travels, status, prep>>
    BY <1>1 DEF travelVars
  <2>5. QED
    BY <1>2, <2>1, <2>2, <2>3, <2>4 DEF IInv, Leased
<1>6. Stacked'
  BY <1>1, <1>2, OutcomeHandled
<1>7. QED
  BY <1>4, <1>5, <1>6 DEF IInv

\* Work is given up.
LEMMA CancelKeeps ==
  ASSUME IInv, NEW c \in Clients, CancelIntention(c)
  PROVE  IInv'
<1>1. PICK a \in Actors : a = actorOf[c] /\ controllers[a] = c /\ pendingPauses = {}
  BY AcceptedKnows DEF CancelIntention
<1>2. /\ queue' \in {queue, [queue EXCEPT ![a] = "none"]}
      /\ prep' \in {prep, [prep EXCEPT ![a] = "none"]}
      /\ Outdate({a}) /\ Handle(c, TellOutcome(a))
      /\ UNCHANGED <<arrived, actorOf, readiness, controlVars, travelVars, dead, toldVars, lease>>
  BY <1>1 DEF CancelIntention
<1>3. UNCHANGED <<resetting, panicked, offences>> /\ published' = TRUE
      /\ outdated' \subseteq Clients
  BY <1>2, OutdateType DEF Handle, Begin, IInv
<1>4. TypeOK' /\ offences' = {}
  <2>1. /\ queue' \in [Actors -> {"none", "human", "suspended", "travel"}]
        /\ prep' \in [Actors -> {"none", "active", "paused"}]
    BY <1>2 DEF IInv, TypeOK
  <2>2. QED
    BY <1>2, <1>3, <2>1 DEF IInv, TypeOK, controlVars, travelVars, toldVars
<1>5. Leased'
  <2>1. \A b \in Actors : lease[b] # Lost
    BY <1>1, NoneLost DEF IInv
  <2>2. \A b \in Actors : queue'[b] = "human" => queue[b] = "human"
    BY <1>2 DEF IInv, TypeOK
  <2>3. QED
    BY <1>2, <2>1, <2>2 DEF IInv, Leased, controlVars, travelVars
<1>6. Stacked'
  BY <1>2, OutcomeHandled
<1>7. QED
  BY <1>4, <1>5, <1>6 DEF IInv

\* A journey begins under the lease of its owner.
LEMMA BeginTravelKeeps ==
  ASSUME IInv, NEW c \in Clients, BeginTravel(c)
  PROVE  IInv'
<1>1. PICK a \in Actors : /\ a = actorOf[c] /\ controllers[a] = c /\ pendingPauses = {}
                          /\ queue[a] = "none" /\ travels[a] = None
                          /\ c # Lost /\ c # None
  BY AcceptedKnows DEF BeginTravel
<1>2. /\ autonomous' = TRUE /\ lease' = [lease EXCEPT ![a] = c]
      /\ Handle(c, <<TravelUpdate(a)>>)
      /\ toldTravel' = [d \in Clients |-> IF actorOf[d] = a THEN None ELSE toldTravel[d]]
      /\ UNCHANGED <<clientVars, controllers, pendingPauses, pendingCancels, broadcasting,
                     engineVars, behind, strayed>>
  BY <1>1 DEF BeginTravel, Play
<1>3. PICK far \in BOOLEAN :
        /\ travels' = [travels EXCEPT ![a] = IF far THEN [owner |-> c, pending |-> FALSE]
                                             ELSE None]
        /\ status' = [status EXCEPT ![a] = [active |-> far, odd |-> FALSE]]
  BY <1>1 DEF BeginTravel
<1>4. PICK j, k : j = [owner |-> c, pending |-> FALSE] /\ k = [active |-> far, odd |-> FALSE]
  OBVIOUS
<1>5. j \in Jobs /\ j.owner = c /\ k \in Statuses /\ k.active = far
  BY <1>4 DEF Jobs, Statuses
<1>6. /\ travels' \in [Actors -> Jobs \cup {None}] /\ status' \in [Actors -> Statuses \cup {None}]
      /\ travels'[a] = IF far THEN j ELSE None
      /\ status'[a] = k
      /\ \A b \in Actors \ {a} : travels'[b] = travels[b] /\ status'[b] = status[b]
  BY <1>3, <1>4, <1>5 DEF IInv, TypeOK
<1>7. UNCHANGED <<resetting, panicked, offences>> /\ published' = TRUE
  BY <1>2 DEF Handle, Begin
<1>8. TypeOK' /\ offences' = {}
  BY <1>2, <1>6, <1>7 DEF IInv, TypeOK, clientVars, engineVars
<1>9. Leased'
  <2>1. lease'[a] = c /\ \A b \in Actors \ {a} : lease'[b] = lease[b]
    BY <1>2 DEF IInv, TypeOK
  <2>2. /\ a \notin pendingPauses /\ queue[a] # "human" /\ lease'[a] # Lost
        /\ travels'[a] # None => /\ lease'[a] = travels'[a].owner
                                 /\ controllers[a] = travels'[a].owner
                                 /\ status'[a] # None /\ status'[a].active
    BY <1>1, <1>5, <1>6, <2>1, Apart
  <2>3. UNCHANGED <<controllers, pendingPauses, queue, prep>>
    BY <1>2 DEF engineVars
  <2>4. QED
    BY <1>6, <2>1, <2>2, <2>3 DEF IInv, Leased
<1>10. Stacked'
  <2>1. Plain(TravelUpdate(a)) /\ FrameOK(TravelUpdate(a))'
    BY DEF TravelUpdate, Frame, Plain, FrameOK, Tops, Lasts, Ends, WithActor
  <2>2. QED
    BY <1>2, <2>1, OneHandled
<1>11. QED
  BY <1>8, <1>9, <1>10 DEF IInv

\* The frame that resets the streams.
LEMMA ResetFrame ==
  ASSUME NEW f, f = Frame("reset", None, None, {}, None)
  PROVE  Plain(f) /\ FrameOK(f)'
  BY DEF Frame, Plain, FrameOK, Tops, Lasts, Ends, WithActor

\* The world is changed by a privileged request.
LEMMA SetupKeeps ==
  ASSUME IInv, NEW c \in Clients, Setup(c)
  PROVE  IInv'
<1>1. PICK kept \in SUBSET {a \in Actors : prep[a] = "active"} :
        /\ prep' = [a \in Actors |-> IF prep[a] = "active" /\ a \notin kept THEN "paused"
                                     ELSE prep[a]]
        /\ lease' = [a \in Actors |-> IF prep[a] = "active" /\ a \notin kept
                                         /\ queue[a] # "human" /\ travels[a] = None
                                      THEN None ELSE lease[a]]
  BY DEF Setup
<1>2. PICK S : S = {a \in Actors : travels[a] # None}
  OBVIOUS
<1>3. PICK stops : stops = [i \in 1..Len(SetToSeq(S)) |-> StopLater(SetToSeq(S)[i])]
  OBVIOUS
<1>4. PICK f : f = Frame("reset", None, None, {}, None)
  OBVIOUS
<1>5. /\ Handle(c, stops \o <<f>>)
      /\ Outdate(Actors) /\ autonomous' = FALSE
      /\ UNCHANGED <<arrived, actorOf, readiness, controllers, pendingPauses, travelVars, queue,
                     dead, toldVars>>
  BY <1>2, <1>3, <1>4 DEF Setup
<1>6. UNCHANGED <<resetting, panicked, offences>> /\ published' = TRUE
      /\ outdated' \subseteq Clients
  BY <1>5, OutdateType DEF Handle, Begin, IInv
<1>7. TypeOK' /\ offences' = {}
  <2>1. prep' \in [Actors -> {"none", "active", "paused"}]
    BY <1>1 DEF IInv, TypeOK
  <2>2. lease' \in [Actors -> Clients \cup {None, Lost}]
    BY <1>1 DEF IInv, TypeOK
  <2>3. QED
    BY <1>5, <1>6, <2>1, <2>2 DEF IInv, TypeOK, travelVars, toldVars
<1>8. Leased'
  <2>1. UNCHANGED <<controllers, pendingPauses, travels, status, queue>>
    BY <1>5 DEF travelVars
  <2>2. ASSUME NEW a \in Actors
        PROVE  /\ lease'[a] = Lost => lease[a] = Lost
               /\ queue[a] = "human" \/ travels[a] # None => lease'[a] = lease[a]
               /\ lease'[a] = Lost => \/ queue[a] = "human"
                                      \/ travels[a] # None
                                      \/ prep'[a] = prep[a]
               /\ lease'[a] \in {None, lease[a]}
    <3>1. CASE prep[a] = "active" /\ a \notin kept /\ queue[a] # "human" /\ travels[a] = None
      BY <1>1, <3>1, Apart
    <3>2. CASE ~(prep[a] = "active" /\ a \notin kept /\ queue[a] # "human" /\ travels[a] = None)
      BY <1>1, <3>2
    <3>3. QED
      BY <3>1, <3>2
  <2>3. QED
    BY <2>1, <2>2 DEF IInv, Leased
<1>9. Stacked'
  <2>1. S \subseteq Actors
    BY <1>2
  <2>2. PICK g : g = [a \in Actors |-> StopLater(a)]
    OBVIOUS
  <2>3. stops = [i \in 1..Len(SetToSeq(S)) |-> g[SetToSeq(S)[i]]]
    <3>1. IsFiniteSet(S)
      BY <2>1, SessionAssumption, FS_Subset
    <3>2. PICK n \in Nat : SetToSeq(S) \in [1..n -> S] /\ Len(SetToSeq(S)) = n
      BY <3>1, Listed
    <3>3. QED
      BY <1>3, <2>1, <2>2, <3>2
  <2>4. stops \in Seq(ToSet(stops)) /\ \A h \in ToSet(stops) : \E a \in S : h = g[a]
    BY <2>1, <2>3, FramesListed
  <2>5. \A h \in ToSet(stops) : Plain(h) /\ FrameOK(h)'
    <3>1. \A a \in S : g[a].do = "stop" /\ g[a].actor = a
      BY <2>1, <2>2 DEF StopLater, Frame
    <3>2. QED
      BY <2>1, <2>4, <3>1 DEF Plain, FrameOK, Tops, Lasts, Ends, WithActor
  <2>6. PICK r : r = Answering(c) /\ Base(r)'
    BY BaseAnswering
  <2>7. Plain(f) /\ FrameOK(f)'
    BY <1>4, ResetFrame
  <2>8. PICK q : q = <<f>> \o r /\ Base(q)'
    BY <2>6, <2>7, BasePlain
  <2>9. PICK p : p = stops \o q /\ Base(p)'
    BY <2>4, <2>5, <2>8, BaseMany
  <2>10. agenda' = p
    <3>1. agenda' = (stops \o <<f>>) \o r
      BY <1>5, <2>6 DEF Handle, Begin
    <3>2. r \in Seq(ToSet(r)) /\ <<f>> \in Seq(ToSet(<<f>>))
      BY <2>6 DEF Base, Structured, ToSet
    <3>3. (stops \o <<f>>) \o r = stops \o (<<f>> \o r)
      BY <2>4, <3>2, PushedInTurn
    <3>4. QED
      BY <2>8, <2>9, <3>1, <3>3
  <2>11. QED
    BY <2>9, <2>10, NowStacked
<1>10. QED
  BY <1>7, <1>8, <1>9 DEF IInv

\* The game is taken back to an earlier point.
LEMMA RewindKeeps ==
  ASSUME IInv, NEW c \in Clients, Rewind(c)
  PROVE  IInv'
<1>1. PICK f : f = Frame("reset", None, None, {}, None)
  OBVIOUS
<1>2. /\ queue' \in [Actors -> {"none", "human", "suspended", "travel"}]
      /\ prep' \in [Actors -> {"none", "active", "paused"}]
      /\ dead' \in SUBSET dead
      /\ pendingPauses' = {a \in Actors : queue'[a] = "human"}
      /\ pendingCancels' = {a \in Actors : queue'[a] = "travel"}
      /\ travels' = [a \in Actors |-> None] /\ status' = [a \in Actors |-> None]
      /\ lease' = [a \in Actors |-> IF queue'[a] = "human" THEN Lost ELSE None]
      /\ Outdate(Actors) /\ behind' = Attached /\ autonomous' = FALSE
      /\ Handle(c, <<f>>)
      /\ UNCHANGED <<arrived, actorOf, readiness, controllers, broadcasting, toldTravel, strayed>>
  BY <1>1 DEF Rewind, UnsuspendedAfterRewind
<1>3. UNCHANGED <<resetting, panicked, offences>> /\ published' = TRUE
      /\ outdated' \subseteq Clients /\ behind' \subseteq Clients
  BY <1>2, OutdateType DEF Handle, Begin, IInv, Attached
<1>4. TypeOK' /\ offences' = {}
  <2>1. /\ lease' \in [Actors -> Clients \cup {None, Lost}]
        /\ travels' \in [Actors -> Jobs \cup {None}] /\ status' \in [Actors -> Statuses \cup {None}]
        /\ pendingPauses' \subseteq Actors /\ pendingCancels' \subseteq Actors
    BY <1>2
  <2>2. QED
    BY <1>2, <1>3, <2>1 DEF IInv, TypeOK
<1>5. Leased'
  BY <1>2, Apart DEF Leased
<1>6. Stacked'
  BY <1>1, <1>2, ResetFrame, OneHandled
<1>7. QED
  BY <1>4, <1>5, <1>6 DEF IInv

\* A client leaves, or saves are polled.
LEMMA LeaveKeeps ==
  ASSUME IInv, (\E c \in Clients : Leave(c)) \/ PollSaves
  PROVE  IInv'
<1>1. CASE \E c \in Clients : Leave(c)
  <2>1. PICK c \in Clients : Leave(c)
    BY <1>1
  <2>2. c \in Attached /\ Departs(c, <<>>) /\ published' = FALSE /\ offences' = offences
    BY <2>1 DEF Leave
  <2>3. Base(<<>>)
    BY EmptyStack DEF Base, NoTops
  <2>4. QED
    BY <2>2, <2>3, DepartsKeeps
<1>2. CASE PollSaves
  <2>1. /\ published' = FALSE
        /\ UNCHANGED <<clientVars, controlVars, travelVars, resetting, engineVars, panicked,
                       toldVars, lease, offences>>
    BY <1>2 DEF PollSaves
  <2>2. TypeOK' /\ offences' = {} /\ Leased'
    BY <2>1, Unmoved DEF IInv, TypeOK, clientVars, controlVars, travelVars, engineVars, toldVars
  <2>3. CASE agenda' = <<Tell("notice", Attached), Fewer>>
    <3>1. PICK t, f : t = Tell("notice", Attached) /\ f = Fewer
      OBVIOUS
    <3>2. t.do = "tell" /\ f.do = "fewer"
      BY <3>1 DEF Tell, Fewer, Frame
    <3>3. Base(<<>>)' /\ Below(f, <<>>)
      BY EmptyStack DEF Base, NoTops, Below
    <3>4. PICK r : r = <<f>> \o <<>> /\ Base(r)'
      BY <3>2, <3>3, BasePushed DEF FrameOK, Tops, WithActor
    <3>5. agenda' = <<t>> \o r
      BY <2>3, <3>1, <3>4, Written
    <3>6. Base(r)' /\ t.do \in {"tell", "announce"}
      BY <3>2, <3>4
    <3>7. Stacked'
      BY <3>5, <3>6, ToldStacked
    <3>8. QED
      BY <2>2, <3>7 DEF IInv
  <2>4. ASSUME NEW c, agenda' = <<Refresh, Reply(c)>> PROVE IInv'
    <3>1. PICK r : r = Answering(c) /\ Base(r)'
      BY BaseAnswering
    <3>2. agenda' = r
      BY <2>4, <3>1 DEF Answering
    <3>3. Stacked'
      BY <3>1, <3>2, NowStacked
    <3>4. QED
      BY <2>2, <3>3 DEF IInv
  <2>5. QED
    BY <1>2, <2>3, <2>4 DEF PollSaves
<1>3. QED
  BY <1>1, <1>2

\* A step of the game begins.
LEMMA StepKeeps ==
  ASSUME IInv, Step
  PROVE  IInv'
<1>1. /\ CancelTravelWork(pendingCancels)
      /\ agenda' = <<ApplyPauses, Frame("choose", None, None, {}, None), Refresh>>
      /\ published' = TRUE
      /\ UNCHANGED <<arrived, actorOf, readiness, controlVars, travels, status, broadcasting,
                     resetting, prep, dead, panicked, toldVars, lease, offences>>
  BY DEF Step
<1>2. PICK failed \in SUBSET {b \in pendingCancels : queue[b] = "travel"} :
        /\ queue' = [b \in Actors |-> IF b \in {d \in pendingCancels : queue[d] = "travel"} \ failed
                                      THEN "none" ELSE queue[b]]
        /\ pendingCancels' = (pendingCancels \ pendingCancels) \cup failed
        /\ outdated' \subseteq Clients
  BY <1>1 DEF CancelTravelWork, Outdate, Attached, IInv, TypeOK
<1>3. \A b \in Actors : /\ queue'[b] = "human" <=> queue[b] = "human"
                        /\ queue'[b] \in {"none", "human", "suspended", "travel"}
  BY <1>2 DEF IInv, TypeOK
<1>4. TypeOK' /\ offences' = {}
  BY <1>1, <1>2, <1>3 DEF IInv, TypeOK, controlVars, toldVars
<1>5. Leased'
  BY <1>1, <1>3 DEF IInv, Leased, controlVars
<1>6. PICK f, g : f = ApplyPauses /\ g = Frame("choose", None, None, {}, None)
  OBVIOUS
<1>7. PICK r : r = <<Refresh>> \o <<>> /\ Base(r)'
  BY BaseAnswering, Written
<1>8. ToSet(r) = {Refresh} /\ g.do = "choose" /\ Refresh.do = "refresh"
  <2>1. Structured(<<>>) /\ ToSet(<<>>) = {} /\ Below(Refresh, <<>>)
    BY EmptyStack DEF Below
  <2>2. ToSet(r) = {Refresh} \cup ToSet(<<>>)
    BY <1>7, <2>1, Pushed, Zenon
  <2>3. g.do = "choose" /\ Refresh.do = "refresh"
    BY <1>6 DEF Refresh, Frame
  <2>4. QED
    BY <2>1, <2>2, <2>3
<1>9. Below(g, r) /\ FrameOK(g)' /\ g.do \notin Tops
  BY <1>8 DEF Below, FrameOK, Tops, Ends, WithActor
<1>10. PICK q : q = <<g>> \o r /\ Base(q)'
  BY <1>7, <1>9, BasePushed
<1>11. Plain(f) /\ FrameOK(f)'
  BY <1>1, <1>6, PausesFrame
<1>12. agenda' = <<f>> \o q
  <2>1. agenda' = <<f, g, Refresh>>
    BY <1>1, <1>6
  <2>2. PICK h : h = Refresh
    OBVIOUS
  <2>3. <<f, g, h>> = <<f>> \o (<<g>> \o (<<h>> \o <<>>))
    BY ThreeWritten
  <2>4. r = <<h>> \o <<>> /\ q = <<g>> \o r
    BY <1>7, <1>10, <2>2
  <2>5. agenda' = <<f, g, h>>
    BY <2>1, <2>2
  <2>6. QED
    BY <2>3, <2>4, <2>5
<1>13. Base(q)'
  BY <1>10
<1>14. Stacked'
  BY <1>11, <1>12, <1>13, PlainStacked
<1>15. QED
  BY <1>4, <1>5, <1>14 DEF IInv

-----------------------------------------------------------------------------
(* The theorems *)

\* The game the service starts with.
LEMMA InitHolds == Init => IInv
<1> SUFFICES ASSUME Init PROVE IInv
  OBVIOUS
<1>1. TypeOK
  BY DEF Init, TypeOK
<1>2. Stacked
  BY EmptyStack DEF Init, Stacked
<1>3. Leased
  BY Apart DEF Init, Leased
<1>4. QED
  BY <1>1, <1>2, <1>3 DEF Init, IInv

\* Every step of the service keeps the invariant.
LEMMA StepsKeep == IInv /\ [Next]_vars => IInv'
<1> SUFFICES ASSUME IInv, [Next]_vars PROVE IInv'
  OBVIOUS
<1>1. ASSUME NEW c \in Clients, Request(c) PROVE IInv'
  BY <1>1, AsksKeep, ControlKeeps, WorkKeeps, CancelKeeps, BeginTravelKeeps, SetupKeeps,
     RewindKeeps DEF Request
<1>2. ASSUME NEW c \in Clients, Leave(c) PROVE IInv'
  BY <1>2, LeaveKeeps
<1>3. CASE Step
  BY <1>3, StepKeeps
<1>4. CASE PollSaves
  BY <1>4, LeaveKeeps
<1>5. CASE Unwind
  BY <1>5, TellKeeps, ReplyKeeps, TravelUpdateKeeps, StopsKeep, RefreshKeeps, FewerKeeps,
     SnapshotKeeps, ResetKeeps, AnnounceKeeps, DropKeeps, AcquireKeeps, PausesKeep,
     PausePrepKeeps, SettledKeeps, ChooseKeeps, AdmitAiKeeps, ExecuteHumanKeeps,
     ExecuteAiKeeps, ExecuteTravelKeeps, FinishKeeps, WalkKeeps DEF Unwind
<1>6. CASE UNCHANGED vars
  <2>1. UNCHANGED <<clientVars, controlVars, travelVars, resetting, engineVars, agenda,
                    panicked, toldVars, lease, offences, published>>
    BY <1>6 DEF vars
  <2>2. TypeOK' /\ offences' = {} /\ Leased'
    BY <2>1, Unmoved DEF IInv, TypeOK, clientVars, controlVars, travelVars, engineVars, toldVars
  <2>3. Stacked'
    BY <2>1 DEF IInv, Stacked, FrameOK, OnTop, WorkDue, Attached, Head1, clientVars,
                controlVars, travelVars, engineVars
  <2>4. QED
    BY <2>2, <2>3 DEF IInv
<1>7. QED
  BY <1>1, <1>2, <1>3, <1>4, <1>5, <1>6 DEF Next, Dead

\* The invariant holds in every state of the service.
THEOREM InvariantHolds == Spec => []IInv
  BY InitHolds, StepsKeep, PTL DEF Spec

\* Every variable keeps its type.
THEOREM TypeCorrect == Spec => []TypeOK
<1>1. IInv => TypeOK
  BY DEF IInv
<1>2. QED
  BY <1>1, InvariantHolds, PTL

\* Work is executed under the lease it was queued under, and decisions only
\* with a driver (execute_queued_intention, travel_step).
THEOREM WorkIsUnderLease == Spec => []WorkUnderLease
<1>1. IInv => WorkUnderLease
  BY DEF IInv, WorkUnderLease
<1>2. QED
  BY <1>1, InvariantHolds, PTL

\* No turn is executed while a pause is owed (apply_pending_pauses).
THEOREM PausedBeforePlay == Spec => []PauseBeforePlay
<1>1. IInv => PauseBeforePlay
  BY DEF IInv, PauseBeforePlay
<1>2. QED
  BY <1>1, InvariantHolds, PTL

-----------------------------------------------------------------------------
(* Streams of an old branch *)

\* A frame that resets the streams of these clients, or of more.
ResettingFor(f, S) == f.do = "resetting" /\ S \subseteq f.to

\* What resets the streams of the clients without a snapshot of the branch is
\* the next thing to run, but for the end of the stream before.
Awaited ==
  \/ Head1.do = "reset"
  \/ resetting /\ ResettingFor(Head1, behind)
  \/ /\ resetting /\ Rest # <<>>
     /\ \/ Head1.do = "drop" /\ ResettingFor(Head(Rest), behind)
        \/ Head1.do = "snapshot" /\ ResettingFor(Head(Rest), behind \ {Head1.client})

\* While there are such clients no journey has a status, so that a disconnect
\* tells of none, and nobody is told of control.
ResetPending ==
  /\ behind \subseteq Attached /\ strayed = {}
  /\ behind # {} => agenda # <<>> /\ Awaited /\ \A a \in Actors : status[a] = None

\* Nobody waits for a snapshot, so nobody can be sent something before it.
LEMMA NobodyBehind ==
  ASSUME behind' = {}, strayed' = {}
  PROVE  ResetPending'
  BY DEF ResetPending

\* The streams' reset goes on.
LEMMA ResetGoesOn ==
  ASSUME NEW r, agenda' = r, r # <<>>, Head(r).do = "resetting", behind' \subseteq Head(r).to,
         resetting', behind' \subseteq Attached', strayed' = {},
         \A a \in Actors : status'[a] = None
  PROVE  ResetPending'
<1>1. Head1' = Head(r)
  BY DEF Head1
<1>2. Awaited'
  BY <1>1 DEF Awaited, ResettingFor
<1>3. QED
  BY <1>2 DEF ResetPending

\* It goes on after one more frame.
LEMMA ResetFollows ==
  ASSUME NEW r, Structured(r), NEW f, Below(f, r), agenda' = <<f>> \o r,
         r # <<>>, Head(r).do = "resetting",
         \/ f.do = "drop" /\ behind' \subseteq Head(r).to
         \/ f.do = "snapshot" /\ behind' \ {f.client} \subseteq Head(r).to,
         resetting', behind' \subseteq Attached', strayed' = {},
         \A a \in Actors : status'[a] = None
  PROVE  ResetPending'
<1>1. agenda' # <<>> /\ Head(agenda') = f /\ Tail(agenda') = r
  BY Pushed
<1>2. Head1' = f /\ Rest' = r
  BY <1>1 DEF Head1, Rest
<1>3. Awaited'
  BY <1>2 DEF Awaited, ResettingFor
<1>4. QED
  BY <1>1, <1>3 DEF ResetPending

\* A refused send leaves nobody behind who was not.
LEMMA DepartsBehind ==
  ASSUME NEW c, NEW r, Departs(c, r)
  PROVE  behind' = behind \ {c} /\ strayed' = strayed
  BY DEF Departs

\* A handler that begins leaves nobody behind, but for a rewind.
LEMMA RequestsBehind ==
  ASSUME TypeOK, NEW c \in Clients, Request(c), ~Rewind(c)
  PROVE  agenda = <<>> /\ behind' = behind /\ strayed' = strayed
<1>1. CASE \E a \in Actors : Attach(c, a)
  BY <1>1 DEF Attach, Begin, Idle, toldVars
<1>2. CASE Query(c) \/ Continue(c) \/ AcquireControl(c)
  BY <1>2 DEF Query, Continue, AcquireControl, Handle, Begin, Idle, toldVars
<1>3. CASE Look(c)
  BY <1>3 DEF Look, Begin, Idle, toldVars
<1>4. CASE ReleaseControl(c)
  BY <1>4 DEF ReleaseControl, Idle, toldVars
<1>5. CASE AdmitIntention(c) \/ ResumeIntention(c) \/ CancelIntention(c)
  BY <1>5 DEF AdmitIntention, ResumeIntention, CancelIntention, Handle, Begin, Idle, toldVars
<1>6. CASE BeginTravel(c)
  BY <1>6 DEF BeginTravel, Handle, Begin, Idle
<1>7. CASE Setup(c)
  BY <1>7 DEF Setup, Handle, Begin, Idle, toldVars
<1>8. QED
  BY <1>1, <1>2, <1>3, <1>4, <1>5, <1>6, <1>7 DEF Request

\* What runs in a handler leaves nobody behind who was not, and sends an
\* update before its snapshot only to one who was.
LEMMA UnwindBehind ==
  ASSUME TypeOK, Unwind
  PROVE  behind' \subseteq behind /\ strayed' \subseteq strayed \cup behind
<1> DEFINE Shrinks == behind' \subseteq behind /\ strayed' \subseteq strayed \cup behind
<1>1. CASE TellNext \/ TellDone
  BY <1>1, DepartsBehind DEF TellNext, TellDone, Disconnect, Update, toldVars
<1>2. CASE SendReply
  BY <1>2, DepartsBehind DEF SendReply, Disconnect, toldVars
<1>3. CASE TravelUpdateStart \/ TravelUpdateEnd \/ StopNext
  BY <1>3 DEF TravelUpdateStart, TravelUpdateEnd, StopNext, toldVars
<1>4. CASE TravelUpdateNext
  BY <1>4, DepartsBehind DEF TravelUpdateNext, Disconnect, Update
<1>5. CASE RefreshTaken
  BY <1>5 DEF RefreshTaken
<1>6. CASE RefreshRefused
  BY <1>6, DepartsBehind DEF RefreshRefused, Disconnect
<1>7. CASE SnapshotNext
  BY <1>7, DepartsBehind DEF SnapshotNext, CommitSnapshot, Disconnect, toldVars
<1>8. CASE AnnounceStart \/ AnnounceNext
  BY <1>8, DepartsBehind DEF AnnounceStart, AnnounceNext, Disconnect, toldVars
<1>9. CASE FewerNext \/ ResetStart \/ ResetNext \/ ResetEnd
  BY <1>9 DEF FewerNext, ResetStart, ResetNext, ResetEnd, toldVars
<1>10. CASE DropControl \/ AcquireRest \/ PausesNext \/ PausePrep \/ PauseSettled
  BY <1>10 DEF DropControl, AcquireRest, PausesNext, PausePrep, PauseSettled, toldVars
<1>11. CASE Choose \/ AdmitAi
  BY <1>11 DEF Choose, AdmitAi, toldVars
<1>12. CASE ExecuteHuman \/ ExecuteAi \/ ExecuteTravel
  BY <1>12 DEF ExecuteHuman, ExecuteAi, ExecuteTravel, toldVars
<1>13. CASE RefuseStep \/ FinishTravel \/ Walk
  BY <1>13 DEF RefuseStep, FinishTravel, Walk, StopHere, toldVars
<1>14. QED
  BY <1>1, <1>2, <1>3, <1>4, <1>5, <1>6, <1>7, <1>8, <1>9, <1>10, <1>11, <1>12, <1>13
     DEF Unwind

\* While somebody waits for a snapshot, only the reset of the streams runs.
LEMMA OnlyReset ==
  ASSUME ResetPending, behind # {}, Unwind
  PROVE  \/ ResetStart \/ ResetNext \/ ResetEnd \/ DropControl \/ SnapshotNext
<1>1. Head1.do \in {"reset", "resetting", "drop", "snapshot"}
  BY DEF ResetPending, Awaited, ResettingFor
<1>2. QED
  BY <1>1 DEF Unwind, Running, TellNext, TellDone, SendReply, TravelUpdateStart, TravelUpdateNext,
     TravelUpdateEnd, StopNext, RefreshTaken, RefreshRefused, FewerNext, AnnounceStart,
     AnnounceNext, AcquireRest, PausesNext, PausePrep, PauseSettled, Choose, AdmitAi, ExecuteHuman,
     ExecuteAi, ExecuteTravel, RefuseStep, FinishTravel, Walk

\* The reset of the streams keeps what it is waited for with.
LEMMA ResetAwaited ==
  ASSUME IInv, ResetPending, behind # {}, ResetStart \/ ResetNext \/ ResetEnd
  PROVE  ResetPending'
<1>1. /\ behind \subseteq Attached /\ strayed = {} /\ Awaited
      /\ \A a \in Actors : status[a] = None
  BY DEF ResetPending
<1>2. CASE ResetStart
  <2>1. PICK f : f = Frame("resetting", None, None, Attached, controllers)
    OBVIOUS
  <2>2. /\ f.do = "resetting" /\ f.to = Attached
        /\ resetting' = TRUE /\ agenda' = <<f>> \o Rest
        /\ UNCHANGED <<clientVars, travelVars, toldVars>>
    BY <1>2, <2>1 DEF ResetStart, Frame
  <2>3. UNCHANGED <<actorOf, status, behind, strayed>>
    BY <2>2 DEF clientVars, travelVars, toldVars
  <2>4. Base(Rest) /\ Below(f, Rest)
    <3>1. Base(Rest)
      BY <1>2, Resumes DEF ResetStart
    <3>2. QED
      BY <2>2, <3>1 DEF Base, NoTops, Below, Lasts, Ends
  <2>5. PICK r : r = <<f>> \o Rest
    OBVIOUS
  <2>6. r # <<>> /\ Head(r) = f
    BY <2>4, <2>5, Pushed DEF Base
  <2>7. behind' \subseteq Attached'
    BY <1>1, <2>3 DEF Attached
  <2>8. behind' \subseteq f.to
    BY <1>1, <2>2, <2>3
  <2>9. agenda' = r
    BY <2>2, <2>5
  <2>10. QED
    BY <1>1, <2>2, <2>3, <2>6, <2>7, <2>8, <2>9, ResetGoesOn
<1>3. ASSUME ResetNext \/ ResetEnd
      PROVE  Head1.do = "resetting" /\ resetting /\ behind \subseteq Waiting
  <2>1. Head1.do = "resetting"
    BY <1>3 DEF ResetNext, ResetEnd, Running
  <2>2. QED
    BY <1>1, <2>1 DEF Awaited, ResettingFor, Waiting
<1>4. CASE ResetNext
  <2>1. PICK f, g : f = Frame("snapshot", None, To, {}, None) /\ g = HeadTo(Waiting \ {To})
    OBVIOUS
  <2>2. /\ f.do = "snapshot" /\ f.client = To
        /\ g.do = "resetting" /\ g.to = Waiting \ {To}
    BY <1>3, <1>4, <2>1 DEF Frame, HeadTo
  <2>3. agenda' = <<f, g>> \o Rest /\ UNCHANGED <<quiet, toldVars>>
    BY <1>4, <2>1 DEF ResetNext
  <2>4. UNCHANGED <<actorOf, status, behind, strayed, resetting>>
    BY <2>3 DEF quiet, clientVars, travelVars, toldVars
  <2>5. Base(Rest)
    BY <1>4, Resumes DEF ResetNext
  <2>6. PICK r : r = <<g>> \o Rest
    OBVIOUS
  <2>7. Structured(r) /\ r # <<>> /\ Head(r) = g /\ ToSet(r) = {g} \cup ToSet(Rest)
    <3>1. Below(g, Rest)
      BY <2>2, <2>5 DEF Base, NoTops, Below, Lasts, Ends
    <3>2. QED
      BY <2>5, <2>6, <3>1, Pushed DEF Base
  <2>8. Below(f, r)
    BY <2>2, <2>5, <2>7 DEF Base, NoTops, Below, Tops, Lasts, Ends
  <2>9. agenda' = <<f>> \o r
    BY <2>3, <2>5, <2>6, PushedTwo DEF Base, Structured
  <2>10. behind' \ {f.client} \subseteq Head(r).to
    BY <1>3, <1>4, <2>2, <2>4, <2>7
  <2>11. resetting' /\ behind' \subseteq Attached' /\ strayed' = {}
         /\ \A a \in Actors : status'[a] = None
    BY <1>1, <1>3, <1>4, <2>4 DEF Attached
  <2>12. QED
    BY <2>2, <2>7, <2>8, <2>9, <2>10, <2>11, ResetFollows
<1>5. CASE ResetEnd
  <2>1. behind = {} /\ behind' = behind /\ strayed' = strayed
    BY <1>3, <1>5 DEF ResetEnd, toldVars
  <2>2. QED
    BY <1>1, <2>1, NobodyBehind
<1>6. QED
  BY <1>2, <1>4, <1>5

\* So does the end of a stream in the middle of it.
LEMMA StreamAwaited ==
  ASSUME IInv, ResetPending, behind # {}, DropControl \/ SnapshotNext
  PROVE  ResetPending'
<1>1. /\ behind \subseteq Attached /\ strayed = {} /\ Awaited
      /\ \A a \in Actors : status[a] = None
  BY DEF ResetPending
<1>2. /\ Base(Rest) /\ Head1.do \in {"drop", "snapshot"}
      /\ OnTop(Head1)
  BY Resumes DEF DropControl, SnapshotNext
<1>3. PICK r : r = Rest
  OBVIOUS
<1>4. /\ resetting /\ r # <<>> /\ Head(r).do = "resetting"
      /\ Head1.do = "drop" => behind \subseteq Head(r).to
      /\ Head1.do = "snapshot" => behind \ {Head1.client} \subseteq Head(r).to
  BY <1>1, <1>2, <1>3 DEF Awaited, ResettingFor
<1>5. Structured(r) /\ NoTops(r)
  BY <1>2, <1>3 DEF Base
<1>6. CASE DropControl
  <2>1. Head1.do = "drop" /\ UNCHANGED <<actorOf, travelVars, resetting, toldVars>>
    BY <1>6 DEF DropControl, Running
  <2>2. agenda' = r
    BY <1>3, <1>4, <1>5, <1>6, NothingPushed DEF DropControl, HeldNow, Structured
  <2>3. UNCHANGED <<actorOf, status, behind, strayed, resetting>>
    BY <2>1 DEF travelVars, toldVars
  <2>4. resetting' /\ behind' \subseteq Attached' /\ strayed' = {}
        /\ \A a \in Actors : status'[a] = None
    BY <1>1, <1>4, <2>3 DEF Attached
  <2>5. behind' \subseteq Head(r).to
    BY <1>4, <2>1, <2>3
  <2>6. QED
    BY <1>4, <2>2, <2>4, <2>5, ResetGoesOn
<1>7. CASE SnapshotNext
  <2>1. PICK c : c = Head1.client
    OBVIOUS
  <2>2. Head1.do = "snapshot" /\ c \in Attached
    BY <1>2, <1>7, <2>1 DEF SnapshotNext, Running, OnTop
  <2>3. CASE /\ CommitSnapshot(c) /\ agenda' = r
             /\ UNCHANGED <<arrived, actorOf, controlVars, travelVars, resetting,
                            engineVars, panicked, strayed, lease, offences, published>>
    <3>1. behind' = behind \ {c} /\ UNCHANGED <<actorOf, status, strayed, resetting>>
      BY <2>3 DEF CommitSnapshot, travelVars
    <3>2. resetting' /\ behind' \subseteq Attached' /\ strayed' = {}
          /\ \A a \in Actors : status'[a] = None
      BY <1>1, <1>4, <3>1 DEF Attached
    <3>3. behind' \subseteq Head(r).to
      BY <1>4, <2>1, <2>2, <3>1
    <3>4. QED
      BY <1>4, <2>3, <3>2, <3>3, ResetGoesOn
  <2>4. CASE Disconnect(c, r)
    <3>1. PICK f : f = Drop(actorOf[c], c)
      OBVIOUS
    <3>2. /\ behind' = behind \ {c} /\ actorOf' = [actorOf EXCEPT ![c] = None]
          /\ UNCHANGED <<strayed, resetting>>
          /\ \/ StopTravel(actorOf[c], <<f>> \o r)
             \/ agenda' = r /\ status' = status
      BY <2>4, <3>1 DEF Disconnect, Departs, travelVars
    <3>3. status' = status /\ (agenda' = r \/ agenda' = <<f>> \o r)
      <4>1. actorOf[c] \in Actors
        BY <2>2 DEF IInv, TypeOK, Attached
      <4>2. QED
        BY <1>1, <3>2, <4>1 DEF StopTravel
    <3>4. resetting' /\ behind' \subseteq Attached' /\ strayed' = {}
          /\ \A a \in Actors : status'[a] = None
      <4>1. \A d \in Clients \ {c} : actorOf'[d] = actorOf[d]
        BY <3>2 DEF IInv, TypeOK
      <4>2. behind' \subseteq Attached'
        BY <1>1, <3>2, <4>1 DEF Attached
      <4>3. QED
        BY <1>1, <1>4, <3>2, <3>3, <4>2
    <3>5. behind' \subseteq Head(r).to
      BY <1>4, <2>1, <2>2, <3>2
    <3>6. f.do = "drop" /\ Below(f, r)
      BY <1>5, <3>1 DEF Drop, Frame, Below, NoTops, Lasts, Ends
    <3>7. CASE agenda' = r
      BY <1>4, <3>4, <3>5, <3>7, ResetGoesOn
    <3>8. CASE agenda' = <<f>> \o r
      BY <1>4, <1>5, <3>4, <3>5, <3>6, <3>8, ResetFollows
    <3>9. QED
      BY <3>3, <3>7, <3>8
  <2>5. QED
    BY <1>3, <1>4, <1>7, <2>1, <2>3, <2>4 DEF SnapshotNext
<1>8. QED
  BY <1>6, <1>7

\* A rewind resets the streams next.
LEMMA RewindAwaited ==
  ASSUME NEW c \in Clients, Rewind(c), strayed = {}
  PROVE  ResetPending'
<1>1. PICK f : f = Frame("reset", None, None, {}, None)
  OBVIOUS
<1>2. /\ behind' = Attached /\ strayed' = {} /\ actorOf' = actorOf
      /\ \A a \in Actors : status'[a] = None
      /\ agenda' = <<f>> \o Answering(c)
  BY <1>1 DEF Rewind, Handle, Begin
<1>3. PICK r : r = Answering(c) /\ Base(r)'
  BY BaseAnswering
<1>4. Structured(r) /\ Below(f, r) /\ f.do = "reset"
  BY <1>1, <1>3 DEF Frame, Base, NoTops, Below, Lasts, Ends
<1>5. agenda' # <<>> /\ Head1' = f
  BY <1>2, <1>3, <1>4, Pushed DEF Head1
<1>6. behind' \subseteq Attached'
  BY <1>2 DEF Attached
<1>7. QED
  BY <1>2, <1>4, <1>5, <1>6 DEF ResetPending, Awaited

\* Every step keeps it.
LEMMA AwaitedKept == IInv /\ ResetPending /\ [Next]_vars => ResetPending'
<1> SUFFICES ASSUME IInv, ResetPending, [Next]_vars PROVE ResetPending'
  OBVIOUS
<1>1. TypeOK /\ strayed = {} /\ (agenda = <<>> => behind = {})
  BY DEF IInv, ResetPending
<1>2. ASSUME NEW c \in Clients, Request(c) PROVE ResetPending'
  <2>1. CASE Rewind(c)
    BY <1>1, <2>1, RewindAwaited
  <2>2. CASE ~Rewind(c)
    BY <1>1, <1>2, <2>2, RequestsBehind, NobodyBehind
  <2>3. QED
    BY <2>1, <2>2
<1>3. ASSUME NEW c \in Clients, Leave(c) PROVE ResetPending'
  <2>1. agenda = <<>> /\ Departs(c, <<>>)
    BY <1>3 DEF Leave, Idle
  <2>2. behind' = {} /\ strayed' = {}
    BY <1>1, <2>1, DepartsBehind
  <2>3. QED
    BY <2>2, NobodyBehind
<1>4. CASE Step \/ PollSaves
  BY <1>1, <1>4, NobodyBehind DEF Step, PollSaves, Idle, toldVars
<1>5. CASE Unwind /\ behind = {}
  BY <1>1, <1>5, UnwindBehind, NobodyBehind
<1>6. CASE Unwind /\ behind # {}
  BY <1>6, OnlyReset, ResetAwaited, StreamAwaited
<1>7. CASE UNCHANGED vars
  BY <1>7 DEF ResetPending, Awaited, ResettingFor, Head1, Rest, Attached, vars, clientVars,
              travelVars, toldVars
<1>8. QED
  BY <1>2, <1>3, <1>4, <1>5, <1>6, <1>7 DEF Next, Dead

\* No client is sent an update of a new branch before its snapshot of it
\* (rewind, reset_streams).
THEOREM BranchesApart == Spec => []NoOldBranchUpdate
<1>1. Init => ResetPending
  BY DEF Init, ResetPending
<1>2. ResetPending => NoOldBranchUpdate
  BY DEF ResetPending, NoOldBranchUpdate
<1>3. QED
  BY <1>1, <1>2, AwaitedKept, InvariantHolds, PTL DEF Spec

-----------------------------------------------------------------------------
(* What was told: stacks and what is put on them *)

\* Frames of a message that is half sent.
Halfway == {"refreshing", "travelling"}

\* A stack got from another one by putting frames on it or under it, none of
\* them of a message that is half sent.
Grown(r, q) ==
  /\ ToSet(r) \subseteq ToSet(q)
  /\ \A f \in ToSet(q) : f \in ToSet(r) \/ f.do \notin Halfway

\* What two stacks hold together.
LEMMA Joined ==
  ASSUME NEW p, p \in Seq(ToSet(p)), NEW r, r \in Seq(ToSet(r))
  PROVE  p \o r \in Seq(ToSet(p \o r)) /\ ToSet(p \o r) = ToSet(p) \cup ToSet(r)
<1> DEFINE s == p \o r
           S == ToSet(p) \cup ToSet(r)
           m == Len(p)
           n == Len(r)
<1>1. /\ p \in Seq(S) /\ r \in Seq(S) /\ m \in Nat /\ n \in Nat
      /\ DOMAIN p = 1..m /\ DOMAIN r = 1..n
  BY LenProperties
<1>2. /\ s \in Seq(S) /\ Len(s) = m + n
      /\ \A i \in 1..(m + n) : s[i] = IF i <= m THEN p[i] ELSE r[i - m]
  BY <1>1, ConcatProperties
<1> HIDE DEF s, m, n
<1>3. DOMAIN s = 1..(m + n)
  BY <1>2, LenProperties
<1>4. /\ ToSet(p) = {p[i] : i \in 1..m} /\ ToSet(r) = {r[j] : j \in 1..n}
      /\ ToSet(s) = {s[i] : i \in 1..(m + n)}
  BY <1>1, <1>3 DEF ToSet
<1>5. \A i \in 1..(m + n) : s[i] \in S
  BY <1>2, ElementOfSeq
<1>6. \A i \in 1..m : i \in 1..(m + n) /\ s[i] = p[i]
  BY <1>1, <1>2
<1>7. ASSUME NEW j \in 1..n PROVE j + m \in 1..(m + n) /\ s[j + m] = r[j]
  <2>1. j + m \in 1..(m + n) /\ ~(j + m <= m) /\ (j + m) - m = j
    BY <1>1
  <2>2. QED
    BY <1>2, <2>1
<1>8. ToSet(s) = S
  BY <1>4, <1>5, <1>6, <1>7
<1>9. QED
  BY <1>2, <1>8 DEF s

\* Stacks written out.
LEMMA NoneWritten == <<>> \in Seq(ToSet(<<>>)) /\ ToSet(<<>>) = {}
  BY DEF ToSet

\* A stack of one frame written down.
LEMMA OneWritten ==
  ASSUME NEW f, NEW q, q = <<f>>
  PROVE  q \in Seq(ToSet(q)) /\ ToSet(q) = {f}
  BY DEF ToSet

\* Of two.
LEMMA TwoWritten ==
  ASSUME NEW f, NEW g, NEW q, q = <<f, g>>
  PROVE  q \in Seq(ToSet(q)) /\ ToSet(q) = {f, g}
  BY DEF ToSet

\* One frame more.
LEMMA PutOn ==
  ASSUME NEW r, r \in Seq(ToSet(r)), NEW f, NEW q, q = <<f>> \o r
  PROVE  q \in Seq(ToSet(q)) /\ ToSet(q) = {f} \cup ToSet(r)
<1>1. PICK u : u = <<f>>
  OBVIOUS
<1>2. u \in Seq(ToSet(u)) /\ ToSet(u) = {f}
  BY <1>1, OneWritten
<1>3. u \o r \in Seq(ToSet(u \o r)) /\ ToSet(u \o r) = {f} \cup ToSet(r)
  BY <1>2, Joined
<1>4. QED
  BY <1>1, <1>3

\* Two frames more.
LEMMA PutTwoOn ==
  ASSUME NEW r, r \in Seq(ToSet(r)), NEW f, NEW g, NEW q, q = <<f, g>> \o r
  PROVE  q \in Seq(ToSet(q)) /\ ToSet(q) = {f, g} \cup ToSet(r)
<1>1. PICK u : u = <<f, g>>
  OBVIOUS
<1>2. u \in Seq(ToSet(u)) /\ ToSet(u) = {f, g}
  BY <1>1, TwoWritten
<1>3. u \o r \in Seq(ToSet(u \o r)) /\ ToSet(u \o r) = {f, g} \cup ToSet(r)
  BY <1>2, Joined
<1>4. QED
  BY <1>1, <1>3

\* One frame, two or three put on a stack.
LEMMA GrownByOne ==
  ASSUME NEW r, r \in Seq(ToSet(r)), NEW f, f.do \notin Halfway, NEW q, q = <<f>> \o r
  PROVE  q \in Seq(ToSet(q)) /\ Grown(r, q)
<1>1. q \in Seq(ToSet(q)) /\ ToSet(q) = {f} \cup ToSet(r)
  BY PutOn
<1>2. QED
  BY <1>1 DEF Grown

\* Two frames.
LEMMA GrownByTwo ==
  ASSUME NEW r, r \in Seq(ToSet(r)), NEW f, f.do \notin Halfway, NEW g, g.do \notin Halfway,
         NEW q, q = <<f, g>> \o r
  PROVE  Grown(r, q)
<1>1. ToSet(q) = {f, g} \cup ToSet(r)
  BY PutTwoOn
<1>2. QED
  BY <1>1 DEF Grown

\* Three.
LEMMA GrownByThree ==
  ASSUME NEW r, r \in Seq(ToSet(r)), NEW f, f.do \notin Halfway, NEW g, g.do \notin Halfway,
         NEW h, h.do \notin Halfway, NEW q, q = (<<f, g>> \o <<h>>) \o r
  PROVE  Grown(r, q)
<1>1. PICK v, w : v = <<f, g>> /\ w = <<h>>
  OBVIOUS
<1>2. /\ v \in Seq(ToSet(v)) /\ ToSet(v) = {f, g}
      /\ w \in Seq(ToSet(w)) /\ ToSet(w) = {h}
  BY <1>1, OneWritten, TwoWritten
<1>3. PICK x : x = v \o w
  OBVIOUS
<1>4. x \in Seq(ToSet(x)) /\ ToSet(x) = ToSet(v) \cup ToSet(w)
  BY <1>2, <1>3, Joined
<1>5. q = x \o r
  BY <1>1, <1>3
<1>6. ToSet(q) = ToSet(x) \cup ToSet(r)
  BY <1>4, <1>5, Joined
<1>7. QED
  BY <1>2, <1>4, <1>6 DEF Grown

\* Stopping a journey puts at most its status on what was left to do.
LEMMA StopGrown ==
  ASSUME NEW a, NEW r, r \in Seq(ToSet(r)), StopTravel(a, r)
  PROVE  Grown(r, agenda')
<1>1. PICK f : f = TravelUpdate(a)
  OBVIOUS
<1>2. f.do \notin Halfway
  BY <1>1 DEF TravelUpdate, Frame, Halfway
<1>3. PICK q : q = <<f>> \o r
  OBVIOUS
<1>4. Grown(r, q)
  BY <1>2, <1>3, GrownByOne
<1>5. agenda' = r \/ agenda' = q
  BY <1>1, <1>3, NothingPushed DEF StopTravel
<1>6. QED
  BY <1>4, <1>5 DEF Grown

\* A disconnect puts at most that and the release of control.
LEMMA DepartsGrown ==
  ASSUME NEW c, NEW r, r \in Seq(ToSet(r)), Departs(c, r)
  PROVE  Grown(r, agenda')
<1>1. PICK a, f, q : a = actorOf[c] /\ f = Drop(a, c) /\ q = <<f>> \o r
  OBVIOUS
<1>2. f.do \notin Halfway
  BY <1>1 DEF Drop, Frame, Halfway
<1>3. q \in Seq(ToSet(q)) /\ Grown(r, q)
  BY <1>1, <1>2, GrownByOne
<1>4. agenda' = r \/ StopTravel(a, q)
  BY <1>1 DEF Departs
<1>5. CASE agenda' = r
  BY <1>5 DEF Grown
<1>6. CASE StopTravel(a, q)
  BY <1>3, <1>6, StopGrown DEF Grown
<1>7. QED
  BY <1>4, <1>5, <1>6

\* A refused send, whatever was left to do.
LEMMA RefusedGrown ==
  ASSUME NEW c, NEW r, NEW q, q \in Seq(ToSet(q)), Grown(r, q), Disconnect(c, q)
  PROVE  Grown(r, agenda')
<1>1. Grown(q, agenda')
  BY DepartsGrown DEF Disconnect
<1>2. QED
  BY <1>1 DEF Grown

\* At most one frame is put on a stack, not half sent.
LEMMA FewGrown ==
  ASSUME NEW r, r \in Seq(ToSet(r)), NEW f, f.do \notin Halfway,
         NEW q, q \in {r, <<>> \o r, <<f>> \o r}
  PROVE  q \in Seq(ToSet(q)) /\ Grown(r, q)
<1>1. CASE q = r \/ q = <<>> \o r
  BY <1>1, NothingPushed DEF Grown
<1>2. CASE q = <<f>> \o r
  BY <1>2, GrownByOne
<1>3. QED
  BY <1>1, <1>2

\* What is under the head of the running handler.
LEMMA RestOwn ==
  ASSUME IInv, NEW do, Running(do)
  PROVE  /\ Rest \in Seq(ToSet(Rest)) /\ Head1.do = do
         /\ ToSet(agenda) = {Head1} \cup ToSet(Rest)
<1>1. Base(Rest) /\ Head1.do = do /\ agenda # <<>>
  BY Resumes
<1>2. ToSet(agenda) = {Head1} \cup ToSet(Rest)
  BY <1>1, UnderHead DEF IInv, Stacked, Head1, Rest
<1>3. QED
  BY <1>1, <1>2 DEF Base, Structured

\* Sends put nothing half sent on what is left.
LEMMA SendsGrown ==
  ASSUME IInv, TellNext \/ TellDone \/ SendReply \/ AnnounceStart \/ AnnounceNext
  PROVE  Grown(Rest, agenda')
<1>1. CASE TellNext \/ TellDone
  <2>1. Rest \in Seq(ToSet(Rest)) /\ Head1.do = "tell"
    BY <1>1, RestOwn DEF TellNext, TellDone
  <2>2. PICK f : f = HeadTo(Waiting \ {To})
    OBVIOUS
  <2>3. f.do \notin Halfway
    BY <2>1, <2>2 DEF HeadTo, Frame, Halfway
  <2>4. PICK q : q = Sent
    OBVIOUS
  <2>5. q \in {Rest, <<f>> \o Rest}
    BY <2>1, <2>2, <2>4, NothingPushed DEF Sent
  <2>6. q \in Seq(ToSet(q)) /\ Grown(Rest, q)
    BY <2>1, <2>3, <2>5, FewGrown
  <2>7. agenda' = q \/ agenda' = Rest \/ Disconnect(To, q)
    BY <1>1, <2>4 DEF TellNext, TellDone
  <2>8. QED
    BY <2>6, <2>7, RefusedGrown DEF Grown
<1>2. CASE SendReply
  <2>1. Rest \in Seq(ToSet(Rest))
    BY <1>2, RestOwn DEF SendReply
  <2>2. PICK f, q : f = Refresh /\ q = <<f>> \o Rest
    OBVIOUS
  <2>3. f.do \notin Halfway
    BY <2>2 DEF Refresh, Frame, Halfway
  <2>4. q \in Seq(ToSet(q)) /\ Grown(Rest, q)
    BY <2>1, <2>2, <2>3, FewGrown
  <2>5. agenda' = Rest \/ Disconnect(Head1.client, q)
    BY <1>2, <2>2 DEF SendReply, RefreshAfterReply
  <2>6. QED
    BY <2>4, <2>5, RefusedGrown DEF Grown
<1>3. CASE AnnounceStart
  <2>1. Rest \in Seq(ToSet(Rest))
    BY <1>3, RestOwn DEF AnnounceStart
  <2>2. PICK f : f = Frame("announcing", None, None, Attached, None)
    OBVIOUS
  <2>3. f.do \notin Halfway
    BY <2>2 DEF Frame, Halfway
  <2>4. agenda' = <<f>> \o Rest
    BY <1>3, <2>2 DEF AnnounceStart
  <2>5. QED
    BY <2>1, <2>3, <2>4, FewGrown
<1>4. CASE AnnounceNext
  <2>1. /\ Rest \in Seq(ToSet(Rest)) /\ Head1.do = "announcing"
        /\ ToSet(agenda) = {Head1} \cup ToSet(Rest)
    BY <1>4, RestOwn DEF AnnounceNext
  <2>2. PICK f, q : f = HeadTo(Head1.to \ {Least(Head1.to)}) /\ q = <<f>> \o Rest
    OBVIOUS
  <2>3. f.do \notin Halfway
    BY <2>1, <2>2 DEF HeadTo, Frame, Halfway
  <2>4. q \in Seq(ToSet(q)) /\ Grown(Rest, q)
    BY <2>1, <2>2, <2>3, FewGrown
  <2>5. \/ agenda' = Rest \/ agenda' = q \/ agenda' = agenda
        \/ Disconnect(Least(Head1.to), q)
    BY <1>4, <2>2 DEF AnnounceNext
  <2>6. QED
    BY <2>1, <2>4, <2>5, RefusedGrown DEF Grown, Halfway
<1>5. QED
  BY <1>1, <1>2, <1>3, <1>4

\* Passes of the streams' reset, and the number of clients compared.
LEMMA ResetsGrown ==
  ASSUME IInv, SnapshotNext \/ ResetStart \/ ResetNext \/ ResetEnd \/ FewerNext
  PROVE  Grown(Rest, agenda')
<1>1. CASE SnapshotNext
  <2>1. Rest \in Seq(ToSet(Rest)) /\ Base(Rest)
    BY <1>1, Resumes, RestOwn DEF SnapshotNext
  <2>2. PICK g, q : g = Reply(Head1.client) /\ q = Append(Rest, g)
    OBVIOUS
  <2>3. g.do = "reply"
    BY <2>2 DEF Reply, Frame
  <2>4. ToSet(q) = ToSet(Rest) \cup {g}
    BY <2>1, <2>2, <2>3, ReplyAppended DEF Base
  <2>5. agenda' = Rest \/ agenda' = q \/ Disconnect(Head1.client, Rest)
    BY <1>1, <2>2 DEF SnapshotNext
  <2>6. QED
    BY <2>1, <2>3, <2>4, <2>5, RefusedGrown DEF Grown, Halfway
<1>2. CASE ResetStart
  <2>1. Rest \in Seq(ToSet(Rest))
    BY <1>2, RestOwn DEF ResetStart
  <2>2. PICK f : f = Frame("resetting", None, None, Attached, controllers)
    OBVIOUS
  <2>3. f.do \notin Halfway /\ agenda' = <<f>> \o Rest
    BY <1>2, <2>2 DEF Frame, Halfway, ResetStart
  <2>4. QED
    BY <2>1, <2>3, FewGrown
<1>3. CASE ResetNext
  <2>1. Rest \in Seq(ToSet(Rest)) /\ Head1.do = "resetting"
    BY <1>3, RestOwn DEF ResetNext
  <2>2. PICK f, g : f = Frame("snapshot", None, To, {}, None) /\ g = HeadTo(Waiting \ {To})
    OBVIOUS
  <2>3. f.do \notin Halfway /\ g.do \notin Halfway /\ agenda' = <<f, g>> \o Rest
    BY <1>3, <2>1, <2>2 DEF Frame, HeadTo, Halfway, ResetNext
  <2>4. QED
    BY <2>1, <2>3, GrownByTwo
<1>4. CASE ResetEnd
  <2>1. Rest \in Seq(ToSet(Rest))
    BY <1>4, RestOwn DEF ResetEnd
  <2>2. PICK p : p = HeldBack(Head1.mark)
    OBVIOUS
  <2>3. p \in Seq(ToSet(p)) /\ \A f \in ToSet(p) : f.do \notin Halfway
    <3>1. p \in Seq(ToSet(p)) /\ \A f \in ToSet(p) : f.do = "tell"
      BY <2>2, HeldBackPlain
    <3>2. QED
      BY <3>1 DEF Halfway
  <2>4. agenda' = p \o Rest
    BY <1>4, <2>2 DEF ResetEnd
  <2>5. QED
    BY <2>1, <2>3, <2>4, Joined DEF Grown
<1>5. CASE FewerNext
  <2>1. Rest \in Seq(ToSet(Rest))
    BY <1>5, RestOwn DEF FewerNext
  <2>2. PICK f : f = Refresh
    OBVIOUS
  <2>3. f.do \notin Halfway /\ agenda' \in {<<f>> \o Rest, <<>> \o Rest}
    BY <1>5, <2>2 DEF Refresh, Frame, Halfway, FewerNext
  <2>4. QED
    BY <2>1, <2>3, FewGrown
<1>6. QED
  BY <1>1, <1>2, <1>3, <1>4, <1>5

\* Control and pauses.
LEMMA ControlGrown ==
  ASSUME IInv, \/ DropControl \/ AcquireRest \/ PausesNext \/ PausePrep \/ PauseSettled
  PROVE  Grown(Rest, agenda')
<1>1. CASE DropControl \/ AcquireRest \/ PauseSettled
  <2>1. Rest \in Seq(ToSet(Rest))
    BY <1>1, RestOwn DEF DropControl, AcquireRest, PauseSettled
  <2>2. PICK f : f = TellControl(Head1.actor)
    OBVIOUS
  <2>3. f.do \notin Halfway
    BY <2>2 DEF TellControl, Tell, Frame, Halfway
  <2>4. agenda' \in {<<f>> \o Rest, <<>> \o Rest, Rest}
    BY <1>1, <2>2 DEF DropControl, AcquireRest, PauseSettled
  <2>5. QED
    BY <2>1, <2>3, <2>4, FewGrown
<1>2. CASE PausesNext
  <2>1. Rest \in Seq(ToSet(Rest)) /\ Head1.do = "pauses"
    BY <1>2, RestOwn DEF PausesNext
  <2>2. PICK a, f, g, h, next, pause :
          /\ a = CHOOSE b \in Head1.to : TRUE
          /\ f = HeadTo(Head1.to \ {a}) /\ g = Frame("pausePrep", a, None, {}, None)
          /\ h = TellIntention(a) /\ next = <<f>> \o Rest /\ pause = <<g>> \o next
    OBVIOUS
  <2>3. f.do \notin Halfway /\ g.do \notin Halfway /\ h.do \notin Halfway
    BY <2>1, <2>2 DEF HeadTo, TellIntention, Tell, Frame, Halfway
  <2>4. next \in Seq(ToSet(next)) /\ Grown(Rest, next)
    BY <2>1, <2>2, <2>3, FewGrown
  <2>5. pause \in Seq(ToSet(pause)) /\ Grown(next, pause)
    BY <2>2, <2>3, <2>4, FewGrown
  <2>6. PICK last : last = <<h>> \o pause
    OBVIOUS
  <2>7. Grown(pause, last)
    BY <2>3, <2>5, <2>6, FewGrown
  <2>8. agenda' \in {Rest, next, pause, last}
    BY <1>2, <2>2, <2>6 DEF PausesNext
  <2>9. QED
    BY <2>4, <2>5, <2>7, <2>8 DEF Grown
<1>3. CASE PausePrep
  <2>1. Rest \in Seq(ToSet(Rest))
    BY <1>3, RestOwn DEF PausePrep
  <2>2. PICK a, f, g, h : /\ a = Head1.actor /\ f = Tell("outcome", Attached)
                          /\ g = TellIntention(a) /\ h = Frame("settled", a, None, {}, None)
    OBVIOUS
  <2>3. f.do \notin Halfway /\ g.do \notin Halfway /\ h.do \notin Halfway
    BY <2>2 DEF TellIntention, Tell, Frame, Halfway
  <2>4. \/ agenda' = Rest \/ agenda' = <<h>> \o Rest
        \/ agenda' = (<<f, g>> \o <<h>>) \o Rest
    BY <1>3, <2>2 DEF PausePrep, TellOutcome
  <2>5. CASE agenda' = (<<f, g>> \o <<h>>) \o Rest
    BY <2>1, <2>3, <2>5, GrownByThree
  <2>6. QED
    BY <2>1, <2>3, <2>4, <2>5, FewGrown
<1>4. QED
  BY <1>1, <1>2, <1>3

\* Playing.
LEMMA PlayGrown ==
  ASSUME IInv, Choose \/ AdmitAi \/ ExecuteHuman \/ ExecuteAi \/ ExecuteTravel
  PROVE  Grown(Rest, agenda')
<1>1. CASE Choose
  <2>1. Rest \in Seq(ToSet(Rest))
    BY <1>1, RestOwn DEF Choose
  <2>2. PICK f : agenda' \in {Rest, <<f>> \o Rest} /\ f.do \notin Halfway
    <3>1. \/ agenda' = Rest
          \/ \E f : /\ agenda' = <<f>> \o Rest
                   /\ f.do \in {"announce", "execute", "walk", "executeAi"}
      <4>1. \A do, a : Frame(do, a, None, {}, None).do = do
        BY DEF Frame
      <4>2. QED
        BY <1>1, <4>1 DEF Choose, Announce
    <3>2. PICK g : g = Frame("walk", None, None, {}, None)
      OBVIOUS
    <3>3. g.do \notin Halfway
      BY <3>2 DEF Frame, Halfway
    <3>4. CASE agenda' = Rest
      BY <3>3, <3>4
    <3>5. CASE agenda' # Rest
      <4>1. PICK f : /\ agenda' = <<f>> \o Rest
                       /\ f.do \in {"announce", "execute", "walk", "executeAi"}
        BY <3>1, <3>5
      <4>2. f.do \notin Halfway
        BY <4>1 DEF Halfway
      <4>3. QED
        BY <4>1, <4>2
    <3>6. QED
      BY <3>4, <3>5
  <2>3. QED
    BY <2>1, <2>2, FewGrown
<1>2. CASE AdmitAi
  <2>1. Rest \in Seq(ToSet(Rest))
    BY <1>2, RestOwn DEF AdmitAi
  <2>2. PICK f, g, h : /\ f = Tell("outcome", Attached)
                       /\ g = Frame("executeAi", None, None, {}, None)
                       /\ h = Tell("notice", {controllers[a] : a \in Actors} \ {None})
    OBVIOUS
  <2>3. f.do \notin Halfway /\ g.do \notin Halfway /\ h.do \notin Halfway
    BY <2>2 DEF Tell, Frame, Halfway
  <2>4. agenda' = <<f, g>> \o Rest \/ agenda' = <<h>> \o Rest
    BY <1>2, <2>2 DEF AdmitAi
  <2>5. CASE agenda' = <<f, g>> \o Rest
    BY <2>1, <2>3, <2>5, GrownByTwo
  <2>6. QED
    BY <2>1, <2>3, <2>4, <2>5, FewGrown
<1>3. CASE ExecuteHuman
  <2>1. Rest \in Seq(ToSet(Rest))
    BY <1>3, RestOwn DEF ExecuteHuman
  <2>2. PICK a, f, g, h, k : /\ a = Head1.actor /\ f = Tell("outcome", Attached)
                             /\ g = TellIntention(a) /\ h = Tell("notice", {controllers[a]})
                             /\ k = Announce
    OBVIOUS
  <2>3. f.do \notin Halfway /\ g.do \notin Halfway /\ h.do \notin Halfway /\ k.do \notin Halfway
    BY <2>2 DEF TellIntention, Tell, Announce, Frame, Halfway
  <2>4. \/ agenda' = <<f, g>> \o Rest \/ agenda' = (<<h>> \o <<k>>) \o Rest
        \/ agenda' = (<<>> \o <<k>>) \o Rest
    BY <1>3, <2>2 DEF ExecuteHuman, TellOutcome
  <2>5. <<h>> \o <<k>> = <<h, k>> /\ <<>> \o <<k>> = <<k>>
    <3>1. <<h>> \o <<k>> = <<h, k>>
      BY PairWritten
    <3>2. PICK w : w = <<k>>
      OBVIOUS
    <3>3. <<>> \o w = w
      BY <3>2, OneWritten, NothingPushed
    <3>4. QED
      BY <3>1, <3>2, <3>3
  <2>6. CASE agenda' = <<f, g>> \o Rest
    BY <2>1, <2>3, <2>6, GrownByTwo
  <2>7. CASE agenda' = <<h, k>> \o Rest
    BY <2>1, <2>3, <2>7, GrownByTwo
  <2>8. CASE agenda' = <<k>> \o Rest
    BY <2>1, <2>3, <2>8, FewGrown
  <2>9. QED
    BY <2>4, <2>5, <2>6, <2>7, <2>8
<1>4. CASE ExecuteAi
  <2>1. Rest \in Seq(ToSet(Rest))
    BY <1>4, RestOwn DEF ExecuteAi
  <2>2. PICK f, g : f = Tell("outcome", Attached) /\ g = Announce
    OBVIOUS
  <2>3. f.do \notin Halfway /\ g.do \notin Halfway
    BY <2>2 DEF Tell, Announce, Frame, Halfway
  <2>4. agenda' = <<f>> \o Rest \/ agenda' = <<g>> \o Rest
    BY <1>4, <2>2 DEF ExecuteAi
  <2>5. QED
    BY <2>1, <2>3, <2>4, FewGrown
<1>5. CASE ExecuteTravel
  <2>1. Rest \in Seq(ToSet(Rest))
    BY <1>5, RestOwn DEF ExecuteTravel
  <2>2. PICK a, f, g, h, k : /\ a = Head1.actor /\ f = Tell("outcome", Attached)
                             /\ g = TellIntention(a) /\ h = Tell("notice", {controllers[a]})
                             /\ k = Announce
    OBVIOUS
  <2>3. f.do \notin Halfway /\ g.do \notin Halfway /\ h.do \notin Halfway /\ k.do \notin Halfway
    BY <2>2 DEF TellIntention, Tell, Announce, Frame, Halfway
  <2>4. \/ \E moved \in BOOLEAN : agenda' = (<<f, g>> \o <<Finish(a, moved)>>) \o Rest
        \/ agenda' = <<h, k>> \o Rest
    BY <1>5, <2>2 DEF ExecuteTravel, TellOutcome
  <2>5. ASSUME NEW moved \in BOOLEAN, agenda' = (<<f, g>> \o <<Finish(a, moved)>>) \o Rest
        PROVE  Grown(Rest, agenda')
    <3>1. PICK m : m = Finish(a, moved)
      OBVIOUS
    <3>2. m.do \notin Halfway
      BY <3>1 DEF Finish, Frame, Halfway
    <3>3. QED
      BY <2>1, <2>3, <2>5, <3>1, <3>2, GrownByThree
  <2>6. CASE agenda' = <<h, k>> \o Rest
    BY <2>1, <2>3, <2>6, GrownByTwo
  <2>7. QED
    BY <2>4, <2>5, <2>6
<1>6. QED
  BY <1>1, <1>2, <1>3, <1>4, <1>5

\* Journeys that stop or go on.
LEMMA JourneysGrown ==
  ASSUME IInv, StopNext \/ RefuseStep \/ FinishTravel \/ Walk
  PROVE  Grown(Rest, agenda')
<1>1. Rest \in Seq(ToSet(Rest))
  BY RestOwn DEF StopNext, RefuseStep, FinishTravel, Walk
<1>2. PICK f : f = TravelUpdate(Head1.actor)
  OBVIOUS
<1>3. f.do \notin Halfway
  BY <1>2 DEF TravelUpdate, Frame, Halfway
<1>4. agenda' = Rest \/ agenda' = <<f>> \o Rest \/ StopTravel(Head1.actor, Rest)
  BY <1>2 DEF StopNext, RefuseStep, FinishTravel, Walk, StopHere
<1>5. QED
  BY <1>1, <1>3, <1>4, FewGrown, StopGrown

\* But for journeys' updates and refreshes, no step puts anything half sent on
\* what is left to do.
LEMMA UnwindGrown ==
  ASSUME IInv, Unwind, Head1.do \notin {"travel", "travelling", "refresh", "refreshing"}
  PROVE  Grown(Rest, agenda')
<1>1. ~(\/ TravelUpdateStart \/ TravelUpdateNext \/ TravelUpdateEnd \/ RefreshTaken
        \/ RefreshRefused)
  BY DEF TravelUpdateStart, TravelUpdateNext, TravelUpdateEnd, RefreshTaken, RefreshRefused,
         Running
<1>2. QED
  BY <1>1, SendsGrown, ResetsGrown, ControlGrown, PlayGrown, JourneysGrown DEF Unwind

-----------------------------------------------------------------------------
(* What was told: readiness *)

\* How many are attached, and whether what they know of their readiness holds.
Number == Cardinality(Attached)
AllCurrent == \A c \in Attached : readiness[c] # None => Current(c)

\* A pass that was interrupted knows that a client has gone, and begins again.
\* One that nothing interrupted is at the head: whom it has seen has the
\* readiness that holds, and what it asked the engine is still so.
PassOK(f) ==
  /\ f.mark.count \in Nat /\ Number <= f.mark.count
  /\ \A c \in f.to \cap Attached : readiness[c] # None
  /\ Number = f.mark.count =>
       /\ Head1.do = "refreshing"
       /\ \A c \in Attached \ f.to : readiness[c] # None => Current(c)
       /\ \A a \in Actors : f.mark.inputs[a] # None => f.mark.inputs[a] = Input(a)

\* A handler that ends by refreshing readiness will still do so, or it did and
\* only answers are left.
Published ==
  /\ \A f \in ToSet(agenda) : f.do = "refreshing" => PassOK(f)
  /\ published => \/ \E f \in ToSet(agenda) : f.do \in {"refresh", "refreshing"}
                  \/ AllCurrent /\ \A f \in ToSet(agenda) : f.do = "reply"

\* Who is attached is finite in number.
LEMMA NumberType == IsFiniteSet(Attached) /\ Number \in Nat
<1>1. IsFiniteSet(Clients) /\ Attached \subseteq Clients
  BY SessionAssumption DEF Attached
<1>2. QED
  BY <1>1, FS_Subset, FS_CardinalityType DEF Number

\* A disconnect takes one client away and leaves the others alone.
LEMMA Gone ==
  ASSUME TypeOK, NEW c \in Attached, NEW r, Departs(c, r)
  PROVE  /\ Attached' = Attached \ {c} /\ Number' < Number
         /\ \A d \in Attached' : /\ actorOf'[d] = actorOf[d] /\ readiness'[d] = readiness[d]
                                 /\ toldTravel'[d] = toldTravel[d]
                                 /\ d \in behind => d \in behind'
<1>1. c \in Clients
  BY DEF Attached
<1>2. /\ actorOf' = [actorOf EXCEPT ![c] = None] /\ readiness' = [readiness EXCEPT ![c] = None]
      /\ toldTravel' = [toldTravel EXCEPT ![c] = None] /\ behind' = behind \ {c}
  BY DEF Departs
<1>3. /\ actorOf'[c] = None
      /\ \A d \in Clients \ {c} : /\ actorOf'[d] = actorOf[d] /\ readiness'[d] = readiness[d]
                                  /\ toldTravel'[d] = toldTravel[d]
  BY <1>1, <1>2 DEF TypeOK
<1>4. Attached' = Attached \ {c}
  BY <1>3 DEF Attached
<1>5. Number' = Number - 1
  BY <1>4, NumberType, FS_RemoveElement DEF Number
<1>6. QED
  BY <1>2, <1>3, <1>4, <1>5, NumberType DEF Attached

\* What a step other than a pass of the refresh does to clients: one may leave,
\* or one is sent a snapshot.
Stays ==
  /\ published' = published /\ arrived' = arrived /\ Attached' \subseteq Attached
  /\ \A c \in Attached' : /\ actorOf'[c] = actorOf[c]
                          /\ \/ readiness'[c] = readiness[c]
                             \/ Head1.do = "snapshot" /\ readiness'[c] # None
  /\ \A c \in Clients \ Attached : readiness'[c] = readiness[c]

\* What it does to what they were told of journeys.
Hears ==
  \A c \in Attached' :
    \/ /\ toldTravel'[c] = toldTravel[c] /\ (c \in behind => c \in behind')
       /\ readiness'[c] = readiness[c]
    \/ toldTravel'[c] = status'[actorOf[c]]

\* A step that leaves clients alone.
LEMMA QuietStays ==
  ASSUME UNCHANGED <<arrived, actorOf, readiness, published>>
  PROVE  Stays /\ (UNCHANGED <<toldTravel, behind>> => Hears)
  BY DEF Stays, Hears, Attached

\* A refused send.
LEMMA RefusedStays ==
  ASSUME TypeOK, NEW c \in Attached, NEW r, Disconnect(c, r)
  PROVE  Stays /\ Hears
<1>1. /\ Departs(c, r) /\ published' = published /\ arrived' = arrived
      /\ readiness' = [readiness EXCEPT ![c] = None]
  BY DEF Disconnect, Departs
<1>2. \A d \in Clients \ Attached : readiness'[d] = readiness[d]
  BY <1>1 DEF TypeOK
<1>3. QED
  BY <1>1, <1>2, Gone DEF Stays, Hears

\* A snapshot.
LEMMA SnapshotStays ==
  ASSUME IInv, SnapshotNext
  PROVE  Stays /\ Hears
<1>1. Head1.do = "snapshot" /\ Head1.client \in Attached
  BY Resumes DEF SnapshotNext, OnTop
<1>2. CASE Disconnect(Head1.client, Rest)
  BY <1>1, <1>2, RefusedStays DEF IInv
<1>3. CASE CommitSnapshot(Head1.client) /\ UNCHANGED <<arrived, actorOf, status, published>>
  <2>1. ReadinessFor(Head1.client, Input(actorOf[Head1.client])) # None
    <3>1. ReadinessFor(Head1.client, Input(actorOf[Head1.client])) \in Readiness
      BY DEF ReadinessFor, Readiness
    <3>2. QED
      BY <3>1, Apart
  <2>2. \A c \in Clients : IF c = Head1.client
                           THEN readiness'[c] # None /\ toldTravel'[c] = status[actorOf[c]]
                           ELSE /\ readiness'[c] = readiness[c] /\ toldTravel'[c] = toldTravel[c]
                                /\ c \in behind => c \in behind'
    BY <1>3, <2>1 DEF CommitSnapshot, IInv, TypeOK
  <2>3. Attached' = Attached /\ Attached \subseteq Clients
    BY <1>3 DEF Attached
  <2>4. QED
    BY <1>1, <1>3, <2>2, <2>3 DEF Stays, Hears
<1>4. CASE UNCHANGED <<quiet, toldVars>>
  BY <1>4, QuietStays DEF quiet, clientVars, toldVars
<1>5. QED
  BY <1>2, <1>3, <1>4 DEF SnapshotNext, travelVars

\* Whatever runs, but for a pass of the refresh.
LEMMA UnwindStays ==
  ASSUME IInv, Unwind, ~RefreshTaken
  PROVE  Stays /\ (~TravelUpdateNext => Hears)
<1>1. TypeOK
  BY DEF IInv
<1>2. CASE TellNext \/ TellDone
  <2>1. CASE Waiting # {} /\ \E r : Disconnect(To, r)
    BY <1>1, <2>1, ToWaits, RefusedStays
  <2>2. CASE UNCHANGED <<quiet, toldTravel, behind>>
    BY <2>2, QuietStays DEF quiet, clientVars
  <2>3. QED
    BY <1>2, <2>1, <2>2 DEF TellNext, TellDone, toldVars
<1>3. CASE SendReply
  <2>1. CASE Head1.client \in Attached /\ Disconnect(Head1.client, RefreshAfterReply)
    BY <1>1, <2>1, RefusedStays
  <2>2. CASE UNCHANGED <<quiet, toldVars>>
    BY <2>2, QuietStays DEF quiet, clientVars, toldVars
  <2>3. QED
    BY <1>3, <2>1, <2>2 DEF SendReply
<1>4. CASE TravelUpdateStart \/ TravelUpdateEnd \/ StopNext
  BY <1>4, QuietStays DEF TravelUpdateStart, TravelUpdateEnd, StopNext, clientVars, toldVars
<1>5. CASE TravelUpdateNext
  <2>1. CASE Waiting # {} /\ \E r : Disconnect(To, r)
    BY <1>1, <2>1, ToWaits, RefusedStays
  <2>2. CASE UNCHANGED quiet
    BY <1>5, <2>2, QuietStays DEF quiet, clientVars
  <2>3. QED
    BY <1>5, <2>1, <2>2 DEF TravelUpdateNext
<1>6. CASE RefreshRefused
  <2>1. PICK c \in PassTo : Disconnect(c, <<PassAfter({d \in PassTo : d <= c})>> \o Rest)
    BY <1>6 DEF RefreshRefused
  <2>2. c \in Attached
    BY <2>1 DEF PassTo, Waiting
  <2>3. QED
    BY <1>1, <2>1, <2>2, RefusedStays
<1>7. CASE SnapshotNext
  BY <1>7, SnapshotStays
<1>8. CASE AnnounceStart \/ AnnounceNext
  <2>1. CASE Least(Head1.to) \in Attached /\ \E r : Disconnect(Least(Head1.to), r)
    BY <1>1, <2>1, RefusedStays
  <2>2. CASE UNCHANGED <<quiet, toldVars>> \/ UNCHANGED <<clientVars, published, toldVars>>
    BY <2>2, QuietStays DEF quiet, clientVars, toldVars
  <2>3. QED
    BY <1>8, <2>1, <2>2 DEF AnnounceStart, AnnounceNext
<1>9. CASE FewerNext \/ ResetStart \/ ResetNext \/ ResetEnd
  BY <1>9, QuietStays DEF FewerNext, ResetStart, ResetNext, ResetEnd, quiet, clientVars,
         toldVars
<1>10. CASE DropControl \/ AcquireRest \/ PausesNext \/ PausePrep \/ PauseSettled
  BY <1>10, QuietStays
     DEF DropControl, AcquireRest, PausesNext, PausePrep, PauseSettled, clientVars, toldVars
<1>11. CASE Choose \/ AdmitAi
  BY <1>11, QuietStays DEF Choose, AdmitAi, quiet, clientVars, toldVars
<1>12. CASE ExecuteHuman \/ ExecuteAi \/ ExecuteTravel
  BY <1>12, QuietStays DEF ExecuteHuman, ExecuteAi, ExecuteTravel, clientVars, toldVars
<1>13. CASE RefuseStep \/ FinishTravel \/ Walk
  BY <1>13, QuietStays DEF RefuseStep, FinishTravel, Walk, StopHere, quiet, clientVars, toldVars
<1>14. QED
  BY <1>2, <1>3, <1>4, <1>5, <1>6, <1>7, <1>8, <1>9, <1>10, <1>11, <1>12, <1>13 DEF Unwind

\* Nothing but a pass of the refresh is put on what is left to do.
NoPass == /\ ToSet(Rest) \subseteq ToSet(agenda')
          /\ \A f \in ToSet(agenda') : f.do = "refreshing" => f \in ToSet(Rest)

\* What is left to publish stays so while anything else runs.
LEMMA PublishedGoesOn ==
  ASSUME IInv, Published, Stays, NoPass, agenda # <<>>,
         Head1.do \notin {"refresh", "refreshing", "reply"}
  PROVE  Published'
<1>1. Number \in Nat /\ Number' \in Nat /\ Number' <= Number
  <2>1. Number' = Cardinality(Attached')
    BY DEF Number
  <2>2. QED
    BY <2>1, NumberType, FS_Subset, FS_CardinalityType DEF Stays, Number
<1>2. ToSet(agenda) = {Head1} \cup ToSet(Rest)
  BY UnderHead DEF IInv, Stacked, Head1, Rest
<1>3. ASSUME NEW f \in ToSet(agenda'), f.do = "refreshing" PROVE PassOK(f)'
  <2>1. PassOK(f)
    BY <1>2, <1>3 DEF NoPass, Published
  <2>2. f.mark.count \in Nat /\ Number < f.mark.count
    BY <1>1, <2>1 DEF PassOK
  <2>3. \A c \in f.to \cap Attached' : readiness'[c] # None
    BY <2>1 DEF PassOK, Stays
  <2>4. QED
    BY <1>1, <2>2, <2>3 DEF PassOK
<1>4. ASSUME published' PROVE \E f \in ToSet(agenda') : f.do \in {"refresh", "refreshing"}
  <2>1. published
    BY <1>4 DEF Stays
  <2>2. PICK f \in ToSet(agenda) : f.do \in {"refresh", "refreshing"}
    BY <1>2, <2>1 DEF Published
  <2>3. QED
    BY <1>2, <2>2 DEF NoPass
<1>5. QED
  BY <1>3, <1>4 DEF Published

\* Journeys' updates put no pass on what is left to do.
LEMMA UpdatesPass ==
  ASSUME IInv, TravelUpdateStart \/ TravelUpdateNext \/ TravelUpdateEnd
  PROVE  NoPass
<1>1. Rest \in Seq(ToSet(Rest)) /\ Head1.do \in {"travel", "travelling"}
  BY RestOwn DEF TravelUpdateStart, TravelUpdateNext, TravelUpdateEnd
<1>2. CASE TravelUpdateStart \/ TravelUpdateEnd
  <2>1. PICK f : \/ f = Frame("travelling", Head1.actor, None, Viewers(Head1.actor),
                              status[Head1.actor])
                    /\ agenda' \in {Rest, <<f>> \o Rest}
                 \/ f = TravelUpdate(Head1.actor) /\ agenda' \in {<<f>> \o Rest, <<>> \o Rest}
    BY <1>2 DEF TravelUpdateStart, TravelUpdateEnd
  <2>2. f.do # "refreshing"
    BY <2>1 DEF Frame, TravelUpdate
  <2>3. PICK q : q = <<f>> \o Rest
    OBVIOUS
  <2>4. ToSet(q) = {f} \cup ToSet(Rest)
    BY <1>1, <2>3, PutOn
  <2>5. agenda' = Rest \/ agenda' = q
    BY <1>1, <2>1, <2>3, NothingPushed
  <2>6. QED
    BY <2>2, <2>4, <2>5 DEF NoPass
<1>3. CASE TravelUpdateNext
  <2>1. PICK f, q : f = HeadTo(Waiting \ {To}) /\ q = <<f>> \o Rest
    OBVIOUS
  <2>2. f.do # "refreshing"
    BY <1>1, <2>1 DEF HeadTo, Frame
  <2>3. q \in Seq(ToSet(q)) /\ ToSet(q) = {f} \cup ToSet(Rest)
    BY <1>1, <2>1, PutOn
  <2>4. agenda' = q \/ Disconnect(To, q)
    BY <1>3, <2>1 DEF TravelUpdateNext
  <2>5. Grown(q, agenda')
    BY <2>3, <2>4, DepartsGrown DEF Disconnect, Grown
  <2>6. QED
    BY <2>2, <2>3, <2>5 DEF Grown, Halfway, NoPass
<1>4. QED
  BY <1>2, <1>3

\* An answer is sent, or its reader is gone and readiness is refreshed again.
LEMMA ReplyPublished ==
  ASSUME IInv, Published, SendReply
  PROVE  Published'
<1>1. /\ Rest \in Seq(ToSet(Rest)) /\ Head1.do = "reply" /\ agenda # <<>>
      /\ Below(Head1, Rest) /\ ToSet(agenda) = {Head1} \cup ToSet(Rest)
  BY RestOwn, Resumes DEF SendReply
<1>2. \A f \in ToSet(Rest) : f.do = "reply"
  BY <1>1 DEF Below, Ends
<1>3. CASE agenda' = Rest /\ UNCHANGED <<quiet, toldVars>>
  <2>1. UNCHANGED <<clientVars, controlVars, travelVars, engineVars, published>>
    BY <1>3 DEF quiet
  <2>2. published => AllCurrent
    BY <1>1, <1>2 DEF Published
  <2>3. AllCurrent => AllCurrent'
    BY <2>1 DEF AllCurrent, Attached, Current, ReadinessFor, Input, clientVars, controlVars,
                travelVars, engineVars
  <2>4. QED
    BY <1>2, <1>3, <2>1, <2>2, <2>3 DEF Published
<1>4. CASE Head1.client \in Attached /\ Disconnect(Head1.client, RefreshAfterReply)
  <2>1. PICK f, q : f = Refresh /\ q = <<f>> \o Rest
    OBVIOUS
  <2>2. f.do = "refresh" /\ q \in Seq(ToSet(q)) /\ ToSet(q) = {f} \cup ToSet(Rest)
    BY <1>1, <2>1, PutOn DEF Refresh, Frame
  <2>3. Grown(q, agenda')
    BY <1>4, <2>1, <2>2, DepartsGrown DEF Disconnect, RefreshAfterReply
  <2>4. \A g \in ToSet(agenda') : g.do # "refreshing"
    BY <1>2, <2>2, <2>3 DEF Grown, Halfway
  <2>5. f \in ToSet(agenda')
    BY <2>2, <2>3 DEF Grown
  <2>6. QED
    BY <2>2, <2>4, <2>5 DEF Published
<1>5. QED
  BY <1>3, <1>4 DEF SendReply

\* While a pass that nothing interrupted runs.
LEMMA PassGoesOn ==
  ASSUME IInv, Published, Running("refresh") \/ Running("refreshing")
  PROVE  /\ Rest \in Seq(ToSet(Rest)) /\ \A f \in ToSet(Rest) : f.do = "reply"
         /\ PassCount \in Nat /\ Number <= PassCount
         /\ PassTo \subseteq Attached /\ \A c \in PassTo : readiness[c] # None
         /\ Number = PassCount =>
              /\ \A c \in Attached \ PassTo : readiness[c] # None => Current(c)
              /\ \A a \in Actors : PassInput(a) = Input(a)
<1>1. PICK do \in {"refresh", "refreshing"} : Running(do)
  OBVIOUS
<1>2. /\ Rest \in Seq(ToSet(Rest)) /\ Head1.do = do
      /\ Below(Head1, Rest) /\ ToSet(agenda) = {Head1} \cup ToSet(Rest)
  BY <1>1, RestOwn, Resumes
<1>3. \A f \in ToSet(Rest) : f.do = "reply"
  BY <1>2 DEF Below, Ends
<1>4. CASE do = "refresh"
  BY <1>2, <1>3, <1>4, NumberType DEF PassCount, PassTo, PassInput, Number
<1>5. CASE do = "refreshing"
  <2>1. PassOK(Head1)
    BY <1>2, <1>5 DEF Published
  <2>2. PassCount = Head1.mark.count /\ PassTo = Head1.to \cap Attached
        /\ \A a \in Actors : PassInput(a) = IF Head1.mark.inputs[a] = None THEN Input(a)
                                            ELSE Head1.mark.inputs[a]
    BY <1>2, <1>5 DEF PassCount, PassTo, Waiting, PassInput
  <2>3. QED
    BY <1>2, <1>3, <2>1, <2>2 DEF PassOK
<1>6. QED
  BY <1>4, <1>5

\* What is left of a pass.
LEMMA PassLeft ==
  ASSUME NEW seen, NEW f, f = PassAfter(seen)
  PROVE  /\ f.do = "refreshing" /\ f.to = PassTo \ seen /\ f.mark.count = PassCount
         /\ \A a \in Actors : f.mark.inputs[a] \in {None, PassInput(a)}
  BY DEF PassAfter, Pass, Frame

\* Whom a pass that nothing interrupted has seen has the readiness that holds.
LEMMA SeenCurrent ==
  ASSUME IInv, Published, Running("refresh") \/ Running("refreshing"), Number = PassCount,
         NEW seen \in SUBSET PassTo,
         LET sent == {c \in seen : Due(c)}
         IN  /\ readiness' = [c \in Clients |-> IF c \in sent
                                 THEN ReadinessFor(c, PassInput(actorOf[c])) ELSE readiness[c]]
             /\ outdated' = outdated \ sent,
         UNCHANGED <<actorOf, controlVars, travelVars, engineVars>>,
         NEW c \in Attached' \ (PassTo \ seen), readiness'[c] # None
  PROVE  Current(c)'
<1> DEFINE sent == {d \in seen : Due(d)}
<1>1. /\ readiness' = [d \in Clients |-> IF d \in sent
                          THEN ReadinessFor(d, PassInput(actorOf[d])) ELSE readiness[d]]
      /\ outdated' = outdated \ sent
  OBVIOUS
<1>2. Attached' = Attached /\ c \in Clients /\ actorOf[c] \in Actors
  BY DEF Attached, IInv, TypeOK
<1>3. /\ \A d \in Attached \ PassTo : readiness[d] # None => Current(d)
      /\ PassInput(actorOf[c]) = Input(actorOf[c])
  BY <1>2, PassGoesOn
<1>4. /\ ReadinessFor(c, Input(actorOf[c]))' = ReadinessFor(c, Input(actorOf[c]))
  BY DEF ReadinessFor, Input, controlVars, travelVars, engineVars
<1>5. Current(c)' <=> readiness'[c] = ReadinessFor(c, Input(actorOf[c])) /\ c \notin outdated'
  BY <1>4 DEF Current
<1>6. CASE c \in sent
  BY <1>1, <1>2, <1>3, <1>5, <1>6
<1>7. CASE c \in seen \ sent
  <2>1. readiness'[c] = readiness[c] /\ ~Due(c)
    BY <1>1, <1>2, <1>7
  <2>2. QED
    BY <1>1, <1>3, <1>5, <2>1 DEF Due
<1>8. CASE c \notin PassTo
  <2>1. readiness'[c] = readiness[c]
    BY <1>1, <1>2, <1>8
  <2>2. Current(c)
    BY <1>2, <1>3, <1>8, <2>1
  <2>3. QED
    BY <1>1, <1>5, <2>1, <2>2 DEF Current
<1>9. QED
  BY <1>2, <1>6, <1>7, <1>8

\* A pass goes on, begins again, or is over and everybody has what holds.
LEMMA TakenPublished ==
  ASSUME IInv, Published, RefreshTaken
  PROVE  Published'
<1>1. Running("refresh") \/ Running("refreshing")
  BY DEF RefreshTaken
<1>2. /\ Rest \in Seq(ToSet(Rest)) /\ \A f \in ToSet(Rest) : f.do = "reply"
      /\ PassCount \in Nat /\ Number <= PassCount
      /\ PassTo \subseteq Attached /\ \A c \in PassTo : readiness[c] # None
      /\ Number = PassCount => \A a \in Actors : PassInput(a) = Input(a)
  BY <1>1, PassGoesOn
<1>3. PICK seen \in SUBSET PassTo :
        LET left == PassTo \ seen
            sent == {c \in seen : Due(c)}
        IN  /\ readiness' = [c \in Clients |-> IF c \in sent
                                THEN ReadinessFor(c, PassInput(actorOf[c])) ELSE readiness[c]]
            /\ outdated' = outdated \ sent
            /\ agenda' = (IF left # {} THEN <<PassAfter(seen)>>
                          ELSE IF AnotherPass(PassCount) THEN <<Refresh>> ELSE <<>>) \o Rest
  BY DEF RefreshTaken
<1>4. UNCHANGED <<actorOf, controlVars, travelVars, engineVars>>
  BY DEF RefreshTaken
<1>5. Number = PassCount =>
        \A c \in Attached' \ (PassTo \ seen) : readiness'[c] # None => Current(c)'
  BY <1>1, <1>3, <1>4, SeenCurrent
<1>6. Number' = Number /\ Attached' = Attached
  BY <1>4 DEF Number, Attached
<1>7. CASE PassTo \ seen # {}
  <2>1. PICK f : f = PassAfter(seen)
    OBVIOUS
  <2>2. /\ f.do = "refreshing" /\ f.to = PassTo \ seen /\ f.mark.count = PassCount
        /\ \A a \in Actors : f.mark.inputs[a] \in {None, PassInput(a)}
    BY <2>1, PassLeft
  <2>3. agenda' = <<f>> \o Rest
    BY <1>3, <1>7, <2>1
  <2>4. ToSet(agenda') = {f} \cup ToSet(Rest) /\ Head1' = f
    <3>1. ToSet(agenda') = {f} \cup ToSet(Rest)
      BY <1>2, <2>3, PutOn
    <3>2. Structured(Rest) /\ Below(f, Rest)
      BY <1>1, <1>2, <2>2, Resumes DEF Base, Below, Tops, Lasts
    <3>3. QED
      BY <2>3, <3>1, <3>2, Pushed DEF Head1
  <2>5. \A c \in f.to : readiness'[c] # None
    <3>1. \A c \in f.to : c \in Clients /\ readiness[c] # None
      BY <1>2, <2>2 DEF Attached
    <3>2. \A c \in f.to : readiness'[c] = readiness[c]
      BY <1>3, <2>2, <3>1
    <3>3. QED
      BY <3>1, <3>2
  <2>6. \A a \in Actors : Input(a)' = Input(a)
    BY <1>4 DEF Input, engineVars
  <2>7. Number' = f.mark.count =>
          /\ \A c \in Attached' \ f.to : readiness'[c] # None => Current(c)'
          /\ \A a \in Actors : f.mark.inputs[a] # None => f.mark.inputs[a] = Input(a)'
    BY <1>2, <1>5, <1>6, <2>2, <2>6
  <2>8. PassOK(f)'
    BY <1>2, <1>6, <2>2, <2>4, <2>5, <2>7 DEF PassOK
  <2>9. QED
    BY <1>2, <2>2, <2>4, <2>8 DEF Published
<1>8. CASE PassTo \ seen = {} /\ AnotherPass(PassCount)
  <2>1. PICK f : f = Refresh
    OBVIOUS
  <2>2. f.do = "refresh" /\ agenda' = <<f>> \o Rest
    BY <1>3, <1>8, <2>1 DEF Refresh, Frame
  <2>3. ToSet(agenda') = {f} \cup ToSet(Rest)
    BY <1>2, <2>2, PutOn
  <2>4. QED
    BY <1>2, <2>2, <2>3 DEF Published
<1>9. CASE PassTo \ seen = {} /\ ~AnotherPass(PassCount)
  <2>1. agenda' = Rest
    BY <1>2, <1>3, <1>9, NothingPushed
  <2>2. AllCurrent'
    BY <1>5, <1>9 DEF AllCurrent, AnotherPass, Number
  <2>3. QED
    BY <1>2, <2>1, <2>2 DEF Published
<1>10. QED
  BY <1>7, <1>8, <1>9

\* A pass is interrupted: one client fewer.
LEMMA RefusedPublished ==
  ASSUME IInv, Published, RefreshRefused
  PROVE  Published'
<1>1. Running("refresh") \/ Running("refreshing")
  BY DEF RefreshRefused
<1>2. /\ Rest \in Seq(ToSet(Rest)) /\ \A f \in ToSet(Rest) : f.do = "reply"
      /\ PassCount \in Nat /\ Number <= PassCount
      /\ PassTo \subseteq Attached /\ \A c \in PassTo : readiness[c] # None
  BY <1>1, PassGoesOn
<1>3. PICK c \in PassTo : Disconnect(c, <<PassAfter({d \in PassTo : d <= c})>> \o Rest)
  BY DEF RefreshRefused
<1>4. PICK f, q : f = PassAfter({d \in PassTo : d <= c}) /\ q = <<f>> \o Rest
  OBVIOUS
<1>5. f.do = "refreshing" /\ f.to \subseteq PassTo /\ f.mark.count = PassCount
  BY <1>4, PassLeft
<1>6. q \in Seq(ToSet(q)) /\ ToSet(q) = {f} \cup ToSet(Rest)
  BY <1>2, <1>4, PutOn
<1>7. Departs(c, q)
  BY <1>3, <1>4 DEF Disconnect
<1>8. Grown(q, agenda')
  BY <1>6, <1>7, DepartsGrown
<1>9. /\ Attached' = Attached \ {c} /\ Number' < Number /\ Number \in Nat /\ Number' \in Nat
      /\ \A d \in Attached' : readiness'[d] = readiness[d]
  <2>1. c \in Attached /\ TypeOK
    BY <1>2 DEF IInv
  <2>2. Number' \in Nat
    BY <2>1, <1>7, Gone, NumberType, FS_RemoveElement, FS_CardinalityType DEF Number
  <2>3. QED
    BY <1>7, <2>1, <2>2, Gone, NumberType
<1>10. PassOK(f)'
  BY <1>2, <1>5, <1>9 DEF PassOK
<1>11. \A g \in ToSet(agenda') : g.do = "refreshing" => g = f
  BY <1>2, <1>6, <1>8 DEF Grown, Halfway
<1>12. f \in ToSet(agenda')
  BY <1>6, <1>8 DEF Grown
<1>13. QED
  BY <1>5, <1>10, <1>11, <1>12 DEF Published

\* A handler begins: nothing is half sent, and readiness will be refreshed.
Opened == /\ \A f \in ToSet(agenda') : f.do \notin Halfway
          /\ published' => \E f \in ToSet(agenda') : f.do = "refresh"

\* What answers a request.
LEMMA Answers ==
  ASSUME NEW c
  PROVE  /\ Answering(c) \in Seq(ToSet(Answering(c))) /\ ToSet(Answering(c)) = {Refresh, Reply(c)}
         /\ Refresh.do = "refresh" /\ Reply(c).do = "reply"
  BY TwoWritten DEF Answering, Refresh, Reply, Frame

\* A handler that is answered begins so, whatever it does first.
LEMMA HandleOpens ==
  ASSUME NEW c, NEW p, p \in Seq(ToSet(p)), \A f \in ToSet(p) : f.do \notin Halfway, Handle(c, p)
  PROVE  Opened
<1>1. PICK r : r = Answering(c)
  OBVIOUS
<1>2. /\ r \in Seq(ToSet(r)) /\ ToSet(r) = {Refresh, Reply(c)}
      /\ Refresh.do = "refresh" /\ Reply(c).do = "reply"
  BY <1>1, Answers
<1>3. agenda' = p \o r
  BY <1>1 DEF Handle, Begin
<1>4. ToSet(agenda') = ToSet(p) \cup ToSet(r)
  BY <1>2, <1>3, Joined
<1>5. QED
  BY <1>2, <1>4 DEF Opened, Halfway

\* It begins with two frames at most.
LEMMA FewOpen ==
  ASSUME NEW c, NEW f, f.do \notin Halfway, NEW g, g.do \notin Halfway,
         NEW p, p \in {<<>>, <<f>>, <<f, g>>}, Handle(c, p)
  PROVE  Opened
<1>1. p \in Seq(ToSet(p)) /\ ToSet(p) \subseteq {f, g}
  <2>1. CASE p = <<>>
    BY <2>1, NoneWritten
  <2>2. CASE p = <<f>>
    BY <2>2, OneWritten
  <2>3. CASE p = <<f, g>>
    BY <2>3, TwoWritten
  <2>4. QED
    BY <2>1, <2>2, <2>3
<1>2. QED
  BY <1>1, HandleOpens

\* Every request begins so.
LEMMA RequestsOpen ==
  ASSUME IInv, NEW c \in Clients, Request(c)
  PROVE  Opened
<1>1. CASE \E a \in Actors : Attach(c, a)
  <2>1. PICK f, g : f = Frame("snapshot", None, c, {}, None) /\ g = Refresh
    OBVIOUS
  <2>2. f.do = "snapshot" /\ g.do = "refresh" /\ agenda' = <<f, g>>
    BY <1>1, <2>1 DEF Attach, Begin, Frame, Refresh
  <2>3. ToSet(agenda') = {f, g}
    BY <2>2, TwoWritten
  <2>4. QED
    BY <2>2, <2>3 DEF Opened, Halfway
<1>2. CASE Look(c)
  <2>1. PICK f, g, h : /\ f = Frame("snapshot", None, c, {}, None) /\ g = Refresh
                       /\ h = Tell("outcome", {c})
    OBVIOUS
  <2>2. /\ f.do = "snapshot" /\ g.do = "refresh" /\ h.do = "tell"
        /\ agenda' = <<f, g>> \/ agenda' = <<h, g>>
    BY <1>2, <2>1 DEF Look, Begin, Frame, Refresh, Tell
  <2>3. ToSet(agenda') = {f, g} \/ ToSet(agenda') = {h, g}
    BY <2>2, TwoWritten
  <2>4. QED
    BY <2>2, <2>3 DEF Opened, Halfway
<1>3. CASE Query(c) \/ Continue(c)
  <2>1. PICK f : f = Refresh
    OBVIOUS
  <2>2. f.do \notin Halfway
    BY <2>1 DEF Refresh, Frame, Halfway
  <2>3. PICK p : p = <<>>
    OBVIOUS
  <2>4. Handle(c, p)
    BY <1>3, <2>3 DEF Query, Continue
  <2>5. QED
    BY <2>2, <2>3, <2>4, FewOpen
<1>4. CASE AcquireControl(c)
  <2>1. PICK f, g, p : /\ f = ApplyPauses /\ g = Frame("acquire", actorOf[c], c, {}, None)
                       /\ p = <<f, g>>
    OBVIOUS
  <2>2. f.do \notin Halfway /\ g.do \notin Halfway
    BY <2>1 DEF ApplyPauses, Frame, Halfway
  <2>3. Handle(c, p)
    BY <1>4, <2>1 DEF AcquireControl
  <2>4. QED
    BY <2>1, <2>2, <2>3, FewOpen
<1>5. CASE ReleaseControl(c)
  <2>1. PICK a, f, r, q : /\ a = actorOf[c] /\ f = Drop(a, c) /\ r = Answering(c)
                          /\ q = <<f>> \o r
    OBVIOUS
  <2>2. /\ r \in Seq(ToSet(r)) /\ ToSet(r) = {Refresh, Reply(c)}
        /\ Refresh.do = "refresh" /\ Reply(c).do = "reply"
    BY <2>1, Answers
  <2>3. f.do \notin Halfway
    BY <2>1 DEF Drop, Frame, Halfway
  <2>4. q \in Seq(ToSet(q)) /\ Grown(r, q)
    BY <2>1, <2>2, <2>3, GrownByOne
  <2>5. StopTravel(a, q)
    BY <1>5, <2>1 DEF ReleaseControl
  <2>6. Grown(q, agenda')
    BY <2>4, <2>5, StopGrown
  <2>7. Grown(r, agenda')
    BY <2>4, <2>6 DEF Grown
  <2>8. QED
    BY <2>2, <2>7 DEF Grown, Opened, Halfway
<1>6. CASE AdmitIntention(c) \/ ResumeIntention(c) \/ CancelIntention(c)
  <2>1. PICK a, f, g, p : /\ a = actorOf[c] /\ f = Tell("outcome", Attached)
                          /\ g = TellIntention(a) /\ p = <<f, g>>
    OBVIOUS
  <2>2. f.do \notin Halfway /\ g.do \notin Halfway
    BY <2>1 DEF TellIntention, Tell, Frame, Halfway
  <2>3. Handle(c, p)
    BY <1>6, <2>1 DEF AdmitIntention, ResumeIntention, CancelIntention, TellOutcome
  <2>4. QED
    BY <2>1, <2>2, <2>3, FewOpen
<1>7. CASE BeginTravel(c)
  <2>1. PICK f, p : f = TravelUpdate(actorOf[c]) /\ p = <<f>>
    OBVIOUS
  <2>2. f.do \notin Halfway
    BY <2>1 DEF TravelUpdate, Frame, Halfway
  <2>3. Handle(c, p)
    BY <1>7, <2>1 DEF BeginTravel
  <2>4. QED
    BY <2>1, <2>2, <2>3, FewOpen
<1>8. CASE Setup(c)
  <2> DEFINE S == {a \in Actors : travels[a] # None}
             g == [a \in Actors |-> StopLater(a)]
  <2>1. PICK f, w, p : /\ f = Frame("reset", None, None, {}, None) /\ w = <<f>>
                       /\ p = [i \in 1..Len(SetToSeq(S)) |-> StopLater(SetToSeq(S)[i])]
    OBVIOUS
  <2>2. Handle(c, p \o w)
    BY <1>8, <2>1 DEF Setup
  <2>3. p \in Seq(ToSet(p)) /\ \A h \in ToSet(p) : h.do = "stop"
    <3>1. S \subseteq Actors /\ IsFiniteSet(S)
      BY SessionAssumption, FS_Subset
    <3>2. PICK n \in Nat : SetToSeq(S) \in [1..n -> S] /\ Len(SetToSeq(S)) = n
      BY <3>1, Listed
    <3>3. p = [i \in 1..Len(SetToSeq(S)) |-> g[SetToSeq(S)[i]]]
      BY <2>1, <3>1, <3>2
    <3>4. \A a \in S : g[a].do = "stop"
      BY <3>1 DEF StopLater, Frame
    <3> HIDE DEF S, g
    <3>5. p \in Seq(ToSet(p)) /\ \A h \in ToSet(p) : \E a \in S : h = g[a]
      BY <3>1, <3>3, FramesListed
    <3>6. QED
      BY <3>4, <3>5
  <2>4. w \in Seq(ToSet(w)) /\ ToSet(w) = {f} /\ f.do = "reset"
    BY <2>1, OneWritten DEF Frame
  <2>5. PICK x : x = p \o w
    OBVIOUS
  <2>6. x \in Seq(ToSet(x)) /\ ToSet(x) = ToSet(p) \cup ToSet(w)
    BY <2>3, <2>4, <2>5, Joined
  <2>7. \A h \in ToSet(x) : h.do \notin Halfway
    BY <2>3, <2>4, <2>6 DEF Halfway
  <2>8. QED
    BY <2>2, <2>5, <2>6, <2>7, HandleOpens
<1>9. CASE Rewind(c)
  <2>1. PICK f, p : f = Frame("reset", None, None, {}, None) /\ p = <<f>>
    OBVIOUS
  <2>2. f.do \notin Halfway
    BY <2>1 DEF Frame, Halfway
  <2>3. Handle(c, p)
    BY <1>9, <2>1 DEF Rewind
  <2>4. QED
    BY <2>1, <2>2, <2>3, FewOpen
<1>10. QED
  BY <1>1, <1>2, <1>3, <1>4, <1>5, <1>6, <1>7, <1>8, <1>9 DEF Request

\* So does everything else that a handler begins with.
LEMMA OthersOpen ==
  ASSUME IInv, Step \/ PollSaves \/ \E c \in Clients : Leave(c)
  PROVE  Opened
<1>1. CASE Step
  <2>1. PICK f, g, h : /\ f = ApplyPauses /\ g = Frame("choose", None, None, {}, None)
                       /\ h = Refresh
    OBVIOUS
  <2>2. f.do = "pauses" /\ g.do = "choose" /\ h.do = "refresh" /\ agenda' = <<f, g, h>>
    BY <1>1, <2>1 DEF Step, ApplyPauses, Refresh, Frame
  <2>3. ToSet(agenda') = {f, g, h}
    BY <2>2 DEF ToSet
  <2>4. QED
    BY <2>2, <2>3 DEF Opened, Halfway
<1>2. CASE PollSaves
  <2>1. PICK f, g, h : f = Tell("notice", Attached) /\ g = Fewer /\ h = Refresh
    OBVIOUS
  <2>2. f.do = "tell" /\ g.do = "fewer" /\ h.do = "refresh" /\ ~published'
    BY <1>2, <2>1 DEF PollSaves, Tell, Fewer, Refresh, Frame
  <2>3. PICK k : /\ k.do = "reply" /\ (agenda' = <<f, g>> \/ agenda' = <<h, k>>)
    <3>1. \A c : Reply(c).do = "reply"
      BY DEF Reply, Frame
    <3>2. agenda' = <<f, g>> \/ \E c \in Attached : agenda' = <<h, Reply(c)>>
      BY <1>2, <2>1 DEF PollSaves
    <3>3. QED
      BY <3>1, <3>2
  <2>4. ToSet(agenda') = {f, g} \/ ToSet(agenda') = {h, k}
    BY <2>3, TwoWritten
  <2>5. QED
    BY <2>2, <2>3, <2>4 DEF Opened, Halfway
<1>3. CASE \E c \in Clients : Leave(c)
  <2>1. PICK c \in Clients, r \in {<<>>} : Departs(c, r) /\ ~published'
    BY <1>3 DEF Leave
  <2>2. r \in Seq(ToSet(r)) /\ ToSet(r) = {}
    BY <2>1, NoneWritten
  <2>3. Grown(r, agenda')
    BY <2>1, <2>2, DepartsGrown
  <2>4. QED
    BY <2>1, <2>2, <2>3 DEF Grown, Opened
<1>4. QED
  BY <1>1, <1>2, <1>3

\* Every step keeps what is left to publish.
LEMMA PublishedKept == IInv /\ Published /\ [Next]_vars => Published'
<1> SUFFICES ASSUME IInv, Published, [Next]_vars PROVE Published'
  OBVIOUS
<1>1. ASSUME Opened PROVE Published'
  BY <1>1 DEF Opened, Published, Halfway
<1>2. CASE Unwind
  <2>1. agenda # <<>>
    BY <1>2 DEF Unwind, Running, TellNext, TellDone, SendReply, TravelUpdateStart,
       TravelUpdateNext, TravelUpdateEnd, StopNext, RefreshTaken, RefreshRefused, FewerNext,
       SnapshotNext, ResetStart, ResetNext, ResetEnd, AnnounceStart, AnnounceNext, DropControl,
       AcquireRest, PausesNext, PausePrep, PauseSettled, Choose, AdmitAi, ExecuteHuman, ExecuteAi,
       ExecuteTravel, RefuseStep, FinishTravel, Walk
  <2>2. CASE RefreshTaken \/ RefreshRefused
    BY <2>2, TakenPublished, RefusedPublished
  <2>3. CASE SendReply
    BY <2>3, ReplyPublished
  <2>4. CASE ~(RefreshTaken \/ RefreshRefused \/ SendReply)
    <3>1. Stays
      BY <1>2, <2>4, UnwindStays
    <3>2. Head1.do \notin {"refresh", "refreshing", "reply"}
      BY <1>2, <2>4 DEF Unwind, Running, TellNext, TellDone, TravelUpdateStart,
         TravelUpdateNext, TravelUpdateEnd, StopNext, FewerNext,
         SnapshotNext, ResetStart, ResetNext, ResetEnd, AnnounceStart, AnnounceNext, DropControl,
         AcquireRest, PausesNext, PausePrep, PauseSettled, Choose, AdmitAi, ExecuteHuman,
         ExecuteAi, ExecuteTravel, RefuseStep, FinishTravel, Walk
    <3>3. NoPass
      <4>1. CASE TravelUpdateStart \/ TravelUpdateNext \/ TravelUpdateEnd
        BY <4>1, UpdatesPass
      <4>2. CASE Head1.do \notin {"travel", "travelling"}
        <5>1. Grown(Rest, agenda')
          BY <1>2, <3>2, <4>2, UnwindGrown
        <5>2. QED
          BY <5>1 DEF Grown, Halfway, NoPass
      <4>3. QED
        BY <1>2, <2>4, <4>1, <4>2 DEF Unwind, Running, TellNext, TellDone, StopNext, FewerNext,
           SnapshotNext, ResetStart, ResetNext, ResetEnd, AnnounceStart, AnnounceNext,
           DropControl, AcquireRest, PausesNext, PausePrep, PauseSettled, Choose, AdmitAi,
           ExecuteHuman, ExecuteAi, ExecuteTravel, RefuseStep, FinishTravel, Walk
    <3>4. QED
      BY <2>1, <3>1, <3>2, <3>3, PublishedGoesOn
  <2>5. QED
    BY <2>2, <2>3, <2>4
<1>3. CASE UNCHANGED vars
  <2>1. /\ Number' = Number /\ Attached' = Attached /\ Head1' = Head1
        /\ UNCHANGED <<agenda, published, readiness>>
        /\ \A a \in Actors : Input(a)' = Input(a)
    BY <1>3 DEF Number, Attached, Head1, Input, vars, clientVars, engineVars
  <2>2. \A c : Current(c)' <=> Current(c)
    BY <1>3 DEF Current, ReadinessFor, Input, vars, clientVars, controlVars, travelVars,
                engineVars
  <2>3. AllCurrent => AllCurrent'
    BY <2>1, <2>2 DEF AllCurrent
  <2>4. \A f : PassOK(f) => PassOK(f)'
    BY <2>1, <2>2 DEF PassOK
  <2>5. QED
    BY <2>1, <2>3, <2>4 DEF Published
<1>4. CASE \E c \in Clients : Request(c)
  BY <1>1, <1>4, RequestsOpen
<1>5. CASE Step \/ PollSaves \/ \E c \in Clients : Leave(c)
  BY <1>1, <1>5, OthersOpen
<1>6. QED
  BY <1>2, <1>3, <1>4, <1>5 DEF Next, Dead

-----------------------------------------------------------------------------
(* What was told: journeys *)

\* Nobody who has not arrived was told anything.
Fresh == \A c \in Clients \ arrived : c \notin Attached /\ readiness[c] = None

\* No round of sends is on the stack.  Of these clients those attached view the
\* actor.
Silent(s) == \A f \in ToSet(s) : f.do # "travelling"
Of(S, a)  == \A c \in S \cap Attached : actorOf[c] = a

\* The status a round of sends began with is still the one, or has ended.
Moved(f) ==
  /\ status[f.actor] # None /\ f.mark # None
  /\ \/ status[f.actor] = f.mark
     \/ f.mark.active /\ ~status[f.actor].active
\* A round of sends about the journey of its actor.
Broadcasts(f) == f.do = "travelling" /\ Moved(f) /\ Of(f.to, f.actor)

\* What may come before the next send of a round: the release of control by a
\* client it disconnected, and the telling of it.
Interrupts(f, g) ==
  \/ f.do = "drop" /\ f.actor = g.actor
  \/ f.do = "tell" /\ Of(f.to, g.actor) /\ controllers[g.actor] = None

\* There is one round of sends at most, and what interrupts it is about its
\* actor: only its journey may end meanwhile.
Broadcasting ==
  IF broadcasting
  THEN /\ agenda # <<>>
       /\ \/ Broadcasts(Head1) /\ Silent(Rest)
          \/ /\ Rest # <<>> /\ Broadcasts(Head(Rest)) /\ Silent(Tail(Rest))
             /\ Interrupts(Head1, Head(Rest))
  ELSE Silent(agenda)

\* A client that was not told how the journey of its actor stands will be.
WillTell(f, a, c) ==
  /\ f.actor = a
  /\ \/ f.do = "travel"
     \/ f.do = "travelling" /\ (c \in f.to \/ status[a] # f.mark)
     \/ f.do = "finish" /\ travels[a] # None

\* Every client that was given its readiness was told how the journey of its
\* actor stands, will be, or waits for a snapshot; it was told of no journey
\* when there is none.
Told ==
  \A c \in Attached : readiness[c] # None =>
    /\ \/ toldTravel[c] = status[actorOf[c]] \/ c \in behind
       \/ \E f \in ToSet(agenda) : WillTell(f, actorOf[c], c)
    /\ status[actorOf[c]] = None => toldTravel[c] = None \/ c \in behind

\* A step leaves a journey alone, and what is still to be told of it; or it
\* puts the telling of what became of it on the agenda.
Steady(a) ==
  /\ status'[a] = status[a] /\ (travels[a] # None => travels'[a] # None)
  /\ \A f \in ToSet(agenda) :
       f.actor = a /\ (f.do \in {"travel", "travelling"} \/ (f.do = "finish" /\ travels[a] # None))
         => f \in ToSet(agenda')
Announces(a) ==
  /\ status'[a] # None
  /\ \E f \in ToSet(agenda') :
       f.actor = a /\ (f.do = "travel" \/ (f.do = "finish" /\ travels'[a] # None))

\* Nobody comes.
Remain == \A c \in Attached' : c \in Attached /\ actorOf'[c] = actorOf[c]

\* Such a step keeps what clients were told or will be.
LEMMA ToldKept ==
  ASSUME TypeOK, Told, Remain, Hears,
         \A a \in Actors : Steady(a) \/ Announces(a)
  PROVE  Told'
<1> SUFFICES ASSUME NEW c \in Attached', readiness'[c] # None
             PROVE  /\ \/ toldTravel'[c] = status'[actorOf'[c]] \/ c \in behind'
                       \/ \E f \in ToSet(agenda') : WillTell(f, actorOf[c], c)'
                    /\ status'[actorOf'[c]] = None => toldTravel'[c] = None \/ c \in behind'
  BY DEF Told
<1>1. PICK a \in Actors : a = actorOf[c] /\ actorOf'[c] = a /\ c \in Attached
  BY DEF Remain, Attached, TypeOK
<1>2. CASE toldTravel'[c] = status'[a]
  BY <1>1, <1>2
<1>3. CASE toldTravel'[c] = toldTravel[c] /\ (c \in behind => c \in behind')
           /\ readiness'[c] = readiness[c]
  <2>1. /\ \/ toldTravel[c] = status[a] \/ c \in behind
           \/ \E f \in ToSet(agenda) : WillTell(f, a, c)
        /\ status[a] = None => toldTravel[c] = None \/ c \in behind
    BY <1>1, <1>3 DEF Told
  <2>2. CASE Announces(a)
    BY <1>1, <2>2 DEF Announces, WillTell
  <2>3. CASE Steady(a)
    <3>1. ASSUME NEW f \in ToSet(agenda), WillTell(f, a, c)
          PROVE  f \in ToSet(agenda') /\ WillTell(f, a, c)'
      BY <2>3, <3>1 DEF Steady, WillTell
    <3>2. QED
      BY <1>1, <1>3, <2>1, <2>3, <3>1 DEF Steady
  <2>4. QED
    BY <1>1, <2>2, <2>3
<1>4. QED
  BY <1>1, <1>2, <1>3 DEF Hears

\* What is still to be told stays on the agenda.
Carries == \A f \in ToSet(agenda) :
             f.do \in {"travel", "travelling"} \/ (f.do = "finish" /\ travels[f.actor] # None)
               => f \in ToSet(agenda')

\* A step that leaves journeys alone, for every actor.
LEMMA SteadyAll ==
  ASSUME Carries, status' = status, \A a \in Actors : travels[a] # None => travels'[a] # None
  PROVE  \A a \in Actors : Steady(a) \/ Announces(a)
  BY DEF Carries, Steady

\* A journey that stops is told of, unless that is being done.
LEMMA StopTells ==
  ASSUME TypeOK, Leased, NEW a \in Actors, NEW q, q \in Seq(ToSet(q)), StopTravel(a, q),
         ~broadcasting,
         \A f \in ToSet(agenda) :
           f.do \in {"travel", "travelling"} \/ (f.do = "finish" /\ f.actor # a) => f \in ToSet(q)
  PROVE  \A b \in Actors : Steady(b) \/ Announces(b)
<1>1. Grown(q, agenda')
  BY StopGrown
<1>2. travels' = [travels EXCEPT ![a] = None]
  BY DEF StopTravel
<1>3. CASE status[a] # None /\ status[a].active
  <2>1. PICK f, p : f = TravelUpdate(a) /\ p = <<f>> \o q
    OBVIOUS
  <2>2. f.do = "travel" /\ f.actor = a /\ ToSet(p) = {f} \cup ToSet(q)
    BY <2>1, PutOn DEF TravelUpdate, Frame
  <2>3. agenda' = p /\ status' = [status EXCEPT ![a].active = FALSE]
    BY <1>3, <2>1 DEF StopTravel
  <2>4. status'[a] # None /\ \A b \in Actors \ {a} : status'[b] = status[b]
    <3>1. status[a] \in Statuses
      BY <1>3 DEF TypeOK
    <3>2. [status[a] EXCEPT !.active = FALSE] \in Statuses
      BY <3>1 DEF Statuses
    <3>3. status' = [status EXCEPT ![a] = [status[a] EXCEPT !.active = FALSE]]
      BY <2>3
    <3>4. QED
      BY <3>2, <3>3, Apart DEF TypeOK
  <2>5. Announces(a)
    BY <2>2, <2>3, <2>4 DEF Announces
  <2>6. \A b \in Actors \ {a} : Steady(b)
    BY <1>1, <1>2, <2>4 DEF Steady, TypeOK, Grown
  <2>7. QED
    BY <2>5, <2>6
<1>4. CASE ~(status[a] # None /\ status[a].active)
  <2>1. status' = status /\ travels[a] = None
    BY <1>4 DEF StopTravel, Leased
  <2>2. \A b \in Actors : Steady(b)
    BY <1>1, <1>2, <1>4, <2>1 DEF Steady, TypeOK, Grown
  <2>3. QED
    BY <2>2
<1>5. QED
  BY <1>3, <1>4

\* So is one that a disconnect stops.
LEMMA DepartTells ==
  ASSUME TypeOK, Leased, NEW c \in Attached, NEW r, r \in Seq(ToSet(r)), Departs(c, r),
         broadcasting => controllers[actorOf[c]] # c,
         \A f \in ToSet(agenda) : f.do \in {"travel", "travelling", "finish"} => f \in ToSet(r)
  PROVE  broadcasting' = broadcasting /\ \A b \in Actors : Steady(b) \/ Announces(b)
<1>1. PICK a \in Actors : a = actorOf[c]
  BY DEF Attached, TypeOK
<1>2. CASE controllers[a] = c
  <2>1. PICK f, q : f = Drop(a, c) /\ q = <<f>> \o r
    OBVIOUS
  <2>2. q \in Seq(ToSet(q)) /\ ToSet(q) = {f} \cup ToSet(r)
    BY <2>1, PutOn
  <2>3. StopTravel(a, q) /\ broadcasting' = broadcasting
    BY <1>1, <1>2, <2>1 DEF Departs, StopTravel
  <2>4. QED
    BY <1>1, <1>2, <2>2, <2>3, StopTells
<1>3. CASE controllers[a] # c
  <2>1. agenda' = r /\ UNCHANGED <<travels, status, broadcasting>>
    BY <1>1, <1>3 DEF Departs, travelVars
  <2>2. Carries
    BY <2>1 DEF Carries
  <2>3. QED
    BY <2>1, <2>2, SteadyAll
<1>4. QED
  BY <1>2, <1>3

\* A refused send, when what is under the head goes on.
LEMMA RefusedTells ==
  ASSUME IInv, agenda # <<>>, Head1.do \notin {"travel", "travelling", "finish"},
         NEW c \in Attached, NEW q, q \in Seq(ToSet(q)), ToSet(Rest) \subseteq ToSet(q),
         Disconnect(c, q), broadcasting => controllers[actorOf[c]] # c
  PROVE  broadcasting' = broadcasting /\ \A b \in Actors : Steady(b) \/ Announces(b)
<1>1. ToSet(agenda) = {Head1} \cup ToSet(Rest)
  BY UnderHead DEF IInv, Stacked, Head1, Rest
<1>2. QED
  BY <1>1, DepartTells DEF IInv, Disconnect

\* A step that leaves journeys alone.
LEMMA QuietTells ==
  ASSUME IInv, agenda # <<>>, ToSet(Rest) \subseteq ToSet(agenda'),
         Head1.do \notin {"travel", "travelling", "finish"},
         UNCHANGED <<travels, status, broadcasting>>
  PROVE  broadcasting' = broadcasting /\ \A b \in Actors : Steady(b) \/ Announces(b)
<1>1. ToSet(agenda) = {Head1} \cup ToSet(Rest)
  BY UnderHead DEF IInv, Stacked, Head1, Rest
<1>2. Carries
  BY <1>1 DEF Carries
<1>3. QED
  BY <1>2, SteadyAll

\* A journey stopped by what runs.
LEMMA StopHereTells ==
  ASSUME IInv, agenda # <<>>, Head1.do \in {"stop", "execute", "walk", "finish"},
         StopTravel(Head1.actor, Rest), ~broadcasting
  PROVE  broadcasting' = broadcasting /\ \A b \in Actors : Steady(b) \/ Announces(b)
<1>1. ToSet(agenda) = {Head1} \cup ToSet(Rest) /\ Structured(Rest) /\ FrameOK(Head1)
  BY UnderHead DEF IInv, Stacked, Head1, Rest
<1>2. Head1.actor \in Actors /\ Rest \in Seq(ToSet(Rest))
  BY <1>1 DEF FrameOK, WithActor, Structured
<1>3. broadcasting' = broadcasting
  BY DEF StopTravel
<1>4. QED
  BY <1>1, <1>2, <1>3, StopTells DEF IInv

\* What a message goes on with when one of its sends is refused.
LEMMA SentOn ==
  ASSUME IInv, Running("tell")
  PROVE  /\ Sent \in Seq(ToSet(Sent)) /\ ToSet(Rest) \subseteq ToSet(Sent)
         /\ Sent \in {Rest, <<HeadTo(Waiting \ {To})>> \o Rest}
<1>1. Rest \in Seq(ToSet(Rest))
  BY RestOwn
<1>2. PICK f, q : f = HeadTo(Waiting \ {To}) /\ q = <<f>> \o Rest
  OBVIOUS
<1>3. q \in Seq(ToSet(q)) /\ ToSet(q) = {f} \cup ToSet(Rest)
  BY <1>1, <1>2, PutOn
<1>4. Sent = Rest \/ Sent = q
  BY <1>1, <1>2, NothingPushed DEF Sent
<1>5. QED
  BY <1>1, <1>2, <1>3, <1>4

\* Sends, refused or not, leave journeys alone or stop one and tell of it.
LEMMA SendsTell ==
  ASSUME IInv,
         TellNext \/ TellDone \/ SendReply \/ AnnounceStart \/ AnnounceNext \/ RefreshRefused,
         ToSet(Rest) \subseteq ToSet(agenda'),
         broadcasting => /\ Head1.do = "tell"
                         /\ \A c \in Head1.to \cap Attached : controllers[actorOf[c]] # c
  PROVE  broadcasting' = broadcasting /\ \A b \in Actors : Steady(b) \/ Announces(b)
<1>1. PICK do \in {"tell", "reply", "announce", "announcing", "refresh", "refreshing"} :
        Running(do)
  BY DEF TellNext, TellDone, SendReply, AnnounceStart, AnnounceNext, RefreshRefused
<1>2. Rest \in Seq(ToSet(Rest)) /\ Head1.do = do /\ agenda # <<>>
  BY <1>1, RestOwn, Resumes
<1>3. ASSUME NEW f, NEW q, q = <<f>> \o Rest
      PROVE  q \in Seq(ToSet(q)) /\ ToSet(Rest) \subseteq ToSet(q)
  BY <1>2, <1>3, PutOn
<1>4. CASE UNCHANGED <<travels, status, broadcasting>>
  BY <1>2, <1>4, QuietTells
<1>5. CASE TellNext /\ ~UNCHANGED <<travels, status, broadcasting>>
  <2>1. Waiting # {} /\ Disconnect(To, Sent) /\ Running("tell")
    BY <1>5 DEF TellNext, quiet, travelVars
  <2>2. To \in Attached /\ To \in Head1.to
    BY <2>1, ToWaits
  <2>3. PICK q : q = Sent
    OBVIOUS
  <2>4. q \in Seq(ToSet(q)) /\ ToSet(Rest) \subseteq ToSet(q)
    BY <2>1, <2>3, SentOn
  <2>5. QED
    BY <1>2, <2>1, <2>2, <2>3, <2>4, RefusedTells
<1>6. CASE SendReply /\ ~UNCHANGED <<travels, status, broadcasting>>
  <2>1. PICK f, q : f = Refresh /\ q = <<f>> \o Rest
    OBVIOUS
  <2>2. Head1.client \in Attached /\ Disconnect(Head1.client, q) /\ Head1.do = "reply"
    BY <1>6, <2>1 DEF SendReply, quiet, travelVars, RefreshAfterReply, Running
  <2>3. q \in Seq(ToSet(q)) /\ ToSet(Rest) \subseteq ToSet(q)
    BY <1>3, <2>1
  <2>4. QED
    BY <1>2, <2>2, <2>3, RefusedTells
<1>7. CASE AnnounceNext /\ ~UNCHANGED <<travels, status, broadcasting>>
  <2>1. PICK f, q : f = HeadTo(Head1.to \ {Least(Head1.to)}) /\ q = <<f>> \o Rest
    OBVIOUS
  <2>2. /\ Least(Head1.to) \in Attached /\ Disconnect(Least(Head1.to), q)
        /\ Head1.do = "announcing"
    BY <1>7, <2>1 DEF AnnounceNext, quiet, travelVars, Running
  <2>3. q \in Seq(ToSet(q)) /\ ToSet(Rest) \subseteq ToSet(q)
    BY <1>3, <2>1
  <2>4. QED
    BY <1>2, <2>2, <2>3, RefusedTells
<1>8. CASE RefreshRefused
  <2>1. PICK c \in PassTo : Disconnect(c, <<PassAfter({d \in PassTo : d <= c})>> \o Rest)
    BY <1>8 DEF RefreshRefused
  <2>2. PICK f, q : f = PassAfter({d \in PassTo : d <= c}) /\ q = <<f>> \o Rest
    OBVIOUS
  <2>3. q \in Seq(ToSet(q)) /\ ToSet(Rest) \subseteq ToSet(q)
    BY <1>3, <2>2
  <2>4. c \in Attached /\ Head1.do \in {"refresh", "refreshing"}
    BY <1>8, <2>1 DEF PassTo, Waiting, RefreshRefused, Running
  <2>5. QED
    BY <1>2, <2>1, <2>2, <2>3, <2>4, RefusedTells
<1>9. QED
  BY <1>4, <1>5, <1>6, <1>7, <1>8 DEF TellDone, AnnounceStart, quiet, travelVars

\* Everything else that runs but the sends of a round.
LEMMA RunsTell ==
  ASSUME IInv, Unwind, ToSet(Rest) \subseteq ToSet(agenda'), broadcasting => Head1.do = "drop",
         ~(TellNext \/ TellDone \/ SendReply \/ AnnounceStart \/ AnnounceNext \/ RefreshRefused),
         ~(TravelUpdateStart \/ TravelUpdateNext \/ TravelUpdateEnd)
  PROVE  broadcasting' = broadcasting /\ \A b \in Actors : Steady(b) \/ Announces(b)
<1>1. CASE RefreshTaken \/ FewerNext \/ ResetStart \/ ResetNext \/ ResetEnd
  <2>1. /\ agenda # <<>> /\ Head1.do \notin {"travel", "travelling", "finish"}
        /\ UNCHANGED <<travels, status, broadcasting>>
    BY <1>1 DEF RefreshTaken, FewerNext, ResetStart, ResetNext, ResetEnd, Running, quiet,
                travelVars
  <2>2. QED
    BY <2>1, QuietTells
<1>2. CASE DropControl \/ AcquireRest \/ PausesNext \/ PausePrep \/ PauseSettled
  <2>1. /\ agenda # <<>> /\ Head1.do \notin {"travel", "travelling", "finish"}
        /\ UNCHANGED <<travels, status, broadcasting>>
    BY <1>2 DEF DropControl, AcquireRest, PausesNext, PausePrep, PauseSettled, Running,
                travelVars
  <2>2. QED
    BY <2>1, QuietTells
<1>3. CASE Choose \/ AdmitAi \/ ExecuteHuman \/ ExecuteAi
  <2>1. /\ agenda # <<>> /\ Head1.do \notin {"travel", "travelling", "finish"}
        /\ UNCHANGED <<travels, status, broadcasting>>
    BY <1>3 DEF Choose, AdmitAi, ExecuteHuman, ExecuteAi, Running, quiet, travelVars
  <2>2. QED
    BY <2>1, QuietTells
<1>4. CASE SnapshotNext
  <2>1. /\ agenda # <<>> /\ Head1.do = "snapshot" /\ Head1.client \in Attached
        /\ Rest \in Seq(ToSet(Rest))
    BY <1>4, Resumes, RestOwn DEF SnapshotNext, OnTop
  <2>2. CASE Disconnect(Head1.client, Rest)
    BY <2>1, <2>2, RefusedTells
  <2>3. CASE UNCHANGED <<travels, status, broadcasting>>
    BY <2>1, <2>3, QuietTells
  <2>4. QED
    BY <1>4, <2>2, <2>3 DEF SnapshotNext, quiet, travelVars
<1>5. CASE StopNext \/ RefuseStep
  <2>1. /\ agenda # <<>> /\ Head1.do \in {"stop", "execute"} /\ StopTravel(Head1.actor, Rest)
    BY <1>5 DEF StopNext, RefuseStep, StopHere, Running
  <2>2. QED
    BY <2>1, StopHereTells
<1>6. CASE Walk
  <2>1. agenda # <<>> /\ Head1.do = "walk" /\ travels[Head1.actor] # None
        /\ Head1.actor \in Actors
    BY <1>6, Resumes DEF Walk, OnTop, FrameOK, WithActor
  <2>2. CASE StopTravel(Head1.actor, Rest)
    BY <2>1, <2>2, StopHereTells
  <2>3. CASE travels' = [travels EXCEPT ![Head1.actor].pending = TRUE]
             /\ UNCHANGED <<status, broadcasting>>
    <3>1. travels[Head1.actor] \in Jobs
      BY <2>1 DEF IInv, TypeOK
    <3>2. [travels[Head1.actor] EXCEPT !.pending = TRUE] \in Jobs
      BY <3>1 DEF Jobs
    <3>3. travels' = [travels EXCEPT
                       ![Head1.actor] = [travels[Head1.actor] EXCEPT !.pending = TRUE]]
      BY <2>3
    <3>4. \A a \in Actors : travels[a] # None => travels'[a] # None
      BY <3>2, <3>3, Apart DEF IInv, TypeOK
    <3>5. ToSet(agenda) = {Head1} \cup ToSet(Rest)
      BY <2>1, UnderHead DEF IInv, Stacked, Head1, Rest
    <3>6. Carries
      BY <2>1, <3>5 DEF Carries
    <3>7. QED
      BY <2>3, <3>4, <3>6, SteadyAll
  <2>4. CASE UNCHANGED <<quiet, toldVars>>
    BY <2>1, <2>4, QuietTells DEF quiet, travelVars
  <2>5. QED
    BY <1>6, <2>2, <2>3, <2>4 DEF Walk, StopHere
<1>7. CASE FinishTravel
  <2>1. /\ agenda # <<>> /\ Head1.do = "finish" /\ Head1.actor \in Actors
        /\ Rest \in Seq(ToSet(Rest)) /\ ToSet(agenda) = {Head1} \cup ToSet(Rest)
    BY <1>7, Resumes, RestOwn DEF FinishTravel, FrameOK, WithActor
  <2>2. CASE StopTravel(Head1.actor, Rest)
    BY <2>1, <2>2, StopHereTells
  <2>3. CASE travels[Head1.actor] = None /\ UNCHANGED <<quiet, toldVars>>
    <3>1. Carries
      BY <2>1, <2>3 DEF Carries
    <3>2. QED
      BY <2>3, <3>1, SteadyAll DEF quiet, travelVars
  <2>4. CASE /\ travels[Head1.actor] # None /\ agenda' = <<TravelUpdate(Head1.actor)>> \o Rest
             /\ UNCHANGED <<quiet, toldVars>>
    <3>1. PICK f : f = TravelUpdate(Head1.actor)
      OBVIOUS
    <3>2. f.do = "travel" /\ f.actor = Head1.actor
      BY <3>1 DEF TravelUpdate, Frame
    <3>3. ToSet(agenda') = {f} \cup ToSet(Rest)
      BY <2>1, <2>4, <3>1, PutOn
    <3>4. UNCHANGED <<travels, status, broadcasting>> /\ status[Head1.actor] # None
      BY <2>1, <2>4 DEF quiet, travelVars, IInv, Leased
    <3>5. Announces(Head1.actor)
      BY <3>2, <3>3, <3>4 DEF Announces
    <3>6. \A b \in Actors \ {Head1.actor} : Steady(b)
      BY <2>1, <3>4 DEF Steady
    <3>7. QED
      BY <3>4, <3>5, <3>6
  <2>5. QED
    BY <1>7, <2>2, <2>3, <2>4 DEF FinishTravel, StopHere
<1>8. CASE ExecuteTravel
  <2>1. /\ agenda # <<>> /\ Head1.do = "execute" /\ Head1.actor \in Actors
        /\ Rest \in Seq(ToSet(Rest)) /\ travels[Head1.actor] # None
        /\ ToSet(agenda) = {Head1} \cup ToSet(Rest) /\ broadcasting' = broadcasting
    BY <1>8, Resumes, RestOwn DEF ExecuteTravel, FrameOK, WithActor
  <2>2. CASE UNCHANGED <<travels, status>>
    BY <2>1, <2>2, QuietTells
  <2>3. ASSUME NEW moved \in BOOLEAN,
               travels' = [travels EXCEPT ![Head1.actor].pending = FALSE],
               status' = [status EXCEPT ![Head1.actor].odd = (@ # moved)],
               agenda' = (TellOutcome(Head1.actor) \o <<Finish(Head1.actor, moved)>>) \o Rest
        PROVE  \A b \in Actors : Steady(b) \/ Announces(b)
    <3>1. PICK a \in Actors : a = Head1.actor
      BY <2>1
    <3>2. status[a] \in Statuses /\ travels[a] \in Jobs
      BY <2>1, <3>1 DEF IInv, TypeOK, Leased
    <3>3. /\ [status[a] EXCEPT !.odd = (@ # moved)] \in Statuses
          /\ [travels[a] EXCEPT !.pending = FALSE] \in Jobs
      BY <3>2 DEF Statuses, Jobs
    <3>4. /\ status' = [status EXCEPT ![a] = [status[a] EXCEPT !.odd = (@ # moved)]]
          /\ travels' = [travels EXCEPT ![a] = [travels[a] EXCEPT !.pending = FALSE]]
      BY <2>3, <3>1
    <3>5. /\ status'[a] # None /\ travels'[a] # None
          /\ \A b \in Actors \ {a} : status'[b] = status[b] /\ travels'[b] = travels[b]
      BY <3>3, <3>4, Apart DEF IInv, TypeOK
    <3>6. PICK f, g, h : /\ f = Tell("outcome", Attached) /\ g = TellIntention(a)
                         /\ h = Finish(a, moved)
      OBVIOUS
    <3>7. h.do = "finish" /\ h.actor = a /\ agenda' = (<<f, g>> \o <<h>>) \o Rest
      BY <2>3, <3>1, <3>6 DEF Finish, Frame, TellOutcome
    <3>8. h \in ToSet(agenda')
      <4>1. PICK v, w, x : v = <<f, g>> /\ w = <<h>> /\ x = v \o w
        OBVIOUS
      <4>2. /\ v \in Seq(ToSet(v)) /\ w \in Seq(ToSet(w)) /\ ToSet(w) = {h}
        BY <4>1, OneWritten, TwoWritten
      <4>3. x \in Seq(ToSet(x)) /\ ToSet(x) = ToSet(v) \cup ToSet(w)
        BY <4>1, <4>2, Joined
      <4>4. agenda' = x \o Rest
        BY <3>7, <4>1
      <4>5. ToSet(agenda') = ToSet(x) \cup ToSet(Rest)
        BY <2>1, <4>3, <4>4, Joined
      <4>6. QED
        BY <4>2, <4>3, <4>5
    <3>9. Announces(a)
      BY <3>5, <3>7, <3>8 DEF Announces
    <3>10. \A b \in Actors \ {a} : Steady(b)
      BY <2>1, <3>1, <3>5 DEF Steady
    <3>11. QED
      BY <3>9, <3>10
  <2>4. QED
    BY <1>8, <2>1, <2>2, <2>3 DEF ExecuteTravel
<1>9. QED
  BY <1>1, <1>2, <1>3, <1>4, <1>5, <1>6, <1>7, <1>8 DEF Unwind

\* A round of sends goes on, alone or after what interrupts it.
LEMMA RoundNext ==
  ASSUME NEW r, r # <<>>, NEW g, g = Head(r), agenda' = r, Broadcasts(g)', Silent(Tail(r)),
         broadcasting'
  PROVE  Broadcasting'
<1>1. Head1' = Head(r) /\ Rest' = Tail(r)
  BY DEF Head1, Rest
<1>2. Silent(Tail(r))'
  BY DEF Silent
<1>3. QED
  BY <1>1, <1>2 DEF Broadcasting

\* It goes on after what interrupts it.
LEMMA RoundAfter ==
  ASSUME NEW r, Structured(r), r # <<>>, NEW g, g = Head(r), NEW f, Below(f, r),
         agenda' = <<f>> \o r, Broadcasts(g)', Silent(Tail(r)), Interrupts(f, g)',
         broadcasting'
  PROVE  Broadcasting'
<1>1. agenda' # <<>> /\ Head(agenda') = f /\ Tail(agenda') = r
  BY Pushed
<1>2. Head1' = f /\ Rest' = r
  BY <1>1 DEF Head1, Rest
<1>3. Silent(Tail(r))'
  BY DEF Silent
<1>4. QED
  BY <1>1, <1>2, <1>3 DEF Broadcasting

\* Clients only leave while a round runs, so that it stays about its actor.
LEMMA StillOf ==
  ASSUME Stays, NEW S, NEW a, Of(S, a)
  PROVE  Of(S, a)'
  BY DEF Stays, Of

\* What interrupts a round runs.
LEMMA InterruptRuns ==
  ASSUME IInv, Broadcasting, broadcasting, Head1.do # "travelling", Unwind
  PROVE  /\ Broadcasting' /\ (Head1.do = "drop" \/ Head1.do = "tell")
         /\ Head1.do = "tell" => \A c \in Head1.to \cap Attached : controllers[actorOf[c]] # c
<1>1. PICK r, g : r = Rest /\ g = Head(r)
  OBVIOUS
<1>2. /\ agenda # <<>> /\ r # <<>> /\ Broadcasts(g) /\ Silent(Tail(r)) /\ Interrupts(Head1, g)
  BY <1>1 DEF Broadcasting, Broadcasts
<1>3. Head1.do = "drop" \/ Head1.do = "tell"
  BY <1>2 DEF Interrupts
<1>4. Structured(r) /\ NoTops(r) /\ Below(Head1, r)
  BY <1>1, <1>2, RestBase DEF IInv, Base
<1>5. ASSUME Head1.do = "tell", NEW c \in Head1.to \cap Attached
      PROVE  controllers[actorOf[c]] = None /\ controllers[actorOf[c]] # c
  <2>1. actorOf[c] = g.actor /\ controllers[g.actor] = None
    BY <1>2, <1>5 DEF Interrupts, Of
  <2>2. c # None
    BY Apart DEF Attached
  <2>3. QED
    BY <2>1, <2>2
<1>6. ~(RefreshTaken)
  BY <1>3 DEF RefreshTaken, Running
<1>7. Stays
  BY <1>6, UnwindStays
<1>8. ASSUME Head1.do = "drop" PROVE Broadcasting'
  <2>1. DropControl
    BY <1>8 DEF Unwind, Running, TellNext, TellDone, SendReply, TravelUpdateStart, TravelUpdateNext,
     TravelUpdateEnd, StopNext, RefreshTaken, RefreshRefused, FewerNext, SnapshotNext, ResetStart,
     ResetNext, ResetEnd, AnnounceStart, AnnounceNext, AcquireRest, PausesNext, PausePrep,
     PauseSettled, Choose, AdmitAi, ExecuteHuman, ExecuteAi, ExecuteTravel, RefuseStep,
     FinishTravel, Walk
  <2>2. UNCHANGED <<status, broadcasting, actorOf>>
    BY <2>1 DEF DropControl, travelVars
  <2>3. Broadcasts(g)'
    <3>1. Of(g.to, g.actor)'
      BY <1>2, <1>7, StillOf DEF Broadcasts
    <3>2. QED
      BY <1>2, <2>2, <3>1 DEF Broadcasts, Moved
  <2>4. CASE agenda' = r
    BY <1>1, <1>2, <1>4, <2>2, <2>3, <2>4, RoundNext
  <2>5. CASE agenda' # r
    <3>1. PICK f : f = TellControl(Head1.actor)
      OBVIOUS
    <3>2. f.do = "tell" /\ f.to = Viewers(Head1.actor)
      BY <3>1 DEF TellControl, Tell, Frame
    <3>3. agenda' = <<f>> \o r /\ SetController(Head1.actor, None)
      BY <1>1, <1>4, <2>1, <2>5, <3>1, NothingPushed DEF DropControl, Structured
    <3>4. Head1.actor = g.actor /\ Head1.actor \in Actors
      BY <1>2, <1>8, RestBase DEF Interrupts, IInv, FrameOK, WithActor
    <3>5. controllers'[g.actor] = None
      BY <3>3, <3>4 DEF SetController, IInv, TypeOK
    <3>6. Of(f.to, g.actor)'
      BY <2>2, <3>2, <3>4 DEF Of, Viewers
    <3>7. Interrupts(f, g)'
      BY <3>2, <3>5, <3>6 DEF Interrupts
    <3>8. Below(f, r)
      BY <1>4, <3>2 DEF Below, NoTops, Lasts, Ends
    <3>9. QED
      BY <1>1, <1>2, <1>4, <2>2, <2>3, <3>3, <3>7, <3>8, RoundAfter
  <2>6. QED
    BY <1>8, <2>4, <2>5
<1>9. ASSUME Head1.do = "tell" PROVE Broadcasting'
  <2>1. TellNext \/ TellDone
    BY <1>9 DEF Unwind, Running, SendReply, TravelUpdateStart, TravelUpdateNext,
     TravelUpdateEnd, StopNext, RefreshTaken, RefreshRefused, FewerNext, SnapshotNext, ResetStart,
     ResetNext, ResetEnd, AnnounceStart, AnnounceNext, DropControl, AcquireRest, PausesNext,
     PausePrep, PauseSettled, Choose, AdmitAi, ExecuteHuman, ExecuteAi, ExecuteTravel, RefuseStep,
     FinishTravel, Walk
  <2>2. /\ UNCHANGED <<status, broadcasting, controllers>>
        /\ agenda' = r \/ agenda' = Sent
    <3>1. CASE Waiting # {} /\ Disconnect(To, Sent)
      <4>1. To \in Head1.to \cap Attached
        BY <3>1, ToWaits
      <4>2. controllers[actorOf[To]] # To
        BY <1>5, <1>9, <4>1
      <4>3. QED
        BY <3>1, <4>2 DEF Disconnect, Departs, travelVars, controlVars
    <3>2. QED
      BY <1>1, <2>1, <3>1 DEF TellNext, TellDone, quiet, travelVars, controlVars
  <2>3. Broadcasts(g)'
    <3>1. Of(g.to, g.actor)'
      BY <1>2, <1>7, StillOf DEF Broadcasts
    <3>2. QED
      BY <1>2, <2>2, <3>1 DEF Broadcasts, Moved
  <2>4. CASE agenda' = r
    BY <1>1, <1>2, <1>4, <2>2, <2>3, <2>4, RoundNext
  <2>5. CASE agenda' # r
    <3>1. PICK f : f = HeadTo(Waiting \ {To})
      OBVIOUS
    <3>2. f.do = "tell" /\ f.to \subseteq Head1.to
      BY <1>9, <3>1 DEF HeadTo, Frame, Waiting
    <3>3. Running("tell")
      BY <2>1 DEF TellNext, TellDone
    <3>4. agenda' = <<f>> \o r
      BY <1>1, <2>2, <2>5, <3>1, <3>3, SentOn
    <3>5. Of(f.to, g.actor)'
      <4>1. Of(f.to, g.actor)
        BY <1>2, <1>9, <3>2 DEF Interrupts, Of
      <4>2. QED
        BY <1>7, <4>1, StillOf
    <3>6. controllers'[g.actor] = None
      BY <1>2, <1>9, <2>2 DEF Interrupts
    <3>7. Interrupts(f, g)'
      BY <3>2, <3>5, <3>6 DEF Interrupts
    <3>8. Below(f, r)
      BY <1>4, <3>2 DEF Below, NoTops, Lasts, Ends
    <3>9. QED
      BY <1>1, <1>2, <1>4, <2>2, <2>3, <3>4, <3>7, <3>8, RoundAfter
  <2>6. QED
    BY <2>4, <2>5
<1>10. QED
  BY <1>3, <1>5, <1>8, <1>9

\* The head of a round that runs.
LEMMA RoundRuns ==
  ASSUME IInv, Broadcasting, Running("travelling")
  PROVE  /\ broadcasting /\ Broadcasts(Head1) /\ Silent(Rest) /\ Base(Rest)
         /\ Rest \in Seq(ToSet(Rest)) /\ Below(Head1, Rest) /\ Head1.do = "travelling"
         /\ Head1.actor \in Actors /\ ToSet(agenda) = {Head1} \cup ToSet(Rest)
<1>1. /\ agenda # <<>> /\ Head1.do = "travelling" /\ Base(Rest) /\ Below(Head1, Rest)
      /\ Head1.actor \in Actors /\ Rest \in Seq(ToSet(Rest))
      /\ ToSet(agenda) = {Head1} \cup ToSet(Rest)
  BY Resumes, RestOwn DEF FrameOK, WithActor
<1>2. broadcasting
  BY <1>1 DEF Broadcasting, Silent
<1>3. QED
  BY <1>1, <1>2 DEF Broadcasting, Interrupts

\* A round begins, unless there is no journey to tell of.
LEMMA StartTold ==
  ASSUME IInv, Broadcasting, Told, TravelUpdateStart
  PROVE  Broadcasting' /\ Told'
<1>1. PICK a \in Actors : a = Head1.actor
  BY Resumes DEF TravelUpdateStart, FrameOK, WithActor
<1>2. /\ agenda # <<>> /\ Head1.do = "travel" /\ Base(Rest) /\ Rest \in Seq(ToSet(Rest))
      /\ ToSet(agenda) = {Head1} \cup ToSet(Rest)
  BY Resumes, RestOwn DEF TravelUpdateStart
<1>3. ~broadcasting /\ Silent(agenda)
  BY <1>2 DEF Broadcasting, Broadcasts, Interrupts
<1>4. UNCHANGED <<actorOf, readiness, travels, status, toldTravel, behind>>
  BY DEF TravelUpdateStart, clientVars, toldVars
<1>5. Attached' = Attached
  BY <1>4 DEF Attached
<1>6. CASE status[a] = None
  <2>1. agenda' = Rest /\ broadcasting' = broadcasting
    BY <1>1, <1>6 DEF TravelUpdateStart
  <2>2. Broadcasting'
    BY <1>2, <1>3, <2>1 DEF Broadcasting, Silent
  <2>3. ASSUME NEW c \in Attached, readiness[c] # None
        PROVE  \/ toldTravel[c] = status[actorOf[c]] \/ c \in behind
               \/ \E f \in ToSet(Rest) : WillTell(f, actorOf[c], c)
    <3>1. CASE WillTell(Head1, actorOf[c], c)
      BY <1>1, <1>6, <2>3, <3>1 DEF Told, WillTell
    <3>2. QED
      BY <1>2, <2>3, <3>1 DEF Told
  <2>4. \A f, c : WillTell(f, actorOf[c], c)' <=> WillTell(f, actorOf[c], c)
    BY <1>4 DEF WillTell
  <2>5. Told'
    BY <1>4, <1>5, <2>1, <2>3, <2>4 DEF Told
  <2>6. QED
    BY <2>2, <2>5
<1>7. CASE status[a] # None
  <2>1. PICK f : f = Frame("travelling", a, None, Viewers(a), status[a])
    OBVIOUS
  <2>2. /\ f.do = "travelling" /\ f.actor = a /\ f.to = Viewers(a) /\ f.mark = status[a]
        /\ agenda' = <<f>> \o Rest /\ broadcasting'
    BY <1>1, <1>7, <2>1 DEF TravelUpdateStart, Frame
  <2>3. ToSet(agenda') = {f} \cup ToSet(Rest)
    BY <1>2, <2>2, PutOn
  <2>4. agenda' # <<>> /\ Head1' = f /\ Rest' = Rest
    <3>1. Structured(Rest) /\ Below(f, Rest)
      BY <1>2, <2>2 DEF Base, NoTops, Below, Lasts, Ends
    <3>2. QED
      BY <2>2, <3>1, Pushed DEF Head1, Rest
  <2>5. Broadcasts(f)'
    BY <1>4, <1>7, <2>2 DEF Broadcasts, Moved, Of, Viewers
  <2>6. Silent(Rest)'
    BY <1>2, <1>3, <2>4 DEF Silent
  <2>7. Broadcasting'
    BY <2>2, <2>4, <2>5, <2>6 DEF Broadcasting
  <2>8. ASSUME NEW c \in Attached, readiness[c] # None
        PROVE  \/ toldTravel[c] = status[actorOf[c]] \/ c \in behind
               \/ \E g \in ToSet(agenda') : WillTell(g, actorOf[c], c)
    <3>1. CASE WillTell(Head1, actorOf[c], c)
      <4>1. WillTell(f, actorOf[c], c)
        BY <1>1, <2>2, <2>8, <3>1 DEF WillTell, Viewers, Attached
      <4>2. QED
        BY <2>3, <4>1
    <3>2. QED
      BY <1>2, <2>3, <2>8, <3>1 DEF Told
  <2>9. \A g, c : WillTell(g, actorOf[c], c)' <=> WillTell(g, actorOf[c], c)
    BY <1>4 DEF WillTell
  <2>10. Told'
    BY <1>4, <1>5, <2>8, <2>9 DEF Told
  <2>11. QED
    BY <2>7, <2>10
<1>8. QED
  BY <1>6, <1>7

\* A round ends: it begins again when the status is not what it was.
LEMMA EndTold ==
  ASSUME IInv, Broadcasting, Told, TravelUpdateEnd
  PROVE  Broadcasting' /\ Told'
<1>1. PICK a \in Actors : a = Head1.actor
  BY RoundRuns DEF TravelUpdateEnd
<1>2. /\ Head1.do = "travelling" /\ Silent(Rest) /\ Rest \in Seq(ToSet(Rest))
      /\ ToSet(agenda) = {Head1} \cup ToSet(Rest)
  BY RoundRuns DEF TravelUpdateEnd
<1>3. UNCHANGED <<actorOf, readiness, travels, status, toldTravel, behind>>
      /\ broadcasting' = FALSE /\ Waiting = {}
  BY DEF TravelUpdateEnd, clientVars, toldVars
<1>4. PICK f : f = TravelUpdate(a)
  OBVIOUS
<1>5. f.do = "travel" /\ f.actor = a
  BY <1>4 DEF TravelUpdate, Frame
<1>6. /\ ToSet(Rest) \subseteq ToSet(agenda') /\ ToSet(agenda') \subseteq {f} \cup ToSet(Rest)
      /\ status[a] # Head1.mark => f \in ToSet(agenda')
  <2>1. CASE status[a] # Head1.mark
    <3>1. PICK q : q = <<f>> \o Rest
      OBVIOUS
    <3>2. agenda' = q
      BY <1>1, <1>4, <2>1, <3>1 DEF TravelUpdateEnd, StatusMoved
    <3>3. ToSet(q) = {f} \cup ToSet(Rest)
      BY <1>2, <3>1, PutOn
    <3>4. QED
      BY <3>2, <3>3
  <2>2. CASE status[a] = Head1.mark
    <3>1. agenda' = Rest
      BY <1>1, <1>2, <2>2, NothingPushed DEF TravelUpdateEnd, StatusMoved
    <3>2. QED
      BY <2>2, <3>1
  <2>3. QED
    BY <2>1, <2>2
<1>7. Broadcasting'
  BY <1>2, <1>3, <1>5, <1>6 DEF Broadcasting, Silent
<1>8. ASSUME NEW c \in Attached, readiness[c] # None
      PROVE  \/ toldTravel[c] = status[actorOf[c]] \/ c \in behind
             \/ \E g \in ToSet(agenda') : WillTell(g, actorOf[c], c)
  <2>1. CASE WillTell(Head1, actorOf[c], c)
    <3>1. actorOf[c] = a /\ status[a] # Head1.mark
      <4>1. Head1.actor = actorOf[c] /\ (c \in Head1.to \/ status[actorOf[c]] # Head1.mark)
        BY <1>2, <2>1 DEF WillTell
      <4>2. c \notin Head1.to
        BY <1>3, <1>8 DEF Waiting
      <4>3. QED
        BY <1>1, <4>1, <4>2
    <3>2. f \in ToSet(agenda') /\ WillTell(f, actorOf[c], c)
      BY <1>5, <1>6, <3>1 DEF WillTell
    <3>3. QED
      BY <3>2
  <2>2. QED
    BY <1>2, <1>6, <1>8, <2>1 DEF Told
<1>9. \A g, c : WillTell(g, actorOf[c], c)' <=> WillTell(g, actorOf[c], c)
  BY <1>3 DEF WillTell
<1>10. Attached' = Attached
  BY <1>3 DEF Attached
<1>11. Told'
  BY <1>3, <1>8, <1>9, <1>10 DEF Told
<1>12. QED
  BY <1>7, <1>11

\* The next recipient of a round is sent the status that holds, or is
\* disconnected: that may end the journey the round tells of.
LEMMA NextTold ==
  ASSUME IInv, Broadcasting, Told, TravelUpdateNext
  PROVE  Broadcasting' /\ Told'
<1>1. PICK a \in Actors : a = Head1.actor
  BY RoundRuns DEF TravelUpdateNext
<1>2. /\ Head1.do = "travelling" /\ Silent(Rest) /\ Rest \in Seq(ToSet(Rest)) /\ Base(Rest)
      /\ ToSet(agenda) = {Head1} \cup ToSet(Rest) /\ broadcasting /\ Broadcasts(Head1)
  BY RoundRuns DEF TravelUpdateNext
<1>3. /\ To \in Attached /\ To \in Head1.to /\ actorOf[To] = a
  BY <1>1, <1>2, ToWaits DEF TravelUpdateNext, Broadcasts, Of
<1>4. PICK f, q : f = HeadTo(Waiting \ {To}) /\ q = <<f>> \o Rest
  OBVIOUS
<1>5. f.do = "travelling" /\ f.actor = a /\ f.mark = Head1.mark /\ f.to = Waiting \ {To}
  BY <1>1, <1>2, <1>4 DEF HeadTo, Frame
<1>6. /\ q \in Seq(ToSet(q)) /\ ToSet(q) = {f} \cup ToSet(Rest)
      /\ q # <<>> /\ Head(q) = f /\ Tail(q) = Rest /\ Structured(q)
  <2>1. Structured(Rest) /\ Below(f, Rest)
    BY <1>2, <1>5 DEF Base, NoTops, Below, Lasts, Ends
  <2>2. QED
    BY <1>2, <1>4, <2>1, PutOn, Pushed
<1>7. Of(f.to, a)
  BY <1>1, <1>2, <1>5 DEF Broadcasts, Of, Waiting
<1>8. ASSUME NEW c \in Attached \ {To}, readiness[c] # None
      PROVE  /\ \/ toldTravel[c] = status[actorOf[c]] \/ c \in behind
                \/ \E g \in ToSet(q) : WillTell(g, actorOf[c], c)
             /\ status[actorOf[c]] = None => toldTravel[c] = None \/ c \in behind
  <2>1. CASE WillTell(Head1, actorOf[c], c)
    <3>1. Head1.actor = actorOf[c] /\ (c \in Head1.to \/ status[actorOf[c]] # Head1.mark)
      BY <1>2, <2>1 DEF WillTell
    <3>2. WillTell(f, actorOf[c], c)
      BY <1>1, <1>5, <1>8, <3>1 DEF WillTell, Waiting
    <3>3. QED
      BY <1>6, <1>8, <3>2 DEF Told
  <2>2. QED
    BY <1>2, <1>6, <1>8, <2>1 DEF Told
<1>9. CASE /\ agenda' = q /\ toldTravel' = [toldTravel EXCEPT ![To] = status[Head1.actor]]
           /\ UNCHANGED <<quiet, behind>>
  <2>1. UNCHANGED <<actorOf, readiness, travels, status, behind, broadcasting>>
        /\ Attached' = Attached
    BY <1>9 DEF quiet, clientVars, travelVars, Attached
  <2>2. Broadcasts(f)'
    BY <1>1, <1>2, <1>5, <1>7, <2>1 DEF Broadcasts, Moved, Of
  <2>3. Broadcasting'
    BY <1>2, <1>6, <1>9, <2>1, <2>2, RoundNext
  <2>4. /\ toldTravel'[To] = status[a]
        /\ \A c \in Clients \ {To} : toldTravel'[c] = toldTravel[c]
    BY <1>1, <1>3, <1>9 DEF IInv, TypeOK, Attached
  <2>5. \A g, c : WillTell(g, actorOf[c], c)' <=> WillTell(g, actorOf[c], c)
    BY <2>1 DEF WillTell
  <2>6. ASSUME NEW c \in Attached, readiness[c] # None
        PROVE  /\ \/ toldTravel'[c] = status[actorOf[c]] \/ c \in behind
                  \/ \E g \in ToSet(q) : WillTell(g, actorOf[c], c)
               /\ status[actorOf[c]] = None => toldTravel'[c] = None \/ c \in behind
    <3>1. CASE c = To
      BY <1>3, <2>4, <3>1
    <3>2. CASE c # To
      <4>1. toldTravel'[c] = toldTravel[c]
        BY <2>4, <2>6, <3>2 DEF Attached
      <4>2. QED
        BY <1>8, <2>6, <3>2, <4>1
    <3>3. QED
      BY <3>1, <3>2
  <2>7. Told'
    BY <1>9, <2>1, <2>5, <2>6 DEF Told
  <2>8. QED
    BY <2>3, <2>7
<1>10. CASE Disconnect(To, q)
  <2>1. /\ readiness' = [readiness EXCEPT ![To] = None]
        /\ toldTravel' = [toldTravel EXCEPT ![To] = None]
        /\ actorOf' = [actorOf EXCEPT ![To] = None] /\ behind' = behind \ {To}
    BY <1>10 DEF Disconnect, Departs
  <2>2. /\ Attached' = Attached \ {To}
        /\ \A c \in Attached' : /\ actorOf'[c] = actorOf[c] /\ readiness'[c] = readiness[c]
                                /\ toldTravel'[c] = toldTravel[c]
                                /\ (c \in behind' <=> c \in behind)
    BY <1>3, <2>1, Apart DEF IInv, TypeOK, Attached
  <2>3. Of(f.to, a)'
    BY <1>7, <2>2 DEF Of
  <2>4. CASE controllers[a] # To
    <3>1. agenda' = q /\ UNCHANGED <<travels, status, broadcasting>>
      BY <1>3, <1>10, <2>4 DEF Disconnect, Departs, travelVars
    <3>2. Broadcasts(f)'
      BY <1>1, <1>2, <1>5, <2>3, <3>1 DEF Broadcasts, Moved
    <3>3. Broadcasting'
      BY <1>2, <1>6, <3>1, <3>2, RoundNext
    <3>4. ASSUME NEW c \in Attached', readiness'[c] # None
          PROVE  /\ \/ toldTravel'[c] = status'[actorOf'[c]] \/ c \in behind'
                    \/ \E g \in ToSet(agenda') : WillTell(g, actorOf[c], c)'
                 /\ status'[actorOf'[c]] = None => toldTravel'[c] = None \/ c \in behind'
      <4>1. c \in Attached \ {To} /\ readiness[c] # None
        BY <2>2, <3>4
      <4>2. /\ \/ toldTravel[c] = status[actorOf[c]] \/ c \in behind
               \/ \E g \in ToSet(q) : WillTell(g, actorOf[c], c)
            /\ status[actorOf[c]] = None => toldTravel[c] = None \/ c \in behind
        BY <1>8, <4>1
      <4>3. /\ actorOf'[c] = actorOf[c] /\ toldTravel'[c] = toldTravel[c] /\ status' = status
            /\ (c \in behind => c \in behind') /\ agenda' = q
        BY <2>2, <3>1, <3>4
      <4>4. ASSUME NEW g \in ToSet(q), WillTell(g, actorOf[c], c)
            PROVE  g \in ToSet(agenda') /\ WillTell(g, actorOf[c], c)'
        BY <3>1, <4>3, <4>4 DEF WillTell
      <4>5. QED
        BY <4>2, <4>3, <4>4
    <3>5. Told'
      BY <3>4 DEF Told
    <3>6. QED
      BY <3>3, <3>5
  <2>5. CASE controllers[a] = To
    <3>1. PICK g : g = Drop(a, To)
      OBVIOUS
    <3>2. g.do = "drop" /\ g.actor = a
      BY <3>1 DEF Drop, Frame
    <3>3. PICK r : r = <<g>> \o q
      OBVIOUS
    <3>4. r \in Seq(ToSet(r)) /\ ToSet(r) = {g} \cup ToSet(q)
      BY <1>6, <3>3, PutOn
    <3>5. StopTravel(a, r) /\ broadcasting'
      BY <1>2, <1>3, <1>10, <2>5, <3>1, <3>3 DEF Disconnect, Departs, StopTravel
    <3>6. agenda' = r
      BY <1>2, <3>4, <3>5, NothingPushed DEF StopTravel
    <3>7. /\ status[a] # None /\ Head1.mark # None /\ status[a] \in Statuses
          /\ \/ status[a] = Head1.mark
             \/ Head1.mark.active /\ ~status[a].active
      BY <1>1, <1>2 DEF Broadcasts, Moved, IInv, TypeOK
    <3>8. /\ status'[a] # None /\ \A b \in Actors \ {a} : status'[b] = status[b]
          /\ status[a].active => status'[a].active = FALSE
          /\ ~status[a].active => status'[a] = status[a]
      <4>1. CASE status[a].active
        <5>1. status' = [status EXCEPT ![a] = [status[a] EXCEPT !.active = FALSE]]
          BY <3>5, <3>7, <4>1 DEF StopTravel
        <5>2. /\ [status[a] EXCEPT !.active = FALSE] \in Statuses
              /\ [status[a] EXCEPT !.active = FALSE].active = FALSE
          BY <3>7 DEF Statuses
        <5>3. QED
          BY <4>1, <5>1, <5>2, Apart DEF IInv, TypeOK
      <4>2. CASE ~status[a].active
        BY <3>5, <3>7, <4>2 DEF StopTravel
      <4>3. QED
        BY <4>1, <4>2
    <3>9. Moved(f)'
      BY <1>5, <3>7, <3>8 DEF Moved
    <3>10. Interrupts(g, f)'
      BY <1>5, <3>2 DEF Interrupts
    <3>11. Below(g, q)
      <4>1. g.do \notin Lasts /\ g.do \notin Ends /\ f.do \notin Tops
        BY <1>5, <3>2 DEF Lasts, Ends, Tops
      <4>2. \A h \in ToSet(q) : h.do \notin Tops
        BY <1>2, <1>6, <4>1 DEF Base, NoTops
      <4>3. QED
        BY <4>1, <4>2 DEF Below
    <3>12. Broadcasting'
      BY <1>2, <1>5, <1>6, <2>3, <3>3, <3>5, <3>6, <3>9, <3>10, <3>11, RoundAfter DEF Broadcasts
    <3>13. travels' = [travels EXCEPT ![a] = None]
      BY <3>5 DEF StopTravel
    <3>14. ASSUME NEW c \in Attached', readiness'[c] # None
           PROVE  /\ \/ toldTravel'[c] = status'[actorOf'[c]] \/ c \in behind'
                     \/ \E h \in ToSet(agenda') : WillTell(h, actorOf[c], c)'
                  /\ status'[actorOf'[c]] = None => toldTravel'[c] = None \/ c \in behind'
      <4>1. c \in Attached \ {To} /\ readiness[c] # None /\ actorOf[c] \in Actors
        BY <2>2, <3>14 DEF IInv, TypeOK, Attached
      <4>2. /\ \/ toldTravel[c] = status[actorOf[c]] \/ c \in behind
                \/ \E h \in ToSet(q) : WillTell(h, actorOf[c], c)
            /\ status[actorOf[c]] = None => toldTravel[c] = None \/ c \in behind
        BY <1>8, <4>1
      <4>3. CASE actorOf[c] # a
        <5>1. ASSUME NEW h \in ToSet(q), WillTell(h, actorOf[c], c)
              PROVE  h \in ToSet(agenda') /\ WillTell(h, actorOf[c], c)'
          BY <2>2, <3>4, <3>6, <3>8, <3>13, <3>14, <4>1, <4>3, <5>1 DEF WillTell, IInv, TypeOK
        <5>2. QED
          BY <2>2, <3>8, <3>14, <4>1, <4>2, <4>3, <5>1
      <4>4. CASE actorOf[c] = a /\ status[a].active
        <5>1. status'[a] # Head1.mark
          BY <3>7, <3>8, <4>4
        <5>2. WillTell(f, actorOf[c], c)'
          BY <1>5, <2>2, <3>14, <4>4, <5>1 DEF WillTell
        <5>3. QED
          BY <1>6, <2>2, <3>4, <3>6, <3>8, <3>14, <4>4, <5>2
      <4>5. CASE actorOf[c] = a /\ ~status[a].active
        <5>1. travels[a] = None /\ status'[a] = status[a]
          BY <3>8, <4>5 DEF IInv, Leased
        <5>2. ASSUME NEW h \in ToSet(q), WillTell(h, actorOf[c], c)
              PROVE  h \in ToSet(agenda') /\ WillTell(h, actorOf[c], c)'
          BY <2>2, <3>4, <3>6, <3>14, <4>5, <5>1, <5>2 DEF WillTell
        <5>3. /\ actorOf'[c] = actorOf[c] /\ toldTravel'[c] = toldTravel[c]
              /\ (c \in behind => c \in behind')
          BY <2>2, <3>14
        <5>4. QED
          BY <4>2, <4>5, <5>1, <5>2, <5>3
      <4>6. QED
        BY <4>3, <4>4, <4>5
    <3>15. Told'
      BY <3>14 DEF Told
    <3>16. QED
      BY <3>12, <3>15
  <2>6. QED
    BY <2>4, <2>5
<1>11. QED
  BY <1>4, <1>9, <1>10 DEF TravelUpdateNext

\* A refresh puts no round of sends on what is left to do.
LEMMA RefreshSilent ==
  ASSUME IInv, RefreshTaken \/ RefreshRefused
  PROVE  /\ ToSet(Rest) \subseteq ToSet(agenda')
         /\ \A f \in ToSet(agenda') : f \in ToSet(Rest) \/ f.do # "travelling"
<1>1. Rest \in Seq(ToSet(Rest))
  BY RestOwn DEF RefreshTaken, RefreshRefused
<1>2. ASSUME NEW seen, NEW f, f = PassAfter(seen) \/ f = Refresh, NEW q, q = <<f>> \o Rest
      PROVE  f.do # "travelling" /\ q \in Seq(ToSet(q)) /\ ToSet(q) = {f} \cup ToSet(Rest)
  <2>1. f.do # "travelling"
    BY <1>2 DEF PassAfter, Pass, Refresh, Frame
  <2>2. QED
    BY <1>1, <1>2, <2>1, PutOn
<1>3. CASE RefreshTaken
  <2>1. PICK seen \in SUBSET PassTo :
          agenda' = (IF PassTo \ seen # {} THEN <<PassAfter(seen)>>
                     ELSE IF AnotherPass(PassCount) THEN <<Refresh>> ELSE <<>>) \o Rest
    BY <1>3 DEF RefreshTaken
  <2>2. PICK f, g, q, r : /\ f = PassAfter(seen) /\ g = Refresh
                          /\ q = <<f>> \o Rest /\ r = <<g>> \o Rest
    OBVIOUS
  <2>3. agenda' = Rest \/ agenda' = q \/ agenda' = r
    BY <1>1, <2>1, <2>2, NothingPushed
  <2>4. /\ f.do # "travelling" /\ ToSet(q) = {f} \cup ToSet(Rest)
        /\ g.do # "travelling" /\ ToSet(r) = {g} \cup ToSet(Rest)
    BY <1>2, <2>2
  <2>5. QED
    BY <2>3, <2>4
<1>4. CASE RefreshRefused
  <2>1. PICK c \in PassTo : Disconnect(c, <<PassAfter({d \in PassTo : d <= c})>> \o Rest)
    BY <1>4 DEF RefreshRefused
  <2>2. PICK f, q : f = PassAfter({d \in PassTo : d <= c}) /\ q = <<f>> \o Rest
    OBVIOUS
  <2>3. f.do # "travelling" /\ q \in Seq(ToSet(q)) /\ ToSet(q) = {f} \cup ToSet(Rest)
    BY <1>2, <2>2
  <2>4. Grown(q, agenda')
    BY <2>1, <2>2, <2>3, DepartsGrown DEF Disconnect
  <2>5. QED
    BY <2>3, <2>4 DEF Grown, Halfway
<1>5. QED
  BY <1>3, <1>4

\* Readiness that is sent goes to clients that have one.
LEMMA TakenTold ==
  ASSUME IInv, Published, Told, RefreshTaken,
         \A a \in Actors : Steady(a) \/ Announces(a)
  PROVE  Told'
<1>1. /\ UNCHANGED <<actorOf, toldTravel, behind>> /\ Attached' = Attached
      /\ \A c \in PassTo : readiness[c] # None
  BY PassGoesOn DEF RefreshTaken, Attached
<1>2. PICK seen \in SUBSET PassTo :
        readiness' = [c \in Clients |-> IF c \in {d \in seen : Due(d)}
                        THEN ReadinessFor(c, PassInput(actorOf[c])) ELSE readiness[c]]
  BY DEF RefreshTaken
<1>3. \A c \in Clients : readiness'[c] # None => readiness[c] # None
  BY <1>1, <1>2
<1>4. UNCHANGED <<status, travels>>
  BY DEF RefreshTaken, travelVars
<1>5. ASSUME NEW c \in Attached', readiness'[c] # None
      PROVE  /\ \/ toldTravel'[c] = status'[actorOf'[c]] \/ c \in behind'
                \/ \E f \in ToSet(agenda') : WillTell(f, actorOf[c], c)'
             /\ status'[actorOf'[c]] = None => toldTravel'[c] = None \/ c \in behind'
  <2>1. PICK a \in Actors : a = actorOf[c] /\ actorOf'[c] = a /\ c \in Attached
    BY <1>1, <1>5 DEF Attached, IInv, TypeOK
  <2>2. /\ \/ toldTravel[c] = status[a] \/ c \in behind
           \/ \E f \in ToSet(agenda) : WillTell(f, a, c)
        /\ status[a] = None => toldTravel[c] = None \/ c \in behind
    BY <1>1, <1>3, <1>5, <2>1 DEF Told, Attached
  <2>3. CASE Announces(a)
    BY <2>1, <2>3 DEF Announces, WillTell
  <2>4. CASE Steady(a)
    <3>1. ASSUME NEW f \in ToSet(agenda), WillTell(f, a, c)
          PROVE  f \in ToSet(agenda') /\ WillTell(f, a, c)'
      BY <1>4, <2>4, <3>1 DEF Steady, WillTell
    <3>2. QED
      BY <1>1, <1>4, <2>1, <2>2, <3>1
  <2>5. QED
    BY <2>1, <2>3, <2>4
<1>6. QED
  BY <1>5 DEF Told

\* What runs keeps rounds of sends apart, and what clients were told or will be.
LEMMA UnwindTold ==
  ASSUME IInv, Published, Broadcasting, Told, Unwind
  PROVE  Broadcasting' /\ Told'
<1>1. CASE TravelUpdateStart \/ TravelUpdateNext \/ TravelUpdateEnd
  BY <1>1, StartTold, NextTold, EndTold
<1>2. ASSUME ~(TravelUpdateStart \/ TravelUpdateNext \/ TravelUpdateEnd)
      PROVE  Broadcasting' /\ Told'
  <2>1. /\ Head1.do \notin {"travel", "travelling"} /\ agenda # <<>>
        /\ Head1.do = "drop" => DropControl
        /\ Head1.do = "tell" => TellNext \/ TellDone
    BY <1>2 DEF Unwind, Running, TellNext, TellDone, SendReply, StopNext, RefreshTaken,
       RefreshRefused, FewerNext, SnapshotNext, ResetStart, ResetNext, ResetEnd, AnnounceStart,
       AnnounceNext, DropControl, AcquireRest, PausesNext, PausePrep, PauseSettled, Choose,
       AdmitAi, ExecuteHuman, ExecuteAi, ExecuteTravel, RefuseStep, FinishTravel, Walk
  <2>2. broadcasting => /\ Broadcasting' /\ (Head1.do = "drop" \/ Head1.do = "tell")
                        /\ Head1.do = "tell" =>
                             \A c \in Head1.to \cap Attached : controllers[actorOf[c]] # c
    BY <2>1, InterruptRuns
  <2>3. /\ ToSet(Rest) \subseteq ToSet(agenda')
        /\ \A f \in ToSet(agenda') : f \in ToSet(Rest) \/ f.do # "travelling"
    <3>1. CASE RefreshTaken \/ RefreshRefused
      BY <3>1, RefreshSilent
    <3>2. CASE ~(RefreshTaken \/ RefreshRefused)
      <4>1. Head1.do \notin {"refresh", "refreshing"}
        BY <1>2, <3>2 DEF Unwind, Running, TellNext, TellDone, SendReply, StopNext, FewerNext,
           SnapshotNext, ResetStart, ResetNext, ResetEnd, AnnounceStart, AnnounceNext, DropControl,
           AcquireRest, PausesNext, PausePrep, PauseSettled, Choose, AdmitAi, ExecuteHuman,
           ExecuteAi, ExecuteTravel, RefuseStep, FinishTravel, Walk
      <4>2. Grown(Rest, agenda')
        BY <2>1, <4>1, UnwindGrown
      <4>3. QED
        BY <4>2 DEF Grown, Halfway
    <3>3. QED
      BY <3>1, <3>2
  <2>4. broadcasting' = broadcasting /\ \A b \in Actors : Steady(b) \/ Announces(b)
    <3>1. CASE TellNext \/ TellDone \/ SendReply \/ AnnounceStart \/ AnnounceNext \/ RefreshRefused
      <4>1. Head1.do # "drop"
        BY <3>1 DEF TellNext, TellDone, SendReply, AnnounceStart, AnnounceNext, RefreshRefused,
                    Running
      <4>2. QED
        BY <2>2, <2>3, <3>1, <4>1, SendsTell
    <3>2. CASE ~(TellNext \/ TellDone \/ SendReply \/ AnnounceStart \/ AnnounceNext
                 \/ RefreshRefused)
      BY <1>2, <2>1, <2>2, <2>3, <3>2, RunsTell
    <3>3. QED
      BY <3>1, <3>2
  <2>5. Broadcasting'
    <3>1. CASE ~broadcasting
      <4>1. ToSet(agenda) = {Head1} \cup ToSet(Rest)
        BY <2>1, UnderHead DEF IInv, Stacked, Head1, Rest
      <4>2. QED
        BY <2>3, <2>4, <3>1, <4>1 DEF Broadcasting, Silent
    <3>2. QED
      BY <2>2, <3>1
  <2>6. Told'
    <3>1. CASE RefreshTaken
      BY <2>4, <3>1, TakenTold
    <3>2. CASE ~RefreshTaken
      <4>1. Remain /\ Hears
        BY <1>2, <3>2, UnwindStays DEF Stays, Remain
      <4>2. QED
        BY <2>4, <4>1, ToldKept DEF IInv
    <3>3. QED
      BY <3>1, <3>2
  <2>7. QED
    BY <2>5, <2>6
<1>3. QED
  BY <1>1, <1>2

\* What holds of journeys when a handler begins.
LEMMA Begins ==
  ASSUME ResetPending, Broadcasting, Told, agenda = <<>>
  PROVE  /\ ~broadcasting /\ behind = {}
         /\ \A c \in Attached : readiness[c] # None => toldTravel[c] = status[actorOf[c]]
<1>1. ToSet(agenda) = {}
  BY NoneWritten
<1>2. QED
  BY <1>1 DEF ResetPending, Broadcasting, Told

\* A handler begins with nothing half told, unless a journey begins or ends.
LEMMA RequestsTell ==
  ASSUME IInv, ResetPending, Fresh, Broadcasting, Told, NEW c \in Clients, Request(c)
  PROVE  Told' /\ broadcasting' = broadcasting
<1>1. agenda = <<>>
  BY DEF Request, Attach, Query, Look, Continue, AcquireControl, ReleaseControl, AdmitIntention,
         ResumeIntention, CancelIntention, BeginTravel, Setup, Rewind, Handle, Begin, Idle
<1>2. /\ ~broadcasting /\ behind = {}
      /\ \A d \in Attached : readiness[d] # None => toldTravel[d] = status[actorOf[d]]
  BY <1>1, Begins
<1>3. CASE UNCHANGED <<actorOf, readiness, status, toldTravel, broadcasting>>
  BY <1>2, <1>3 DEF Told, Attached
<1>4. CASE \E a \in Actors : Attach(c, a)
  <2>1. PICK a \in Actors : Attach(c, a)
    BY <1>4
  <2>2. /\ c \notin arrived /\ actorOf' = [actorOf EXCEPT ![c] = a]
        /\ UNCHANGED <<readiness, status, toldTravel, broadcasting>>
    BY <2>1 DEF Attach, travelVars, toldVars
  <2>3. readiness'[c] = None
    BY <2>2 DEF Fresh
  <2>4. \A d \in Attached' \ {c} : d \in Attached /\ actorOf'[d] = actorOf[d]
    BY <2>2 DEF Attached, IInv, TypeOK
  <2>5. QED
    BY <1>2, <2>2, <2>3, <2>4 DEF Told
<1>5. CASE ReleaseControl(c)
  <2>1. PICK a, f, r, q : /\ a = actorOf[c] /\ f = Drop(a, c) /\ r = Answering(c)
                          /\ q = <<f>> \o r
    OBVIOUS
  <2>2. q \in Seq(ToSet(q))
    BY <2>1, Answers, PutOn
  <2>3. /\ a \in Actors /\ StopTravel(a, q) /\ broadcasting' = broadcasting
        /\ UNCHANGED <<actorOf, readiness, toldVars>>
    BY <1>5, <2>1 DEF ReleaseControl, MayAct, Attached, IInv, TypeOK, StopTravel
  <2>4. \A b \in Actors : Steady(b) \/ Announces(b)
    <3>1. ToSet(agenda) = {}
      BY <1>1, NoneWritten
    <3>2. QED
      BY <1>2, <2>2, <2>3, <3>1, StopTells DEF IInv
  <2>5. Remain /\ Hears
    BY <2>3 DEF Remain, Hears, Attached, toldVars
  <2>6. QED
    BY <2>3, <2>4, <2>5, ToldKept DEF IInv
<1>6. CASE BeginTravel(c)
  <2>1. PICK a \in Actors : a = actorOf[c]
    BY <1>6 DEF BeginTravel, Accepted, Controls, MayAct, Attached, IInv, TypeOK
  <2>2. PICK f, r, q : f = TravelUpdate(a) /\ r = Answering(c) /\ q = <<f>> \o r
    OBVIOUS
  <2>3. f.do = "travel" /\ f.actor = a
    BY <2>2 DEF TravelUpdate, Frame
  <2>4. agenda' = q /\ ToSet(q) = {f} \cup ToSet(r)
    <3>1. agenda' = q
      BY <1>6, <2>1, <2>2 DEF BeginTravel, Handle, Begin
    <3>2. QED
      BY <2>2, <3>1, Answers, PutOn
  <2>5. PICK far \in BOOLEAN : status' = [status EXCEPT ![a] = [active |-> far, odd |-> FALSE]]
    BY <1>6, <2>1 DEF BeginTravel
  <2>6. status'[a] # None /\ \A b \in Actors \ {a} : status'[b] = status[b]
    <3>1. [active |-> far, odd |-> FALSE] \in Statuses
      BY DEF Statuses
    <3>2. QED
      BY <2>5, <3>1, Apart DEF IInv, TypeOK
  <2>7. /\ UNCHANGED <<actorOf, readiness, broadcasting>> /\ Attached' = Attached
        /\ \A d \in Clients : actorOf[d] # a => toldTravel'[d] = toldTravel[d]
    BY <1>6, <2>1 DEF BeginTravel, clientVars, Attached
  <2>8. ASSUME NEW d \in Attached', readiness'[d] # None
        PROVE  /\ \/ toldTravel'[d] = status'[actorOf'[d]] \/ d \in behind'
                  \/ \E g \in ToSet(agenda') : WillTell(g, actorOf[d], d)'
               /\ status'[actorOf'[d]] = None => toldTravel'[d] = None \/ d \in behind'
    <3>1. CASE actorOf[d] = a
      <4>1. WillTell(f, actorOf[d], d)'
        BY <2>3, <2>7, <3>1 DEF WillTell
      <4>2. QED
        BY <2>4, <2>6, <2>7, <3>1, <4>1
    <3>2. CASE actorOf[d] # a
      <4>1. actorOf[d] \in Actors /\ d \in Clients
        BY <2>7, <2>8 DEF Attached, IInv, TypeOK
      <4>2. toldTravel[d] = status[actorOf[d]]
        BY <1>2, <2>7, <2>8
      <4>3. QED
        BY <2>6, <2>7, <3>2, <4>1, <4>2
    <3>3. QED
      BY <3>1, <3>2
  <2>9. Told'
    BY <2>8 DEF Told
  <2>10. QED
    BY <2>7, <2>9
<1>7. CASE Rewind(c)
  <2>1. behind' = Attached' /\ broadcasting' = broadcasting
    BY <1>7 DEF Rewind, Attached
  <2>2. QED
    BY <2>1 DEF Told
<1>8. CASE Query(c) \/ Look(c) \/ Continue(c) \/ AcquireControl(c)
  <2>1. UNCHANGED <<actorOf, readiness, status, toldTravel, broadcasting>>
    BY <1>8 DEF Query, Look, Continue, AcquireControl, clientVars, travelVars, toldVars
  <2>2. QED
    BY <1>3, <2>1
<1>9. CASE AdmitIntention(c) \/ ResumeIntention(c) \/ CancelIntention(c) \/ Setup(c)
  <2>1. UNCHANGED <<actorOf, readiness, status, toldTravel, broadcasting>>
    BY <1>9 DEF AdmitIntention, ResumeIntention, CancelIntention, Setup, travelVars, toldVars
  <2>2. QED
    BY <1>3, <2>1
<1>10. QED
  BY <1>4, <1>5, <1>6, <1>7, <1>8, <1>9 DEF Request

\* So does everything else that begins.
LEMMA OthersTell ==
  ASSUME IInv, ResetPending, Broadcasting, Told,
         Step \/ PollSaves \/ \E c \in Clients : Leave(c)
  PROVE  Told' /\ broadcasting' = broadcasting
<1>1. agenda = <<>>
  BY DEF Step, PollSaves, Leave, Idle
<1>2. /\ ~broadcasting /\ behind = {}
      /\ \A d \in Attached : readiness[d] # None => toldTravel[d] = status[actorOf[d]]
  BY <1>1, Begins
<1>3. CASE Step \/ PollSaves
  <2>1. UNCHANGED <<actorOf, readiness, status, toldTravel, broadcasting>>
    BY <1>3 DEF Step, PollSaves, clientVars, travelVars, toldVars
  <2>2. QED
    BY <1>2, <2>1 DEF Told, Attached
<1>4. CASE \E c \in Clients : Leave(c)
  <2>1. PICK c \in Attached, r \in {<<>>} : Departs(c, r)
    BY <1>4 DEF Leave
  <2>2. r \in Seq(ToSet(r)) /\ ToSet(agenda) = {}
    BY <1>1, <2>1, NoneWritten
  <2>3. broadcasting' = broadcasting /\ \A b \in Actors : Steady(b) \/ Announces(b)
    BY <1>2, <2>1, <2>2, DepartTells DEF IInv
  <2>4. Remain /\ Hears
    BY <2>1, Gone DEF Remain, Hears, IInv
  <2>5. QED
    BY <2>3, <2>4, ToldKept DEF IInv
<1>5. QED
  BY <1>3, <1>4

\* Every step keeps it that rounds of sends are apart, and what clients were
\* told of journeys or will be.
LEMMA JourneysTold ==
  IInv /\ ResetPending /\ Published /\ Fresh /\ Broadcasting /\ Told /\ [Next]_vars
    => Broadcasting' /\ Told'
<1> SUFFICES ASSUME IInv, ResetPending, Published, Fresh, Broadcasting, Told, [Next]_vars
             PROVE  Broadcasting' /\ Told'
  OBVIOUS
<1>1. ASSUME agenda = <<>>, Opened, Told', broadcasting' = broadcasting
      PROVE  Broadcasting' /\ Told'
  BY <1>1, Begins DEF Opened, Halfway, Broadcasting, Silent
<1>2. CASE \E c \in Clients : Request(c)
  <2>1. agenda = <<>>
    BY <1>2 DEF Request, Attach, Query, Look, Continue, AcquireControl, ReleaseControl,
           AdmitIntention, ResumeIntention, CancelIntention, BeginTravel, Setup, Rewind, Handle,
           Begin, Idle
  <2>2. QED
    BY <1>1, <1>2, <2>1, RequestsOpen, RequestsTell
<1>3. CASE Step \/ PollSaves \/ \E c \in Clients : Leave(c)
  <2>1. agenda = <<>>
    BY <1>3 DEF Step, PollSaves, Leave, Idle
  <2>2. QED
    BY <1>1, <1>3, <2>1, OthersOpen, OthersTell
<1>4. CASE Unwind
  BY <1>4, UnwindTold
<1>5. CASE UNCHANGED vars
  <2>1. /\ UNCHANGED <<agenda, broadcasting, status, travels, actorOf, readiness, toldTravel,
                       behind, controllers>>
        /\ Attached' = Attached /\ Head1' = Head1 /\ Rest' = Rest
    BY <1>5 DEF vars, clientVars, controlVars, travelVars, toldVars, Attached, Head1, Rest
  <2>2. Broadcasting'
    BY <2>1 DEF Broadcasting, Broadcasts, Moved, Of, Interrupts, Silent
  <2>3. Told'
    BY <2>1 DEF Told, WillTell
  <2>4. QED
    BY <2>2, <2>3
<1>6. QED
  BY <1>2, <1>3, <1>4, <1>5 DEF Next, Dead

\* Nobody is told anything before it arrives.
LEMMA FreshKept == IInv /\ Fresh /\ [Next]_vars => Fresh'
<1> SUFFICES ASSUME IInv, Fresh, [Next]_vars, NEW c \in Clients \ arrived'
             PROVE  c \notin Attached' /\ readiness'[c] = None
  BY DEF Fresh
<1>1. CASE UNCHANGED <<arrived, actorOf, readiness>>
  BY <1>1 DEF Fresh, Attached
<1>2. CASE Unwind /\ ~RefreshTaken
  BY <1>2, UnwindStays DEF Stays, Fresh
<1>3. CASE RefreshTaken
  <2>1. PICK seen \in SUBSET PassTo :
          readiness' = [d \in Clients |-> IF d \in {e \in seen : Due(e)}
                          THEN ReadinessFor(d, PassInput(actorOf[d])) ELSE readiness[d]]
    BY <1>3 DEF RefreshTaken
  <2>2. arrived' = arrived /\ actorOf' = actorOf /\ PassTo \subseteq Attached
    BY <1>3 DEF RefreshTaken, PassTo, Waiting
  <2>3. QED
    BY <2>1, <2>2 DEF Fresh, Attached
<1>4. CASE \E d \in Clients, a \in Actors : Attach(d, a)
  BY <1>4 DEF Attach, Fresh, Attached, IInv, TypeOK
<1>5. CASE \E d \in Clients : Request(d) /\ ~\E a \in Actors : Attach(d, a)
  <2>1. UNCHANGED <<arrived, actorOf, readiness>>
    BY <1>5 DEF Request, Query, Look, Continue, AcquireControl, ReleaseControl, AdmitIntention,
                ResumeIntention, CancelIntention, BeginTravel, Setup, Rewind, clientVars
  <2>2. QED
    BY <1>1, <2>1
<1>6. CASE \E d \in Clients : Leave(d)
  BY <1>6 DEF Leave, Departs, Fresh, Attached, IInv, TypeOK
<1>7. CASE Step \/ PollSaves \/ UNCHANGED vars
  BY <1>1, <1>7 DEF Step, PollSaves, vars, clientVars
<1>8. QED
  BY <1>2, <1>3, <1>4, <1>5, <1>6, <1>7 DEF Next, Dead

\* When a request has been handled every client that was given its readiness
\* has the one that holds, and knows how its actor's journey stands
\* (refresh_readiness, travel_update).
THEOREM InformedWhenIdle == Spec => []ClientsInformed
<1> DEFINE Known == Published /\ Fresh /\ Broadcasting /\ Told
<1>1. Init => ResetPending /\ Known
  <2> SUFFICES ASSUME Init PROVE ResetPending /\ Known
    OBVIOUS
  <2>1. /\ agenda = <<>> /\ behind = {} /\ strayed = {} /\ ~broadcasting /\ Attached = {}
        /\ \A c \in Clients : readiness[c] = None
    BY DEF Init, Attached
  <2>2. ToSet(agenda) = {}
    BY <2>1, NoneWritten
  <2>3. QED
    BY <2>1, <2>2 DEF ResetPending, Published, AllCurrent, Fresh, Broadcasting, Silent, Told
<1>2. IInv /\ ResetPending /\ Known /\ [Next]_vars => Known'
  BY PublishedKept, FreshKept, JourneysTold
<1>3. ResetPending /\ Known => ClientsInformed
  <2> SUFFICES ASSUME ResetPending, Known, agenda = <<>> PROVE ClientsInformed
    BY DEF ClientsInformed, Idle
  <2>1. ToSet(agenda) = {}
    BY NoneWritten
  <2>2. published => AllCurrent
    BY <2>1 DEF Published
  <2>3. \A c \in Attached : readiness[c] # None => toldTravel[c] = status[actorOf[c]]
    BY Begins
  <2>4. QED
    BY <2>2, <2>3 DEF ClientsInformed, AllCurrent
<1> HIDE DEF Known
<1>4. QED
  BY <1>1, <1>2, <1>3, AwaitedKept, InvariantHolds, PTL DEF Spec
=============================================================================
