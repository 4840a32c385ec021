-------------------------- MODULE Snapshots_proofs --------------------------
(***************************************************************************)
(* Proofs about delta-compressed frames, for any number of clients,        *)
(* entities and frames of backup.                                          *)
(*                                                                         *)
(* First the data.  The two merges are recursive functions on a grid of    *)
(* positions; both are shown to be defined (WriteRules, ParseRules), and   *)
(* parsing what was written is shown to give back what it was written of   *)
(* (ParseWritten), by induction on what is left of both lists.             *)
(*                                                                         *)
(* Then the protocol.  Every frame in the server's backup is whole in the  *)
(* shared buffer (FramesIntact), what a client holds is what was built     *)
(* (ClientFramesMatch), and a message on its way is taken from a frame     *)
(* that the client still has (MessagesMatch, LastFrameHeld).  The buffer   *)
(* is as long as one client needs; with more of them the first holds only  *)
(* while they see few entities (FewVisible), and the run of two clients    *)
(* shows what happens otherwise.                                           *)
(***************************************************************************)
EXTENDS Snapshots, WellFoundedInduction, SequenceTheorems, TLAPS

-------------------------------------------------------------------------------
\* Induction and recursion on a measure.

\* A set of naturals that is not empty has a least element.
LEMMA LeastNumber ==
  ASSUME NEW S, S \subseteq Nat, S # {}
  PROVE  \E k \in S : \A l \in Nat : l < k => l \notin S
<1>1. PICK k \in S : \A l \in S : ~ (<<l, k>> \in OpToRel(<, Nat))
  BY NatLessThanWellFounded, WFMin
<1>2. \A l \in Nat : l < k => <<l, k>> \in OpToRel(<, Nat)
  BY DEF OpToRel
<1> QED
  BY <1>1, <1>2

\* Induction over a set whose elements have a measure: what holds at p as soon as it holds at
\* every q with less left holds at every p.
LEMMA MeasureInduction ==
  ASSUME NEW D, NEW left, \A p \in D : left[p] \in Nat, NEW S,
         \A p \in D : (\A q \in D : left[q] < left[p] => q \in S) => p \in S
  PROVE  \A p \in D : p \in S
<1> DEFINE T == {left[p] : p \in D \ S}
<1>1. SUFFICES ASSUME D \ S # {} PROVE FALSE
  OBVIOUS
<1>2. T # {} /\ T \subseteq Nat
  BY <1>1
<1>3. PICK k \in T : \A l \in Nat : l < k => l \notin T
  BY <1>2, LeastNumber
<1>4. PICK p \in D \ S : left[p] = k
  BY <1>3
<1>5. ASSUME NEW q \in D, left[q] < left[p] PROVE q \in S
  BY <1>3, <1>4, <1>5
<1> QED
  BY <1>4, <1>5

\* The recursion by step on D descends, by the numbers left of what is left ...
Descending(D, S, N, left, step) ==
  /\ S # {} /\ N \in Nat
  /\ \A p \in D : left[p] \in 0 .. N
  /\ \A g \in [D -> S] : \A p \in D : step[<<g, p>>] \in S
  /\ \A g, h \in [D -> S] : \A p \in D :
       (\A q \in D : left[q] < left[p] => g[q] = h[q]) => step[<<g, p>>] = step[<<h, p>>]

\* ... and there is a function that satisfies it.
Defined(D, S, step) == \E g \in [D -> S] : \A p \in D : g[p] = step[<<g, p>>]

\* A recursion that descends defines a function: g is built up to each measure in turn.
LEMMA RecursionDefined ==
  ASSUME NEW D, NEW S, NEW N, NEW left, NEW step, Descending(D, S, N, left, step)
  PROVE  Defined(D, S, step)
<1> USE DEF Descending
<1> DEFINE Until(k) == \E g \in [D -> S] : \A p \in D : left[p] < k => g[p] = step[<<g, p>>]
           T == {k \in Nat : Until(k)}
<1>1. ASSUME NEW k \in Nat, Until(k) PROVE Until(k + 1)
  <2>1. PICK g \in [D -> S] : \A p \in D : left[p] < k => g[p] = step[<<g, p>>]
    BY <1>1
  <2> DEFINE h == [p \in D |-> step[<<g, p>>]]
  <2>2. h \in [D -> S]
    OBVIOUS
  <2>3. ASSUME NEW p \in D, left[p] < k + 1 PROVE h[p] = step[<<h, p>>]
    <3>1. ASSUME NEW q \in D, left[q] < left[p] PROVE g[q] = h[q]
      <4>1. left[q] < k
        BY <2>3, <3>1
      <4> QED
        BY <2>1, <4>1
    <3>2. step[<<g, p>>] = step[<<h, p>>]
      <4> HIDE DEF h
      <4> QED
        BY <2>2, <3>1
    <3> QED
      BY <3>2
  <2> HIDE DEF h
  <2> QED
    BY <2>2, <2>3
<1>2. Until(0)
  <2>1. PICK s : s \in S
    OBVIOUS
  <2>2. [p \in D |-> s] \in [D -> S]
    BY <2>1
  <2>3. \A p \in D : ~ (left[p] < 0)
    OBVIOUS
  <2> QED
    BY <2>2, <2>3
<1> HIDE DEF Until
<1>3. ASSUME NEW k \in Nat, \A l \in Nat : l < k => l \in T PROVE k \in T
  <2>1. CASE k = 0
    BY <1>2, <2>1
  <2>2. CASE k > 0
    <3>1. k - 1 \in Nat /\ k - 1 < k /\ k = (k - 1) + 1
      BY <2>2
    <3> QED
      BY <1>1, <1>3, <3>1
  <2> QED
    BY <2>1, <2>2
<1>4. \A k \in Nat : k \in T
  <2> DEFINE id == [k \in Nat |-> k]
  <2>1. /\ \A k \in Nat : id[k] \in Nat
        /\ \A k \in Nat : (\A l \in Nat : id[l] < id[k] => l \in T) => k \in T
    BY <1>3
  <2> HIDE DEF T, id
  <2> QED
    BY <2>1, MeasureInduction, ZenonT(30)
<1>5. Until(N + 1)
  BY <1>4
<1> QED
  BY <1>5 DEF Until, Defined

\* The items of a frame's message.
Item == [state : EntityState, remove : BOOLEAN]
\* The pairs at which the two merges recur, and what is left of both lists at a pair.
Grid(n, m) == (1 .. n + 1) \X (1 .. m + 1)
Remaining(n, m) == [p \in Grid(n, m) |-> (n + m + 2) - (p[1] + p[2])]

\* A step to the next element of either list, or of both, stays on the grid and leaves less.
LEMMA GridFacts ==
  ASSUME NEW n \in Nat, NEW m \in Nat, NEW i \in 1 .. n + 1, NEW j \in 1 .. m + 1
  PROVE  /\ <<i, j>> \in Grid(n, m)
         /\ Remaining(n, m)[<<i, j>>] = (n + m + 2) - (i + j)
         /\ Remaining(n, m)[<<i, j>>] \in 0 .. n + m
         /\ i <= n => <<i + 1, j>> \in Grid(n, m) /\ Remaining(n, m)[<<i + 1, j>>] < Remaining(n, m)[<<i, j>>]
         /\ j <= m => <<i, j + 1>> \in Grid(n, m) /\ Remaining(n, m)[<<i, j + 1>>] < Remaining(n, m)[<<i, j>>]
         /\ i <= n /\ j <= m => <<i + 1, j + 1>> \in Grid(n, m) /\ Remaining(n, m)[<<i + 1, j + 1>>] < Remaining(n, m)[<<i, j>>]
<1>1. \A k \in 1 .. n + 1, l \in 1 .. m + 1 :
        <<k, l>> \in Grid(n, m) /\ Remaining(n, m)[<<k, l>>] = (n + m + 2) - (k + l)
  BY DEF Grid, Remaining
<1>2. i <= n => i + 1 \in 1 .. n + 1
  OBVIOUS
<1>3. j <= m => j + 1 \in 1 .. m + 1
  OBVIOUS
<1> QED
  BY <1>1, <1>2, <1>3

\* A point of the grid is a pair of positions.
LEMMA GridPoint ==
  ASSUME NEW n \in Nat, NEW m \in Nat, NEW p \in Grid(n, m)
  PROVE  \E i \in 1 .. n + 1, j \in 1 .. m + 1 : p = <<i, j>>
  BY DEF Grid

\* A list of one element of S is a list over S.
LEMMA Singleton ==
  ASSUME NEW S, NEW x \in S
  PROVE  <<x>> \in Seq(S)
  OBVIOUS

-------------------------------------------------------------------------------
\* What Sv_WriteEntities writes.

\* The four cases of Sv_WriteEntities at the positions i of from and j of to: the entity is in
\* both, new, gone, or both lists are over.
Both(from, to, i, j) ==
  i <= Len(from) /\ j <= Len(to) /\ from[i].number = to[j].number
Add(from, to, i, j) ==
  j <= Len(to) /\ (~ (i <= Len(from)) \/ to[j].number < from[i].number)
Gone(from, to, i, j) ==
  i <= Len(from) /\ (~ (j <= Len(to)) \/ from[i].number < to[j].number)
Over(from, to, i, j) == ~ (i <= Len(from)) /\ ~ (j <= Len(to))

\* Positions in two lists of entity states.
Point(from, to, i, j) ==
  /\ from \in Seq(EntityState) /\ i \in 1 .. Len(from) + 1
  /\ to \in Seq(EntityState) /\ j \in 1 .. Len(to) + 1

\* What is written for a new or changed entity, for one that is gone, and for one in both lists.
Put(s) == <<[state |-> s, remove |-> FALSE]>>
Removal(s) == <<[state |-> s, remove |-> TRUE]>>
Change(s, t) == IF s = t THEN <<>> ELSE Put(t)

\* What is written from i and j on, where a, b and c are what follows.
Written(a, b, c, from, to, i, j) ==
  CASE Both(from, to, i, j) -> Change(from[i], to[j]) \o a
    [] Add(from, to, i, j) -> Put(to[j]) \o b
    [] Gone(from, to, i, j) -> Removal(from[i]) \o c
    [] Over(from, to, i, j) -> <<>>

\* One unfolding of write in WriteEntities.
WriteStep(w, from, to, i, j) ==
  Written(w[<<i + 1, j + 1>>], w[<<i, j + 1>>], w[<<i + 1, j>>], from, to, i, j)

\* If the equations of write have a solution, WriteEntities is the value at <<1, 1>> of one.
LEMMA WriteDefined ==
  ASSUME NEW from, NEW to, NEW g,
         g = [p \in Grid(Len(from), Len(to)) |-> WriteStep(g, from, to, p[1], p[2])]
  PROVE  \E w : /\ w = [p \in Grid(Len(from), Len(to)) |-> WriteStep(w, from, to, p[1], p[2])]
                /\ WriteEntities(from, to) = w[<<1, 1>>]
<1> DEFINE F(w) == [p \in Grid(Len(from), Len(to)) |-> WriteStep(w, from, to, p[1], p[2])]
           write == CHOOSE w : w = F(w)
<1>1. WriteEntities(from, to) = write[<<1, 1>>]
  BY DEF WriteEntities, WriteStep, Written, Grid, Both, Add, Gone, Over, Put, Removal, Change
<1>2. g = F(g)
  OBVIOUS
<1> HIDE DEF F
<1>3. write = F(write)
  BY <1>2
<1> QED
  BY <1>1, <1>3 DEF F

\* The elements of a list of states are states, and their numbers are integers.
LEMMA StatesAt ==
  ASSUME NEW s \in Seq(EntityState)
  PROVE  /\ Len(s) \in Nat
         /\ \A i \in 1 .. Len(s) : s[i] \in EntityState /\ s[i].number \in Int
<1>1. \A i \in 1 .. Len(s) : s[i] \in EntityState
  BY ElementOfSeq
<1>2. \A e \in EntityState : e.number \in Int
  BY SnapshotAssumption DEF EntityState, Entity
<1> QED
  BY <1>1, <1>2, LenProperties

\* At each point exactly one of the four cases of Sv_WriteEntities applies.
LEMMA WriteExclusive ==
  ASSUME NEW from, NEW to, NEW i, NEW j, Point(from, to, i, j)
  PROVE  /\ ~ (Both(from, to, i, j) /\ Add(from, to, i, j))
         /\ ~ (Both(from, to, i, j) /\ Gone(from, to, i, j))
         /\ ~ (Add(from, to, i, j) /\ Gone(from, to, i, j))
         /\ ~ (Over(from, to, i, j) /\ (Both(from, to, i, j) \/ Add(from, to, i, j) \/ Gone(from, to, i, j)))
         /\ Both(from, to, i, j) \/ Add(from, to, i, j) \/ Gone(from, to, i, j)
            \/ Over(from, to, i, j)
<1>1. /\ Len(from) \in Nat /\ Len(to) \in Nat /\ i \in Nat /\ j \in Nat
      /\ i <= Len(from) => from[i].number \in Int
      /\ j <= Len(to) => to[j].number \in Int
  BY StatesAt DEF Point
<1> QED
  BY <1>1 DEF Both, Add, Gone, Over

\* An entity in both lists: written where it differs.
LEMMA WrittenBoth ==
  ASSUME NEW from, NEW to, NEW i, NEW j, Point(from, to, i, j), NEW a, NEW b, NEW c,
         Both(from, to, i, j)
  PROVE  Written(a, b, c, from, to, i, j) = Change(from[i], to[j]) \o a
  BY WriteExclusive, Zenon DEF Written

\* A new entity is written whole.
LEMMA WrittenAdd ==
  ASSUME NEW from, NEW to, NEW i, NEW j, Point(from, to, i, j), NEW a, NEW b, NEW c,
         Add(from, to, i, j)
  PROVE  Written(a, b, c, from, to, i, j) = Put(to[j]) \o b
  BY WriteExclusive, Zenon DEF Written

\* One that is gone is written as a removal.
LEMMA WrittenGone ==
  ASSUME NEW from, NEW to, NEW i, NEW j, Point(from, to, i, j), NEW a, NEW b, NEW c,
         Gone(from, to, i, j)
  PROVE  Written(a, b, c, from, to, i, j) = Removal(from[i]) \o c
  BY WriteExclusive, Zenon DEF Written

\* Nothing is written at the end of both lists.
LEMMA WrittenOver ==
  ASSUME NEW from, NEW to, NEW i, NEW j, Point(from, to, i, j), NEW a, NEW b, NEW c,
         Over(from, to, i, j)
  PROVE  Written(a, b, c, from, to, i, j) = <<>>
  BY WriteExclusive, Zenon DEF Written

\* What is written for one entity is a list of items.
LEMMA ItemsTyped ==
  /\ \A s \in EntityState : Put(s) \in Seq(Item) /\ Removal(s) \in Seq(Item)
  /\ \A s, t \in EntityState : Change(s, t) \in Seq(Item)
<1>1. \A s \in EntityState : [state |-> s, remove |-> FALSE] \in Item /\ [state |-> s, remove |-> TRUE] \in Item
  BY DEF Item
<1>2. \A s \in EntityState : Put(s) \in Seq(Item) /\ Removal(s) \in Seq(Item)
  BY <1>1, Singleton, Zenon DEF Put, Removal
<1>3. <<>> \in Seq(Item)
  OBVIOUS
<1> QED
  BY <1>2, <1>3, Zenon DEF Change

\* A step of write gives items when what follows it does.
LEMMA WrittenTyped ==
  ASSUME NEW from, NEW to, NEW i, NEW j, Point(from, to, i, j), NEW a, NEW b, NEW c,
         Both(from, to, i, j) => a \in Seq(Item),
         Add(from, to, i, j) => b \in Seq(Item),
         Gone(from, to, i, j) => c \in Seq(Item)
  PROVE  Written(a, b, c, from, to, i, j) \in Seq(Item)
<1>1. /\ i <= Len(from) => from[i] \in EntityState
      /\ j <= Len(to) => to[j] \in EntityState
  BY StatesAt DEF Point
<1>2. \A s, t \in Seq(Item) : s \o t \in Seq(Item)
  BY ConcatProperties
<1>3. CASE Both(from, to, i, j)
  <2>1. Change(from[i], to[j]) \in Seq(Item)
    BY <1>1, <1>3, ItemsTyped DEF Both
  <2>2. Written(a, b, c, from, to, i, j) = Change(from[i], to[j]) \o a
    BY <1>3, WrittenBoth
  <2> QED
    BY <1>2, <1>3, <2>1, <2>2, Zenon
<1>4. CASE Add(from, to, i, j)
  <2>1. Put(to[j]) \in Seq(Item)
    BY <1>1, <1>4, ItemsTyped DEF Add
  <2>2. Written(a, b, c, from, to, i, j) = Put(to[j]) \o b
    BY <1>4, WrittenAdd
  <2> QED
    BY <1>2, <1>4, <2>1, <2>2, Zenon
<1>5. CASE Gone(from, to, i, j)
  <2>1. Removal(from[i]) \in Seq(Item)
    BY <1>1, <1>5, ItemsTyped DEF Gone
  <2>2. Written(a, b, c, from, to, i, j) = Removal(from[i]) \o c
    BY <1>5, WrittenGone
  <2> QED
    BY <1>2, <1>5, <2>1, <2>2, Zenon
<1>6. CASE Over(from, to, i, j)
  <2>1. Written(a, b, c, from, to, i, j) = <<>>
    BY <1>6, WrittenOver
  <2> QED
    BY <2>1
<1> QED
  BY <1>3, <1>4, <1>5, <1>6, WriteExclusive

\* A step of write depends only on what follows in its own case.
LEMMA WrittenLocal ==
  ASSUME NEW from, NEW to, NEW i, NEW j, Point(from, to, i, j),
         NEW a, NEW b, NEW c, NEW d, NEW e, NEW f,
         Both(from, to, i, j) => a = d,
         Add(from, to, i, j) => b = e,
         Gone(from, to, i, j) => c = f
  PROVE  Written(a, b, c, from, to, i, j) = Written(d, e, f, from, to, i, j)
<1>1. CASE Both(from, to, i, j)
  <2>1. Written(a, b, c, from, to, i, j) = Change(from[i], to[j]) \o a
    BY <1>1, WrittenBoth
  <2>2. Written(d, e, f, from, to, i, j) = Change(from[i], to[j]) \o d
    BY <1>1, WrittenBoth
  <2> QED
    BY <1>1, <2>1, <2>2
<1>2. CASE Add(from, to, i, j)
  <2>1. Written(a, b, c, from, to, i, j) = Put(to[j]) \o b
    BY <1>2, WrittenAdd
  <2>2. Written(d, e, f, from, to, i, j) = Put(to[j]) \o e
    BY <1>2, WrittenAdd
  <2> QED
    BY <1>2, <2>1, <2>2
<1>3. CASE Gone(from, to, i, j)
  <2>1. Written(a, b, c, from, to, i, j) = Removal(from[i]) \o c
    BY <1>3, WrittenGone
  <2>2. Written(d, e, f, from, to, i, j) = Removal(from[i]) \o f
    BY <1>3, WrittenGone
  <2> QED
    BY <1>3, <2>1, <2>2
<1>4. CASE Over(from, to, i, j)
  <2>1. Written(a, b, c, from, to, i, j) = <<>>
    BY <1>4, WrittenOver
  <2>2. Written(d, e, f, from, to, i, j) = <<>>
    BY <1>4, WrittenOver
  <2> QED
    BY <1>4, <2>1, <2>2
<1> QED
  BY <1>1, <1>2, <1>3, <1>4, WriteExclusive

\* WriteEntities(from, to) is the value at <<1, 1>> of a function on the grid that satisfies the
\* equations of write everywhere.
LEMMA WriteRules ==
  ASSUME NEW from \in Seq(EntityState), NEW to \in Seq(EntityState)
  PROVE  \E w \in [Grid(Len(from), Len(to)) -> Seq(Item)] :
           /\ WriteEntities(from, to) = w[<<1, 1>>]
           /\ \A i \in 1 .. Len(from) + 1, j \in 1 .. Len(to) + 1 :
                w[<<i, j>>] = WriteStep(w, from, to, i, j)
<1> DEFINE n == Len(from)
           m == Len(to)
           G == Grid(n, m)
           S == Seq(Item)
           left == Remaining(n, m)
           Step(g, p) == WriteStep(g, from, to, p[1], p[2])
           step == [x \in [G -> S] \X G |-> Step(x[1], x[2])]
           Fits(x, p) == x \in G /\ left[x] < left[p]
<1>1. n \in Nat /\ m \in Nat
  BY LenProperties
<1>2. ASSUME NEW p \in G
      PROVE  \E i, j, a, b, c :
               /\ Point(from, to, i, j)
               /\ \A g : Step(g, p) = Written(g[a], g[b], g[c], from, to, i, j)
               /\ Both(from, to, i, j) => Fits(a, p)
               /\ Add(from, to, i, j) => Fits(b, p)
               /\ Gone(from, to, i, j) => Fits(c, p)
  <2>1. PICK i \in 1 .. n + 1, j \in 1 .. m + 1 : p = <<i, j>>
    BY <1>1, GridPoint
  <2>2. p[1] = i /\ p[2] = j
    BY <2>1
  <2>3. /\ Both(from, to, i, j) => Fits(<<i + 1, j + 1>>, p)
        /\ Add(from, to, i, j) => Fits(<<i, j + 1>>, p)
        /\ Gone(from, to, i, j) => Fits(<<i + 1, j>>, p)
    BY <1>1, <2>1, GridFacts DEF Both, Add, Gone
  <2>4. Point(from, to, i, j)
    BY DEF Point
  <2> HIDE DEF Fits
  <2>5. \A g : Step(g, p) = Written(g[<<i + 1, j + 1>>], g[<<i, j + 1>>], g[<<i + 1, j>>], from, to, i, j)
    BY <2>2 DEF WriteStep
  <2> HIDE DEF Step
  <2> QED
    BY <2>3, <2>4, <2>5, Zenon
<1>3. ASSUME NEW p \in G PROVE left[p] \in 0 .. n + m
  <2>1. PICK i \in 1 .. n + 1, j \in 1 .. m + 1 : p = <<i, j>>
    BY <1>1, GridPoint
  <2> QED
    BY <1>1, <2>1, GridFacts
<1> HIDE DEF n, m, S, G, left, Step
<1>4. ASSUME NEW g \in [G -> S], NEW p \in G
      PROVE  Step(g, p) \in S
  <2>1. \A x : Fits(x, p) => g[x] \in Seq(Item)
    BY DEF S
  <2> HIDE DEF Fits
  <2>2. PICK i, j, a, b, c :
          /\ Point(from, to, i, j)
          /\ \A k : Step(k, p) = Written(k[a], k[b], k[c], from, to, i, j)
          /\ Both(from, to, i, j) => Fits(a, p)
          /\ Add(from, to, i, j) => Fits(b, p)
          /\ Gone(from, to, i, j) => Fits(c, p)
    BY <1>2, Zenon
  <2>3. Written(g[a], g[b], g[c], from, to, i, j) \in Seq(Item)
    BY <2>1, <2>2, WrittenTyped, Zenon
  <2> QED
    BY <2>2, <2>3 DEF S
<1>5. ASSUME NEW g, NEW h, NEW p \in G,
             \A q \in G : left[q] < left[p] => g[q] = h[q]
      PROVE  Step(g, p) = Step(h, p)
  <2>1. \A x : Fits(x, p) => g[x] = h[x]
    BY <1>5
  <2> HIDE DEF Fits
  <2>2. PICK i, j, a, b, c :
          /\ Point(from, to, i, j)
          /\ \A k : Step(k, p) = Written(k[a], k[b], k[c], from, to, i, j)
          /\ Both(from, to, i, j) => Fits(a, p)
          /\ Add(from, to, i, j) => Fits(b, p)
          /\ Gone(from, to, i, j) => Fits(c, p)
    BY <1>2, Zenon
  <2>3. Written(g[a], g[b], g[c], from, to, i, j) = Written(h[a], h[b], h[c], from, to, i, j)
    <3>1. /\ Both(from, to, i, j) => g[a] = h[a]
          /\ Add(from, to, i, j) => g[b] = h[b]
          /\ Gone(from, to, i, j) => g[c] = h[c]
      BY <2>1, <2>2
    <3> QED
      BY <2>2, <3>1, WrittenLocal, SMT
  <2> QED
    BY <2>2, <2>3
<1> HIDE DEF Fits
<1>6. PICK g \in [G -> S] : \A p \in G : g[p] = Step(g, p)
  <2>1. /\ step \in [[G -> S] \X G -> S]
        /\ \A g \in [G -> S], p \in G : step[<<g, p>>] = Step(g, p)
    BY <1>4
  <2>2. ASSUME NEW g \in [G -> S], NEW h \in [G -> S], NEW p \in G,
               \A q \in G : left[q] < left[p] => g[q] = h[q]
        PROVE  step[<<g, p>>] = step[<<h, p>>]
    <3>1. Step(g, p) = Step(h, p)
      BY <1>5, <2>2
    <3> QED
      BY <2>1, <3>1
  <2>3. <<>> \in S
    BY DEF S
  <2>4. Descending(G, S, n + m, left, step)
    <3>1. S # {} /\ n + m \in Nat
      BY <1>1, <2>3
    <3> QED
      BY <1>3, <2>1, <2>2, <3>1 DEF Descending
  <2> HIDE DEF step
  <2>5. Defined(G, S, step)
    BY <2>4, RecursionDefined
  <2> QED
    BY <2>1, <2>5 DEF Defined
<1>7. g = [p \in G |-> Step(g, p)]
  BY <1>6
<1>8. PICK w : w = [p \in G |-> Step(w, p)] /\ WriteEntities(from, to) = w[<<1, 1>>]
  BY <1>7, WriteDefined DEF G, Step, n, m
<1>9. \A p \in G : w[p] = g[p]
  <2> DEFINE T == {p \in G : w[p] = g[p]}
  <2>1. ASSUME NEW p \in G, \A q \in G : left[q] < left[p] => q \in T
        PROVE  p \in T
    <3>1. Step(w, p) = Step(g, p)
      BY <1>5, <2>1
    <3> QED
      BY <1>6, <1>8, <3>1
  <2>2. \A p \in G : left[p] \in Nat
    BY <1>1, <1>3
  <2>3. \A p \in G : p \in T
    <3> HIDE DEF T
    <3> QED
      BY <2>1, <2>2, MeasureInduction
  <2> QED
    BY <2>3
<1>10. w = g
  BY <1>6, <1>8, <1>9
<1>11. ASSUME NEW i \in 1 .. n + 1, NEW j \in 1 .. m + 1
       PROVE  w[<<i, j>>] = WriteStep(w, from, to, i, j)
  <2>1. <<i, j>> \in G
    BY <1>1, GridFacts DEF G
  <2> QED
    BY <1>8, <2>1 DEF Step
<1> QED
  BY <1>8, <1>10, <1>11 DEF G, S, n, m

-------------------------------------------------------------------------------
\* What Cl_ParseEntities reads.

\* The six cases of Cl_ParseEntities at the positions i of from and k of items: the old entity
\* stays, a removal is ignored, the old entity is dropped, replaced, another is inserted before it, or
\* both lists are over.
Keep(from, items, i, k) ==
  i <= Len(from) /\ (~ (k <= Len(items)) \/ from[i].number < items[k].state.number)
Skip(from, items, i, k) ==
  k <= Len(items) /\ items[k].remove /\ ~ (i <= Len(from))
Drop(from, items, i, k) ==
  /\ k <= Len(items) /\ items[k].remove
  /\ i <= Len(from) /\ from[i].number >= items[k].state.number
Replace(from, items, i, k) ==
  /\ k <= Len(items) /\ ~ items[k].remove
  /\ i <= Len(from) /\ from[i].number = items[k].state.number
Insert(from, items, i, k) ==
  /\ k <= Len(items) /\ ~ items[k].remove
  /\ ~ (i <= Len(from)) \/ from[i].number > items[k].state.number
Done(from, items, i, k) == ~ (k <= Len(items)) /\ ~ (i <= Len(from))

\* A list of one state.
Single(s) == <<s>>

\* Positions in a list of states and a list of items.
Place(from, items, i, k) ==
  /\ from \in Seq(EntityState) /\ i \in 1 .. Len(from) + 1
  /\ items \in Seq(Item) /\ k \in 1 .. Len(items) + 1

\* What is parsed from i and k on, where a, b and c are what follows.
Parsed(a, b, c, from, items, i, k) ==
  CASE Keep(from, items, i, k) -> Single(from[i]) \o c
    [] Skip(from, items, i, k) -> b
    [] Drop(from, items, i, k) -> a
    [] Replace(from, items, i, k) -> Single(items[k].state) \o a
    [] Insert(from, items, i, k) -> Single(items[k].state) \o b
    [] Done(from, items, i, k) -> <<>>

\* One unfolding of parse in ParseEntities.
ParseStep(w, from, items, i, k) ==
  Parsed(w[<<i + 1, k + 1>>], w[<<i, k + 1>>], w[<<i + 1, k>>], from, items, i, k)

\* The step of the parse, spelled as in ParseEntities itself.
ParseArms(w, from, items, p) ==
  LET i == p[1]
      j == p[2]
      old == i <= Len(from)
      more == j <= Len(items)
  IN CASE old /\ (~ more \/ from[i].number < items[j].state.number) ->
          <<from[i]>> \o w[<<i + 1, j>>]
     [] more /\ items[j].remove /\ ~ old -> w[<<i, j + 1>>]
     [] more /\ items[j].remove /\ old /\ from[i].number >= items[j].state.number ->
          w[<<i + 1, j + 1>>]
     [] more /\ ~ items[j].remove /\ old /\ from[i].number = items[j].state.number ->
          <<items[j].state>> \o w[<<i + 1, j + 1>>]
     [] more /\ ~ items[j].remove /\ (~ old \/ from[i].number > items[j].state.number) ->
          <<items[j].state>> \o w[<<i, j + 1>>]
     [] ~ more /\ ~ old -> <<>>

\* ParseStep is that step.
LEMMA ParseArmsAreStep ==
  ASSUME NEW w, NEW from, NEW items, NEW p
  PROVE  ParseArms(w, from, items, p) = ParseStep(w, from, items, p[1], p[2])
BY DEF ParseArms, ParseStep, Parsed, Keep, Skip, Drop, Replace, Insert, Done, Single

\* If the equations of parse have a solution, ParseEntities is the value at <<1, 1>> of one.
LEMMA ParseDefined ==
  ASSUME NEW from, NEW items, NEW g,
         g = [p \in Grid(Len(from), Len(items)) |-> ParseStep(g, from, items, p[1], p[2])]
  PROVE  \E w : /\ w = [p \in Grid(Len(from), Len(items)) |-> ParseStep(w, from, items, p[1], p[2])]
                /\ ParseEntities(from, items) = w[<<1, 1>>]
<1> DEFINE F(w) == [p \in Grid(Len(from), Len(items)) |-> ParseStep(w, from, items, p[1], p[2])]
           R(w) == [p \in Grid(Len(from), Len(items)) |-> ParseArms(w, from, items, p)]
           parse == CHOOSE w : w = R(w)
<1>1. ParseEntities(from, items) = parse[<<1, 1>>]
  BY Zenon DEF ParseEntities, ParseArms, Grid
<1>2. \A w : R(w) = F(w)
  BY ParseArmsAreStep
<1>3. g = R(g)
  BY <1>2
<1> HIDE DEF R
<1>4. parse = R(parse)
  BY <1>3
<1> QED
  BY <1>1, <1>2, <1>4

\* The elements of a list of items are items, and their numbers are integers.
LEMMA ItemsAt ==
  ASSUME NEW s \in Seq(Item)
  PROVE  /\ Len(s) \in Nat
         /\ \A k \in 1 .. Len(s) :
              /\ s[k] \in Item /\ s[k].state \in EntityState
              /\ s[k].state.number \in Int /\ s[k].remove \in BOOLEAN
<1>1. \A k \in 1 .. Len(s) : s[k] \in Item
  BY ElementOfSeq
<1>2. \A e \in Item : e.state \in EntityState /\ e.remove \in BOOLEAN
  BY DEF Item
<1>3. \A e \in EntityState : e.number \in Int
  BY SnapshotAssumption DEF EntityState, Entity
<1> QED
  BY <1>1, <1>2, <1>3, LenProperties

\* At each place exactly one of the six cases of Cl_ParseEntities applies.
LEMMA ParseExclusive ==
  ASSUME NEW from, NEW items, NEW i, NEW k, Place(from, items, i, k)
  PROVE  /\ ~ (Keep(from, items, i, k) /\ Skip(from, items, i, k))
         /\ ~ (Keep(from, items, i, k) /\ Drop(from, items, i, k))
         /\ ~ (Keep(from, items, i, k) /\ Replace(from, items, i, k))
         /\ ~ (Keep(from, items, i, k) /\ Insert(from, items, i, k))
         /\ ~ (Keep(from, items, i, k) /\ Done(from, items, i, k))
         /\ ~ (Skip(from, items, i, k) /\ Drop(from, items, i, k))
         /\ ~ (Skip(from, items, i, k) /\ Replace(from, items, i, k))
         /\ ~ (Skip(from, items, i, k) /\ Insert(from, items, i, k))
         /\ ~ (Skip(from, items, i, k) /\ Done(from, items, i, k))
         /\ ~ (Drop(from, items, i, k) /\ Replace(from, items, i, k))
         /\ ~ (Drop(from, items, i, k) /\ Insert(from, items, i, k))
         /\ ~ (Drop(from, items, i, k) /\ Done(from, items, i, k))
         /\ ~ (Replace(from, items, i, k) /\ Insert(from, items, i, k))
         /\ ~ (Replace(from, items, i, k) /\ Done(from, items, i, k))
         /\ ~ (Insert(from, items, i, k) /\ Done(from, items, i, k))
         /\ Keep(from, items, i, k) \/ Skip(from, items, i, k) \/ Drop(from, items, i, k)
            \/ Replace(from, items, i, k) \/ Insert(from, items, i, k) \/ Done(from, items, i, k)
<1>1. /\ Len(from) \in Nat /\ Len(items) \in Nat /\ i \in Nat /\ k \in Nat
      /\ i <= Len(from) => from[i].number \in Int
      /\ k <= Len(items) => items[k].state.number \in Int /\ items[k].remove \in BOOLEAN
  BY StatesAt, ItemsAt DEF Place
<1> QED
  BY <1>1 DEF Keep, Skip, Drop, Replace, Insert, Done

\* An old entity before the next item stays.
LEMMA ParsedKeep ==
  ASSUME NEW from, NEW items, NEW i, NEW k, Place(from, items, i, k), NEW a, NEW b, NEW c,
         Keep(from, items, i, k)
  PROVE  Parsed(a, b, c, from, items, i, k) = Single(from[i]) \o c
  BY ParseExclusive, Zenon DEF Parsed

\* A removal after the last old entity changes nothing.
LEMMA ParsedSkip ==
  ASSUME NEW from, NEW items, NEW i, NEW k, Place(from, items, i, k), NEW a, NEW b, NEW c,
         Skip(from, items, i, k)
  PROVE  Parsed(a, b, c, from, items, i, k) = b
  BY ParseExclusive, Zenon DEF Parsed

\* A removal drops the old entity that is not before it.
LEMMA ParsedDrop ==
  ASSUME NEW from, NEW items, NEW i, NEW k, Place(from, items, i, k), NEW a, NEW b, NEW c,
         Drop(from, items, i, k)
  PROVE  Parsed(a, b, c, from, items, i, k) = a
  BY ParseExclusive, Zenon DEF Parsed

\* The state of an old entity is replaced.
LEMMA ParsedReplace ==
  ASSUME NEW from, NEW items, NEW i, NEW k, Place(from, items, i, k), NEW a, NEW b, NEW c,
         Replace(from, items, i, k)
  PROVE  Parsed(a, b, c, from, items, i, k) = Single(items[k].state) \o a
  BY ParseExclusive, Zenon DEF Parsed

\* An entity before the next old one, or after all of them, is inserted.
LEMMA ParsedInsert ==
  ASSUME NEW from, NEW items, NEW i, NEW k, Place(from, items, i, k), NEW a, NEW b, NEW c,
         Insert(from, items, i, k)
  PROVE  Parsed(a, b, c, from, items, i, k) = Single(items[k].state) \o b
  BY ParseExclusive, Zenon DEF Parsed

\* Nothing is left at the end of both lists.
LEMMA ParsedDone ==
  ASSUME NEW from, NEW items, NEW i, NEW k, Place(from, items, i, k), NEW a, NEW b, NEW c,
         Done(from, items, i, k)
  PROVE  Parsed(a, b, c, from, items, i, k) = <<>>
  BY ParseExclusive, Zenon DEF Parsed

\* A step of parse gives states when what follows it does.
LEMMA ParsedTyped ==
  ASSUME NEW from, NEW items, NEW i, NEW k, Place(from, items, i, k), NEW a, NEW b, NEW c,
         Keep(from, items, i, k) => c \in Seq(EntityState),
         Skip(from, items, i, k) => b \in Seq(EntityState),
         Drop(from, items, i, k) => a \in Seq(EntityState),
         Replace(from, items, i, k) => a \in Seq(EntityState),
         Insert(from, items, i, k) => b \in Seq(EntityState)
  PROVE  Parsed(a, b, c, from, items, i, k) \in Seq(EntityState)
<1>1. /\ i <= Len(from) => from[i] \in EntityState
      /\ k <= Len(items) => items[k].state \in EntityState
  BY StatesAt, ItemsAt DEF Place
<1>2. \A s, t \in Seq(EntityState) : s \o t \in Seq(EntityState)
  BY ConcatProperties
<1>3. \A s \in EntityState : Single(s) \in Seq(EntityState)
  BY Singleton DEF Single
<1>4. <<>> \in Seq(EntityState)
  OBVIOUS
<1>5. CASE Keep(from, items, i, k)
  <2>1. Parsed(a, b, c, from, items, i, k) = Single(from[i]) \o c
    BY <1>5, ParsedKeep
  <2>2. Single(from[i]) \in Seq(EntityState)
    BY <1>1, <1>3, <1>5 DEF Keep
  <2> QED
    BY <1>2, <1>5, <2>1, <2>2, Zenon
<1>6. CASE Skip(from, items, i, k)
  <2>1. Parsed(a, b, c, from, items, i, k) = b
    BY <1>6, ParsedSkip
  <2> QED
    BY <1>6, <2>1
<1>7. CASE Drop(from, items, i, k)
  <2>1. Parsed(a, b, c, from, items, i, k) = a
    BY <1>7, ParsedDrop
  <2> QED
    BY <1>7, <2>1
<1>8. CASE Replace(from, items, i, k)
  <2>1. Parsed(a, b, c, from, items, i, k) = Single(items[k].state) \o a
    BY <1>8, ParsedReplace
  <2>2. Single(items[k].state) \in Seq(EntityState)
    BY <1>1, <1>3, <1>8 DEF Replace
  <2> QED
    BY <1>2, <1>8, <2>1, <2>2, Zenon
<1>9. CASE Insert(from, items, i, k)
  <2>1. Parsed(a, b, c, from, items, i, k) = Single(items[k].state) \o b
    BY <1>9, ParsedInsert
  <2>2. Single(items[k].state) \in Seq(EntityState)
    BY <1>1, <1>3, <1>9 DEF Insert
  <2> QED
    BY <1>2, <1>9, <2>1, <2>2, Zenon
<1>10. CASE Done(from, items, i, k)
  <2>1. Parsed(a, b, c, from, items, i, k) = <<>>
    BY <1>10, ParsedDone
  <2> QED
    BY <1>4, <2>1
<1> QED
  BY <1>5, <1>6, <1>7, <1>8, <1>9, <1>10, ParseExclusive

\* A step of parse depends only on what follows in its own case.
LEMMA ParsedLocal ==
  ASSUME NEW from, NEW items, NEW i, NEW k, Place(from, items, i, k),
         NEW a, NEW b, NEW c, NEW d, NEW e, NEW f,
         Keep(from, items, i, k) => c = f,
         Skip(from, items, i, k) => b = e,
         Drop(from, items, i, k) => a = d,
         Replace(from, items, i, k) => a = d,
         Insert(from, items, i, k) => b = e
  PROVE  Parsed(a, b, c, from, items, i, k) = Parsed(d, e, f, from, items, i, k)
<1>1. CASE Keep(from, items, i, k)
  <2>1. Parsed(a, b, c, from, items, i, k) = Single(from[i]) \o c
    BY <1>1, ParsedKeep
  <2>2. Parsed(d, e, f, from, items, i, k) = Single(from[i]) \o f
    BY <1>1, ParsedKeep
  <2> QED
    BY <1>1, <2>1, <2>2
<1>2. CASE Skip(from, items, i, k)
  <2>1. Parsed(a, b, c, from, items, i, k) = b
    BY <1>2, ParsedSkip
  <2>2. Parsed(d, e, f, from, items, i, k) = e
    BY <1>2, ParsedSkip
  <2> QED
    BY <1>2, <2>1, <2>2
<1>3. CASE Drop(from, items, i, k)
  <2>1. Parsed(a, b, c, from, items, i, k) = a
    BY <1>3, ParsedDrop
  <2>2. Parsed(d, e, f, from, items, i, k) = d
    BY <1>3, ParsedDrop
  <2> QED
    BY <1>3, <2>1, <2>2
<1>4. CASE Replace(from, items, i, k)
  <2>1. Parsed(a, b, c, from, items, i, k) = Single(items[k].state) \o a
    BY <1>4, ParsedReplace
  <2>2. Parsed(d, e, f, from, items, i, k) = Single(items[k].state) \o d
    BY <1>4, ParsedReplace
  <2> QED
    BY <1>4, <2>1, <2>2
<1>5. CASE Insert(from, items, i, k)
  <2>1. Parsed(a, b, c, from, items, i, k) = Single(items[k].state) \o b
    BY <1>5, ParsedInsert
  <2>2. Parsed(d, e, f, from, items, i, k) = Single(items[k].state) \o e
    BY <1>5, ParsedInsert
  <2> QED
    BY <1>5, <2>1, <2>2
<1>6. CASE Done(from, items, i, k)
  <2>1. Parsed(a, b, c, from, items, i, k) = <<>>
    BY <1>6, ParsedDone
  <2>2. Parsed(d, e, f, from, items, i, k) = <<>>
    BY <1>6, ParsedDone
  <2> QED
    BY <1>6, <2>1, <2>2
<1> QED
  BY <1>1, <1>2, <1>3, <1>4, <1>5, <1>6, ParseExclusive

\* ParseEntities(from, items) is the value at <<1, 1>> of a function on the grid that satisfies the
\* equations of parse everywhere.
LEMMA ParseRules ==
  ASSUME NEW from \in Seq(EntityState), NEW items \in Seq(Item)
  PROVE  \E w \in [Grid(Len(from), Len(items)) -> Seq(EntityState)] :
           /\ ParseEntities(from, items) = w[<<1, 1>>]
           /\ \A i \in 1 .. Len(from) + 1, j \in 1 .. Len(items) + 1 :
                w[<<i, j>>] = ParseStep(w, from, items, i, j)
<1> DEFINE n == Len(from)
           m == Len(items)
           G == Grid(n, m)
           S == Seq(EntityState)
           left == Remaining(n, m)
           Step(g, p) == ParseStep(g, from, items, p[1], p[2])
           step == [x \in [G -> S] \X G |-> Step(x[1], x[2])]
           Fits(x, p) == x \in G /\ left[x] < left[p]
<1>1. n \in Nat /\ m \in Nat
  BY LenProperties
<1>2. ASSUME NEW p \in G
      PROVE  \E i, j, a, b, c :
               /\ Place(from, items, i, j)
               /\ \A g : Step(g, p) = Parsed(g[a], g[b], g[c], from, items, i, j)
               /\ Keep(from, items, i, j) => Fits(c, p)
               /\ Skip(from, items, i, j) => Fits(b, p)
               /\ Drop(from, items, i, j) => Fits(a, p)
               /\ Replace(from, items, i, j) => Fits(a, p)
               /\ Insert(from, items, i, j) => Fits(b, p)
  <2>1. PICK i \in 1 .. n + 1, j \in 1 .. m + 1 : p = <<i, j>>
    BY <1>1, GridPoint
  <2>2. p[1] = i /\ p[2] = j
    BY <2>1
  <2>3. /\ Keep(from, items, i, j) => Fits(<<i + 1, j>>, p)
        /\ Skip(from, items, i, j) => Fits(<<i, j + 1>>, p)
        /\ Drop(from, items, i, j) => Fits(<<i + 1, j + 1>>, p)
        /\ Replace(from, items, i, j) => Fits(<<i + 1, j + 1>>, p)
        /\ Insert(from, items, i, j) => Fits(<<i, j + 1>>, p)
    BY <1>1, <2>1, GridFacts DEF Keep, Skip, Drop, Replace, Insert
  <2>4. Place(from, items, i, j)
    BY DEF Place
  <2> HIDE DEF Fits
  <2>5. \A g : Step(g, p) = Parsed(g[<<i + 1, j + 1>>], g[<<i, j + 1>>], g[<<i + 1, j>>], from, items, i, j)
    BY <2>2 DEF ParseStep
  <2> HIDE DEF Step
  <2> QED
    BY <2>3, <2>4, <2>5, Zenon
<1>3. ASSUME NEW p \in G PROVE left[p] \in 0 .. n + m
  <2>1. PICK i \in 1 .. n + 1, j \in 1 .. m + 1 : p = <<i, j>>
    BY <1>1, GridPoint
  <2> QED
    BY <1>1, <2>1, GridFacts
<1> HIDE DEF n, m, S, G, left, Step
<1>4. ASSUME NEW g \in [G -> S], NEW p \in G
      PROVE  Step(g, p) \in S
  <2>1. \A x : Fits(x, p) => g[x] \in Seq(EntityState)
    BY DEF S
  <2> HIDE DEF Fits
  <2>2. PICK i, j, a, b, c :
          /\ Place(from, items, i, j)
          /\ \A k : Step(k, p) = Parsed(k[a], k[b], k[c], from, items, i, j)
          /\ Keep(from, items, i, j) => Fits(c, p)
          /\ Skip(from, items, i, j) => Fits(b, p)
          /\ Drop(from, items, i, j) => Fits(a, p)
          /\ Replace(from, items, i, j) => Fits(a, p)
          /\ Insert(from, items, i, j) => Fits(b, p)
    BY <1>2, Zenon
  <2>3. Parsed(g[a], g[b], g[c], from, items, i, j) \in Seq(EntityState)
    BY <2>1, <2>2, ParsedTyped, Zenon
  <2> QED
    BY <2>2, <2>3 DEF S
<1>5. ASSUME NEW g, NEW h, NEW p \in G,
             \A q \in G : left[q] < left[p] => g[q] = h[q]
      PROVE  Step(g, p) = Step(h, p)
  <2>1. \A x : Fits(x, p) => g[x] = h[x]
    BY <1>5
  <2> HIDE DEF Fits
  <2>2. PICK i, j, a, b, c :
          /\ Place(from, items, i, j)
          /\ \A k : Step(k, p) = Parsed(k[a], k[b], k[c], from, items, i, j)
          /\ Keep(from, items, i, j) => Fits(c, p)
          /\ Skip(from, items, i, j) => Fits(b, p)
          /\ Drop(from, items, i, j) => Fits(a, p)
          /\ Replace(from, items, i, j) => Fits(a, p)
          /\ Insert(from, items, i, j) => Fits(b, p)
    BY <1>2, Zenon
  <2>3. Parsed(g[a], g[b], g[c], from, items, i, j) = Parsed(h[a], h[b], h[c], from, items, i, j)
    <3>1. /\ Keep(from, items, i, j) => g[c] = h[c]
          /\ Skip(from, items, i, j) => g[b] = h[b]
          /\ Drop(from, items, i, j) => g[a] = h[a]
          /\ Replace(from, items, i, j) => g[a] = h[a]
          /\ Insert(from, items, i, j) => g[b] = h[b]
      BY <2>1, <2>2
    <3> QED
      BY <2>2, <3>1, ParsedLocal, SMT
  <2> QED
    BY <2>2, <2>3
<1> HIDE DEF Fits
<1>6. PICK g \in [G -> S] : \A p \in G : g[p] = Step(g, p)
  <2>1. /\ step \in [[G -> S] \X G -> S]
        /\ \A g \in [G -> S], p \in G : step[<<g, p>>] = Step(g, p)
    BY <1>4
  <2>2. ASSUME NEW g \in [G -> S], NEW h \in [G -> S], NEW p \in G,
               \A q \in G : left[q] < left[p] => g[q] = h[q]
        PROVE  step[<<g, p>>] = step[<<h, p>>]
    <3>1. Step(g, p) = Step(h, p)
      BY <1>5, <2>2
    <3> QED
      BY <2>1, <3>1
  <2>3. <<>> \in S
    BY DEF S
  <2>4. Descending(G, S, n + m, left, step)
    <3>1. S # {} /\ n + m \in Nat
      BY <1>1, <2>3
    <3> QED
      BY <1>3, <2>1, <2>2, <3>1 DEF Descending
  <2> HIDE DEF step
  <2>5. Defined(G, S, step)
    BY <2>4, RecursionDefined
  <2> QED
    BY <2>1, <2>5 DEF Defined
<1>7. g = [p \in G |-> Step(g, p)]
  BY <1>6
<1>8. PICK w : w = [p \in G |-> Step(w, p)] /\ ParseEntities(from, items) = w[<<1, 1>>]
  BY <1>7, ParseDefined DEF G, Step, n, m
<1>9. \A p \in G : w[p] = g[p]
  <2> DEFINE T == {p \in G : w[p] = g[p]}
  <2>1. ASSUME NEW p \in G, \A q \in G : left[q] < left[p] => q \in T
        PROVE  p \in T
    <3>1. Step(w, p) = Step(g, p)
      BY <1>5, <2>1
    <3> QED
      BY <1>6, <1>8, <3>1
  <2>2. \A p \in G : left[p] \in Nat
    BY <1>1, <1>3
  <2>3. \A p \in G : p \in T
    <3> HIDE DEF T
    <3> QED
      BY <2>1, <2>2, MeasureInduction
  <2> QED
    BY <2>3
<1>10. w = g
  BY <1>6, <1>8, <1>9
<1>11. ASSUME NEW i \in 1 .. n + 1, NEW j \in 1 .. m + 1
       PROVE  w[<<i, j>>] = ParseStep(w, from, items, i, j)
  <2>1. <<i, j>> \in G
    BY <1>1, GridFacts DEF G
  <2> QED
    BY <1>8, <2>1 DEF Step
<1> QED
  BY <1>8, <1>10, <1>11 DEF G, S, n, m

-------------------------------------------------------------------------------
\* Parsing undoes writing.

\* The states s are in the order of their numbers, each number once.
Sorted(s) ==
  /\ s \in Seq(EntityState)
  /\ \A i, j \in 1 .. Len(s) : i < j => s[i].number < s[j].number

\* What is left of s from j on.
From(s, j) == SubSeq(s, j, Len(s))

\* From k on, the items are those of v.
Follows(items, k, v) ==
  /\ Len(v) = Len(items) + 1 - k
  /\ \A t \in 1 .. Len(v) : items[(k - 1) + t] = v[t]

\* What is left of a list is its next element and what is left after that.
LEMMA FromFacts ==
  ASSUME NEW s \in Seq(EntityState)
  PROVE  /\ From(s, 1) = s
         /\ From(s, Len(s) + 1) = <<>>
         /\ \A j \in 1 .. Len(s) : From(s, j) = Single(s[j]) \o From(s, j + 1)
<1>1. Len(s) \in Nat
  BY LenProperties
<1>2. From(s, 1) = s
  BY DEF From
<1>3. From(s, Len(s) + 1) = <<>>
  BY <1>1 DEF From
<1>4. ASSUME NEW j \in 1 .. Len(s)
      PROVE  From(s, j) = Single(s[j]) \o From(s, j + 1)
  BY <1>1 DEF From, Single
<1> QED
  BY <1>2, <1>3, <1>4

\* When the items from k on are x and then v, x is the item at k and v follows.
LEMMA FollowsFacts ==
  ASSUME NEW items \in Seq(Item), NEW v \in Seq(Item), NEW k \in 1 .. Len(items) + 1, NEW x \in Item
  PROVE  /\ Follows(items, k, <<>>) => k = Len(items) + 1
         /\ Follows(items, k, Single(x) \o v) =>
              k <= Len(items) /\ items[k] = x /\ Follows(items, k + 1, v)
         /\ Follows(items, k, v) /\ k <= Len(items) => v # <<>> /\ items[k] = v[1]
<1>1. Len(items) \in Nat /\ Len(v) \in Nat
  BY LenProperties
<1>2. Follows(items, k, <<>>) => k = Len(items) + 1
  BY <1>1 DEF Follows
<1>3. ASSUME Follows(items, k, Single(x) \o v)
      PROVE  k <= Len(items) /\ items[k] = x /\ Follows(items, k + 1, v)
  <2> DEFINE u == Single(x) \o v
  <2>1. /\ u \in Seq(Item) /\ Len(u) = 1 + Len(v) /\ u[1] = x
        /\ \A t \in 1 .. Len(v) : u[t + 1] = v[t]
    BY <1>1 DEF Single
  <2> HIDE DEF u
  <2>2. Len(u) = Len(items) + 1 - k /\ \A t \in 1 .. Len(u) : items[(k - 1) + t] = u[t]
    BY <1>3 DEF Follows, u
  <2>3. 1 \in 1 .. Len(u) /\ (k - 1) + 1 = k
    BY <1>1, <2>1
  <2>4. items[k] = x
    BY <2>1, <2>2, <2>3
  <2>5. ASSUME NEW t \in 1 .. Len(v) PROVE items[((k + 1) - 1) + t] = v[t]
    <3>1. t + 1 \in 1 .. Len(u) /\ (k - 1) + (t + 1) = ((k + 1) - 1) + t
      BY <1>1, <2>1
    <3> QED
      BY <2>1, <2>2, <3>1
  <2> QED
    BY <1>1, <2>1, <2>2, <2>4, <2>5 DEF Follows
<1>4. Follows(items, k, v) /\ k <= Len(items) => v # <<>> /\ items[k] = v[1]
  <2>1. ASSUME Follows(items, k, v), k <= Len(items) PROVE v # <<>> /\ items[k] = v[1]
    <3>1. Len(v) >= 1 /\ 1 \in 1 .. Len(v) /\ (k - 1) + 1 = k
      BY <1>1, <2>1 DEF Follows
    <3> QED
      BY <2>1, <3>1 DEF Follows
  <2> QED
    BY <2>1
<1> QED
  BY <1>2, <1>3, <1>4

\* The first item after a write of s is about s.
LEMMA PutFacts ==
  ASSUME NEW s \in EntityState, NEW v \in Seq(Item)
  PROVE  /\ (Put(s) \o v)[1].state = s
         /\ (Removal(s) \o v)[1].state = s
         /\ <<>> \o v = v
<1>1. \A x \in Item : (<<x>> \o v)[1] = x
  OBVIOUS
<1>2. /\ [state |-> s, remove |-> FALSE] \in Item
      /\ [state |-> s, remove |-> TRUE] \in Item
  BY DEF Item
<1>3. /\ (Put(s) \o v)[1] = [state |-> s, remove |-> FALSE]
      /\ (Removal(s) \o v)[1] = [state |-> s, remove |-> TRUE]
  BY <1>1, <1>2, Zenon DEF Put, Removal
<1> QED
  BY <1>3

\* The same, of the items that are written for an entity.
LEMMA FollowsPut ==
  ASSUME NEW items \in Seq(Item), NEW v \in Seq(Item), NEW k \in 1 .. Len(items) + 1,
         NEW s \in EntityState
  PROVE  /\ Follows(items, k, Put(s) \o v) =>
              /\ k <= Len(items) /\ Follows(items, k + 1, v)
              /\ items[k].state = s /\ ~ items[k].remove
         /\ Follows(items, k, Removal(s) \o v) =>
              /\ k <= Len(items) /\ Follows(items, k + 1, v)
              /\ items[k].state = s /\ items[k].remove
<1>1. /\ [state |-> s, remove |-> FALSE] \in Item
      /\ [state |-> s, remove |-> TRUE] \in Item
  BY DEF Item
<1>2. /\ Put(s) = Single([state |-> s, remove |-> FALSE])
      /\ Removal(s) = Single([state |-> s, remove |-> TRUE])
  BY DEF Put, Removal, Single
<1>3. ASSUME Follows(items, k, Put(s) \o v)
      PROVE  /\ k <= Len(items) /\ Follows(items, k + 1, v)
             /\ items[k] = [state |-> s, remove |-> FALSE]
  BY <1>1, <1>2, <1>3, FollowsFacts
<1>4. ASSUME Follows(items, k, Removal(s) \o v)
      PROVE  /\ k <= Len(items) /\ Follows(items, k + 1, v)
             /\ items[k] = [state |-> s, remove |-> TRUE]
  BY <1>1, <1>2, <1>4, FollowsFacts
<1> QED
  BY <1>3, <1>4

\* The first item that is written from i and j on is not before the states that are there.
LEMMA HeadBound ==
  ASSUME NEW from \in Seq(EntityState), NEW to \in Seq(EntityState), Sorted(from), Sorted(to),
         NEW w \in [Grid(Len(from), Len(to)) -> Seq(Item)],
         \A i \in 1 .. Len(from) + 1, j \in 1 .. Len(to) + 1 :
           w[<<i, j>>] = WriteStep(w, from, to, i, j)
  PROVE  \A p \in Grid(Len(from), Len(to)) : \A x \in Int :
           /\ p[1] <= Len(from) => from[p[1]].number >= x
           /\ p[2] <= Len(to) => to[p[2]].number >= x
           /\ w[p] # <<>>
           => w[p][1].state.number >= x
<1> DEFINE n == Len(from)
           m == Len(to)
           G == Grid(n, m)
           left == Remaining(n, m)
           Bound(i, j, x) == /\ i <= n => from[i].number >= x
                             /\ j <= m => to[j].number >= x
           T == {p \in G : \A x \in Int :
                   Bound(p[1], p[2], x) /\ w[p] # <<>> => w[p][1].state.number >= x}
<1>1. n \in Nat /\ m \in Nat
  BY LenProperties
<1>2. ASSUME NEW p \in G, \A q \in G : left[q] < left[p] => q \in T
      PROVE  p \in T
  <2>1. PICK i \in 1 .. n + 1, j \in 1 .. m + 1 : p = <<i, j>>
    BY <1>1, GridPoint
  <2>2. p[1] = i /\ p[2] = j
    BY <2>1
  <2>3. Point(from, to, i, j)
    BY DEF Point
  <2>4. SUFFICES ASSUME NEW x \in Int, Bound(i, j, x), w[p] # <<>>
                 PROVE  w[p][1].state.number >= x
    BY <2>2
  <2> DEFINE a == w[<<i + 1, j + 1>>]
             b == w[<<i, j + 1>>]
             c == w[<<i + 1, j>>]
  <2>5. w[p] = Written(a, b, c, from, to, i, j)
    BY <2>1 DEF WriteStep
  <2>6. /\ Both(from, to, i, j) => <<i + 1, j + 1>> \in G /\ left[<<i + 1, j + 1>>] < left[p]
        /\ Add(from, to, i, j) => <<i, j + 1>> \in G
        /\ Gone(from, to, i, j) => <<i + 1, j>> \in G
    BY <1>1, <2>1, GridFacts DEF Both, Add, Gone
  <2>7. /\ Both(from, to, i, j) => a \in Seq(Item)
        /\ Add(from, to, i, j) => b \in Seq(Item)
        /\ Gone(from, to, i, j) => c \in Seq(Item)
    BY <2>6
  <2>8. /\ i <= n => from[i] \in EntityState /\ from[i].number \in Int
        /\ j <= m => to[j] \in EntityState /\ to[j].number \in Int
    BY StatesAt
  <2>9. Both(from, to, i, j) /\ a # <<>> => a[1].state.number >= x
    <3>1. SUFFICES ASSUME Both(from, to, i, j), a # <<>> PROVE a[1].state.number >= x
      OBVIOUS
    <3>2. Bound(i + 1, j + 1, x)
      BY <1>1, <2>4, <2>8, <3>1, StatesAt, SMTT(30) DEF Both, Sorted
    <3>3. <<i + 1, j + 1>> \in T
      BY <1>2, <2>6, <3>1
    <3> QED
      BY <3>1, <3>2, <3>3
  <2> HIDE DEF a, b, c, T, G, left
  <2>10. CASE Both(from, to, i, j)
    <3>1. w[p] = Change(from[i], to[j]) \o a
      BY <2>3, <2>5, <2>10, WrittenBoth
    <3>2. CASE from[i] = to[j]
      <4>1. w[p] = a
        BY <2>7, <2>8, <2>10, <3>1, <3>2, PutFacts DEF Change, Both
      <4> QED
        BY <2>4, <2>9, <2>10, <4>1
    <3>3. CASE from[i] # to[j]
      <4>1. w[p] = Put(to[j]) \o a
        BY <3>1, <3>3 DEF Change
      <4>2. to[j] \in EntityState /\ a \in Seq(Item)
        BY <2>7, <2>8, <2>10 DEF Both
      <4>3. (Put(to[j]) \o a)[1].state = to[j]
        BY <4>2, PutFacts
      <4> QED
        BY <2>4, <2>10, <4>1, <4>3 DEF Both
    <3> QED
      BY <3>2, <3>3
  <2>11. CASE Add(from, to, i, j)
    <3>1. w[p] = Put(to[j]) \o b
      BY <2>3, <2>5, <2>11, WrittenAdd
    <3>2. to[j] \in EntityState /\ b \in Seq(Item)
      BY <2>7, <2>8, <2>11 DEF Add
    <3>3. (Put(to[j]) \o b)[1].state = to[j]
      BY <3>2, PutFacts
    <3> QED
      BY <2>4, <2>11, <3>1, <3>3 DEF Add
  <2>12. CASE Gone(from, to, i, j)
    <3>1. w[p] = Removal(from[i]) \o c
      BY <2>3, <2>5, <2>12, WrittenGone
    <3>2. from[i] \in EntityState /\ c \in Seq(Item)
      BY <2>7, <2>8, <2>12 DEF Gone
    <3>3. (Removal(from[i]) \o c)[1].state = from[i]
      BY <3>2, PutFacts
    <3> QED
      BY <2>4, <2>12, <3>1, <3>3 DEF Gone
  <2>13. CASE Over(from, to, i, j)
    BY <2>3, <2>4, <2>5, <2>13, WrittenOver
  <2> QED
    BY <2>3, <2>10, <2>11, <2>12, <2>13, WriteExclusive
<1>3. ASSUME NEW p \in G PROVE left[p] \in 0 .. n + m
  <2>1. PICK i \in 1 .. n + 1, j \in 1 .. m + 1 : p = <<i, j>>
    BY <1>1, GridPoint
  <2> QED
    BY <1>1, <2>1, GridFacts
<1>4. \A p \in G : p \in T
  <2>1. \A p \in G : left[p] \in Nat
    BY <1>1, <1>3
  <2> HIDE DEF T, G, left
  <2> QED
    BY <1>2, <2>1, MeasureInduction
<1> QED
  BY <1>4

\* All the items are the items from the first on.
LEMMA FollowsAll ==
  ASSUME NEW items \in Seq(Item)
  PROVE  Follows(items, 1, items)
  BY LenProperties DEF Follows

\* The next state of a sorted list has a greater number.
LEMMA SortedNext ==
  ASSUME NEW s, Sorted(s), NEW j \in 1 .. Len(s), j + 1 <= Len(s)
  PROVE  s[j + 1].number >= s[j].number + 1
<1>1. s \in Seq(EntityState) /\ Len(s) \in Nat
  BY LenProperties DEF Sorted
<1>2. j + 1 \in 1 .. Len(s) /\ j < j + 1
  BY <1>1
<1>3. s[j].number \in Int /\ s[j + 1].number \in Int
  BY <1>1, <1>2, StatesAt
<1>4. s[j].number < s[j + 1].number
  BY <1>2 DEF Sorted
<1> QED
  BY <1>3, <1>4

\* The merge of Cl_ParseEntities undoes that of Sv_WriteEntities: for any two lists of states in
\* the order of their numbers, what the server writes of the difference takes the client from the one
\* to the other.
THEOREM ParseWritten ==
  ASSUME NEW from, NEW to, Sorted(from), Sorted(to)
  PROVE  /\ WriteEntities(from, to) \in Seq(Item)
         /\ ParseEntities(from, WriteEntities(from, to)) = to
<1>0. from \in Seq(EntityState) /\ to \in Seq(EntityState)
  BY DEF Sorted
<1> DEFINE n == Len(from)
           m == Len(to)
           G == Grid(n, m)
           left == Remaining(n, m)
           items == WriteEntities(from, to)
<1>1. n \in Nat /\ m \in Nat
  BY <1>0, LenProperties
<1>2. PICK w \in [G -> Seq(Item)] :
        /\ items = w[<<1, 1>>]
        /\ \A i \in 1 .. n + 1, j \in 1 .. m + 1 : w[<<i, j>>] = WriteStep(w, from, to, i, j)
  BY <1>0, WriteRules
<1>3. items \in Seq(Item)
  <2>1. <<1, 1>> \in G
    <3>1. 1 \in 1 .. n + 1 /\ 1 \in 1 .. m + 1
      BY <1>1
    <3> QED
      BY <1>1, <3>1, GridFacts
  <2> QED
    BY <1>2, <2>1
<1> HIDE DEF items
<1>4. PICK P \in [Grid(n, Len(items)) -> Seq(EntityState)] :
        /\ ParseEntities(from, items) = P[<<1, 1>>]
        /\ \A i \in 1 .. n + 1, k \in 1 .. Len(items) + 1 :
             P[<<i, k>>] = ParseStep(P, from, items, i, k)
  BY <1>0, <1>3, ParseRules
<1>5. \A p \in G : \A x \in Int :
        /\ p[1] <= n => from[p[1]].number >= x
        /\ p[2] <= m => to[p[2]].number >= x
        /\ w[p] # <<>>
        => w[p][1].state.number >= x
  BY <1>0, <1>2, HeadBound
<1> DEFINE Decodes(i, j) == \A k \in 1 .. Len(items) + 1 :
             Follows(items, k, w[<<i, j>>]) => P[<<i, k>>] = From(to, j)
           T == {p \in G : Decodes(p[1], p[2])}
<1>6. ASSUME NEW p \in G, \A q \in G : left[q] < left[p] => q \in T
      PROVE  p \in T
  <2>1. PICK i \in 1 .. n + 1, j \in 1 .. m + 1 : p = <<i, j>>
    BY <1>1, GridPoint
  <2>2. p[1] = i /\ p[2] = j
    BY <2>1
  <2>3. Point(from, to, i, j)
    BY <1>0 DEF Point
  <2> DEFINE a == w[<<i + 1, j + 1>>]
             b == w[<<i, j + 1>>]
             c == w[<<i + 1, j>>]
  <2>4. w[<<i, j>>] = Written(a, b, c, from, to, i, j)
    BY <1>2 DEF WriteStep
  <2>5. /\ Both(from, to, i, j) => <<i + 1, j + 1>> \in G /\ left[<<i + 1, j + 1>>] < left[p]
        /\ Add(from, to, i, j) => <<i, j + 1>> \in G /\ left[<<i, j + 1>>] < left[p]
        /\ Gone(from, to, i, j) => <<i + 1, j>> \in G /\ left[<<i + 1, j>>] < left[p]
    BY <1>1, <2>1, GridFacts DEF Both, Add, Gone
  <2>6. /\ Both(from, to, i, j) => a \in Seq(Item)
        /\ Add(from, to, i, j) => b \in Seq(Item)
        /\ Gone(from, to, i, j) => c \in Seq(Item)
    BY <1>2, <2>5
  <2>7. /\ i <= n => from[i] \in EntityState /\ from[i].number \in Int
        /\ j <= m => to[j] \in EntityState /\ to[j].number \in Int
    BY <1>0, StatesAt
  <2>8. /\ j <= m => From(to, j) = Single(to[j]) \o From(to, j + 1)
        /\ ~ (j <= m) => From(to, j) = <<>>
    <3>1. j <= m => j \in 1 .. m
      BY <1>1
    <3>2. ~ (j <= m) => j = m + 1
      BY <1>1
    <3> QED
      BY <1>0, <3>1, <3>2, FromFacts
  <2>9. SUFFICES ASSUME NEW k \in 1 .. Len(items) + 1, Follows(items, k, w[<<i, j>>])
                 PROVE  P[<<i, k>>] = From(to, j)
    BY <2>2
  <2>10. Place(from, items, i, k)
    BY <1>0, <1>3 DEF Place
  <2> DEFINE d == P[<<i + 1, k + 1>>]
             e == P[<<i, k + 1>>]
             f == P[<<i + 1, k>>]
  <2>11. P[<<i, k>>] = Parsed(d, e, f, from, items, i, k)
    BY <1>4 DEF ParseStep
  <2>12. Len(items) \in Nat /\ (k <= Len(items) => k + 1 \in 1 .. Len(items) + 1)
    BY <1>3, LenProperties
  <2>14. Both(from, to, i, j) => Decodes(i + 1, j + 1)
    BY <1>6, <2>5
  <2>15. Add(from, to, i, j) => Decodes(i, j + 1)
    BY <1>6, <2>5
  <2>16. Gone(from, to, i, j) => Decodes(i + 1, j)
    BY <1>6, <2>5
  <2>17. Both(from, to, i, j) =>
           /\ Follows(items, k, a) => f = From(to, j + 1)
           /\ k <= Len(items) /\ Follows(items, k + 1, a) => d = From(to, j + 1)
    BY <2>12, <2>14
  <2>18. Add(from, to, i, j) =>
           (k <= Len(items) /\ Follows(items, k + 1, b) => e = From(to, j + 1))
    BY <2>12, <2>15
  <2>19. Gone(from, to, i, j) =>
           (k <= Len(items) /\ Follows(items, k + 1, c) => d = From(to, j))
    BY <2>12, <2>16
  <2>13. Both(from, to, i, j) /\ a # <<>> => a[1].state.number >= from[i].number + 1
    <3>1. SUFFICES ASSUME Both(from, to, i, j), a # <<>>
                   PROVE a[1].state.number >= from[i].number + 1
      OBVIOUS
    <3>4. i \in 1 .. n /\ j \in 1 .. m /\ from[i].number = to[j].number
      BY <1>1, <3>1 DEF Both
    <3>5. i + 1 <= n => from[i + 1].number >= from[i].number + 1
      BY <3>4, SortedNext
    <3>6. j + 1 <= m => to[j + 1].number >= to[j].number + 1
      BY <3>4, SortedNext
    <3>7. from[i].number + 1 \in Int
      BY <1>1, <2>7, <3>4
    <3>2. /\ i + 1 <= n => from[i + 1].number >= from[i].number + 1
          /\ j + 1 <= m => to[j + 1].number >= from[i].number + 1
          /\ from[i].number + 1 \in Int
      BY <3>4, <3>5, <3>6, <3>7
    <3>3. <<i + 1, j + 1>> \in G
      BY <2>5, <3>1
    <3> QED
      BY <1>5, <3>1, <3>2, <3>3
  <2> HIDE DEF a, b, c, d, e, f, T, G, left, Decodes
  <2>20. CASE Both(from, to, i, j)
    <3>0. /\ a \in Seq(Item) /\ from[i] \in EntityState /\ to[j] \in EntityState
          /\ from[i].number \in Int /\ from[i].number = to[j].number /\ i <= n /\ j <= m
      BY <2>6, <2>7, <2>20 DEF Both
    <3>1. w[<<i, j>>] = Change(from[i], to[j]) \o a
      BY <2>3, <2>4, <2>20, WrittenBoth
    <3>2. CASE from[i] = to[j]
      <4>1. Change(from[i], to[j]) \o a = a
        BY <3>0, <3>2, PutFacts DEF Change
      <4>2. Follows(items, k, a)
        BY <2>9, <3>1, <4>1
      <4>3. k <= Len(items) => a # <<>> /\ items[k] = a[1]
        BY <1>3, <3>0, <4>2, FollowsFacts
      <4>4. k <= Len(items) => items[k].state.number \in Int
        BY <1>3, ItemsAt
      <4>5. k <= Len(items) => items[k].state.number >= from[i].number + 1
        BY <2>13, <2>20, <4>3
      <4>6. Keep(from, items, i, k)
        BY <3>0, <4>4, <4>5, SMTT(30) DEF Keep
      <4>7. P[<<i, k>>] = Single(from[i]) \o f
        BY <2>10, <2>11, <4>6, ParsedKeep, SMTT(30)
      <4>8. f = From(to, j + 1)
        BY <2>17, <2>20, <4>2
      <4> QED
        BY <2>8, <3>0, <3>2, <4>7, <4>8
    <3>3. CASE from[i] # to[j]
      <4>1. w[<<i, j>>] = Put(to[j]) \o a
        BY <3>1, <3>3 DEF Change
      <4>2. /\ k <= Len(items) /\ Follows(items, k + 1, a)
            /\ items[k].state = to[j] /\ ~ items[k].remove
        <5>1. Follows(items, k, Put(to[j]) \o a)
          BY <2>9, <4>1
        <5> QED
          BY <1>3, <3>0, <5>1, FollowsPut
      <4>3. Replace(from, items, i, k)
        BY <3>0, <4>2 DEF Replace
      <4>4. P[<<i, k>>] = Single(items[k].state) \o d
        BY <2>10, <2>11, <4>3, ParsedReplace
      <4>5. d = From(to, j + 1)
        BY <2>17, <2>20, <4>2
      <4> QED
        BY <2>8, <3>0, <4>2, <4>4, <4>5
    <3> QED
      BY <3>2, <3>3
  <2>21. CASE Add(from, to, i, j)
    <3>1. /\ b \in Seq(Item) /\ to[j] \in EntityState /\ to[j].number \in Int /\ j <= m
          /\ i <= n => to[j].number < from[i].number /\ from[i].number \in Int
      BY <2>6, <2>7, <2>21 DEF Add
    <3>2. w[<<i, j>>] = Put(to[j]) \o b
      BY <2>3, <2>4, <2>21, WrittenAdd
    <3>3. /\ k <= Len(items) /\ Follows(items, k + 1, b)
          /\ items[k].state = to[j] /\ ~ items[k].remove
      BY <1>3, <2>9, <3>1, <3>2, FollowsPut, SMTT(30)
    <3>4. Insert(from, items, i, k)
      BY <3>1, <3>3 DEF Insert
    <3>5. P[<<i, k>>] = Single(items[k].state) \o e
      BY <2>10, <2>11, <3>4, ParsedInsert
    <3>6. e = From(to, j + 1)
      BY <2>18, <2>21, <3>3
    <3> QED
      BY <2>8, <3>1, <3>3, <3>5, <3>6
  <2>22. CASE Gone(from, to, i, j)
    <3>1. c \in Seq(Item) /\ from[i] \in EntityState /\ from[i].number \in Int /\ i <= n
      BY <2>6, <2>7, <2>22 DEF Gone
    <3>2. w[<<i, j>>] = Removal(from[i]) \o c
      BY <2>3, <2>4, <2>22, WrittenGone
    <3>3. /\ k <= Len(items) /\ Follows(items, k + 1, c)
          /\ items[k].state = from[i] /\ items[k].remove
      BY <1>3, <2>9, <3>1, <3>2, FollowsPut, SMTT(30)
    <3>4. Drop(from, items, i, k)
      BY <3>1, <3>3 DEF Drop
    <3>5. P[<<i, k>>] = d
      BY <2>10, <2>11, <3>4, ParsedDrop
    <3> QED
      BY <2>19, <2>22, <3>3, <3>5
  <2>23. CASE Over(from, to, i, j)
    <3>1. w[<<i, j>>] = <<>>
      BY <2>3, <2>4, <2>23, WrittenOver
    <3>2. k = Len(items) + 1
      BY <1>3, <2>9, <3>1, FollowsFacts
    <3>3. Done(from, items, i, k)
      BY <2>12, <2>23, <3>2 DEF Over, Done
    <3>4. P[<<i, k>>] = <<>>
      BY <2>10, <2>11, <3>3, ParsedDone
    <3> QED
      BY <2>8, <2>23, <3>4 DEF Over
  <2> QED
    BY <2>3, <2>20, <2>21, <2>22, <2>23, WriteExclusive
<1>7. ASSUME NEW p \in G PROVE left[p] \in Nat
  <2>1. PICK i \in 1 .. n + 1, j \in 1 .. m + 1 : p = <<i, j>>
    BY <1>1, GridPoint
  <2>2. left[p] \in 0 .. n + m
    BY <1>1, <2>1, GridFacts
  <2> QED
    BY <1>1, <2>2
<1>8. \A p \in G : p \in T
  <2> HIDE DEF T, G, left
  <2> QED
    BY <1>6, <1>7, MeasureInduction
<1>9. Decodes(1, 1)
  <2>1. <<1, 1>> \in G
    <3>1. 1 \in 1 .. n + 1 /\ 1 \in 1 .. m + 1
      BY <1>1
    <3> QED
      BY <1>1, <3>1, GridFacts
  <2> QED
    BY <1>8, <2>1
<1>10. Follows(items, 1, w[<<1, 1>>])
  BY <1>2, <1>3, FollowsAll
<1>11. P[<<1, 1>>] = From(to, 1)
  <2>1. 1 \in 1 .. Len(items) + 1
    BY <1>3, LenProperties
  <2> QED
    BY <1>9, <1>10, <2>1
<1> QED
  BY <1>0, <1>3, <1>4, <1>11, FromFacts DEF items

-------------------------------------------------------------------------------
\* What Sv_BuildClientFrame builds.

\* One unfolding of built in Built.
BuiltStep(w, n) ==
  IF n = 0 THEN <<>>
  ELSE IF world[n - 1] = 0 THEN w[n - 1]
  ELSE Append(w[n - 1], [number |-> n - 1, value |-> world[n - 1]])

\* If the equations of built have a solution, Built is the value at MAX_ENTITIES of one.
LEMMA BuiltDefined ==
  ASSUME NEW g, g = [n \in 0 .. MAX_ENTITIES |-> BuiltStep(g, n)]
  PROVE  \E w : /\ w = [n \in 0 .. MAX_ENTITIES |-> BuiltStep(w, n)]
                /\ Built = w[MAX_ENTITIES]
  BY DEF Built, BuiltStep

\* What Append adds and what it leaves.
LEMMA AppendFacts ==
  ASSUME NEW s \in Seq(EntityState), NEW e \in EntityState
  PROVE  /\ Append(s, e) \in Seq(EntityState)
         /\ Len(Append(s, e)) = Len(s) + 1
         /\ Append(s, e)[Len(s) + 1] = e
         /\ \A i \in 1 .. Len(s) : Append(s, e)[i] = s[i]
  BY AppendProperties

\* The states s are those of entities before n.
Below(s, n) == Sorted(s) /\ Len(s) <= n /\ \A i \in 1 .. Len(s) : s[i].number < n

\* States before n are before n + 1.
LEMMA BelowNext ==
  ASSUME NEW s, NEW n \in Nat, Below(s, n)
  PROVE  Below(s, n + 1)
<1>1. s \in Seq(EntityState) /\ Len(s) \in Nat
  BY LenProperties DEF Below, Sorted
<1>2. \A i \in 1 .. Len(s) : s[i].number \in Int
  BY <1>1, StatesAt
<1> QED
  BY <1>1, <1>2 DEF Below

\* The state of entity n may be added to those before n.
LEMMA BelowAppend ==
  ASSUME NEW s, NEW n \in Nat, Below(s, n), NEW e \in EntityState, e.number = n
  PROVE  Below(Append(s, e), n + 1)
<1>1. s \in Seq(EntityState) /\ Len(s) \in Nat
  BY LenProperties DEF Below, Sorted
<1>2. \A i \in 1 .. Len(s) : s[i].number \in Int
  BY <1>1, StatesAt
<1> DEFINE t == Append(s, e)
<1>3. /\ t \in Seq(EntityState) /\ Len(t) = Len(s) + 1 /\ t[Len(s) + 1] = e
      /\ \A i \in 1 .. Len(s) : t[i] = s[i]
  BY <1>1, AppendFacts
<1> HIDE DEF t
<1>4. ASSUME NEW i \in 1 .. Len(t)
      PROVE  /\ t[i].number < n + 1
             /\ \A j \in 1 .. Len(t) : i < j => t[i].number < t[j].number
  <2>1. CASE i \in 1 .. Len(s)
    <3>1. t[i].number < n /\ t[i].number \in Int
      BY <1>2, <1>3, <2>1 DEF Below
    <3>2. ASSUME NEW j \in 1 .. Len(t), i < j PROVE t[i].number < t[j].number
      <4>1. CASE j \in 1 .. Len(s)
        BY <1>3, <2>1, <3>2, <4>1 DEF Below, Sorted
      <4>2. CASE j \notin 1 .. Len(s)
        <5>1. j = Len(s) + 1
          BY <1>1, <1>3, <4>2
        <5> QED
          BY <1>3, <3>1, <5>1
      <4> QED
        BY <4>1, <4>2
    <3> QED
      BY <3>1, <3>2
  <2>2. CASE i \notin 1 .. Len(s)
    <3>1. i = Len(s) + 1
      BY <1>1, <1>3, <2>2
    <3>2. \A j \in 1 .. Len(t) : ~ (i < j)
      BY <1>1, <1>3, <3>1
    <3> QED
      BY <1>3, <3>1, <3>2
  <2> QED
    BY <2>1, <2>2
<1>5. Len(t) <= n + 1
  BY <1>1, <1>3 DEF Below
<1> QED
  BY <1>3, <1>4, <1>5 DEF Below, Sorted, t

\* The empty list is sorted and before everything.
LEMMA BelowNone ==
  Sorted(<<>>) /\ Below(<<>>, 0)
<1>1. <<>> \in Seq(EntityState) /\ Len(<<>>) = 0
  OBVIOUS
<1>2. 1 .. Len(<<>>) = {}
  BY <1>1
<1> QED
  BY <1>1, <1>2 DEF Below, Sorted

\* Sv_BuildClientFrame lists the visible entities in the order of their numbers, each once.
LEMMA BuiltBelow ==
  ASSUME world \in [Entity -> Value \cup {0}]
  PROVE  Below(Built, MAX_ENTITIES)
<1> DEFINE D == 0 .. MAX_ENTITIES
           S == Seq(EntityState)
           left == [n \in D |-> n]
           step == [x \in [D -> S] \X D |-> BuiltStep(x[1], x[2])]
<1>1. MAX_ENTITIES \in Nat
  BY SnapshotAssumption
<1>2. ASSUME NEW n \in D, n # 0
      PROVE  /\ n - 1 \in D
             /\ world[n - 1] # 0 => [number |-> n - 1, value |-> world[n - 1]] \in EntityState
  BY <1>1, <1>2 DEF Entity, EntityState
<1>3. ASSUME NEW g \in [D -> S], NEW n \in D
      PROVE  BuiltStep(g, n) \in S
  <2>1. CASE n = 0
    BY <2>1 DEF BuiltStep
  <2>2. CASE n # 0
    <3>1. g[n - 1] \in Seq(EntityState)
      BY <1>2, <2>2
    <3>2. CASE world[n - 1] = 0
      BY <2>2, <3>1, <3>2 DEF BuiltStep
    <3>3. CASE world[n - 1] # 0
      <4>1. [number |-> n - 1, value |-> world[n - 1]] \in EntityState
        BY <1>2, <2>2, <3>3
      <4>2. Append(g[n - 1], [number |-> n - 1, value |-> world[n - 1]]) \in Seq(EntityState)
        BY <3>1, <4>1, AppendFacts
      <4> QED
        BY <2>2, <3>3, <4>2 DEF BuiltStep
    <3> QED
      BY <3>2, <3>3
  <2> QED
    BY <2>1, <2>2
<1> HIDE DEF S
<1>4. PICK g \in [D -> S] : \A n \in D : g[n] = BuiltStep(g, n)
  <2>1. /\ step \in [[D -> S] \X D -> S]
        /\ \A g \in [D -> S], n \in D : step[<<g, n>>] = BuiltStep(g, n)
    BY <1>3
  <2>2. ASSUME NEW g \in [D -> S], NEW h \in [D -> S], NEW n \in D,
               \A q \in D : left[q] < left[n] => g[q] = h[q]
        PROVE  step[<<g, n>>] = step[<<h, n>>]
    <3>1. n # 0 => g[n - 1] = h[n - 1]
      BY <1>1, <2>2
    <3>2. BuiltStep(g, n) = BuiltStep(h, n)
      BY <3>1 DEF BuiltStep
    <3> QED
      BY <2>1, <3>2
  <2>3. <<>> \in S
    BY DEF S
  <2>4. \A n \in D : left[n] \in 0 .. MAX_ENTITIES
    OBVIOUS
  <2>5. Descending(D, S, MAX_ENTITIES, left, step)
    <3> HIDE DEF step, D, left
    <3> QED
      BY <1>1, <2>1, <2>2, <2>3, <2>4 DEF Descending
  <2> HIDE DEF step, left
  <2>6. Defined(D, S, step)
    BY <2>5, RecursionDefined
  <2> QED
    BY <2>1, <2>6 DEF Defined
<1>5. g = [n \in D |-> BuiltStep(g, n)]
  BY <1>4
<1>6. PICK w : w = [n \in D |-> BuiltStep(w, n)] /\ Built = w[MAX_ENTITIES]
  BY <1>5, BuiltDefined
<1> DEFINE T == {n \in D : Below(w[n], n)}
<1>7. ASSUME NEW n \in D, \A q \in D : left[q] < left[n] => q \in T
      PROVE  n \in T
  <2>1. w[n] = BuiltStep(w, n)
    BY <1>6
  <2>2. CASE n = 0
    <3>1. w[n] = <<>>
      BY <2>1, <2>2 DEF BuiltStep
    <3> QED
      BY <2>2, <3>1, BelowNone
  <2>3. CASE n # 0
    <3>1. n - 1 \in D /\ n - 1 \in Nat /\ Below(w[n - 1], n - 1) /\ (n - 1) + 1 = n
      BY <1>1, <1>7, <2>3
    <3>2. CASE world[n - 1] = 0
      <4>1. w[n] = w[n - 1]
        BY <2>1, <2>3, <3>2 DEF BuiltStep
      <4>2. Below(w[n - 1], (n - 1) + 1)
        BY <3>1, BelowNext
      <4> QED
        BY <3>1, <4>1, <4>2
    <3>3. CASE world[n - 1] # 0
      <4> DEFINE e == [number |-> n - 1, value |-> world[n - 1]]
      <4>1. w[n] = Append(w[n - 1], e)
        BY <2>1, <2>3, <3>3 DEF BuiltStep
      <4>2. e \in EntityState /\ e.number = n - 1
        BY <1>2, <2>3, <3>3
      <4> HIDE DEF e
      <4>3. Below(Append(w[n - 1], e), (n - 1) + 1)
        BY <3>1, <4>2, BelowAppend
      <4> QED
        BY <3>1, <4>1, <4>3
    <3> QED
      BY <3>2, <3>3
  <2> QED
    BY <2>2, <2>3
<1>8. \A n \in D : left[n] \in Nat
  BY <1>1
<1>9. \A n \in D : n \in T
  <2> HIDE DEF T, D, left
  <2> QED
    BY <1>7, <1>8, MeasureInduction
<1>10. MAX_ENTITIES \in D
  BY <1>1
<1> QED
  BY <1>6, <1>9, <1>10

-------------------------------------------------------------------------------
\* The circular buffers.

\* A number is its quotient times N, and its remainder.
LEMMA ModFacts ==
  ASSUME NEW N \in Nat \ {0}, NEW x \in Nat
  PROVE  x % N \in 0 .. N - 1 /\ x \div N \in Int /\ x = N * (x \div N) + (x % N)
<1>1. x % N \in 0 .. N - 1
  OBVIOUS
<1>2. x \div N \in Int
  OBVIOUS
<1>3. x = N * (x \div N) + (x % N)
  OBVIOUS
<1> QED
  BY <1>1, <1>2, <1>3

\* Two numbers less than N apart have different remainders.
LEMMA ModDistinct ==
  ASSUME NEW N \in Nat \ {0}, NEW x \in Nat, NEW y \in Nat, x < y, y - x < N
  PROVE  x % N # y % N
<1> SUFFICES ASSUME x % N = y % N PROVE FALSE
  OBVIOUS
<1> DEFINE q == x \div N
           r == y \div N
           t == x % N
<1>1. q \in Int /\ r \in Int /\ t \in Int /\ x = N * q + t /\ y = N * r + t
  BY ModFacts
<1> HIDE DEF q, r, t
<1>2. y - x = N * (r - q)
  BY <1>1
<1>3. r - q >= 1
  <2>1. CASE r - q <= 0
    <3>1. N * (r - q) <= 0
      BY <1>1, <2>1
    <3> QED
      BY <1>2, <3>1
  <2> QED
    BY <1>1, <2>1
<1>4. N * (r - q) >= N
  BY <1>1, <1>3
<1> QED
  BY <1>2, <1>4

\* The shared buffer holds at least one state of each entity.
LEMMA NumStates ==
  numEntityStates \in Nat \ {0} /\ numEntityStates >= MAX_ENTITIES
<1>1. PACKET_BACKUP \in Nat /\ PACKET_BACKUP >= 1 /\ MAX_ENTITIES \in Nat /\ MAX_ENTITIES >= 1
  BY SnapshotAssumption
<1>2. PACKET_BACKUP * MAX_ENTITIES >= MAX_ENTITIES /\ PACKET_BACKUP * MAX_ENTITIES \in Nat
  BY <1>1
<1> QED
  BY <1>1, <1>2 DEF numEntityStates

\* Frames less than PACKET_BACKUP apart have slots of their own.
LEMMA SlotFacts ==
  /\ \A n \in Nat : Slot(n) \in 0 .. PACKET_BACKUP - 1
  /\ \A x, y \in Nat : x < y /\ y - x < PACKET_BACKUP => Slot(x) # Slot(y)
<1>1. PACKET_BACKUP \in Nat \ {0}
  BY SnapshotAssumption
<1> QED
  BY <1>1, ModFacts, ModDistinct DEF Slot

\* States less than the length of the buffer apart have slots of their own.
LEMMA StateSlotFacts ==
  /\ \A n \in Nat : StateSlot(n) \in 0 .. numEntityStates - 1
  /\ \A x, y \in Nat : x < y /\ y - x < numEntityStates => StateSlot(x) # StateSlot(y)
<1> DEFINE N == numEntityStates
<1>1. N \in Nat \ {0}
  BY NumStates
<1> HIDE DEF N
<1>2. \A n \in Nat : n % N \in 0 .. N - 1
  BY <1>1, ModFacts
<1>3. \A x, y \in Nat : x < y /\ y - x < N => x % N # y % N
  BY <1>1, ModDistinct
<1> QED
  BY <1>2, <1>3 DEF StateSlot, N

\* The states of the shared buffer.
Buffer == [0 .. numEntityStates - 1 -> EntityState]

\* The states of a new frame are in the buffer, and it overwrites none that is less than its length
\* old.
LEMMA AddedFacts ==
  ASSUME entityStates \in Buffer, nextEntityState \in Nat,
         NEW states \in Seq(EntityState), Len(states) <= numEntityStates
  PROVE  /\ Added(states) \in Buffer
         /\ \A k \in 1 .. Len(states) : Added(states)[StateSlot(nextEntityState + k - 1)] = states[k]
         /\ \A x \in Nat : x < nextEntityState /\ nextEntityState + Len(states) - x <= numEntityStates
              => Added(states)[StateSlot(x)] = entityStates[StateSlot(x)]
<1> DEFINE N == numEntityStates
           next == nextEntityState
           Here(k, i) == StateSlot(next + k - 1) = i
           at(i) == CHOOSE k \in 1 .. Len(states) : Here(k, i)
<1>1. N \in Nat \ {0} /\ Len(states) \in Nat /\ next \in Nat
  BY NumStates, LenProperties
<1>2. DOMAIN entityStates = 0 .. N - 1 /\ \A i \in 0 .. N - 1 : entityStates[i] \in EntityState
  BY DEF Buffer
<1>3. \A k \in 1 .. Len(states) : next + k - 1 \in Nat
  BY <1>1
<1>4. ASSUME NEW k \in 1 .. Len(states), NEW l \in 1 .. Len(states), k < l
      PROVE  StateSlot(next + k - 1) # StateSlot(next + l - 1)
  <2>1. next + k - 1 < next + l - 1 /\ (next + l - 1) - (next + k - 1) < N
    BY <1>1, <1>4
  <2> QED
    BY <1>3, <2>1, StateSlotFacts
<1>5. Added(states) = [i \in 0 .. N - 1 |->
         IF \E k \in 1 .. Len(states) : Here(k, i) THEN states[at(i)] ELSE entityStates[i]]
  BY <1>2 DEF Added
<1>6. \A k \in 1 .. Len(states) : states[k] \in EntityState
  BY StatesAt
<1>7. ASSUME NEW i, \E k \in 1 .. Len(states) : Here(k, i)
      PROVE  at(i) \in 1 .. Len(states) /\ Here(at(i), i)
  BY <1>7
<1> HIDE DEF N, next, at
<1>8. Added(states) \in Buffer
  BY <1>2, <1>5, <1>6, <1>7 DEF Buffer, N
<1>9. ASSUME NEW k \in 1 .. Len(states)
      PROVE  Added(states)[StateSlot(next + k - 1)] = states[k]
  <2> DEFINE i == StateSlot(next + k - 1)
  <2>1. i \in 0 .. N - 1
    BY <1>3, StateSlotFacts DEF N
  <2>2. Added(states)[i] = states[at(i)] /\ at(i) \in 1 .. Len(states) /\ StateSlot(next + at(i) - 1) = i
    BY <1>5, <1>7, <2>1
  <2> HIDE DEF i
  <2>3. ~ (at(i) < k) /\ ~ (k < at(i))
    BY <1>4, <2>2 DEF i
  <2>4. at(i) = k
    BY <1>1, <2>2, <2>3
  <2> QED
    BY <2>2, <2>4 DEF i
<1>10. ASSUME NEW x \in Nat, x < next, next + Len(states) - x <= N
       PROVE  Added(states)[StateSlot(x)] = entityStates[StateSlot(x)]
  <2>1. StateSlot(x) \in 0 .. N - 1
    BY StateSlotFacts DEF N
  <2>2. ASSUME NEW k \in 1 .. Len(states) PROVE StateSlot(next + k - 1) # StateSlot(x)
    <3>1. x < next + k - 1 /\ (next + k - 1) - x < N
      BY <1>1, <1>10
    <3> QED
      BY <1>3, <3>1, StateSlotFacts DEF N
  <2> QED
    BY <1>5, <2>1, <2>2
<1> QED
  BY <1>8, <1>9, <1>10 DEF N, next

\* The states of an earlier frame are the same after a new frame, when both fit in the buffer.
LEMMA StatesKept ==
  ASSUME entityStates \in Buffer, nextEntityState \in Nat,
         NEW states \in Seq(EntityState), Len(states) <= numEntityStates,
         NEW frame, frame.entityState \in Nat, frame.numEntities \in Nat,
         frame.entityState + frame.numEntities <= nextEntityState,
         nextEntityState + Len(states) - frame.entityState <= numEntityStates
  PROVE  StatesOf(Added(states), frame) = StatesOf(entityStates, frame)
<1>1. ASSUME NEW k \in 1 .. frame.numEntities
      PROVE  Added(states)[StateSlot(frame.entityState + k - 1)] =
             entityStates[StateSlot(frame.entityState + k - 1)]
  <2> DEFINE x == frame.entityState + k - 1
  <2>1. Len(states) \in Nat /\ numEntityStates \in Nat
    BY LenProperties, NumStates
  <2>2. /\ x \in Nat /\ x < nextEntityState
        /\ nextEntityState + Len(states) - x <= numEntityStates
    BY <2>1, SMTT(30)
  <2> HIDE DEF x
  <2>3. Added(states)[StateSlot(x)] = entityStates[StateSlot(x)]
    BY <2>2, AddedFacts
  <2> QED
    BY <2>3 DEF x
<1> QED
  BY <1>1 DEF StatesOf

\* The states of the new frame, read back from the buffer, are those that were built.
LEMMA StatesAdded ==
  ASSUME entityStates \in Buffer, nextEntityState \in Nat,
         NEW states \in Seq(EntityState), Len(states) <= numEntityStates
  PROVE  StatesOf(Added(states), [entityState |-> nextEntityState, numEntities |-> Len(states)]) = states
<1> DEFINE frame == [entityState |-> nextEntityState, numEntities |-> Len(states)]
<1>1. \A k \in 1 .. Len(states) : Added(states)[StateSlot(nextEntityState + k - 1)] = states[k]
  BY AddedFacts
<1>2. StatesOf(Added(states), frame) = [k \in 1 .. Len(states) |-> states[k]]
  BY <1>1 DEF StatesOf
<1>3. states = [k \in 1 .. Len(states) |-> states[k]]
  OBVIOUS
<1> QED
  BY <1>2, <1>3

-------------------------------------------------------------------------------
\* The invariants.

\* The newest frame that was sent to c.
Sent(c) == IF turn = 0 \/ turn > c THEN frameNum ELSE frameNum - 1

\* How many frames were built, for all clients, and how many of them since frame g of c.
Builds == IF turn = 0 THEN frameNum * MaxClients ELSE (frameNum - 1) * MaxClients + (turn - 1)
Age(c, g) == Builds - ((g - 1) * MaxClients + c) + 1

\* What the server keeps of a frame, what a client keeps, and what is sent.
Frame == [entityState : Nat, numEntities : Nat]
ClientFrame == [valid : BOOLEAN, frameNum : Nat, entityState : Nat,
                entities : Seq(EntityState), built : Seq(EntityState)]
Message == [frameNum : Nat, deltaFrameNum : Int,
            entities : Seq(Item), built : Seq(EntityState)]
Backup == 0 .. PACKET_BACKUP - 1

\* The types, and how far the buffer's position can be after that many builds.
Shapes ==
  /\ world \in [Entity -> Value \cup {0}] /\ changes \in 0 .. MaxChanges
  /\ frameNum \in 0 .. MaxFrame /\ turn \in 0 .. MaxClients
  /\ turn # 0 => frameNum >= 1
  /\ entityStates \in Buffer /\ nextEntityState \in Nat
  /\ nextEntityState <= Builds * MAX_ENTITIES
  /\ frames \in [Client -> [Backup -> Frame]]
  /\ lastFrame \in [Client -> -1 .. MaxFrame]
  /\ network \in [Client -> SUBSET Message]
  /\ clFrames \in [Client -> [Backup -> ClientFrame]]
  /\ clFrame \in [Client -> 0 .. MaxFrame] /\ entityState \in [Client -> Nat]
  /\ dropped \subseteq Client

\* The bounds of what the frames and the messages count.
Bounds ==
  \A c \in Client :
    /\ \A s \in Backup : /\ frames[c][s].entityState <= nextEntityState
                         /\ frames[c][s].numEntities <= MAX_ENTITIES
                         /\ clFrames[c][s].frameNum <= MaxFrame
    /\ \A m \in network[c] : m.frameNum <= MaxFrame

\* Both hold whatever is visible.
TypeInv == Shapes /\ Bounds

\* The condition on the world under which the shared buffer is long enough: together, the clients
\* see no more than MAX_ENTITIES.
FewVisible == MaxClients * Len(Built) <= MAX_ENTITIES

\* The states of frame g of c are all in the buffer: no more than MAX_ENTITIES states for every
\* MaxClients builds came after them.
Intact(c, g) ==
  LET f == frames[c][Slot(g)]
  IN /\ f.entityState + f.numEntities <= nextEntityState
     /\ MaxClients * (nextEntityState - f.entityState) <= Age(c, g) * MAX_ENTITIES

\* That is so of every frame still in the backup.
FramesIntact ==
  \A c \in Client : \A g \in 1 .. Sent(c) : Sent(c) - g < PACKET_BACKUP => Intact(c, g)

\* While frame g of c is in the backup, the buffer has these states for it.
Holds(c, g, states) ==
  Sent(c) - g < PACKET_BACKUP => StatesOf(entityStates, frames[c][Slot(g)]) = states

\* What is known of a valid frame of a client: it is in its slot, it is no newer than the newest,
\* the server has the same states, and the client has read no more than MAX_ENTITIES for each frame
\* since.
Valid(c, s) ==
  LET f == clFrames[c][s]
  IN /\ f.frameNum >= 1 /\ f.frameNum <= clFrame[c] /\ Slot(f.frameNum) = s
     /\ Sorted(f.built) /\ Holds(c, f.frameNum, f.built)
     /\ entityState[c] - f.entityState <= (clFrame[c] - f.frameNum + 1) * MAX_ENTITIES

\* The frames of a client are those that were built.
ClientFramesMatch ==
  \A c \in Client :
    /\ clFrame[c] <= Sent(c)
    /\ \A s \in Backup : /\ clFrames[c][s].entities = clFrames[c][s].built
                         /\ clFrames[c][s].valid => Valid(c, s)

\* The client has frame g.
HasFrame(c, g) == clFrames[c][Slot(g)].valid /\ clFrames[c][Slot(g)].frameNum = g

\* A message is whole, or its difference is taken from a frame that the client has and keeps until
\* the message is read.
Decodable(c, m) ==
  \/ m.deltaFrameNum = -1 /\ m.entities = WriteEntities(<<>>, m.built)
  \/ /\ m.deltaFrameNum >= 1 /\ HasFrame(c, m.deltaFrameNum)
     /\ m.frameNum - m.deltaFrameNum <= PACKET_BACKUP - 4
     /\ m.entities = WriteEntities(clFrames[c][Slot(m.deltaFrameNum)].built, m.built)

\* The messages on their way are newer than what the client has, and can be decoded.
MessagesMatch ==
  \A c \in Client : \A m \in network[c] :
    /\ clFrame[c] < m.frameNum /\ m.frameNum <= Sent(c)
    /\ Sorted(m.built) /\ Len(m.built) <= MAX_ENTITIES
    /\ Holds(c, m.frameNum, m.built) /\ Decodable(c, m)

\* What a client acknowledged it still has, while it is in the backup.
LastFrameHeld ==
  \A c \in Client :
    \/ lastFrame[c] = -1
    \/ /\ lastFrame[c] >= 1 /\ lastFrame[c] <= clFrame[c]
       /\ Sent(c) - lastFrame[c] < PACKET_BACKUP => HasFrame(c, lastFrame[c])

\* The invariant of frames.
FrameInv ==
  FramesIntact /\ ClientFramesMatch /\ MessagesMatch /\ LastFrameHeld /\ dropped = {}

\* What the assumption on the constants says of their values.
LEMMA Sizes ==
  /\ PACKET_BACKUP \in Nat /\ PACKET_BACKUP > 3
  /\ MAX_ENTITIES \in Nat /\ MAX_ENTITIES >= 1
  /\ MaxClients \in Nat /\ MaxClients >= 1
  /\ MaxFrame \in Nat /\ MaxChanges \in Nat /\ MaxInFlight \in Nat
  /\ numEntityStates = PACKET_BACKUP * MAX_ENTITIES
  BY SnapshotAssumption DEF numEntityStates

\* A frame has at most one state of each entity, in the order of their numbers.
LEMMA BuiltFacts ==
  ASSUME world \in [Entity -> Value \cup {0}]
  PROVE  /\ Sorted(Built) /\ Built \in Seq(EntityState)
         /\ Len(Built) \in Nat /\ Len(Built) <= MAX_ENTITIES /\ Len(Built) <= numEntityStates
<1>1. Below(Built, MAX_ENTITIES)
  BY BuiltBelow
<1>2. Sorted(Built) /\ Len(Built) <= MAX_ENTITIES
  BY <1>1 DEF Below
<1>3. Built \in Seq(EntityState)
  BY <1>2 DEF Sorted
<1>4. Len(Built) \in Nat
  BY <1>3, LenProperties
<1>5. numEntityStates >= MAX_ENTITIES /\ numEntityStates \in Nat
  BY NumStates
<1> QED
  BY <1>2, <1>3, <1>4, <1>5, Sizes

\* What the buffer holds of a frame is a list of states.
LEMMA StatesOfTyped ==
  ASSUME NEW buffer \in Buffer, NEW frame \in Frame
  PROVE  StatesOf(buffer, frame) \in Seq(EntityState)
<1>1. frame.entityState \in Nat /\ frame.numEntities \in Nat
  BY DEF Frame
<1>2. ASSUME NEW k \in 1 .. frame.numEntities
      PROVE  buffer[StateSlot(frame.entityState + k - 1)] \in EntityState
  <2>1. frame.entityState + k - 1 \in Nat
    BY <1>1
  <2> QED
    BY <2>1, StateSlotFacts DEF Buffer
<1>3. StatesOf(buffer, frame) \in [1 .. frame.numEntities -> EntityState]
  BY <1>2 DEF StatesOf
<1> QED
  BY <1>1, <1>3

\* WriteEntities writes items.
LEMMA WriteTyped ==
  ASSUME NEW from \in Seq(EntityState), NEW to \in Seq(EntityState)
  PROVE  WriteEntities(from, to) \in Seq(Item)
<1>1. PICK w \in [Grid(Len(from), Len(to)) -> Seq(Item)] : WriteEntities(from, to) = w[<<1, 1>>]
  BY WriteRules
<1>2. 1 \in 1 .. Len(from) + 1 /\ 1 \in 1 .. Len(to) + 1 /\ Len(from) \in Nat /\ Len(to) \in Nat
  BY LenProperties
<1>3. <<1, 1>> \in Grid(Len(from), Len(to))
  BY <1>2, GridFacts
<1> QED
  BY <1>1, <1>3

\* ParseEntities reads states.
LEMMA ParseTyped ==
  ASSUME NEW from \in Seq(EntityState), NEW items \in Seq(Item)
  PROVE  ParseEntities(from, items) \in Seq(EntityState)
<1>1. PICK w \in [Grid(Len(from), Len(items)) -> Seq(EntityState)] :
        ParseEntities(from, items) = w[<<1, 1>>]
  BY ParseRules
<1>2. 1 \in 1 .. Len(from) + 1 /\ 1 \in 1 .. Len(items) + 1 /\ Len(from) \in Nat /\ Len(items) \in Nat
  BY LenProperties
<1>3. <<1, 1>> \in Grid(Len(from), Len(items))
  BY <1>2, GridFacts
<1> QED
  BY <1>1, <1>3

\* What SendFrame(c) takes the difference from, and what it sends.
FromOf(c) ==
  IF DeltaFrameNum(c) = -1 THEN <<>>
  ELSE StatesOf(Added(Built), frames[c][Slot(DeltaFrameNum(c))])
NewFrame == [entityState |-> nextEntityState, numEntities |-> Len(Built)]
NewMessage(c) ==
  [frameNum |-> frameNum, deltaFrameNum |-> DeltaFrameNum(c),
   entities |-> WriteEntities(FromOf(c), Built), built |-> Built]

\* Everything that SendClientPackets changes.
LEMMA SendFacts ==
  ASSUME TypeInv, SendClientPackets
  PROVE  /\ turn \in Client /\ frameNum \in Nat /\ frameNum >= 1
         /\ Slot(frameNum) \in Backup
         /\ DeltaFrameNum(turn) = -1 \/ DeltaFrameNum(turn) \in Nat
         /\ entityStates' = Added(Built) /\ Added(Built) \in Buffer
         /\ nextEntityState' = nextEntityState + Len(Built)
         /\ frames' \in [Client -> [Backup -> Frame]]
         /\ frames'[turn][Slot(frameNum)] = NewFrame
         /\ \A d \in Client, s \in Backup :
              d # turn \/ s # Slot(frameNum) => frames'[d][s] = frames[d][s]
         /\ NewMessage(turn) \in Message
         /\ network' \in [Client -> SUBSET Message]
         /\ \A d \in Client : \A m \in network'[d] :
              m \in network[d] \/ (d = turn /\ m = NewMessage(turn))
<1> DEFINE c == turn
<1>1. c \in Client /\ frameNum \in Nat /\ frameNum >= 1 /\ Slot(frameNum) \in Backup
  <2>1. frameNum \in Nat /\ turn \in 0 .. MaxClients /\ turn # 0 /\ frameNum >= 1
    BY Sizes DEF TypeInv, Shapes, SendClientPackets
  <2>2. Slot(frameNum) \in Backup
    BY <2>1, SlotFacts DEF Backup
  <2> QED
    BY <2>1, <2>2, Sizes DEF Client
<1>2. DeltaFrameNum(c) = -1 \/ DeltaFrameNum(c) \in Nat
  <2>1. lastFrame[c] \in -1 .. MaxFrame
    BY <1>1 DEF TypeInv, Shapes
  <2>2. lastFrame[c] < 0 \/ lastFrame[c] \in Nat
    BY <2>1, Sizes
  <2> QED
    BY <2>2 DEF DeltaFrameNum
<1>3. /\ Built \in Seq(EntityState) /\ Len(Built) \in Nat /\ Len(Built) <= numEntityStates
  BY BuiltFacts DEF TypeInv, Shapes
<1>4. Added(Built) \in Buffer /\ nextEntityState \in Nat
  BY <1>3, AddedFacts DEF TypeInv, Shapes
<1>5. SendFrame(c)
  BY DEF SendClientPackets
<1>6. entityStates' = Added(Built) /\ nextEntityState' = nextEntityState + Len(Built)
  BY <1>5 DEF SendFrame
<1>7. /\ frames' = [frames EXCEPT ![c][Slot(frameNum)] = NewFrame]
      /\ network' = [network EXCEPT ![c] =
           {n \in @ : n.frameNum > frameNum - MaxInFlight} \cup {NewMessage(c)}]
  BY <1>5 DEF SendFrame, NewFrame, NewMessage, FromOf
<1>8. NewFrame \in Frame
  BY <1>3, <1>4 DEF NewFrame, Frame
<1>9. frames \in [Client -> [Backup -> Frame]] /\ network \in [Client -> SUBSET Message]
  BY DEF TypeInv, Shapes
<1>10. FromOf(c) \in Seq(EntityState)
  <2>1. CASE DeltaFrameNum(c) = -1
    <3>1. <<>> \in Seq(EntityState)
      OBVIOUS
    <3> QED
      BY <2>1, <3>1 DEF FromOf
  <2>2. CASE DeltaFrameNum(c) # -1
    <3>1. frames[c][Slot(DeltaFrameNum(c))] \in Frame
      BY <1>1, <1>2, <1>9, <2>2, SlotFacts DEF Backup
    <3> QED
      BY <1>4, <2>2, <3>1, StatesOfTyped DEF FromOf
  <2> QED
    BY <2>1, <2>2
<1>11. NewMessage(c) \in Message
  <2>1. WriteEntities(FromOf(c), Built) \in Seq(Item)
    BY <1>3, <1>10, WriteTyped
  <2> QED
    BY <1>1, <1>2, <1>3, <2>1 DEF NewMessage, Message
<1> HIDE DEF NewFrame, NewMessage
<1>12. /\ frames' \in [Client -> [Backup -> Frame]]
       /\ frames'[c][Slot(frameNum)] = NewFrame
       /\ \A d \in Client, s \in Backup :
              d # c \/ s # Slot(frameNum) => frames'[d][s] = frames[d][s]
  BY <1>1, <1>7, <1>8, <1>9
<1>13. /\ network' \in [Client -> SUBSET Message]
       /\ \A d \in Client : \A m \in network'[d] :
              m \in network[d] \/ (d = c /\ m = NewMessage(c))
  BY <1>1, <1>7, <1>9, <1>11
<1> QED
  BY <1>1, <1>2, <1>4, <1>6, <1>11, <1>12, <1>13

\* Each packet counts as one more frame built.
LEMMA BuildsNext ==
  ASSUME TypeInv, SendClientPackets
  PROVE  Builds \in Nat /\ Builds' = Builds + 1
<1>1. frameNum \in Nat /\ frameNum >= 1 /\ turn \in Nat /\ turn # 0 /\ turn <= MaxClients
  BY Sizes, SendFacts DEF SendClientPackets, Client
<1>2. /\ frameNum' = frameNum
      /\ turn' = IF turn = MaxClients THEN 0 ELSE turn + 1
  BY DEF SendClientPackets
<1> DEFINE k == (frameNum - 1) * MaxClients
<1>3. k \in Nat /\ frameNum * MaxClients = k + MaxClients
  BY <1>1, Sizes
<1>4. Builds = k + (turn - 1)
  BY <1>1 DEF Builds
<1>5. Builds' = IF turn = MaxClients THEN frameNum * MaxClients ELSE k + turn
  BY <1>1, <1>2, Sizes DEF Builds
<1> HIDE DEF k
<1> QED
  BY <1>1, <1>3, <1>4, <1>5, Sizes

\* There are at most MaxClients frames built in each of the server's frames.
LEMMA BuildsMost ==
  ASSUME TypeInv
  PROVE  Builds \in Nat /\ Builds <= MaxFrame * MaxClients
<1>1. frameNum \in Nat /\ frameNum <= MaxFrame /\ turn \in 0 .. MaxClients /\ (turn # 0 => frameNum >= 1)
  BY Sizes DEF TypeInv, Shapes
<1>2. frameNum * MaxClients <= MaxFrame * MaxClients
  BY <1>1, Sizes
<1>3. frameNum * MaxClients = (frameNum - 1) * MaxClients + MaxClients
  BY <1>1, Sizes
<1>4. frameNum * MaxClients \in Nat
  BY <1>1, Sizes
<1>5. frameNum >= 1 => (frameNum - 1) * MaxClients \in Nat
  BY <1>1, Sizes
<1> QED
  BY <1>1, <1>2, <1>3, <1>4, <1>5, Sizes DEF Builds

\* What ParseFrame(c, m) takes the difference to, what it reads, and what it stores.
ClientFrom(c, m) ==
  IF m.deltaFrameNum <= 0 THEN <<>> ELSE clFrames[c][Slot(m.deltaFrameNum)].entities
Decoded(c, m) == ParseEntities(ClientFrom(c, m), m.entities)
NewClientFrame(c, m) ==
  [valid |-> TRUE, frameNum |-> m.frameNum, entityState |-> entityState[c],
   entities |-> Decoded(c, m), built |-> m.built]

\* What ParseFrame(c, m) changes when the frame can be decoded.
Stored(c, m) ==
  /\ clFrames' \in [Client -> [Backup -> ClientFrame]]
  /\ clFrames'[c][Slot(m.frameNum)] = NewClientFrame(c, m)
  /\ \A d \in Client, s \in Backup :
       d # c \/ s # Slot(m.frameNum) => clFrames'[d][s] = clFrames[d][s]
  /\ clFrame' \in [Client -> 0 .. MaxFrame] /\ clFrame'[c] = m.frameNum
  /\ entityState' \in [Client -> Nat]
  /\ entityState'[c] = entityState[c] + Len(Decoded(c, m))
  /\ \A d \in Client : d # c => clFrame'[d] = clFrame[d] /\ entityState'[d] = entityState[d]
  /\ dropped' = dropped

\* The fields of a message.
LEMMA MessageFacts ==
  ASSUME NEW m \in Message
  PROVE  /\ m.frameNum \in Nat /\ m.deltaFrameNum \in Int
         /\ m.entities \in Seq(Item) /\ m.built \in Seq(EntityState)
  BY DEF Message

\* Everything that ParseFrame changes.
LEMMA ParseFacts ==
  ASSUME TypeInv, NEW c \in Client, NEW m \in network[c], ParseFrame(c, m)
  PROVE  /\ m \in Message /\ m.frameNum <= MaxFrame /\ Slot(m.frameNum) \in Backup
         /\ Decoded(c, m) \in Seq(EntityState)
         /\ NewClientFrame(c, m) \in ClientFrame
         /\ ~ Undecodable(c, m) => Stored(c, m)
         /\ Undecodable(c, m) =>
              dropped' = dropped \cup {c} /\ UNCHANGED <<clFrames, clFrame, entityState>>
         /\ network' \in [Client -> SUBSET Message]
         /\ \A d \in Client : network'[d] \subseteq network[d]
         /\ \A n \in network'[c] : n.frameNum > m.frameNum
<1>1. /\ network \in [Client -> SUBSET Message] /\ clFrames \in [Client -> [Backup -> ClientFrame]]
      /\ clFrame \in [Client -> 0 .. MaxFrame] /\ entityState \in [Client -> Nat]
  BY DEF TypeInv, Shapes
<1>2. m \in Message /\ m.frameNum <= MaxFrame
  BY <1>1 DEF TypeInv, Bounds
<1>3. /\ m.frameNum \in Nat /\ m.deltaFrameNum \in Int
      /\ m.entities \in Seq(Item) /\ m.built \in Seq(EntityState)
  BY <1>2, MessageFacts
<1>4. Slot(m.frameNum) \in Backup
  BY <1>3, SlotFacts DEF Backup
<1>5. ClientFrom(c, m) \in Seq(EntityState)
  <2>1. CASE m.deltaFrameNum <= 0
    <3>1. <<>> \in Seq(EntityState)
      OBVIOUS
    <3> QED
      BY <2>1, <3>1 DEF ClientFrom
  <2>2. CASE ~ (m.deltaFrameNum <= 0)
    <3>1. m.deltaFrameNum \in Nat
      BY <1>3, <2>2
    <3>2. Slot(m.deltaFrameNum) \in Backup
      BY <3>1, SlotFacts DEF Backup
    <3>3. clFrames[c][Slot(m.deltaFrameNum)] \in ClientFrame
      BY <1>1, <3>2
    <3>4. clFrames[c][Slot(m.deltaFrameNum)].entities \in Seq(EntityState)
      BY <3>3 DEF ClientFrame
    <3> QED
      BY <2>2, <3>4 DEF ClientFrom
  <2> QED
    BY <2>1, <2>2
<1>6. Decoded(c, m) \in Seq(EntityState) /\ Len(Decoded(c, m)) \in Nat
  BY <1>3, <1>5, ParseTyped, LenProperties DEF Decoded
<1>7. NewClientFrame(c, m) \in ClientFrame
  BY <1>1, <1>3, <1>6 DEF NewClientFrame, ClientFrame
<1>8. /\ network' = [network EXCEPT ![c] = {n \in @ : n.frameNum > m.frameNum}]
      /\ Undecodable(c, m) =>
           dropped' = dropped \cup {c} /\ UNCHANGED <<clFrames, clFrame, entityState>>
      /\ ~ Undecodable(c, m) =>
           /\ clFrames' = [clFrames EXCEPT ![c][Slot(m.frameNum)] = NewClientFrame(c, m)]
           /\ clFrame' = [clFrame EXCEPT ![c] = m.frameNum]
           /\ entityState' = [entityState EXCEPT ![c] = @ + Len(Decoded(c, m))]
           /\ dropped' = dropped
  BY DEF ParseFrame, NewClientFrame, Decoded, ClientFrom
<1> HIDE DEF NewClientFrame, Decoded
<1>9. /\ network' \in [Client -> SUBSET Message]
      /\ \A d \in Client : network'[d] \subseteq network[d]
      /\ \A n \in network'[c] : n.frameNum > m.frameNum
  BY <1>1, <1>8
<1>10. ASSUME ~ Undecodable(c, m) PROVE Stored(c, m)
  <2>1. /\ clFrames' \in [Client -> [Backup -> ClientFrame]]
        /\ clFrames'[c][Slot(m.frameNum)] = NewClientFrame(c, m)
        /\ \A d \in Client, s \in Backup :
             d # c \/ s # Slot(m.frameNum) => clFrames'[d][s] = clFrames[d][s]
    <3>1. clFrames' = [clFrames EXCEPT ![c][Slot(m.frameNum)] = NewClientFrame(c, m)]
      BY <1>8, <1>10
    <3> QED
      BY <1>1, <1>4, <1>7, <3>1
  <2>2. /\ clFrame' \in [Client -> 0 .. MaxFrame] /\ clFrame'[c] = m.frameNum
        /\ \A d \in Client : d # c => clFrame'[d] = clFrame[d]
    <3>1. clFrame' = [clFrame EXCEPT ![c] = m.frameNum]
      BY <1>8, <1>10
    <3>2. m.frameNum \in 0 .. MaxFrame
      BY <1>2, <1>3, Sizes
    <3> QED
      BY <1>1, <3>1, <3>2
  <2>3. /\ entityState' \in [Client -> Nat]
        /\ entityState'[c] = entityState[c] + Len(Decoded(c, m))
        /\ \A d \in Client : d # c => entityState'[d] = entityState[d]
    BY <1>1, <1>6, <1>8, <1>10
  <2> QED
    BY <1>8, <1>10, <2>1, <2>2, <2>3 DEF Stored
<1> QED
  BY <1>2, <1>4, <1>6, <1>7, <1>8, <1>9, <1>10

\* The types hold at the start ...
LEMMA InitTypeInv ==
  ASSUME Init
  PROVE  TypeInv
<1>1. /\ 0 \in 0 .. MaxChanges /\ 0 \in 0 .. MaxFrame /\ 0 \in 0 .. MaxClients
      /\ -1 \in -1 .. MaxFrame /\ 0 * MaxClients = 0 /\ 0 * MAX_ENTITIES = 0
  BY Sizes
<1>2. NoState \in EntityState
  BY Sizes DEF NoState, EntityState, Entity, Value
<1>3. entityStates \in Buffer
  BY <1>2 DEF Init, Buffer
<1>4. NoFrame \in ClientFrame /\ NoFrame.frameNum = 0
  <2>1. <<>> \in Seq(EntityState)
    OBVIOUS
  <2> QED
    BY <2>1 DEF NoFrame, ClientFrame
<1>5. [entityState |-> 0, numEntities |-> 0] \in Frame
  BY DEF Frame
<1>6. /\ frames \in [Client -> [Backup -> Frame]]
      /\ \A c \in Client : \A s \in Backup :
           frames[c][s].entityState = 0 /\ frames[c][s].numEntities = 0
  BY <1>5 DEF Init, Backup
<1>7. /\ clFrames \in [Client -> [Backup -> ClientFrame]]
      /\ \A c \in Client : \A s \in Backup : clFrames[c][s].frameNum = 0
  BY <1>4 DEF Init, Backup
<1>8. network \in [Client -> SUBSET Message] /\ \A c \in Client : network[c] = {}
  BY DEF Init
<1>9. world \in [Entity -> Value \cup {0}]
  BY DEF Init, Value
<1>10. /\ lastFrame \in [Client -> -1 .. MaxFrame] /\ clFrame \in [Client -> 0 .. MaxFrame]
       /\ entityState \in [Client -> Nat] /\ dropped \subseteq Client
  BY <1>1 DEF Init
<1>11. /\ nextEntityState = 0 /\ Builds = 0 /\ turn = 0 /\ frameNum = 0 /\ changes = 0
  BY <1>1 DEF Init, Builds
<1>12. Shapes
  BY <1>1, <1>3, <1>6, <1>7, <1>8, <1>9, <1>10, <1>11 DEF Shapes
<1>13. Bounds
  BY <1>6, <1>7, <1>8, <1>11, Sizes DEF Bounds
<1> QED
  BY <1>12, <1>13 DEF TypeInv

\* ... and every step keeps them ...
LEMMA StepTypeInv ==
  ASSUME TypeInv, [Next]_vars
  PROVE  TypeInv'
<1>0. Shapes /\ Bounds
  BY DEF TypeInv
<1>1. CASE RunGameFrame
  <2>1. /\ turn = 0 /\ turn' = 1 /\ frameNum' = frameNum + 1 /\ frameNum < MaxFrame
        /\ frameNum \in 0 .. MaxFrame
        /\ UNCHANGED <<entityStates, nextEntityState, frames, lastFrame, network,
                       clFrames, clFrame, entityState, dropped>>
    BY <1>0, <1>1 DEF RunGameFrame, Shapes, clientVars
  <2>2. world' \in [Entity -> Value \cup {0}] /\ changes' \in 0 .. MaxChanges
    <3>1. CASE EntityChanges
      BY <1>0, <3>1, Sizes DEF EntityChanges, Shapes
    <3>2. CASE UNCHANGED <<world, changes>>
      BY <1>0, <3>2 DEF Shapes
    <3> QED
      BY <1>1, <3>1, <3>2 DEF RunGameFrame
  <2>3. Builds' = Builds
    <3>1. (frameNum' - 1) * MaxClients + (turn' - 1) = frameNum * MaxClients
      BY <2>1, Sizes
    <3> QED
      BY <2>1, <3>1 DEF Builds
  <2>4. frameNum' \in 0 .. MaxFrame /\ turn' \in 0 .. MaxClients /\ frameNum' >= 1
    BY <2>1, Sizes
  <2>5. Shapes'
    BY <1>0, <2>1, <2>2, <2>3, <2>4 DEF Shapes
  <2>6. Bounds'
    BY <1>0, <2>1 DEF Bounds
  <2> QED
    BY <2>5, <2>6 DEF TypeInv
<1>2. CASE SendClientPackets
  <2> DEFINE c == turn
  <2>1. /\ UNCHANGED <<world, changes, frameNum, lastFrame, clFrames, clFrame, entityState, dropped>>
        /\ turn' = IF turn = MaxClients THEN 0 ELSE turn + 1
    BY <1>2 DEF SendClientPackets, clientVars
  <2>2. /\ entityStates' \in Buffer /\ frames' \in [Client -> [Backup -> Frame]]
        /\ network' \in [Client -> SUBSET Message]
        /\ nextEntityState' = nextEntityState + Len(Built)
        /\ turn \in Client /\ frameNum >= 1
    BY <1>2, SendFacts
  <2>3. Len(Built) \in Nat /\ Len(Built) <= MAX_ENTITIES
    BY <1>0, BuiltFacts DEF Shapes
  <2>4. nextEntityState' \in Nat /\ nextEntityState <= nextEntityState'
        /\ nextEntityState' <= Builds' * MAX_ENTITIES
    <3>1. Builds \in Nat /\ Builds' = Builds + 1
      BY <1>2, BuildsNext
    <3>2. Builds' * MAX_ENTITIES = Builds * MAX_ENTITIES + MAX_ENTITIES
      BY <3>1, Sizes
    <3>3. nextEntityState \in Nat /\ nextEntityState <= Builds * MAX_ENTITIES
      BY <1>0 DEF Shapes
    <3>4. Builds * MAX_ENTITIES \in Nat
      BY <3>1, Sizes
    <3> HIDE DEF Builds
    <3> QED
      BY <2>2, <2>3, <3>2, <3>3, <3>4, Sizes
  <2>5. turn' \in 0 .. MaxClients
    BY <2>1, <2>2, Sizes DEF Client
  <2>6. Shapes'
    BY <1>0, <2>1, <2>2, <2>4, <2>5 DEF Shapes
  <2>7. ASSUME NEW d \in Client, NEW s \in Backup
        PROVE  frames'[d][s].entityState <= nextEntityState' /\ frames'[d][s].numEntities <= MAX_ENTITIES
    <3>1. CASE d = c /\ s = Slot(frameNum)
      <4>1. frames'[d][s] = NewFrame
        BY <1>2, <3>1, SendFacts
      <4> QED
        BY <2>3, <2>4, <4>1 DEF NewFrame
    <3>2. CASE d # c \/ s # Slot(frameNum)
      <4>1. frames'[d][s] = frames[d][s]
        BY <1>2, <3>2, SendFacts
      <4>2. /\ frames[d][s].entityState <= nextEntityState
            /\ frames[d][s].numEntities <= MAX_ENTITIES
        BY <1>0 DEF Bounds
      <4>3. frames[d][s].entityState \in Nat /\ nextEntityState \in Nat
        BY <1>0 DEF Shapes, Frame
      <4> QED
        BY <2>4, <4>1, <4>2, <4>3
    <3> QED
      BY <3>1, <3>2
  <2>8. ASSUME NEW d \in Client, NEW m \in network'[d] PROVE m.frameNum <= MaxFrame
    <3>1. frameNum <= MaxFrame /\ NewMessage(c).frameNum = frameNum
      BY <1>0, Sizes DEF Shapes, NewMessage
    <3>2. m \in network[d] \/ m = NewMessage(c)
      BY <1>2, SendFacts
    <3> QED
      BY <1>0, <3>1, <3>2 DEF Bounds
  <2>9. Bounds'
    BY <1>0, <2>1, <2>7, <2>8 DEF Bounds
  <2> QED
    BY <2>6, <2>9 DEF TypeInv
<1>3. ASSUME NEW c \in Client, Acknowledge(c) PROVE TypeInv'
  <2>1. UNCHANGED <<world, changes, frameNum, turn, entityStates, nextEntityState, frames, network,
                    clFrames, clFrame, entityState, dropped>>
    BY <1>3 DEF Acknowledge, serverVars, clientVars
  <2>2. PICK s \in DOMAIN clFrames[c] :
          /\ clFrames[c][s].frameNum > lastFrame[c]
          /\ lastFrame' = [lastFrame EXCEPT ![c] = clFrames[c][s].frameNum]
    BY <1>3 DEF Acknowledge
  <2>3. clFrames[c][s].frameNum \in 0 .. MaxFrame
    <3>1. s \in Backup /\ clFrames[c][s] \in ClientFrame
      BY <1>0, <2>2 DEF Shapes
    <3>2. clFrames[c][s].frameNum \in Nat /\ clFrames[c][s].frameNum <= MaxFrame
      BY <1>0, <3>1 DEF Bounds, ClientFrame
    <3> QED
      BY <3>2, Sizes
  <2>4. lastFrame' \in [Client -> -1 .. MaxFrame]
    <3>1. clFrames[c][s].frameNum \in -1 .. MaxFrame
      BY <2>3
    <3> QED
      BY <1>0, <2>2, <3>1 DEF Shapes
  <2>5. Builds' = Builds
    BY <2>1 DEF Builds
  <2>6. Shapes'
    BY <1>0, <2>1, <2>4, <2>5 DEF Shapes
  <2>7. Bounds'
    BY <1>0, <2>1 DEF Bounds
  <2> QED
    BY <2>6, <2>7 DEF TypeInv
<1>4. ASSUME NEW c \in Client, NEW m \in network[c], ParseFrame(c, m) PROVE TypeInv'
  <2>1. UNCHANGED <<world, changes, frameNum, turn, entityStates, nextEntityState, frames, lastFrame>>
    BY <1>4 DEF ParseFrame, serverVars
  <2>2. Builds' = Builds
    BY <2>1 DEF Builds
  <2>3. /\ network' \in [Client -> SUBSET Message]
        /\ \A d \in Client : network'[d] \subseteq network[d]
    BY <1>4, ParseFacts
  <2>4. /\ clFrames' \in [Client -> [Backup -> ClientFrame]]
        /\ clFrame' \in [Client -> 0 .. MaxFrame] /\ entityState' \in [Client -> Nat]
        /\ dropped' \subseteq Client
        /\ \A d \in Client : \A s \in Backup : clFrames'[d][s].frameNum <= MaxFrame
    <3>1. CASE Undecodable(c, m)
      <4>1. dropped' = dropped \cup {c} /\ UNCHANGED <<clFrames, clFrame, entityState>>
        BY <1>4, <3>1, ParseFacts
      <4> QED
        BY <1>0, <4>1 DEF Shapes, Bounds
    <3>2. CASE ~ Undecodable(c, m)
      <4>1. Stored(c, m) /\ m.frameNum <= MaxFrame
        BY <1>4, <3>2, ParseFacts
      <4>2. NewClientFrame(c, m).frameNum = m.frameNum
        BY DEF NewClientFrame
      <4>3. \A d \in Client : \A s \in Backup : clFrames'[d][s].frameNum <= MaxFrame
        BY <1>0, <4>1, <4>2 DEF Stored, Bounds
      <4> QED
        BY <1>0, <4>1, <4>3 DEF Stored, Shapes
    <3> QED
      BY <3>1, <3>2
  <2>5. Shapes'
    BY <1>0, <2>1, <2>2, <2>3, <2>4 DEF Shapes
  <2>6. Bounds'
    BY <1>0, <2>1, <2>3, <2>4 DEF Bounds
  <2> QED
    BY <2>5, <2>6 DEF TypeInv
<1>5. CASE UNCHANGED vars
  <2>1. UNCHANGED <<world, changes, frameNum, turn, entityStates, nextEntityState, frames, lastFrame,
                    network, clFrames, clFrame, entityState, dropped>>
    BY <1>5 DEF vars, serverVars, clientVars
  <2>2. Builds' = Builds
    BY <2>1 DEF Builds
  <2>3. Shapes'
    BY <1>0, <2>1, <2>2 DEF Shapes
  <2>4. Bounds'
    BY <1>0, <2>1 DEF Bounds
  <2> QED
    BY <2>3, <2>4 DEF TypeInv
<1> QED
  BY <1>1, <1>2, <1>3, <1>4, <1>5 DEF Next

\* ... and they imply TypeOK.
LEMMA TypeInvTypeOK ==
  ASSUME TypeInv
  PROVE  TypeOK
<1>0. Shapes /\ Bounds
  BY DEF TypeInv
<1>1. nextEntityState \in 0 .. MaxFrame * MaxClients * MAX_ENTITIES
  <2>1. Builds \in Nat /\ Builds <= MaxFrame * MaxClients
    BY BuildsMost
  <2>2. nextEntityState \in Nat /\ nextEntityState <= Builds * MAX_ENTITIES
    BY <1>0 DEF Shapes
  <2> DEFINE n == MaxFrame * MaxClients
  <2>3. n \in Nat /\ Builds <= n
    BY <2>1, Sizes
  <2> HIDE DEF Builds, n
  <2>4. Builds * MAX_ENTITIES <= n * MAX_ENTITIES /\ Builds * MAX_ENTITIES \in Nat /\ n * MAX_ENTITIES \in Nat
    BY <2>1, <2>3, Sizes
  <2>5. nextEntityState <= n * MAX_ENTITIES
    BY <2>2, <2>4
  <2> QED
    BY <2>2, <2>4, <2>5 DEF n
<1>2. ASSUME NEW c \in Client, NEW s \in 0 .. PACKET_BACKUP - 1
      PROVE  /\ frames[c][s].entityState \in 0 .. nextEntityState
             /\ frames[c][s].numEntities \in 0 .. MAX_ENTITIES
             /\ clFrames[c][s].frameNum \in 0 .. MaxFrame
             /\ clFrames[c][s].entities \in Seq(EntityState)
  <2>1. s \in Backup
    BY DEF Backup
  <2>2. frames[c][s] \in Frame /\ clFrames[c][s] \in ClientFrame
    BY <1>0, <2>1 DEF Shapes
  <2>3. /\ frames[c][s].entityState <= nextEntityState /\ frames[c][s].numEntities <= MAX_ENTITIES
        /\ clFrames[c][s].frameNum <= MaxFrame
    BY <1>0, <2>1 DEF Bounds
  <2> QED
    <3>1. /\ frames[c][s].entityState \in Nat /\ frames[c][s].numEntities \in Nat
          /\ clFrames[c][s].frameNum \in Nat /\ clFrames[c][s].entities \in Seq(EntityState)
      BY <2>2 DEF Frame, ClientFrame
    <3>2. nextEntityState \in Nat
      BY <1>0 DEF Shapes
    <3> QED
      BY <2>3, <3>1, <3>2, Sizes, SMTT(30)
<1> QED
  BY <1>0, <1>1, <1>2 DEF TypeOK, Shapes, Buffer

\* The variables keep their types, and the buffer's position its bound, for any number of clients,
\* entities and frames of backup.
THEOREM TypeCorrectness == Spec => []TypeOK
<1>1. Spec => []TypeInv
  BY InitTypeInv, StepTypeInv, PTL DEF Spec
<1> QED
  BY <1>1, TypeInvTypeOK, PTL

\* The types of what belongs to client c.
LEMMA Typed ==
  ASSUME TypeInv, NEW c \in Client
  PROVE  /\ clFrame[c] \in Nat /\ lastFrame[c] \in Int /\ lastFrame[c] >= -1 /\ entityState[c] \in Nat
         /\ nextEntityState \in Nat /\ entityStates \in Buffer
         /\ frameNum \in Nat /\ turn \in Nat /\ c \in Nat /\ c >= 1 /\ c <= MaxClients
         /\ Sent(c) \in Int
         /\ \A s \in Backup : /\ frames[c][s] \in Frame
                              /\ frames[c][s].entityState \in Nat /\ frames[c][s].numEntities \in Nat
                              /\ clFrames[c][s].frameNum \in Nat /\ clFrames[c][s].entityState \in Nat
         /\ \A m \in network[c] : m.frameNum \in Nat /\ m.deltaFrameNum \in Int
<1>1. Shapes
  BY DEF TypeInv
<1>2. clFrame[c] \in Nat /\ lastFrame[c] \in Int /\ lastFrame[c] >= -1 /\ entityState[c] \in Nat
  <2>1. clFrame[c] \in 0 .. MaxFrame /\ lastFrame[c] \in -1 .. MaxFrame /\ entityState[c] \in Nat
    BY <1>1 DEF Shapes
  <2> QED
    BY <2>1, Sizes
<1>3. /\ nextEntityState \in Nat /\ entityStates \in Buffer
      /\ frameNum \in Nat /\ turn \in Nat /\ c \in Nat /\ c >= 1 /\ c <= MaxClients
  <2>1. nextEntityState \in Nat /\ entityStates \in Buffer
    BY <1>1 DEF Shapes
  <2>2. frameNum \in 0 .. MaxFrame /\ turn \in 0 .. MaxClients
    BY <1>1 DEF Shapes
  <2> QED
    BY <2>1, <2>2, Sizes DEF Client
<1>4. Sent(c) \in Int
  BY <1>3 DEF Sent
<1>5. ASSUME NEW s \in Backup
      PROVE  /\ frames[c][s] \in Frame
             /\ frames[c][s].entityState \in Nat /\ frames[c][s].numEntities \in Nat
             /\ clFrames[c][s].frameNum \in Nat /\ clFrames[c][s].entityState \in Nat
  <2>1. frames[c][s] \in Frame /\ clFrames[c][s] \in ClientFrame
    BY <1>1 DEF Shapes
  <2> QED
    BY <2>1 DEF Frame, ClientFrame
<1>6. \A m \in network[c] : m.frameNum \in Nat /\ m.deltaFrameNum \in Int
  BY <1>1, MessageFacts DEF Shapes
<1> QED
  BY <1>2, <1>3, <1>4, <1>5, <1>6

\* SendClientPackets sends its frame to the client whose turn it is, and to no other.
LEMMA SentNext ==
  ASSUME TypeInv, SendClientPackets, NEW c \in Client
  PROVE  /\ c = turn => Sent(c) = frameNum - 1 /\ Sent(c)' = frameNum
         /\ c # turn => Sent(c)' = Sent(c)
         /\ Sent(c) <= Sent(c)'
         /\ c <= turn => Sent(c)' = frameNum
         /\ c > turn => Sent(c)' = frameNum - 1
<1>1. /\ turn # 0 /\ frameNum' = frameNum
      /\ turn' = IF turn = MaxClients THEN 0 ELSE turn + 1
  BY DEF SendClientPackets
<1>2. /\ frameNum \in Nat /\ turn \in Nat /\ c \in Nat /\ c >= 1 /\ c <= MaxClients
      /\ turn <= MaxClients
  BY Typed, SendFacts DEF Client
<1>3. Sent(c) = IF turn > c THEN frameNum ELSE frameNum - 1
  BY <1>1 DEF Sent
<1>4. Sent(c)' = IF turn >= c THEN frameNum ELSE frameNum - 1
  BY <1>1, <1>2, Sizes DEF Sent
<1> QED
  BY <1>2, <1>3, <1>4

\* Each packet makes every frame one build older; a frame that is still in the server's backup is at
\* most MaxClients * PACKET_BACKUP builds old.
LEMMA AgeNext ==
  ASSUME TypeInv, SendClientPackets, NEW c \in Client, NEW g \in Nat
  PROVE  /\ Age(c, g) \in Int /\ Age(c, g)' = Age(c, g) + 1
         /\ c = turn /\ g = frameNum => Age(c, g)' = 1
         /\ Sent(c)' - g < PACKET_BACKUP => Age(c, g)' <= MaxClients * PACKET_BACKUP
<1>1. /\ frameNum \in Nat /\ frameNum >= 1 /\ turn \in Nat /\ turn >= 1 /\ turn <= MaxClients
      /\ c \in Nat /\ c >= 1 /\ c <= MaxClients
  BY Sizes, SendFacts DEF Client
<1>2. Builds \in Nat /\ Builds' = Builds + 1
  BY BuildsNext
<1>3. (g - 1) * MaxClients \in Int
  BY Sizes
<1>4. Age(c, g) \in Int /\ Age(c, g)' = Age(c, g) + 1
  <2>1. /\ Age(c, g) = Builds - ((g - 1) * MaxClients + c) + 1
        /\ Age(c, g)' = Builds' - ((g - 1) * MaxClients + c) + 1
    BY DEF Age
  <2> HIDE DEF Builds
  <2> QED
    BY <1>1, <1>2, <1>3, <2>1
<1>5. Builds = (frameNum - 1) * MaxClients + (turn - 1)
  BY <1>1 DEF Builds
<1>6. Age(c, g)' = ((frameNum - 1) * MaxClients - (g - 1) * MaxClients) + (turn - c) + 1
  <2>1. Age(c, g) = Builds - ((g - 1) * MaxClients + c) + 1
    BY DEF Age
  <2>2. (frameNum - 1) * MaxClients \in Int
    BY <1>1, Sizes
  <2> QED
    BY <1>1, <1>3, <1>4, <1>5, <2>1, <2>2
<1>7. Age(c, g)' = (frameNum - g) * MaxClients + (turn - c) + 1
  <2>1. (frameNum - 1) * MaxClients - (g - 1) * MaxClients = (frameNum - g) * MaxClients
    BY <1>1, Sizes
  <2> QED
    BY <1>6, <2>1
<1>8. ASSUME c = turn, g = frameNum PROVE Age(c, g)' = 1
  <2>1. (frameNum - g) * MaxClients = 0
    BY <1>1, <1>8, Sizes
  <2> QED
    BY <1>1, <1>7, <1>8, <2>1
<1>9. ASSUME Sent(c)' - g < PACKET_BACKUP PROVE Age(c, g)' <= MaxClients * PACKET_BACKUP
  <2> DEFINE n == frameNum - g
             B == PACKET_BACKUP
  <2>0. n \in Int /\ B \in Nat /\ MaxClients \in Nat
    BY <1>1, Sizes
  <2>1. CASE c <= turn
    <3>1. n <= B - 1
      BY <1>1, <1>9, <2>1, SentNext, Sizes
    <3> HIDE DEF n, B
    <3>2. n * MaxClients <= (B - 1) * MaxClients
      BY <2>0, <3>1
    <3>3. (B - 1) * MaxClients = MaxClients * B - MaxClients
      BY <2>0
    <3>4. n * MaxClients \in Int /\ MaxClients * B \in Int
      BY <2>0
    <3> QED
      BY <1>1, <1>7, <2>0, <2>1, <3>2, <3>3, <3>4 DEF n, B
  <2>2. CASE c > turn
    <3>1. n <= B
      BY <1>1, <1>9, <2>2, SentNext, Sizes
    <3> HIDE DEF n, B
    <3>2. n * MaxClients <= MaxClients * B
      BY <2>0, <3>1
    <3>3. n * MaxClients \in Int /\ MaxClients * B \in Int
      BY <2>0
    <3> QED
      BY <1>1, <1>7, <2>0, <2>2, <3>2, <3>3 DEF n, B
  <2> QED
    BY <1>1, <2>1, <2>2
<1> QED
  BY <1>4, <1>8, <1>9

\* So many builds, of MAX_ENTITIES divided by MaxClients states each, fit in the buffer.
LEMMA FitsBuffer ==
  ASSUME NEW x \in Int, NEW a \in Int, MaxClients * x <= a * MAX_ENTITIES,
         a <= MaxClients * PACKET_BACKUP
  PROVE  x <= numEntityStates
<1> DEFINE C == MaxClients
           M == MAX_ENTITIES
           B == PACKET_BACKUP
<1>1. C \in Nat /\ C >= 1 /\ M \in Nat /\ B \in Nat /\ numEntityStates = B * M
  BY Sizes
<1>2. C * x <= a * M /\ a <= C * B
  OBVIOUS
<1> HIDE DEF C, M, B
<1>3. a * M <= (C * B) * M
  BY <1>1, <1>2
<1>4. (C * B) * M = C * (B * M)
  BY <1>1
<1> DEFINE N == B * M
<1>5. N \in Nat /\ C * x <= C * N
  BY <1>1, <1>2, <1>3, <1>4
<1> HIDE DEF N
<1>6. x <= N
  BY <1>1, <1>5
<1> QED
  BY <1>1, <1>6 DEF N

\* The frame g that was sent to c is still whole once one more frame is built.
LEMMA Kept ==
  ASSUME TypeInv, FramesIntact, FewVisible, SendClientPackets,
         NEW c \in Client, NEW g \in 1 .. Sent(c), Sent(c)' - g < PACKET_BACKUP
  PROVE  /\ frames'[c][Slot(g)] = frames[c][Slot(g)]
         /\ StatesOf(Added(Built), frames[c][Slot(g)]) = StatesOf(entityStates, frames[c][Slot(g)])
         /\ Intact(c, g)'
<1> DEFINE f == frames[c][Slot(g)]
           L == Len(Built)
<1>1. /\ Sent(c) \in Int /\ g \in Nat /\ g >= 1 /\ g <= Sent(c) /\ Sent(c)' \in Int
      /\ Sent(c) - g < PACKET_BACKUP /\ frameNum \in Nat
  BY Typed, SentNext, Sizes
<1>2. Slot(g) \in Backup
  BY <1>1, SlotFacts DEF Backup
<1>3. f.entityState \in Nat /\ f.numEntities \in Nat /\ nextEntityState \in Nat
  BY <1>2, Typed
<1>4. /\ f.entityState + f.numEntities <= nextEntityState
      /\ MaxClients * (nextEntityState - f.entityState) <= Age(c, g) * MAX_ENTITIES
  BY <1>1 DEF FramesIntact, Intact
<1>5. /\ Built \in Seq(EntityState) /\ L \in Nat /\ L <= numEntityStates
      /\ MaxClients * L <= MAX_ENTITIES
  BY BuiltFacts DEF TypeInv, Shapes, FewVisible
<1>6. frames'[c][Slot(g)] = f
  <2>1. CASE c = turn
    <3>1. g < frameNum /\ frameNum - g < PACKET_BACKUP
      BY <1>1, <2>1, SentNext
    <3>2. Slot(g) # Slot(frameNum)
      BY <1>1, <3>1, SlotFacts
    <3> QED
      BY <1>2, <3>2, SendFacts
  <2>2. CASE c # turn
    BY <1>2, <2>2, SendFacts
  <2> QED
    BY <2>1, <2>2
<1>7. /\ Age(c, g) \in Int /\ Age(c, g)' = Age(c, g) + 1
      /\ Age(c, g)' <= MaxClients * PACKET_BACKUP
  BY <1>1, AgeNext
<1> HIDE DEF f, L
<1>8. MaxClients * (nextEntityState + L - f.entityState) <= (Age(c, g) + 1) * MAX_ENTITIES
  <2> DEFINE x == nextEntityState - f.entityState
             a == Age(c, g)
  <2>1. x \in Int /\ a \in Int /\ nextEntityState + L - f.entityState = x + L
    BY <1>3, <1>5, <1>7
  <2>2. MaxClients * x <= a * MAX_ENTITIES
    BY <1>4
  <2> HIDE DEF x, a
  <2>3. MaxClients * (x + L) = MaxClients * x + MaxClients * L
    BY <1>5, <2>1, Sizes
  <2>4. (a + 1) * MAX_ENTITIES = a * MAX_ENTITIES + MAX_ENTITIES
    BY <2>1, Sizes
  <2>5. /\ MaxClients * x \in Int /\ MaxClients * L \in Int /\ a * MAX_ENTITIES \in Int
    BY <1>5, <2>1, Sizes
  <2>6. MaxClients * (x + L) <= (a + 1) * MAX_ENTITIES
    BY <1>5, <2>2, <2>3, <2>4, <2>5, Sizes
  <2> QED
    BY <2>1, <2>6 DEF a
<1>9. nextEntityState + L - f.entityState <= numEntityStates
  <2>1. nextEntityState + L - f.entityState \in Int /\ Age(c, g) + 1 \in Int
    BY <1>3, <1>5, <1>7
  <2>2. Age(c, g) + 1 <= MaxClients * PACKET_BACKUP
    BY <1>7
  <2> QED
    BY <1>8, <2>1, <2>2, FitsBuffer
<1>10. StatesOf(Added(Built), f) = StatesOf(entityStates, f)
  <2>1. entityStates \in Buffer
    BY Typed
  <2> QED
    BY <1>3, <1>4, <1>5, <1>9, <2>1, StatesKept DEF L
<1>11. nextEntityState' = nextEntityState + L
  BY SendFacts DEF L
<1>12. Intact(c, g)'
  <2>1. f.entityState + f.numEntities <= nextEntityState'
    BY <1>3, <1>4, <1>5, <1>11
  <2>2. MaxClients * (nextEntityState' - f.entityState) <= Age(c, g)' * MAX_ENTITIES
    <3>1. Age(c, g)' * MAX_ENTITIES = (Age(c, g) + 1) * MAX_ENTITIES
      BY <1>7
    <3>2. nextEntityState' - f.entityState = nextEntityState + L - f.entityState
      BY <1>3, <1>5, <1>11
    <3> QED
      BY <1>8, <3>1, <3>2
  <2> QED
    BY <1>6, <2>1, <2>2 DEF Intact
<1> QED
  BY <1>6, <1>10, <1>12 DEF f

\* The invariant of frames holds at the start.
LEMMA InitFrameInv ==
  ASSUME Init
  PROVE  FrameInv
<1>1. /\ turn = 0 /\ frameNum = 0 /\ dropped = {}
      /\ \A c \in Client : network[c] = {} /\ lastFrame[c] = -1 /\ clFrame[c] = 0
  BY DEF Init
<1>2. \A c \in Client : Sent(c) = 0
  BY <1>1 DEF Sent
<1>3. \A c \in Client : \A s \in Backup : clFrames[c][s] = NoFrame
  BY DEF Init, Backup
<1>4. ~ NoFrame.valid /\ NoFrame.entities = NoFrame.built
  BY DEF NoFrame
<1>5. FramesIntact
  BY <1>2 DEF FramesIntact
<1>6. ClientFramesMatch
  BY <1>1, <1>2, <1>3, <1>4 DEF ClientFramesMatch
<1>7. MessagesMatch /\ LastFrameHeld
  BY <1>1 DEF MessagesMatch, LastFrameHeld
<1> QED
  BY <1>1, <1>5, <1>6, <1>7 DEF FrameInv

\* A step that neither sends nor parses a frame.
LEMMA QuietFrameInv ==
  ASSUME TypeInv, FrameInv,
         UNCHANGED <<entityStates, nextEntityState, frames, network,
                     clFrames, clFrame, entityState, dropped>>,
         \A c \in Client : Sent(c)' = Sent(c),
         \A c \in Client, g \in Int : Age(c, g)' = Age(c, g)
  PROVE  FramesIntact' /\ ClientFramesMatch' /\ MessagesMatch' /\ dropped' = {}
<1>1. FramesIntact'
  <2>1. ASSUME NEW c \in Client, NEW g \in 1 .. Sent(c), Sent(c) - g < PACKET_BACKUP
        PROVE  Intact(c, g)'
    <3>1. Intact(c, g) /\ Age(c, g)' = Age(c, g)
      BY <2>1 DEF FrameInv, FramesIntact
    <3> QED
      BY <3>1 DEF Intact
  <2> QED
    BY <2>1 DEF FramesIntact
<1>2. ClientFramesMatch'
  BY DEF FrameInv, ClientFramesMatch, Valid, Holds
<1>3. MessagesMatch'
  BY DEF FrameInv, MessagesMatch, Holds, Decodable, HasFrame
<1> QED
  BY <1>1, <1>2, <1>3 DEF FrameInv

\* The game changes the world and sends nothing: RunGameFrame keeps the invariant.
LEMMA RunGameFrameInv ==
  ASSUME TypeInv, FrameInv, RunGameFrame
  PROVE  FrameInv'
<1>1. /\ turn = 0 /\ turn' = 1 /\ frameNum' = frameNum + 1 /\ frameNum \in Nat
      /\ UNCHANGED <<entityStates, nextEntityState, frames, lastFrame, network,
                     clFrames, clFrame, entityState, dropped>>
  BY Sizes DEF RunGameFrame, clientVars, TypeInv, Shapes
<1>2. \A c \in Client : Sent(c)' = Sent(c)
  BY <1>1, Sizes DEF Sent, Client
<1>3. Builds' = Builds
  <2>1. (frameNum' - 1) * MaxClients + (turn' - 1) = frameNum * MaxClients
    BY <1>1, Sizes
  <2> QED
    BY <1>1, <2>1 DEF Builds
<1>4. \A c \in Client, g \in Int : Age(c, g)' = Age(c, g)
  BY <1>3 DEF Age
<1>5. FramesIntact' /\ ClientFramesMatch' /\ MessagesMatch' /\ dropped' = {}
  BY <1>1, <1>2, <1>4, QuietFrameInv
<1>6. LastFrameHeld'
  BY <1>1, <1>2 DEF FrameInv, LastFrameHeld, HasFrame
<1> QED
  BY <1>5, <1>6 DEF FrameInv

\* A step that changes nothing keeps the invariant.
LEMMA StutterFrameInv ==
  ASSUME TypeInv, FrameInv, UNCHANGED vars
  PROVE  FrameInv'
<1>1. UNCHANGED <<world, changes, frameNum, turn, entityStates, nextEntityState, frames, lastFrame,
                  network, clFrames, clFrame, entityState, dropped>>
  BY DEF vars, serverVars, clientVars
<1>2. \A c \in Client : Sent(c)' = Sent(c)
  BY <1>1 DEF Sent
<1>3. \A c \in Client, g \in Int : Age(c, g)' = Age(c, g)
  BY <1>1 DEF Age, Builds
<1>4. FramesIntact' /\ ClientFramesMatch' /\ MessagesMatch' /\ dropped' = {}
  BY <1>1, <1>2, <1>3, QuietFrameInv
<1>5. LastFrameHeld'
  BY <1>1, <1>2 DEF FrameInv, LastFrameHeld, HasFrame
<1> QED
  BY <1>4, <1>5 DEF FrameInv

\* The frame that the client acknowledges is one it holds: Acknowledge keeps the invariant.
LEMMA AcknowledgeInv ==
  ASSUME TypeInv, FrameInv, NEW c \in Client, Acknowledge(c)
  PROVE  FrameInv'
<1>1. UNCHANGED <<world, changes, frameNum, turn, entityStates, nextEntityState, frames, network,
                  clFrames, clFrame, entityState, dropped>>
  BY DEF Acknowledge, serverVars, clientVars
<1>2. \A d \in Client : Sent(d)' = Sent(d)
  BY <1>1 DEF Sent
<1>3. \A d \in Client, g \in Int : Age(d, g)' = Age(d, g)
  BY <1>1 DEF Age, Builds
<1>4. FramesIntact' /\ ClientFramesMatch' /\ MessagesMatch' /\ dropped' = {}
  BY <1>1, <1>2, <1>3, QuietFrameInv
<1>5. PICK s \in DOMAIN clFrames[c] :
        /\ clFrames[c][s].valid
        /\ lastFrame' = [lastFrame EXCEPT ![c] = clFrames[c][s].frameNum]
  BY DEF Acknowledge
<1>6. s \in Backup
  BY <1>5 DEF TypeInv, Shapes
<1>7. Valid(c, s)
  BY <1>5, <1>6 DEF FrameInv, ClientFramesMatch
<1> DEFINE l == clFrames[c][s].frameNum
<1>8. l >= 1 /\ l <= clFrame[c] /\ HasFrame(c, l)
  BY <1>5, <1>7 DEF Valid, HasFrame
<1>9. lastFrame'[c] = l /\ \A d \in Client : d # c => lastFrame'[d] = lastFrame[d]
  BY <1>5 DEF TypeInv, Shapes
<1> HIDE DEF l
<1>10. LastFrameHeld'
  BY <1>1, <1>2, <1>8, <1>9 DEF FrameInv, LastFrameHeld, HasFrame
<1> QED
  BY <1>4, <1>10 DEF FrameInv

\* What the buffer holds of an earlier frame it still holds when one more was built.
LEMMA HoldsNext ==
  ASSUME TypeInv, FramesIntact, FewVisible, SendClientPackets,
         NEW c \in Client, NEW g \in 1 .. Sent(c), NEW states, Holds(c, g, states)
  PROVE  Sent(c)' - g < PACKET_BACKUP => StatesOf(entityStates', frames'[c][Slot(g)]) = states
<1> SUFFICES ASSUME Sent(c)' - g < PACKET_BACKUP
             PROVE  StatesOf(entityStates', frames'[c][Slot(g)]) = states
  OBVIOUS
<1>1. /\ frames'[c][Slot(g)] = frames[c][Slot(g)]
      /\ StatesOf(Added(Built), frames[c][Slot(g)]) = StatesOf(entityStates, frames[c][Slot(g)])
  BY Kept
<1>2. entityStates' = Added(Built)
  BY SendFacts
<1>3. Sent(c) \in Int /\ Sent(c) <= Sent(c)' /\ Sent(c)' \in Int /\ g \in Int
  <2>1. Sent(c) \in Int /\ frameNum \in Int
    BY Typed
  <2> QED
    BY <2>1, SentNext
<1>4. Sent(c) - g < PACKET_BACKUP
  BY <1>3, Sizes
<1> QED
  BY <1>1, <1>2, <1>4 DEF Holds

\* SendClientPackets keeps every frame of the backup whole in the buffer.
LEMMA SendFramesIntact ==
  ASSUME TypeInv, FrameInv, FewVisible, SendClientPackets
  PROVE  FramesIntact'
<1>0. FramesIntact
  BY DEF FrameInv
<1>1. ASSUME NEW c \in Client, NEW g \in 1 .. Sent(c)', Sent(c)' - g < PACKET_BACKUP
      PROVE  Intact(c, g)'
  <2>0. Sent(c) \in Int /\ frameNum \in Nat /\ g \in Nat
    BY Typed
  <2>1. CASE c = turn /\ g = frameNum
    <3>1. /\ frames'[c][Slot(g)] = NewFrame /\ nextEntityState' = nextEntityState + Len(Built)
      BY <2>1, SendFacts
    <3>2. nextEntityState \in Nat /\ Len(Built) \in Nat
      BY Typed, BuiltFacts DEF TypeInv, Shapes
    <3>3. NewFrame.entityState = nextEntityState /\ NewFrame.numEntities = Len(Built)
      BY DEF NewFrame
    <3>4. Age(c, g)' = 1
      BY <2>0, <2>1, AgeNext
    <3>5. MaxClients * Len(Built) <= 1 * MAX_ENTITIES
      BY Sizes DEF FewVisible
    <3>6. nextEntityState' - nextEntityState = Len(Built)
      BY <3>1, <3>2
    <3> QED
      BY <3>1, <3>2, <3>3, <3>4, <3>5, <3>6 DEF Intact
  <2>2. CASE ~ (c = turn /\ g = frameNum)
    <3>1. g \in 1 .. Sent(c)
      BY <2>0, <2>2, SentNext
    <3> QED
      BY <1>0, <1>1, <3>1, Kept
  <2> QED
    BY <2>1, <2>2
<1> QED
  BY <1>1 DEF FramesIntact

\* SendClientPackets keeps what is known of the clients' frames.
LEMMA SendClientFrames ==
  ASSUME TypeInv, FrameInv, FewVisible, SendClientPackets
  PROVE  ClientFramesMatch'
<1>0. FramesIntact /\ ClientFramesMatch
  BY DEF FrameInv
<1>1. UNCHANGED <<lastFrame, clFrames, clFrame, entityState, dropped>>
  BY DEF SendClientPackets, clientVars
<1>2. ASSUME NEW c \in Client PROVE clFrame[c] <= Sent(c)'
  <2>1. clFrame[c] \in Int /\ Sent(c) \in Int /\ frameNum \in Int
    BY Typed
  <2>2. clFrame[c] <= Sent(c) /\ Sent(c) <= Sent(c)' /\ Sent(c)' \in Int
    BY <1>0, <2>1, SentNext DEF ClientFramesMatch
  <2> QED
    BY <2>1, <2>2
<1>3. ASSUME NEW c \in Client, NEW s \in Backup, clFrames[c][s].valid
      PROVE  Valid(c, s)'
  <2> DEFINE f == clFrames[c][s]
             g == f.frameNum
  <2>1. Valid(c, s)
    BY <1>0, <1>3 DEF ClientFramesMatch
  <2>2. g \in Nat /\ clFrame[c] \in Nat /\ Sent(c) \in Int
    BY Typed
  <2>3. g >= 1 /\ g <= clFrame[c] /\ Holds(c, g, f.built) /\ clFrame[c] <= Sent(c)
    BY <1>0, <2>1 DEF Valid, ClientFramesMatch
  <2>4. g \in 1 .. Sent(c)
    BY <2>2, <2>3
  <2> HIDE DEF g
  <2>5. Sent(c)' - g < PACKET_BACKUP => StatesOf(entityStates', frames'[c][Slot(g)]) = f.built
    BY <1>0, <2>3, <2>4, HoldsNext
  <2> QED
    BY <1>1, <2>1, <2>5 DEF Valid, Holds, g
<1> QED
  BY <1>0, <1>1, <1>2, <1>3 DEF ClientFramesMatch

\* The new message is taken from a frame that the client holds and the buffer has.
LEMMA SendMessages ==
  ASSUME TypeInv, FrameInv, FewVisible, SendClientPackets
  PROVE  MessagesMatch'
<1>0. FramesIntact /\ ClientFramesMatch /\ MessagesMatch /\ LastFrameHeld
  BY DEF FrameInv
<1>1. UNCHANGED <<frameNum, lastFrame, clFrames, clFrame, entityState, dropped>>
  BY DEF SendClientPackets, clientVars
<1>2. ASSUME NEW c \in Client, NEW m \in network[c]
      PROVE  /\ clFrame[c] < m.frameNum /\ m.frameNum <= Sent(c)'
             /\ Sorted(m.built) /\ Len(m.built) <= MAX_ENTITIES
             /\ Holds(c, m.frameNum, m.built)' /\ Decodable(c, m)'
  <2> DEFINE g == m.frameNum
  <2>1. g \in Nat /\ clFrame[c] \in Nat /\ Sent(c) \in Int /\ frameNum \in Int
    BY Typed
  <2>2. /\ clFrame[c] < g /\ g <= Sent(c)
        /\ Sorted(m.built) /\ Len(m.built) <= MAX_ENTITIES
        /\ Holds(c, g, m.built) /\ Decodable(c, m)
    BY <1>0 DEF MessagesMatch
  <2>3. g \in 1 .. Sent(c)
    BY <2>1, <2>2
  <2> HIDE DEF g
  <2>4. Sent(c)' - g < PACKET_BACKUP => StatesOf(entityStates', frames'[c][Slot(g)]) = m.built
    BY <1>0, <2>2, <2>3, HoldsNext
  <2>5. g <= Sent(c)'
    BY <2>1, <2>2, SentNext
  <2>6. Decodable(c, m)'
    BY <1>1, <2>2 DEF Decodable, HasFrame
  <2> QED
    BY <2>2, <2>4, <2>5, <2>6 DEF Holds, g
<1>a. PICK c \in Client : c = turn
  BY SendFacts
<1>b. PICK m : m = NewMessage(c)
  OBVIOUS
<1>c. PICK d : d = DeltaFrameNum(c)
  OBVIOUS
<1>3. c \in Client /\ frameNum \in Nat /\ (d = -1 \/ d \in Nat)
  BY <1>a, <1>c, SendFacts
<1>4. /\ m.frameNum = frameNum /\ m.deltaFrameNum = d /\ m.built = Built
      /\ m.entities = WriteEntities(FromOf(c), Built)
  BY <1>b, <1>c DEF NewMessage
<1>5. Sent(c) = frameNum - 1 /\ Sent(c)' = frameNum
  BY <1>a, <1>3, SentNext
<1>6. clFrame[c] < frameNum
  BY <1>0, <1>3, <1>5, Typed DEF ClientFramesMatch
<1>7. Sorted(Built) /\ Built \in Seq(EntityState) /\ Len(Built) <= MAX_ENTITIES /\ Len(Built) <= numEntityStates
  BY BuiltFacts DEF TypeInv, Shapes
<1>8. StatesOf(entityStates', frames'[c][Slot(frameNum)]) = Built
  <2>1. frames'[c][Slot(frameNum)] = NewFrame /\ entityStates' = Added(Built)
    BY <1>a, SendFacts
  <2>2. entityStates \in Buffer /\ nextEntityState \in Nat
    BY <1>3, Typed
  <2>3. StatesOf(Added(Built), NewFrame) = Built
    BY <1>7, <2>2, StatesAdded DEF NewFrame
  <2> QED
    BY <2>1, <2>3
<1>9. \/ d = -1 /\ FromOf(c) = <<>>
      \/ /\ d >= 1 /\ HasFrame(c, d) /\ frameNum - d <= PACKET_BACKUP - 4
         /\ FromOf(c) = clFrames[c][Slot(d)].built
  <2>1. CASE d = -1
    BY <1>c, <2>1 DEF FromOf
  <2>2. CASE d # -1
    <3>1. d = lastFrame[c] /\ frameNum - d < PACKET_BACKUP - 3 /\ d \in Nat
      BY <1>c, <1>3, <2>2, Typed, Sizes DEF DeltaFrameNum
    <3>2. frameNum - d <= PACKET_BACKUP - 4 /\ Sent(c) - d < PACKET_BACKUP /\ Sent(c)' - d < PACKET_BACKUP
      BY <1>3, <1>5, <3>1, Sizes
    <3>3. d >= 1 /\ d <= clFrame[c] /\ HasFrame(c, d)
      BY <1>0, <1>3, <2>2, <3>1, <3>2 DEF LastFrameHeld
    <3>4. Slot(d) \in Backup
      BY <3>1, SlotFacts DEF Backup
    <3>5. Valid(c, Slot(d)) /\ clFrames[c][Slot(d)].frameNum = d
      BY <1>0, <1>3, <3>3, <3>4 DEF ClientFramesMatch, HasFrame
    <3>6. Holds(c, d, clFrames[c][Slot(d)].built)
      BY <3>5 DEF Valid
    <3>7. StatesOf(entityStates, frames[c][Slot(d)]) = clFrames[c][Slot(d)].built
      BY <3>2, <3>6 DEF Holds
    <3>8. d \in 1 .. Sent(c)
      BY <1>3, <1>5, <1>6, <3>1, <3>3, Typed
    <3>9. StatesOf(Added(Built), frames[c][Slot(d)]) = StatesOf(entityStates, frames[c][Slot(d)])
      BY <1>0, <1>3, <3>2, <3>8, Kept
    <3>10. FromOf(c) = StatesOf(Added(Built), frames[c][Slot(d)])
      BY <1>c, <2>2 DEF FromOf
    <3> QED
      BY <3>2, <3>3, <3>7, <3>9, <3>10
  <2> QED
    BY <2>1, <2>2
<1>10. Decodable(c, m)'
  BY <1>1, <1>4, <1>9 DEF Decodable, HasFrame
<1>11. /\ clFrame[c] < m.frameNum /\ m.frameNum <= Sent(c)'
       /\ Sorted(m.built) /\ Len(m.built) <= MAX_ENTITIES
       /\ Sent(c)' - m.frameNum < PACKET_BACKUP =>
            StatesOf(entityStates', frames'[c][Slot(m.frameNum)]) = m.built
  BY <1>3, <1>4, <1>5, <1>6, <1>7, <1>8
<1> QED
  <2>1. ASSUME NEW e \in Client, NEW n \in network'[e]
        PROVE  /\ clFrame'[e] < n.frameNum /\ n.frameNum <= Sent(e)'
               /\ Sorted(n.built) /\ Len(n.built) <= MAX_ENTITIES
               /\ Holds(e, n.frameNum, n.built)' /\ Decodable(e, n)'
    <3>1. n \in network[e] \/ (e = c /\ n = m)
      BY <1>a, <1>b, SendFacts
    <3>2. CASE n \in network[e]
      BY <1>1, <1>2, <3>2
    <3>3. CASE e = c /\ n = m
      BY <1>1, <1>10, <1>11, <3>3 DEF Holds
    <3> QED
      BY <3>1, <3>2, <3>3
  <2> QED
    BY <2>1 DEF MessagesMatch

\* SendClientPackets keeps the invariant, as long as few entities are visible.
LEMMA SendFrameInv ==
  ASSUME TypeInv, FrameInv, FewVisible, SendClientPackets
  PROVE  FrameInv'
<1>1. FramesIntact' /\ ClientFramesMatch' /\ MessagesMatch'
  BY SendFramesIntact, SendClientFrames, SendMessages
<1>2. UNCHANGED <<lastFrame, clFrames, clFrame, entityState, dropped>>
  BY DEF SendClientPackets, clientVars
<1>3. ASSUME NEW c \in Client
      PROVE  \/ lastFrame[c] = -1
             \/ /\ lastFrame[c] >= 1 /\ lastFrame[c] <= clFrame[c]
                /\ Sent(c)' - lastFrame[c] < PACKET_BACKUP => HasFrame(c, lastFrame[c])
  <2>1. Sent(c) \in Int /\ frameNum \in Int /\ lastFrame[c] \in Int
    BY Typed
  <2>2. Sent(c)' \in Int /\ Sent(c) <= Sent(c)'
    BY <2>1, SentNext
  <2>3. Sent(c)' - lastFrame[c] < PACKET_BACKUP => Sent(c) - lastFrame[c] < PACKET_BACKUP
    BY <2>1, <2>2, Sizes
  <2> QED
    BY <2>3 DEF FrameInv, LastFrameHeld
<1>4. LastFrameHeld'
  BY <1>2, <1>3 DEF LastFrameHeld, HasFrame
<1> QED
  BY <1>1, <1>2, <1>4 DEF FrameInv

\* A client can decode every message that reaches it, and decodes what was built.
LEMMA ParseDecodes ==
  ASSUME TypeInv, FrameInv, PACKET_BACKUP <= 4 * MAX_ENTITIES,
         NEW c \in Client, NEW m \in network[c]
  PROVE  ~ Undecodable(c, m) /\ Decoded(c, m) = m.built
<1>1. /\ clFrame[c] < m.frameNum /\ Sorted(m.built) /\ Decodable(c, m)
  BY DEF FrameInv, MessagesMatch
<1>2. /\ m.frameNum \in Nat /\ m.deltaFrameNum \in Int /\ clFrame[c] \in Nat /\ entityState[c] \in Nat
  BY Typed
<1> DEFINE d == m.deltaFrameNum
<1>3. CASE d = -1 /\ m.entities = WriteEntities(<<>>, m.built)
  <2>1. ~ Undecodable(c, m)
    BY <1>3 DEF Undecodable
  <2>2. ClientFrom(c, m) = <<>>
    BY <1>3 DEF ClientFrom
  <2>3. ParseEntities(<<>>, WriteEntities(<<>>, m.built)) = m.built
    BY <1>1, BelowNone, ParseWritten
  <2> QED
    BY <1>3, <2>1, <2>2, <2>3 DEF Decoded
<1>4. CASE /\ d >= 1 /\ HasFrame(c, d) /\ m.frameNum - d <= PACKET_BACKUP - 4
           /\ m.entities = WriteEntities(clFrames[c][Slot(d)].built, m.built)
  <2> DEFINE f == clFrames[c][Slot(d)]
  <2>1. Slot(d) \in Backup
    BY <1>2, <1>4, SlotFacts DEF Backup
  <2>2. f.valid /\ f.frameNum = d
    BY <1>4 DEF HasFrame
  <2>3. Valid(c, Slot(d)) /\ f.entities = f.built
    BY <2>1, <2>2 DEF FrameInv, ClientFramesMatch
  <2>4. /\ Sorted(f.built)
        /\ entityState[c] - f.entityState <= (clFrame[c] - d + 1) * MAX_ENTITIES
    BY <2>2, <2>3 DEF Valid
  <2>5. f.entityState \in Nat
    BY <2>1, Typed
  <2> HIDE DEF f
  <2>6. entityState[c] - f.entityState <= numEntityStates - PACKET_BACKUP
    <3> DEFINE n == clFrame[c] - d + 1
    <3>1. n \in Int /\ n <= PACKET_BACKUP - 4
      BY <1>1, <1>2, <1>4, Sizes
    <3>2. entityState[c] - f.entityState <= n * MAX_ENTITIES
      BY <2>4
    <3> HIDE DEF n
    <3>3. n * MAX_ENTITIES <= (PACKET_BACKUP - 4) * MAX_ENTITIES
      BY <3>1, Sizes
    <3>4. (PACKET_BACKUP - 4) * MAX_ENTITIES = numEntityStates - 4 * MAX_ENTITIES
      BY Sizes
    <3>5. n * MAX_ENTITIES \in Int /\ numEntityStates \in Int
      BY <3>1, Sizes, NumStates
    <3> QED
      BY <1>2, <2>5, <3>2, <3>3, <3>4, <3>5, Sizes
  <2>7. ~ Undecodable(c, m)
    <3>1. ~ (entityState[c] - f.entityState > numEntityStates - PACKET_BACKUP)
      BY <1>2, <2>5, <2>6, Sizes, NumStates
    <3> QED
      BY <2>2, <3>1 DEF Undecodable, f
  <2>8. ClientFrom(c, m) = f.built
    BY <1>2, <1>4, <2>3 DEF ClientFrom, f
  <2>9. ParseEntities(f.built, WriteEntities(f.built, m.built)) = m.built
    BY <1>1, <2>4, ParseWritten
  <2> QED
    BY <1>4, <2>7, <2>8, <2>9 DEF Decoded, f
<1> QED
  BY <1>1, <1>3, <1>4 DEF Decodable

\* ParseFrame keeps the invariant: what it overwrites no message on its way is taken from.
LEMMA ParseFrameInv ==
  ASSUME TypeInv, FrameInv, PACKET_BACKUP <= 4 * MAX_ENTITIES,
         NEW c \in Client, NEW m \in network[c], ParseFrame(c, m)
  PROVE  FrameInv'
<1>0. FramesIntact /\ ClientFramesMatch /\ MessagesMatch /\ LastFrameHeld /\ dropped = {}
  BY DEF FrameInv
<1>1. UNCHANGED <<frameNum, turn, entityStates, nextEntityState, frames, lastFrame>>
  BY DEF ParseFrame, serverVars
<1>2. \A d \in Client : Sent(d)' = Sent(d)
  BY <1>1 DEF Sent
<1>3. \A d \in Client, g \in Int : Age(d, g)' = Age(d, g)
  BY <1>1 DEF Age, Builds
<1>4. Stored(c, m) /\ Decoded(c, m) = m.built
  BY ParseDecodes, ParseFacts
<1>5. /\ Slot(m.frameNum) \in Backup
      /\ \A d \in Client : network'[d] \subseteq network[d]
      /\ \A n \in network'[c] : n.frameNum > m.frameNum
  BY ParseFacts
<1>6. /\ clFrame[c] < m.frameNum /\ m.frameNum <= Sent(c)
      /\ Sorted(m.built) /\ Len(m.built) <= MAX_ENTITIES
      /\ Holds(c, m.frameNum, m.built)
  BY <1>0 DEF MessagesMatch
<1>7. /\ m.frameNum \in Nat /\ clFrame[c] \in Nat /\ Sent(c) \in Int /\ entityState[c] \in Nat
      /\ lastFrame[c] \in Int /\ Len(m.built) \in Nat
  BY <1>6, Typed, LenProperties DEF Sorted
<1>8. /\ clFrames'[c][Slot(m.frameNum)] = NewClientFrame(c, m)
      /\ \A d \in Client, s \in Backup :
           d # c \/ s # Slot(m.frameNum) => clFrames'[d][s] = clFrames[d][s]
      /\ clFrame'[c] = m.frameNum /\ entityState'[c] = entityState[c] + Len(m.built)
      /\ \A d \in Client : d # c => clFrame'[d] = clFrame[d] /\ entityState'[d] = entityState[d]
      /\ dropped' = {}
  BY <1>0, <1>4 DEF Stored
\* A frame that c has and a later frame is taken from stays.
<1>9. ASSUME NEW g \in Nat, HasFrame(c, g), g < m.frameNum, m.frameNum - g < PACKET_BACKUP
      PROVE  clFrames'[c][Slot(g)] = clFrames[c][Slot(g)]
  <2>1. Slot(g) \in Backup /\ Slot(g) # Slot(m.frameNum)
    BY <1>7, <1>9, SlotFacts DEF Backup
  <2> QED
    BY <1>8, <2>1
<1>10. ASSUME NEW d \in Client, NEW g \in Nat, d # c
       PROVE  clFrames'[d][Slot(g)] = clFrames[d][Slot(g)]
  <2>1. Slot(g) \in Backup
    BY SlotFacts DEF Backup
  <2> QED
    BY <1>8, <1>10, <2>1
<1>11. FramesIntact'
  <2>1. ASSUME NEW d \in Client, NEW g \in 1 .. Sent(d), Sent(d) - g < PACKET_BACKUP
        PROVE  Intact(d, g)'
    <3>1. Intact(d, g) /\ Age(d, g)' = Age(d, g)
      BY <1>0, <1>3, <2>1 DEF FramesIntact
    <3> QED
      BY <1>1, <3>1 DEF Intact
  <2> QED
    BY <1>2, <2>1 DEF FramesIntact
<1>12. ASSUME NEW d \in Client, NEW s \in Backup
       PROVE  /\ clFrames'[d][s].entities = clFrames'[d][s].built
              /\ clFrames'[d][s].valid => Valid(d, s)'
  <2>1. CASE d # c
    <3>1. clFrames'[d][s] = clFrames[d][s] /\ clFrame'[d] = clFrame[d] /\ entityState'[d] = entityState[d]
      BY <1>8, <2>1
    <3>2. /\ clFrames[d][s].entities = clFrames[d][s].built
          /\ clFrames[d][s].valid => Valid(d, s)
      BY <1>0 DEF ClientFramesMatch
    <3> QED
      BY <1>1, <1>2, <3>1, <3>2 DEF Valid, Holds
  <2>2. CASE d = c /\ s = Slot(m.frameNum)
    <3> DEFINE f == NewClientFrame(c, m)
    <3>1. clFrames'[d][s] = f
      BY <1>8, <2>2
    <3>2. /\ f.entities = m.built /\ f.built = m.built
          /\ f.frameNum = m.frameNum /\ f.entityState = entityState[c]
      BY <1>4 DEF NewClientFrame
    <3> HIDE DEF f
    <3>3. /\ m.frameNum >= 1 /\ m.frameNum <= clFrame'[c]
          /\ entityState'[c] - entityState[c] <= (clFrame'[c] - m.frameNum + 1) * MAX_ENTITIES
      <4>1. (clFrame'[c] - m.frameNum + 1) * MAX_ENTITIES = MAX_ENTITIES
        BY <1>7, <1>8, Sizes
      <4>2. entityState'[c] - entityState[c] = Len(m.built)
        BY <1>7, <1>8
      <4>3. m.frameNum >= 1 /\ m.frameNum <= clFrame'[c]
        BY <1>6, <1>7, <1>8
      <4> QED
        BY <1>6, <4>1, <4>2, <4>3
    <3>4. Holds(c, m.frameNum, m.built)
      BY <1>6
    <3>5. Sent(c)' - m.frameNum < PACKET_BACKUP =>
            StatesOf(entityStates', frames'[c][Slot(m.frameNum)]) = m.built
      BY <1>1, <1>2, <3>4 DEF Holds
    <3> QED
      BY <1>6, <2>2, <3>1, <3>2, <3>3, <3>5 DEF Valid, Holds
  <2>3. CASE d = c /\ s # Slot(m.frameNum)
    <3> DEFINE f == clFrames[c][s]
               g == f.frameNum
    <3>1. clFrames'[d][s] = f
      BY <1>8, <2>3
    <3>2. f.entities = f.built
      BY <1>0 DEF ClientFramesMatch
    <3>3. ASSUME f.valid PROVE Valid(c, s)'
      <4>1. Valid(c, s)
        BY <1>0, <3>3 DEF ClientFramesMatch
      <4>2. /\ g >= 1 /\ g <= clFrame[c] /\ Slot(g) = s /\ Sorted(f.built) /\ Holds(c, g, f.built)
            /\ entityState[c] - f.entityState <= (clFrame[c] - g + 1) * MAX_ENTITIES
        BY <4>1 DEF Valid
      <4>3. g \in Nat /\ f.entityState \in Nat
        BY Typed
      <4> HIDE DEF f, g
      <4>4. g <= clFrame'[c]
        BY <1>6, <1>7, <1>8, <4>2, <4>3
      <4>5. entityState'[c] - f.entityState <= (clFrame'[c] - g + 1) * MAX_ENTITIES
        <5> DEFINE n == clFrame[c] - g + 1
                   k == clFrame'[c] - g + 1
        <5>1. n \in Int /\ k \in Int /\ n + 1 <= k
          <6>1. clFrame'[c] = m.frameNum /\ clFrame[c] < m.frameNum
            BY <1>6, <1>8
          <6>2. clFrame[c] \in Int /\ m.frameNum \in Int /\ g \in Int
            BY <1>7, <4>3
          <6> QED
            BY <6>1, <6>2
        <5>2. entityState[c] - f.entityState <= n * MAX_ENTITIES
          BY <4>2
        <5> HIDE DEF n, k
        <5>3. (n + 1) * MAX_ENTITIES <= k * MAX_ENTITIES
          BY <5>1, Sizes
        <5>4. (n + 1) * MAX_ENTITIES = n * MAX_ENTITIES + MAX_ENTITIES
          BY <5>1, Sizes
        <5>5. n * MAX_ENTITIES \in Int /\ k * MAX_ENTITIES \in Int
          BY <5>1, Sizes
        <5>6. entityState'[c] - f.entityState <= k * MAX_ENTITIES
          BY <1>6, <1>7, <1>8, <4>3, <5>2, <5>3, <5>4, <5>5, Sizes
        <5> QED
          BY <5>6 DEF k
      <4>6. Sent(c)' - g < PACKET_BACKUP => StatesOf(entityStates', frames'[c][Slot(g)]) = f.built
        BY <1>1, <1>2, <4>2 DEF Holds
      <4>7. clFrames'[c][s] = f /\ f.frameNum = g
        BY <2>3, <3>1 DEF g
      <4> QED
        BY <4>2, <4>4, <4>5, <4>6, <4>7 DEF Valid, Holds
    <3> QED
      BY <2>3, <3>1, <3>2, <3>3
  <2> QED
    BY <2>1, <2>2, <2>3
<1>13. ClientFramesMatch'
  <2>1. ASSUME NEW d \in Client PROVE clFrame'[d] <= Sent(d)'
    BY <1>0, <1>2, <1>6, <1>8 DEF ClientFramesMatch
  <2> QED
    BY <1>12, <2>1 DEF ClientFramesMatch
<1>14. ASSUME NEW d \in Client, NEW n \in network'[d]
       PROVE  /\ clFrame'[d] < n.frameNum /\ n.frameNum <= Sent(d)'
              /\ Sorted(n.built) /\ Len(n.built) <= MAX_ENTITIES
              /\ Holds(d, n.frameNum, n.built)' /\ Decodable(d, n)'
  <2>1. n \in network[d]
    BY <1>5
  <2>2. /\ clFrame[d] < n.frameNum /\ n.frameNum <= Sent(d)
        /\ Sorted(n.built) /\ Len(n.built) <= MAX_ENTITIES
        /\ Holds(d, n.frameNum, n.built) /\ Decodable(d, n)
    BY <1>0, <2>1 DEF MessagesMatch
  <2>3. n.frameNum \in Nat /\ n.deltaFrameNum \in Int
    BY <2>1, Typed
  <2>4. clFrame'[d] < n.frameNum
    BY <1>5, <1>7, <1>8, <2>2, <2>3
  <2>5. Holds(d, n.frameNum, n.built)'
    BY <1>1, <1>2, <2>2 DEF Holds
  <2>6. Decodable(d, n)'
    <3> DEFINE g == n.deltaFrameNum
    <3>1. CASE g = -1 /\ n.entities = WriteEntities(<<>>, n.built)
      BY <3>1 DEF Decodable
    <3>2. CASE /\ g >= 1 /\ HasFrame(d, g) /\ n.frameNum - g <= PACKET_BACKUP - 4
               /\ n.entities = WriteEntities(clFrames[d][Slot(g)].built, n.built)
      <4>1. g \in Nat
        BY <2>3, <3>2
      <4>2. clFrames'[d][Slot(g)] = clFrames[d][Slot(g)]
        <5>1. CASE d # c
          BY <1>10, <4>1, <5>1
        <5>2. CASE d = c
          <6>1. Slot(g) \in Backup
            BY <4>1, SlotFacts DEF Backup
          <6>2. Valid(c, Slot(g)) /\ clFrames[c][Slot(g)].frameNum = g
            BY <1>0, <3>2, <5>2, <6>1 DEF HasFrame, ClientFramesMatch
          <6>3. g <= clFrame[c]
            BY <6>2 DEF Valid
          <6>4. g < m.frameNum /\ m.frameNum - g < PACKET_BACKUP
            BY <1>5, <1>6, <1>7, <2>3, <3>2, <4>1, <5>2, <6>3, Sizes, SMTT(30)
          <6> QED
            BY <1>9, <3>2, <4>1, <5>2, <6>4
        <5> QED
          BY <5>1, <5>2
      <4> QED
        BY <3>2, <4>2 DEF Decodable, HasFrame
    <3> QED
      BY <2>2, <3>1, <3>2 DEF Decodable
  <2> QED
    BY <1>2, <2>2, <2>4, <2>5, <2>6
<1>15. MessagesMatch'
  BY <1>14 DEF MessagesMatch
<1>16. LastFrameHeld'
  <2>1. ASSUME NEW d \in Client
        PROVE  \/ lastFrame[d] = -1
               \/ /\ lastFrame[d] >= 1 /\ lastFrame[d] <= clFrame'[d]
                  /\ Sent(d) - lastFrame[d] < PACKET_BACKUP => HasFrame(d, lastFrame[d])'
    <3> DEFINE l == lastFrame[d]
    <3>1. CASE l = -1
      BY <3>1
    <3>2. CASE l >= 1 /\ l <= clFrame[d] /\ (Sent(d) - l < PACKET_BACKUP => HasFrame(d, l))
      <4>1. l \in Nat
        BY <3>2, Typed
      <4>2. l <= clFrame'[d]
        BY <1>6, <1>7, <1>8, <3>2, <4>1
      <4>3. ASSUME Sent(d) - l < PACKET_BACKUP PROVE HasFrame(d, l)'
        <5>1. clFrames'[d][Slot(l)] = clFrames[d][Slot(l)]
          <6>1. CASE d # c
            BY <1>10, <4>1, <6>1
          <6>2. CASE d = c
            <7>1. l < m.frameNum /\ m.frameNum - l < PACKET_BACKUP
              BY <1>6, <1>7, <3>2, <4>1, <4>3, <6>2, Sizes
            <7> QED
              BY <1>9, <3>2, <4>1, <4>3, <6>2, <7>1
          <6> QED
            BY <6>1, <6>2
        <5> QED
          BY <1>1, <3>2, <4>3, <5>1 DEF HasFrame
      <4> QED
        BY <3>2, <4>2, <4>3, <1>1
    <3> QED
      BY <1>0, <3>1, <3>2 DEF LastFrameHeld
  <2> QED
    BY <1>1, <1>2, <2>1 DEF LastFrameHeld
<1> QED
  BY <1>8, <1>11, <1>13, <1>15, <1>16 DEF FrameInv

\* Every step keeps the invariant, as long as few entities are visible.
LEMMA StepFrameInv ==
  ASSUME PACKET_BACKUP <= 4 * MAX_ENTITIES, TypeInv, FrameInv, FewVisible, [Next]_vars
  PROVE  FrameInv'
<1>1. CASE RunGameFrame
  BY <1>1, RunGameFrameInv
<1>2. CASE SendClientPackets
  BY <1>2, SendFrameInv
<1>3. ASSUME NEW c \in Client, Acknowledge(c) PROVE FrameInv'
  BY <1>3, AcknowledgeInv
<1>4. ASSUME NEW c \in Client, NEW m \in network[c], ParseFrame(c, m) PROVE FrameInv'
  BY <1>4, ParseFrameInv
<1>5. CASE UNCHANGED vars
  BY <1>5, StutterFrameInv
<1> QED
  BY <1>1, <1>2, <1>3, <1>4, <1>5 DEF Next

\* The invariant implies both properties of the run.
LEMMA InvImplies ==
  ASSUME TypeInv, FrameInv
  PROVE  DecodesWhatWasBuilt /\ NeverUndecodable
<1>1. \A c \in Client : DOMAIN clFrames[c] = Backup
  BY DEF TypeInv, Shapes
<1>2. DecodesWhatWasBuilt
  BY <1>1 DEF FrameInv, ClientFramesMatch, DecodesWhatWasBuilt
<1>3. ASSUME NEW c \in Client, NEW s \in Backup,
             clFrames[c][s].valid, clFrames[c][s].frameNum = lastFrame[c],
             frameNum - lastFrame[c] < PACKET_BACKUP - 3
      PROVE  StatesOf(entityStates, frames[c][Slot(lastFrame[c])]) = clFrames[c][s].built
  <2>1. Valid(c, s)
    BY <1>3 DEF FrameInv, ClientFramesMatch
  <2>2. Holds(c, lastFrame[c], clFrames[c][s].built)
    BY <1>3, <2>1 DEF Valid
  <2>3. Sent(c) <= frameNum /\ Sent(c) \in Int /\ frameNum \in Int /\ lastFrame[c] \in Int
    BY Typed DEF Sent
  <2>4. Sent(c) - lastFrame[c] < PACKET_BACKUP
    BY <1>3, <2>3, Sizes
  <2> QED
    BY <2>2, <2>4 DEF Holds
<1>4. dropped = {}
  BY DEF FrameInv
<1> QED
  BY <1>1, <1>2, <1>3, <1>4 DEF NeverUndecodable

-------------------------------------------------------------------------------
\* The theorems.

\* Whatever is lost, and for any number of clients: while the entities visible to all of the clients
\* fit MAX_ENTITIES, every frame that a client decodes is the one that the server built for it. (The
\* code has 128 frames of backup and 1024 entities.)
THEOREM DecodesWhenFewVisible ==
  ASSUME PACKET_BACKUP <= 4 * MAX_ENTITIES
  PROVE  Spec /\ []FewVisible => []DecodesWhatWasBuilt
<1>1. ASSUME Init PROVE TypeInv /\ FrameInv
  BY <1>1, InitTypeInv, InitFrameInv
<1>2. ASSUME TypeInv, FrameInv, FewVisible, [Next]_vars
      PROVE  TypeInv' /\ FrameInv'
  BY <1>2, StepTypeInv, StepFrameInv
<1>3. ASSUME TypeInv, FrameInv PROVE DecodesWhatWasBuilt
  BY <1>3, InvImplies
<1> QED
  BY <1>1, <1>2, <1>3, PTL DEF Spec

\* Under the same condition no client ends the game because a frame cannot be decoded, and the
\* server's copy of an acknowledged frame is intact while it may be taken the difference from.
THEOREM DecodableWhenFewVisible ==
  ASSUME PACKET_BACKUP <= 4 * MAX_ENTITIES
  PROVE  Spec /\ []FewVisible => []NeverUndecodable
<1>1. ASSUME Init PROVE TypeInv /\ FrameInv
  BY <1>1, InitTypeInv, InitFrameInv
<1>2. ASSUME TypeInv, FrameInv, FewVisible, [Next]_vars
      PROVE  TypeInv' /\ FrameInv'
  BY <1>2, StepTypeInv, StepFrameInv
<1>3. ASSUME TypeInv, FrameInv PROVE NeverUndecodable
  BY <1>3, InvImplies
<1> QED
  BY <1>1, <1>2, <1>3, PTL DEF Spec

\* One client never sees more than MAX_ENTITIES.
LEMMA FewForOne ==
  ASSUME MaxClients = 1
  PROVE  Spec => []FewVisible
<1>1. ASSUME TypeInv PROVE FewVisible
  BY <1>1, BuiltFacts, Sizes DEF TypeInv, Shapes, FewVisible
<1> QED
  BY <1>1, InitTypeInv, StepTypeInv, PTL DEF Spec

\* With one client the condition always holds: both properties of the run, with no condition on
\* the world.
THEOREM OneClientDecodes ==
  ASSUME PACKET_BACKUP <= 4 * MAX_ENTITIES, MaxClients = 1
  PROVE  Spec => []DecodesWhatWasBuilt /\ []NeverUndecodable
<1>1. Spec => []FewVisible
  BY FewForOne
<1>2. Spec /\ []FewVisible => []DecodesWhatWasBuilt
  BY DecodesWhenFewVisible
<1>3. Spec /\ []FewVisible => []NeverUndecodable
  BY DecodableWhenFewVisible
<1> QED
  BY <1>1, <1>2, <1>3, PTL
===============================================================================
