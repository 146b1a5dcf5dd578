-------------------------- MODULE IperfTimerProofs --------------------------
(***************************************************************************)
(* What IperfTimer promises, for any number of streams, any interval, any  *)
(* omitted period and any duration: the lists of timer.c, the pointers to  *)
(* timers, the order of the statistics and reporter timers and of the ends *)
(* of the omitted period and of the test.                                  *)
(***************************************************************************)
EXTENDS IperfTimer, FiniteSetTheorems, WellFoundedInduction, TLAPS

-----------------------------------------------------------------------------
(* Lists of timers. *)

Distinct(q) == \A i, j \in 1 .. Len(q) : q[i] = q[j] => i = j
Sorted(q, cell) ==
    \A i, j \in 1 .. Len(q) : i < j => cell[q[i]].time <= cell[q[j]].time

\* Cell a is not after cell b in the list; b comes right after a; every timer
\* after a is later.
NotAfter(q, a, b) == \E i, j \in 1 .. Len(q) : i <= j /\ q[i] = a /\ q[j] = b
Follows(q, a, b) == \E i \in 1 .. Len(q) : i < Len(q) /\ q[i] = a /\ q[i + 1] = b
LastOf(q, cell, a) ==
    \E i \in 1 .. Len(q) :
        q[i] = a /\ \A j \in 1 .. Len(q) : i < j => cell[a].time < cell[q[j]].time

-----------------------------------------------------------------------------
(* The inductive invariant. *)

CellType == [owner : Handles, time : Nat, usecs : Nat]
Package == [active : Seq(Cells), free : Seq(Cells), cell : [Cells -> CellType],
            handle : [Handles -> Cells \cup {NULL}]]

\* The two lists share no cell, and what is malloc'ed is on one of them.
ListsOK(m) ==
    /\ m \in Package
    /\ Distinct(m.active) /\ Distinct(m.free)
    /\ InSeq(m.active) \cap InSeq(m.free) = {}
    /\ InSeq(m.active) \cup InSeq(m.free) \subseteq 1 .. Len(m.active) + Len(m.free)
    /\ Sorted(m.active, m.cell)

\* Pointers and active timers are the same thing.
Live(m) ==
    /\ \A h \in Handles : m.handle[h] # NULL =>
          m.handle[h] \in InSeq(m.active) /\ m.cell[m.handle[h]].owner = h
    /\ \A c \in InSeq(m.active) : m.handle[m.cell[c].owner] = c

\* tmr_run is called while the test runs and looks at active timers.
RunInv == run.on => test.phase = "running" /\ run.t \in InSeq(tm.active)

\* Which pointers may be set in each phase.
PhaseInv ==
    /\ test.phase = "idle" => \A h \in Handles : tm.handle[h] = NULL
    /\ test.phase = "creating" =>
          Distinct(test.todo) /\ \A h \in InSeq(test.todo) : tm.handle[h] = NULL
    /\ test.phase = "ending" =>
          \A h \in Handles : tm.handle[h] # NULL => h \in InSeq(test.todo)
    /\ test.role = "server" =>
          /\ tm.handle[Timer] = NULL
          /\ test.phase = "creating" => Timer \notin InSeq(test.todo)

\* The end of the omitted period is before the end of the test, and tmr_run has
\* not passed it.
OmitInv ==
    /\ test.phase = "idle" => clock = 0
    /\ test.phase = "creating" =>
          clock <= Jitter /\ (OmitTimer \in InSeq(test.todo) => test.omit = Omit)
    /\ test.phase \in {"creating", "running"} =>
          /\ tm.handle[OmitTimer] # NULL =>
                test.omit = Omit /\ tm.cell[tm.handle[OmitTimer]].time <= Jitter + Omit
          /\ tm.handle[Timer] # NULL =>
                tm.cell[tm.handle[Timer]].time = Duration + test.omit
    /\ run.on /\ tm.handle[OmitTimer] # NULL =>
          NotAfter(tm.active, run.t, tm.handle[OmitTimer])
    /\ test.role = "client" =>
          /\ test.phase \in {"idle", "creating"} => ~test.done
          /\ test.omitting /\ test.phase = "creating" =>
                OmitTimer \in InSeq(test.todo) \/ tm.handle[OmitTimer] # NULL
          /\ test.omitting /\ test.phase = "running" => tm.handle[OmitTimer] # NULL
          /\ test.done => ~test.omitting

\* The statistics and the reporter timer are next to each other, except between
\* their procedures.
Together(m) ==
    LET s == m.handle[Stats]
        r == m.handle[Reporter]
    IN  s # NULL /\ r # NULL /\ m.cell[s].time = m.cell[r].time /\ Follows(m.active, s, r)
Apart(m, now) ==
    LET s == m.handle[Stats]
        r == m.handle[Reporter]
    IN  /\ s # NULL /\ r # NULL
        /\ m.cell[s].time = m.cell[r].time + Interval /\ m.cell[r].time <= now
        /\ LastOf(m.active, m.cell, s)
Neither(m) == m.handle[Stats] = NULL /\ m.handle[Reporter] = NULL
Half(m) ==
    LET s == m.handle[Stats]
    IN  /\ s # NULL /\ m.handle[Reporter] = NULL
        /\ m.cell[s].time = Interval /\ LastOf(m.active, m.cell, s)
Reporting == run.on /\ run.t = tm.handle[Reporter]
PairInv ==
    /\ \A c \in InSeq(tm.active) :
          tm.cell[c].owner \in {Stats, Reporter} => tm.cell[c].usecs = Interval
    /\ test.phase = "creating" =>
          /\ test.owed = 0
          /\ \A i \in 1 .. Len(test.todo) :
                /\ test.todo[i] = Stats =>
                      i < Len(test.todo) /\ test.todo[i + 1] = Reporter
                /\ test.todo[i] = Reporter /\ i > 1 => test.todo[i - 1] = Stats
          /\ \/ Neither(tm) /\ (test.todo # <<>> => Head(test.todo) # Reporter)
             \/ Half(tm) /\ test.todo # <<>> /\ Head(test.todo) = Reporter
             \/ Together(tm)
    /\ test.phase = "running" =>
          /\ test.owed = IF Reporting /\ ~test.done THEN 1 ELSE 0
          /\ Reporting => Apart(tm, run.now)
          /\ ~Reporting => Neither(tm) \/ Together(tm)

TimerInv ==
    /\ TypeOK /\ ListsOK(tm) /\ Live(tm) /\ RunInv /\ PhaseInv /\ OmitInv /\ PairInv

-----------------------------------------------------------------------------
(* The operators on lists. *)

\* The constants are numbers.
LEMMA Numbers ==
    /\ NumStreams \in Nat
    /\ Interval \in Nat /\ Interval > 0 /\ Omit \in Nat /\ Omit > 0
    /\ SendPeriod \in Nat /\ Duration \in Nat
    /\ Jitter \in Nat /\ Jitter < Duration
    /\ MaxTime \in Nat /\ MaxCells \in Nat /\ MaxCells > 4 + NumStreams
  BY TimerAssumption

\* A list with c put in at place p, and with place p taken out.
Inserted(q, p, c) ==
    [i \in 1 .. Len(q) + 1 |-> IF i < p THEN q[i] ELSE IF i = p THEN c ELSE q[i - 1]]
Without(q, p) == [i \in 1 .. Len(q) - 1 |-> IF i < p THEN q[i] ELSE q[i + 1]]

\* What the list with c put in holds, place by place.
LEMMA InsertedList ==
    ASSUME NEW S, NEW q \in Seq(S), NEW c \in S, NEW p \in 1 .. Len(q) + 1
    PROVE  LET n == Inserted(q, p, c) IN
           /\ n \in Seq(S) /\ Len(n) = Len(q) + 1
           /\ n[p] = c
           /\ \A i \in 1 .. Len(q) : i < p => n[i] = q[i]
           /\ \A i \in 1 .. Len(q) : i >= p => n[i + 1] = q[i]
           /\ \A k \in 1 .. Len(n) :
                \/ k = p
                \/ k < p /\ k \in 1 .. Len(q)
                \/ k > p /\ k - 1 \in 1 .. Len(q)
<1> DEFINE n == Inserted(q, p, c)
<1>0. Len(q) \in Nat /\ p \in Nat /\ p >= 1 /\ p <= Len(q) + 1
  OBVIOUS
<1>1. \A i \in 1 .. Len(q) + 1 :
        (IF i < p THEN q[i] ELSE IF i = p THEN c ELSE q[i - 1]) \in S
  <2> SUFFICES ASSUME NEW i \in 1 .. Len(q) + 1
               PROVE  (IF i < p THEN q[i] ELSE IF i = p THEN c ELSE q[i - 1]) \in S
    OBVIOUS
  <2>1. CASE i < p
    <3>1. i \in 1 .. Len(q)
      BY <1>0, <2>1
    <3> QED
      BY <2>1, <3>1
  <2>2. CASE i > p
    <3>1. i - 1 \in 1 .. Len(q)
      BY <1>0, <2>2
    <3> QED
      BY <1>0, <2>2, <3>1
  <2> QED
    BY <1>0, <2>1, <2>2
<1>2. n \in [1 .. Len(q) + 1 -> S]
  BY <1>1 DEF Inserted
<1>3. n \in Seq(S) /\ Len(n) = Len(q) + 1
  BY <1>0, <1>2
<1>4. \A i \in 1 .. Len(q) + 1 :
        n[i] = IF i < p THEN q[i] ELSE IF i = p THEN c ELSE q[i - 1]
  BY DEF Inserted
<1>5. n[p] = c
  BY <1>0, <1>4
<1>6. \A i \in 1 .. Len(q) : i < p => n[i] = q[i]
  BY <1>0, <1>4
<1>7. ASSUME NEW i \in 1 .. Len(q), i >= p PROVE n[i + 1] = q[i]
  <2>1. i + 1 \in 1 .. Len(q) + 1 /\ ~(i + 1 < p) /\ i + 1 # p /\ (i + 1) - 1 = i
    BY <1>0, <1>7
  <2> QED
    BY <1>4, <2>1
<1>8. \A k \in 1 .. Len(n) :
        \/ k = p
        \/ k < p /\ k \in 1 .. Len(q)
        \/ k > p /\ k - 1 \in 1 .. Len(q)
  BY <1>0, <1>3
<1> QED
  BY <1>3, <1>5, <1>6, <1>7, <1>8

\* What the list with place p taken out holds, place by place.
LEMMA WithoutList ==
    ASSUME NEW S, NEW q \in Seq(S), NEW p \in 1 .. Len(q)
    PROVE  LET n == Without(q, p) IN
           /\ n \in Seq(S) /\ Len(n) = Len(q) - 1
           /\ \A i \in 1 .. Len(q) : i < p => n[i] = q[i]
           /\ \A i \in 1 .. Len(q) : i > p => n[i - 1] = q[i]
           /\ \A k \in 1 .. Len(n) :
                \/ k < p /\ k \in 1 .. Len(q) /\ n[k] = q[k]
                \/ k >= p /\ k + 1 \in 1 .. Len(q) /\ n[k] = q[k + 1]
<1> DEFINE n == Without(q, p)
<1>0. Len(q) \in Nat /\ p \in Nat /\ p >= 1 /\ p <= Len(q)
  OBVIOUS
<1>1. \A i \in 1 .. Len(q) - 1 : i \in 1 .. Len(q) /\ i + 1 \in 1 .. Len(q)
  BY <1>0
<1>2. n \in [1 .. Len(q) - 1 -> S]
  BY <1>1 DEF Without
<1>3. n \in Seq(S) /\ Len(n) = Len(q) - 1
  BY <1>0, <1>2
<1>4. \A i \in 1 .. Len(q) - 1 : n[i] = IF i < p THEN q[i] ELSE q[i + 1]
  BY DEF Without
<1>5. \A i \in 1 .. Len(q) : i < p => n[i] = q[i]
  BY <1>0, <1>4
<1>6. ASSUME NEW i \in 1 .. Len(q), i > p PROVE n[i - 1] = q[i]
  <2>1. i - 1 \in 1 .. Len(q) - 1 /\ ~(i - 1 < p) /\ (i - 1) + 1 = i
    BY <1>0, <1>6
  <2> QED
    BY <1>4, <2>1
<1>7. \A k \in 1 .. Len(n) :
        \/ k < p /\ k \in 1 .. Len(q) /\ n[k] = q[k]
        \/ k >= p /\ k + 1 \in 1 .. Len(q) /\ n[k] = q[k + 1]
  BY <1>0, <1>1, <1>3, <1>4
<1> QED
  BY <1>3, <1>5, <1>6, <1>7

\* A set of positions that is not empty has a first one.
LEMMA FirstOf ==
    ASSUME NEW T, T \subseteq Nat, T # {}
    PROVE  \E x \in T : \A y \in T : x <= y
<1>1. PICK x \in T : \A y \in T : ~(<<y, x>> \in OpToRel(<, Nat))
  BY WFMin, NatLessThanWellFounded
<1>2. \A y \in T : ~(y < x)
  BY <1>1 DEF OpToRel
<1> QED
  BY <1>2

\* list_add finds a place.
LEMMA PlaceFound ==
    ASSUME NEW m \in Package, NEW c \in Cells
    PROVE  /\ Place(m, c) \in 1 .. Len(m.active) + 1
           /\ Place(m, c) <= Len(m.active) =>
                m.cell[c].time < m.cell[m.active[Place(m, c)]].time
           /\ \A j \in 1 .. Len(m.active) :
                j < Place(m, c) => m.cell[m.active[j]].time <= m.cell[c].time
<1> DEFINE q == m.active
           N == Len(m.active)
           T == {i \in 1 .. N + 1 :
                    i <= N => m.cell[c].time < m.cell[q[i]].time}
<1>0. /\ q \in Seq(Cells) /\ m.cell \in [Cells -> CellType] /\ N \in Nat
  BY DEF Package
<1>1. N + 1 \in T
  BY <1>0
<1>2. PICK x \in T : \A y \in T : x <= y
  <2>1. T \subseteq Nat
    OBVIOUS
  <2> QED
    BY <1>1, <2>1, FirstOf
<1>3. /\ x <= N => m.cell[c].time < m.cell[q[x]].time
      /\ x \in 1 .. N + 1
  OBVIOUS
<1>4. ASSUME NEW j \in 1 .. x - 1 PROVE ~(m.cell[c].time < m.cell[q[j]].time)
  <2>1. j \in 1 .. N + 1 /\ ~(x <= j)
    BY <1>0, <1>3
  <2> QED
    BY <1>2, <2>1
<1>5. \E i \in 1 .. N + 1 :
        /\ i <= N => m.cell[c].time < m.cell[q[i]].time
        /\ \A j \in 1 .. i - 1 : ~(m.cell[c].time < m.cell[q[j]].time)
  BY <1>3, <1>4
<1> DEFINE p == Place(m, c)
<1>6. /\ p \in 1 .. N + 1
      /\ p <= N => m.cell[c].time < m.cell[q[p]].time
      /\ \A j \in 1 .. p - 1 : ~(m.cell[c].time < m.cell[q[j]].time)
  BY <1>5 DEF Place
<1>7. ASSUME NEW j \in 1 .. N, j < p PROVE m.cell[q[j]].time <= m.cell[c].time
  <2>1. j \in 1 .. p - 1
    BY <1>0, <1>6, <1>7
  <2>2. m.cell[c].time \in Nat /\ m.cell[q[j]].time \in Nat
    <3>1. c \in Cells /\ q[j] \in Cells
      BY <1>0
    <3>2. \A y \in Cells : m.cell[y].time \in Nat
      BY <1>0 DEF CellType
    <3> QED
      BY <3>1, <3>2
  <2>3. ~(m.cell[c].time < m.cell[q[j]].time)
    BY <1>6, <2>1
  <2> QED
    BY <2>2, <2>3
<1> QED
  BY <1>6, <1>7

\* Putting a cell in before the first later timer keeps the list sorted and the
\* order of the others; it comes after all timers that are not later, and not
\* between two of the same time.
LEMMA InsertKeeps ==
    ASSUME NEW q \in Seq(Cells), NEW cell \in [Cells -> CellType],
           NEW c \in Cells, c \notin InSeq(q), Distinct(q), Sorted(q, cell),
           NEW p \in 1 .. Len(q) + 1,
           p <= Len(q) => cell[c].time < cell[q[p]].time,
           \A j \in 1 .. Len(q) : j < p => cell[q[j]].time <= cell[c].time
    PROVE  LET n == Inserted(q, p, c) IN
           /\ n \in Seq(Cells) /\ Len(n) = Len(q) + 1
           /\ InSeq(n) = InSeq(q) \cup {c} /\ Distinct(n)
           /\ Sorted(n, cell) /\ LastOf(n, cell, c)
           /\ \A a, b : NotAfter(q, a, b) => NotAfter(n, a, b)
           /\ \A a, b : Follows(q, a, b) /\ cell[a].time = cell[b].time => Follows(n, a, b)
           /\ \A a : LastOf(q, cell, a) /\ cell[a].time = cell[c].time => Follows(n, a, c)
<1> DEFINE n == Inserted(q, p, c)
<1>0. Len(q) \in Nat /\ p \in Nat /\ p >= 1 /\ p <= Len(q) + 1
  OBVIOUS
<1>1. /\ n \in Seq(Cells) /\ Len(n) = Len(q) + 1
      /\ n[p] = c
      /\ \A i \in 1 .. Len(q) : i < p => n[i] = q[i]
      /\ \A i \in 1 .. Len(q) : i >= p => n[i + 1] = q[i]
      /\ \A k \in 1 .. Len(n) :
            \/ k = p
            \/ k < p /\ k \in 1 .. Len(q)
            \/ k > p /\ k - 1 \in 1 .. Len(q)
  BY InsertedList
<1> HIDE DEF n
<1>2. \A k \in 1 .. Len(n) :
        \/ k = p /\ n[k] = c
        \/ k < p /\ k \in 1 .. Len(q) /\ n[k] = q[k]
        \/ k > p /\ k - 1 \in 1 .. Len(q) /\ n[k] = q[k - 1]
  <2> SUFFICES ASSUME NEW k \in 1 .. Len(n), k > p, k - 1 \in 1 .. Len(q)
               PROVE  n[k] = q[k - 1]
    BY <1>1
  <2>1. k - 1 >= p /\ (k - 1) + 1 = k
    BY <1>0
  <2> QED
    BY <1>1, <2>1
<1>3. \A i \in 1 .. Len(q) : q[i] \in Cells /\ q[i] # c
  BY DEF InSeq
<1>4. \A x \in Cells : cell[x].time \in Nat
  BY DEF CellType
<1>5. InSeq(n) = InSeq(q) \cup {c}
  <2>1. ASSUME NEW i \in 1 .. Len(q) PROVE \E k \in 1 .. Len(n) : n[k] = q[i]
    <3>1. i \in 1 .. Len(n) /\ i + 1 \in 1 .. Len(n)
      BY <1>0, <1>1
    <3> QED
      BY <1>0, <1>1, <3>1
  <2>2. p \in 1 .. Len(n)
    BY <1>1
  <2>3. \A k \in 1 .. Len(n) : n[k] = c \/ \E i \in 1 .. Len(q) : n[k] = q[i]
    BY <1>2
  <2>4. \A x : x \in InSeq(n) <=> \E k \in 1 .. Len(n) : n[k] = x
    BY DEF InSeq
  <2>5. \A x : x \in InSeq(q) <=> \E i \in 1 .. Len(q) : q[i] = x
    BY DEF InSeq
  <2>6. \A x : x \in InSeq(n) <=> x \in InSeq(q) \/ x = c
    BY <1>1, <2>1, <2>2, <2>3, <2>4, <2>5
  <2> QED
    BY <2>6
<1>6. Distinct(n)
  <2> SUFFICES ASSUME NEW i \in 1 .. Len(n), NEW j \in 1 .. Len(n), n[i] = n[j]
               PROVE  i = j
    BY DEF Distinct
  <2>1. CASE i = p \/ j = p
    <3>1. \A k \in 1 .. Len(n) : n[k] = c => k = p
      BY <1>2, <1>3
    <3> QED
      BY <1>1, <2>1, <3>1
  <2>2. CASE i < p /\ j < p
    BY <1>1, <1>2, <2>2 DEF Distinct
  <2>3. CASE i > p /\ j > p
    <3>0. ASSUME NEW k \in 1 .. Len(n), k > p
          PROVE  k - 1 \in 1 .. Len(q) /\ n[k] = q[k - 1]
      <4>1. k # p /\ ~(k < p)
        BY <1>0, <3>0
      <4> QED
        BY <1>2, <4>1
    <3>1. /\ i - 1 \in 1 .. Len(q) /\ n[i] = q[i - 1]
          /\ j - 1 \in 1 .. Len(q) /\ n[j] = q[j - 1]
      BY <2>3, <3>0
    <3>2. i - 1 = j - 1
      BY <3>1 DEF Distinct
    <3> QED
      BY <3>2
  <2>4. CASE i < p /\ j > p
    <3>1. i = j - 1
      BY <1>1, <1>2, <2>4 DEF Distinct
    <3> QED
      BY <1>0, <2>4, <3>1
  <2>5. CASE i > p /\ j < p
    <3>1. i - 1 = j
      BY <1>1, <1>2, <2>5 DEF Distinct
    <3> QED
      BY <1>0, <2>5, <3>1
  <2> QED
    BY <1>0, <2>1, <2>2, <2>3, <2>4, <2>5
<1>7. ASSUME NEW j \in 1 .. Len(q), j >= p PROVE cell[c].time < cell[q[j]].time
  <2>1. p \in 1 .. Len(q) /\ cell[c].time < cell[q[p]].time
    BY <1>0, <1>7
  <2>2. cell[q[p]].time <= cell[q[j]].time
    <3>1. CASE p = j
      BY <1>3, <1>4, <2>1, <3>1
    <3> QED
      BY <1>0, <1>7, <2>1, <3>1 DEF Sorted
  <2> QED
    BY <1>3, <1>4, <2>1, <2>2
<1>8. Sorted(n, cell)
  <2> SUFFICES ASSUME NEW i \in 1 .. Len(n), NEW j \in 1 .. Len(n), i < j
               PROVE  cell[n[i]].time <= cell[n[j]].time
    BY DEF Sorted
  <2>1. CASE i = p
    <3>1. j > p /\ n[i] = c
      BY <1>1, <2>1
    <3>2. j - 1 \in 1 .. Len(q) /\ n[j] = q[j - 1] /\ j - 1 >= p
      BY <1>0, <1>2, <3>1
    <3> QED
      BY <1>3, <1>4, <1>7, <3>1, <3>2
  <2>2. CASE j = p
    <3>1. i < p /\ n[j] = c
      BY <1>1, <2>2
    <3>2. i \in 1 .. Len(q) /\ n[i] = q[i]
      BY <1>0, <1>2, <3>1
    <3> QED
      BY <3>1, <3>2
  <2>3. CASE i < p /\ j < p
    BY <1>2, <2>3 DEF Sorted
  <2>4. CASE i < p /\ j > p
    <3>1. i \in 1 .. Len(q) /\ n[i] = q[i] /\ j - 1 \in 1 .. Len(q) /\ n[j] = q[j - 1]
      BY <1>0, <1>2, <2>4
    <3>2. i < j - 1
      BY <1>0, <2>4
    <3> QED
      BY <3>1, <3>2 DEF Sorted
  <2>5. CASE i > p /\ j > p
    <3>1. /\ i - 1 \in 1 .. Len(q) /\ n[i] = q[i - 1]
          /\ j - 1 \in 1 .. Len(q) /\ n[j] = q[j - 1]
      BY <1>0, <1>2, <2>5
    <3>2. i - 1 < j - 1
      BY <1>0, <2>5
    <3> QED
      BY <3>1, <3>2 DEF Sorted
  <2> QED
    BY <1>0, <2>1, <2>2, <2>3, <2>4, <2>5
<1>9. LastOf(n, cell, c)
  <2>1. p \in 1 .. Len(n) /\ n[p] = c
    BY <1>1
  <2>2. ASSUME NEW j \in 1 .. Len(n), p < j PROVE cell[c].time < cell[n[j]].time
    <3>1. j - 1 \in 1 .. Len(q) /\ n[j] = q[j - 1] /\ j - 1 >= p
      BY <1>0, <1>2, <2>2
    <3> QED
      BY <1>7, <3>1
  <2> QED
    BY <2>1, <2>2 DEF LastOf
<1>10. ASSUME NEW a, NEW b, NotAfter(q, a, b) PROVE NotAfter(n, a, b)
  <2>1. PICK i \in 1 .. Len(q), j \in 1 .. Len(q) : i <= j /\ q[i] = a /\ q[j] = b
    BY <1>10 DEF NotAfter
  <2>2. /\ i \in 1 .. Len(n) /\ i + 1 \in 1 .. Len(n)
        /\ j \in 1 .. Len(n) /\ j + 1 \in 1 .. Len(n)
    BY <1>0, <1>1
  <2>3. CASE i < p /\ j < p
    BY <1>1, <2>1, <2>2, <2>3 DEF NotAfter
  <2>4. CASE i < p /\ j >= p
    <3>1. n[i] = a /\ n[j + 1] = b /\ i <= j + 1
      BY <1>1, <2>1, <2>4
    <3> QED
      BY <2>2, <3>1 DEF NotAfter
  <2>5. CASE i >= p /\ j >= p
    <3>1. n[i + 1] = a /\ n[j + 1] = b /\ i + 1 <= j + 1
      BY <1>1, <2>1, <2>5
    <3> QED
      BY <2>2, <3>1 DEF NotAfter
  <2> QED
    BY <1>0, <2>1, <2>3, <2>4, <2>5
<1>11. ASSUME NEW a, NEW b, Follows(q, a, b), cell[a].time = cell[b].time
       PROVE  Follows(n, a, b)
  <2>1. PICK i \in 1 .. Len(q) : i < Len(q) /\ q[i] = a /\ q[i + 1] = b
    BY <1>11 DEF Follows
  <2>2. i + 1 \in 1 .. Len(q) /\ i \in 1 .. Len(n) /\ i + 1 \in 1 .. Len(n)
    BY <1>0, <1>1, <2>1
  <2>3. p # i + 1
    <3> SUFFICES ASSUME p = i + 1 PROVE FALSE
      OBVIOUS
    <3>1. cell[c].time < cell[b].time
      BY <1>0, <2>1, <2>2
    <3>2. cell[a].time <= cell[c].time
      BY <1>0, <2>1, <2>2
    <3> QED
      BY <1>3, <1>4, <1>11, <2>1, <2>2, <3>1, <3>2
  <2>4. CASE i + 1 < p
    <3>1. n[i] = a /\ n[i + 1] = b /\ i < Len(n)
      BY <1>0, <1>1, <2>1, <2>2, <2>4
    <3> QED
      BY <2>2, <3>1 DEF Follows
  <2>5. CASE i >= p
    <3>1. n[i + 1] = a
      BY <1>1, <2>1, <2>5
    <3>2. i + 1 >= p
      BY <1>0, <2>5
    <3>3. n[(i + 1) + 1] = b
      BY <1>1, <2>1, <2>2, <3>2
    <3>4. i + 1 < Len(n)
      BY <1>0, <1>1, <2>1
    <3> QED
      BY <2>2, <3>1, <3>3, <3>4 DEF Follows
  <2> QED
    BY <1>0, <2>3, <2>4, <2>5
<1>12. ASSUME NEW a, LastOf(q, cell, a), cell[a].time = cell[c].time
       PROVE  Follows(n, a, c)
  <2>1. PICK i \in 1 .. Len(q) :
          q[i] = a /\ \A j \in 1 .. Len(q) : i < j => cell[a].time < cell[q[j]].time
    BY <1>12 DEF LastOf
  <2>2. p > i
    <3> SUFFICES ASSUME i >= p PROVE FALSE
      BY <1>0
    <3>1. cell[c].time < cell[a].time
      BY <1>7, <2>1
    <3> QED
      BY <1>3, <1>4, <1>12, <2>1, <3>1
  <2>3. ~(i + 1 < p)
    <3> SUFFICES ASSUME i + 1 < p PROVE FALSE
      OBVIOUS
    <3>1. i + 1 \in 1 .. Len(q)
      BY <1>0
    <3>2. cell[a].time < cell[q[i + 1]].time
      BY <2>1, <3>1
    <3>3. cell[q[i + 1]].time <= cell[c].time
      BY <3>1
    <3> QED
      BY <1>3, <1>4, <1>12, <2>1, <3>1, <3>2, <3>3
  <2>4. p = i + 1
    BY <1>0, <2>2, <2>3
  <2>5. i \in 1 .. Len(n) /\ i < Len(n) /\ n[i] = a /\ n[i + 1] = c
    BY <1>0, <1>1, <2>1, <2>4
  <2> QED
    BY <2>5 DEF Follows
<1> QED
  BY <1>1, <1>5, <1>6, <1>8, <1>9, <1>10, <1>11, <1>12 DEF n

\* Taking a cell out keeps the order of the others. Their times are those of
\* cell; the time of the cell taken out does not matter.
LEMMA RemoveKeeps ==
    ASSUME NEW q \in Seq(Cells), NEW c \in Cells, Distinct(q),
           NEW p \in 1 .. Len(q), q[p] = c
    PROVE  LET n == Without(q, p) IN
           /\ n \in Seq(Cells) /\ Len(n) = Len(q) - 1
           /\ InSeq(n) = InSeq(q) \ {c} /\ Distinct(n)
           /\ \A cell, old :
                 /\ Sorted(q, old)
                 /\ \A x \in InSeq(q) : x # c => cell[x] = old[x]
                 => Sorted(n, cell)
           /\ \A a, b : a # c /\ b # c /\ NotAfter(q, a, b) => NotAfter(n, a, b)
           /\ \A a, b : a # c /\ b # c /\ Follows(q, a, b) => Follows(n, a, b)
           /\ \A a, cell, old :
                 /\ a # c /\ LastOf(q, old, a)
                 /\ \A x \in InSeq(q) : x # c => cell[x] = old[x]
                 => LastOf(n, cell, a)
<1> DEFINE n == Without(q, p)
<1>0. Len(q) \in Nat /\ p \in Nat /\ p >= 1 /\ p <= Len(q)
  OBVIOUS
<1>1. /\ n \in Seq(Cells) /\ Len(n) = Len(q) - 1
      /\ \A i \in 1 .. Len(q) : i < p => n[i] = q[i]
      /\ \A i \in 1 .. Len(q) : i > p => n[i - 1] = q[i]
      /\ \A k \in 1 .. Len(n) :
            \/ k < p /\ k \in 1 .. Len(q) /\ n[k] = q[k]
            \/ k >= p /\ k + 1 \in 1 .. Len(q) /\ n[k] = q[k + 1]
  BY WithoutList
<1> HIDE DEF n
<1>2. \A i \in 1 .. Len(q) : q[i] = c => i = p
  BY DEF Distinct
\* Where a place of n is in q, and the other way.
<1> DEFINE up(k) == IF k < p THEN k ELSE k + 1
           down(i) == IF i < p THEN i ELSE i - 1
<1>3. \A k \in 1 .. Len(n) : up(k) \in 1 .. Len(q) /\ n[k] = q[up(k)] /\ q[up(k)] # c
  <2> SUFFICES ASSUME NEW k \in 1 .. Len(n)
               PROVE  up(k) \in 1 .. Len(q) /\ n[k] = q[up(k)] /\ q[up(k)] # c
    OBVIOUS
  <2>1. up(k) \in 1 .. Len(q) /\ n[k] = q[up(k)]
    BY <1>0, <1>1
  <2>2. up(k) # p
    BY <1>0
  <2> QED
    BY <1>2, <2>1, <2>2
<1>4. \A k, l \in 1 .. Len(n) : (k < l => up(k) < up(l)) /\ (up(k) = up(l) => k = l)
  BY <1>0, <1>1
<1>5. \A i \in 1 .. Len(q) : i # p => down(i) \in 1 .. Len(n) /\ n[down(i)] = q[i]
  BY <1>0, <1>1
<1>6. \A i, j \in 1 .. Len(q) :
        i # p /\ j # p => (i <= j => down(i) <= down(j)) /\ (i + 1 = j => down(j) = down(i) + 1)
  BY <1>0
<1> HIDE DEF up, down
<1>7. InSeq(n) = InSeq(q) \ {c}
  <2>1. \A x : x \in InSeq(n) <=> \E k \in 1 .. Len(n) : n[k] = x
    BY DEF InSeq
  <2>2. \A x : x \in InSeq(q) <=> \E i \in 1 .. Len(q) : q[i] = x
    BY DEF InSeq
  <2>3. \A x : x \in InSeq(n) => x \in InSeq(q) /\ x # c
    BY <1>3, <2>1, <2>2
  <2>4. \A x : x \in InSeq(q) /\ x # c => x \in InSeq(n)
    BY <1>5, <2>1, <2>2
  <2> QED
    BY <2>3, <2>4
<1>8. Distinct(n)
  <2> SUFFICES ASSUME NEW i \in 1 .. Len(n), NEW j \in 1 .. Len(n), n[i] = n[j]
               PROVE  i = j
    BY DEF Distinct
  <2>1. up(i) = up(j)
    BY <1>3 DEF Distinct
  <2> QED
    BY <1>4, <2>1
<1>9. ASSUME NEW cell, NEW old, Sorted(q, old),
              \A x \in InSeq(q) : x # c => cell[x] = old[x]
       PROVE  Sorted(n, cell)
  <2> SUFFICES ASSUME NEW i \in 1 .. Len(n), NEW j \in 1 .. Len(n), i < j
               PROVE  cell[n[i]].time <= cell[n[j]].time
    BY DEF Sorted
  <2>1. up(i) < up(j) /\ up(i) \in 1 .. Len(q) /\ up(j) \in 1 .. Len(q)
    BY <1>3, <1>4
  <2>2. old[q[up(i)]].time <= old[q[up(j)]].time
    BY <1>9, <2>1 DEF Sorted
  <2>3. q[up(i)] \in InSeq(q) /\ q[up(j)] \in InSeq(q)
    BY <2>1 DEF InSeq
  <2> QED
    BY <1>3, <1>9, <2>2, <2>3
<1>10. ASSUME NEW a, NEW b, a # c, b # c, NotAfter(q, a, b) PROVE NotAfter(n, a, b)
  <2>1. PICK i \in 1 .. Len(q), j \in 1 .. Len(q) : i <= j /\ q[i] = a /\ q[j] = b
    BY <1>10 DEF NotAfter
  <2>2. i # p /\ j # p
    BY <1>10, <2>1
  <2>3. down(i) <= down(j) /\ n[down(i)] = a /\ n[down(j)] = b
    BY <1>5, <1>6, <2>1, <2>2
  <2>4. down(i) \in 1 .. Len(n) /\ down(j) \in 1 .. Len(n)
    BY <1>5, <2>2
  <2> QED
    BY <2>3, <2>4 DEF NotAfter
<1>11. ASSUME NEW a, NEW b, a # c, b # c, Follows(q, a, b) PROVE Follows(n, a, b)
  <2>1. PICK i \in 1 .. Len(q) : i < Len(q) /\ q[i] = a /\ q[i + 1] = b
    BY <1>11 DEF Follows
  <2>2. i # p /\ i + 1 # p /\ i + 1 \in 1 .. Len(q)
    BY <1>0, <1>11, <2>1
  <2>3. /\ down(i) \in 1 .. Len(n) /\ n[down(i)] = a
        /\ down(i + 1) \in 1 .. Len(n) /\ n[down(i + 1)] = b
        /\ down(i + 1) = down(i) + 1
    BY <1>5, <1>6, <2>1, <2>2
  <2>4. down(i) < Len(n)
    BY <1>0, <1>1, <2>3
  <2> QED
    BY <2>3, <2>4 DEF Follows
<1>12. ASSUME NEW a, NEW cell, NEW old, a # c, LastOf(q, old, a),
              \A x \in InSeq(q) : x # c => cell[x] = old[x]
       PROVE  LastOf(n, cell, a)
  <2>1. PICK i \in 1 .. Len(q) :
          q[i] = a /\ \A j \in 1 .. Len(q) : i < j => old[a].time < old[q[j]].time
    BY <1>12 DEF LastOf
  <2>2. i # p /\ a \in InSeq(q)
    BY <1>12, <2>1 DEF InSeq
  <2>3. down(i) \in 1 .. Len(n) /\ n[down(i)] = a
    BY <1>5, <2>1, <2>2
  <2>4. ASSUME NEW k \in 1 .. Len(n), down(i) < k PROVE cell[a].time < cell[n[k]].time
    <3>1. up(k) \in 1 .. Len(q) /\ n[k] = q[up(k)] /\ q[up(k)] # c
      BY <1>3
    <3>2. i < up(k)
      BY <1>0, <1>1, <2>2, <2>4 DEF up, down
    <3>3. old[a].time < old[q[up(k)]].time
      BY <2>1, <3>1, <3>2
    <3>4. q[up(k)] \in InSeq(q)
      BY <3>1 DEF InSeq
    <3> QED
      BY <1>12, <2>2, <3>1, <3>3, <3>4
  <2> QED
    BY <2>3, <2>4 DEF LastOf
<1> QED
  BY <1>1, <1>7, <1>8, <1>9, <1>10, <1>11, <1>12 DEF n

-----------------------------------------------------------------------------
(* The operations of timer.c. *)

\* The fields of a package.
LEMMA PackageFields ==
    ASSUME NEW m \in Package
    PROVE  /\ m.active \in Seq(Cells) /\ m.free \in Seq(Cells)
           /\ m.cell \in [Cells -> CellType] /\ m.handle \in [Handles -> Cells \cup {NULL}]
           /\ Len(m.active) \in Nat /\ Len(m.free) \in Nat
           /\ InSeq(m.active) \subseteq Cells /\ InSeq(m.free) \subseteq Cells
<1>1. m.active \in Seq(Cells) /\ m.free \in Seq(Cells)
  BY DEF Package
<1> QED
  BY <1>1 DEF Package, InSeq

\* A package with another active list, other cells or another free list.
LEMMA NewActive ==
    ASSUME NEW m \in Package, NEW q \in Seq(Cells)
    PROVE  LET r == [m EXCEPT !.active = q] IN
           /\ r \in Package /\ r.active = q
           /\ r.free = m.free /\ r.cell = m.cell /\ r.handle = m.handle
  BY DEF Package

\* A package in which one timer has another time.
LEMMA NewTime ==
    ASSUME NEW m \in Package, NEW c \in Cells, NEW t \in Nat
    PROVE  LET r == [m EXCEPT !.cell[c].time = t] IN
           /\ r \in Package /\ r.active = m.active /\ r.free = m.free /\ r.handle = m.handle
           /\ r.cell[c].time = t
           /\ r.cell[c].owner = m.cell[c].owner /\ r.cell[c].usecs = m.cell[c].usecs
           /\ \A x \in Cells : x # c => r.cell[x] = m.cell[x]
<1> DEFINE new == [m.cell EXCEPT ![c].time = t]
           r == [m EXCEPT !.cell[c].time = t]
<1>1. m.cell \in [Cells -> CellType]
  BY DEF Package
<1>2. m.cell[c] \in CellType
  BY <1>1
<1>3. [m.cell[c] EXCEPT !.time = t] \in CellType
  BY <1>2 DEF CellType
<1>4. new \in [Cells -> CellType] /\ new[c] = [m.cell[c] EXCEPT !.time = t]
      /\ \A x \in Cells : x # c => new[x] = m.cell[x]
  BY <1>1, <1>3
<1>5. /\ new[c].time = t /\ new[c].owner = m.cell[c].owner
      /\ new[c].usecs = m.cell[c].usecs
  BY <1>2, <1>4 DEF CellType
<1>6. r = [m EXCEPT !.cell = new]
  BY DEF Package
<1> HIDE DEF new
<1>7. /\ r \in Package /\ r.active = m.active /\ r.free = m.free /\ r.handle = m.handle
      /\ r.cell = new
  BY <1>4, <1>6 DEF Package
<1> QED
  BY <1>4, <1>5, <1>7

\* What list_add and list_remove do to the active list.
Added(m, r, c) ==
    /\ r \in Package /\ r.free = m.free /\ r.cell = m.cell /\ r.handle = m.handle
    /\ Len(r.active) = Len(m.active) + 1
    /\ InSeq(r.active) = InSeq(m.active) \cup {c} /\ Distinct(r.active)
    /\ Sorted(r.active, r.cell) /\ LastOf(r.active, r.cell, c)
    /\ \A a, b : NotAfter(m.active, a, b) => NotAfter(r.active, a, b)
    /\ \A a, b : Follows(m.active, a, b) /\ m.cell[a].time = m.cell[b].time =>
          Follows(r.active, a, b)
    /\ \A a : LastOf(m.active, m.cell, a) /\ m.cell[a].time = m.cell[c].time =>
          Follows(r.active, a, c)

\* What list_add does to a package.
LEMMA ListAdd ==
    ASSUME NEW m \in Package, NEW c \in Cells, c \notin InSeq(m.active),
           Distinct(m.active), Sorted(m.active, m.cell)
    PROVE  Added(m, list_add(m, c), c)
<1> DEFINE p == Place(m, c)
           q == m.active
           cell == m.cell
           n == Inserted(q, p, c)
           r == list_add(m, c)
<1>1. q \in Seq(Cells) /\ cell \in [Cells -> CellType]
  BY PackageFields
<1>2. /\ p \in 1 .. Len(q) + 1
      /\ p <= Len(q) => cell[c].time < cell[q[p]].time
      /\ \A j \in 1 .. Len(q) : j < p => cell[q[j]].time <= cell[c].time
  BY PlaceFound
<1>3. r = [m EXCEPT !.active = n]
  BY DEF list_add, Inserted
<1> HIDE DEF p, q, cell, r
<1>4. /\ n \in Seq(Cells) /\ Len(n) = Len(q) + 1
      /\ InSeq(n) = InSeq(q) \cup {c} /\ Distinct(n)
      /\ Sorted(n, cell) /\ LastOf(n, cell, c)
      /\ \A a, b : NotAfter(q, a, b) => NotAfter(n, a, b)
      /\ \A a, b : Follows(q, a, b) /\ cell[a].time = cell[b].time => Follows(n, a, b)
      /\ \A a : LastOf(q, cell, a) /\ cell[a].time = cell[c].time => Follows(n, a, c)
  <2>1. c \notin InSeq(q) /\ Distinct(q) /\ Sorted(q, cell)
    BY DEF q, cell
  <2> QED
    BY <1>1, <1>2, <2>1, InsertKeeps
<1> HIDE DEF n
<1>5. /\ r \in Package /\ r.active = n
      /\ r.free = m.free /\ r.cell = m.cell /\ r.handle = m.handle
  BY <1>3, <1>4, NewActive
<1> QED
  BY <1>4, <1>5 DEF Added, q, cell, r

Removed(m, r, c) ==
    /\ r \in Package /\ r.free = m.free /\ r.cell = m.cell /\ r.handle = m.handle
    /\ Len(r.active) = Len(m.active) - 1
    /\ InSeq(r.active) = InSeq(m.active) \ {c} /\ Distinct(r.active)
    /\ \A old :
          /\ Sorted(m.active, old)
          /\ \A x \in InSeq(m.active) : x # c => m.cell[x] = old[x]
          => Sorted(r.active, m.cell)
    /\ \A a, b : a # c /\ b # c /\ NotAfter(m.active, a, b) => NotAfter(r.active, a, b)
    /\ \A a, b : a # c /\ b # c /\ Follows(m.active, a, b) => Follows(r.active, a, b)
    /\ \A a, old :
          /\ a # c /\ LastOf(m.active, old, a)
          /\ \A x \in InSeq(m.active) : x # c => m.cell[x] = old[x]
          => LastOf(r.active, m.cell, a)

\* What list_remove does to a package.
LEMMA ListRemove ==
    ASSUME NEW m \in Package, NEW c \in InSeq(m.active), Distinct(m.active)
    PROVE  Removed(m, list_remove(m, c), c)
<1> DEFINE q == m.active
           p == CHOOSE i \in 1 .. Len(m.active) : m.active[i] = c
           n == Without(q, p)
           r == list_remove(m, c)
<1>1. q \in Seq(Cells) /\ c \in Cells
  BY PackageFields
<1>2. \E i \in 1 .. Len(m.active) : m.active[i] = c
  BY DEF InSeq
<1>3. p \in 1 .. Len(q) /\ q[p] = c
  BY <1>2
<1>4. r = [m EXCEPT !.active = n]
  BY DEF list_remove, Without
<1>5. Distinct(q)
  OBVIOUS
<1> HIDE DEF p, q, r
<1>6. /\ n \in Seq(Cells) /\ Len(n) = Len(q) - 1
      /\ InSeq(n) = InSeq(q) \ {c} /\ Distinct(n)
      /\ \A cell, old :
            /\ Sorted(q, old)
            /\ \A x \in InSeq(q) : x # c => cell[x] = old[x]
            => Sorted(n, cell)
      /\ \A a, b : a # c /\ b # c /\ NotAfter(q, a, b) => NotAfter(n, a, b)
      /\ \A a, b : a # c /\ b # c /\ Follows(q, a, b) => Follows(n, a, b)
      /\ \A a, cell, old :
            /\ a # c /\ LastOf(q, old, a)
            /\ \A x \in InSeq(q) : x # c => cell[x] = old[x]
            => LastOf(n, cell, a)
  BY <1>1, <1>3, <1>5, RemoveKeeps
<1> HIDE DEF n
<1>7. /\ r \in Package /\ r.active = n
      /\ r.free = m.free /\ r.cell = m.cell /\ r.handle = m.handle
  BY <1>4, <1>6, NewActive
<1> QED
  BY <1>6, <1>7 DEF Removed, q, r

\* An active timer gets another time and is sorted into the list again.
Resorted(m, r, c, t) ==
    /\ ListsOK(r) /\ r.handle = m.handle
    /\ InSeq(r.active) = InSeq(m.active)
    /\ r.cell[c].time = t
    /\ r.cell[c].owner = m.cell[c].owner /\ r.cell[c].usecs = m.cell[c].usecs
    /\ \A x \in Cells : x # c => r.cell[x] = m.cell[x]
    /\ LastOf(r.active, r.cell, c)
    /\ \A a, b : a # c /\ b # c /\ NotAfter(m.active, a, b) => NotAfter(r.active, a, b)
    /\ \A a, b \in Cells : a # c /\ b # c /\ m.cell[a].time = m.cell[b].time =>
          (Follows(m.active, a, b) => Follows(r.active, a, b))
    /\ \A a \in Cells : a # c /\ LastOf(m.active, m.cell, a) /\ m.cell[a].time = t =>
          Follows(r.active, a, c)

\* What list_resort does when the time of a timer has changed.
LEMMA ListResort ==
    ASSUME NEW m, ListsOK(m), NEW c \in InSeq(m.active), NEW t \in Nat
    PROVE  Resorted(m, list_resort([m EXCEPT !.cell[c].time = t], c), c, t)
<1> DEFINE k == [m EXCEPT !.cell[c].time = t]
           l == list_remove(k, c)
           r == list_add(l, c)
<1>0. /\ m \in Package /\ c \in Cells /\ InSeq(m.active) \subseteq Cells
      /\ Len(m.active) \in Nat /\ Len(m.free) \in Nat
  BY PackageFields DEF ListsOK
<1>1. /\ k \in Package /\ k.active = m.active /\ k.free = m.free /\ k.handle = m.handle
      /\ k.cell[c].time = t
      /\ k.cell[c].owner = m.cell[c].owner /\ k.cell[c].usecs = m.cell[c].usecs
      /\ \A x \in Cells : x # c => k.cell[x] = m.cell[x]
  BY <1>0, NewTime
<1>2. list_resort(k, c) = r
  BY DEF list_resort
<1> HIDE DEF k
<1>3. Distinct(k.active) /\ c \in InSeq(k.active) /\ Sorted(k.active, m.cell)
  BY <1>1 DEF ListsOK
<1>4. Removed(k, l, c)
  BY <1>1, <1>3, ListRemove
<1> HIDE DEF l
<1>5. \A x \in InSeq(k.active) : x # c => k.cell[x] = m.cell[x]
  BY <1>0, <1>1
<1>6. /\ l \in Package /\ c \notin InSeq(l.active) /\ Distinct(l.active)
      /\ Sorted(l.active, l.cell)
  BY <1>3, <1>4, <1>5 DEF Removed
<1>7. Added(l, r, c)
  BY <1>0, <1>6, ListAdd
<1> HIDE DEF r
<1>8. r.handle = m.handle /\ r.free = m.free /\ r.cell = k.cell /\ r \in Package
  BY <1>1, <1>4, <1>7 DEF Removed, Added
<1>9. InSeq(r.active) = InSeq(m.active)
  BY <1>1, <1>3, <1>4, <1>7 DEF Removed, Added
<1>10. Len(r.active) = Len(m.active)
  BY <1>0, <1>1, <1>4, <1>7 DEF Removed, Added
<1>11. ListsOK(r)
  BY <1>7, <1>8, <1>9, <1>10 DEF ListsOK, Added
<1>12. LastOf(r.active, r.cell, c)
  BY <1>7 DEF Added
<1>13. \A a, b : a # c /\ b # c /\ NotAfter(m.active, a, b) => NotAfter(r.active, a, b)
  BY <1>1, <1>4, <1>7 DEF Removed, Added
<1>14. ASSUME NEW a \in Cells, NEW b \in Cells, a # c, b # c,
              m.cell[a].time = m.cell[b].time, Follows(m.active, a, b)
       PROVE  Follows(r.active, a, b)
  <2>1. Follows(l.active, a, b)
    BY <1>1, <1>4, <1>14 DEF Removed
  <2>2. l.cell[a].time = l.cell[b].time
    BY <1>1, <1>4, <1>14 DEF Removed
  <2> QED
    BY <1>7, <2>1, <2>2 DEF Added
<1>15. ASSUME NEW a \in Cells, a # c, LastOf(m.active, m.cell, a), m.cell[a].time = t
       PROVE  Follows(r.active, a, c)
  <2>1. LastOf(l.active, k.cell, a)
    BY <1>1, <1>4, <1>5, <1>15 DEF Removed
  <2>2. l.cell = k.cell /\ l.cell[a].time = l.cell[c].time
    BY <1>1, <1>4, <1>15 DEF Removed
  <2> QED
    BY <1>7, <2>1, <2>2 DEF Added
<1> QED
  BY <1>1, <1>2, <1>8, <1>9, <1>11, <1>12, <1>13, <1>14, <1>15 DEF Resorted, k

\* An active timer is moved to the free list.
Cancelled(m, r, c) ==
    /\ ListsOK(r) /\ r.handle = m.handle
    /\ InSeq(r.active) = InSeq(m.active) \ {c}
    /\ \A x \in Cells : x # c => r.cell[x] = m.cell[x]
    /\ \A a, b : a # c /\ b # c /\ NotAfter(m.active, a, b) => NotAfter(r.active, a, b)
    /\ \A a, b : a # c /\ b # c /\ Follows(m.active, a, b) => Follows(r.active, a, b)

LEMMA UnusedType == Unused \in CellType
  BY DEF Unused, CellType, Handles

\* A cell in front of a list it is not on.
LEMMA Pushed ==
    ASSUME NEW S, NEW q \in Seq(S), NEW c \in S, c \notin InSeq(q), Distinct(q)
    PROVE  LET n == <<c>> \o q IN
           /\ n \in Seq(S) /\ Len(n) = Len(q) + 1
           /\ InSeq(n) = InSeq(q) \cup {c} /\ Distinct(n)
<1> DEFINE n == <<c>> \o q
<1>0. Len(q) \in Nat
  OBVIOUS
<1>1. n \in Seq(S) /\ Len(n) = Len(q) + 1
  OBVIOUS
<1>2. n[1] = c /\ \A i \in 1 .. Len(n) : i > 1 => n[i] = q[i - 1] /\ i - 1 \in 1 .. Len(q)
  BY <1>0
<1>3. \A i \in 1 .. Len(q) : n[i + 1] = q[i] /\ i + 1 \in 1 .. Len(n) /\ q[i] # c
  <2>1. \A i \in 1 .. Len(q) : q[i] # c
    BY DEF InSeq
  <2> QED
    BY <1>0, <2>1
<1> HIDE DEF n
<1>4. InSeq(n) = InSeq(q) \cup {c}
  <2>1. \A x : x \in InSeq(n) <=> \E k \in 1 .. Len(n) : n[k] = x
    BY DEF InSeq
  <2>2. \A x : x \in InSeq(q) <=> \E i \in 1 .. Len(q) : q[i] = x
    BY DEF InSeq
  <2>3. 1 \in 1 .. Len(n)
    BY <1>0, <1>1
  <2>4. \A x : x \in InSeq(n) => x \in InSeq(q) \/ x = c
    BY <1>0, <1>1, <1>2, <2>1, <2>2
  <2>5. \A x : x \in InSeq(q) => x \in InSeq(n)
    BY <1>3, <2>1, <2>2
  <2>6. c \in InSeq(n)
    BY <1>2, <2>1, <2>3
  <2> QED
    BY <2>4, <2>5, <2>6
<1>5. Distinct(n)
  <2> SUFFICES ASSUME NEW i \in 1 .. Len(n), NEW j \in 1 .. Len(n), n[i] = n[j]
               PROVE  i = j
    BY DEF Distinct
  <2>1. CASE i = 1 \/ j = 1
    <3>1. \A l \in 1 .. Len(n) : n[l] = c => l = 1
      BY <1>0, <1>1, <1>2, <1>3
    <3> QED
      BY <1>2, <2>1, <3>1
  <2>2. CASE i > 1 /\ j > 1
    <3>1. i - 1 = j - 1
      BY <1>2, <2>2 DEF Distinct
    <3> QED
      BY <3>1
  <2> QED
    BY <1>0, <1>1, <2>1, <2>2
<1> QED
  BY <1>1, <1>4, <1>5 DEF n

\* What tmr_cancel does to a package.
LEMMA TimerCancel ==
    ASSUME NEW m, ListsOK(m), NEW c \in InSeq(m.active)
    PROVE  Cancelled(m, tmr_cancel(m, c), c)
<1> DEFINE l == list_remove(m, c)
           free == <<c>> \o l.free
           cell == [l.cell EXCEPT ![c] = Unused]
           r == tmr_cancel(m, c)
<1>0. /\ m \in Package /\ c \in Cells /\ InSeq(m.active) \subseteq Cells
      /\ Len(m.active) \in Nat /\ Len(m.free) \in Nat /\ m.free \in Seq(Cells)
  BY PackageFields DEF ListsOK
<1>1. Distinct(m.active) /\ Sorted(m.active, m.cell) /\ Distinct(m.free) /\ c \notin InSeq(m.free)
  BY DEF ListsOK
<1>2. Removed(m, l, c)
  BY <1>0, <1>1, ListRemove
<1>3. r = [l EXCEPT !.free = free, !.cell[c] = Unused]
  BY DEF tmr_cancel
<1> HIDE DEF l, r
<1>4. l \in Package /\ l.free = m.free /\ l.cell = m.cell /\ l.handle = m.handle
  BY <1>2 DEF Removed
<1>5. /\ free \in Seq(Cells) /\ Len(free) = Len(m.free) + 1
      /\ InSeq(free) = InSeq(m.free) \cup {c} /\ Distinct(free)
  BY <1>0, <1>1, <1>4, Pushed
<1>6. cell \in [Cells -> CellType] /\ \A x \in Cells : x # c => cell[x] = m.cell[x]
  BY <1>0, <1>4, UnusedType DEF Package
<1> HIDE DEF free
<1>7. r = [l EXCEPT !.free = free, !.cell = cell]
  BY <1>3, <1>4 DEF Package
<1> HIDE DEF cell
<1>8. /\ r \in Package /\ r.active = l.active /\ r.free = free /\ r.cell = cell
      /\ r.handle = m.handle
  BY <1>4, <1>5, <1>6, <1>7 DEF Package
<1>9. InSeq(r.active) = InSeq(m.active) \ {c} /\ Distinct(r.active)
  BY <1>2, <1>8 DEF Removed
<1>10. Sorted(r.active, r.cell)
  <2>1. Sorted(l.active, m.cell)
    BY <1>1, <1>2 DEF Removed
  <2>2. \A i \in 1 .. Len(l.active) : r.cell[l.active[i]] = m.cell[l.active[i]]
    <3>1. \A i \in 1 .. Len(l.active) : l.active[i] \in InSeq(r.active)
      BY <1>8 DEF InSeq
    <3> QED
      BY <1>0, <1>6, <1>8, <1>9, <3>1
  <2> QED
    BY <1>8, <2>1, <2>2 DEF Sorted
<1>11. Len(r.active) + Len(r.free) = Len(m.active) + Len(m.free)
  <2>1. Len(r.active) = Len(m.active) - 1
    BY <1>2, <1>8 DEF Removed
  <2>2. Len(r.free) = Len(m.free) + 1
    BY <1>5, <1>8
  <2>3. Len(m.active) \in Nat /\ Len(m.free) \in Nat
    BY <1>0
  <2>4. \A a, b \in Nat : (a - 1) + (b + 1) = a + b
    OBVIOUS
  <2>5. (Len(m.active) - 1) + (Len(m.free) + 1) = Len(m.active) + Len(m.free)
    BY <2>3, <2>4
  <2> QED
    BY <2>1, <2>2, <2>5
<1>12. /\ InSeq(r.active) \cap InSeq(r.free) = {}
       /\ InSeq(r.active) \cup InSeq(r.free) = InSeq(m.active) \cup InSeq(m.free)
  BY <1>5, <1>8, <1>9 DEF ListsOK
<1>13. ListsOK(r)
  BY <1>5, <1>8, <1>9, <1>10, <1>11, <1>12 DEF ListsOK
<1> QED
  BY <1>2, <1>6, <1>8, <1>9, <1>13 DEF Cancelled, Removed, r

\* A new timer, in a cell from the free list or a new one.
Created(m, r, c, h, t, u) ==
    /\ c \in Cells /\ c \notin InSeq(m.active)
    /\ ListsOK(r)
    /\ InSeq(r.active) = InSeq(m.active) \cup {c}
    /\ r.handle[h] = c /\ \A g \in Handles : g # h => r.handle[g] = m.handle[g]
    /\ r.cell[c] = [owner |-> h, time |-> t, usecs |-> u]
    /\ \A x \in Cells : x # c => r.cell[x] = m.cell[x]
    /\ LastOf(r.active, r.cell, c)
    /\ \A a, b \in Cells : a # c /\ b # c /\ m.cell[a].time = m.cell[b].time =>
          (Follows(m.active, a, b) => Follows(r.active, a, b))
    /\ \A a \in Cells : a # c /\ LastOf(m.active, m.cell, a) /\ m.cell[a].time = t =>
          Follows(r.active, a, c)

\* The order of a list depends only on the times of its own timers.
LEMMA SameTimes ==
    ASSUME NEW q, NEW cell, NEW old, \A x \in InSeq(q) : cell[x] = old[x]
    PROVE  /\ Sorted(q, old) => Sorted(q, cell)
           /\ \A a : LastOf(q, old, a) => LastOf(q, cell, a)
<1>1. \A i \in 1 .. Len(q) : cell[q[i]] = old[q[i]]
  BY DEF InSeq
<1> QED
  BY <1>1 DEF Sorted, LastOf

\* The free list without its first cell.
LEMMA Popped ==
    ASSUME NEW S, NEW q \in Seq(S), q # <<>>, Distinct(q)
    PROVE  /\ Tail(q) \in Seq(S) /\ Len(Tail(q)) = Len(q) - 1
           /\ Head(q) \in InSeq(q) /\ Head(q) \in S
           /\ InSeq(Tail(q)) = InSeq(q) \ {Head(q)} /\ Distinct(Tail(q))
<1> DEFINE n == Tail(q)
<1>0. Len(q) \in Nat /\ Len(q) >= 1 /\ Head(q) = q[1]
  OBVIOUS
<1>1. n \in Seq(S) /\ Len(n) = Len(q) - 1
  OBVIOUS
<1>2. \A i \in 1 .. Len(n) : n[i] = q[i + 1] /\ i + 1 \in 1 .. Len(q)
  BY <1>0
<1> HIDE DEF n
<1>3. \A i \in 1 .. Len(q) : i # 1 => i - 1 \in 1 .. Len(n) /\ q[i] = n[i - 1]
  <2> SUFFICES ASSUME NEW i \in 1 .. Len(q), i # 1
               PROVE  i - 1 \in 1 .. Len(n) /\ q[i] = n[i - 1]
    OBVIOUS
  <2>1. i - 1 \in 1 .. Len(n) /\ (i - 1) + 1 = i
    BY <1>0, <1>1
  <2> QED
    BY <1>2, <2>1
<1>4. \A i \in 1 .. Len(q) : q[i] = q[1] => i = 1
  BY <1>0 DEF Distinct
<1>5. InSeq(n) = InSeq(q) \ {Head(q)}
  <2>1. \A x : x \in InSeq(n) <=> \E k \in 1 .. Len(n) : n[k] = x
    BY DEF InSeq
  <2>2. \A x : x \in InSeq(q) <=> \E i \in 1 .. Len(q) : q[i] = x
    BY DEF InSeq
  <2>3. ASSUME NEW x \in InSeq(n) PROVE x \in InSeq(q) /\ x # q[1]
    <3>1. PICK k \in 1 .. Len(n) : n[k] = x
      BY <2>1
    <3>2. k + 1 # 1 /\ k + 1 \in 1 .. Len(q) /\ q[k + 1] = x
      BY <1>0, <1>1, <1>2, <3>1
    <3> QED
      BY <1>4, <2>2, <3>2
  <2>4. \A x : x \in InSeq(q) /\ x # q[1] => x \in InSeq(n)
    BY <1>3, <2>1, <2>2
  <2> QED
    BY <1>0, <2>3, <2>4
<1>6. Distinct(n)
  <2> SUFFICES ASSUME NEW i \in 1 .. Len(n), NEW j \in 1 .. Len(n), n[i] = n[j]
               PROVE  i = j
    BY DEF Distinct
  <2>1. i + 1 = j + 1
    BY <1>2 DEF Distinct
  <2> QED
    BY <1>1, <2>1
<1>7. Head(q) \in InSeq(q) /\ Head(q) \in S
  BY <1>0 DEF InSeq
<1> QED
  BY <1>1, <1>5, <1>6, <1>7 DEF n

\* What tmr_create does to a package.
LEMMA TimerCreate ==
    ASSUME NEW m, ListsOK(m), Len(m.active) < MaxCells,
           NEW h \in Handles, NEW now \in Nat, NEW u \in Nat
    PROVE  \E c : Created(m, tmr_create(m, h, now, u), c, h, now + u, u)
<1> DEFINE c == IF m.free # <<>> THEN Head(m.free) ELSE 1 + Len(m.active)
           f == IF m.free # <<>> THEN Tail(m.free) ELSE m.free
           new == [owner |-> h, time |-> now + u, usecs |-> u]
           k == [m EXCEPT !.free = f, !.cell[c] = new, !.handle[h] = c]
           r == list_add(k, c)
<1>0. /\ m \in Package /\ m.free \in Seq(Cells) /\ InSeq(m.active) \subseteq Cells
      /\ Len(m.active) \in Nat /\ Len(m.free) \in Nat
  BY PackageFields DEF ListsOK
<1>1. tmr_create(m, h, now, u) = r
  BY DEF tmr_create
<1>2. /\ c \in Cells /\ c \notin InSeq(m.active)
      /\ f \in Seq(Cells) /\ Distinct(f) /\ c \notin InSeq(f) /\ InSeq(f) \subseteq InSeq(m.free)
      /\ InSeq(m.active) \cup {c} \cup InSeq(f) \subseteq 1 .. (Len(m.active) + 1) + Len(f)
  <2>1. CASE m.free # <<>>
    <3>1. c = Head(m.free) /\ f = Tail(m.free)
      BY <2>1
    <3> HIDE DEF c, f
    <3>2. /\ f \in Seq(Cells) /\ Len(f) = Len(m.free) - 1
          /\ c \in InSeq(m.free) /\ c \in Cells
          /\ InSeq(f) = InSeq(m.free) \ {c} /\ Distinct(f)
      BY <1>0, <2>1, <3>1, Popped DEF ListsOK
    <3>3. (Len(m.active) + 1) + Len(f) = Len(m.active) + Len(m.free)
      <4>1. \A a, b \in Nat : (a + 1) + (b - 1) = a + b
        OBVIOUS
      <4>2. (Len(m.active) + 1) + (Len(m.free) - 1) = Len(m.active) + Len(m.free)
        BY <1>0, <4>1
      <4> QED
        BY <3>2, <4>2
    <3> QED
      BY <3>2, <3>3 DEF ListsOK
  <2>2. CASE m.free = <<>>
    <3>1. c = 1 + Len(m.active) /\ f = <<>> /\ Len(f) = 0 /\ Len(m.free) = 0 /\ InSeq(f) = {}
      BY <2>2 DEF InSeq
    <3>2. f \in Seq(Cells) /\ Distinct(f) /\ InSeq(m.free) = {}
      BY <2>2 DEF Distinct, InSeq
    <3> HIDE DEF c, f
    <3>3. c \in Cells
      BY <1>0, <3>1, Numbers DEF Cells
    <3>4. InSeq(m.active) \subseteq 1 .. Len(m.active)
      BY <1>0, <3>1 DEF ListsOK
    <3>5. c \notin InSeq(m.active)
      BY <1>0, <3>1, <3>4
    <3>6. 1 .. (Len(m.active) + 1) + Len(f) = 1 .. Len(m.active) + 1
      BY <1>0, <3>1
    <3>7. InSeq(m.active) \cup {c} \subseteq 1 .. Len(m.active) + 1
      BY <1>0, <3>1, <3>4
    <3> QED
      BY <3>1, <3>2, <3>3, <3>5, <3>6, <3>7
  <2> QED
    BY <2>1, <2>2
<1>3. new \in CellType
  BY DEF CellType
<1> HIDE DEF c, f, new
<1> DEFINE cell == [m.cell EXCEPT ![c] = new]
           handle == [m.handle EXCEPT ![h] = c]
<1>4. /\ cell \in [Cells -> CellType] /\ cell[c] = new
      /\ \A x \in Cells : x # c => cell[x] = m.cell[x]
  BY <1>0, <1>2, <1>3 DEF Package
<1>5. /\ handle \in [Handles -> Cells \cup {NULL}] /\ handle[h] = c
      /\ \A g \in Handles : g # h => handle[g] = m.handle[g]
  BY <1>0, <1>2 DEF Package
<1>6. k = [m EXCEPT !.free = f, !.cell = cell, !.handle = handle]
  BY <1>0 DEF Package
<1> HIDE DEF cell, handle, k
<1>7. /\ k \in Package /\ k.active = m.active /\ k.free = f /\ k.cell = cell
      /\ k.handle = handle
  BY <1>0, <1>2, <1>4, <1>5, <1>6 DEF Package
<1>8. \A x \in InSeq(k.active) : k.cell[x] = m.cell[x]
  BY <1>0, <1>2, <1>4, <1>7
<1>9. Sorted(k.active, k.cell) /\ Distinct(k.active)
  BY <1>7, <1>8, SameTimes DEF ListsOK
<1>10. Added(k, r, c)
  BY <1>2, <1>7, <1>9, ListAdd
<1> HIDE DEF r
<1>11. /\ r \in Package /\ r.free = f /\ r.cell = cell /\ r.handle = handle
       /\ Len(r.active) = Len(m.active) + 1
       /\ InSeq(r.active) = InSeq(m.active) \cup {c}
       /\ Distinct(r.active) /\ Sorted(r.active, r.cell) /\ LastOf(r.active, r.cell, c)
  BY <1>7, <1>10 DEF Added
<1>12. ListsOK(r)
  <2>1. InSeq(r.active) \cap InSeq(r.free) = {}
    BY <1>2, <1>11 DEF ListsOK
  <2>2. InSeq(r.active) \cup InSeq(r.free) \subseteq 1 .. Len(r.active) + Len(r.free)
    BY <1>2, <1>11
  <2> QED
    BY <1>2, <1>11, <2>1, <2>2 DEF ListsOK
<1>13. ASSUME NEW a \in Cells, NEW b \in Cells, a # c, b # c,
              m.cell[a].time = m.cell[b].time, Follows(m.active, a, b)
       PROVE  Follows(r.active, a, b)
  <2>1. k.cell[a].time = k.cell[b].time /\ Follows(k.active, a, b)
    BY <1>4, <1>7, <1>13
  <2> QED
    BY <1>10, <2>1 DEF Added
<1>14. ASSUME NEW a \in Cells, a # c, LastOf(m.active, m.cell, a), m.cell[a].time = now + u
       PROVE  Follows(r.active, a, c)
  <2>1. LastOf(k.active, k.cell, a)
    BY <1>7, <1>8, <1>14, SameTimes
  <2>2. k.cell[c].time = now + u
    BY <1>4, <1>7 DEF new
  <2>3. k.cell[a].time = k.cell[c].time
    BY <1>4, <1>7, <1>14, <2>2
  <2> QED
    BY <1>10, <2>1, <2>3 DEF Added
<1>15. Created(m, r, c, h, now + u, u)
  BY <1>2, <1>4, <1>5, <1>11, <1>12, <1>13, <1>14 DEF Created, new
<1> QED
  BY <1>1, <1>15

-----------------------------------------------------------------------------
(* The timers of a test. *)

\* The pointers are different from each other.
LEMMA HandleNames ==
    /\ {Timer, Stats, Reporter, OmitTimer} \cup Sends = Handles
    /\ Timer # Stats /\ Timer # Reporter /\ Timer # OmitTimer
    /\ Stats # Reporter /\ Stats # OmitTimer /\ Reporter # OmitTimer
    /\ Timer \notin Sends /\ Stats \notin Sends
    /\ Reporter \notin Sends /\ OmitTimer \notin Sends
    /\ \A h \in Handles : Periodic(h) <=> h # Timer /\ h # OmitTimer
    /\ \A i, j \in 1 .. NumStreams : Send(i) = Send(j) => i = j
<1>1. /\ Timer # Stats /\ Timer # Reporter /\ Timer # OmitTimer
      /\ Stats # Reporter /\ Stats # OmitTimer /\ Reporter # OmitTimer
  BY DEF Timer, Stats, Reporter, OmitTimer
<1>2. /\ Timer \notin Sends /\ Stats \notin Sends
      /\ Reporter \notin Sends /\ OmitTimer \notin Sends
  BY DEF Timer, Stats, Reporter, OmitTimer, Sends, Send
<1>3. \A i, j \in 1 .. NumStreams : Send(i) = Send(j) => i = j
  BY DEF Send
<1>4. \A h \in Handles : Periodic(h) <=> h # Timer /\ h # OmitTimer
  BY <1>1, <1>2 DEF Handles, Periodic
<1> QED
  BY <1>1, <1>2, <1>3, <1>4 DEF Handles

\* One more element makes a finite set larger by one at most.
LEMMA OneMore ==
    ASSUME NEW S, IsFiniteSet(S), NEW n \in Nat, Cardinality(S) <= n, NEW x
    PROVE  IsFiniteSet(S \cup {x}) /\ Cardinality(S \cup {x}) <= n + 1
<1>1. Cardinality(S) \in Nat
  BY FS_CardinalityType
<1>2. /\ IsFiniteSet(S \cup {x})
      /\ Cardinality(S \cup {x}) = IF x \in S THEN Cardinality(S) ELSE Cardinality(S) + 1
  BY FS_AddElement
<1> QED
  BY <1>1, <1>2

\* There are never more active timers than pointers, so a new one finds a cell.
LEMMA HandleCount == IsFiniteSet(Handles) /\ Cardinality(Handles) <= 4 + NumStreams
<1> DEFINE f == [i \in 1 .. NumStreams |-> Send(i)]
           four == {Timer, Stats, Reporter, OmitTimer}
<1>0. NumStreams \in Nat
  BY Numbers
<1>1. IsFiniteSet(1 .. NumStreams) /\ Cardinality(1 .. NumStreams) = NumStreams
  BY <1>0, FS_Interval
<1>2. f \in Surjection(1 .. NumStreams, Sends)
  BY DEF Surjection, Sends
<1>3. IsFiniteSet(Sends) /\ Cardinality(Sends) <= NumStreams
  BY <1>1, <1>2, FS_Surjection
<1>4. IsFiniteSet({}) /\ Cardinality({}) = 0
  BY FS_EmptySet
<1>5. IsFiniteSet({Timer}) /\ Cardinality({Timer}) <= 1
  BY <1>4, OneMore, {} \cup {Timer} = {Timer}
<1>6. IsFiniteSet({Timer, Stats}) /\ Cardinality({Timer, Stats}) <= 2
  BY <1>5, OneMore, {Timer} \cup {Stats} = {Timer, Stats}
<1>7. IsFiniteSet({Timer, Stats, Reporter}) /\ Cardinality({Timer, Stats, Reporter}) <= 3
  <2> DEFINE two == {Timer, Stats}
  <2>1. IsFiniteSet(two) /\ Cardinality(two) <= 2
    BY <1>6
  <2>2. {Timer, Stats, Reporter} = two \cup {Reporter}
    OBVIOUS
  <2> HIDE DEF two
  <2>3. IsFiniteSet(two \cup {Reporter}) /\ Cardinality(two \cup {Reporter}) <= 2 + 1
    BY <2>1, OneMore
  <2> QED
    BY <2>2, <2>3
<1>8. IsFiniteSet(four) /\ Cardinality(four) <= 4
  <2> DEFINE three == {Timer, Stats, Reporter}
  <2>1. IsFiniteSet(three) /\ Cardinality(three) <= 3
    BY <1>7
  <2>2. four = three \cup {OmitTimer}
    OBVIOUS
  <2> HIDE DEF three, four
  <2>3. IsFiniteSet(three \cup {OmitTimer}) /\ Cardinality(three \cup {OmitTimer}) <= 3 + 1
    BY <2>1, OneMore
  <2> QED
    BY <2>2, <2>3
<1> HIDE DEF four
<1>9. /\ IsFiniteSet(four \cup Sends)
      /\ Cardinality(four \cup Sends)
            = Cardinality(four) + Cardinality(Sends) - Cardinality(four \cap Sends)
  BY <1>3, <1>8, FS_Union
<1>10. four \cup Sends = Handles
  BY DEF four, Handles
<1>11. Cardinality(four \cap Sends) \in Nat
  <2>1. four \cap Sends \in SUBSET four
    OBVIOUS
  <2>2. IsFiniteSet(four \cap Sends)
    BY <1>8, <2>1, FS_Subset
  <2> QED
    BY <2>2, FS_CardinalityType
<1>12. Cardinality(four) \in Nat /\ Cardinality(Sends) \in Nat
  BY <1>3, <1>8, FS_CardinalityType
<1>13. \A a, b, d, n \in Nat : a <= 4 /\ b <= n => a + b - d <= 4 + n
  OBVIOUS
<1>14. Cardinality(four) + Cardinality(Sends) - Cardinality(four \cap Sends) <= 4 + NumStreams
  BY <1>0, <1>3, <1>8, <1>11, <1>12, <1>13
<1> QED
  BY <1>9, <1>10, <1>14

\* Fewer timers are active than there are cells.
LEMMA RoomForOne ==
    ASSUME NEW m, ListsOK(m), Live(m)
    PROVE  Len(m.active) < MaxCells
<1> DEFINE N == Len(m.active)
           f == [i \in 1 .. N |-> m.cell[m.active[i]].owner]
<1>1. /\ m.active \in Seq(Cells) /\ m.cell \in [Cells -> CellType] /\ N \in Nat
  BY PackageFields DEF ListsOK
<1>2. \A i \in 1 .. N : m.active[i] \in Cells /\ m.active[i] \in InSeq(m.active)
  BY <1>1 DEF InSeq
<1>3. \A i \in 1 .. N : m.cell[m.active[i]].owner \in Handles
  BY <1>1, <1>2 DEF CellType
<1>4. f \in [1 .. N -> Handles]
  BY <1>3
<1>5. ASSUME NEW i \in 1 .. N, NEW j \in 1 .. N, f[i] = f[j] PROVE i = j
  <2>1. m.handle[f[i]] = m.active[i] /\ m.handle[f[j]] = m.active[j]
    BY <1>2 DEF Live
  <2>2. m.active[i] = m.active[j]
    BY <1>5, <2>1
  <2> QED
    BY <2>2 DEF ListsOK, Distinct
<1>6. f \in Injection(1 .. N, Handles)
  BY <1>4, <1>5 DEF Injection, IsInjective
<1>7. Cardinality(1 .. N) <= Cardinality(Handles)
  BY <1>6, HandleCount, FS_Injection
<1>8. Cardinality(1 .. N) = N
  BY <1>1, FS_Interval
<1>9. Cardinality(Handles) \in Nat
  BY HandleCount, FS_CardinalityType
<1> QED
  BY <1>1, <1>7, <1>8, <1>9, HandleCount, Numbers

\* A list of pointers in which the statistics and the reporter timer are a pair.
WellPaired(q) ==
    \A i \in 1 .. Len(q) :
        /\ q[i] = Stats => i < Len(q) /\ q[i + 1] = Reporter
        /\ q[i] = Reporter => i > 1 /\ q[i - 1] = Stats

\* Two lists joined.
LEMMA JoinedLists ==
    ASSUME NEW S, NEW q \in Seq(S), NEW r \in Seq(S)
    PROVE  /\ q \o r \in Seq(S) /\ InSeq(q \o r) = InSeq(q) \cup InSeq(r)
           /\ Distinct(q) /\ Distinct(r) /\ InSeq(q) \cap InSeq(r) = {} => Distinct(q \o r)
           /\ WellPaired(q) /\ WellPaired(r) => WellPaired(q \o r)
<1> DEFINE n == q \o r
<1>0. Len(q) \in Nat /\ Len(r) \in Nat
  OBVIOUS
<1>1. n \in Seq(S) /\ Len(n) = Len(q) + Len(r)
  OBVIOUS
<1>2. \A i \in 1 .. Len(q) : i \in 1 .. Len(n) /\ n[i] = q[i]
  BY <1>0
<1>3. \A i \in 1 .. Len(r) : i + Len(q) \in 1 .. Len(n) /\ n[i + Len(q)] = r[i]
  BY <1>0
<1>4. \A k \in 1 .. Len(n) :
        \/ k \in 1 .. Len(q)
        \/ ~(k \in 1 .. Len(q)) /\ k - Len(q) \in 1 .. Len(r) /\ n[k] = r[k - Len(q)]
  BY <1>0
<1> HIDE DEF n
<1>5. InSeq(n) = InSeq(q) \cup InSeq(r)
  <2>1. \A x : x \in InSeq(n) <=> \E k \in 1 .. Len(n) : n[k] = x
    BY DEF InSeq
  <2>2. \A x : x \in InSeq(q) <=> \E i \in 1 .. Len(q) : q[i] = x
    BY DEF InSeq
  <2>3. \A x : x \in InSeq(r) <=> \E i \in 1 .. Len(r) : r[i] = x
    BY DEF InSeq
  <2>4. \A x : x \in InSeq(n) => x \in InSeq(q) \/ x \in InSeq(r)
    BY <1>2, <1>4, <2>1, <2>2, <2>3
  <2>5. \A x : x \in InSeq(q) => x \in InSeq(n)
    BY <1>2, <2>1, <2>2
  <2>6. \A x : x \in InSeq(r) => x \in InSeq(n)
    BY <1>3, <2>1, <2>3
  <2> QED
    BY <2>4, <2>5, <2>6
<1>6. ASSUME Distinct(q), Distinct(r), InSeq(q) \cap InSeq(r) = {} PROVE Distinct(n)
  <2> SUFFICES ASSUME NEW i \in 1 .. Len(n), NEW j \in 1 .. Len(n), n[i] = n[j]
               PROVE  i = j
    BY DEF Distinct
  <2>1. \A k \in 1 .. Len(n) : k \in 1 .. Len(q) => n[k] \in InSeq(q)
    BY <1>2 DEF InSeq
  <2>2. \A k \in 1 .. Len(n) : k \notin 1 .. Len(q) => n[k] \in InSeq(r)
    BY <1>4 DEF InSeq
  <2>3. CASE i \in 1 .. Len(q) /\ j \in 1 .. Len(q)
    BY <1>2, <1>6, <2>3 DEF Distinct
  <2>4. CASE i \notin 1 .. Len(q) /\ j \notin 1 .. Len(q)
    <3>1. /\ i - Len(q) \in 1 .. Len(r) /\ n[i] = r[i - Len(q)]
          /\ j - Len(q) \in 1 .. Len(r) /\ n[j] = r[j - Len(q)]
      BY <1>4, <2>4
    <3>2. i - Len(q) = j - Len(q)
      BY <1>6, <3>1 DEF Distinct
    <3> QED
      BY <1>0, <3>2
  <2> QED
    BY <1>6, <2>1, <2>2, <2>3, <2>4
<1>7. ASSUME WellPaired(q), WellPaired(r) PROVE WellPaired(n)
  <2> SUFFICES ASSUME NEW i \in 1 .. Len(n)
               PROVE  /\ n[i] = Stats => i < Len(n) /\ n[i + 1] = Reporter
                      /\ n[i] = Reporter => i > 1 /\ n[i - 1] = Stats
    BY DEF WellPaired
  <2>1. CASE i \in 1 .. Len(q)
    <3>1. /\ q[i] = Stats => i < Len(q) /\ q[i + 1] = Reporter
          /\ q[i] = Reporter => i > 1 /\ q[i - 1] = Stats
      BY <1>7, <2>1 DEF WellPaired
    <3>2. i < Len(q) => i + 1 \in 1 .. Len(q) /\ i < Len(n)
      BY <1>0, <1>1, <2>1
    <3>3. i > 1 => i - 1 \in 1 .. Len(q)
      BY <1>0, <2>1
    <3>4. n[i] = q[i]
      BY <1>2, <2>1
    <3>5. i < Len(q) => n[i + 1] = q[i + 1]
      BY <1>2, <3>2
    <3>6. i > 1 => n[i - 1] = q[i - 1]
      BY <1>2, <3>3
    <3> QED
      BY <3>1, <3>2, <3>4, <3>5, <3>6
  <2>2. CASE i \notin 1 .. Len(q)
    <3> DEFINE k == i - Len(q)
    <3>1. k \in 1 .. Len(r) /\ n[i] = r[k]
      BY <1>4, <2>2
    <3>2. /\ r[k] = Stats => k < Len(r) /\ r[k + 1] = Reporter
          /\ r[k] = Reporter => k > 1 /\ r[k - 1] = Stats
      BY <1>7, <3>1 DEF WellPaired
    <3>3. k < Len(r) => k + 1 \in 1 .. Len(r) /\ (k + 1) + Len(q) = i + 1 /\ i < Len(n)
      <4>1. \A a, b, d \in Int : (a - b) + 1 + b = a + 1 /\ (a - b < d => a < b + d)
        OBVIOUS
      <4>2. (k + 1) + Len(q) = i + 1 /\ (k < Len(r) => i < Len(q) + Len(r))
        BY <1>0, <4>1
      <4> QED
        BY <1>0, <1>1, <3>1, <4>2
    <3>4. k > 1 => k - 1 \in 1 .. Len(r) /\ (k - 1) + Len(q) = i - 1 /\ i > 1
      BY <1>0, <3>1
    <3> HIDE DEF k
    <3>5. k < Len(r) => n[i + 1] = r[k + 1]
      BY <1>3, <3>3
    <3>6. k > 1 => n[i - 1] = r[k - 1]
      BY <1>3, <3>4
    <3> QED
      BY <3>1, <3>2, <3>3, <3>4, <3>5, <3>6
  <2> QED
    BY <2>1, <2>2
<1> QED
  BY <1>1, <1>5, <1>6, <1>7 DEF n

\* The pacing timers, in the order of the streams.
LEMMA SendList ==
    /\ SendsInOrder \in Seq(Handles) /\ InSeq(SendsInOrder) = Sends
    /\ Distinct(SendsInOrder) /\ WellPaired(SendsInOrder)
<1>0. NumStreams \in Nat
  BY Numbers
<1>1. \A i \in 1 .. NumStreams : Send(i) \in Handles /\ Send(i) \in Sends
  BY DEF Handles, Sends
<1>2. /\ SendsInOrder \in Seq(Handles) /\ Len(SendsInOrder) = NumStreams
      /\ \A i \in 1 .. NumStreams : SendsInOrder[i] = Send(i)
  BY <1>0, <1>1 DEF SendsInOrder
<1>3. InSeq(SendsInOrder) = Sends
  <2>1. \A x : x \in InSeq(SendsInOrder) <=> \E i \in 1 .. NumStreams : Send(i) = x
    BY <1>2 DEF InSeq
  <2> QED
    BY <2>1 DEF Sends
<1>4. Distinct(SendsInOrder)
  BY <1>2, HandleNames DEF Distinct
<1>5. WellPaired(SendsInOrder)
  BY <1>1, <1>2, HandleNames DEF WellPaired
<1> QED
  BY <1>2, <1>3, <1>4, <1>5

\* The pieces the orders are made of.
LEMMA NoPiece ==
    /\ <<>> \in Seq(Handles) /\ InSeq(<<>>) = {} /\ Distinct(<<>>) /\ WellPaired(<<>>)
  BY DEF InSeq, Distinct, WellPaired

\* The pieces that create_*_timers put together.
LEMMA OnePiece ==
    ASSUME NEW h \in {Timer, OmitTimer}
    PROVE  /\ <<h>> \in Seq(Handles) /\ InSeq(<<h>>) = {h}
           /\ Distinct(<<h>>) /\ WellPaired(<<h>>)
<1>1. h \in Handles /\ h # Stats /\ h # Reporter
  BY HandleNames
<1>2. <<h>> \in Seq(Handles) /\ Len(<<h>>) = 1 /\ <<h>>[1] = h
  BY <1>1
<1>3. \A i \in 1 .. 1 : i = 1
  OBVIOUS
<1> QED
  BY <1>1, <1>2, <1>3 DEF InSeq, Distinct, WellPaired

LEMMA PairPiece ==
    LET q == <<Stats, Reporter>> IN
    /\ q \in Seq(Handles) /\ InSeq(q) = {Stats, Reporter}
    /\ Distinct(q) /\ WellPaired(q)
<1> DEFINE q == <<Stats, Reporter>>
<1>1. q \in Seq(Handles) /\ Len(q) = 2 /\ q[1] = Stats /\ q[2] = Reporter
  BY HandleNames
<1>2. \A i \in 1 .. 2 : i = 1 \/ i = 2
  OBVIOUS
<1>3. 1 \in 1 .. 2 /\ 2 \in 1 .. 2
  OBVIOUS
<1> HIDE DEF q
<1>4. InSeq(q) = {Stats, Reporter}
  BY <1>1, <1>2, <1>3 DEF InSeq
<1>5. Distinct(q)
  BY <1>1, <1>2, HandleNames DEF Distinct
<1>6. WellPaired(q)
  <2> SUFFICES ASSUME NEW i \in 1 .. 2
               PROVE  /\ q[i] = Stats => i < 2 /\ q[i + 1] = Reporter
                      /\ q[i] = Reporter => i > 1 /\ q[i - 1] = Stats
    BY <1>1 DEF WellPaired
  <2>1. CASE i = 1
    <3>1. i + 1 = 2 /\ i < 2
      BY <2>1
    <3> QED
      BY <1>1, <2>1, <3>1, HandleNames
  <2>2. CASE i = 2
    <3>1. i - 1 = 1 /\ i > 1
      BY <2>2
    <3> QED
      BY <1>1, <2>2, <3>1, HandleNames
  <2> QED
    BY <1>2, <2>1, <2>2
<1> QED
  BY <1>1, <1>4, <1>5, <1>6 DEF q

\* A list of some of the timers, each once, the pair as a pair.
Piece(q, S) ==
    /\ q \in Seq(Handles) /\ InSeq(q) = S
    /\ Distinct(q) /\ WellPaired(q)

LEMMA JoinedPieces ==
    ASSUME NEW q, NEW r, NEW S, NEW T, Piece(q, S), Piece(r, T), S \cap T = {}
    PROVE  Piece(q \o r, S \cup T)
<1>1. q \in Seq(Handles) /\ r \in Seq(Handles) /\ InSeq(q) \cap InSeq(r) = {}
  BY DEF Piece
<1>2. /\ q \o r \in Seq(Handles) /\ InSeq(q \o r) = InSeq(q) \cup InSeq(r)
      /\ Distinct(q \o r) /\ WellPaired(q \o r)
  BY <1>1, JoinedLists DEF Piece
<1> QED
  BY <1>2 DEF Piece

\* The order of creation names a timer once, and the reporter right after the statistics.
LEMMA CreateOrderRight ==
    ASSUME NEW role, NEW timed \in BOOLEAN, NEW reports \in BOOLEAN, NEW omit,
           NEW paced \in BOOLEAN
    PROVE  LET q == CreateOrder(role, timed, reports, omit, paced) IN
           /\ q \in Seq(Handles) /\ Distinct(q) /\ WellPaired(q)
           /\ Timer \in InSeq(q) => role = "client"
           /\ OmitTimer \in InSeq(q) <=> omit # 0
<1> DEFINE A == IF role = "client" /\ timed THEN <<Timer>> ELSE <<>>
           B == IF reports THEN <<Stats, Reporter>> ELSE <<>>
           C == IF omit # 0 THEN <<OmitTimer>> ELSE <<>>
           D == IF paced THEN SendsInOrder ELSE <<>>
           SA == IF role = "client" /\ timed THEN {Timer} ELSE {}
           SB == IF reports THEN {Stats, Reporter} ELSE {}
           SC == IF omit # 0 THEN {OmitTimer} ELSE {}
           SD == IF paced THEN Sends ELSE {}
<1>1. Piece(A, SA)
  BY NoPiece, OnePiece DEF Piece
<1>2. Piece(B, SB)
  BY NoPiece, PairPiece DEF Piece
<1>3. Piece(C, SC)
  BY NoPiece, OnePiece DEF Piece
<1>4. Piece(D, SD)
  BY NoPiece, SendList DEF Piece
<1>5. CreateOrder(role, timed, reports, omit, paced) = ((A \o B) \o C) \o D
  BY DEF CreateOrder
<1>6. /\ SA \cap SB = {} /\ (SA \cup SB) \cap SC = {}
      /\ ((SA \cup SB) \cup SC) \cap SD = {}
  BY HandleNames
<1>7. /\ Timer \in ((SA \cup SB) \cup SC) \cup SD => role = "client"
      /\ OmitTimer \in ((SA \cup SB) \cup SC) \cup SD <=> omit # 0
  BY HandleNames
<1> HIDE DEF A, B, C, D, SA, SB, SC, SD
<1>8. Piece(A \o B, SA \cup SB)
  BY <1>1, <1>2, <1>6, JoinedPieces
<1>9. Piece((A \o B) \o C, (SA \cup SB) \cup SC)
  BY <1>3, <1>6, <1>8, JoinedPieces
<1>10. Piece(((A \o B) \o C) \o D, ((SA \cup SB) \cup SC) \cup SD)
  BY <1>4, <1>6, <1>9, JoinedPieces
<1> QED
  BY <1>5, <1>7, <1>10 DEF Piece

\* The order of cancelling misses no timer of the test.
LEMMA CancelOrderRight ==
    /\ CancelOrder \in Seq(Handles)
    /\ \A h \in Handles : h # Timer \/ test.role = "client" => h \in InSeq(CancelOrder)
<1> DEFINE F == <<OmitTimer, Timer, Stats, Reporter>>
           T == <<Stats, Reporter, OmitTimer>>
<1>1. /\ F \in Seq(Handles) /\ Len(F) = 4
      /\ F[1] = OmitTimer /\ F[2] = Timer /\ F[3] = Stats /\ F[4] = Reporter
  BY HandleNames
<1>2. /\ T \in Seq(Handles) /\ Len(T) = 3
      /\ T[1] = Stats /\ T[2] = Reporter /\ T[3] = OmitTimer
  BY HandleNames
<1> HIDE DEF F, T
<1>3. {OmitTimer, Timer, Stats, Reporter} \subseteq InSeq(F)
  <2>1. 1 \in 1 .. 4 /\ 2 \in 1 .. 4 /\ 3 \in 1 .. 4 /\ 4 \in 1 .. 4
    OBVIOUS
  <2>2. F[1] \in InSeq(F) /\ F[2] \in InSeq(F) /\ F[3] \in InSeq(F) /\ F[4] \in InSeq(F)
    BY <1>1, <2>1 DEF InSeq
  <2> QED
    BY <1>1, <2>2
<1>4. {Stats, Reporter, OmitTimer} \subseteq InSeq(T)
  <2>1. 1 \in 1 .. 3 /\ 2 \in 1 .. 3 /\ 3 \in 1 .. 3
    OBVIOUS
  <2>2. T[1] \in InSeq(T) /\ T[2] \in InSeq(T) /\ T[3] \in InSeq(T)
    BY <1>2, <2>1 DEF InSeq
  <2> QED
    BY <1>2, <2>2
<1>5. CASE test.role = "client"
  <2>1. CancelOrder = SendsInOrder \o F
    BY <1>5 DEF CancelOrder, F
  <2>2. CancelOrder \in Seq(Handles) /\ InSeq(CancelOrder) = Sends \cup InSeq(F)
    BY <1>1, <2>1, SendList, JoinedLists
  <2> QED
    BY <1>3, <2>2, HandleNames
<1>6. CASE test.role # "client"
  <2>1. CancelOrder = T \o SendsInOrder
    BY <1>6 DEF CancelOrder, T
  <2>2. CancelOrder \in Seq(Handles) /\ InSeq(CancelOrder) = InSeq(T) \cup Sends
    BY <1>2, <2>1, SendList, JoinedLists
  <2> QED
    BY <1>4, <1>6, <2>2, HandleNames
<1> QED
  BY <1>5, <1>6

-----------------------------------------------------------------------------
(* The invariant holds at the start and after every step. *)

TestType ==
    [phase : Phases, role : Roles, timed : BOOLEAN, done : BOOLEAN, omit : {0, Omit},
     omitting : BOOLEAN, todo : Seq(Handles), owed : Int]
RunType == [on : BOOLEAN, now : 0 .. MaxTime, t : Cells \cup {NULL}]

\* The type invariant with named record types.
LEMMA Types ==
    TypeOK <=> clock \in 0 .. MaxTime /\ tm \in Package /\ test \in TestType /\ run \in RunType
  BY DEF TypeOK, Package, CellType, TestType, RunType

LEMMA TypesNext ==
    TypeOK' <=> /\ clock' \in 0 .. MaxTime /\ tm' \in Package
                /\ test' \in TestType /\ run' \in RunType
  BY DEF TypeOK, Package, CellType, TestType, RunType

\* The parts of the invariant.
LEMMA Parts ==
    TimerInv => /\ clock \in 0 .. MaxTime /\ clock \in Nat
                /\ tm \in Package /\ test \in TestType /\ run \in RunType
                /\ ListsOK(tm) /\ Live(tm) /\ RunInv /\ PhaseInv /\ OmitInv /\ PairInv
  BY Types, Numbers DEF TimerInv

\* The invariant holds at the start.
LEMMA TimerInit == Init => TimerInv
<1> SUFFICES ASSUME Init PROVE TimerInv
  OBVIOUS
<1>1. PICK role \in Roles :
        test = [phase |-> "idle", role |-> role, timed |-> FALSE, done |-> FALSE,
                omit |-> 0, omitting |-> FALSE, todo |-> <<>>, owed |-> 0]
  BY DEF Init
<1>2. /\ test.phase = "idle" /\ test.done = FALSE /\ test.omitting = FALSE
      /\ run.on = FALSE /\ clock = 0
  BY <1>1 DEF Init, Idle
<1>3. /\ tm.active = <<>> /\ tm.free = <<>> /\ tm.cell = [c \in Cells |-> Unused]
      /\ tm.handle = [h \in Handles |-> NULL]
  BY DEF Init
<1>4. InSeq(tm.active) = {} /\ InSeq(tm.free) = {}
  BY <1>3 DEF InSeq
<1>5. tm \in Package
  BY UnusedType DEF Init, Package
<1>6. TypeOK
  <2>1. test \in TestType
    BY <1>1 DEF TestType, Phases
  <2>2. run \in RunType
    BY Numbers DEF Init, Idle, RunType
  <2>3. clock \in 0 .. MaxTime
    BY <1>2, Numbers
  <2> QED
    BY <1>5, <2>1, <2>2, <2>3, Types
<1>7. ListsOK(tm)
  <2>1. Distinct(tm.active) /\ Distinct(tm.free) /\ Sorted(tm.active, tm.cell)
    BY <1>3 DEF Distinct, Sorted
  <2> QED
    BY <1>4, <1>5, <2>1 DEF ListsOK
<1>8. Live(tm)
  BY <1>3, <1>4 DEF Live
<1>9. RunInv /\ PairInv /\ OmitInv
  BY <1>2, <1>4 DEF RunInv, PairInv, OmitInv
<1>10. PhaseInv
  BY <1>2, <1>3, HandleNames DEF PhaseInv
<1> QED
  BY <1>6, <1>7, <1>8, <1>9, <1>10 DEF TimerInv

LEMMA CreateFailsKeeps == ASSUME TimerInv, CreateFails PROVE TimerInv'
<1>0. /\ test.phase = "creating" /\ UNCHANGED <<clock, tm, run>>
      /\ test \in TestType /\ run \in RunType /\ tm \in Package
  BY Parts DEF CreateFails
<1>1. ~run.on
  BY <1>0, Parts DEF RunInv
<1>2. /\ test' \in TestType /\ test'.role = test.role /\ test'.done = test.done
      /\ test'.omitting = test.omitting
      /\ \/ test'.phase = "over"
         \/ test'.phase = "ending" /\ test'.todo = CancelOrder /\ test.role # "client"
  BY <1>0, CancelOrderRight DEF CreateFails, TestType, Phases
<1>3. TypeOK' /\ ListsOK(tm)' /\ Live(tm)' /\ RunInv'
  BY <1>0, <1>1, <1>2, Parts, TypesNext DEF RunInv
<1>4. PhaseInv'
  <2>1. test.role # "client" => test.role = "server"
    BY <1>0, TimerAssumption DEF TestType
  <2>2. test.role = "server" => tm.handle[Timer] = NULL
    BY Parts DEF PhaseInv
  <2>3. \A h \in Handles : h # Timer \/ test.role = "client" => h \in InSeq(CancelOrder)
    BY CancelOrderRight
  <2>4. test'.phase = "ending" =>
          \A h \in Handles : tm'.handle[h] # NULL => h \in InSeq(test'.todo)
    BY <1>0, <1>2, <2>1, <2>2, <2>3
  <2> QED
    BY <1>0, <1>2, <2>2, <2>4 DEF PhaseInv
<1>5. OmitInv'
  BY <1>0, <1>1, <1>2, Parts DEF OmitInv
<1>6. PairInv'
  BY <1>0, <1>1, <1>2, Parts DEF PairInv
<1> QED
  BY <1>3, <1>4, <1>5, <1>6 DEF TimerInv

LEMMA RunTestKeeps == ASSUME TimerInv, RunTest PROVE TimerInv'
<1>0. /\ test.phase = "creating" /\ test.todo = <<>> /\ UNCHANGED <<clock, tm, run>>
      /\ test \in TestType /\ run \in RunType /\ tm \in Package
  BY Parts DEF RunTest
<1>1. ~run.on /\ InSeq(test.todo) = {}
  BY <1>0, Parts DEF RunInv, InSeq
<1>2. /\ test' \in TestType /\ test'.role = test.role /\ test'.done = test.done
      /\ test'.omitting = test.omitting /\ test'.omit = test.omit /\ test'.owed = test.owed
      /\ test'.phase = "running"
  BY <1>0 DEF RunTest, TestType, Phases
<1>3. TypeOK' /\ ListsOK(tm)' /\ Live(tm)' /\ RunInv'
  BY <1>0, <1>1, <1>2, Parts, TypesNext DEF RunInv
<1>4. PhaseInv'
  BY <1>0, <1>2, Parts DEF PhaseInv
<1>5. OmitInv'
  BY <1>0, <1>1, <1>2, Parts DEF OmitInv
<1>6. PairInv'
  <2>1. test.owed = 0 /\ (Neither(tm) \/ Together(tm))
    BY <1>0, Parts DEF PairInv
  <2>2. ~Reporting'
    BY <1>0, <1>1 DEF Reporting
  <2>3. \A c \in InSeq(tm.active) :
          tm.cell[c].owner \in {Stats, Reporter} => tm.cell[c].usecs = Interval
    BY Parts DEF PairInv
  <2>4. Neither(tm)' \/ Together(tm)'
    BY <1>0, <2>1
  <2> QED
    BY <1>0, <1>2, <2>1, <2>2, <2>3, <2>4 DEF PairInv
<1> QED
  BY <1>3, <1>4, <1>5, <1>6 DEF TimerInv

LEMMA SetDoneKeeps == ASSUME TimerInv, SetDone PROVE TimerInv'
<1>0. /\ test.phase = "running" /\ ~run.on /\ UNCHANGED <<clock, tm, run>>
      /\ test.role = "client" => ~test.omitting
      /\ test \in TestType /\ run \in RunType /\ tm \in Package
  BY Parts DEF SetDone
<1>2. /\ test' \in TestType /\ test'.role = test.role /\ test'.done = TRUE
      /\ test'.omitting = test.omitting /\ test'.omit = test.omit /\ test'.owed = test.owed
      /\ test'.phase = "running"
  BY <1>0 DEF SetDone, TestType, Phases
<1>3. TypeOK' /\ ListsOK(tm)' /\ Live(tm)' /\ RunInv'
  BY <1>0, <1>2, Parts, TypesNext DEF RunInv
<1>4. PhaseInv'
  BY <1>0, <1>2, Parts DEF PhaseInv
<1>5. OmitInv'
  BY <1>0, <1>2, Parts DEF OmitInv
<1>6. PairInv'
  <2>1. ~Reporting /\ ~Reporting'
    BY <1>0 DEF Reporting
  <2>2. test.owed = 0 /\ (Neither(tm) \/ Together(tm))
    BY <1>0, <2>1, Parts DEF PairInv
  <2>3. \A c \in InSeq(tm.active) :
          tm.cell[c].owner \in {Stats, Reporter} => tm.cell[c].usecs = Interval
    BY Parts DEF PairInv
  <2>4. Neither(tm)' \/ Together(tm)'
    BY <1>0, <2>2
  <2> QED
    BY <1>0, <1>2, <2>1, <2>2, <2>3, <2>4 DEF PairInv
<1> QED
  BY <1>3, <1>4, <1>5, <1>6 DEF TimerInv

LEMMA EndTestKeeps == ASSUME TimerInv, EndTest PROVE TimerInv'
<1>0. /\ test.phase = "running" /\ ~run.on /\ UNCHANGED <<clock, tm, run>>
      /\ test \in TestType /\ run \in RunType /\ tm \in Package
  BY Parts DEF EndTest
<1>2. /\ test' \in TestType /\ test'.role = test.role /\ test'.done = test.done
      /\ test'.omitting = test.omitting
      /\ test'.phase = "ending" /\ test'.todo = CancelOrder
  BY <1>0, CancelOrderRight DEF EndTest, TestType, Phases
<1>3. TypeOK' /\ ListsOK(tm)' /\ Live(tm)' /\ RunInv'
  BY <1>0, <1>2, Parts, TypesNext DEF RunInv
<1>4. PhaseInv'
  <2>1. test.role # "client" => test.role = "server"
    BY <1>0, TimerAssumption DEF TestType
  <2>2. test.role = "server" => tm.handle[Timer] = NULL
    BY Parts DEF PhaseInv
  <2>3. \A h \in Handles : h # Timer \/ test.role = "client" => h \in InSeq(CancelOrder)
    BY CancelOrderRight
  <2>4. \A h \in Handles : tm'.handle[h] # NULL => h \in InSeq(test'.todo)
    BY <1>0, <1>2, <2>1, <2>2, <2>3
  <2> QED
    BY <1>0, <1>2, <2>2, <2>4 DEF PhaseInv
<1>5. OmitInv'
  BY <1>0, <1>2, Parts DEF OmitInv
<1>6. PairInv'
  BY <1>0, <1>2, Parts DEF PairInv
<1> QED
  BY <1>3, <1>4, <1>5, <1>6 DEF TimerInv

LEMMA EndedKeeps == ASSUME TimerInv, Ended PROVE TimerInv'
<1>0. /\ test.phase = "ending" /\ test.todo = <<>> /\ UNCHANGED <<tm, run>> /\ clock' = 0
      /\ test \in TestType /\ run \in RunType /\ tm \in Package
  BY Parts DEF Ended
<1>1. ~run.on /\ InSeq(test.todo) = {}
  BY <1>0, Parts DEF RunInv, InSeq
<1>2. /\ test' \in TestType /\ test'.role = test.role /\ test'.omitting = test.omitting
      /\ \/ test'.phase = "over" /\ test'.done = test.done
         \/ test'.phase = "idle" /\ test'.done = FALSE
  BY <1>0 DEF Ended, TestType, Phases
<1>3. TypeOK' /\ ListsOK(tm)' /\ Live(tm)' /\ RunInv'
  BY <1>0, <1>1, <1>2, Parts, TypesNext, Numbers DEF RunInv
<1>4. PhaseInv'
  BY <1>0, <1>1, <1>2, Parts DEF PhaseInv
<1>5. OmitInv'
  BY <1>0, <1>1, <1>2, Parts DEF OmitInv
<1>6. PairInv'
  BY <1>0, <1>1, <1>2, Parts DEF PairInv
<1> QED
  BY <1>3, <1>4, <1>5, <1>6 DEF TimerInv

LEMMA TickKeeps == ASSUME TimerInv, Tick PROVE TimerInv'
<1>0. /\ UNCHANGED <<tm, test, run>> /\ clock' = clock + 1 /\ clock < MaxTime
      /\ test.phase = "running" \/ (test.phase = "creating" /\ clock < Jitter)
      /\ clock \in 0 .. MaxTime
  BY Parts DEF Tick
<1>1. clock' \in 0 .. MaxTime /\ (test.phase = "creating" => clock' <= Jitter)
  BY <1>0, Numbers
<1>2. TypeOK' /\ ListsOK(tm)' /\ Live(tm)' /\ RunInv'
  BY <1>0, <1>1, Parts, TypesNext DEF RunInv
<1>3. PhaseInv'
  BY <1>0, Parts DEF PhaseInv
<1>4. OmitInv'
  BY <1>0, <1>1, Parts DEF OmitInv
<1>5. PairInv'
  BY <1>0, Parts DEF PairInv, Reporting
<1> QED
  BY <1>2, <1>3, <1>4, <1>5 DEF TimerInv

LEMMA StartTestKeeps == ASSUME TimerInv, StartTest PROVE TimerInv'
<1>0. /\ test.phase = "idle" /\ UNCHANGED <<clock, run>>
      /\ test \in TestType /\ run \in RunType /\ tm \in Package /\ clock \in 0 .. MaxTime
      /\ clock = 0
  BY Parts DEF StartTest, OmitInv
<1>1. PICK timed \in BOOLEAN, reports \in BOOLEAN, paced \in BOOLEAN, omit \in {0, Omit} :
        /\ test' = [test EXCEPT !.phase = "creating", !.timed = timed, !.omit = omit,
                        !.omitting = (omit # 0), !.owed = 0,
                        !.todo = CreateOrder(test.role, timed, reports, omit, paced)]
        /\ tm' = [tm EXCEPT !.handle = [h \in Handles |->
                     IF \/ h \in {Stats, Reporter} \cup Sends
                        \/ h = Timer /\ test.role = "client"
                        \/ h = OmitTimer /\ omit = 0
                       THEN NULL ELSE tm.handle[h]]]
  BY DEF StartTest
<1>2. \A h \in Handles : tm.handle[h] = NULL
  BY <1>0, Parts DEF PhaseInv
<1>3. /\ tm' \in Package /\ tm'.active = tm.active /\ tm'.free = tm.free /\ tm'.cell = tm.cell
      /\ \A h \in Handles : tm'.handle[h] = NULL
  <2> DEFINE handle == [h \in Handles |->
                     IF \/ h \in {Stats, Reporter} \cup Sends
                        \/ h = Timer /\ test.role = "client"
                        \/ h = OmitTimer /\ omit = 0
                       THEN NULL ELSE tm.handle[h]]
  <2>1. handle \in [Handles -> Cells \cup {NULL}] /\ \A h \in Handles : handle[h] = NULL
    BY <1>2
  <2>2. tm' = [tm EXCEPT !.handle = handle]
    BY <1>1
  <2> HIDE DEF handle
  <2> QED
    BY <1>0, <2>1, <2>2 DEF Package
<1> DEFINE q == CreateOrder(test.role, timed, reports, omit, paced)
<1>4. /\ q \in Seq(Handles) /\ Distinct(q) /\ WellPaired(q)
      /\ Timer \in InSeq(q) => test.role = "client"
      /\ OmitTimer \in InSeq(q) <=> omit # 0
  BY CreateOrderRight
<1>5. test' = [test EXCEPT !.phase = "creating", !.timed = timed, !.omit = omit,
                  !.omitting = (omit # 0), !.owed = 0, !.todo = q]
  BY <1>1
<1> HIDE DEF q
<1>6. test' \in TestType
  <2> DEFINE o == (omit # 0)
  <2>1. o \in BOOLEAN
    OBVIOUS
  <2>2. test' = [test EXCEPT !.phase = "creating", !.timed = timed, !.omit = omit,
                    !.omitting = o, !.owed = 0, !.todo = q]
    BY <1>5
  <2> HIDE DEF o
  <2>3. test' = [phase |-> "creating", role |-> test.role, timed |-> timed,
                 done |-> test.done, omit |-> omit, omitting |-> o, todo |-> q, owed |-> 0]
    BY <1>0, <2>2 DEF TestType
  <2>4. test.role \in Roles /\ test.done \in BOOLEAN
    BY <1>0 DEF TestType
  <2> QED
    BY <1>4, <2>1, <2>3, <2>4 DEF TestType, Phases
<1>7. /\ test'.phase = "creating" /\ test'.role = test.role /\ test'.done = test.done
      /\ test'.omit = omit /\ test'.owed = 0 /\ test'.todo = q
      /\ test'.omitting = (omit # 0)
  BY <1>0, <1>5 DEF TestType
<1>8. ~run.on /\ InSeq(tm.active) = {}
  <2>1. ~run.on
    BY <1>0, Parts DEF RunInv
  <2>2. ASSUME NEW c \in InSeq(tm.active) PROVE FALSE
    <3>1. c \in Cells /\ tm.cell[c].owner \in Handles
      BY <1>0, PackageFields DEF CellType
    <3>2. c = NULL
      BY <1>2, <2>2, <3>1, Parts DEF Live
    <3> QED
      BY <3>1, <3>2, Numbers DEF Cells, NULL
  <2> QED
    BY <2>1, <2>2
<1>9. TypeOK' /\ ListsOK(tm)' /\ RunInv'
  <2>1. ListsOK(tm)'
    BY <1>3, Parts DEF ListsOK
  <2> QED
    BY <1>0, <1>3, <1>6, <1>8, <2>1, TypesNext DEF RunInv
<1>10. Live(tm)'
  BY <1>3, <1>8 DEF Live
<1>11. PhaseInv'
  <2>1. InSeq(q) \subseteq Handles
    BY <1>4 DEF InSeq
  <2> QED
    BY <1>3, <1>4, <1>7, <2>1, HandleNames DEF PhaseInv
<1>12. OmitInv'
  <2>1. tm'.handle[OmitTimer] = NULL /\ tm'.handle[Timer] = NULL
    BY <1>3, HandleNames
  <2>2. OmitTimer \in InSeq(q) => omit = Omit
    BY <1>4
  <2>3. test.role = "client" => ~test.done
    BY <1>0, Parts DEF OmitInv
  <2>4. clock' <= Jitter
    BY <1>0, Numbers
  <2> QED
    BY <1>0, <1>4, <1>7, <1>8, <2>1, <2>2, <2>3, <2>4 DEF OmitInv
<1>13. PairInv'
  <2>1. Neither(tm)'
    BY <1>3, HandleNames DEF Neither
  <2>2. \A i \in 1 .. Len(q) :
           /\ q[i] = Stats => i < Len(q) /\ q[i + 1] = Reporter
           /\ q[i] = Reporter => i > 1 /\ q[i - 1] = Stats
    BY <1>4 DEF WellPaired
  <2>3. q # <<>> => Head(q) # Reporter
    BY <1>4, <2>2
  <2>4. InSeq(tm'.active) = {}
    BY <1>3, <1>8
  <2> QED
    BY <1>7, <2>1, <2>2, <2>3, <2>4 DEF PairInv
<1> QED
  BY <1>9, <1>10, <1>11, <1>12, <1>13 DEF TimerInv

LEMMA RunTimersKeeps == ASSUME TimerInv, RunTimers PROVE TimerInv'
<1>0. /\ test.phase = "running" /\ ~run.on /\ UNCHANGED <<clock, tm, test>>
      /\ tm.active # <<>> /\ run' = [on |-> TRUE, now |-> clock, t |-> Head(tm.active)]
      /\ test \in TestType /\ tm \in Package /\ clock \in 0 .. MaxTime
      /\ tm.active \in Seq(Cells) /\ Distinct(tm.active)
  BY Parts, PackageFields DEF RunTimers, Due, ListsOK
<1>1. /\ Len(tm.active) \in Nat /\ 1 \in 1 .. Len(tm.active)
      /\ Head(tm.active) = tm.active[1] /\ tm.active[1] \in Cells
  BY <1>0
<1>2. run'.on = TRUE /\ run'.now = clock /\ run'.t = tm.active[1]
  BY <1>0, <1>1
<1>3. run' \in RunType
  BY <1>0, <1>1 DEF RunType
<1>4. run'.t \in InSeq(tm.active)
  BY <1>1, <1>2 DEF InSeq
<1>5. TypeOK' /\ ListsOK(tm)' /\ Live(tm)' /\ RunInv' /\ PhaseInv'
  BY <1>0, <1>3, <1>4, Parts, TypesNext DEF RunInv, PhaseInv
<1>6. OmitInv'
  <2>1. tm.handle[OmitTimer] # NULL => NotAfter(tm.active, tm.active[1], tm.handle[OmitTimer])
    <3> SUFFICES ASSUME tm.handle[OmitTimer] # NULL
                 PROVE  NotAfter(tm.active, tm.active[1], tm.handle[OmitTimer])
      OBVIOUS
    <3>1. tm.handle[OmitTimer] \in InSeq(tm.active)
      BY Parts, HandleNames DEF Live
    <3>2. PICK j \in 1 .. Len(tm.active) : tm.active[j] = tm.handle[OmitTimer]
      BY <3>1 DEF InSeq
    <3> QED
      BY <1>1, <3>2 DEF NotAfter
  <2> QED
    BY <1>0, <1>2, <2>1, Parts DEF OmitInv
<1>7. PairInv'
  <2>1. ~Reporting
    BY <1>0 DEF Reporting
  <2>2. test.owed = 0 /\ (Neither(tm) \/ Together(tm))
    BY <1>0, <2>1, Parts DEF PairInv
  <2>3. run'.t # tm.handle[Reporter]
    <3>1. CASE Neither(tm)
      BY <1>1, <1>2, <3>1, Numbers DEF Neither, Cells, NULL
    <3>2. CASE Together(tm)
      <4>1. PICK i \in 1 .. Len(tm.active) :
              i < Len(tm.active) /\ tm.active[i + 1] = tm.handle[Reporter]
        BY <3>2 DEF Together, Follows
      <4>2. i + 1 \in 1 .. Len(tm.active) /\ i + 1 # 1
        BY <1>1, <4>1
      <4> QED
        BY <1>0, <1>1, <1>2, <4>1, <4>2 DEF Distinct
    <3> QED
      BY <2>2, <3>1, <3>2
  <2>4. ~Reporting'
    BY <1>0, <2>3 DEF Reporting
  <2>5. \A c \in InSeq(tm.active) :
          tm.cell[c].owner \in {Stats, Reporter} => tm.cell[c].usecs = Interval
    BY Parts DEF PairInv
  <2>6. Neither(tm)' \/ Together(tm)'
    BY <1>0, <2>2
  <2> QED
    BY <1>0, <2>2, <2>4, <2>5, <2>6 DEF PairInv
<1> QED
  BY <1>5, <1>6, <1>7 DEF TimerInv

LEMMA RunNotDueKeeps == ASSUME TimerInv, RunNotDue PROVE TimerInv'
<1>0. /\ run.on /\ UNCHANGED <<clock, tm, test>> /\ run' = Idle
      /\ tm.cell[run.t].time > run.now /\ run.now \in Nat
      /\ test \in TestType /\ tm \in Package /\ run.t \in InSeq(tm.active)
      /\ test.phase = "running"
  BY Parts, Numbers DEF RunNotDue, RunInv, RunType
<1>1. run' \in RunType /\ ~run'.on
  BY <1>0, Numbers DEF RunType, Idle
<1>2. TypeOK' /\ ListsOK(tm)' /\ Live(tm)' /\ RunInv' /\ PhaseInv' /\ OmitInv'
  BY <1>0, <1>1, Parts, TypesNext DEF RunInv, PhaseInv, OmitInv
<1>3. PairInv'
  <2>1. ~Reporting
    <3> SUFFICES ASSUME Reporting PROVE FALSE
      OBVIOUS
    <3>1. tm.cell[tm.handle[Reporter]].time <= run.now /\ run.t = tm.handle[Reporter]
      BY <1>0, Parts DEF PairInv, Apart, Reporting
    <3>2. tm.cell[run.t].time \in Nat
      BY <1>0, PackageFields DEF CellType
    <3> QED
      BY <1>0, <3>1, <3>2
  <2>2. test.owed = 0 /\ (Neither(tm) \/ Together(tm))
    BY <1>0, <2>1, Parts DEF PairInv
  <2>3. ~Reporting'
    BY <1>1 DEF Reporting
  <2>4. \A c \in InSeq(tm.active) :
          tm.cell[c].owner \in {Stats, Reporter} => tm.cell[c].usecs = Interval
    BY Parts DEF PairInv
  <2>5. Neither(tm)' \/ Together(tm)'
    BY <1>0, <2>2
  <2> QED
    BY <1>0, <2>2, <2>3, <2>4, <2>5 DEF PairInv
<1> QED
  BY <1>2, <1>3 DEF TimerInv

\* How long the timers run.
LEMMA UsecsRight ==
    ASSUME test \in TestType, NEW h \in Handles
    PROVE  /\ Usecs(h) \in Nat
           /\ h = Timer => Usecs(h) = Duration + test.omit
           /\ h = OmitTimer => Usecs(h) = Omit
           /\ h \in {Stats, Reporter} => Usecs(h) = Interval
<1>1. test.omit \in Nat
  BY Numbers DEF TestType
<1>2. Duration + test.omit \in Nat
  BY <1>1, Numbers
<1>3. CASE h = Timer
  BY <1>2, <1>3, HandleNames DEF Usecs
<1>4. CASE h = OmitTimer
  BY <1>4, HandleNames, Numbers DEF Usecs
<1>5. CASE h \in {Stats, Reporter}
  BY <1>5, HandleNames, Numbers DEF Usecs
<1>6. CASE h \notin {Timer, OmitTimer, Stats, Reporter}
  BY <1>6, Numbers DEF Usecs
<1> QED
  BY <1>3, <1>4, <1>5, <1>6, HandleNames

LEMMA NullNotCell == NULL \notin Cells
  BY DEF NULL, Cells

\* The package and the pointers after a timer is created.
LEMMA LiveCreated ==
    ASSUME NEW m, ListsOK(m), Live(m), NEW r, NEW c, NEW h \in Handles, NEW t, NEW u,
           Created(m, r, c, h, t, u), m.handle[h] = NULL
    PROVE  Live(r)
<1>0. /\ InSeq(m.active) \subseteq Cells /\ c \in Cells /\ c \notin InSeq(m.active)
      /\ InSeq(r.active) = InSeq(m.active) \cup {c}
      /\ r.handle[h] = c /\ r.cell[c].owner = h
  BY PackageFields DEF ListsOK, Created
<1>1. \A g \in Handles : g # h => r.handle[g] = m.handle[g]
  BY DEF Created
<1>2. \A x \in InSeq(m.active) : x # c /\ r.cell[x] = m.cell[x]
  BY <1>0 DEF Created
<1>3. ASSUME NEW g \in Handles, r.handle[g] # NULL
      PROVE  r.handle[g] \in InSeq(r.active) /\ r.cell[r.handle[g]].owner = g
  BY <1>0, <1>1, <1>2, <1>3 DEF Live
<1>4. ASSUME NEW x \in InSeq(r.active) PROVE r.handle[r.cell[x].owner] = x
  <2>1. CASE x = c
    BY <1>0, <2>1
  <2>2. CASE x \in InSeq(m.active)
    <3>1. r.cell[x].owner = m.cell[x].owner /\ m.handle[m.cell[x].owner] = x
      BY <1>2, <2>2 DEF Live
    <3>2. x # NULL
      BY <1>0, <2>2, NullNotCell
    <3>3. m.cell[x].owner \in Handles
      BY <1>0, <2>2, PackageFields DEF ListsOK, CellType
    <3> QED
      BY <1>1, <3>1, <3>2, <3>3
  <2> QED
    BY <1>0, <1>4, <2>1, <2>2
<1> QED
  BY <1>3, <1>4 DEF Live

LEMMA CreateTimerKeeps == ASSUME TimerInv, CreateTimer PROVE TimerInv'
<1> DEFINE h == Head(test.todo)
           now == IF h \in {Timer, Stats, Reporter} THEN 0 ELSE clock
           u == Usecs(h)
           q == test.todo
           n == Tail(test.todo)
<1>0. /\ test.phase = "creating" /\ q # <<>> /\ UNCHANGED <<clock, run>>
      /\ tm' = tmr_create(tm, h, now, u)
      /\ test' = [test EXCEPT !.todo = n]
      /\ test \in TestType /\ run \in RunType /\ tm \in Package /\ clock \in Nat
      /\ clock \in 0 .. MaxTime /\ q \in Seq(Handles) /\ Distinct(q)
      /\ ListsOK(tm) /\ Live(tm)
  BY Parts DEF CreateTimer, TestType, PhaseInv
<1>1. /\ n \in Seq(Handles) /\ Len(n) = Len(q) - 1 /\ h \in InSeq(q) /\ h \in Handles
      /\ InSeq(n) = InSeq(q) \ {h} /\ Distinct(n)
  BY <1>0, Popped
<1>2. now \in Nat /\ u \in Nat /\ ~run.on /\ tm.handle[h] = NULL
  BY <1>0, <1>1, UsecsRight, Parts DEF RunInv, PhaseInv
<1>3. PICK c : Created(tm, tm', c, h, now + u, u)
  BY <1>0, <1>1, <1>2, RoomForOne, TimerCreate
<1>4. /\ test' \in TestType /\ test'.todo = n /\ test'.phase = "creating"
      /\ test'.role = test.role /\ test'.done = test.done /\ test'.omit = test.omit
      /\ test'.omitting = test.omitting /\ test'.owed = test.owed
  BY <1>0, <1>1 DEF TestType
<1>5. /\ ListsOK(tm') /\ c \in Cells /\ c \notin InSeq(tm.active) /\ c # NULL
      /\ InSeq(tm'.active) = InSeq(tm.active) \cup {c}
      /\ tm'.handle[h] = c
      /\ tm'.cell[c].owner = h /\ tm'.cell[c].time = now + u /\ tm'.cell[c].usecs = u
  BY <1>3, NullNotCell DEF Created
<1>6. \A g \in Handles : g # h => tm'.handle[g] = tm.handle[g]
  BY <1>3 DEF Created
<1>7. \A x \in InSeq(tm.active) : x # c /\ x \in Cells /\ tm'.cell[x] = tm.cell[x]
  <2>1. InSeq(tm.active) \subseteq Cells
    BY <1>0, PackageFields
  <2> QED
    BY <1>3, <1>5, <2>1 DEF Created
<1>8. \A g \in Handles : g # h /\ tm.handle[g] # NULL =>
         tm.handle[g] \in InSeq(tm.active) /\ tm'.cell[tm'.handle[g]] = tm.cell[tm.handle[g]]
  BY <1>0, <1>6, <1>7 DEF Live
<1>9. TypeOK' /\ ListsOK(tm)' /\ Live(tm)' /\ RunInv'
  <2>1. Live(tm')
    BY <1>0, <1>1, <1>2, <1>3, LiveCreated
  <2>2. tm' \in Package
    BY <1>5 DEF ListsOK
  <2> QED
    BY <1>0, <1>2, <1>4, <1>5, <2>1, <2>2, TypesNext DEF RunInv
<1> HIDE DEF q, n, u, now
<1>10. PhaseInv'
  <2>1. InSeq(q) \subseteq Handles
    BY <1>0 DEF InSeq
  <2>2. \A g \in InSeq(n) : tm'.handle[g] = NULL
    BY <1>0, <1>1, <1>6, <2>1, Parts DEF PhaseInv, q
  <2>3. test.role = "server" => h # Timer /\ tm.handle[Timer] = NULL /\ Timer \notin InSeq(n)
    BY <1>0, <1>1, Parts DEF PhaseInv, q
  <2>4. test.role = "server" => tm'.handle[Timer] = NULL
    BY <1>6, <2>3, HandleNames
  <2> QED
    BY <1>1, <1>4, <2>2, <2>3, <2>4 DEF PhaseInv
<1>11. OmitInv'
  <2>1. /\ clock <= Jitter
        /\ OmitTimer \in InSeq(q) => test.omit = Omit
        /\ tm.handle[OmitTimer] # NULL =>
              test.omit = Omit /\ tm.cell[tm.handle[OmitTimer]].time <= Jitter + Omit
        /\ tm.handle[Timer] # NULL =>
              tm.cell[tm.handle[Timer]].time = Duration + test.omit
        /\ test.role = "client" =>
              /\ ~test.done
              /\ test.omitting => OmitTimer \in InSeq(q) \/ tm.handle[OmitTimer] # NULL
    BY <1>0, Parts DEF OmitInv, q
  <2>2. tm'.handle[OmitTimer] # NULL =>
           test.omit = Omit /\ tm'.cell[tm'.handle[OmitTimer]].time <= Jitter + Omit
    <3>1. CASE h = OmitTimer
      <4>1. now = clock /\ u = Omit
        BY <1>0, <1>1, <3>1, UsecsRight, HandleNames DEF now, u
      <4>2. now + u <= Jitter + Omit
        BY <1>0, <2>1, <4>1, Numbers
      <4> QED
        BY <1>1, <1>5, <2>1, <3>1, <4>2
    <3>2. CASE h # OmitTimer
      BY <1>6, <1>8, <2>1, <3>2, HandleNames
    <3> QED
      BY <3>1, <3>2
  <2>3. tm'.handle[Timer] # NULL => tm'.cell[tm'.handle[Timer]].time = Duration + test.omit
    <3>1. CASE h = Timer
      <4>1. now = 0 /\ u = Duration + test.omit
        BY <1>0, <1>1, <3>1, UsecsRight DEF now, u
      <4>2. now + u = Duration + test.omit
        BY <1>2, <4>1
      <4> QED
        BY <1>5, <3>1, <4>2
    <3>2. CASE h # Timer
      BY <1>6, <1>8, <2>1, <3>2, HandleNames
    <3> QED
      BY <3>1, <3>2
  <2>4. /\ OmitTimer \in InSeq(n) => OmitTimer \in InSeq(q)
        /\ OmitTimer \in InSeq(q) => OmitTimer \in InSeq(n) \/ tm'.handle[OmitTimer] # NULL
    BY <1>1, <1>5
  <2>5. tm.handle[OmitTimer] # NULL => tm'.handle[OmitTimer] # NULL
    BY <1>2, <1>6, HandleNames
  <2> QED
    BY <1>0, <1>2, <1>4, <2>1, <2>2, <2>3, <2>4, <2>5 DEF OmitInv
<1>12. PairInv'
  <2>1. ASSUME NEW x \in InSeq(tm'.active), tm'.cell[x].owner \in {Stats, Reporter}
        PROVE  tm'.cell[x].usecs = Interval
    <3>1. CASE x = c
      BY <1>0, <1>1, <1>5, <2>1, <3>1, UsecsRight DEF u
    <3>2. CASE x \in InSeq(tm.active)
      BY <1>7, <2>1, <3>2, Parts DEF PairInv
    <3> QED
      BY <1>5, <3>1, <3>2
  <2>2. /\ test.owed = 0
        /\ \A i \in 1 .. Len(q) :
              /\ q[i] = Stats => i < Len(q) /\ q[i + 1] = Reporter
              /\ q[i] = Reporter /\ i > 1 => q[i - 1] = Stats
        /\ \/ Neither(tm) /\ Head(q) # Reporter
           \/ Half(tm) /\ Head(q) = Reporter
           \/ Together(tm)
    BY <1>0, Parts DEF PairInv, q
  <2>3. /\ Len(q) \in Nat /\ Len(q) >= 1 /\ h = q[1] /\ 1 \in 1 .. Len(q)
        /\ \A i \in 1 .. Len(n) : n[i] = q[i + 1] /\ i + 1 \in 1 .. Len(q)
    BY <1>0 DEF q, n
  <2>4. ASSUME NEW i \in 1 .. Len(n)
        PROVE  /\ n[i] = Stats => i < Len(n) /\ n[i + 1] = Reporter
               /\ n[i] = Reporter /\ i > 1 => n[i - 1] = Stats
    <3>1. /\ q[i + 1] = Stats => i + 1 < Len(q) /\ q[(i + 1) + 1] = Reporter
          /\ q[i + 1] = Reporter /\ i + 1 > 1 => q[(i + 1) - 1] = Stats
      BY <2>2, <2>3
    <3>2. i + 1 < Len(q) => i < Len(n) /\ i + 1 \in 1 .. Len(n)
      BY <1>1, <2>3
    <3>3. i > 1 => i - 1 \in 1 .. Len(n) /\ (i - 1) + 1 = (i + 1) - 1 /\ i + 1 > 1
      BY <1>1, <2>3
    <3>4. i < Len(n) => n[i + 1] = q[(i + 1) + 1]
      BY <2>3, <3>2, <1>1
    <3>5. i > 1 => n[i - 1] = q[(i + 1) - 1]
      BY <2>3, <3>3
    <3> QED
      BY <2>3, <3>1, <3>2, <3>3, <3>4, <3>5
  <2>5. n # <<>> => Head(n) = q[2] /\ 2 \in 1 .. Len(q)
    BY <1>1, <2>3
  <2>6. \/ Neither(tm') /\ (n # <<>> => Head(n) # Reporter)
        \/ Half(tm') /\ n # <<>> /\ Head(n) = Reporter
        \/ Together(tm')
    <3>1. CASE Neither(tm) /\ h = Stats
      <4>1. 1 < Len(q) /\ q[1 + 1] = Reporter
        BY <2>2, <2>3, <3>1
      <4>2. n # <<>> /\ Head(n) = Reporter
        BY <1>1, <2>3, <2>5, <4>1
      <4>3. now + u = Interval
        <5>1. now = 0 /\ u = Interval
          BY <1>0, <1>1, <3>1, UsecsRight DEF now, u
        <5> QED
          BY <5>1, Numbers
      <4>4. LastOf(tm'.active, tm'.cell, c)
        BY <1>3 DEF Created
      <4>5. tm'.handle[Reporter] = NULL
        BY <1>6, <3>1, HandleNames DEF Neither
      <4> QED
        BY <1>5, <3>1, <4>2, <4>3, <4>4, <4>5 DEF Half
    <3>2. CASE Neither(tm) /\ h # Stats /\ h # Reporter
      <4>1. Neither(tm')
        BY <1>6, <3>2, HandleNames DEF Neither
      <4>2. ASSUME n # <<>>, Head(n) = Reporter PROVE FALSE
        <5>1. q[2] = Reporter /\ 2 \in 1 .. Len(q)
          BY <2>5, <4>2
        <5>2. q[2 - 1] = Stats
          BY <2>2, <5>1
        <5> QED
          BY <2>3, <3>2, <5>2
      <4> QED
        BY <4>1, <4>2
    <3>3. CASE Half(tm) /\ h = Reporter
      <4> DEFINE s == tm.handle[Stats]
      <4>1. /\ s # NULL /\ tm.cell[s].time = Interval
            /\ LastOf(tm.active, tm.cell, s)
        BY <3>3 DEF Half
      <4>2. s \in InSeq(tm.active) /\ tm'.handle[Stats] = s
        BY <1>0, <1>6, <3>3, <4>1, HandleNames DEF Live
      <4>3. now + u = Interval
        <5>1. now = 0 /\ u = Interval
          BY <1>0, <1>1, <3>3, UsecsRight DEF now, u
        <5> QED
          BY <5>1, Numbers
      <4>4. Follows(tm'.active, s, c)
        BY <1>3, <1>7, <4>1, <4>2, <4>3 DEF Created
      <4>5. tm'.cell[s].time = tm'.cell[c].time
        BY <1>5, <1>7, <4>1, <4>2, <4>3
      <4> QED
        BY <1>5, <3>3, <4>1, <4>2, <4>4, <4>5 DEF Together
    <3>4. CASE Together(tm)
      <4> DEFINE s == tm.handle[Stats]
                 r == tm.handle[Reporter]
      <4>1. /\ s # NULL /\ r # NULL /\ tm.cell[s].time = tm.cell[r].time
            /\ Follows(tm.active, s, r)
        BY <3>4 DEF Together
      <4>2. /\ s \in InSeq(tm.active) /\ tm'.handle[Stats] = s
            /\ r \in InSeq(tm.active) /\ tm'.handle[Reporter] = r
        BY <1>0, <1>2, <1>6, <4>1, HandleNames DEF Live
      <4>3. Follows(tm'.active, s, r)
        BY <1>3, <1>7, <4>1, <4>2 DEF Created
      <4>4. tm'.cell[s].time = tm'.cell[r].time
        BY <1>7, <4>1, <4>2
      <4> QED
        BY <4>1, <4>2, <4>3, <4>4 DEF Together
    <3> QED
      BY <2>2, <3>1, <3>2, <3>3, <3>4 DEF q
  <2> QED
    BY <1>4, <2>1, <2>2, <2>4, <2>6 DEF PairInv
<1> QED
  BY <1>9, <1>10, <1>11, <1>12 DEF TimerInv

\* A pointer is cleared.
LEMMA ClearHandle ==
    ASSUME NEW m, ListsOK(m), NEW h \in Handles
    PROVE  LET r == [m EXCEPT !.handle[h] = NULL] IN
           /\ ListsOK(r) /\ r.active = m.active /\ r.cell = m.cell
           /\ r.handle[h] = NULL /\ \A g \in Handles : g # h => r.handle[g] = m.handle[g]
<1> DEFINE handle == [m.handle EXCEPT ![h] = NULL]
           r == [m EXCEPT !.handle[h] = NULL]
<1>1. m \in Package /\ m.handle \in [Handles -> Cells \cup {NULL}]
  BY DEF ListsOK, Package
<1>2. /\ handle \in [Handles -> Cells \cup {NULL}] /\ handle[h] = NULL
      /\ \A g \in Handles : g # h => handle[g] = m.handle[g]
  BY <1>1
<1>3. r = [m EXCEPT !.handle = handle]
  BY <1>1 DEF Package
<1> HIDE DEF handle, r
<1>4. /\ r \in Package /\ r.active = m.active /\ r.free = m.free /\ r.cell = m.cell
      /\ r.handle = handle
  BY <1>1, <1>2, <1>3 DEF Package
<1>5. ListsOK(r)
  BY <1>4 DEF ListsOK
<1> QED
  BY <1>2, <1>4, <1>5 DEF r

\* The timer of pointer h is gone, with the pointer.
LEMMA LiveDropped ==
    ASSUME NEW m, ListsOK(m), Live(m), NEW h \in Handles, NEW r, NEW c \in InSeq(m.active),
           m.cell[c].owner = h,
           r.handle[h] = NULL, \A g \in Handles : g # h => r.handle[g] = m.handle[g],
           InSeq(r.active) = InSeq(m.active) \ {c},
           \A x \in Cells : x # c => r.cell[x].owner = m.cell[x].owner
    PROVE  Live(r)
<1>0. InSeq(m.active) \subseteq Cells /\ m.handle[h] = c
  BY PackageFields DEF ListsOK, Live
<1>1. ASSUME NEW g \in Handles, r.handle[g] # NULL
      PROVE  r.handle[g] \in InSeq(r.active) /\ r.cell[r.handle[g]].owner = g
  <2>1. g # h /\ r.handle[g] = m.handle[g]
    BY <1>1
  <2>2. m.handle[g] \in InSeq(m.active) /\ m.cell[m.handle[g]].owner = g
    BY <1>1, <2>1 DEF Live
  <2>3. m.handle[g] # c
    BY <2>1, <2>2
  <2> QED
    BY <1>0, <2>1, <2>2, <2>3
<1>2. ASSUME NEW x \in InSeq(r.active) PROVE r.handle[r.cell[x].owner] = x
  <2>1. x \in InSeq(m.active) /\ x # c /\ r.cell[x].owner = m.cell[x].owner
    BY <1>0, <1>2
  <2>2. m.handle[m.cell[x].owner] = x
    BY <2>1 DEF Live
  <2>3. m.cell[x].owner \in Handles
    BY <1>0, <2>1, PackageFields DEF ListsOK, CellType
  <2> QED
    BY <1>0, <2>1, <2>2, <2>3
<1> QED
  BY <1>1, <1>2 DEF Live

LEMMA CancelTimerKeeps == ASSUME TimerInv, CancelTimer PROVE TimerInv'
<1> DEFINE h == Head(test.todo)
           q == test.todo
           n == Tail(test.todo)
           c == tm.handle[h]
<1>0. /\ test.phase = "ending" /\ q # <<>> /\ UNCHANGED <<clock, run>>
      /\ tm' = IF c = NULL THEN tm ELSE [tmr_cancel(tm, c) EXCEPT !.handle[h] = NULL]
      /\ test' = [test EXCEPT !.todo = n]
      /\ test \in TestType /\ run \in RunType /\ tm \in Package
      /\ clock \in 0 .. MaxTime /\ q \in Seq(Handles)
      /\ ListsOK(tm) /\ Live(tm)
  BY Parts DEF CancelTimer, TestType
<1>1. /\ n \in Seq(Handles) /\ h \in Handles /\ Len(q) \in Nat /\ Len(q) >= 1
      /\ Len(n) = Len(q) - 1 /\ h = q[1]
      /\ \A i \in 1 .. Len(n) : n[i] = q[i + 1]
  BY <1>0
<1>2. \A g \in InSeq(q) : g # h => g \in InSeq(n)
  <2> SUFFICES ASSUME NEW g \in InSeq(q), g # h PROVE g \in InSeq(n)
    OBVIOUS
  <2>1. PICK i \in 1 .. Len(q) : q[i] = g
    BY DEF InSeq
  <2>2. i # 1
    BY <1>1, <2>1
  <2>3. i - 1 \in 1 .. Len(n) /\ (i - 1) + 1 = i
    BY <1>1, <2>2
  <2>4. n[i - 1] = g
    BY <1>1, <2>1, <2>3
  <2> QED
    BY <2>3, <2>4 DEF InSeq
<1>3. /\ test' \in TestType /\ test'.todo = n /\ test'.phase = "ending"
      /\ test'.role = test.role /\ test'.done = test.done
      /\ test'.omitting = test.omitting
  BY <1>0, <1>1 DEF TestType
<1>4. ~run.on
  BY <1>0, Parts DEF RunInv
<1>5. c = tm.handle[h] /\ h \in Handles /\ ListsOK(tm) /\ Live(tm)
  BY <1>0, <1>1
<1> HIDE DEF h, q, n, c
<1>6. /\ ListsOK(tm') /\ Live(tm') /\ InSeq(tm'.active) \subseteq InSeq(tm.active)
      /\ tm'.handle[h] = NULL /\ \A g \in Handles : g # h => tm'.handle[g] = tm.handle[g]
      /\ \A x \in InSeq(tm'.active) : tm'.cell[x] = tm.cell[x]
  <2>1. CASE c = NULL
    BY <1>0, <1>5, <2>1
  <2>2. CASE c # NULL
    <3> DEFINE m == tmr_cancel(tm, c)
    <3>1. c \in InSeq(tm.active) /\ tm.cell[c].owner = h
      BY <1>5, <2>2 DEF Live
    <3>2. Cancelled(tm, m, c)
      BY <1>5, <3>1, TimerCancel
    <3>3. tm' = [m EXCEPT !.handle[h] = NULL]
      BY <1>0, <2>2
    <3> HIDE DEF m
    <3>4. /\ ListsOK(m) /\ m.handle = tm.handle /\ InSeq(m.active) = InSeq(tm.active) \ {c}
          /\ \A x \in Cells : x # c => m.cell[x] = tm.cell[x]
      BY <3>2 DEF Cancelled
    <3>5. /\ ListsOK(tm') /\ tm'.active = m.active /\ tm'.cell = m.cell
          /\ tm'.handle[h] = NULL /\ \A g \in Handles : g # h => tm'.handle[g] = m.handle[g]
      BY <1>5, <3>3, <3>4, ClearHandle
    <3>6. InSeq(tm.active) \subseteq Cells
      BY <1>0, PackageFields
    <3>7. Live(tm')
      <4>1. \A x \in Cells : x # c => tm'.cell[x].owner = tm.cell[x].owner
        BY <3>4, <3>5
      <4>2. InSeq(tm'.active) = InSeq(tm.active) \ {c}
        BY <3>4, <3>5
      <4>3. \A g \in Handles : g # h => tm'.handle[g] = tm.handle[g]
        BY <3>4, <3>5
      <4> QED
        BY <1>5, <3>1, <3>5, <4>1, <4>2, <4>3, LiveDropped
    <3> QED
      BY <3>4, <3>5, <3>6, <3>7
  <2> QED
    BY <2>1, <2>2
<1>7. TypeOK' /\ ListsOK(tm)' /\ Live(tm)' /\ RunInv'
  <2>1. tm' \in Package
    BY <1>6 DEF ListsOK
  <2> QED
    BY <1>0, <1>3, <1>4, <1>6, <2>1, TypesNext DEF RunInv
<1>8. PhaseInv'
  <2>1. \A g \in Handles : tm.handle[g] # NULL => g \in InSeq(q)
    BY <1>0, Parts DEF PhaseInv, q
  <2>2. \A g \in Handles : tm'.handle[g] # NULL => g \in InSeq(n)
    BY <1>2, <1>6, <2>1
  <2>3. test.role = "server" => tm'.handle[Timer] = NULL
    BY <1>6, Parts, HandleNames DEF PhaseInv
  <2> QED
    BY <1>3, <2>2, <2>3 DEF PhaseInv
<1>9. OmitInv'
  <2>1. test.role = "client" /\ test.done => ~test.omitting
    BY Parts DEF OmitInv
  <2> QED
    BY <1>0, <1>3, <1>4, <2>1 DEF OmitInv
<1>10. PairInv'
  <2>1. \A x \in InSeq(tm.active) :
          tm.cell[x].owner \in {Stats, Reporter} => tm.cell[x].usecs = Interval
    BY Parts DEF PairInv
  <2> QED
    BY <1>3, <1>6, <2>1 DEF PairInv
<1> QED
  BY <1>7, <1>8, <1>9, <1>10 DEF TimerInv

-----------------------------------------------------------------------------
(* tmr_run. *)

\* The timer after c in the list.
LEMMA NextRight ==
    ASSUME NEW m, ListsOK(m), NEW c \in InSeq(m.active)
    PROVE  LET d == NextOf(m, c) IN
           /\ d # NULL => d \in InSeq(m.active) /\ d # c /\ Follows(m.active, c, d)
           /\ d \in Cells \cup {NULL}
           /\ \A x \in Cells : Follows(m.active, c, x) => d = x
           /\ \A x : d # NULL /\ Follows(m.active, x, d) => x = c
           /\ \A x : NotAfter(m.active, c, x) /\ x # c => d # NULL /\ NotAfter(m.active, d, x)
<1> DEFINE q == m.active
           p == CHOOSE i \in 1 .. Len(q) : q[i] = c
           d == NextOf(m, c)
<1>0. q \in Seq(Cells) /\ Len(q) \in Nat /\ Distinct(q)
  BY PackageFields DEF ListsOK
<1>1. \E i \in 1 .. Len(q) : q[i] = c
  BY DEF InSeq
<1>2. p \in 1 .. Len(q) /\ q[p] = c
  BY <1>1
<1>3. d = IF p < Len(q) THEN q[p + 1] ELSE NULL
  BY DEF NextOf, After
<1>4. \A i, j \in 1 .. Len(q) : q[i] = q[j] => i = j
  BY <1>0 DEF Distinct
<1> HIDE DEF p, d, q
<1>5. p < Len(q) => p + 1 \in 1 .. Len(q) /\ d = q[p + 1] /\ d \in Cells /\ d # c
  BY <1>0, <1>2, <1>3, <1>4
<1>6. d # NULL => p < Len(q)
  BY <1>3
<1>7. d # NULL => d \in InSeq(q) /\ Follows(q, c, d)
  BY <1>2, <1>5, <1>6 DEF InSeq, Follows
<1>8. d \in Cells \cup {NULL}
  BY <1>3, <1>5
<1>9. ASSUME NEW x \in Cells, Follows(q, c, x) PROVE d = x
  <2>1. PICK i \in 1 .. Len(q) : i < Len(q) /\ q[i] = c /\ q[i + 1] = x
    BY <1>9 DEF Follows
  <2>2. i = p
    BY <1>2, <1>4, <2>1
  <2> QED
    BY <1>5, <2>1, <2>2
<1>10. ASSUME NEW x, d # NULL, Follows(q, x, d) PROVE x = c
  <2>1. PICK i \in 1 .. Len(q) : i < Len(q) /\ q[i] = x /\ q[i + 1] = d
    BY <1>10 DEF Follows
  <2>2. i + 1 \in 1 .. Len(q)
    BY <1>0, <2>1
  <2>3. i + 1 = p + 1
    BY <1>4, <1>5, <1>6, <1>10, <2>1, <2>2
  <2>4. i = p
    BY <1>2, <2>3
  <2> QED
    BY <1>2, <2>1, <2>4
<1>11. ASSUME NEW x, NotAfter(q, c, x), x # c PROVE d # NULL /\ NotAfter(q, d, x)
  <2>1. PICK i \in 1 .. Len(q), j \in 1 .. Len(q) : i <= j /\ q[i] = c /\ q[j] = x
    BY <1>11 DEF NotAfter
  <2>2. i = p
    BY <1>2, <1>4, <2>1
  <2>3. p < Len(q) /\ p + 1 <= j
    BY <1>0, <1>2, <1>11, <2>1, <2>2
  <2>4. d # NULL
    BY <1>5, <2>3, NullNotCell
  <2> QED
    BY <1>5, <2>1, <2>3, <2>4 DEF NotAfter
<1> QED
  BY <1>5, <1>6, <1>7, <1>8, <1>9, <1>10, <1>11 DEF q, d

\* What a step of tmr_run starts from.
LEMMA RunFacts ==
    ASSUME TimerInv, RunTimer
    PROVE  LET c == run.t
               h == tm.cell[c].owner
               d == NextOf(tm, c)
           IN
           /\ run.on /\ test.phase = "running" /\ UNCHANGED clock
           /\ c \in InSeq(tm.active) /\ c \in Cells /\ h \in Handles /\ tm.handle[h] = c
           /\ tm.cell[c].time <= run.now /\ tm.cell[c].time \in Nat /\ tm.cell[c].usecs \in Nat
           /\ run.now \in Nat
           /\ test' = AfterProc(h) /\ tm' = Settle(Proc(tm, h, run.now), c)
           /\ run' = IF d = NULL THEN Idle ELSE [run EXCEPT !.t = d]
           /\ \A g \in Handles : tm.handle[g] = c => g = h
<1> DEFINE c == run.t
           h == tm.cell[c].owner
<1>1. /\ run.on /\ test.phase = "running" /\ c \in InSeq(tm.active)
  BY Parts DEF RunTimer, RunInv
<1>2. c \in Cells /\ tm.cell[c] \in CellType
  BY <1>1, Parts, PackageFields
<1>3. h \in Handles /\ tm.handle[h] = c
  BY <1>1, <1>2, Parts DEF Live, CellType
<1>4. \A g \in Handles : tm.handle[g] = c => g = h
  BY <1>2, Parts, NullNotCell DEF Live
<1>5. run.now \in Nat /\ tm.cell[c].time \in Nat /\ tm.cell[c].usecs \in Nat
  BY <1>2, Parts, Numbers DEF RunType, CellType
<1> QED
  BY <1>1, <1>2, <1>3, <1>4, <1>5 DEF RunTimer

\* The loop goes on with the timer it has remembered, or ends.
LEMMA RunNext ==
    ASSUME TimerInv, RunTimer
    PROVE  LET d == NextOf(tm, run.t) IN
           /\ run' \in RunType
           /\ run'.on => d # NULL /\ run'.t = d /\ run'.now = run.now
           /\ d # NULL => run'.on
<1> DEFINE d == NextOf(tm, run.t)
<1>1. run \in RunType /\ run' = IF d = NULL THEN Idle ELSE [run EXCEPT !.t = d]
  BY Parts, RunFacts
<1>2. d \in Cells \cup {NULL} /\ run.on
  BY RunFacts, Parts, NextRight
<1> HIDE DEF d
<1>3. CASE d = NULL
  <2>1. run' = [on |-> FALSE, now |-> 0, t |-> NULL]
    BY <1>1, <1>3 DEF Idle
  <2>2. 0 \in 0 .. MaxTime
    BY Numbers
  <2>3. run' \in RunType /\ run'.on = FALSE
    BY <2>1, <2>2 DEF RunType
  <2> QED
    BY <1>3, <2>3 DEF d
<1>4. CASE d # NULL
  <2>1. run.now \in 0 .. MaxTime
    BY <1>1 DEF RunType
  <2>2. run' = [on |-> TRUE, now |-> run.now, t |-> d]
    BY <1>1, <1>2, <1>4 DEF RunType
  <2>3. run' \in RunType /\ run'.on = TRUE /\ run'.now = run.now /\ run'.t = d
    BY <1>2, <2>1, <2>2 DEF RunType
  <2> QED
    BY <1>4, <2>3 DEF d
<1>5. /\ run' \in RunType
      /\ run'.on => d # NULL /\ run'.t = d /\ run'.now = run.now
      /\ d # NULL => run'.on
  BY <1>3, <1>4 DEF d
<1> QED
  BY <1>5 DEF d

\* A timer that is neither cancelled nor changed stays where it was.
KeptTimer(m, r, g) ==
    r.handle[g] = m.handle[g] /\ (m.handle[g] # NULL => r.cell[m.handle[g]] = m.cell[m.handle[g]])

\* The parts of the invariant that do not depend on which timer has run.
LEMMA RunRest ==
    ASSUME TimerInv, RunTimer, ListsOK(tm'), Live(tm'), test' \in TestType,
           test'.phase = "running", test'.role = test.role,
           NextOf(tm, run.t) # NULL => NextOf(tm, run.t) \in InSeq(tm'.active),
           tm'.handle[Timer] # NULL => KeptTimer(tm, tm', Timer)
    PROVE  TypeOK' /\ ListsOK(tm)' /\ Live(tm)' /\ RunInv' /\ PhaseInv'
<1>1. tm' \in Package /\ clock' \in 0 .. MaxTime /\ run' \in RunType
  BY RunFacts, RunNext, Parts DEF ListsOK
<1>2. RunInv'
  BY RunNext DEF RunInv
<1>3. PhaseInv'
  <2>1. test.role = "server" => tm'.handle[Timer] = NULL
    BY Parts DEF PhaseInv, KeptTimer
  <2> QED
    BY <2>1 DEF PhaseInv
<1> QED
  BY <1>1, <1>2, <1>3, TypesNext

\* The end of the omitted period is not passed when another timer has run.
LEMMA RunOmitRest ==
    ASSUME TimerInv, RunTimer, test'.phase = "running", test'.role = test.role,
           test'.omit = test.omit,
           tm'.handle[OmitTimer] # NULL =>
               /\ KeptTimer(tm, tm', OmitTimer) /\ tm.handle[OmitTimer] # run.t
               /\ \A a, b : a # run.t /\ b # run.t /\ NotAfter(tm.active, a, b) =>
                     NotAfter(tm'.active, a, b),
           tm'.handle[Timer] # NULL => KeptTimer(tm, tm', Timer),
           test.role = "client" =>
               /\ test'.omitting => tm'.handle[OmitTimer] # NULL
               /\ test'.done => ~test'.omitting
    PROVE  OmitInv'
<1> DEFINE d == NextOf(tm, run.t)
           o == tm.handle[OmitTimer]
<1>1. /\ tm'.handle[OmitTimer] # NULL =>
           test'.omit = Omit /\ tm'.cell[tm'.handle[OmitTimer]].time <= Jitter + Omit
      /\ tm'.handle[Timer] # NULL =>
           tm'.cell[tm'.handle[Timer]].time = Duration + test'.omit
  <2>1. /\ o # NULL => test.omit = Omit /\ tm.cell[o].time <= Jitter + Omit
        /\ tm.handle[Timer] # NULL => tm.cell[tm.handle[Timer]].time = Duration + test.omit
    BY RunFacts, Parts DEF OmitInv
  <2> QED
    BY <2>1 DEF KeptTimer
<1>2. ASSUME run'.on, tm'.handle[OmitTimer] # NULL
      PROVE  NotAfter(tm'.active, run'.t, tm'.handle[OmitTimer])
  <2>1. tm'.handle[OmitTimer] = o /\ o # NULL /\ o # run.t
    BY <1>2 DEF KeptTimer
  <2>2. NotAfter(tm.active, run.t, o) /\ run.t \in InSeq(tm.active) /\ ListsOK(tm)
    BY <2>1, RunFacts, Parts DEF OmitInv
  <2>3. NotAfter(tm.active, d, o) /\ d # NULL /\ d # run.t
    BY <2>1, <2>2, NextRight
  <2>4. run'.t = d
    BY <1>2, RunNext
  <2>5. NotAfter(tm'.active, d, o)
    BY <1>2, <2>1, <2>3
  <2> QED
    BY <2>1, <2>4, <2>5
<1> QED
  BY <1>1, <1>2 DEF OmitInv

\* Two pointers do not name one timer.
LEMMA OwnTimers ==
    ASSUME NEW m, ListsOK(m), Live(m), NEW g \in Handles, NEW h \in Handles, g # h,
           m.handle[g] # NULL
    PROVE  /\ m.handle[g] # m.handle[h] /\ m.handle[g] \in Cells
           /\ m.handle[g] \in InSeq(m.active) /\ m.cell[m.handle[g]].owner = g
<1>1. InSeq(m.active) \subseteq Cells
  BY PackageFields DEF ListsOK
<1> QED
  BY <1>1 DEF Live

\* The pair of interval timers, when another timer has run.
LEMMA PairRest ==
    ASSUME TimerInv, RunTimer, tm.cell[run.t].owner \notin {Stats, Reporter},
           test'.phase = "running", test'.owed = test.owed,
           tm'.handle[Stats] = tm.handle[Stats], tm'.handle[Reporter] = tm.handle[Reporter],
           Together(tm) => Together(tm'),
           \A x \in InSeq(tm'.active) :
              tm'.cell[x].owner \in {Stats, Reporter} => tm'.cell[x].usecs = Interval
    PROVE  PairInv'
<1> DEFINE c == run.t
           d == NextOf(tm, run.t)
           s == tm.handle[Stats]
           r == tm.handle[Reporter]
<1>1. /\ run.on /\ test.phase = "running" /\ c \in InSeq(tm.active) /\ c \in Cells
      /\ ListsOK(tm) /\ Live(tm) /\ PairInv
  BY RunFacts, Parts
<1>2. c # s /\ c # r
  BY <1>1, HandleNames, NullNotCell DEF Live
<1>3. ~Reporting
  BY <1>2 DEF Reporting
<1>4. test.owed = 0 /\ (Neither(tm) \/ Together(tm))
  BY <1>1, <1>3 DEF PairInv
<1>5. Neither(tm') \/ Together(tm')
  BY <1>4 DEF Neither
<1>6. ~(run'.on /\ run'.t = r)
  <2> SUFFICES ASSUME run'.on, run'.t = r PROVE FALSE
    OBVIOUS
  <2>1. d # NULL /\ d = r
    BY RunNext
  <2>2. Together(tm)
    BY <1>4, <2>1 DEF Neither
  <2>3. Follows(tm.active, s, d)
    BY <2>1, <2>2 DEF Together
  <2>4. s = c
    BY <1>1, <2>1, <2>3, NextRight
  <2> QED
    BY <1>2, <2>4
<1>7. ~Reporting'
  BY <1>6 DEF Reporting
<1> QED
  BY <1>4, <1>5, <1>7 DEF PairInv

\* A periodic timer is scheduled again, counted from the time it was due.
LEMMA PeriodicStep ==
    ASSUME TimerInv, RunTimer, tm.cell[run.t].owner \notin {Timer, OmitTimer}
    PROVE  LET c == run.t
               h == tm.cell[c].owner
           IN
           /\ Resorted(tm, tm', c, tm.cell[c].time + tm.cell[c].usecs)
           /\ Live(tm')
           /\ test' \in TestType /\ test'.phase = "running" /\ test'.role = test.role
           /\ test'.done = test.done /\ test'.omit = test.omit
           /\ test'.omitting = test.omitting
           /\ test'.owed = IF test.done THEN test.owed
                           ELSE IF h = Stats THEN test.owed + 1
                           ELSE IF h = Reporter THEN test.owed - 1 ELSE test.owed
<1> DEFINE c == run.t
           h == tm.cell[c].owner
           t == tm.cell[c].time + tm.cell[c].usecs
<1>1. /\ c \in InSeq(tm.active) /\ c \in Cells /\ h \in Handles
      /\ tm.cell[c].time \in Nat /\ tm.cell[c].usecs \in Nat
      /\ test' = AfterProc(h) /\ tm' = Settle(Proc(tm, h, run.now), c)
      /\ ListsOK(tm) /\ Live(tm) /\ test \in TestType /\ test.phase = "running"
  BY RunFacts, Parts
<1>2. h # Timer /\ h # OmitTimer
  OBVIOUS
<1>3. Proc(tm, h, run.now) = tm
  BY <1>2 DEF Proc
<1>4. Periodic(h)
  BY <1>1, <1>2, HandleNames
<1>5. tm' = list_resort([tm EXCEPT !.cell[c].time = t], c)
  BY <1>1, <1>3, <1>4 DEF Settle
<1>6. t \in Nat
  BY <1>1
<1> HIDE DEF t
<1>7. Resorted(tm, tm', c, t)
  BY <1>1, <1>5, <1>6, ListResort
<1>8. Live(tm')
  <2>1. InSeq(tm.active) \subseteq Cells /\ tm.cell \in [Cells -> CellType]
    BY <1>1, PackageFields DEF ListsOK
  <2>2. /\ tm'.handle = tm.handle /\ InSeq(tm'.active) = InSeq(tm.active)
        /\ tm'.cell[c].owner = tm.cell[c].owner
        /\ \A x \in Cells : x # c => tm'.cell[x] = tm.cell[x]
    BY <1>7 DEF Resorted
  <2>3. \A x \in InSeq(tm.active) : tm'.cell[x].owner = tm.cell[x].owner
    BY <2>1, <2>2
  <2>4. ASSUME NEW g \in Handles, tm'.handle[g] # NULL
        PROVE  tm'.handle[g] \in InSeq(tm'.active) /\ tm'.cell[tm'.handle[g]].owner = g
    <3>1. tm.handle[g] \in InSeq(tm.active) /\ tm.cell[tm.handle[g]].owner = g
      BY <1>1, <2>2, <2>4 DEF Live
    <3> QED
      BY <2>2, <2>3, <3>1
  <2>5. ASSUME NEW x \in InSeq(tm'.active) PROVE tm'.handle[tm'.cell[x].owner] = x
    <3>1. x \in InSeq(tm.active)
      BY <2>2
    <3>2. tm.handle[tm.cell[x].owner] = x
      BY <1>1, <3>1 DEF Live
    <3>3. tm'.cell[x].owner = tm.cell[x].owner
      BY <2>3, <3>1
    <3> QED
      BY <2>2, <3>2, <3>3
  <2> QED
    BY <2>4, <2>5 DEF Live
<1> HIDE DEF h
<1>9. test.owed \in Int
  BY <1>1 DEF TestType
<1>10. \E w \in Int :
         /\ test' = [test EXCEPT !.owed = w]
         /\ w = IF test.done THEN test.owed
                ELSE IF h = Stats THEN test.owed + 1
                ELSE IF h = Reporter THEN test.owed - 1 ELSE test.owed
  <2>1. CASE h = Stats /\ ~test.done
    <3>1. test' = [test EXCEPT !.owed = test.owed + 1]
      BY <1>1, <1>2, <2>1, HandleNames DEF AfterProc
    <3> QED
      BY <1>9, <2>1, <3>1
  <2>2. CASE h = Reporter /\ ~test.done
    <3>1. test' = [test EXCEPT !.owed = test.owed - 1]
      BY <1>1, <1>2, <2>2, HandleNames DEF AfterProc
    <3> QED
      BY <1>9, <2>2, <3>1, HandleNames
  <2>3. CASE test.done \/ (h # Stats /\ h # Reporter)
    <3>1. test' = test
      BY <1>1, <1>2, <2>3 DEF AfterProc
    <3>2. test = [test EXCEPT !.owed = test.owed]
      BY <1>1 DEF TestType
    <3> QED
      BY <1>9, <2>3, <3>1, <3>2
  <2> QED
    BY <2>1, <2>2, <2>3
<1>11. PICK w \in Int :
         /\ test' = [test EXCEPT !.owed = w]
         /\ w = IF test.done THEN test.owed
                ELSE IF h = Stats THEN test.owed + 1
                ELSE IF h = Reporter THEN test.owed - 1 ELSE test.owed
  BY <1>10
<1>12. /\ test' \in TestType /\ test'.phase = "running" /\ test'.role = test.role
       /\ test'.done = test.done /\ test'.omit = test.omit
       /\ test'.omitting = test.omitting /\ test'.owed = w
  BY <1>1, <1>11 DEF TestType
<1> QED
  BY <1>7, <1>8, <1>11, <1>12 DEF t, h

\* An interval or a pacing timer has run.
LEMMA RunPeriodicKeeps ==
    ASSUME TimerInv, RunTimer, tm.cell[run.t].owner \notin {Timer, OmitTimer}
    PROVE  TimerInv'
<1> DEFINE c == run.t
           h == tm.cell[c].owner
           d == NextOf(tm, c)
           s == tm.handle[Stats]
           r == tm.handle[Reporter]
           t == tm.cell[c].time + tm.cell[c].usecs
<1>1. /\ run.on /\ test.phase = "running" /\ c \in InSeq(tm.active) /\ c \in Cells
      /\ h \in Handles /\ tm.handle[h] = c
      /\ tm.cell[c].time <= run.now /\ tm.cell[c].time \in Nat
      /\ \A g \in Handles : tm.handle[g] = c => g = h
      /\ ListsOK(tm) /\ Live(tm) /\ PairInv /\ OmitInv
  BY RunFacts, Parts
<1>2. /\ Resorted(tm, tm', c, t) /\ Live(tm')
      /\ test' \in TestType /\ test'.phase = "running" /\ test'.role = test.role
      /\ test'.done = test.done /\ test'.omit = test.omit
      /\ test'.omitting = test.omitting
      /\ test'.owed = IF test.done THEN test.owed
                      ELSE IF h = Stats THEN test.owed + 1
                      ELSE IF h = Reporter THEN test.owed - 1 ELSE test.owed
  BY PeriodicStep
<1>3. h # Timer /\ h # OmitTimer
  OBVIOUS
<1>4. c = run.t /\ h = tm.cell[c].owner
  OBVIOUS
<1>5. d = NextOf(tm, c) /\ s = tm.handle[Stats] /\ r = tm.handle[Reporter]
  OBVIOUS
<1>6. t = tm.cell[c].time + tm.cell[c].usecs
  OBVIOUS
<1> HIDE DEF c, h, d, s, r, t
<1>7. /\ ListsOK(tm') /\ tm'.handle = tm.handle /\ InSeq(tm'.active) = InSeq(tm.active)
      /\ tm'.cell[c].time = t /\ tm'.cell[c].owner = h
      /\ tm'.cell[c].usecs = tm.cell[c].usecs
      /\ \A x \in Cells : x # c => tm'.cell[x] = tm.cell[x]
      /\ LastOf(tm'.active, tm'.cell, c)
      /\ \A a, b : a # c /\ b # c /\ NotAfter(tm.active, a, b) => NotAfter(tm'.active, a, b)
      /\ \A a, b \in Cells : a # c /\ b # c /\ tm.cell[a].time = tm.cell[b].time =>
            (Follows(tm.active, a, b) => Follows(tm'.active, a, b))
      /\ \A a \in Cells : a # c /\ LastOf(tm.active, tm.cell, a) /\ tm.cell[a].time = t =>
            Follows(tm'.active, a, c)
  BY <1>2, <1>4 DEF Resorted
<1>8. InSeq(tm.active) \subseteq Cells
  BY <1>1, PackageFields DEF ListsOK
<1>9. \A g \in Handles : g # h =>
         /\ KeptTimer(tm, tm', g) /\ tm.handle[g] # c
         /\ tm.handle[g] # NULL => tm.handle[g] \in Cells
  BY <1>1, <1>7, <1>8 DEF Live, KeptTimer
<1>10. TypeOK' /\ ListsOK(tm)' /\ Live(tm)' /\ RunInv' /\ PhaseInv'
  <2>1. d # NULL => d \in InSeq(tm'.active)
    BY <1>1, <1>5, <1>7, NextRight
  <2>2. KeptTimer(tm, tm', Timer)
    BY <1>3, <1>9, HandleNames
  <2> QED
    BY <1>2, <1>4, <1>5, <1>7, <2>1, <2>2, RunRest
<1>11. OmitInv'
  <2>1. KeptTimer(tm, tm', Timer) /\ KeptTimer(tm, tm', OmitTimer) /\ tm.handle[OmitTimer] # c
    BY <1>3, <1>9, HandleNames
  <2>2. \A a, b : a # run.t /\ b # run.t /\ NotAfter(tm.active, a, b) =>
           NotAfter(tm'.active, a, b)
    BY <1>4, <1>7
  <2>3. test.role = "client" =>
           /\ test'.omitting => tm'.handle[OmitTimer] # NULL
           /\ test'.done => ~test'.omitting
    BY <1>1, <1>2, <1>7 DEF OmitInv
  <2> QED
    BY <1>2, <1>4, <2>1, <2>2, <2>3, RunOmitRest
<1>12. ASSUME NEW x \in InSeq(tm'.active), tm'.cell[x].owner \in {Stats, Reporter}
       PROVE  tm'.cell[x].usecs = Interval
  <2>1. x \in InSeq(tm.active) /\ x \in Cells
    BY <1>7, <1>8
  <2>2. tm'.cell[x].owner = tm.cell[x].owner /\ tm'.cell[x].usecs = tm.cell[x].usecs
    BY <1>4, <1>7, <2>1
  <2> QED
    BY <1>1, <1>12, <2>1, <2>2 DEF PairInv
<1>13. CASE h = Stats
  <2>1. c = s /\ c # r /\ c # NULL
    BY <1>1, <1>5, <1>13, HandleNames, NullNotCell
  <2>2. ~Reporting
    BY <1>4, <1>5, <2>1 DEF Reporting
  <2>3. test.owed = 0 /\ Together(tm)
    BY <1>1, <1>5, <2>1, <2>2 DEF PairInv, Neither
  <2>4. r # NULL /\ tm.cell[c].time = tm.cell[r].time /\ Follows(tm.active, c, r)
    BY <1>5, <2>1, <2>3 DEF Together
  <2>5. r \in Cells /\ tm'.cell[r] = tm.cell[r]
    BY <1>5, <1>7, <1>9, <1>13, <2>1, <2>4, HandleNames
  <2>6. d = r
    BY <1>1, <1>5, <2>4, <2>5, NextRight
  <2>7. run'.on /\ run'.t = r /\ run'.now = run.now
    BY <1>4, <1>5, <2>4, <2>6, RunNext
  <2>8. Reporting'
    BY <1>5, <1>7, <2>7 DEF Reporting
  <2>9. tm.cell[c].usecs = Interval
    BY <1>1, <1>4, <1>13 DEF PairInv
  <2>10. Apart(tm', run'.now)
    <3>1. tm'.handle[Stats] = c /\ tm'.handle[Reporter] = r
      BY <1>5, <1>7, <2>1
    <3>2. tm'.cell[c].time = tm'.cell[r].time + Interval
      BY <1>6, <1>7, <2>4, <2>5, <2>9
    <3>3. tm'.cell[r].time <= run'.now
      BY <1>1, <2>4, <2>5, <2>7
    <3> QED
      BY <1>7, <2>1, <2>4, <3>1, <3>2, <3>3 DEF Apart
  <2>11. test'.owed = IF ~test'.done THEN 1 ELSE 0
    BY <1>2, <1>13, <2>3
  <2>12. PairInv'
    BY <1>2, <1>12, <2>8, <2>10, <2>11 DEF PairInv
  <2> QED
    BY <1>10, <1>11, <2>12 DEF TimerInv
<1>14. CASE h = Reporter
  <2>1. c = r /\ c # NULL /\ h # Stats
    BY <1>1, <1>5, <1>14, HandleNames, NullNotCell
  <2>2. Reporting
    BY <1>1, <1>4, <1>5, <2>1 DEF Reporting
  <2>3. test.owed = (IF ~test.done THEN 1 ELSE 0) /\ Apart(tm, run.now)
    BY <1>1, <2>2 DEF PairInv
  <2>4. s # NULL /\ tm.cell[s].time = tm.cell[c].time + Interval
        /\ LastOf(tm.active, tm.cell, s)
    BY <1>5, <2>1, <2>3 DEF Apart
  <2>5. s \in Cells /\ s # c /\ tm'.cell[s] = tm.cell[s]
    BY <1>5, <1>7, <1>9, <1>14, <2>4, HandleNames
  <2>6. tm.cell[c].usecs = Interval
    BY <1>1, <1>4, <1>14 DEF PairInv
  <2>7. tm.cell[s].time = t
    BY <1>6, <2>4, <2>6
  <2>8. Together(tm')
    <3>1. tm'.handle[Stats] = s /\ tm'.handle[Reporter] = c
      BY <1>5, <1>7, <2>1
    <3>2. Follows(tm'.active, s, c)
      BY <1>7, <2>4, <2>5, <2>7
    <3>3. tm'.cell[s].time = tm'.cell[c].time
      BY <1>7, <2>5, <2>7
    <3> QED
      BY <2>1, <2>4, <3>1, <3>2, <3>3 DEF Together
  <2>9. ~Reporting'
    <3> SUFFICES ASSUME run'.on, run'.t = tm'.handle[Reporter] PROVE FALSE
      BY DEF Reporting
    <3>1. d # NULL /\ run'.t = d
      BY <1>4, <1>5, RunNext
    <3>2. d # c
      BY <1>1, <1>5, <3>1, NextRight
    <3> QED
      BY <1>5, <1>7, <2>1, <3>1, <3>2
  <2>10. test'.owed = 0
    BY <1>2, <1>14, <2>1, <2>3
  <2>11. PairInv'
    BY <1>2, <1>12, <2>8, <2>9, <2>10 DEF PairInv
  <2> QED
    BY <1>10, <1>11, <2>11 DEF TimerInv
<1>15. CASE h # Stats /\ h # Reporter
  <2>1. test'.owed = test.owed
    BY <1>2, <1>15
  <2>2. tm'.handle[Stats] = s /\ tm'.handle[Reporter] = r
    BY <1>5, <1>7
  <2>3. ASSUME Together(tm) PROVE Together(tm')
    <3>1. s # NULL /\ r # NULL /\ tm.cell[s].time = tm.cell[r].time
          /\ Follows(tm.active, s, r)
      BY <1>5, <2>3 DEF Together
    <3>2. /\ s \in Cells /\ s # c /\ tm'.cell[s] = tm.cell[s]
          /\ r \in Cells /\ r # c /\ tm'.cell[r] = tm.cell[r]
      BY <1>5, <1>7, <1>9, <1>15, <3>1, HandleNames
    <3>3. Follows(tm'.active, s, r)
      BY <1>7, <3>1, <3>2
    <3> QED
      BY <2>2, <3>1, <3>2, <3>3 DEF Together
  <2>4. PairInv'
    BY <1>2, <1>4, <1>5, <1>12, <1>15, <2>1, <2>2, <2>3, PairRest
  <2> QED
    BY <1>10, <1>11, <2>4 DEF TimerInv
<1> QED
  BY <1>13, <1>14, <1>15

\* The timer before another in a sorted list is not later.
LEMMA EarlierTime ==
    ASSUME NEW m, ListsOK(m), NEW a \in Cells, NEW b \in Cells, NotAfter(m.active, a, b)
    PROVE  m.cell[a].time <= m.cell[b].time
<1>1. PICK i \in 1 .. Len(m.active), j \in 1 .. Len(m.active) :
        i <= j /\ m.active[i] = a /\ m.active[j] = b
  BY DEF NotAfter
<1>2. m.cell[a].time \in Nat
  BY PackageFields DEF ListsOK, CellType
<1>3. CASE i = j
  BY <1>1, <1>2, <1>3
<1>4. CASE i < j
  BY <1>1, <1>4 DEF ListsOK, Sorted
<1> QED
  BY <1>1, <1>3, <1>4

\* The end of the test.
LEMMA RunTestTimerKeeps ==
    ASSUME TimerInv, RunTimer, tm.cell[run.t].owner = Timer
    PROVE  TimerInv'
<1> DEFINE c == run.t
           d == NextOf(tm, c)
           o == tm.handle[OmitTimer]
           m == [tm EXCEPT !.handle[Timer] = NULL]
<1>1. /\ run.on /\ test.phase = "running" /\ c \in InSeq(tm.active) /\ c \in Cells
      /\ tm.handle[Timer] = c
      /\ \A g \in Handles : tm.handle[g] = c => g = Timer
      /\ test' = AfterProc(Timer) /\ tm' = Settle(Proc(tm, Timer, run.now), c)
      /\ ListsOK(tm) /\ Live(tm) /\ PairInv /\ OmitInv /\ test \in TestType
  BY RunFacts, Parts
<1>2. test' = [test EXCEPT !.done = TRUE]
  BY <1>1, HandleNames DEF AfterProc
<1>3. /\ test' \in TestType /\ test'.phase = "running" /\ test'.role = test.role
      /\ test'.done = TRUE /\ test'.omit = test.omit
      /\ test'.omitting = test.omitting /\ test'.owed = test.owed
  BY <1>1, <1>2 DEF TestType
<1>4. /\ ListsOK(m) /\ m.active = tm.active /\ m.cell = tm.cell /\ m.handle[Timer] = NULL
      /\ \A g \in Handles : g # Timer => m.handle[g] = tm.handle[g]
  BY <1>1, HandleNames, ClearHandle
<1>5. Proc(tm, Timer, run.now) = m
  BY HandleNames DEF Proc
<1>6. ~Periodic(Timer) /\ m.cell[c].owner = Timer
  BY <1>4, HandleNames
<1>7. tm' = tmr_cancel(m, c)
  BY <1>1, <1>5, <1>6 DEF Settle
<1>8. c = run.t /\ d = NextOf(tm, c) /\ o = tm.handle[OmitTimer]
  OBVIOUS
<1> HIDE DEF c, d, o, m
<1>9. Cancelled(m, tm', c)
  BY <1>1, <1>4, <1>7, TimerCancel
<1>10. /\ ListsOK(tm') /\ InSeq(tm'.active) = InSeq(tm.active) \ {c}
       /\ \A x \in Cells : x # c => tm'.cell[x] = tm.cell[x]
       /\ \A a, b : a # c /\ b # c /\ NotAfter(tm.active, a, b) => NotAfter(tm'.active, a, b)
       /\ \A a, b : a # c /\ b # c /\ Follows(tm.active, a, b) => Follows(tm'.active, a, b)
       /\ tm'.handle[Timer] = NULL
       /\ \A g \in Handles : g # Timer => tm'.handle[g] = tm.handle[g]
  BY <1>4, <1>9 DEF Cancelled
<1>11. InSeq(tm.active) \subseteq Cells
  BY <1>1, PackageFields DEF ListsOK
<1>12. \A g \in Handles : g # Timer =>
          /\ KeptTimer(tm, tm', g) /\ tm.handle[g] # c
          /\ tm.handle[g] # NULL => tm.handle[g] \in Cells
  BY <1>1, <1>10, <1>11 DEF Live, KeptTimer
<1>13. TypeOK' /\ ListsOK(tm)' /\ Live(tm)' /\ RunInv' /\ PhaseInv'
  <2>1. d # NULL => d \in InSeq(tm'.active)
    BY <1>1, <1>8, <1>10, NextRight
  <2>2. Live(tm')
    <3>1. \A x \in Cells : x # c => tm'.cell[x].owner = tm.cell[x].owner
      BY <1>10
    <3>2. Timer \in Handles
      BY HandleNames
    <3>3. tm.cell[c].owner = Timer
      BY <1>8
    <3> QED
      BY <1>1, <1>10, <3>1, <3>2, <3>3, LiveDropped
  <2> QED
    BY <1>3, <1>8, <1>10, <2>1, <2>2, RunRest
<1>14. test.role = "client" => ~test.omitting
  <2> SUFFICES ASSUME test.role = "client", test.omitting PROVE FALSE
    OBVIOUS
  <2>1. /\ o # NULL /\ test.omit = Omit /\ tm.cell[o].time <= Jitter + Omit
        /\ NotAfter(tm.active, c, o)
    BY <1>1, <1>8 DEF OmitInv
  <2>2. tm.cell[c].time = Duration + Omit
    BY <1>1, <2>1, NullNotCell DEF OmitInv
  <2>3. o \in Cells
    BY <1>8, <1>12, <2>1, HandleNames
  <2>4. tm.cell[c].time <= tm.cell[o].time /\ tm.cell[o].time \in Nat
    BY <1>1, <2>1, <2>3, EarlierTime, PackageFields DEF ListsOK, CellType
  <2>5. Duration + Omit <= Jitter + Omit
    BY <2>1, <2>2, <2>4, Numbers
  <2> QED
    BY <2>5, Numbers
<1>15. OmitInv'
  <2>1. KeptTimer(tm, tm', OmitTimer) /\ tm.handle[OmitTimer] # c
    BY <1>12, HandleNames
  <2>2. \A a, b : a # run.t /\ b # run.t /\ NotAfter(tm.active, a, b) =>
           NotAfter(tm'.active, a, b)
    BY <1>8, <1>10
  <2>3. test.role = "client" => ~test'.omitting
    BY <1>3, <1>14
  <2> QED
    BY <1>3, <1>8, <1>10, <2>1, <2>2, <2>3, RunOmitRest
<1>16. PairInv'
  <2>1. ASSUME NEW x \in InSeq(tm'.active), tm'.cell[x].owner \in {Stats, Reporter}
        PROVE  tm'.cell[x].usecs = Interval
    <3>1. x \in InSeq(tm.active) /\ tm'.cell[x] = tm.cell[x]
      BY <1>10, <1>11
    <3> QED
      BY <1>1, <2>1, <3>1 DEF PairInv
  <2>2. tm'.handle[Stats] = tm.handle[Stats] /\ tm'.handle[Reporter] = tm.handle[Reporter]
    BY <1>10, HandleNames
  <2>3. ASSUME Together(tm) PROVE Together(tm')
    <3> DEFINE s == tm.handle[Stats]
               r == tm.handle[Reporter]
    <3>1. /\ s # NULL /\ r # NULL /\ tm.cell[s].time = tm.cell[r].time
          /\ Follows(tm.active, s, r)
      BY <2>3 DEF Together
    <3>2. /\ s \in Cells /\ s # c /\ tm'.cell[s] = tm.cell[s]
          /\ r \in Cells /\ r # c /\ tm'.cell[r] = tm.cell[r]
      BY <1>10, <1>12, <3>1, HandleNames
    <3>3. Follows(tm'.active, s, r)
      BY <1>10, <3>1, <3>2
    <3> QED
      BY <2>2, <3>1, <3>2, <3>3 DEF Together
  <2>4. tm.cell[run.t].owner \notin {Stats, Reporter}
    BY HandleNames
  <2> QED
    BY <1>3, <2>1, <2>2, <2>3, <2>4, PairRest
<1> QED
  BY <1>13, <1>15, <1>16 DEF TimerInv

\* The procedure of the omit timer starts the two interval timers afresh, one
\* right after the other.
Restarted(m, r) ==
    /\ ListsOK(r) /\ r.handle = m.handle /\ InSeq(r.active) = InSeq(m.active)
    /\ \A x \in Cells : r.cell[x].owner = m.cell[x].owner /\ r.cell[x].usecs = m.cell[x].usecs
    /\ \A x \in Cells : x # m.handle[Stats] /\ x # m.handle[Reporter] => r.cell[x] = m.cell[x]
    /\ m.handle[Stats] # NULL => Together(r)

\* The interval timers stay together when they are started afresh.
LEMMA IntervalsRestart ==
    ASSUME NEW m, ListsOK(m), NEW now \in Nat, Neither(m) \/ Together(m),
           m.handle[Stats] # NULL =>
               /\ m.handle[Stats] \in InSeq(m.active) /\ m.cell[m.handle[Stats]].usecs = Interval
               /\ m.handle[Reporter] \in InSeq(m.active)
               /\ m.cell[m.handle[Reporter]].usecs = Interval
               /\ m.handle[Stats] # m.handle[Reporter]
    PROVE  Restarted(m, ResetHandle(ResetHandle(m, Stats, now), Reporter, now))
<1>1. CASE Neither(m)
  <2>1. ResetHandle(m, Stats, now) = m /\ ResetHandle(m, Reporter, now) = m
    BY <1>1 DEF Neither, ResetHandle
  <2>2. Restarted(m, m)
    BY <1>1 DEF Neither, Restarted
  <2> QED
    BY <2>1, <2>2
<1>2. CASE Together(m)
  <2> DEFINE s == m.handle[Stats]
             r == m.handle[Reporter]
             t == now + Interval
             k == ResetHandle(m, Stats, now)
             l == ResetHandle(k, Reporter, now)
  <2>1. s # NULL /\ r # NULL /\ s # r /\ s \in InSeq(m.active) /\ r \in InSeq(m.active)
        /\ m.cell[s].usecs = Interval /\ m.cell[r].usecs = Interval /\ t \in Nat
    BY <1>2, Numbers DEF Together
  <2>2. s \in Cells /\ r \in Cells
    BY <2>1, PackageFields DEF ListsOK
  <2>3. k = list_resort([m EXCEPT !.cell[s].time = t], s)
    BY <2>1 DEF ResetHandle, tmr_reset
  <2>4. s = m.handle[Stats] /\ r = m.handle[Reporter] /\ t = now + Interval
        /\ l = ResetHandle(k, Reporter, now)
    OBVIOUS
  <2> HIDE DEF s, r, t, k, l
  <2>5. Resorted(m, k, s, t)
    BY <2>1, <2>3, ListResort
  <2>6. /\ ListsOK(k) /\ k.handle = m.handle /\ InSeq(k.active) = InSeq(m.active)
        /\ k.cell[s].time = t /\ k.cell[s].owner = m.cell[s].owner
        /\ k.cell[s].usecs = m.cell[s].usecs /\ LastOf(k.active, k.cell, s)
        /\ \A x \in Cells : x # s => k.cell[x] = m.cell[x]
    BY <2>5 DEF Resorted
  <2>7. k.handle[Reporter] = r /\ k.cell[r].usecs = Interval
    BY <2>1, <2>2, <2>4, <2>6
  <2>8. l = list_resort([k EXCEPT !.cell[r].time = t], r)
    BY <2>1, <2>4, <2>7 DEF ResetHandle, tmr_reset
  <2>9. Resorted(k, l, r, t)
    BY <2>1, <2>6, <2>8, ListResort
  <2>10. /\ ListsOK(l) /\ l.handle = k.handle /\ InSeq(l.active) = InSeq(k.active)
         /\ l.cell[r].time = t /\ l.cell[r].owner = k.cell[r].owner
         /\ l.cell[r].usecs = k.cell[r].usecs
         /\ \A x \in Cells : x # r => l.cell[x] = k.cell[x]
         /\ Follows(l.active, s, r)
    BY <2>1, <2>2, <2>6, <2>9 DEF Resorted
  <2>11. Together(l)
    <3>1. l.handle[Stats] = s /\ l.handle[Reporter] = r
      BY <2>4, <2>6, <2>10
    <3>2. l.cell[s].time = l.cell[r].time
      BY <2>1, <2>2, <2>6, <2>10
    <3> QED
      BY <2>1, <2>10, <3>1, <3>2 DEF Together
  <2>12. ASSUME NEW x \in Cells
         PROVE  /\ l.cell[x].owner = m.cell[x].owner /\ l.cell[x].usecs = m.cell[x].usecs
                /\ x # s /\ x # r => l.cell[x] = m.cell[x]
    <3>1. CASE x = r
      BY <2>1, <2>2, <2>6, <2>10, <3>1
    <3>2. CASE x = s
      BY <2>1, <2>2, <2>6, <2>10, <3>2
    <3>3. CASE x # r /\ x # s
      BY <2>6, <2>10, <3>3
    <3> QED
      BY <3>1, <3>2, <3>3
  <2>13. l.handle = m.handle /\ InSeq(l.active) = InSeq(m.active)
    BY <2>6, <2>10
  <2>14. Restarted(m, l)
    BY <2>4, <2>10, <2>11, <2>12, <2>13 DEF Restarted
  <2> QED
    BY <2>14 DEF l, k
<1> QED
  BY <1>1, <1>2

\* The end of the omitted period.
LEMMA RunOmitTimerKeeps ==
    ASSUME TimerInv, RunTimer, tm.cell[run.t].owner = OmitTimer
    PROVE  TimerInv'
<1> DEFINE c == run.t
           d == NextOf(tm, c)
           s == tm.handle[Stats]
           r == tm.handle[Reporter]
           m == [tm EXCEPT !.handle[OmitTimer] = NULL]
           n == ResetHandle(ResetHandle(m, Stats, run.now), Reporter, run.now)
<1>1. /\ run.on /\ test.phase = "running" /\ c \in InSeq(tm.active) /\ c \in Cells
      /\ tm.handle[OmitTimer] = c /\ run.now \in Nat
      /\ \A g \in Handles : tm.handle[g] = c => g = OmitTimer
      /\ test' = AfterProc(OmitTimer) /\ tm' = Settle(Proc(tm, OmitTimer, run.now), c)
      /\ ListsOK(tm) /\ Live(tm) /\ PairInv /\ OmitInv /\ test \in TestType
  BY RunFacts, Parts
<1>2. test' = [test EXCEPT !.omitting = FALSE]
  BY <1>1, HandleNames DEF AfterProc
<1>3. /\ test' \in TestType /\ test'.phase = "running" /\ test'.role = test.role
      /\ test'.done = test.done /\ test'.omit = test.omit
      /\ test'.omitting = FALSE /\ test'.owed = test.owed
  BY <1>1, <1>2 DEF TestType
<1>4. /\ ListsOK(m) /\ m.active = tm.active /\ m.cell = tm.cell /\ m.handle[OmitTimer] = NULL
      /\ \A g \in Handles : g # OmitTimer => m.handle[g] = tm.handle[g]
  BY <1>1, HandleNames, ClearHandle
<1>5. Proc(tm, OmitTimer, run.now) = n
  BY HandleNames DEF Proc
<1>6. c = run.t /\ d = NextOf(tm, c) /\ s = tm.handle[Stats] /\ r = tm.handle[Reporter]
      /\ n = ResetHandle(ResetHandle(m, Stats, run.now), Reporter, run.now)
  OBVIOUS
<1> HIDE DEF c, d, s, r, m, n
<1>7. InSeq(tm.active) \subseteq Cells
  BY <1>1, PackageFields DEF ListsOK
<1>8. /\ m.handle[Stats] = s /\ m.handle[Reporter] = r /\ c # s /\ c # r
  BY <1>1, <1>4, <1>6, HandleNames
<1>9. Neither(tm) \/ Together(tm)
  <2>1. ~Reporting
    BY <1>6, <1>8 DEF Reporting
  <2> QED
    BY <1>1, <2>1 DEF PairInv
<1>10. Restarted(m, n)
  <2>1. Neither(m) \/ Together(m)
    BY <1>4, <1>6, <1>8, <1>9 DEF Neither, Together
  <2>2. ASSUME s # NULL
        PROVE  /\ s \in InSeq(m.active) /\ m.cell[s].usecs = Interval
               /\ r \in InSeq(m.active) /\ m.cell[r].usecs = Interval /\ s # r
    <3>1. r # NULL
      BY <1>6, <1>9, <2>2 DEF Neither, Together
    <3>2. /\ s \in InSeq(tm.active) /\ tm.cell[s].owner = Stats
          /\ r \in InSeq(tm.active) /\ tm.cell[r].owner = Reporter
      BY <1>1, <1>6, <2>2, <3>1, HandleNames DEF Live
    <3>3. tm.cell[s].usecs = Interval /\ tm.cell[r].usecs = Interval
      BY <1>1, <3>2 DEF PairInv
    <3> QED
      BY <1>4, <3>2, <3>3, HandleNames
  <2> QED
    BY <1>1, <1>4, <1>6, <1>8, <2>1, <2>2, IntervalsRestart
<1>11. /\ ListsOK(n) /\ n.handle = m.handle /\ InSeq(n.active) = InSeq(tm.active)
       /\ \A x \in Cells :
             n.cell[x].owner = tm.cell[x].owner /\ n.cell[x].usecs = tm.cell[x].usecs
       /\ \A x \in Cells : x # s /\ x # r => n.cell[x] = tm.cell[x]
       /\ s # NULL => Together(n)
  BY <1>4, <1>8, <1>10 DEF Restarted
<1>12. tm' = tmr_cancel(n, c)
  <2>1. n.cell[c].owner = OmitTimer /\ ~Periodic(OmitTimer)
    BY <1>1, <1>6, <1>11, HandleNames
  <2> QED
    BY <1>1, <1>5, <2>1 DEF Settle
<1>13. Cancelled(n, tm', c)
  BY <1>1, <1>11, <1>12, TimerCancel
<1>14. /\ ListsOK(tm') /\ InSeq(tm'.active) = InSeq(tm.active) \ {c}
       /\ \A x \in Cells : x # c => tm'.cell[x] = n.cell[x]
       /\ \A a, b : a # c /\ b # c /\ Follows(n.active, a, b) => Follows(tm'.active, a, b)
       /\ tm'.handle[OmitTimer] = NULL
       /\ \A g \in Handles : g # OmitTimer => tm'.handle[g] = tm.handle[g]
  BY <1>4, <1>11, <1>13 DEF Cancelled
<1>15. KeptTimer(tm, tm', Timer)
  <2>1. tm'.handle[Timer] = tm.handle[Timer]
    BY <1>14, HandleNames
  <2>2. ASSUME tm.handle[Timer] # NULL
        PROVE  tm'.cell[tm.handle[Timer]] = tm.cell[tm.handle[Timer]]
    <3>1. /\ tm.handle[Timer] \in Cells /\ tm.handle[Timer] # c
          /\ tm.handle[Timer] # s /\ tm.handle[Timer] # r
      BY <1>1, <1>6, <2>2, OwnTimers, HandleNames
    <3> QED
      BY <1>11, <1>14, <3>1
  <2> QED
    BY <2>1, <2>2 DEF KeptTimer
<1>16. TypeOK' /\ ListsOK(tm)' /\ Live(tm)' /\ RunInv' /\ PhaseInv'
  <2>1. d # NULL => d \in InSeq(tm'.active)
    BY <1>1, <1>6, <1>14, NextRight
  <2>2. Live(tm')
    <3>1. \A x \in Cells : x # c => tm'.cell[x].owner = tm.cell[x].owner
      BY <1>11, <1>14
    <3>2. OmitTimer \in Handles
      BY HandleNames
    <3>3. tm.cell[c].owner = OmitTimer
      BY <1>6
    <3> QED
      BY <1>1, <1>14, <3>1, <3>2, <3>3, LiveDropped
  <2> QED
    BY <1>3, <1>6, <1>14, <1>15, <2>1, <2>2, RunRest
<1>17. OmitInv'
  BY <1>3, <1>14, <1>15, RunOmitRest
<1>18. PairInv'
  <2>1. ASSUME NEW x \in InSeq(tm'.active), tm'.cell[x].owner \in {Stats, Reporter}
        PROVE  tm'.cell[x].usecs = Interval
    <3>1. x \in InSeq(tm.active) /\ x \in Cells /\ tm'.cell[x] = n.cell[x]
      BY <1>7, <1>14
    <3>2. tm'.cell[x].owner = tm.cell[x].owner /\ tm'.cell[x].usecs = tm.cell[x].usecs
      BY <1>11, <3>1
    <3> QED
      BY <1>1, <2>1, <3>1, <3>2 DEF PairInv
  <2>2. tm'.handle[Stats] = s /\ tm'.handle[Reporter] = r
    BY <1>6, <1>14, HandleNames
  <2>3. ASSUME Together(tm) PROVE Together(tm')
    <3>1. s # NULL /\ r # NULL
      BY <1>6, <2>3 DEF Together
    <3>2. n.cell[s].time = n.cell[r].time /\ Follows(n.active, s, r)
      BY <1>8, <1>11, <3>1 DEF Together
    <3>3. s \in Cells /\ r \in Cells
      BY <1>1, <1>6, <3>1, OwnTimers, HandleNames
    <3>4. tm'.cell[s] = n.cell[s] /\ tm'.cell[r] = n.cell[r] /\ Follows(tm'.active, s, r)
      BY <1>8, <1>14, <3>2, <3>3
    <3> QED
      BY <2>2, <3>1, <3>2, <3>4 DEF Together
  <2>4. tm.cell[run.t].owner \notin {Stats, Reporter}
    BY HandleNames
  <2> QED
    BY <1>3, <1>6, <2>1, <2>2, <2>3, <2>4, PairRest
<1> QED
  BY <1>16, <1>17, <1>18 DEF TimerInv

\* A timer has run.
LEMMA RunTimerKeeps == ASSUME TimerInv, RunTimer PROVE TimerInv'
<1>1. CASE tm.cell[run.t].owner = Timer
  BY <1>1, RunTestTimerKeeps
<1>2. CASE tm.cell[run.t].owner = OmitTimer
  BY <1>2, RunOmitTimerKeeps
<1>3. CASE tm.cell[run.t].owner \notin {Timer, OmitTimer}
  BY <1>3, RunPeriodicKeeps
<1> QED
  BY <1>1, <1>2, <1>3

\* The invariant is inductive.
LEMMA TimerNext == TimerInv /\ [Next]_vars => TimerInv'
<1> SUFFICES ASSUME TimerInv, [Next]_vars PROVE TimerInv'
  OBVIOUS
<1>1. CASE StartTest
  BY <1>1, StartTestKeeps
<1>2. CASE CreateTimer
  BY <1>2, CreateTimerKeeps
<1>3. CASE CreateFails
  BY <1>3, CreateFailsKeeps
<1>4. CASE RunTest
  BY <1>4, RunTestKeeps
<1>5. CASE SetDone
  BY <1>5, SetDoneKeeps
<1>6. CASE EndTest
  BY <1>6, EndTestKeeps
<1>7. CASE CancelTimer
  BY <1>7, CancelTimerKeeps
<1>8. CASE Ended
  BY <1>8, EndedKeeps
<1>9. CASE Tick
  BY <1>9, TickKeeps
<1>10. CASE RunTimers
  BY <1>10, RunTimersKeeps
<1>11. CASE RunNotDue
  BY <1>11, RunNotDueKeeps
<1>12. CASE RunTimer
  BY <1>12, RunTimerKeeps
<1>13. CASE UNCHANGED vars
  <2>1. clock' = clock /\ tm' = tm /\ test' = test /\ run' = run
    BY <1>13 DEF vars
  <2>2. TypeOK' /\ ListsOK(tm)' /\ Live(tm)'
    BY <2>1, Parts, TypesNext
  <2>3. RunInv' /\ PhaseInv'
    BY <2>1, Parts DEF RunInv, PhaseInv
  <2>4. OmitInv'
    BY <2>1, Parts DEF OmitInv
  <2>5. PairInv'
    <3>1. PairInv
      BY Parts
    <3>2. Reporting' = Reporting
      BY <2>1 DEF Reporting
    <3> QED
      BY <2>1, <3>1, <3>2 DEF PairInv
  <2> QED
    BY <2>2, <2>3, <2>4, <2>5 DEF TimerInv
<1> QED
  BY <1>1, <1>2, <1>3, <1>4, <1>5, <1>6, <1>7, <1>8, <1>9, <1>10, <1>11, <1>12, <1>13
  DEF Next

LEMMA AlwaysTimerInv == Spec => []TimerInv
  BY TimerInit, TimerNext, PTL DEF Spec

-----------------------------------------------------------------------------
(* The theorems. *)

\* The active list of timer.c stays sorted by time, so that tmr_timeout and
\* tmr_run may look at its head only: list_add and list_resort put a timer in
\* its place also when a procedure that tmr_run has called moves timers.
THEOREM TimersStaySorted == Spec => []TimersSorted
<1>1. TimerInv => TimersSorted
  BY Parts DEF ListsOK, Sorted, TimersSorted
<1> QED
  BY <1>1, AlwaysTimerInv, PTL

\* The pointers of a test and the active timers are the same thing: tmr_cancel
\* and tmr_reset are never given a cell that is free or used again, and tmr_run
\* calls no procedure for a test that is gone.
THEOREM PointersLive == Spec => []HandlesLive
<1>1. TimerInv => HandlesLive
  <2> SUFFICES ASSUME TimerInv PROVE HandlesLive
    OBVIOUS
  <2>1. Live(tm)
    BY Parts
  <2> QED
    BY <2>1 DEF Live, HandlesLive
<1> QED
  BY <1>1, AlwaysTimerInv, PTL

\* The timer tmr_run has remembered as the next one is still on the active list
\* when the procedure it has called returns.
THEOREM RunOnList == Spec => []RunStaysOnList
<1>1. TimerInv => RunStaysOnList
  BY Parts DEF RunInv, RunStaysOnList
<1> QED
  BY <1>1, AlwaysTimerInv, PTL

\* Every interval that stats_callback records is shown by reporter_callback
\* before the next one, and no report is made without one, however late tmr_run
\* is called and whatever else is in the list.
THEOREM IntervalsAreReported == Spec => []IntervalsReported
<1>1. TimerInv => IntervalsReported
  <2> SUFFICES ASSUME TimerInv, test.phase = "running" PROVE
         test.owed \in {0, 1} /\ (~run.on /\ ~test.done => test.owed = 0)
    BY DEF IntervalsReported
  <2>1. test.owed = IF Reporting /\ ~test.done THEN 1 ELSE 0
    BY Parts DEF PairInv
  <2>2. ~run.on => ~Reporting
    BY DEF Reporting
  <2> QED
    BY <2>1, <2>2
<1> QED
  BY <1>1, AlwaysTimerInv, PTL

\* The timer that ends the client's test does not run before the one that ends
\* its omitted period, although the first is counted from the start of the test
\* and the second from a later reading of the clock.
THEOREM OmittedPeriodEnds == Spec => []OmitEndsFirst
<1>1. TimerInv => OmitEndsFirst
  BY Parts DEF OmitInv, OmitEndsFirst
<1> QED
  BY <1>1, AlwaysTimerInv, PTL
=============================================================================
