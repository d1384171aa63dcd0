------------------------------ MODULE GbaProofs ------------------------------
(***************************************************************************)
(* The GBA's parts, for every value of the constants.                      *)
(*                                                                         *)
(* Timers: generations stand in for the cancellation of overflow events,   *)
(* for every number of timers, width of the count, choice of prescalers    *)
(* and length of instructions.  A rewrite takes time, and an event lies at *)
(* most one period ahead, so no event is in the queue until the            *)
(* generations have come round to it (TimersAssumption).  A chain of       *)
(* timers that count up carries like the digits of one number.             *)
(*                                                                         *)
(* Then the parts of MCGba that have an inductive invariant of their own:  *)
(* a DMA job, a DirectSound FIFO, a channel of the sound generator, the    *)
(* prefetch buffer, memory and the serial link.                            *)
(***************************************************************************)
EXTENDS MCGba, QueueProofs

Event == [at : Nat, timer : TimerId, generation : 0 .. GenMod - 1]

Elements(q) == {q[k] : k \in 1 .. Len(q)}

(* At most one place of the queue holds an event of L.                     *)
AtMostOne(q, L) == \A j, k \in 1 .. Len(q) : q[j] \in L /\ q[k] \in L => j = k

(* The events of timer i that its handler accepts, the timers being ts.    *)
Accepted(ts, i) == {e \in Event : e.timer = i /\ e.generation = ts[i].generation}

(* How often the timer of an event was rewritten since it was scheduled.   *)
Age(ts, e) ==
  LET g == ts[e.timer].generation
  IN  IF g >= e.generation THEN g - e.generation ELSE g - e.generation + GenMod

(* Every queued event was scheduled at most a period ahead, and each       *)
(* rewrite since then has taken a cycle at least.                          *)
AgesBounded(ts, q, n) == \A e \in Elements(q) : e.at + Age(ts, e) <= n + GenMod - 1

(* An accepted event is of a free-running timer, and set for its overflow. *)
AcceptedOnTime(ts, q) ==
  \A e \in Elements(q) :
    e.generation = ts[e.timer].generation
      => FreeRunning(ts[e.timer]) /\ e.at = OverflowAt(ts[e.timer])

OnePerTimer(ts, q) ==
  \A i \in TimerId :
    /\ AtMostOne(q, Accepted(ts, i))
    /\ FreeRunning(ts[i]) => \E e \in Elements(q) : e \in Accepted(ts, i)

(* The state of the timers and of their queue at time n.                   *)
TimersSound(ts, q, n) ==
  /\ ts \in [TimerId -> Timer] /\ q \in Seq(Event) /\ n \in Nat
  /\ Ordered(q)
  /\ \A i \in TimerId : ts[i].lastSync <= n
  /\ AgesBounded(ts, q, n) /\ AcceptedOnTime(ts, q) /\ OnePerTimer(ts, q)

(* The inductive invariant.                                                *)
TimersInv == TimersSound(timers, queue, now) /\ iflags \subseteq TimerId
-----------------------------------------------------------------------------
LEMMA Products ==
  ASSUME NEW a \in Nat, NEW b \in Nat, a <= b, NEW v \in Nat
  PROVE  a * v \in Nat /\ a * v <= b * v
  OBVIOUS

(* The events of a queue into which one was inserted.                      *)
LEMMA InsertedElements ==
  ASSUME NEW E, NEW q \in Seq(E), NEW e \in E
  PROVE  Elements(Insert(q, e)) = Elements(q) \cup {e}
  <1>. DEFINE k == Position(q, e.at)
              r == Insert(q, e)
  <1>0. Len(q) \in Nat
    OBVIOUS
  <1>a. /\ k \in 0 .. Len(q) /\ Len(r) = Len(q) + 1
        /\ \A i \in 1 .. Len(q) + 1 :
             r[i] = IF i <= k THEN q[i] ELSE IF i = k + 1 THEN e ELSE q[i - 1]
    BY InsertElements
  <1>1. /\ k \in 0 .. Len(q) /\ Len(r) = Len(q) + 1 /\ Len(q) \in Nat
        /\ \A i \in 1 .. Len(q) + 1 :
             r[i] = IF i <= k THEN q[i] ELSE IF i = k + 1 THEN e ELSE q[i - 1]
    BY <1>0, <1>a, Zenon
  <1>. HIDE DEF k, r
  <1>2. ASSUME NEW i \in 1 .. Len(q) + 1 PROVE r[i] \in Elements(q) \cup {e}
    <2>1. CASE i <= k
      BY <1>1, <2>1 DEF Elements
    <2>2. CASE i = k + 1
      BY <1>1, <2>2
    <2>3. CASE i > k + 1
      <3>1. i - 1 \in 1 .. Len(q) /\ r[i] = q[i - 1]
        BY <1>1, <2>3
      <3>. QED
        BY <3>1 DEF Elements
    <2>. QED
      BY <1>1, <2>1, <2>2, <2>3
  <1>3. ASSUME NEW i \in 1 .. Len(q) PROVE q[i] \in Elements(r)
    <2>1. CASE i <= k
      <3>1. i \in 1 .. Len(r) /\ r[i] = q[i]
        BY <1>1, <2>1
      <3>. QED
        BY <3>1 DEF Elements
    <2>2. CASE ~(i <= k)
      <3>1. i + 1 \in 1 .. Len(r) /\ r[i + 1] = q[i]
        BY <1>1, <2>2
      <3>. QED
        BY <3>1 DEF Elements
    <2>. QED
      BY <2>1, <2>2
  <1>4. e \in Elements(r)
    <2>1. k + 1 \in 1 .. Len(r) /\ r[k + 1] = e
      BY <1>1
    <2>. QED
      BY <2>1 DEF Elements
  <1>. QED
    BY <1>1, <1>2, <1>3, <1>4 DEF Elements, r

(* An event of L may be inserted where there is none.                      *)
LEMMA InsertedAtMostOne ==
  ASSUME NEW E, NEW q \in Seq(E), NEW e \in E, NEW L, AtMostOne(q, L),
         e \in L => \A i \in 1 .. Len(q) : ~(q[i] \in L)
  PROVE  AtMostOne(Insert(q, e), L)
  <1>. DEFINE k == Position(q, e.at)
              r == Insert(q, e)
              old(i) == IF i <= k THEN i ELSE i - 1
  <1>0. Len(q) \in Nat
    OBVIOUS
  <1>a. /\ k \in 0 .. Len(q) /\ Len(r) = Len(q) + 1
        /\ \A i \in 1 .. Len(q) + 1 :
             r[i] = IF i <= k THEN q[i] ELSE IF i = k + 1 THEN e ELSE q[i - 1]
    BY InsertElements
  <1>1. /\ k \in 0 .. Len(q) /\ Len(r) = Len(q) + 1 /\ Len(q) \in Nat
        /\ \A i \in 1 .. Len(q) + 1 :
             r[i] = IF i <= k THEN q[i] ELSE IF i = k + 1 THEN e ELSE q[i - 1]
    BY <1>0, <1>a, Zenon
  <1>. HIDE DEF k, r
  <1>2. \A i \in 1 .. Len(r) : i # k + 1 => old(i) \in 1 .. Len(q) /\ r[i] = q[old(i)]
    BY <1>1
  <1>3. r[k + 1] = e
    BY <1>1
  <1>. SUFFICES ASSUME NEW i \in 1 .. Len(r), NEW j \in 1 .. Len(r), r[i] \in L, r[j] \in L
                PROVE  i = j
    BY Zenon DEF AtMostOne, r
  <1>4. CASE e \in L
    BY <1>2, <1>3, <1>4
  <1>5. CASE ~(e \in L)
    <2>1. i # k + 1 /\ j # k + 1
      BY <1>3, <1>5
    <2>2. old(i) = old(j)
      BY <1>2, <2>1 DEF AtMostOne
    <2>. QED
      BY <1>1, <2>1, <2>2
  <1>. QED
    BY <1>4, <1>5

(* The rest of a queue.                                                    *)
LEMMA PoppedElements ==
  ASSUME NEW E, NEW q \in Seq(E), q # <<>>
  PROVE  /\ Tail(q) \in Seq(E) /\ q[1] \in E /\ Len(q) \in Nat /\ Len(q) >= 1
         /\ Len(Tail(q)) = Len(q) - 1
         /\ \A i \in 1 .. Len(q) - 1 : Tail(q)[i] = q[i + 1]
         /\ Elements(q) = Elements(Tail(q)) \cup {q[1]}
  <1>1. /\ Tail(q) \in Seq(E) /\ q[1] \in E /\ Len(q) \in Nat /\ Len(q) >= 1
        /\ Len(Tail(q)) = Len(q) - 1
        /\ \A i \in 1 .. Len(q) - 1 : Tail(q)[i] = q[i + 1]
    OBVIOUS
  <1>. DEFINE r == Tail(q)
  <1>. HIDE DEF r
  <1>2. ASSUME NEW i \in 1 .. Len(q) PROVE q[i] \in Elements(r) \cup {q[1]}
    <2>1. CASE i = 1
      BY <2>1
    <2>2. CASE i # 1
      <3>1. i - 1 \in 1 .. Len(r) /\ r[i - 1] = q[i]
        BY <1>1, <2>2 DEF r
      <3>. QED
        BY <3>1 DEF Elements
    <2>. QED
      BY <2>1, <2>2
  <1>3. ASSUME NEW i \in 1 .. Len(r) PROVE r[i] \in Elements(q)
    <2>1. i + 1 \in 1 .. Len(q) /\ r[i] = q[i + 1]
      BY <1>1 DEF r
    <2>. QED
      BY <2>1 DEF Elements
  <1>4. q[1] \in Elements(q)
    BY <1>1 DEF Elements
  <1>5. Elements(q) = Elements(r) \cup {q[1]}
    BY <1>2, <1>3, <1>4 DEF Elements
  <1>. QED
    BY <1>1, <1>5 DEF r

LEMMA PoppedKeeps ==
  ASSUME NEW E, NEW q \in Seq(E), q # <<>>, \A f \in E : f.at \in Int
  PROVE  /\ Ordered(q) => Ordered(Tail(q))
         /\ \A L : AtMostOne(q, L) =>
              /\ AtMostOne(Tail(q), L)
              /\ q[1] \in L => \A e \in Elements(Tail(q)) : ~(e \in L)
  <1>1. /\ Len(q) \in Nat /\ Len(q) >= 1 /\ Len(Tail(q)) = Len(q) - 1
        /\ \A i \in 1 .. Len(q) - 1 : Tail(q)[i] = q[i + 1]
    BY PoppedElements
  <1>. DEFINE r == Tail(q)
  <1>. HIDE DEF r
  <1>2. \A i \in 1 .. Len(r) : i + 1 \in 1 .. Len(q) /\ r[i] = q[i + 1]
    BY <1>1 DEF r
  <1>3. ASSUME Ordered(q) PROVE Ordered(r)
    <2>. SUFFICES ASSUME NEW i \in 1 .. Len(r), NEW j \in 1 .. Len(r), i < j
                  PROVE  r[i].at <= r[j].at
      BY DEF Ordered
    <2>1. i + 1 < j + 1
      OBVIOUS
    <2>. QED
      BY <1>2, <1>3, <2>1, Zenon DEF Ordered
  <1>4. ASSUME NEW L, AtMostOne(q, L)
        PROVE  /\ AtMostOne(r, L)
               /\ q[1] \in L => \A e \in Elements(r) : ~(e \in L)
    <2>1. AtMostOne(r, L)
      <3>. SUFFICES ASSUME NEW i \in 1 .. Len(r), NEW j \in 1 .. Len(r), r[i] \in L, r[j] \in L
                    PROVE  i = j
        BY Zenon DEF AtMostOne
      <3>1. i + 1 = j + 1
        BY <1>2, <1>4, Zenon DEF AtMostOne
      <3>. QED
        BY <3>1
    <2>2. ASSUME q[1] \in L, NEW i \in 1 .. Len(r), r[i] \in L PROVE FALSE
      <3>1. 1 \in 1 .. Len(q)
        BY <1>1
      <3>2. 1 = i + 1
        BY <1>2, <1>4, <2>2, <3>1, Zenon DEF AtMostOne
      <3>. QED
        BY <3>2
    <2>. QED
      BY <2>1, <2>2 DEF Elements
  <1>. QED
    BY <1>3, <1>4 DEF r
-----------------------------------------------------------------------------
LEMMA Powers ==
  ASSUME NEW s \in Shifts
  PROVE  2 ^ s \in Nat /\ 2 ^ s >= 1 /\ Wrap * 2 ^ s < GenMod
  BY TimersAssumption

LEMMA TimerFields ==
  ASSUME NEW t \in Timer
  PROVE  /\ t.reload \in Count /\ t.counter \in Count /\ t.lastSync \in Nat
         /\ t.generation \in 0 .. GenMod - 1 /\ t.shift \in Shifts
         /\ t.irq \in BOOLEAN /\ t.cascade \in BOOLEAN /\ t.enabled \in BOOLEAN
         /\ t.counter \in Nat /\ Wrap - t.counter \in Nat /\ Wrap - t.counter <= Wrap
  BY TimersAssumption DEF Timer, Count

(* A timer's overflow lies ahead of its last sync by a period at most.     *)
LEMMA OverflowAhead ==
  ASSUME NEW t \in Timer
  PROVE  /\ OverflowAt(t) \in Nat
         /\ OverflowAt(t) <= t.lastSync + GenMod - 1
  <1>. DEFINE v == 2 ^ t.shift
              a == Wrap - t.counter
  <1>1. /\ t.lastSync \in Nat /\ a \in Nat /\ a <= Wrap /\ Wrap \in Nat /\ GenMod \in Nat
        /\ t.shift \in Shifts
    BY TimerFields, TimersAssumption
  <1>2. v \in Nat /\ Wrap * v < GenMod
    BY <1>1, Powers
  <1>3. OverflowAt(t) = t.lastSync + a * v
    BY DEF OverflowAt
  <1>. HIDE DEF v, a
  <1>4. a * v \in Nat /\ a * v <= Wrap * v
    BY <1>1, <1>2, Products
  <1>. DEFINE m == a * v
              w == Wrap * v
  <1>5. m \in Nat /\ m <= w /\ w < GenMod /\ w \in Nat
    BY <1>1, <1>2, <1>4
  <1>6. OverflowAt(t) = t.lastSync + m
    BY <1>3
  <1>. HIDE DEF m, w
  <1>. QED
    BY <1>1, <1>5, <1>6

LEMMA OverflowEventType ==
  ASSUME NEW t \in Timer, NEW i \in TimerId
  PROVE  /\ OverflowEvent(t, i) \in Event
         /\ OverflowEvent(t, i).at = OverflowAt(t) /\ OverflowEvent(t, i).timer = i
         /\ OverflowEvent(t, i).generation = t.generation
  BY OverflowAhead, TimerFields DEF OverflowEvent, Event

(* The live count is 16 bits wide, and before the overflow it does not     *)
(* fall below the count it started from.                                   *)
LEMMA LiveCounterRange ==
  ASSUME NEW t \in Timer, NEW n \in Nat, t.lastSync <= n
  PROVE  /\ LiveCounter(t, n) \in Count
         /\ FreeRunning(t) /\ n < OverflowAt(t) => LiveCounter(t, n) >= t.counter
  <1>. DEFINE v == 2 ^ t.shift
              x == n - t.lastSync
              c == t.counter
  <1>1. /\ t.lastSync \in Nat /\ c \in Nat /\ c < Wrap /\ Wrap \in Nat \ {0} /\ x \in Nat
        /\ t.shift \in Shifts /\ c \in Count
    BY TimerFields, TimersAssumption DEF Count
  <1>2. v \in Nat /\ v >= 1
    BY <1>1, Powers
  <1>. DEFINE q == x \div v
  <1>3. q \in Nat /\ v * q <= x
    BY <1>1, <1>2
  <1>4. (c + q) % Wrap \in Count
    BY <1>1, <1>3 DEF Count
  <1>5. LiveCounter(t, n) = IF FreeRunning(t) THEN (c + q) % Wrap ELSE c
    BY DEF LiveCounter
  <1>6. ASSUME n < OverflowAt(t)
        PROVE  (c + q) % Wrap >= c
    <2>1. x < (Wrap - c) * v
      <3>. DEFINE m == (Wrap - c) * v
      <3>1. OverflowAt(t) = t.lastSync + m
        BY DEF OverflowAt
      <3>2. m \in Nat
        BY <1>1, <1>2, Products
      <3>. HIDE DEF m, v
      <3>3. x < m
        BY <1>1, <1>6, <3>1, <3>2
      <3>. QED
        BY <3>3 DEF m
    <2>2. v * q < (Wrap - c) * v
      BY <1>1, <1>2, <1>3, <2>1
    <2>. HIDE DEF q, v, x, c
    <2>3. q < Wrap - c
      BY <1>1, <1>2, <1>3, <2>2
    <2>4. (c + q) % Wrap = c + q
      BY <1>1, <1>3, <2>3
    <2>. QED
      BY <1>1, <1>3, <2>4
  <1>. HIDE DEF q, c, v
  <1>. QED
    BY <1>1, <1>4, <1>5, <1>6 DEF c
-----------------------------------------------------------------------------
LEMMA EventFields ==
  ASSUME NEW e \in Event
  PROVE  e.at \in Nat /\ e.timer \in TimerId /\ e.generation \in 0 .. GenMod - 1
  BY DEF Event

LEMMA ElementsType ==
  ASSUME NEW q \in Seq(Event), NEW e \in Elements(q)
  PROVE  e \in Event
  BY DEF Elements

(* An event is accepted as long as its timer has not been rewritten; a     *)
(* rewrite ages it by one, short of a whole turn of the generations.       *)
LEMMA Ages ==
  ASSUME NEW ts \in [TimerId -> Timer], NEW e \in Event
  PROVE  /\ Age(ts, e) \in 0 .. GenMod - 1
         /\ Age(ts, e) = 0 <=> e.generation = ts[e.timer].generation
         /\ \A us : /\ us[e.timer].generation = (ts[e.timer].generation + 1) % GenMod
                    /\ Age(ts, e) < GenMod - 1
                    => /\ Age(us, e) = Age(ts, e) + 1
                       /\ e.generation # us[e.timer].generation
         /\ \A us : us[e.timer].generation = ts[e.timer].generation => Age(us, e) = Age(ts, e)
  <1>. DEFINE g == ts[e.timer].generation
              d == e.generation
  <1>1. g \in 0 .. GenMod - 1 /\ d \in 0 .. GenMod - 1 /\ GenMod \in Nat \ {0}
    BY EventFields, TimerFields, TimersAssumption
  <1>2. Age(ts, e) = IF g >= d THEN g - d ELSE g - d + GenMod
    BY DEF Age
  <1>3. \A us : Age(us, e) = IF us[e.timer].generation >= d THEN us[e.timer].generation - d
                             ELSE us[e.timer].generation - d + GenMod
    BY DEF Age
  <1>. HIDE DEF g, d
  <1>4. Age(ts, e) \in 0 .. GenMod - 1 /\ (Age(ts, e) = 0 <=> d = g)
    BY <1>1, <1>2
  <1>5. ASSUME NEW us, us[e.timer].generation = (g + 1) % GenMod, Age(ts, e) < GenMod - 1
        PROVE  Age(us, e) = Age(ts, e) + 1 /\ d # us[e.timer].generation
    <2>. DEFINE h == us[e.timer].generation
    <2>1. h = IF g + 1 < GenMod THEN g + 1 ELSE 0
      <3>1. CASE g + 1 < GenMod
        BY <1>1, <1>5, <3>1
      <3>2. CASE ~(g + 1 < GenMod)
        <4>1. g + 1 = GenMod
          BY <1>1, <3>2
        <4>. QED
          BY <1>1, <1>5, <3>2, <4>1
      <3>. QED
        BY <3>1, <3>2
    <2>2. Age(us, e) = IF h >= d THEN h - d ELSE h - d + GenMod
      BY <1>3
    <2>. HIDE DEF h
    <2>3. Age(us, e) = Age(ts, e) + 1 /\ d # h
      BY <1>1, <1>2, <1>5, <2>1, <2>2
    <2>. QED
      BY <2>3 DEF h
  <1>6. \A us : us[e.timer].generation = g => Age(us, e) = Age(ts, e)
    BY <1>2, <1>3
  <1>. QED
    BY <1>4, <1>5, <1>6 DEF g, d

(* What does not touch generations, syncs and overflows leaves the timers  *)
(* and their queue sound, and so does time.                                *)
LEMMA SameShape ==
  ASSUME NEW ts, NEW q, NEW n, TimersSound(ts, q, n), NEW us \in [TimerId -> Timer],
         \A i \in TimerId :
           /\ us[i].generation = ts[i].generation /\ us[i].lastSync = ts[i].lastSync
           /\ FreeRunning(us[i]) <=> FreeRunning(ts[i])
           /\ FreeRunning(ts[i]) => OverflowAt(us[i]) = OverflowAt(ts[i]),
         NEW m \in Nat, n <= m
  PROVE  TimersSound(us, q, m)
  <1>1. /\ ts \in [TimerId -> Timer] /\ q \in Seq(Event) /\ n \in Nat /\ Ordered(q)
        /\ \A i \in TimerId : ts[i].lastSync <= n
        /\ AgesBounded(ts, q, n) /\ AcceptedOnTime(ts, q) /\ OnePerTimer(ts, q)
    BY Zenon DEF TimersSound
  <1>2. \A i \in TimerId : us[i].lastSync <= m
    <2>. SUFFICES ASSUME NEW i \in TimerId PROVE us[i].lastSync <= m
      OBVIOUS
    <2>1. ts[i].lastSync \in Nat /\ ts[i].lastSync <= n /\ us[i].lastSync = ts[i].lastSync
      BY <1>1, TimerFields
    <2>. QED
      BY <1>1, <2>1
  <1>3. AgesBounded(us, q, m)
    <2>. SUFFICES ASSUME NEW e \in Elements(q) PROVE e.at + Age(us, e) <= m + GenMod - 1
      BY DEF AgesBounded
    <2>1. e \in Event /\ e.timer \in TimerId /\ e.at \in Nat
      BY <1>1, ElementsType, EventFields
    <2>2. Age(us, e) = Age(ts, e) /\ Age(ts, e) \in Nat
      BY <1>1, <2>1, Ages
    <2>3. e.at + Age(ts, e) <= n + GenMod - 1
      BY <1>1 DEF AgesBounded
    <2>. QED
      BY <1>1, <2>1, <2>2, <2>3, TimersAssumption
  <1>4. AcceptedOnTime(us, q)
    <2>. SUFFICES ASSUME NEW e \in Elements(q), e.generation = us[e.timer].generation
                  PROVE  FreeRunning(us[e.timer]) /\ e.at = OverflowAt(us[e.timer])
      BY DEF AcceptedOnTime
    <2>1. e.timer \in TimerId
      BY <1>1, ElementsType, EventFields
    <2>2. FreeRunning(ts[e.timer]) /\ e.at = OverflowAt(ts[e.timer])
      BY <1>1, <2>1, Zenon DEF AcceptedOnTime
    <2>. QED
      BY <2>1, <2>2, Zenon
  <1>5. OnePerTimer(us, q)
    <2>1. \A i \in TimerId : Accepted(us, i) = Accepted(ts, i)
      BY DEF Accepted
    <2>. QED
      BY <1>1, <2>1, Zenon DEF OnePerTimer
  <1>. QED
    BY <1>1, <1>2, <1>3, <1>4, <1>5, Zenon DEF TimersSound

(* A stale event may be dropped.                                           *)
LEMMA DropSound ==
  ASSUME NEW ts, NEW q, NEW n, TimersSound(ts, q, n), q # <<>>,
         q[1].generation # ts[q[1].timer].generation
  PROVE  TimersSound(ts, Tail(q), n)
  <1>1. /\ ts \in [TimerId -> Timer] /\ q \in Seq(Event) /\ n \in Nat /\ Ordered(q)
        /\ \A i \in TimerId : ts[i].lastSync <= n
        /\ AgesBounded(ts, q, n) /\ AcceptedOnTime(ts, q) /\ OnePerTimer(ts, q)
    BY Zenon DEF TimersSound
  <1>2. \A f \in Event : f.at \in Int
    BY DEF Event
  <1>3. /\ Tail(q) \in Seq(Event) /\ Elements(q) = Elements(Tail(q)) \cup {q[1]}
        /\ Ordered(Tail(q)) /\ \A L : AtMostOne(q, L) => AtMostOne(Tail(q), L)
    BY <1>1, <1>2, PoppedElements, PoppedKeeps
  <1>4. AgesBounded(ts, Tail(q), n) /\ AcceptedOnTime(ts, Tail(q))
    BY <1>1, <1>3 DEF AgesBounded, AcceptedOnTime
  <1>5. OnePerTimer(ts, Tail(q))
    <2>. SUFFICES ASSUME NEW i \in TimerId
                  PROVE  /\ AtMostOne(Tail(q), Accepted(ts, i))
                         /\ FreeRunning(ts[i])
                              => \E e \in Elements(Tail(q)) : e \in Accepted(ts, i)
      BY DEF OnePerTimer
    <2>1. AtMostOne(Tail(q), Accepted(ts, i))
      BY <1>1, <1>3, Zenon DEF OnePerTimer
    <2>2. ASSUME FreeRunning(ts[i])
          PROVE  \E e \in Elements(Tail(q)) : e \in Accepted(ts, i)
      <3>1. PICK e \in Elements(q) : e \in Accepted(ts, i)
        BY <1>1, <2>2, Zenon DEF OnePerTimer
      <3>2. e # q[1]
        BY <3>1 DEF Accepted
      <3>. QED
        BY <1>3, <3>1, <3>2
    <2>. QED
      BY <2>1, <2>2
  <1>. QED
    BY <1>1, <1>3, <1>4, <1>5, Zenon DEF TimersSound

(* A timer whose events are all stale may be given its next one.           *)
LEMMA ScheduleSound ==
  ASSUME NEW ts \in [TimerId -> Timer], NEW q \in Seq(Event), NEW n \in Nat, Ordered(q),
         \A j \in TimerId : ts[j].lastSync <= n,
         AgesBounded(ts, q, n), AcceptedOnTime(ts, q),
         NEW i \in TimerId,
         \A e \in Elements(q) : ~(e \in Accepted(ts, i)),
         \A j \in TimerId : AtMostOne(q, Accepted(ts, j)),
         \A j \in TimerId \ {i} :
           FreeRunning(ts[j]) => \E e \in Elements(q) : e \in Accepted(ts, j)
  PROVE  TimersSound(ts, Schedule(q, ts[i], i), n)
  <1>. DEFINE t == ts[i]
              x == OverflowEvent(t, i)
              r == Insert(q, x)
  <1>1. CASE ~FreeRunning(t)
    <2>1. Schedule(q, t, i) = q
      BY <1>1 DEF Schedule
    <2>2. OnePerTimer(ts, q)
      BY <1>1, Zenon DEF OnePerTimer
    <2>. QED
      BY <2>1, <2>2, Zenon DEF TimersSound
  <1>2. CASE FreeRunning(t)
    <2>1. Schedule(q, t, i) = r
      BY <1>2 DEF Schedule
    <2>2. /\ x \in Event /\ x.at = OverflowAt(t) /\ x.timer = i /\ x.generation = t.generation
          /\ t \in Timer /\ x.at \in Nat /\ x.at <= t.lastSync + GenMod - 1
      BY OverflowEventType, OverflowAhead
    <2>3. \A f \in Event : f.at \in Int
      BY DEF Event
    <2>. HIDE DEF x, r
    <2>4. r \in Seq(Event) /\ Elements(r) = Elements(q) \cup {x} /\ Ordered(r)
      BY <2>2, <2>3, InsertType, InsertedElements, InsertOrdered DEF r
    <2>5. AgesBounded(ts, r, n)
      <3>1. Age(ts, x) = 0
        BY <2>2, Ages
      <3>2. t.lastSync <= n /\ t.lastSync \in Nat
        BY TimerFields
      <3>3. x.at + Age(ts, x) <= n + GenMod - 1
        BY <2>2, <3>1, <3>2, TimersAssumption
      <3>. QED
        BY <2>4, <3>3 DEF AgesBounded
    <2>6. AcceptedOnTime(ts, r)
      BY <1>2, <2>2, <2>4 DEF AcceptedOnTime
    <2>7. OnePerTimer(ts, r)
      <3>1. ASSUME NEW j \in TimerId PROVE AtMostOne(r, Accepted(ts, j))
        <4>1. x \in Accepted(ts, j) => j = i
          BY <2>2 DEF Accepted
        <4>2. x \in Accepted(ts, j) => \A k \in 1 .. Len(q) : ~(q[k] \in Accepted(ts, j))
          BY <4>1 DEF Elements
        <4>3. AtMostOne(q, Accepted(ts, j))
          OBVIOUS
        <4>. DEFINE L == Accepted(ts, j)
        <4>. HIDE DEF L
        <4>4. AtMostOne(r, L)
          BY <2>2, <4>2, <4>3, InsertedAtMostOne DEF r, L
        <4>. QED
          BY <4>4 DEF L
      <3>2. x \in Accepted(ts, i)
        BY <2>2 DEF Accepted
      <3>3. ASSUME NEW j \in TimerId, FreeRunning(ts[j])
            PROVE  \E e \in Elements(r) : e \in Accepted(ts, j)
        BY <2>4, <3>2, <3>3
      <3>. QED
        BY <3>1, <3>3, Zenon DEF OnePerTimer
    <2>. QED
      BY <2>1, <2>4, <2>5, <2>6, <2>7, Zenon DEF TimersSound
  <1>. QED
    BY <1>1, <1>2

(* What a control write leaves of a timer.                                 *)
LEMMA RewrittenType ==
  ASSUME NEW t \in Timer, NEW i \in TimerId, NEW c \in Control, NEW at \in Nat, t.lastSync <= at
  PROVE  /\ Rewritten(t, i, c, at) \in Timer
         /\ Rewritten(t, i, c, at).lastSync <= at
         /\ Rewritten(t, i, c, at).generation = (t.generation + 1) % GenMod
         /\ FreeRunning(t) => /\ Rewritten(t, i, c, at).counter = LiveCounter(t, at)
                              /\ Rewritten(t, i, c, at).lastSync = at
  <1>. DEFINE frozen == IF FreeRunning(t)
                        THEN [t EXCEPT !.counter = LiveCounter(t, at), !.lastSync = at] ELSE t
              starts == c.enabled /\ ~t.enabled
              count == IF starts THEN t.reload ELSE frozen.counter
              sync == IF starts THEN at ELSE frozen.lastSync
              generation == (t.generation + 1) % GenMod
              cascade == i # 0 /\ c.cascade
              u == Rewritten(t, i, c, at)
  <1>1. u = [reload |-> t.reload, counter |-> count, lastSync |-> sync,
             generation |-> generation, shift |-> c.shift, irq |-> c.irq,
             cascade |-> cascade, enabled |-> c.enabled]
    BY Zenon DEF Rewritten
  <1>2. /\ t.reload \in Count /\ t.counter \in Count /\ t.lastSync \in Nat
        /\ t.generation \in 0 .. GenMod - 1
    BY TimerFields
  <1>3. c.shift \in Shifts /\ c.irq \in BOOLEAN /\ c.enabled \in BOOLEAN
    BY DEF Control
  <1>4. LiveCounter(t, at) \in Count
    BY LiveCounterRange
  <1>5. /\ FreeRunning(t) => frozen.counter = LiveCounter(t, at) /\ frozen.lastSync = at
        /\ ~FreeRunning(t) => frozen.counter = t.counter /\ frozen.lastSync = t.lastSync
    BY DEF Timer
  <1>6. FreeRunning(t) => ~starts
    BY DEF FreeRunning
  <1>. HIDE DEF frozen, starts
  <1>7. count \in Count /\ sync \in Nat /\ sync <= at
    BY <1>2, <1>4, <1>5
  <1>8. generation \in 0 .. GenMod - 1
    BY <1>2, TimersAssumption
  <1>9. FreeRunning(t) => count = LiveCounter(t, at) /\ sync = at
    BY <1>5, <1>6
  <1>10. cascade \in BOOLEAN
    OBVIOUS
  <1>. HIDE DEF count, sync, generation, cascade
  <1>11. u \in Timer
    <2>. HIDE DEF u
    <2>. QED
      BY <1>1, <1>2, <1>3, <1>7, <1>8, <1>10 DEF Timer
  <1>12. u.counter = count /\ u.lastSync = sync /\ u.generation = generation
    BY <1>1
  <1>. QED
    BY <1>7, <1>9, <1>11, <1>12 DEF generation

(* A control write at time `at`, within an instruction that began at n and *)
(* ends at m, leaves the timers sound: t is the timer's state, its reload  *)
(* perhaps just set.                                                       *)
LEMMA WriteSound ==
  ASSUME NEW ts, NEW q, NEW n, TimersSound(ts, q, n), BeforeDeadline(q, n),
         NEW i \in TimerId, NEW c \in Control, NEW at \in Nat, n <= at,
         NEW m \in Nat, at < m,
         NEW t \in Timer, t.generation = ts[i].generation, t.lastSync = ts[i].lastSync,
         NEW u, u = Rewritten(t, i, c, at)
  PROVE  TimersSound([ts EXCEPT ![i] = u], Schedule(q, u, i), m)
  <1>. DEFINE us == [ts EXCEPT ![i] = u]
  <1>1. /\ ts \in [TimerId -> Timer] /\ q \in Seq(Event) /\ n \in Nat /\ Ordered(q)
        /\ \A j \in TimerId : ts[j].lastSync <= n
        /\ AgesBounded(ts, q, n) /\ AcceptedOnTime(ts, q) /\ OnePerTimer(ts, q)
    BY Zenon DEF TimersSound
  <1>2. t.lastSync <= at /\ t.lastSync \in Nat
    BY <1>1, TimerFields
  <1>3. u \in Timer /\ u.lastSync <= at /\ u.generation = (ts[i].generation + 1) % GenMod
        /\ u.lastSync \in Nat
    BY <1>2, RewrittenType, TimerFields
  <1>4. us \in [TimerId -> Timer] /\ us[i] = u /\ \A j \in TimerId \ {i} : us[j] = ts[j]
    BY <1>1, <1>3
  <1>. HIDE DEF us
  <1>5. \A j \in TimerId : us[j].lastSync <= m
    <2>. SUFFICES ASSUME NEW j \in TimerId PROVE us[j].lastSync <= m
      OBVIOUS
    <2>1. CASE j = i
      BY <1>3, <1>4, <2>1
    <2>2. CASE j # i
      <3>1. ts[j].lastSync <= n /\ ts[j].lastSync \in Nat /\ us[j] = ts[j]
        BY <1>1, <1>4, <2>2, TimerFields
      <3>. QED
        BY <1>1, <3>1
    <2>. QED
      BY <2>1, <2>2
  <1>6. ASSUME NEW e \in Elements(q)
        PROVE  e \in Event /\ e.timer \in TimerId /\ e.at \in Nat /\ n < e.at
    <2>1. e \in Event /\ e.timer \in TimerId /\ e.at \in Nat
      BY <1>1, ElementsType, EventFields
    <2>2. PICK k \in 1 .. Len(q) : e = q[k]
      BY DEF Elements
    <2>3. q # <<>> /\ Len(q) \in Nat /\ 1 \in 1 .. Len(q) /\ q[1] \in Event
      BY <1>1, <2>2
    <2>4. n < q[1].at /\ q[1].at \in Nat
      BY <2>3, EventFields DEF BeforeDeadline
    <2>5. k = 1 \/ 1 < k
      OBVIOUS
    <2>6. e = q[1] \/ q[1].at <= e.at
      BY <1>1, <2>2, <2>3, <2>5 DEF Ordered
    <2>. QED
      BY <1>1, <2>1, <2>4, <2>6
  <1>7. ASSUME NEW e \in Elements(q)
        PROVE  /\ Age(us, e) <= Age(ts, e) + 1 /\ Age(us, e) \in Nat /\ Age(ts, e) \in Nat
               /\ e.timer = i => e.generation # us[i].generation
    <2>1. e \in Event /\ e.timer \in TimerId /\ e.at \in Nat /\ n < e.at
      BY <1>6
    <2>2. Age(ts, e) \in Nat /\ Age(us, e) \in Nat
      BY <1>1, <1>4, <2>1, Ages
    <2>3. e.at + Age(ts, e) <= n + GenMod - 1
      BY <1>1 DEF AgesBounded
    <2>4. Age(ts, e) < GenMod - 1
      BY <1>1, <2>1, <2>2, <2>3, TimersAssumption
    <2>5. CASE e.timer = i
      <3>1. us[e.timer].generation = (ts[e.timer].generation + 1) % GenMod
        BY <1>3, <1>4, <2>5
      <3>2. Age(us, e) = Age(ts, e) + 1 /\ e.generation # us[e.timer].generation
        BY <1>1, <2>1, <2>4, <3>1, Ages
      <3>. QED
        BY <2>2, <2>5, <3>2
    <2>6. CASE e.timer # i
      <3>1. us[e.timer].generation = ts[e.timer].generation
        BY <1>4, <2>1, <2>6
      <3>2. Age(us, e) = Age(ts, e)
        BY <1>1, <2>1, <3>1, Ages
      <3>. QED
        BY <2>2, <2>6, <3>2
    <2>. QED
      BY <2>5, <2>6
  <1>8. AgesBounded(us, q, m)
    <2>. SUFFICES ASSUME NEW e \in Elements(q) PROVE e.at + Age(us, e) <= m + GenMod - 1
      BY DEF AgesBounded
    <2>1. e.at + Age(ts, e) <= n + GenMod - 1 /\ e.at \in Nat
      BY <1>1, <1>6 DEF AgesBounded
    <2>2. Age(us, e) <= Age(ts, e) + 1 /\ Age(us, e) \in Nat /\ Age(ts, e) \in Nat
      BY <1>7
    <2>. QED
      BY <1>1, <2>1, <2>2, TimersAssumption
  <1>9. AcceptedOnTime(us, q)
    <2>. SUFFICES ASSUME NEW e \in Elements(q), e.generation = us[e.timer].generation
                  PROVE  FreeRunning(us[e.timer]) /\ e.at = OverflowAt(us[e.timer])
      BY DEF AcceptedOnTime
    <2>1. e.timer # i /\ e.timer \in TimerId
      BY <1>6, <1>7
    <2>2. us[e.timer] = ts[e.timer]
      BY <1>4, <2>1
    <2>. QED
      BY <1>1, <2>2, Zenon DEF AcceptedOnTime
  <1>10. \A e \in Elements(q) : ~(e \in Accepted(us, i))
    BY <1>7 DEF Accepted
  <1>11. \A j \in TimerId \ {i} : Accepted(us, j) = Accepted(ts, j)
    BY <1>4 DEF Accepted
  <1>12. \A j \in TimerId : AtMostOne(q, Accepted(us, j))
    <2>. SUFFICES ASSUME NEW j \in TimerId PROVE AtMostOne(q, Accepted(us, j))
      OBVIOUS
    <2>1. CASE j = i
      BY <1>10, <2>1 DEF AtMostOne, Elements
    <2>2. CASE j # i
      <3>1. Accepted(us, j) = Accepted(ts, j)
        BY <1>11, <2>2
      <3>. QED
        BY <1>1, <3>1, Zenon DEF OnePerTimer
    <2>. QED
      BY <2>1, <2>2
  <1>13. ASSUME NEW j \in TimerId \ {i}, FreeRunning(us[j])
         PROVE  \E e \in Elements(q) : e \in Accepted(us, j)
    <2>1. us[j] = ts[j] /\ j \in TimerId /\ Accepted(us, j) = Accepted(ts, j)
      BY <1>4, <1>11, <1>13
    <2>. QED
      BY <1>1, <1>13, <2>1, Zenon DEF OnePerTimer
  <1>14. TimersSound(us, Schedule(q, us[i], i), m)
    BY <1>1, <1>4, <1>5, <1>8, <1>9, <1>10, <1>12, <1>13, ScheduleSound
  <1>. QED
    BY <1>4, <1>14 DEF us

(* Handling an accepted overflow: its timer starts again, in state t.      *)
LEMMA RestartSound ==
  ASSUME NEW ts, NEW q, NEW n, TimersSound(ts, q, n), q # <<>>,
         NEW i \in TimerId, i = q[1].timer, q[1].generation = ts[i].generation,
         NEW t \in Timer, t.generation = ts[i].generation, t.lastSync <= n
  PROVE  TimersSound([ts EXCEPT ![i] = t], Schedule(Tail(q), t, i), n)
  <1>. DEFINE us == [ts EXCEPT ![i] = t]
              r == Tail(q)
  <1>1. /\ ts \in [TimerId -> Timer] /\ q \in Seq(Event) /\ n \in Nat /\ Ordered(q)
        /\ \A j \in TimerId : ts[j].lastSync <= n
        /\ AgesBounded(ts, q, n) /\ AcceptedOnTime(ts, q) /\ OnePerTimer(ts, q)
    BY Zenon DEF TimersSound
  <1>2. \A f \in Event : f.at \in Int
    BY DEF Event
  <1>3. /\ r \in Seq(Event) /\ Elements(q) = Elements(r) \cup {q[1]} /\ Ordered(r)
        /\ q[1] \in Event
        /\ \A L : AtMostOne(q, L) =>
              /\ AtMostOne(r, L)
              /\ q[1] \in L => \A e \in Elements(r) : ~(e \in L)
    BY <1>1, <1>2, PoppedElements, PoppedKeeps
  <1>4. us \in [TimerId -> Timer] /\ us[i] = t /\ \A j \in TimerId \ {i} : us[j] = ts[j]
    BY <1>1
  <1>. HIDE DEF us, r
  <1>5. \A j \in TimerId : us[j].lastSync <= n
    BY <1>1, <1>4
  <1>6. \A j \in TimerId : us[j].generation = ts[j].generation
    BY <1>4
  <1>7. \A j \in TimerId : Accepted(us, j) = Accepted(ts, j)
    BY <1>6 DEF Accepted
  <1>8. \A j \in TimerId : AtMostOne(q, Accepted(us, j))
    BY <1>1, <1>7, Zenon DEF OnePerTimer
  <1>9. \A j \in TimerId : AtMostOne(r, Accepted(us, j))
    BY <1>3, <1>8, Zenon
  <1>10. q[1] \in Accepted(us, i)
    BY <1>3, <1>6 DEF Accepted
  <1>11. \A e \in Elements(r) : ~(e \in Accepted(us, i))
    BY <1>3, <1>8, <1>10, Zenon
  <1>12. \A e \in Elements(r) : e \in Event /\ e.timer \in TimerId /\ e \in Elements(q)
    BY <1>3, ElementsType, EventFields
  <1>13. AgesBounded(us, r, n)
    <2>. SUFFICES ASSUME NEW e \in Elements(r) PROVE e.at + Age(us, e) <= n + GenMod - 1
      BY DEF AgesBounded
    <2>1. Age(us, e) = Age(ts, e)
      BY <1>1, <1>6, <1>12, Ages
    <2>. QED
      BY <1>1, <1>12, <2>1, Zenon DEF AgesBounded
  <1>14. AcceptedOnTime(us, r)
    <2>. SUFFICES ASSUME NEW e \in Elements(r), e.generation = us[e.timer].generation
                  PROVE  FreeRunning(us[e.timer]) /\ e.at = OverflowAt(us[e.timer])
      BY DEF AcceptedOnTime
    <2>1. e.timer # i
      BY <1>11, <1>12 DEF Accepted
    <2>2. us[e.timer] = ts[e.timer]
      BY <1>4, <1>12, <2>1
    <2>. QED
      BY <1>1, <1>12, <2>2, Zenon DEF AcceptedOnTime
  <1>15. ASSUME NEW j \in TimerId \ {i}, FreeRunning(us[j])
         PROVE  \E e \in Elements(r) : e \in Accepted(us, j)
    <2>1. us[j] = ts[j] /\ Accepted(us, j) = Accepted(ts, j)
      BY <1>4, <1>7
    <2>2. PICK e \in Elements(q) : e \in Accepted(us, j)
      BY <1>1, <1>15, <2>1, Zenon DEF OnePerTimer
    <2>3. e # q[1]
      BY <2>2 DEF Accepted
    <2>. QED
      BY <1>3, <2>2, <2>3
  <1>16. TimersSound(us, Schedule(r, us[i], i), n)
    BY <1>1, <1>3, <1>4, <1>5, <1>9, <1>11, <1>13, <1>14, <1>15, ScheduleSound
  <1>. QED
    BY <1>4, <1>16 DEF us, r
-----------------------------------------------------------------------------
LEMMA TimersInit == Init => TimersInv
  <1>. SUFFICES ASSUME Init PROVE TimersInv
    OBVIOUS
  <1>1. now = 0 /\ queue = <<>> /\ iflags = {}
    BY DEF Init
  <1>2. PICK s \in Shifts : timers = [i \in TimerId |-> NewTimer(s)]
    BY Zenon DEF Init
  <1>3. NewTimer(s) \in Timer /\ NewTimer(s).lastSync = 0 /\ ~FreeRunning(NewTimer(s))
    BY TimersAssumption DEF NewTimer, Timer, Count, FreeRunning
  <1>4. timers \in [TimerId -> Timer] /\ \A i \in TimerId : timers[i] = NewTimer(s)
    BY <1>2, <1>3
  <1>5. queue \in Seq(Event) /\ Len(queue) = 0
    BY <1>1
  <1>6. Elements(queue) = {}
    BY <1>5 DEF Elements
  <1>7. Ordered(queue) /\ \A L : AtMostOne(queue, L)
    BY <1>5 DEF Ordered, AtMostOne
  <1>8. \A i \in TimerId : timers[i].lastSync <= now
    BY <1>1, <1>3, <1>4
  <1>9. AgesBounded(timers, queue, now) /\ AcceptedOnTime(timers, queue)
    BY <1>6 DEF AgesBounded, AcceptedOnTime
  <1>10. OnePerTimer(timers, queue)
    BY <1>3, <1>4, <1>7 DEF OnePerTimer
  <1>11. now \in Nat /\ iflags \subseteq TimerId
    BY <1>1
  <1>. QED
    BY <1>4, <1>5, <1>7, <1>8, <1>9, <1>10, <1>11 DEF TimersInv, TimersSound

LEMMA ReloadedType ==
  ASSUME NEW t \in Timer, NEW v \in Count
  PROVE  /\ [t EXCEPT !.reload = v] \in Timer
         /\ [t EXCEPT !.reload = v].generation = t.generation
         /\ [t EXCEPT !.reload = v].lastSync = t.lastSync
         /\ [t EXCEPT !.reload = v].counter = t.counter
         /\ [t EXCEPT !.reload = v].shift = t.shift
         /\ FreeRunning([t EXCEPT !.reload = v]) <=> FreeRunning(t)
         /\ OverflowAt([t EXCEPT !.reload = v]) = OverflowAt(t)
         /\ \A n : LiveCounter([t EXCEPT !.reload = v], n) = LiveCounter(t, n)
  <1>. DEFINE u == [t EXCEPT !.reload = v]
  <1>1. u \in Timer
    BY Zenon DEF Timer
  <1>2. /\ u.generation = t.generation /\ u.lastSync = t.lastSync /\ u.counter = t.counter
        /\ u.shift = t.shift /\ u.enabled = t.enabled /\ u.cascade = t.cascade
    BY DEF Timer
  <1>. HIDE DEF u
  <1>3. FreeRunning(u) <=> FreeRunning(t)
    BY <1>2, Zenon DEF FreeRunning
  <1>4. OverflowAt(u) = OverflowAt(t)
    BY <1>2, Zenon DEF OverflowAt
  <1>5. ASSUME NEW n PROVE LiveCounter(u, n) = LiveCounter(t, n)
    <2>1. CASE FreeRunning(t)
      BY <1>2, <1>3, <2>1, Zenon DEF LiveCounter
    <2>2. CASE ~FreeRunning(t)
      BY <1>2, <1>3, <2>2, Zenon DEF LiveCounter
    <2>. QED
      BY <2>1, <2>2, Zenon
  <1>. QED
    BY <1>1, <1>2, <1>3, <1>4, <1>5 DEF u

(* What a step may do to the timers and the queue, by its kinds.           *)
LEMMA SoundParts ==
  ASSUME TimersInv
  PROVE  /\ timers \in [TimerId -> Timer] /\ queue \in Seq(Event) /\ now \in Nat
         /\ \A i \in TimerId : timers[i].lastSync <= now /\ timers[i] \in Timer
         /\ TimersSound(timers, queue, now) /\ iflags \subseteq TimerId
  BY Zenon DEF TimersInv, TimersSound

LEMMA TimePassesInv ==
  ASSUME TimersInv, timers' = timers, queue' = queue, now' \in Nat, now <= now',
         iflags' \subseteq TimerId
  PROVE  TimersInv'
  <1>1. TimersSound(timers, queue, now')
    BY SoundParts, SameShape
  <1>. QED
    BY <1>1, Zenon DEF TimersInv

(* A store to the control register that ends at now': t is its timer, the  *)
(* reload perhaps just set.                                                *)
LEMMA StoreControlInv ==
  ASSUME TimersInv, BeforeDeadline(queue, now),
         NEW i \in TimerId, NEW c \in Control, NEW at \in Nat, now <= at, now' \in Nat, at < now',
         NEW t \in Timer, t.generation = timers[i].generation,
         t.lastSync = timers[i].lastSync,
         StoreControl(i, t, c, at), iflags' = iflags
  PROVE  TimersInv'
  <1>. DEFINE u == Rewritten(t, i, c, at)
  <1>1. timers' = [timers EXCEPT ![i] = u] /\ queue' = Schedule(queue, u, i)
    BY Zenon DEF StoreControl
  <1>. HIDE DEF u
  <1>2. TimersSound([timers EXCEPT ![i] = u], Schedule(queue, u, i), now')
    BY SoundParts, WriteSound DEF u
  <1>. QED
    BY <1>1, <1>2, SoundParts, Zenon DEF TimersInv

LEMMA InstructionInv ==
  ASSUME TimersInv, Instruction
  PROVE  TimersInv'
  <1>1. BeforeDeadline(queue, now) /\ now \in Nat
    BY SoundParts DEF Instruction
  <1>2. PICK f \in 1 .. MaxFetch :
          \/ /\ now' = now + f
             /\ UNCHANGED <<queue, timers, iflags>>
          \/ /\ \E d \in 1 .. MaxStore : now' = now + f + d
             /\ \E i \in TimerId :
                  \/ \E v \in Count : write_reload(i, v)
                  \/ \E c \in Control : write_control(i, c, now + f)
                  \/ \E v \in Count, c \in Control : write_both(i, v, c, now + f)
                  \/ acknowledge(i)
    BY Zenon DEF Instruction
  <1>3. f \in Nat /\ f >= 1 /\ now + f \in Nat /\ now <= now + f
    BY <1>1
  <1>4. CASE now' = now + f /\ UNCHANGED <<queue, timers, iflags>>
    BY <1>3, <1>4, SoundParts, TimePassesInv
  <1>5. ASSUME NEW d \in 1 .. MaxStore, now' = now + f + d, NEW i \in TimerId,
               \/ \E v \in Count : write_reload(i, v)
               \/ \E c \in Control : write_control(i, c, now + f)
               \/ \E v \in Count, c \in Control : write_both(i, v, c, now + f)
               \/ acknowledge(i)
        PROVE  TimersInv'
    <2>1. now' \in Nat /\ now <= now' /\ now + f < now'
      BY <1>1, <1>3, <1>5
    <2>2. CASE \E v \in Count : write_reload(i, v)
      <3>1. PICK v \in Count : write_reload(i, v)
        BY <2>2
      <3>2. timers' = [timers EXCEPT ![i].reload = v] /\ queue' = queue /\ iflags' = iflags
        BY <3>1 DEF write_reload
      <3>. DEFINE t == [timers[i] EXCEPT !.reload = v]
      <3>3. timers[i] \in Timer
        BY SoundParts
      <3>4. timers' = [timers EXCEPT ![i] = t]
        BY <3>2, Zenon
      <3>. HIDE DEF t
      <3>5. /\ t \in Timer /\ t.generation = timers[i].generation
            /\ t.lastSync = timers[i].lastSync /\ (FreeRunning(t) <=> FreeRunning(timers[i]))
            /\ OverflowAt(t) = OverflowAt(timers[i])
        BY <3>3, ReloadedType DEF t
      <3>6. /\ timers' \in [TimerId -> Timer] /\ timers'[i] = t
            /\ \A j \in TimerId \ {i} : timers'[j] = timers[j]
        BY <3>4, <3>5, SoundParts
      <3>7. \A j \in TimerId :
              /\ timers'[j].generation = timers[j].generation
              /\ timers'[j].lastSync = timers[j].lastSync
              /\ FreeRunning(timers'[j]) <=> FreeRunning(timers[j])
              /\ FreeRunning(timers[j]) => OverflowAt(timers'[j]) = OverflowAt(timers[j])
        <4>. SUFFICES ASSUME NEW j \in TimerId
                      PROVE  /\ timers'[j].generation = timers[j].generation
                             /\ timers'[j].lastSync = timers[j].lastSync
                             /\ FreeRunning(timers'[j]) <=> FreeRunning(timers[j])
                             /\ FreeRunning(timers[j])
                                  => OverflowAt(timers'[j]) = OverflowAt(timers[j])
          OBVIOUS
        <4>1. CASE j = i
          BY <3>5, <3>6, <4>1, Zenon
        <4>2. CASE j # i
          <5>1. timers'[j] = timers[j]
            BY <3>6, <4>2
          <5>. QED
            BY <5>1, Zenon
        <4>. QED
          BY <4>1, <4>2
      <3>. DEFINE us == timers'
                  m == now'
      <3>8. us \in [TimerId -> Timer] /\ m \in Nat /\ now <= m
        BY <2>1, <3>6
      <3>9. TimersSound(us, queue, m)
        BY <3>7, <3>8, SoundParts, SameShape
      <3>. QED
        BY <3>2, <3>9, SoundParts, Zenon DEF TimersInv
    <2>3. CASE \E c \in Control : write_control(i, c, now + f)
      <3>1. PICK c \in Control : write_control(i, c, now + f)
        BY <2>3
      <3>2. StoreControl(i, timers[i], c, now + f) /\ iflags' = iflags
        BY <3>1, Zenon DEF write_control
      <3>3. timers[i] \in Timer
        BY SoundParts
      <3>. QED
        BY <1>1, <1>3, <2>1, <3>2, <3>3, StoreControlInv
    <2>4. CASE \E v \in Count, c \in Control : write_both(i, v, c, now + f)
      <3>1. PICK v \in Count, c \in Control : write_both(i, v, c, now + f)
        BY <2>4
      <3>. DEFINE t == [timers[i] EXCEPT !.reload = v]
      <3>2. StoreControl(i, t, c, now + f) /\ iflags' = iflags
        BY <3>1, Zenon DEF write_both
      <3>3. timers[i] \in Timer
        BY SoundParts
      <3>. HIDE DEF t
      <3>4. /\ t \in Timer /\ t.generation = timers[i].generation
            /\ t.lastSync = timers[i].lastSync
        BY <3>3, ReloadedType DEF t
      <3>. QED
        BY <1>1, <1>3, <2>1, <3>2, <3>4, StoreControlInv
    <2>5. CASE acknowledge(i)
      <3>1. timers' = timers /\ queue' = queue /\ iflags' \subseteq TimerId
        BY <2>5, SoundParts DEF acknowledge
      <3>. QED
        BY <2>1, <3>1, TimePassesInv
    <2>. QED
      BY <1>5, <2>2, <2>3, <2>4, <2>5
  <1>. QED
    BY <1>2, <1>4, <1>5

LEMMA HaltedInv ==
  ASSUME TimersInv, Halted
  PROVE  TimersInv'
  <1>1. queue # <<>> /\ now < queue[1].at /\ now' = queue[1].at
    BY DEF Halted
  <1>2. queue[1] \in Event
    BY <1>1, SoundParts
  <1>3. now' \in Nat /\ now <= now'
    BY <1>1, <1>2, SoundParts, EventFields
  <1>. QED
    BY <1>3, SoundParts, TimePassesInv DEF Halted

(* The timers after an overflow of timer i, which becomes t: the others    *)
(* have taken the carry, and were sound before the timer was reloaded.     *)
CarriedUnder(i, t) ==
  \E us : /\ TimersSound(us, queue, now) /\ us[i] = timers[i]
          /\ timers' = [us EXCEPT ![i] = t]

(* The timers above an overflow count up; the rest of their state stays.   *)
LEMMA OverflowTimers ==
  ASSUME TimersInv, NEW i \in TimerId, FreeRunning(timers[i]), Overflow(i),
         NEW t, t = [timers[i] EXCEPT !.counter = timers[i].reload, !.lastSync = now]
  PROVE  /\ t \in Timer /\ t.generation = timers[i].generation /\ t.lastSync = now
         /\ CarriedUnder(i, t)
  <1>1. timers[i] \in Timer /\ now \in Nat /\ timers \in [TimerId -> Timer]
    BY SoundParts
  <1>2. t \in Timer
    BY <1>1, TimerFields, Zenon DEF Timer
  <1>3. t.generation = timers[i].generation /\ t.lastSync = now
    BY <1>1 DEF Timer
  <1>. DEFINE carried == Carried(timers, i)
              bumped == Bumped(timers, i)
              next(j) == IF j = i THEN t
                         ELSE IF j \in carried THEN [timers[j] EXCEPT !.counter = timers[j].reload]
                         ELSE IF j \in bumped THEN [timers[j] EXCEPT !.counter = @ + 1]
                         ELSE timers[j]
              us == [j \in TimerId |-> IF j = i THEN timers[i] ELSE next(j)]
  <1>4. timers' = [j \in TimerId |-> next(j)]
    BY Zenon DEF Overflow
  <1>5. \A j \in carried : CountsUp(timers[j])
    <2>. SUFFICES ASSUME NEW j \in carried PROVE CountsUp(timers[j])
      OBVIOUS
    <2>1. j \in TimerId /\ j > i /\ \A k \in i + 1 .. j : CountsUp(timers[k])
      BY DEF Carried
    <2>2. j \in i + 1 .. j
      BY <2>1 DEF TimerId
    <2>. QED
      BY <2>1, <2>2
  <1>6. \A j \in bumped : CountsUp(timers[j]) /\ timers[j].counter # Wrap - 1
    BY DEF Bumped
  <1>7. ~CountsUp(timers[i])
    BY DEF CountsUp, FreeRunning
  <1>. HIDE DEF carried, bumped
  <1>8. ASSUME NEW j \in TimerId, j # i
        PROVE  /\ next(j) \in Timer
               /\ next(j).generation = timers[j].generation
               /\ next(j).lastSync = timers[j].lastSync
               /\ FreeRunning(next(j)) <=> FreeRunning(timers[j])
               /\ FreeRunning(timers[j]) => next(j) = timers[j]
    <2>. DEFINE a == timers[j]
    <2>1. a \in Timer
      BY <1>1
    <2>2. ASSUME NEW v \in Count
          PROVE  /\ [a EXCEPT !.counter = v] \in Timer
                 /\ [a EXCEPT !.counter = v].generation = a.generation
                 /\ [a EXCEPT !.counter = v].lastSync = a.lastSync
                 /\ FreeRunning([a EXCEPT !.counter = v]) <=> FreeRunning(a)
      <3>. DEFINE b == [a EXCEPT !.counter = v]
      <3>. HIDE DEF a
      <3>1. b \in Timer
        BY <2>1, Zenon DEF Timer
      <3>2. /\ b.generation = a.generation /\ b.lastSync = a.lastSync
            /\ b.enabled = a.enabled /\ b.cascade = a.cascade
        BY <2>1 DEF Timer
      <3>. HIDE DEF b
      <3>3. FreeRunning(b) <=> FreeRunning(a)
        BY <3>2, Zenon DEF FreeRunning
      <3>. QED
        BY <3>1, <3>2, <3>3 DEF b
    <2>3. CASE j \in carried
      <3>1. next(j) = [a EXCEPT !.counter = a.reload]
        BY <1>8, <2>3, Zenon
      <3>2. a.reload \in Count /\ ~FreeRunning(a)
        BY <1>5, <2>1, <2>3, TimerFields DEF CountsUp, FreeRunning
      <3>. HIDE DEF a, next
      <3>. QED
        BY <2>2, <3>1, <3>2, Zenon DEF a
    <2>4. CASE j \notin carried /\ j \in bumped
      <3>1. next(j) = [a EXCEPT !.counter = a.counter + 1]
        BY <1>8, <2>4, Zenon
      <3>2. ~FreeRunning(a) /\ a.counter # Wrap - 1
        BY <1>6, <2>4 DEF CountsUp, FreeRunning
      <3>3. a.counter + 1 \in Count
        BY <2>1, <3>2, TimerFields, TimersAssumption DEF Count
      <3>. HIDE DEF a, next
      <3>. QED
        BY <2>2, <3>1, <3>2, <3>3, Zenon DEF a
    <2>5. CASE j \notin carried /\ j \notin bumped
      <3>1. next(j) = timers[j]
        BY <1>8, <2>5, Zenon
      <3>. HIDE DEF next
      <3>. QED
        BY <2>1, <3>1
    <2>. QED
      BY <2>3, <2>4, <2>5
  <1>. HIDE DEF next
  <1>9. us \in [TimerId -> Timer] /\ us[i] = timers[i]
    BY <1>1, <1>8
  <1>10. \A j \in TimerId :
           /\ us[j].generation = timers[j].generation /\ us[j].lastSync = timers[j].lastSync
           /\ FreeRunning(us[j]) <=> FreeRunning(timers[j])
           /\ FreeRunning(timers[j]) => OverflowAt(us[j]) = OverflowAt(timers[j])
    <2>. SUFFICES ASSUME NEW j \in TimerId
                  PROVE  /\ us[j].generation = timers[j].generation
                         /\ us[j].lastSync = timers[j].lastSync
                         /\ FreeRunning(us[j]) <=> FreeRunning(timers[j])
                         /\ FreeRunning(timers[j]) => OverflowAt(us[j]) = OverflowAt(timers[j])
      OBVIOUS
    <2>1. CASE j = i
      <3>1. us[j] = timers[j]
        BY <2>1
      <3>. HIDE DEF us
      <3>. QED
        BY <3>1, Zenon
    <2>2. CASE j # i
      <3>1. us[j] = next(j)
        BY <2>2
      <3>. HIDE DEF us
      <3>. QED
        BY <1>8, <2>2, <3>1, Zenon
    <2>. QED
      BY <2>1, <2>2
  <1>11. timers' = [us EXCEPT ![i] = t]
    <2>1. \A j \in TimerId : next(j) = [us EXCEPT ![i] = t][j]
      <3>1. next(i) = t
        BY Zenon DEF next
      <3>. QED
        BY <3>1
    <2>. QED
      BY <1>4, <2>1
  <1>. HIDE DEF us
  <1>12. TimersSound(us, queue, now)
    BY <1>1, <1>9, <1>10, SoundParts, SameShape
  <1>. QED
    BY <1>2, <1>3, <1>9, <1>11, <1>12, Zenon DEF CarriedUnder

LEMMA OverflowInv ==
  ASSUME TimersInv, handle_overflow
  PROVE  TimersInv'
  <1>1. queue # <<>> /\ now' = now
    BY DEF handle_overflow, HasDue
  <1>2. queue[1] \in Event /\ queue[1] \in Elements(queue)
    BY <1>1, SoundParts, PoppedElements
  <1>3. PICK i \in TimerId : i = queue[1].timer
    BY <1>2, EventFields
  <1>4. CASE Live(queue[1]) /\ Overflow(i)
    <2>1. queue[1].generation = timers[i].generation
      BY <1>3, <1>4 DEF Live
    <2>2. FreeRunning(timers[i])
      BY <1>2, <1>3, <2>1 DEF TimersInv, TimersSound, AcceptedOnTime
    <2>a. PICK t : t = [timers[i] EXCEPT !.counter = timers[i].reload, !.lastSync = now]
      OBVIOUS
    <2>3. queue' = Schedule(Tail(queue), t, i)
      BY <1>4, <2>a, Zenon DEF Overflow
    <2>4. iflags' \subseteq TimerId
      <3>1. iflags' = iflags \cup {j \in Carried(timers, i) \cup {i} : timers[j].irq}
        BY <1>4, Zenon DEF Overflow
      <3>2. Carried(timers, i) \subseteq TimerId
        BY DEF Carried
      <3>. QED
        BY <1>3, <3>1, <3>2, SoundParts
    <2>5. /\ t \in Timer /\ t.generation = timers[i].generation /\ t.lastSync = now
          /\ CarriedUnder(i, t)
      BY <1>4, <2>2, <2>a, OverflowTimers
    <2>6. PICK us : /\ TimersSound(us, queue, now) /\ us[i] = timers[i]
                    /\ timers' = [us EXCEPT ![i] = t]
      BY <2>5, Zenon DEF CarriedUnder
    <2>8. TimersSound([us EXCEPT ![i] = t], Schedule(Tail(queue), t, i), now)
      <3>1. t.lastSync <= now /\ i = queue[1].timer /\ queue[1].generation = us[i].generation
            /\ t.generation = us[i].generation
        BY <1>3, <2>1, <2>5, <2>6, SoundParts
      <3>. QED
        BY <1>1, <1>3, <2>5, <2>6, <3>1, RestartSound
    <2>. QED
      BY <1>1, <2>3, <2>4, <2>6, <2>8, Zenon DEF TimersInv
  <1>5. CASE ~Live(queue[1]) /\ queue' = Tail(queue) /\ UNCHANGED <<timers, iflags>>
    <2>1. TimersSound(timers, Tail(queue), now)
      <3>1. queue[1].generation # timers[queue[1].timer].generation
        BY <1>5 DEF Live
      <3>. QED
        BY <1>1, <3>1, SoundParts, DropSound
    <2>. QED
      BY <1>1, <1>5, <2>1, SoundParts DEF TimersInv
  <1>. QED
    BY <1>3, <1>4, <1>5 DEF handle_overflow

LEMMA TimersNext == TimersInv /\ [Next]_vars => TimersInv'
  <1>. SUFFICES ASSUME TimersInv, [Next]_vars PROVE TimersInv'
    OBVIOUS
  <1>1. CASE UNCHANGED vars
    BY <1>1, SoundParts DEF vars, TimersInv
  <1>. QED
    BY <1>1, InstructionInv, HaltedInv, OverflowInv DEF Next

THEOREM TimersInvariant == Spec => []TimersInv
  <1>. QED
    BY TimersInit, TimersNext, PTL DEF Spec

(* Every state of the timers and of their queue is of its type.            *)
THEOREM TimersTypeCorrect == Spec => []TypeOK
  <1>1. TimersInv => TypeOK
    <2>. SUFFICES ASSUME TimersInv PROVE TypeOK
      OBVIOUS
    <2>1. \A k \in 1 .. Len(queue) : queue[k] \in Event
      BY SoundParts
    <2>. QED
      BY <2>1, SoundParts, Zenon DEF TypeOK, Event
  <1>. QED
    BY <1>1, TimersInvariant, PTL

(* A free-running timer has exactly one event that its handler accepts, a  *)
(* stopped or counting one none: timer.rs's "any overflow event already    *)
(* queued under the old generation is ignored when it fires", which never  *)
(* costs the new one.                                                      *)
THEOREM OneOverflowIsLive == Spec => []OneLiveOverflow
  <1>1. TimersInv => OneLiveOverflow
    <2>. SUFFICES ASSUME TimersInv, NEW i \in TimerId
                  PROVE  IF FreeRunning(timers[i])
                         THEN \E k \in LiveEvents(i) : LiveEvents(i) = {k}
                         ELSE LiveEvents(i) = {}
      BY Zenon DEF OneLiveOverflow
    <2>1. /\ queue \in Seq(Event) /\ AcceptedOnTime(timers, queue)
          /\ AtMostOne(queue, Accepted(timers, i))
          /\ FreeRunning(timers[i]) => \E e \in Elements(queue) : e \in Accepted(timers, i)
      BY Zenon DEF TimersInv, TimersSound, OnePerTimer
    <2>2. \A k \in 1 .. Len(queue) : k \in LiveEvents(i) <=> queue[k] \in Accepted(timers, i)
      <3>1. \A k \in 1 .. Len(queue) : queue[k] \in Event
        BY <2>1
      <3>. QED
        BY <3>1 DEF LiveEvents, Live, Accepted
    <2>3. LiveEvents(i) \subseteq 1 .. Len(queue)
      BY DEF LiveEvents
    <2>4. CASE FreeRunning(timers[i])
      <3>1. PICK k \in 1 .. Len(queue) : queue[k] \in Accepted(timers, i)
        BY <2>1, <2>4 DEF Elements
      <3>2. LiveEvents(i) = {k}
        BY <2>1, <2>2, <2>3, <3>1 DEF AtMostOne
      <3>. QED
        BY <2>4, <3>2
    <2>5. CASE ~FreeRunning(timers[i])
      <3>1. ASSUME NEW k \in LiveEvents(i) PROVE FALSE
        <4>1. k \in 1 .. Len(queue) /\ queue[k].timer = i /\ Live(queue[k])
          BY DEF LiveEvents
        <4>2. queue[k] \in Elements(queue)
          BY <4>1 DEF Elements
        <4>. QED
          BY <2>1, <2>5, <4>1, <4>2 DEF AcceptedOnTime, Live
      <3>. QED
        BY <2>5, <3>1
    <2>. QED
      BY <2>4, <2>5
  <1>. QED
    BY <1>1, TimersInvariant, PTL

(* The live event is due when the derived count wraps, and no read before  *)
(* then sees it wrap.                                                      *)
THEOREM OverflowsAreOnTime == Spec => []OverflowOnTime
  <1>1. TimersInv => OverflowOnTime
    <2>. SUFFICES ASSUME TimersInv, NEW i \in TimerId, NEW k \in LiveEvents(i)
                  PROVE  /\ queue[k].at = OverflowAt(timers[i])
                         /\ now < queue[k].at
                              => LiveCounter(timers[i], now) >= timers[i].counter
      BY Zenon DEF OverflowOnTime
    <2>1. k \in 1 .. Len(queue) /\ queue[k].timer = i /\ Live(queue[k])
      BY DEF LiveEvents
    <2>2. queue[k] \in Elements(queue)
      BY <2>1 DEF Elements
    <2>3. FreeRunning(timers[i]) /\ queue[k].at = OverflowAt(timers[i])
      BY <2>1, <2>2 DEF TimersInv, TimersSound, AcceptedOnTime, Live
    <2>. QED
      BY <2>3, SoundParts, LiveCounterRange
  <1>. QED
    BY <1>1, TimersInvariant, PTL
-----------------------------------------------------------------------------
(* The generation of every timer but the rewritten one stays, and that one *)
(* starts from the count it had reached.                                   *)
LEMMA StoreKeepsCount ==
  ASSUME TimersInv, NEW i \in TimerId, NEW c \in Control, NEW at \in Nat, now <= at,
         NEW t \in Timer, t.lastSync = timers[i].lastSync,
         FreeRunning(t) <=> FreeRunning(timers[i]),
         LiveCounter(t, at) = LiveCounter(timers[i], at),
         StoreControl(i, t, c, at)
  PROVE  RewriteKeepsCount
  <1>. DEFINE u == Rewritten(t, i, c, at)
  <1>1. timers' = [timers EXCEPT ![i] = u]
    BY Zenon DEF StoreControl
  <1>2. t.lastSync <= at
    <2>1. /\ timers[i].lastSync <= now /\ timers[i].lastSync \in Nat /\ now \in Nat
      BY SoundParts, TimerFields
    <2>. QED
      BY <2>1
  <1>3. FreeRunning(t) => u.counter = LiveCounter(t, at) /\ u.lastSync = at
    BY <1>2, RewrittenType
  <1>. HIDE DEF u
  <1>4. timers'[i] = u /\ \A j \in TimerId \ {i} : timers'[j] = timers[j]
    BY <1>1, SoundParts
  <1>. SUFFICES ASSUME NEW j \in TimerId, FreeRunning(timers[j]),
                       timers[j].generation # timers'[j].generation
                PROVE  timers'[j].counter = LiveCounter(timers[j], timers'[j].lastSync)
    BY Zenon DEF RewriteKeepsCount
  <1>5. j = i
    BY <1>4
  <1>. QED
    BY <1>3, <1>4, <1>5, Zenon

(* Where no generation changes nothing was rewritten.                      *)
LEMMA NothingRewritten ==
  ASSUME \A i \in TimerId : timers'[i].generation = timers[i].generation
  PROVE  RewriteKeepsCount
  BY Zenon DEF RewriteKeepsCount

LEMMA NoneRequested ==
  ASSUME iflags' \subseteq iflags
  PROVE  StoppedStaysSilent
  BY DEF StoppedStaysSilent

LEMMA InstructionKeeps ==
  ASSUME TimersInv, Instruction
  PROVE  StoppedStaysSilent /\ RewriteKeepsCount
  <1>1. PICK f \in 1 .. MaxFetch :
          \/ UNCHANGED <<queue, timers, iflags>>
          \/ \E i \in TimerId :
               \/ \E v \in Count : write_reload(i, v)
               \/ \E c \in Control : write_control(i, c, now + f)
               \/ \E v \in Count, c \in Control : write_both(i, v, c, now + f)
               \/ acknowledge(i)
    BY Zenon DEF Instruction
  <1>2. now + f \in Nat /\ now <= now + f
    BY SoundParts
  <1>3. CASE UNCHANGED <<queue, timers, iflags>>
    BY <1>3, NothingRewritten, NoneRequested
  <1>4. ASSUME NEW i \in TimerId, NEW v \in Count, write_reload(i, v)
        PROVE  StoppedStaysSilent /\ RewriteKeepsCount
    <2>. DEFINE t == [timers[i] EXCEPT !.reload = v]
    <2>1. timers' = [timers EXCEPT ![i] = t] /\ iflags' = iflags
      BY <1>4, Zenon DEF write_reload
    <2>2. t.generation = timers[i].generation
      BY SoundParts, ReloadedType
    <2>. HIDE DEF t
    <2>3. timers'[i] = t /\ \A j \in TimerId \ {i} : timers'[j] = timers[j]
      BY <2>1, SoundParts
    <2>4. \A j \in TimerId : timers'[j].generation = timers[j].generation
      BY <2>2, <2>3
    <2>. QED
      BY <2>1, <2>4, NothingRewritten, NoneRequested
  <1>5. ASSUME NEW i \in TimerId, NEW c \in Control, write_control(i, c, now + f)
        PROVE  StoppedStaysSilent /\ RewriteKeepsCount
    <2>1. StoreControl(i, timers[i], c, now + f) /\ iflags' = iflags
      BY <1>5, Zenon DEF write_control
    <2>2. timers[i] \in Timer
      BY SoundParts
    <2>3. RewriteKeepsCount
      BY <1>2, <2>1, <2>2, StoreKeepsCount
    <2>. QED
      BY <2>1, <2>3, NoneRequested
  <1>6. ASSUME NEW i \in TimerId, NEW v \in Count, NEW c \in Control,
               write_both(i, v, c, now + f)
        PROVE  StoppedStaysSilent /\ RewriteKeepsCount
    <2>. DEFINE t == [timers[i] EXCEPT !.reload = v]
    <2>1. StoreControl(i, t, c, now + f) /\ iflags' = iflags
      BY <1>6, Zenon DEF write_both
    <2>2. timers[i] \in Timer
      BY SoundParts
    <2>3. /\ t \in Timer /\ t.lastSync = timers[i].lastSync
          /\ FreeRunning(t) <=> FreeRunning(timers[i])
          /\ \A n : LiveCounter(t, n) = LiveCounter(timers[i], n)
      BY <2>2, ReloadedType
    <2>. HIDE DEF t
    <2>4. RewriteKeepsCount
      BY <1>2, <2>1, <2>3, StoreKeepsCount
    <2>. QED
      BY <2>1, <2>4, NoneRequested
  <1>7. ASSUME NEW i \in TimerId, acknowledge(i)
        PROVE  StoppedStaysSilent /\ RewriteKeepsCount
    BY <1>7, NothingRewritten, NoneRequested DEF acknowledge
  <1>. QED
    BY <1>1, <1>3, <1>4, <1>5, <1>6, <1>7

LEMMA OverflowKeeps ==
  ASSUME TimersInv, handle_overflow
  PROVE  StoppedStaysSilent /\ RewriteKeepsCount
  <1>1. queue # <<>>
    BY DEF handle_overflow, HasDue
  <1>2. queue[1] \in Event /\ queue[1] \in Elements(queue)
    BY <1>1, SoundParts, PoppedElements
  <1>3. PICK i \in TimerId : i = queue[1].timer
    BY <1>2, EventFields
  <1>4. CASE Live(queue[1]) /\ Overflow(i)
    <2>1. queue[1].generation = timers[i].generation
      BY <1>3, <1>4 DEF Live
    <2>2. FreeRunning(timers[i])
      BY <1>2, <1>3, <2>1 DEF TimersInv, TimersSound, AcceptedOnTime
    <2>3. iflags' = iflags \cup {j \in Carried(timers, i) \cup {i} : timers[j].irq}
      BY <1>4, Zenon DEF Overflow
    <2>4. \A j \in Carried(timers, i) \cup {i} : timers[j].enabled
      <3>1. ASSUME NEW j \in Carried(timers, i) PROVE CountsUp(timers[j])
        <4>1. j \in TimerId /\ j > i /\ \A k \in i + 1 .. j : CountsUp(timers[k])
          BY DEF Carried
        <4>2. j \in i + 1 .. j
          BY <4>1 DEF TimerId
        <4>. QED
          BY <4>1, <4>2
      <3>. QED
        BY <2>2, <3>1 DEF FreeRunning, CountsUp
    <2>5. StoppedStaysSilent
      BY <2>3, <2>4 DEF StoppedStaysSilent
    <2>6. \A j \in TimerId : timers'[j].generation = timers[j].generation
      <3>. DEFINE t == [timers[i] EXCEPT !.counter = timers[i].reload, !.lastSync = now]
      <3>1. timers' = [j \in TimerId |->
              IF j = i THEN t
              ELSE IF j \in Carried(timers, i)
                   THEN [timers[j] EXCEPT !.counter = timers[j].reload]
              ELSE IF j \in Bumped(timers, i) THEN [timers[j] EXCEPT !.counter = @ + 1]
              ELSE timers[j]]
        BY <1>4, Zenon DEF Overflow
      <3>2. t.generation = timers[i].generation
        BY SoundParts DEF Timer
      <3>. HIDE DEF t
      <3>3. ASSUME NEW j \in TimerId PROVE timers'[j].generation = timers[j].generation
        <4>1. /\ [timers[j] EXCEPT !.counter = timers[j].reload].generation
                   = timers[j].generation
              /\ [timers[j] EXCEPT !.counter = @ + 1].generation = timers[j].generation
          BY SoundParts DEF Timer
        <4>. QED
          BY <3>1, <3>2, <4>1
      <3>. QED
        BY <3>3
    <2>. QED
      BY <2>5, <2>6, NothingRewritten
  <1>5. CASE UNCHANGED <<timers, iflags>>
    BY <1>5, NothingRewritten, NoneRequested
  <1>. QED
    BY <1>3, <1>4, <1>5 DEF handle_overflow
-----------------------------------------------------------------------------
(* A chain of timers as one number: c[n] is what the first n of the chain  *)
(* hold, and how many numbers they could hold.                             *)
IsChain(c, ts) ==
  c = [n \in TimerId |->
         IF n = 0 THEN [value |-> 0, size |-> 1]
         ELSE [value |-> c[n - 1].value + ts[n].counter * c[n - 1].size,
               size |-> c[n - 1].size * Wrap]]

LEMMA ChainExists ==
  ASSUME NEW ts \in [TimerId -> Timer]
  PROVE  \E c : IsChain(c, ts) /\ Chain(ts) = c[NTimers - 1]
  <1>. DEFINE S == [value : Nat, size : Nat]
              Above(n, x) == [value |-> x.value + ts[n].counter * x.size, size |-> x.size * Wrap]
              F == [n \in Nat |-> [x \in S |-> IF n + 1 \in TimerId THEN Above(n + 1, x) ELSE x]]
              zero == [value |-> 0, size |-> 1]
  <1>1. ASSUME NEW n \in TimerId, NEW x \in S PROVE Above(n, x) \in S
    <2>1. ts[n].counter \in Nat /\ Wrap \in Nat /\ x.value \in Nat /\ x.size \in Nat
      BY TimerFields, TimersAssumption
    <2>2. x.value + ts[n].counter * x.size \in Nat /\ x.size * Wrap \in Nat
      BY <2>1
    <2>. QED
      BY <2>2, Zenon
  <1>2. F \in [Nat -> [S -> S]]
    <2>. HIDE DEF Above, S
    <2>. QED
      BY <1>1
  <1>3. zero \in S
    OBVIOUS
  <1>4. \A n \in Nat, x \in S : F[n][x] = IF n + 1 \in TimerId THEN Above(n + 1, x) ELSE x
    <2>. HIDE DEF Above, S
    <2>. QED
      OBVIOUS
  <1>. HIDE DEF F, S
  <1>5. \E f : Iterated(f, S, F, zero)
    BY <1>2, <1>3, Iterates
  <1>6. PICK f : Iterated(f, S, F, zero)
    BY <1>5, Zenon
  <1>. DEFINE c == [n \in TimerId |-> f[n]]
  <1>7. ASSUME NEW n \in TimerId, n # 0 PROVE c[n] = Above(n, c[n - 1])
    <2>1. n - 1 \in Nat /\ n - 1 \in TimerId /\ n - 1 + 1 = n
      BY <1>7, TimersAssumption DEF TimerId
    <2>2. f[n - 1] \in S /\ f[n - 1 + 1] = F[n - 1][f[n - 1]]
      BY <1>6, <2>1, Zenon DEF Iterated
    <2>3. F[n - 1][f[n - 1]] = Above(n, f[n - 1])
      <3>. HIDE DEF Above
      <3>. QED
        BY <1>4, <2>1, <2>2
    <2>4. c[n] = f[n] /\ c[n - 1] = f[n - 1]
      BY <2>1
    <2>. HIDE DEF Above, c
    <2>. QED
      BY <2>1, <2>2, <2>3, <2>4
  <1>8. \A n \in TimerId : c[n] = IF n = 0 THEN zero ELSE Above(n, c[n - 1])
    <2>1. 0 \in TimerId => c[0] = zero
      <3>1. f[0] = zero
        BY <1>6, Zenon DEF Iterated
      <3>. QED
        BY <3>1
    <2>. HIDE DEF c, Above, zero
    <2>. QED
      BY <1>7, <2>1
  <1>9. c = [n \in TimerId |-> c[n]]
    OBVIOUS
  <1>10. IsChain(c, ts)
    <2>. HIDE DEF c
    <2>. QED
      BY <1>8, <1>9, Zenon DEF IsChain
  <1>11. Chain(ts) = (CHOOSE d : IsChain(d, ts))[NTimers - 1]
    BY DEF Chain, IsChain
  <1>. HIDE DEF c
  <1>. QED
    BY <1>10, <1>11, Zenon

LEMMA ChainParts ==
  ASSUME NEW ts, NEW c, IsChain(c, ts)
  PROVE  /\ c[0] = [value |-> 0, size |-> 1]
         /\ \A n \in TimerId \ {0} : /\ n - 1 \in TimerId
                                     /\ c[n].value = c[n - 1].value + ts[n].counter * c[n - 1].size
                                     /\ c[n].size = c[n - 1].size * Wrap
  <1>1. 0 \in TimerId /\ \A n \in TimerId \ {0} : n - 1 \in TimerId
    BY TimersAssumption DEF TimerId
  <1>2. \A n \in TimerId :
          c[n] = IF n = 0 THEN [value |-> 0, size |-> 1]
                 ELSE [value |-> c[n - 1].value + ts[n].counter * c[n - 1].size,
                       size |-> c[n - 1].size * Wrap]
    BY Zenon DEF IsChain
  <1>3. ASSUME NEW n \in TimerId \ {0}
        PROVE  /\ c[n].value = c[n - 1].value + ts[n].counter * c[n - 1].size
               /\ c[n].size = c[n - 1].size * Wrap
    <2>. DEFINE v == c[n - 1].value + ts[n].counter * c[n - 1].size
                z == c[n - 1].size * Wrap
    <2>1. c[n] = [value |-> v, size |-> z]
      BY <1>2, Zenon
    <2>. HIDE DEF v, z
    <2>2. c[n].value = v /\ c[n].size = z
      BY <2>1
    <2>. QED
      BY <2>2 DEF v, z
  <1>4. c[0] = [value |-> 0, size |-> 1]
    BY <1>1, <1>2, Zenon
  <1>. QED
    BY <1>1, <1>3, <1>4, Zenon

(* A digit above a number below z is a number below w times z.             *)
LEMMA DigitAbove ==
  ASSUME NEW w \in Nat, NEW z \in Nat, NEW v \in Nat, NEW d \in Nat, v < z, d < w
  PROVE  /\ d * z \in Nat /\ z * w \in Nat
         /\ v + d * z < z * w
         /\ d = w - 1 => z - 1 + d * z = z * w - 1
         /\ (d + 1) * z = d * z + z
  <1>1. (d + 1) * z = d * z + z
    OBVIOUS
  <1>2. (d + 1) * z <= w * z /\ d * z \in Nat
    BY Products
  <1>3. w * z = z * w /\ z * w \in Nat
    OBVIOUS
  <1>4. d = w - 1 => (d + 1) * z = z * w
    BY <1>3
  <1>. DEFINE a == d * z
              b == z * w
              e == (d + 1) * z
  <1>5. a \in Nat /\ b \in Nat /\ e = a + z /\ e <= b /\ (d = w - 1 => e = b)
    BY <1>1, <1>2, <1>3, <1>4
  <1>. HIDE DEF a, b, e
  <1>6. v + a < b /\ (d = w - 1 => z - 1 + a = b - 1)
    BY <1>5
  <1>. QED
    BY <1>5, <1>6 DEF a, b, e

LEMMA ChainRange ==
  ASSUME NEW ts \in [TimerId -> Timer], NEW c, IsChain(c, ts)
  PROVE  \A n \in TimerId : c[n].size \in Nat /\ c[n].value \in Nat /\ c[n].value < c[n].size
  <1>. DEFINE Good(n) == c[n].size \in Nat /\ c[n].value \in Nat /\ c[n].value < c[n].size
              T == {n \in TimerId : ~Good(n)}
  <1>. SUFFICES ASSUME T # {} PROVE FALSE
    OBVIOUS
  <1>1. T \in SUBSET Nat
    BY TimersAssumption DEF TimerId
  <1>2. PICK n \in T : \A m \in T : n <= m
    BY <1>1, LeastNat
  <1>3. Good(0)
    BY ChainParts
  <1>4. n \in TimerId \ {0} /\ ~Good(n)
    BY <1>2, <1>3
  <1>5. n - 1 \in TimerId /\ Good(n - 1)
    <2>1. n - 1 \in TimerId /\ n \in Nat
      BY <1>1, <1>2, <1>4, ChainParts
    <2>. HIDE DEF Good
    <2>. QED
      BY <1>2, <2>1
  <1>. DEFINE v == c[n - 1].value
              z == c[n - 1].size
              d == ts[n].counter
  <1>6. /\ v \in Nat /\ z \in Nat /\ v < z /\ d \in Nat /\ d < Wrap /\ Wrap \in Nat
    BY <1>4, <1>5, TimerFields, TimersAssumption DEF Count
  <1>7. c[n].value = v + d * z /\ c[n].size = z * Wrap
    BY <1>4, ChainParts
  <1>. HIDE DEF v, z, d
  <1>8. d * z \in Nat /\ z * Wrap \in Nat /\ v + d * z < z * Wrap
    BY <1>6, DigitAbove
  <1>9. v + d * z \in Nat
    BY <1>6, <1>8
  <1>. QED
    BY <1>4, <1>7, <1>8, <1>9

(* The timers of the chain up to n are full. *)
FullTo(ts, n) == \A k \in 1 .. n : ts[k].counter = Wrap - 1

(* us is the chain ts after a carry from below: the full timers at its     *)
(* beginning are empty, the next one has counted, the rest is as it was.   *)
CarriedUp(ts, us) ==
  \A n \in TimerId \ {0} :
    us[n].counter = IF FullTo(ts, n) THEN 0
                    ELSE IF FullTo(ts, n - 1) THEN ts[n].counter + 1
                    ELSE ts[n].counter

(* Up to where all are full the chain held its largest number and now      *)
(* holds zero; beyond, it holds one more than before.                      *)
LEMMA ChainAdds ==
  ASSUME NEW ts \in [TimerId -> Timer], NEW us \in [TimerId -> Timer], CarriedUp(ts, us),
         NEW c, IsChain(c, ts), NEW e, IsChain(e, us)
  PROVE  \A n \in TimerId :
           /\ e[n].size = c[n].size
           /\ IF FullTo(ts, n) THEN c[n].value = c[n].size - 1 /\ e[n].value = 0
              ELSE e[n].value = c[n].value + 1
  <1>. DEFINE Adds(n) ==
                /\ e[n].size = c[n].size
                /\ IF FullTo(ts, n) THEN c[n].value = c[n].size - 1 /\ e[n].value = 0
                   ELSE e[n].value = c[n].value + 1
              T == {n \in TimerId : ~Adds(n)}
  <1>. SUFFICES ASSUME T # {} PROVE FALSE
    OBVIOUS
  <1>1. T \in SUBSET Nat
    BY TimersAssumption DEF TimerId
  <1>2. PICK n \in T : \A m \in T : n <= m
    BY <1>1, LeastNat
  <1>3. Adds(0)
    <2>1. FullTo(ts, 0)
      BY DEF FullTo
    <2>. QED
      BY <2>1, ChainParts
  <1>4. n \in TimerId \ {0} /\ ~Adds(n) /\ n \in Nat
    BY <1>1, <1>2, <1>3
  <1>5. n - 1 \in TimerId /\ Adds(n - 1)
    <2>1. n - 1 \in TimerId
      BY <1>4, ChainParts
    <2>. HIDE DEF Adds
    <2>. QED
      BY <1>2, <1>4, <2>1
  <1>. DEFINE v == c[n - 1].value
              y == e[n - 1].value
              z == c[n - 1].size
              d == ts[n].counter
              x == us[n].counter
  <1>6. /\ v \in Nat /\ z \in Nat /\ v < z /\ y \in Nat
        /\ d \in Nat /\ d < Wrap /\ x \in Nat /\ Wrap \in Nat
    BY <1>4, <1>5, ChainRange, TimerFields, TimersAssumption DEF Count
  <1>7. /\ c[n].value = v + d * z /\ c[n].size = z * Wrap
        /\ e[n].value = y + x * e[n - 1].size /\ e[n].size = e[n - 1].size * Wrap
    BY <1>4, ChainParts
  <1>8. e[n - 1].size = z
    BY <1>5
  <1>9. IF FullTo(ts, n - 1) THEN v = z - 1 /\ y = 0 ELSE y = v + 1
    BY <1>5
  <1>10. x = IF FullTo(ts, n) THEN 0 ELSE IF FullTo(ts, n - 1) THEN d + 1 ELSE d
    BY <1>4, Zenon DEF CarriedUp
  <1>11. FullTo(ts, n) <=> FullTo(ts, n - 1) /\ d = Wrap - 1
    <2>1. \A k \in 1 .. n : k = n \/ k \in 1 .. n - 1
      BY <1>4
    <2>2. n \in 1 .. n /\ \A k \in 1 .. n - 1 : k \in 1 .. n
      BY <1>1, <1>2, <1>4
    <2>. QED
      BY <2>1, <2>2 DEF FullTo
  <1>12. ~Adds(n)
    BY <1>4
  <1>. HIDE DEF v, y, z, d, x
  <1>13. e[n].value = y + x * z /\ e[n].size = z * Wrap
    BY <1>7, <1>8
  <1>14. /\ d * z \in Nat /\ z * Wrap \in Nat
         /\ d = Wrap - 1 => z - 1 + d * z = z * Wrap - 1
         /\ (d + 1) * z = d * z + z
    BY <1>6, DigitAbove
  <1>15. CASE FullTo(ts, n)
    <2>1. x * z = 0 /\ y = 0 /\ v = z - 1 /\ d = Wrap - 1
      BY <1>6, <1>9, <1>10, <1>11, <1>15
    <2>2. e[n].value = 0
      BY <1>13, <2>1
    <2>3. c[n].value = c[n].size - 1
      BY <1>7, <1>14, <2>1
    <2>. QED
      BY <1>7, <1>12, <1>13, <1>15, <2>2, <2>3
  <1>16. CASE ~FullTo(ts, n) /\ FullTo(ts, n - 1)
    <2>1. x = d + 1 /\ y = 0 /\ v = z - 1
      BY <1>9, <1>10, <1>16
    <2>2. e[n].value = d * z + z
      BY <1>6, <1>13, <1>14, <2>1
    <2>3. e[n].value = c[n].value + 1
      BY <1>6, <1>7, <1>14, <2>1, <2>2
    <2>. QED
      BY <1>7, <1>12, <1>13, <1>16, <2>3
  <1>17. CASE ~FullTo(ts, n - 1)
    <2>1. ~FullTo(ts, n) /\ x = d /\ y = v + 1
      BY <1>9, <1>10, <1>11, <1>17
    <2>2. e[n].value = c[n].value + 1
      BY <1>6, <1>7, <1>13, <1>14, <2>1
    <2>. QED
      BY <1>7, <1>12, <1>13, <2>1, <2>2
  <1>. QED
    BY <1>15, <1>16, <1>17

(* An overflow of timer 0 is a carry into a chain that reloads to zero.    *)
LEMMA OverflowCarries ==
  ASSUME TimersInv, 0 \in TimerId, Overflow(0),
         \A j \in TimerId \ {0} : CountsUp(timers[j]) /\ timers[j].reload = 0
  PROVE  CarriedUp(timers, timers')
  <1>. DEFINE carried == Carried(timers, 0)
              bumped == Bumped(timers, 0)
              t == [timers[0] EXCEPT !.counter = timers[0].reload, !.lastSync = now]
  <1>1. timers' = [j \in TimerId |->
                     IF j = 0 THEN t
                     ELSE IF j \in carried THEN [timers[j] EXCEPT !.counter = timers[j].reload]
                     ELSE IF j \in bumped THEN [timers[j] EXCEPT !.counter = @ + 1]
                     ELSE timers[j]]
    BY Zenon DEF Overflow
  <1>2. ASSUME NEW n \in TimerId \ {0} PROVE n \in carried <=> FullTo(timers, n)
    <2>1. n \in Nat /\ n > 0 /\ n <= NTimers - 1 /\ NTimers \in Nat
      BY <1>2, TimersAssumption DEF TimerId
    <2>2. 0 + 1 = 1 /\ \A k \in 1 .. n : k \in TimerId \ {0}
      BY <2>1 DEF TimerId
    <2>3. n \in carried <=> \A k \in 1 .. n : CountsUp(timers[k]) /\ timers[k].counter = Wrap - 1
      BY <2>1, <2>2 DEF Carried
    <2>. HIDE DEF carried
    <2>. QED
      BY <2>2, <2>3 DEF FullTo
  <1>3. ASSUME NEW n \in TimerId \ {0}
        PROVE  n - 1 \in carried \cup {0} <=> FullTo(timers, n - 1)
    <2>1. n - 1 \in TimerId
      BY <1>3, TimersAssumption DEF TimerId
    <2>2. n - 1 = 0 => FullTo(timers, n - 1)
      BY DEF FullTo
    <2>. HIDE DEF carried
    <2>. QED
      BY <1>2, <2>1, <2>2
  <1>4. ASSUME NEW n \in TimerId \ {0}, ~FullTo(timers, n), FullTo(timers, n - 1)
        PROVE  timers[n].counter # Wrap - 1
    <2>1. \A k \in 1 .. n : k = n \/ k \in 1 .. n - 1
      BY <1>4 DEF TimerId
    <2>. QED
      BY <1>4, <2>1 DEF FullTo
  <1>5. ASSUME NEW n \in TimerId \ {0}, ~FullTo(timers, n)
        PROVE  n \in bumped <=> FullTo(timers, n - 1)
    <2>1. n \in bumped <=> n - 1 \in carried \cup {0} /\ timers[n].counter # Wrap - 1
      BY <1>5, Zenon DEF Bumped
    <2>. HIDE DEF carried, bumped
    <2>. QED
      BY <1>3, <1>4, <1>5, <2>1
  <1>. HIDE DEF carried, bumped, t
  <1>6. ASSUME NEW n \in TimerId \ {0}
        PROVE  timers'[n].counter = IF FullTo(timers, n) THEN 0
                                    ELSE IF FullTo(timers, n - 1) THEN timers[n].counter + 1
                                    ELSE timers[n].counter
    <2>. DEFINE a == timers[n]
    <2>1. a \in Timer /\ a.reload = 0
      BY SoundParts
    <2>2. [a EXCEPT !.counter = a.reload].counter = 0
          /\ [a EXCEPT !.counter = a.counter + 1].counter = a.counter + 1
      BY <2>1 DEF Timer
    <2>3. timers'[n] = IF n \in carried THEN [a EXCEPT !.counter = a.reload]
                       ELSE IF n \in bumped THEN [a EXCEPT !.counter = a.counter + 1] ELSE a
      BY <1>1
    <2>. HIDE DEF a
    <2>4. CASE FullTo(timers, n)
      BY <1>2, <2>2, <2>3, <2>4
    <2>5. CASE ~FullTo(timers, n) /\ FullTo(timers, n - 1)
      BY <1>2, <1>5, <2>2, <2>3, <2>5 DEF a
    <2>6. CASE ~FullTo(timers, n) /\ ~FullTo(timers, n - 1)
      BY <1>2, <1>5, <2>3, <2>6 DEF a
    <2>. QED
      BY <2>4, <2>5, <2>6
  <1>. QED
    BY <1>6, Zenon DEF CarriedUp

(* An instruction moves the sync of a timer with its generation or not at  *)
(* all.                                                                    *)
LEMMA InstructionSyncs ==
  ASSUME TimersInv, Instruction, NEW k \in TimerId
  PROVE  \/ timers'[k].lastSync = timers[k].lastSync
         \/ timers'[k].generation # timers[k].generation
  <1>1. PICK f \in 1 .. MaxFetch :
          \/ UNCHANGED <<queue, timers, iflags>>
          \/ \E i \in TimerId :
               \/ \E v \in Count : write_reload(i, v)
               \/ \E c \in Control : write_control(i, c, now + f)
               \/ \E v \in Count, c \in Control : write_both(i, v, c, now + f)
               \/ acknowledge(i)
    BY Zenon DEF Instruction
  <1>2. now + f \in Nat /\ now <= now + f
    BY SoundParts
  <1>. DEFINE Set(i, v) == [timers[i] EXCEPT !.reload = v]
  <1>3. \A i \in TimerId, v \in Count :
          Set(i, v) \in Timer /\ Set(i, v).generation = timers[i].generation
          /\ Set(i, v).lastSync = timers[i].lastSync
    BY SoundParts, ReloadedType
  <1>. HIDE DEF Set
  <1>4. ASSUME NEW i \in TimerId, NEW c \in Control, NEW t \in Timer,
               t.generation = timers[i].generation, t.lastSync = timers[i].lastSync,
               StoreControl(i, t, c, now + f)
        PROVE  \/ timers'[k].lastSync = timers[k].lastSync
               \/ timers'[k].generation # timers[k].generation
    <2>. DEFINE u == Rewritten(t, i, c, now + f)
    <2>1. timers' = [timers EXCEPT ![i] = u]
      BY <1>4, Zenon DEF StoreControl
    <2>2. t.lastSync <= now + f
      <3>1. timers[i].lastSync <= now /\ timers[i].lastSync \in Nat /\ now \in Nat
        BY SoundParts, TimerFields
      <3>. QED
        BY <1>2, <1>4, <3>1
    <2>3. u.generation = (t.generation + 1) % GenMod
      BY <1>2, <2>2, RewrittenType
    <2>4. t.generation \in 0 .. GenMod - 1 /\ GenMod \in Nat /\ GenMod > 1
      <3>1. /\ t.generation \in 0 .. GenMod - 1 /\ t.shift \in Shifts
            /\ GenMod \in Nat /\ Wrap \in Nat /\ Wrap >= 1
        BY TimerFields, TimersAssumption
      <3>2. 2 ^ t.shift \in 1 .. GenMod - 1
        BY <3>1, TimersAssumption
      <3>. QED
        BY <3>1, <3>2
    <2>5. u.generation # t.generation
      <3>. HIDE DEF u
      <3>1. CASE t.generation + 1 < GenMod
        BY <2>3, <2>4, <3>1
      <3>2. CASE t.generation + 1 = GenMod
        BY <2>3, <2>4, <3>2
      <3>. QED
        BY <2>4, <3>1, <3>2
    <2>. HIDE DEF u
    <2>6. k = i => timers'[k] = u
      BY <2>1, SoundParts
    <2>7. k # i => timers'[k] = timers[k]
      BY <2>1, SoundParts
    <2>. QED
      BY <1>4, <2>5, <2>6, <2>7
  <1>5. ASSUME NEW i \in TimerId, NEW v \in Count, write_reload(i, v)
        PROVE  timers'[k].lastSync = timers[k].lastSync
    <2>1. timers' = [timers EXCEPT ![i] = Set(i, v)]
      BY <1>5, Zenon DEF write_reload, Set
    <2>. QED
      BY <1>3, <2>1, SoundParts
  <1>6. ASSUME NEW i \in TimerId, NEW c \in Control, write_control(i, c, now + f)
        PROVE  \/ timers'[k].lastSync = timers[k].lastSync
               \/ timers'[k].generation # timers[k].generation
    <2>1. StoreControl(i, timers[i], c, now + f) /\ timers[i] \in Timer
      BY <1>6, SoundParts, Zenon DEF write_control
    <2>. QED
      BY <1>4, <2>1
  <1>7. ASSUME NEW i \in TimerId, NEW v \in Count, NEW c \in Control,
               write_both(i, v, c, now + f)
        PROVE  \/ timers'[k].lastSync = timers[k].lastSync
               \/ timers'[k].generation # timers[k].generation
    <2>1. StoreControl(i, Set(i, v), c, now + f)
      BY <1>7, Zenon DEF write_both, Set
    <2>. QED
      BY <1>3, <1>4, <2>1
  <1>. QED
    BY <1>1, <1>5, <1>6, <1>7 DEF acknowledge

LEMMA ChainStep ==
  ASSUME TimersInv, Next
  PROVE  ChainCounts
  <1>. SUFFICES ASSUME queue # <<>>, queue[1].timer = 0,
                       timers[0].lastSync # timers'[0].lastSync,
                       timers[0].generation = timers'[0].generation,
                       \A j \in TimerId \ {0} : CountsUp(timers[j]) /\ timers[j].reload = 0
                PROVE  Chain(timers').value = (Chain(timers).value + 1) % Chain(timers).size
    BY Zenon DEF ChainCounts
  <1>1. 0 \in TimerId /\ NTimers - 1 \in TimerId
    BY TimersAssumption DEF TimerId
  <1>2. timers \in [TimerId -> Timer] /\ timers' \in [TimerId -> Timer]
    <2>1. TimersInv'
      BY TimersNext
    <2>. QED
      BY <2>1, SoundParts, Zenon DEF TimersInv, TimersSound
  <1>3. Overflow(0)
    <2>1. timers' # timers
      OBVIOUS
    <2>2. ~Instruction
      BY <1>1, InstructionSyncs
    <2>3. handle_overflow
      BY <2>1, <2>2 DEF Next, Halted
    <2>. QED
      BY <2>1, <2>3, Zenon DEF handle_overflow
  <1>4. CarriedUp(timers, timers')
    BY <1>1, <1>3, OverflowCarries
  <1>5. PICK c : IsChain(c, timers) /\ Chain(timers) = c[NTimers - 1]
    BY <1>2, ChainExists
  <1>6. PICK e : IsChain(e, timers') /\ Chain(timers') = e[NTimers - 1]
    BY <1>2, ChainExists
  <1>7. /\ c[NTimers - 1].size \in Nat /\ c[NTimers - 1].value \in Nat
        /\ c[NTimers - 1].value < c[NTimers - 1].size
        /\ e[NTimers - 1].value \in Nat /\ e[NTimers - 1].value < e[NTimers - 1].size
    BY <1>1, <1>2, <1>5, <1>6, ChainRange
  <1>8. /\ e[NTimers - 1].size = c[NTimers - 1].size
        /\ \/ /\ c[NTimers - 1].value = c[NTimers - 1].size - 1
              /\ e[NTimers - 1].value = 0
           \/ e[NTimers - 1].value = c[NTimers - 1].value + 1
    BY <1>1, <1>2, <1>4, <1>5, <1>6, ChainAdds
  <1>. DEFINE v == c[NTimers - 1].value
              y == e[NTimers - 1].value
              z == c[NTimers - 1].size
  <1>9. /\ v \in Nat /\ y \in Nat /\ z \in Nat /\ v < z /\ y < z
        /\ (v = z - 1 /\ y = 0) \/ y = v + 1
    BY <1>7, <1>8
  <1>. HIDE DEF v, y, z
  <1>10. y = (v + 1) % z
    BY <1>9
  <1>. QED
    BY <1>5, <1>6, <1>10 DEF v, y, z
-----------------------------------------------------------------------------
(* A rewrite never changes the count a running timer had reached (timer.rs:*)
(* "freeze the live count before changing timing parameters"); a timer     *)
(* that is stopped raises no interrupt, although its old event is popped   *)
(* later; and a chain of count-up timers above timer 0 counts its          *)
(* overflows like one wide counter (cascade_from).                         *)
THEOREM StepsAreRight == Spec => TimersStepRight
  <1>1. ASSUME TimersInv, Next PROVE StoppedStaysSilent /\ RewriteKeepsCount
    <2>1. CASE Halted
      BY <2>1, NothingRewritten, NoneRequested DEF Halted
    <2>. QED
      BY <1>1, <2>1, InstructionKeeps, OverflowKeeps DEF Next
  <1>2. TimersInv /\ [Next]_vars => [StoppedStaysSilent /\ RewriteKeepsCount /\ ChainCounts]_vars
    BY <1>1, ChainStep
  <1>. QED
    BY <1>2, TimersInvariant, PTL DEF Spec, TimersStepRight

-----------------------------------------------------------------------------
(* A DMA channel and the job it is on (crates/gba/src/dma.rs).             *)

(* The channel's state, and what the job of it has done: the transfers that*)
(* were due, from the place it started at.                                 *)
JobPlace == [source : Int, dest : Int, count : Nat]

JobChannels ==
  [line : 0 .. DmaLines - 1, hblank : BOOLEAN, irqs : SUBSET {"HBlank", "VBlank", "Dma"},
   id : {0, 3}, reg : Dma!Registers, control : Dma!Controls, internal : JobPlace,
   enabled : BOOLEAN, pending : BOOLEAN, start : JobPlace, runs : Nat, moved : Int, due : Nat]

AtItsPlace(d) ==
  /\ d.internal.source = d.start.source + d.control.from * d.moved
  /\ d.internal.dest = d.start.dest + (IF d.control.reloads THEN 0 ELSE d.control.to * d.moved)

(* A channel on which one transfer is due, or none.                        *)
Owes(d, n) ==
  /\ d \in JobChannels
  /\ d.enabled = d.control.enable
  /\ d.due = d.runs + n
  /\ d.enabled /\ ~Dma!Repeats(d) => d.runs = 0
  /\ d.enabled => AtItsPlace(d)

DmaInv == Owes(dev, 0) /\ ~dev.pending

LEMMA PlacesAre == Dma!Registers \subseteq JobPlace
  <1>. SUFFICES ASSUME NEW a \in DmaStarts, NEW n \in DmaCounts
                PROVE  [source |-> a, dest |-> a, count |-> n] \in JobPlace
    BY DEF Dma!Registers
  <1>1. a \in Int /\ n \in Nat
    BY GbaAssumption
  <1>. QED
    BY <1>1 DEF JobPlace

LEMMA ChannelRuns ==
  ASSUME NEW d, Owes(d, 1), d.enabled
  PROVE  /\ Owes(Dma!RunChannel(d), 0)
         /\ Dma!RunChannel(d).pending = d.pending
         /\ Dma!RunChannel(d).line = d.line
         /\ Dma!RunChannel(d).control.timing = d.control.timing
  <1>. DEFINE n == d.internal.count
              c == d.control
              again == Dma!Repeats(d)
              source == d.internal.source + c.from * n
              dest == IF again /\ c.reloads THEN d.reg.dest ELSE d.internal.dest + c.to * n
              count == IF again THEN d.reg.count ELSE n
              base == IF again /\ c.reloads THEN d.reg.dest ELSE d.start.dest
              e == Dma!RunChannel(d)
              cc == [enable |-> c.enable /\ again, timing |-> c.timing, repeat |-> c.repeat,
                     from |-> c.from, to |-> c.to, reloads |-> c.reloads]
              start == [source |-> d.start.source, dest |-> base, count |-> d.start.count]
              internal == [source |-> source, dest |-> dest, count |-> count]
  <1>0. /\ d \in JobChannels /\ d.reg \in JobPlace /\ d.internal \in JobPlace /\ d.start \in JobPlace
        /\ c \in Dma!Controls /\ c.from \in {1, -1} /\ c.to \in {1, -1} /\ d.moved \in Int
        /\ d.runs \in Nat
    BY PlacesAre DEF Owes, JobChannels, Dma!Controls, Dma!Steps
  <1>1. /\ n \in Nat /\ source \in Int /\ dest \in Int /\ count \in Nat /\ base \in Int
        /\ again \in BOOLEAN
    BY <1>0 DEF JobPlace, Dma!Repeats, Dma!Controls
  <1>2. cc \in Dma!Controls /\ start \in JobPlace /\ internal \in JobPlace
    <2>1. c.enable \in BOOLEAN /\ again \in BOOLEAN /\ d.start.source \in Int /\ d.start.count \in Nat
      BY <1>0, <1>1 DEF JobPlace, Dma!Controls
    <2>2. (c.enable /\ again) \in BOOLEAN
      BY <2>1
    <2>. HIDE DEF again, source, dest, count, base
    <2>. QED
      BY <1>0, <1>1, <2>1 DEF JobPlace, Dma!Controls
  <1>3. e = [line |-> d.line, hblank |-> d.hblank, irqs |-> d.irqs \cup {"Dma"}, id |-> d.id,
             reg |-> d.reg, control |-> cc, internal |-> internal, enabled |-> again,
             pending |-> d.pending, start |-> start, runs |-> d.runs + 1, moved |-> d.moved + n,
             due |-> d.due]
    <2>. HIDE DEF again
    <2>1. [c EXCEPT !.enable = c.enable /\ again] = cc
      BY <1>0 DEF Dma!Controls
    <2>2. [d.start EXCEPT !.dest = base] = start
      BY <1>0 DEF JobPlace
    <2>3. e = [d EXCEPT !.runs = d.runs + 1, !.moved = d.moved + n, !.internal = internal,
                        !.start = [d.start EXCEPT !.dest = base], !.enabled = again,
                        !.control = [c EXCEPT !.enable = c.enable /\ again],
                        !.irqs = d.irqs \cup {"Dma"}]
      BY <1>0 DEF Dma!RunChannel, JobChannels, again
    <2>4. e = [d EXCEPT !.runs = d.runs + 1, !.moved = d.moved + n, !.internal = internal,
                        !.start = start, !.enabled = again, !.control = cc,
                        !.irqs = d.irqs \cup {"Dma"}]
      BY <2>1, <2>2, <2>3, Zenon
    <2>. HIDE DEF cc, start, internal, n, e
    <2>. QED
      BY <1>0, <2>4 DEF JobChannels
  <1>. HIDE DEF e
  <1>4. c.from * (d.moved + n) = c.from * d.moved + c.from * n
    BY <1>0, <1>1
  <1>5. c.to * (d.moved + n) = c.to * d.moved + c.to * n
    BY <1>0, <1>1
  <1>6. /\ d.internal.source = d.start.source + c.from * d.moved
        /\ d.internal.dest = d.start.dest + (IF c.reloads THEN 0 ELSE c.to * d.moved)
        /\ d.due = d.runs + 1 /\ c.enable /\ (~again => d.runs = 0)
    BY DEF Owes, AtItsPlace
  <1>7. /\ e.control = cc /\ e.enabled = again /\ e.internal = internal /\ e.start = start
        /\ e.moved = d.moved + n /\ e.runs = d.runs + 1 /\ e.due = d.due
        /\ e.pending = d.pending /\ e.line = d.line
    BY <1>3
  <1>8. e \in JobChannels
    <2>. HIDE DEF again, source, dest, count, base, cc, start, internal, n
    <2>1. d.irqs \cup {"Dma"} \in SUBSET {"HBlank", "VBlank", "Dma"}
      BY <1>0 DEF JobChannels
    <2>2. d.moved + n \in Int /\ d.runs + 1 \in Nat
      BY <1>0, <1>1
    <2>. QED
      BY <1>0, <1>1, <1>2, <1>3, <2>1, <2>2 DEF JobChannels
  <1>9. Dma!Repeats(e) = again
    BY <1>7 DEF Dma!Repeats
  <1>10. again => AtItsPlace(e)
    <2>. SUFFICES ASSUME again PROVE AtItsPlace(e)
      OBVIOUS
    <2>1. source = d.start.source + c.from * (d.moved + n)
      BY <1>0, <1>1, <1>4, <1>6 DEF JobPlace
    <2>2. dest = base + (IF c.reloads THEN 0 ELSE c.to * (d.moved + n))
      BY <1>0, <1>1, <1>5, <1>6 DEF JobPlace
    <2>. HIDE DEF again, source, dest, count, base, n
    <2>. QED
      BY <1>7, <2>1, <2>2 DEF AtItsPlace
  <1>11. e.enabled = e.control.enable
    <2>. HIDE DEF again
    <2>. QED
      BY <1>1, <1>6, <1>7
  <1>12. e.due = e.runs + 0
    BY <1>6, <1>7, <1>0
  <1>13. e.control.timing = c.timing
    BY <1>7
  <1>14. e.enabled /\ ~Dma!Repeats(e) => e.runs = 0
    BY <1>7, <1>9
  <1>15. Owes(e, 0)
    BY <1>7, <1>8, <1>9, <1>10, <1>11, <1>12, <1>14 DEF Owes
  <1>. QED
    BY <1>7, <1>13, <1>15 DEF e

(* A step of the display, which may make a transfer due, and the transfers *)
(* it makes.                                                               *)
LEMMA ChannelTriggered ==
  ASSUME NEW d, NEW timing, d.enabled /\ d.control.timing = timing => Owes(d, 1),
         ~(d.enabled /\ d.control.timing = timing) => Owes(d, 0)
  PROVE  /\ Owes(Dma!Trigger(d, timing), 0)
         /\ Dma!Trigger(d, timing).pending = d.pending
         /\ Dma!Trigger(d, timing).line = d.line
         /\ Dma!Trigger(d, timing).control.timing = d.control.timing
  <1>1. CASE d.enabled /\ d.control.timing = timing
    <2>1. Dma!Trigger(d, timing) = Dma!RunChannel(d)
      BY <1>1 DEF Dma!Trigger
    <2>. QED
      BY <1>1, <2>1, ChannelRuns, Zenon
  <1>2. CASE ~(d.enabled /\ d.control.timing = timing)
    <2>1. Dma!Trigger(d, timing) = d
      BY <1>2 DEF Dma!Trigger
    <2>. QED
      BY <1>2, <2>1, Zenon
  <1>. QED
    BY <1>1, <1>2

LEMMA CaptureTriggered ==
  ASSUME NEW d,
         LET due == /\ d.id = 3 /\ d.enabled /\ d.control.timing = "Special"
                    /\ d.line \in 2 .. DmaBlank + 1
         IN  (due => Owes(d, 1)) /\ (~due => Owes(d, 0))
  PROVE  Owes(Dma!VideoCapture(d), 0) /\ Dma!VideoCapture(d).pending = d.pending
  <1>. DEFINE on == d.id = 3 /\ d.enabled /\ d.control.timing = "Special"
              e == [d EXCEPT !.enabled = FALSE, !.control.enable = FALSE]
  <1>1. CASE on /\ d.line = DmaBlank + 2
    <2>1. Dma!VideoCapture(d) = e
      BY <1>1 DEF Dma!VideoCapture
    <2>2. Owes(d, 0)
      BY <1>1, GbaAssumption
    <2>3. /\ d \in JobChannels /\ d.control \in Dma!Controls
          /\ [d.control EXCEPT !.enable = FALSE] \in Dma!Controls
      BY <2>2 DEF Owes, JobChannels, Dma!Controls
    <2>4. /\ e \in JobChannels /\ e.enabled = FALSE /\ e.control.enable = FALSE
          /\ e.due = d.due /\ e.runs = d.runs /\ e.pending = d.pending
      <3>1. e = [d EXCEPT !.enabled = FALSE, !.control = [d.control EXCEPT !.enable = FALSE]]
        BY <2>3 DEF JobChannels
      <3>. QED
        BY <2>3, <3>1 DEF JobChannels, Dma!Controls
    <2>5. Owes(e, 0)
      BY <2>2, <2>4 DEF Owes
    <2>. QED
      BY <2>1, <2>4, <2>5
  <1>2. CASE on /\ d.line # DmaBlank + 2 /\ d.line \in 2 .. DmaBlank + 1
    <2>1. Dma!VideoCapture(d) = Dma!RunChannel(d)
      BY <1>2 DEF Dma!VideoCapture
    <2>2. Owes(d, 1) /\ d.enabled
      BY <1>2
    <2>. QED
      BY <2>1, <2>2, ChannelRuns, Zenon
  <1>3. CASE ~on \/ (d.line # DmaBlank + 2 /\ ~(d.line \in 2 .. DmaBlank + 1))
    <2>1. Dma!VideoCapture(d) = d
      BY <1>3 DEF Dma!VideoCapture
    <2>2. Owes(d, 0)
      BY <1>3
    <2>. QED
      BY <2>1, <2>2
  <1>. QED
    BY <1>1, <1>2, <1>3

(* What a step changes of the display alone is nothing to the job.         *)
LEMMA DisplayStep ==
  ASSUME NEW d, NEW n \in {0, 1}, Owes(d, n), NEW line \in 0 .. DmaLines - 1,
         NEW hblank \in BOOLEAN, NEW irqs \in SUBSET {"HBlank", "VBlank", "Dma"}
  PROVE  Owes([d EXCEPT !.line = line, !.hblank = hblank, !.irqs = irqs], n)
  <1>. DEFINE e == [d EXCEPT !.line = line, !.hblank = hblank, !.irqs = irqs]
  <1>1. /\ e \in JobChannels /\ e.enabled = d.enabled /\ e.control = d.control
        /\ e.due = d.due /\ e.runs = d.runs /\ e.internal = d.internal /\ e.start = d.start
        /\ e.moved = d.moved
    BY DEF Owes, JobChannels
  <1>2. Dma!Repeats(e) = Dma!Repeats(d) /\ (AtItsPlace(d) <=> AtItsPlace(e))
    BY <1>1 DEF Dma!Repeats, AtItsPlace
  <1>. QED
    BY <1>1, <1>2 DEF Owes

(* What a step of the display makes due.                                   *)
Due(d, line, hblank) ==
  /\ d.enabled
  /\ \/ d.control.timing = "HBlank" /\ hblank /\ line < DmaBlank
     \/ d.control.timing = "VBlank" /\ ~hblank /\ line = DmaBlank
     \/ d.control.timing = "Special" /\ d.id = 3 /\ hblank /\ line \in 2 .. DmaBlank + 1

LEMMA TransferWanted ==
  ASSUME NEW d, Owes(d, 0), NEW line, NEW hblank, NEW w, w = Dma!Wanted(d, line, hblank)
  PROVE  /\ w \in JobChannels
         /\ Due(d, line, hblank) => Owes(w, 1)
         /\ ~Due(d, line, hblank) => Owes(w, 0)
         /\ w.enabled = d.enabled /\ w.control = d.control /\ w.id = d.id
         /\ w.pending = d.pending /\ w.line = d.line
  <1>1. CASE Due(d, line, hblank)
    <2>1. w = [d EXCEPT !.due = d.due + 1]
      BY <1>1 DEF Dma!Wanted, Due
    <2>2. /\ w \in JobChannels /\ w.enabled = d.enabled /\ w.control = d.control /\ w.id = d.id
          /\ w.pending = d.pending /\ w.line = d.line /\ w.due = d.due + 1 /\ w.runs = d.runs
          /\ w.internal = d.internal /\ w.start = d.start /\ w.moved = d.moved
      BY <2>1 DEF Owes, JobChannels
    <2>3. Owes(w, 1)
      <3>1. Dma!Repeats(w) = Dma!Repeats(d) /\ (AtItsPlace(d) <=> AtItsPlace(w))
        BY <2>2 DEF Dma!Repeats, AtItsPlace
      <3>2. d.due = d.runs
        BY DEF Owes, JobChannels
      <3>. QED
        BY <2>2, <3>1, <3>2 DEF Owes
    <2>. QED
      BY <1>1, <2>2, <2>3
  <1>2. CASE ~Due(d, line, hblank)
    <2>1. w = d
      BY <1>2 DEF Dma!Wanted, Due
    <2>. QED
      BY <1>2, <2>1 DEF Owes
  <1>. QED
    BY <1>1, <1>2

LEMMA HBlankStep == DmaInv /\ Dma!HBlank => DmaInv'
  <1>. SUFFICES ASSUME DmaInv, Dma!HBlank PROVE DmaInv'
    OBVIOUS
  <1>. DEFINE z == [dev EXCEPT !.irqs = {}]
              w == Dma!Wanted(z, dev.line, TRUE)
              h == Dma!Raise([w EXCEPT !.hblank = TRUE], "HBlank")
              k == IF h.line < DmaBlank THEN Dma!Trigger(h, "HBlank") ELSE h
  <1>1. dev' = Dma!VideoCapture(k)
    BY DEF Dma!HBlank, Dma!HBlanked
  <1>2. Owes(z, 0) /\ z.line = dev.line /\ z.pending = FALSE
    <2>1. Owes(dev, 0) /\ dev \in JobChannels /\ dev.pending = FALSE
      BY DEF DmaInv, Owes, JobChannels
    <2>2. z = [dev EXCEPT !.line = dev.line, !.hblank = dev.hblank, !.irqs = {}]
      BY <2>1 DEF JobChannels
    <2>3. dev.line \in 0 .. DmaLines - 1 /\ dev.hblank \in BOOLEAN
      BY <2>1 DEF JobChannels
    <2>4. Owes([dev EXCEPT !.line = dev.line, !.hblank = dev.hblank, !.irqs = {}], 0)
      BY <2>1, <2>3, DisplayStep
    <2>. QED
      BY <2>1, <2>2, <2>4 DEF JobChannels
  <1>. DEFINE lines == z.enabled /\ z.control.timing = "HBlank" /\ z.line < DmaBlank
              capture == /\ z.enabled /\ z.control.timing = "Special" /\ z.id = 3
                         /\ z.line \in 2 .. DmaBlank + 1
  <1>. HIDE DEF z
  <1>3. /\ w \in JobChannels /\ w.enabled = z.enabled /\ w.control = z.control /\ w.id = z.id
        /\ w.pending = FALSE /\ w.line = z.line
        /\ lines \/ capture => Owes(w, 1)
        /\ ~lines /\ ~capture => Owes(w, 0)
    <2>1. /\ w \in JobChannels /\ w.enabled = z.enabled /\ w.control = z.control /\ w.id = z.id
          /\ w.pending = z.pending /\ w.line = z.line
          /\ Due(z, dev.line, TRUE) => Owes(w, 1)
          /\ ~Due(z, dev.line, TRUE) => Owes(w, 0)
      <3>1. PICK h0 \in BOOLEAN : h0 = TRUE
        OBVIOUS
      <3>2. w = Dma!Wanted(z, dev.line, h0)
        BY <3>1 DEF Dma!Wanted
      <3>3. Due(z, dev.line, h0) <=> Due(z, dev.line, TRUE)
        BY <3>1 DEF Due
      <3>. HIDE DEF w
      <3>4. Owes(z, 0)
        BY <1>2
      <3>5. /\ w \in JobChannels /\ w.enabled = z.enabled /\ w.control = z.control /\ w.id = z.id
            /\ w.pending = z.pending /\ w.line = z.line
            /\ Due(z, dev.line, h0) => Owes(w, 1)
            /\ ~Due(z, dev.line, h0) => Owes(w, 0)
        BY <3>2, <3>4, TransferWanted
      <3>. QED
        BY <3>3, <3>5, Zenon
    <2>2. Due(z, dev.line, TRUE) <=> lines \/ capture
      BY <1>2 DEF Due
    <2>. QED
      BY <1>2, <2>1, <2>2, Zenon
  <1>. HIDE DEF w
  <1>4. h = [w EXCEPT !.line = w.line, !.hblank = TRUE, !.irqs = w.irqs \cup {"HBlank"}]
    BY <1>3 DEF JobChannels, Dma!Raise
  <1>5. /\ h.enabled = z.enabled /\ h.control = z.control /\ h.id = z.id
        /\ h.pending = FALSE /\ h.line = z.line
    BY <1>3, <1>4 DEF JobChannels
  <1>6. ASSUME NEW n \in {0, 1}, Owes(w, n) PROVE Owes(h, n)
    <2>1. /\ w.line \in 0 .. DmaLines - 1
          /\ w.irqs \cup {"HBlank"} \in SUBSET {"HBlank", "VBlank", "Dma"}
      BY <1>3 DEF JobChannels
    <2>2. TRUE \in BOOLEAN
      OBVIOUS
    <2>3. Owes([w EXCEPT !.line = w.line, !.hblank = TRUE, !.irqs = w.irqs \cup {"HBlank"}], n)
      BY <1>6, <2>1, <2>2, DisplayStep, Zenon
    <2>. QED
      BY <1>4, <2>3, Zenon
  <1>. HIDE DEF h
  <1>7. CASE lines
    <2>1. Owes(h, 1) /\ k = Dma!Trigger(h, "HBlank") /\ h.enabled
      BY <1>3, <1>5, <1>6, <1>7
    <2>2. Owes(k, 0) /\ k.pending = FALSE /\ k.control.timing = "HBlank"
      BY <1>5, <1>7, <2>1, ChannelTriggered
    <2>. HIDE DEF k
    <2>3. Dma!VideoCapture(k) = k
      BY <2>2 DEF Dma!VideoCapture
    <2>. QED
      BY <1>1, <2>2, <2>3 DEF DmaInv
  <1>8. CASE ~lines
    <2>1. k = h
      BY <1>5, <1>8 DEF Dma!Trigger
    <2>2. IF capture THEN Owes(h, 1) ELSE Owes(h, 0)
      BY <1>3, <1>6, <1>8
    <2>3. Owes(Dma!VideoCapture(h), 0) /\ Dma!VideoCapture(h).pending = h.pending
      BY <1>5, <2>2, CaptureTriggered
    <2>. QED
      BY <1>1, <1>5, <2>1, <2>3 DEF DmaInv
  <1>. QED
    BY <1>7, <1>8

LEMMA LineStartStep == DmaInv /\ Dma!LineStart => DmaInv'
  <1>. SUFFICES ASSUME DmaInv, Dma!LineStart PROVE DmaInv'
    OBVIOUS
  <1>. DEFINE z == [dev EXCEPT !.irqs = {}]
              l == (dev.line + 1) % DmaLines
              w == Dma!Wanted(z, l, FALSE)
              s == [w EXCEPT !.line = l, !.hblank = FALSE]
              r == Dma!Raise(s, "VBlank")
  <1>2. Owes(z, 0) /\ z.line = dev.line /\ z.pending = FALSE
    <2>1. Owes(dev, 0) /\ dev \in JobChannels /\ dev.pending = FALSE
      BY DEF DmaInv, Owes, JobChannels
    <2>2. z = [dev EXCEPT !.line = dev.line, !.hblank = dev.hblank, !.irqs = {}]
      BY <2>1 DEF JobChannels
    <2>3. dev.line \in 0 .. DmaLines - 1 /\ dev.hblank \in BOOLEAN
      BY <2>1 DEF JobChannels
    <2>4. Owes([dev EXCEPT !.line = dev.line, !.hblank = dev.hblank, !.irqs = {}], 0)
      BY <2>1, <2>3, DisplayStep
    <2>. QED
      BY <2>1, <2>2, <2>4 DEF JobChannels
  <1>a. dev.line \in Nat /\ l \in 0 .. DmaLines - 1
    <2>1. dev.line \in Nat /\ DmaLines \in Nat \ {0}
      BY GbaAssumption DEF DmaInv, Owes, JobChannels
    <2>. QED
      BY <2>1
  <1>. DEFINE due == z.enabled /\ z.control.timing = "VBlank" /\ l = DmaBlank
  <1>3. /\ w \in JobChannels /\ w.enabled = z.enabled /\ w.control = z.control /\ w.id = z.id
        /\ w.pending = FALSE /\ w.line = z.line
        /\ due => Owes(w, 1)
        /\ ~due => Owes(w, 0)
    <2>1. /\ w \in JobChannels /\ w.enabled = z.enabled /\ w.control = z.control /\ w.id = z.id
          /\ w.pending = z.pending /\ w.line = z.line
          /\ Due(z, l, FALSE) => Owes(w, 1)
          /\ ~Due(z, l, FALSE) => Owes(w, 0)
      <3>1. PICK h0 \in BOOLEAN : h0 = FALSE
        OBVIOUS
      <3>2. w = Dma!Wanted(z, l, h0)
        BY <3>1 DEF Dma!Wanted
      <3>3. Due(z, l, h0) <=> Due(z, l, FALSE)
        BY <3>1 DEF Due
      <3>. HIDE DEF z, w, l
      <3>4. Owes(z, 0)
        BY <1>2
      <3>5. /\ w \in JobChannels /\ w.enabled = z.enabled /\ w.control = z.control /\ w.id = z.id
            /\ w.pending = z.pending /\ w.line = z.line
            /\ Due(z, l, h0) => Owes(w, 1)
            /\ ~Due(z, l, h0) => Owes(w, 0)
        BY <3>2, <3>4, TransferWanted
      <3>. QED
        BY <3>3, <3>5, Zenon
    <2>2. Due(z, l, FALSE) <=> due
      BY DEF Due
    <2>. QED
      BY <1>2, <2>1, <2>2, Zenon
  <1>1. dev' = IF w.line = dev.line /\ l = DmaBlank THEN Dma!Trigger(r, "VBlank") ELSE s
    <2>1. w.line = dev.line
      BY <1>2, <1>3
    <2>. QED
      BY <2>1 DEF Dma!LineStart, Dma!LineStarted
  <1>b. w.line = dev.line
    BY <1>2, <1>3
  <1>. HIDE DEF z, w, l
  <1>4. /\ s = [w EXCEPT !.line = l, !.hblank = FALSE, !.irqs = w.irqs]
        /\ r = [w EXCEPT !.line = l, !.hblank = FALSE, !.irqs = w.irqs \cup {"VBlank"}]
    BY <1>3 DEF JobChannels, Dma!Raise
  <1>5. /\ r.enabled = z.enabled /\ r.control = z.control /\ r.pending = FALSE /\ s.pending = FALSE
    BY <1>3, <1>4 DEF JobChannels
  <1>6. ASSUME NEW n \in {0, 1}, Owes(w, n) PROVE Owes(s, n) /\ Owes(r, n)
    <2>1. /\ w.irqs \in SUBSET {"HBlank", "VBlank", "Dma"}
          /\ w.irqs \cup {"VBlank"} \in SUBSET {"HBlank", "VBlank", "Dma"}
      BY <1>3 DEF JobChannels
    <2>2. FALSE \in BOOLEAN
      OBVIOUS
    <2>3. Owes([w EXCEPT !.line = l, !.hblank = FALSE, !.irqs = w.irqs], n)
      BY <1>6, <1>a, <2>1, <2>2, DisplayStep, Zenon
    <2>4. Owes([w EXCEPT !.line = l, !.hblank = FALSE, !.irqs = w.irqs \cup {"VBlank"}], n)
      BY <1>6, <1>a, <2>1, <2>2, DisplayStep, Zenon
    <2>. QED
      BY <1>4, <2>3, <2>4, Zenon
  <1>. HIDE DEF s, r
  <1>7. CASE l = DmaBlank
    <2>1. dev' = Dma!Trigger(r, "VBlank")
      BY <1>1, <1>b, <1>7
    <2>2. IF r.enabled /\ r.control.timing = "VBlank" THEN Owes(r, 1) ELSE Owes(r, 0)
      BY <1>3, <1>5, <1>6, <1>7
    <2>3. Owes(Dma!Trigger(r, "VBlank"), 0) /\ Dma!Trigger(r, "VBlank").pending = r.pending
      BY <2>2, ChannelTriggered, Zenon
    <2>. QED
      BY <1>5, <2>1, <2>3 DEF DmaInv
  <1>8. CASE l # DmaBlank
    <2>1. dev' = s /\ Owes(s, 0)
      BY <1>1, <1>3, <1>6, <1>8
    <2>. QED
      BY <1>5, <2>1 DEF DmaInv
  <1>. QED
    BY <1>7, <1>8

LEMMA WriteRegisterStep == DmaInv /\ Dma!WriteRegister => DmaInv'
  <1>. SUFFICES ASSUME DmaInv, NEW r \in Dma!Registers, dev' = [dev EXCEPT !.reg = r, !.irqs = {}]
                PROVE  DmaInv'
    BY DEF Dma!WriteRegister
  <1>1. /\ dev' \in JobChannels /\ dev'.enabled = dev.enabled /\ dev'.control = dev.control
        /\ dev'.pending = dev.pending /\ dev'.due = dev.due /\ dev'.runs = dev.runs
        /\ dev'.internal = dev.internal /\ dev'.start = dev.start /\ dev'.moved = dev.moved
    BY DEF DmaInv, Owes, JobChannels
  <1>2. Dma!Repeats(dev') = Dma!Repeats(dev) /\ (AtItsPlace(dev) <=> AtItsPlace(dev'))
    BY <1>1 DEF Dma!Repeats, AtItsPlace
  <1>. QED
    BY <1>1, <1>2 DEF DmaInv, Owes

LEMMA ControlStep == DmaInv /\ Dma!Control => DmaInv'
  <1>. SUFFICES ASSUME DmaInv, NEW c \in Dma!Writable, dev.enabled /\ c.enable => c = dev.control,
                       dev' = Dma!RunPending(Dma!WriteControl([dev EXCEPT !.irqs = {}], c))
                PROVE  DmaInv'
    BY DEF Dma!Control
  <1>. DEFINE z == [dev EXCEPT !.irqs = {}]
              v == Dma!WriteControl(z, c)
              edge == c.enable /\ ~dev.enabled
              now1 == edge /\ c.timing = "Immediate"
  <1>1. /\ z \in JobChannels /\ z.enabled = dev.enabled /\ z.control = dev.control
        /\ z.pending = FALSE /\ z.due = z.runs /\ z.runs = dev.runs /\ z.enabled = z.control.enable
        /\ z.enabled /\ ~Dma!Repeats(z) => z.runs = 0
        /\ z.enabled => AtItsPlace(z)
    <2>1. /\ z \in JobChannels /\ z.enabled = dev.enabled /\ z.control = dev.control
          /\ z.pending = FALSE /\ z.due = dev.due /\ z.runs = dev.runs /\ z.internal = dev.internal
          /\ z.start = dev.start /\ z.moved = dev.moved /\ dev.due = dev.runs
      BY DEF DmaInv, Owes, JobChannels
    <2>2. Dma!Repeats(z) = Dma!Repeats(dev) /\ (AtItsPlace(dev) <=> AtItsPlace(z))
      BY <2>1 DEF Dma!Repeats, AtItsPlace
    <2>. QED
      BY <2>1, <2>2 DEF DmaInv, Owes
  <1>2. c \in Dma!Controls /\ z.enabled \in BOOLEAN /\ c.enable \in BOOLEAN
    <2>1. Dma!Off \in Dma!Controls
      BY DEF Dma!Off, Dma!Controls, Dma!Steps, Dma!Timings
    <2>2. c \in Dma!Controls
      BY <2>1 DEF Dma!Writable, Dma!Jobs
    <2>. QED
      BY <1>1, <2>2 DEF JobChannels, Dma!Controls
  <1>. HIDE DEF z
  <1>3. /\ v \in JobChannels /\ v.control = c /\ v.enabled = c.enable /\ v.pending = now1
        /\ ~edge => v.internal = z.internal /\ v.start = z.start
        /\ edge => v.internal = z.reg /\ v.start = z.reg
        /\ v.runs = (IF edge = c.enable THEN 0 ELSE z.runs)
        /\ v.moved = (IF edge = c.enable THEN 0 ELSE z.moved)
        /\ v.due = (IF edge = c.enable THEN (IF now1 THEN 1 ELSE 0) ELSE z.due)
    <2>. DEFINE i == IF edge THEN z.reg ELSE z.internal
                s == IF edge THEN z.reg ELSE z.start
                n == IF edge = c.enable THEN 0 ELSE z.runs
                m == IF edge = c.enable THEN 0 ELSE z.moved
                o == IF edge = c.enable THEN (IF now1 THEN 1 ELSE 0) ELSE z.due
    <2>1. v = [z EXCEPT !.control = c, !.enabled = c.enable, !.internal = i, !.pending = now1,
                        !.start = s, !.runs = n, !.moved = m, !.due = o]
      BY <1>1 DEF Dma!WriteControl, JobChannels
    <2>2. /\ i \in JobPlace /\ s \in JobPlace /\ n \in Nat /\ m \in Int /\ o \in Nat /\ now1 \in BOOLEAN
          /\ c.enable \in BOOLEAN
      BY <1>1, <1>2, PlacesAre DEF JobChannels
    <2>3. /\ edge => i = z.reg /\ s = z.reg
          /\ ~edge => i = z.internal /\ s = z.start
      OBVIOUS
    <2>. HIDE DEF i, s, n, m, o, now1
    <2>. HIDE DEF v, edge
    <2>4. v \in JobChannels
      <3>. DEFINE w == [z EXCEPT !.control = c, !.enabled = c.enable, !.internal = i]
                  x == [w EXCEPT !.pending = now1, !.start = s, !.runs = n]
      <3>1. z \in JobChannels /\ c \in Dma!Controls
        BY <1>1, <1>2
      <3>2. v = [x EXCEPT !.moved = m, !.due = o]
        BY <2>1
      <3>3. w \in JobChannels
        BY <2>2, <3>1 DEF JobChannels
      <3>. HIDE DEF w
      <3>4. x \in JobChannels
        BY <2>2, <3>3 DEF JobChannels
      <3>. HIDE DEF x
      <3>. QED
        BY <2>2, <3>2, <3>4 DEF JobChannels
    <2>5. v.control = c /\ v.enabled = c.enable /\ v.pending = now1
      BY <1>1, <2>1 DEF JobChannels
    <2>6. v.internal = i /\ v.start = s
      BY <1>1, <2>1 DEF JobChannels
    <2>7. v.runs = n /\ v.moved = m /\ v.due = o
      BY <1>1, <2>1 DEF JobChannels
    <2>. QED
      BY <2>3, <2>4, <2>5, <2>6, <2>7 DEF n, m, o
  <1>. HIDE DEF v
  <1>4. CASE edge
    <2>1. /\ v.runs = 0 /\ v.moved = 0 /\ v.due = (IF now1 THEN 1 ELSE 0) /\ v.enabled
          /\ v.internal = z.reg /\ v.start = z.reg
      BY <1>2, <1>3, <1>4
    <2>2. AtItsPlace(v)
      <3>1. v.control.from \in {1, -1} /\ v.control.to \in {1, -1} /\ z.reg \in JobPlace
        BY <1>1, <1>2, <1>3, PlacesAre DEF Dma!Controls, Dma!Steps, JobChannels
      <3>2. v.control.from * 0 = 0 /\ v.control.to * 0 = 0
        BY <3>1
      <3>. QED
        BY <2>1, <3>1, <3>2 DEF AtItsPlace, JobPlace
    <2>3. /\ now1 => Owes(v, 1)
          /\ ~now1 => Owes(v, 0)
      <3>1. /\ now1 => v.due = v.runs + 1
            /\ ~now1 => v.due = v.runs + 0
        BY <2>1
      <3>2. v.enabled = v.control.enable
        BY <1>3
      <3>. QED
        BY <1>3, <2>1, <2>2, <3>1, <3>2 DEF Owes
    <2>4. CASE now1
      <3>. DEFINE p == [v EXCEPT !.pending = FALSE]
      <3>1. dev' = Dma!RunChannel(p)
        BY <1>3, <2>4 DEF Dma!RunPending, v, z
      <3>2. /\ p \in JobChannels /\ p.enabled = v.enabled /\ p.control = v.control
            /\ p.due = v.due /\ p.runs = v.runs /\ p.internal = v.internal /\ p.start = v.start
            /\ p.moved = v.moved /\ p.pending = FALSE
        BY <1>3 DEF JobChannels
      <3>3. Dma!Repeats(p) = Dma!Repeats(v) /\ (AtItsPlace(v) <=> AtItsPlace(p))
        BY <3>2 DEF Dma!Repeats, AtItsPlace
      <3>4. Owes(p, 1) /\ p.enabled
        BY <2>1, <2>3, <2>4, <3>2, <3>3 DEF Owes
      <3>. HIDE DEF p
      <3>. QED
        BY <3>1, <3>2, <3>4, ChannelRuns DEF DmaInv
    <2>5. CASE ~now1
      <3>1. dev' = v /\ v.pending = FALSE
        BY <1>3, <2>5 DEF Dma!RunPending, v, z
      <3>. QED
        BY <2>3, <2>5, <3>1 DEF DmaInv
    <2>. QED
      BY <2>4, <2>5
  <1>5. CASE ~edge
    <2>1. dev' = v /\ v.pending = FALSE
      BY <1>3, <1>5 DEF Dma!RunPending, v, z
    <2>2. CASE c.enable
      <3>1. v.control = z.control /\ v.runs = z.runs /\ v.moved = z.moved /\ v.due = z.due
            /\ v.enabled = z.enabled /\ v.internal = z.internal /\ v.start = z.start
        BY <1>1, <1>2, <1>3, <1>5, <2>2
      <3>2. Dma!Repeats(v) = Dma!Repeats(z) /\ (AtItsPlace(z) <=> AtItsPlace(v))
        BY <3>1 DEF Dma!Repeats, AtItsPlace
      <3>a. z.runs \in Nat
        BY <1>1 DEF JobChannels
      <3>3. v.due = v.runs + 0 /\ v.enabled = v.control.enable
        <4>1. v.due = v.runs + 0
          BY <1>1, <3>1, <3>a
        <4>2. v.enabled = v.control.enable
          BY <1>3, Zenon
        <4>. QED
          BY <4>1, <4>2
      <3>. QED
        BY <1>1, <1>3, <2>1, <3>1, <3>2, <3>3 DEF DmaInv, Owes
    <2>3. CASE ~c.enable
      <3>1. v.due = 0 /\ v.runs = 0 /\ ~v.enabled /\ v.enabled = v.control.enable
        BY <1>2, <1>3, <1>5, <2>3
      <3>. QED
        BY <1>3, <2>1, <3>1 DEF DmaInv, Owes
    <2>. QED
      BY <2>2, <2>3
  <1>. QED
    BY <1>4, <1>5

LEMMA DmaStep == DmaInv /\ Dma!Next => DmaInv'
  BY WriteRegisterStep, ControlStep, HBlankStep, LineStartStep DEF Dma!Next

LEMMA DmaInitInv == Dma!Init => DmaInv
  <1>. SUFFICES ASSUME NEW id \in {0, 3}, NEW r \in Dma!Registers,
                       dev = [line |-> 0, hblank |-> FALSE, irqs |-> {}, id |-> id, reg |-> r,
                              control |-> Dma!Off, internal |-> r, enabled |-> FALSE,
                              pending |-> FALSE, start |-> r, runs |-> 0, moved |-> 0, due |-> 0]
                PROVE  DmaInv
    BY DEF Dma!Init
  <1>1. Dma!Off \in Dma!Controls /\ Dma!Off.enable = FALSE
    BY DEF Dma!Off, Dma!Controls, Dma!Steps, Dma!Timings
  <1>2. r \in JobPlace /\ 0 \in 0 .. DmaLines - 1
    BY PlacesAre, GbaAssumption
  <1>3. dev \in JobChannels
    BY <1>1, <1>2 DEF JobChannels
  <1>4. ~dev.enabled /\ dev.enabled = dev.control.enable /\ ~dev.pending /\ dev.due = dev.runs + 0
    <2>1. dev.due = dev.runs + 0
      OBVIOUS
    <2>2. dev.enabled = FALSE /\ dev.control = Dma!Off /\ dev.pending = FALSE
      OBVIOUS
    <2>. QED
      BY <1>1, <2>1, <2>2
  <1>. QED
    BY <1>3, <1>4 DEF DmaInv, Owes

LEMMA DmaHolds == DmaInv => Dma!JobKeepsItsPlace /\ Dma!TypeOK
  BY DEF DmaInv, Owes, AtItsPlace, JobChannels, Dma!JobKeepsItsPlace, Dma!TypeOK

-----------------------------------------------------------------------------
(* A DirectSound FIFO and the DMA channel that refills it.                 *)

(* A sample's place in the stream, and a FIFO that holds the samples from  *)
(* the one wanted next up to the one that the DMA channel reads next.      *)
Samples == 0 .. Stream - 1

FifoChannels ==
  [data : Seq(Samples), latch : Samples, timer : {0, 1}, armed : SUBSET {1, 2},
   source : Samples, wanted : Samples \cup {-1}, popped : {<<>>} \cup {<<s, s>> : s \in Samples}]

InStream(data, wanted, source) ==
  /\ data # <<>>
  /\ data[1] = wanted
  /\ \A k \in 1 .. Len(data) - 1 : data[k + 1] = Sound!Place(data[k] + 1)
  /\ source = Sound!Place(data[Len(data)] + 1)

FifoInv ==
  /\ dev \in FifoChannels /\ Len(dev.data) <= FifoSize
  /\ dev.wanted = -1 <=> dev.armed = {}
  /\ dev.popped # <<>> => dev.wanted # -1
  /\ dev.wanted # -1 => \/ dev.data = <<>> /\ dev.source = dev.wanted /\ dev.popped = <<>>
                        \/ InStream(dev.data, dev.wanted, dev.source)

LEMMA PlaceOnce ==
  ASSUME NEW n \in 0 .. 2 * Stream - 1
  PROVE  /\ Sound!Place(n) = IF n < Stream THEN n ELSE n - Stream
         /\ Sound!Place(n) \in Samples
  <1>1. Stream \in Nat /\ Stream > 0 /\ n \in Nat
    BY GbaAssumption
  <1>2. CASE n < Stream
    <2>1. n % Stream = n
      BY <1>1, <1>2
    <2>. QED
      BY <1>1, <1>2, <2>1 DEF Sound!Place, Samples
  <1>3. CASE n >= Stream
    <2>1. n % Stream = n - Stream
      BY <1>1, <1>3
    <2>. QED
      BY <1>1, <1>3, <2>1 DEF Sound!Place, Samples
  <1>. QED
    BY <1>1, <1>2, <1>3

(* A refill of a FIFO that is low or empty goes on where the samples end.  *)
LEMMA Refilled ==
  ASSUME NEW data \in Seq(Samples), NEW source \in Samples, Len(data) <= RefillThreshold
  PROVE  /\ Sound!Pushed(data, source) \in Seq(Samples)
         /\ Len(Sound!Pushed(data, source)) = Len(data) + Burst
         /\ \A k \in 1 .. Len(data) : Sound!Pushed(data, source)[k] = data[k]
         /\ \A k \in 1 .. Burst :
              Sound!Pushed(data, source)[Len(data) + k] = Sound!Place(source + k - 1)
  <1>. DEFINE new == [k \in 1 .. Burst |-> Sound!Place(source + k - 1)]
  <1>1. /\ Burst \in Nat /\ Burst > 0 /\ FifoSize \in Nat /\ Stream \in Nat /\ Burst < Stream
        /\ RefillThreshold + Burst <= FifoSize /\ RefillThreshold \in Nat
        /\ Len(data) \in Nat
    BY GbaAssumption
  <1>2. Sound!Pushed(data, source) = data \o new
    <2>1. (IF Burst < FifoSize - Len(data) THEN Burst ELSE FifoSize - Len(data)) = Burst
      BY <1>1
    <2>. QED
      BY <2>1 DEF Sound!Pushed
  <1>3. \A k \in 1 .. Burst : Sound!Place(source + k - 1) \in Samples
    <2>. SUFFICES ASSUME NEW k \in 1 .. Burst PROVE Sound!Place(source + k - 1) \in Samples
      OBVIOUS
    <2>1. source + k - 1 \in 0 .. 2 * Stream - 1
      BY <1>1 DEF Samples
    <2>. QED
      BY <2>1, PlaceOnce
  <1>4. new \in Seq(Samples) /\ Len(new) = Burst
    <2>1. new \in [1 .. Burst -> Samples]
      BY <1>3
    <2>2. new \in Seq(Samples)
      BY <1>1, <2>1
    <2>3. DOMAIN new = 1 .. Burst
      OBVIOUS
    <2>. QED
      BY <1>1, <2>2, <2>3
  <1>5. \A k \in 1 .. Burst : new[k] = Sound!Place(source + k - 1)
    OBVIOUS
  <1>. HIDE DEF new
  <1>6. /\ data \o new \in Seq(Samples) /\ Len(data \o new) = Len(data) + Burst
        /\ \A k \in 1 .. Len(data) : (data \o new)[k] = data[k]
        /\ \A k \in 1 .. Burst : (data \o new)[Len(data) + k] = new[k]
    BY <1>1, <1>4
  <1>. QED
    BY <1>2, <1>5, <1>6

LEMMA RefilledStream ==
  ASSUME NEW data \in Seq(Samples), NEW source \in Samples, NEW wanted \in Samples,
         Len(data) <= RefillThreshold,
         (data = <<>> /\ source = wanted) \/ InStream(data, wanted, source)
  PROVE  InStream(Sound!Pushed(data, source), wanted, Sound!Place(source + Burst))
  <1>. DEFINE p == Sound!Pushed(data, source)
              l == Len(data)
  <1>1. /\ Burst \in Nat /\ Burst > 0 /\ Stream \in Nat /\ Burst < Stream /\ l \in Nat
        /\ source \in Nat /\ source < Stream
    BY GbaAssumption DEF Samples
  <1>2. /\ p \in Seq(Samples) /\ Len(p) = l + Burst
        /\ \A k \in 1 .. l : p[k] = data[k]
        /\ \A k \in 1 .. Burst : p[l + k] = Sound!Place(source + k - 1)
    BY Refilled
  <1>. HIDE DEF p
  <1>3. p[l + 1] = source
    <2>1. p[l + 1] = Sound!Place(source + 1 - 1)
      BY <1>1, <1>2
    <2>2. source \in 0 .. 2 * Stream - 1 /\ source + 1 - 1 = source
      BY <1>1
    <2>. QED
      BY <1>1, <2>1, <2>2, PlaceOnce
  <1>4. ASSUME NEW k \in 1 .. Burst
        PROVE  Sound!Place(Sound!Place(source + k - 1) + 1) = Sound!Place(source + k)
    <2>1. source + k - 1 \in 0 .. 2 * Stream - 1 /\ source + k \in 0 .. 2 * Stream - 1
      BY <1>1
    <2>. DEFINE a == source + k - 1
                b == source + k
                c == Sound!Place(a) + 1
    <2>a. b = a + 1
      BY <1>1
    <2>. HIDE DEF a, b, c
    <2>2. /\ Sound!Place(a) = IF a < Stream THEN a ELSE a - Stream
          /\ Sound!Place(b) = IF b < Stream THEN b ELSE b - Stream
          /\ Sound!Place(a) \in Samples
      BY <2>1, PlaceOnce DEF a, b
    <2>3. c \in 0 .. 2 * Stream - 1
      BY <1>1, <2>2 DEF Samples, c
    <2>4. Sound!Place(c) = IF c < Stream THEN c ELSE c - Stream
      BY <2>3, PlaceOnce
    <2>5. Sound!Place(c) = Sound!Place(b)
      BY <1>1, <2>a, <2>1, <2>2, <2>4 DEF a, b, c
    <2>. QED
      BY <2>5 DEF a, b, c
  <1>5. p # <<>>
    BY <1>1, <1>2
  <1>6. p[1] = wanted
    <2>1. CASE data = <<>>
      BY <1>3, <2>1 DEF InStream
    <2>2. CASE data # <<>>
      <3>1. 1 \in 1 .. l /\ data[1] = wanted
        BY <2>2 DEF InStream
      <3>. QED
        BY <1>2, <3>1
    <2>. QED
      BY <2>1, <2>2
  <1>7. ASSUME NEW k \in 1 .. Len(p) - 1
        PROVE  p[k + 1] = Sound!Place(p[k] + 1)
    <2>1. CASE k < l
      <3>1. k \in 1 .. l - 1 /\ k \in 1 .. l /\ k + 1 \in 1 .. l /\ data # <<>>
        BY <1>1, <2>1
      <3>2. data[k + 1] = Sound!Place(data[k] + 1)
        BY <3>1 DEF InStream
      <3>. QED
        BY <1>2, <3>1, <3>2
    <2>2. CASE k = l
      <3>1. l \in 1 .. l /\ data # <<>>
        BY <1>1, <2>2
      <3>2. source = Sound!Place(data[l] + 1)
        BY <3>1 DEF InStream
      <3>. QED
        BY <1>2, <1>3, <2>2, <3>1, <3>2
    <2>3. CASE k > l
      <3>1. PICK m \in 1 .. Burst - 1 : k = l + m
        <4>1. k - l \in 1 .. Burst - 1 /\ k = l + (k - l)
          BY <1>1, <1>2, <2>3
        <4>. QED
          BY <4>1
      <3>2. m \in 1 .. Burst /\ m + 1 \in 1 .. Burst /\ k + 1 = l + (m + 1)
            /\ source + (m + 1) - 1 = source + m
        BY <1>1, <3>1
      <3>3. p[k] = Sound!Place(source + m - 1) /\ p[k + 1] = Sound!Place(source + m)
        BY <1>2, <3>1, <3>2
      <3>. QED
        BY <1>4, <3>2, <3>3
    <2>. QED
      BY <1>1, <1>2, <2>1, <2>2, <2>3
  <1>8. Sound!Place(source + Burst) = Sound!Place(p[Len(p)] + 1)
    <2>1. Burst \in 1 .. Burst
      BY <1>1
    <2>. QED
      BY <1>2, <1>4, <2>1
  <1>. QED
    BY <1>5, <1>6, <1>7, <1>8 DEF InStream, p

LEMMA FifoInitInv == Sound!FifoInit => FifoInv
  <1>. SUFFICES ASSUME NEW timer \in {0, 1},
                       dev = [data |-> <<>>, latch |-> 0, timer |-> timer, armed |-> {},
                              source |-> 0, wanted |-> -1, popped |-> <<>>]
                PROVE  FifoInv
    BY DEF Sound!FifoInit, Sound!None
  <1>1. 0 \in Samples /\ FifoSize \in Nat
    BY GbaAssumption DEF Samples
  <1>2. dev \in FifoChannels /\ Len(dev.data) = 0
    BY <1>1 DEF FifoChannels
  <1>. QED
    BY <1>1, <1>2 DEF FifoInv

LEMMA FifoOverflows == FifoInv /\ Sound!TimerOverflow => FifoInv'
  <1>. SUFFICES ASSUME FifoInv, Sound!TimerOverflow PROVE FifoInv'
    OBVIOUS
  <1>1. CASE UNCHANGED dev
    BY <1>1 DEF FifoInv
  <1>. DEFINE tail == IF dev.data = <<>> THEN dev.data ELSE Tail(dev.data)
              latch == IF dev.data = <<>> THEN 0 ELSE Head(dev.data)
              p == [dev EXCEPT !.data = tail, !.latch = latch]
              f == Sound!Overflow(dev)
              low == Len(tail) <= RefillThreshold /\ dev.armed # {}
              sounds == dev.data # <<>> /\ dev.wanted # -1
              data == IF low THEN Sound!Pushed(tail, dev.source) ELSE tail
              source == IF low THEN Sound!Place(dev.source + Burst) ELSE dev.source
              wanted == IF sounds THEN Sound!Place(dev.wanted + 1) ELSE dev.wanted
              popped == IF sounds THEN <<dev.wanted, latch>> ELSE <<>>
  <1>2. CASE dev' = [f EXCEPT !.popped = IF sounds THEN <<dev.wanted, f.latch>> ELSE <<>>,
                              !.wanted = IF sounds THEN Sound!Place(@ + 1) ELSE @]
    <2>1. /\ dev \in FifoChannels /\ dev.data \in Seq(Samples) /\ dev.source \in Samples
          /\ dev.wanted \in Samples \cup {-1} /\ dev.armed \in SUBSET {1, 2}
          /\ 0 \in Samples /\ Samples \subseteq Nat /\ Len(dev.data) <= FifoSize
          /\ dev.popped \in {<<>>} \cup {<<s, s>> : s \in Samples}
      BY GbaAssumption DEF FifoInv, FifoChannels, Samples
    <2>2. tail \in Seq(Samples) /\ latch \in Samples /\ Len(tail) <= FifoSize
          /\ (dev.data # <<>> => Len(tail) = Len(dev.data) - 1 /\ latch = dev.data[1]
                                 /\ \A k \in 1 .. Len(dev.data) - 1 : tail[k] = dev.data[k + 1])
      <3>1. CASE dev.data = <<>>
        BY <2>1, <3>1
      <3>2. CASE dev.data # <<>>
        <4>1. tail = Tail(dev.data) /\ latch = dev.data[1] /\ Len(dev.data) \in Nat \ {0}
          BY <2>1, <3>2
        <4>. HIDE DEF tail, latch
        <4>2. /\ tail \in Seq(Samples) /\ Len(tail) = Len(dev.data) - 1
              /\ \A k \in 1 .. Len(dev.data) - 1 : tail[k] = dev.data[k + 1]
          BY <2>1, <3>2, <4>1
        <4>3. latch \in Samples
          BY <2>1, <4>1
        <4>4. Len(tail) <= FifoSize
          BY <2>1, <4>1, <4>2, GbaAssumption
        <4>. QED
          BY <4>1, <4>2, <4>3, <4>4, Zenon
      <3>. QED
        BY <3>1, <3>2
    <2>3. p \in FifoChannels /\ p.data = tail /\ p.armed = dev.armed /\ p.source = dev.source
          /\ p.latch = latch /\ p.wanted = dev.wanted
      <3>. HIDE DEF tail, latch
      <3>. QED
        BY <2>1, <2>2 DEF FifoChannels
    <2>4. f = [p EXCEPT !.data = data, !.source = source]
      <3>1. f = IF Len(p.data) <= RefillThreshold THEN Sound!TriggerFifoDma(p) ELSE p
        BY DEF Sound!Overflow
      <3>. HIDE DEF p, f, tail, latch
      <3>2. CASE low
        BY <2>3, <3>1, <3>2 DEF Sound!TriggerFifoDma, Sound!FifoTransfer, FifoChannels
      <3>3. CASE ~low
        <4>1. f = p
          BY <2>3, <3>1, <3>3 DEF Sound!TriggerFifoDma
        <4>2. p = [p EXCEPT !.data = p.data, !.source = p.source]
          BY <2>3 DEF FifoChannels
        <4>. QED
          BY <2>3, <3>3, <4>1, <4>2
      <3>. QED
        BY <3>2, <3>3
    <2>. HIDE DEF p, f
    <2>5. /\ data \in Seq(Samples) /\ source \in Samples /\ Len(data) <= FifoSize
      <3>1. CASE low
        <4>. HIDE DEF tail
        <4>1. data \in Seq(Samples) /\ Len(data) = Len(tail) + Burst
          BY <2>1, <2>2, <3>1, Refilled
        <4>2. dev.source + Burst \in 0 .. 2 * Stream - 1
          BY <2>1, GbaAssumption DEF Samples
        <4>3. source \in Samples
          BY <3>1, <4>2, PlaceOnce
        <4>. HIDE DEF data
        <4>4. Len(tail) \in Nat
          BY <2>2
        <4>. QED
          BY <3>1, <4>1, <4>3, <4>4, GbaAssumption
      <3>2. CASE ~low
        BY <2>1, <2>2, <3>2
      <3>. QED
        BY <3>1, <3>2
    <2>6. wanted \in Samples \cup {-1} /\ (wanted = -1 <=> dev.wanted = -1)
      <3>1. CASE sounds
        <4>1. dev.wanted + 1 \in 0 .. 2 * Stream - 1
          <5>1. dev.wanted \in Samples
            BY <2>1, <3>1, Zenon
          <5>2. Stream \in Nat
            BY GbaAssumption
          <5>. QED
            BY <5>1, <5>2, SMTT(30) DEF Samples
        <4>2. wanted \in Samples
          BY <3>1, <4>1, PlaceOnce
        <4>. QED
          BY <2>1, <3>1, <4>2
      <3>2. CASE ~sounds
        BY <2>1, <3>2
      <3>. QED
        BY <3>1, <3>2
    <2>7. ASSUME dev.wanted # -1
          PROVE  InStream(data, wanted, source)
      <3>1. dev.armed # {} /\ dev.wanted \in Samples
        BY <2>1, <2>7 DEF FifoInv
      <3>2. CASE dev.data = <<>>
        <4>1. tail = <<>> /\ ~sounds /\ dev.source = dev.wanted
          BY <2>7, <3>2 DEF FifoInv, InStream
        <4>2. low
          <5>1. Len(tail) = 0 /\ RefillThreshold \in Nat
            BY <4>1, GbaAssumption
          <5>. HIDE DEF tail
          <5>. QED
            BY <3>1, <5>1
        <4>3. InStream(data, wanted, source)
          <5>1. tail = <<>> /\ Len(tail) <= RefillThreshold /\ tail \in Seq(Samples)
            BY <2>2, <4>1, <4>2
          <5>. HIDE DEF tail
          <5>2. InStream(Sound!Pushed(tail, dev.source), dev.wanted, Sound!Place(dev.source + Burst))
            BY <2>1, <3>1, <4>1, <5>1, RefilledStream
          <5>. QED
            BY <4>1, <4>2, <5>2
        <4>. QED
          BY <4>3
      <3>3. CASE dev.data # <<>>
        <4>1. sounds /\ InStream(dev.data, dev.wanted, dev.source)
          BY <2>7, <3>3 DEF FifoInv
        <4>2. latch = dev.wanted /\ wanted = Sound!Place(dev.wanted + 1)
          BY <2>2, <3>3, <4>1 DEF InStream
        <4>3. IF tail = <<>> THEN dev.source = wanted ELSE InStream(tail, wanted, dev.source)
          <5>1. Len(tail) = Len(dev.data) - 1 /\ Len(dev.data) \in Nat \ {0} /\ Len(tail) \in Nat
            BY <2>1, <2>2, <3>3
          <5>. DEFINE l == Len(dev.data)
          <5>2. CASE tail = <<>>
            <6>0. Len(tail) = 0
              BY <5>2
            <6>1. l = 1
              BY <5>1, <6>0
            <6>. QED
              BY <4>1, <4>2, <5>2, <6>1 DEF InStream
          <5>3. CASE tail # <<>>
            <6>1. l >= 2
              BY <2>2, <5>1, <5>3
            <6>. HIDE DEF tail, latch, wanted
            <6>2. 1 \in 1 .. l - 1 /\ l - 1 \in 1 .. l - 1 /\ (l - 1) + 1 = l /\ 1 + 1 = 2
              BY <5>1, <6>1
            <6>3. tail[1] = wanted
              <7>1. tail[1] = dev.data[2]
                BY <2>2, <3>3, <6>2
              <7>2. dev.data[2] = Sound!Place(dev.data[1] + 1)
                BY <4>1, <6>2 DEF InStream
              <7>. QED
                BY <4>1, <4>2, <7>1, <7>2 DEF InStream
            <6>4. ASSUME NEW k \in 1 .. Len(tail) - 1
                  PROVE  tail[k + 1] = Sound!Place(tail[k] + 1)
              <7>1. k \in 1 .. l - 1 /\ k + 1 \in 1 .. l - 1
                BY <5>1
              <7>2. tail[k] = dev.data[k + 1] /\ tail[k + 1] = dev.data[(k + 1) + 1]
                BY <2>2, <3>3, <7>1
              <7>3. dev.data[(k + 1) + 1] = Sound!Place(dev.data[k + 1] + 1)
                BY <4>1, <7>1 DEF InStream
              <7>. QED
                BY <7>2, <7>3
            <6>5. dev.source = Sound!Place(tail[Len(tail)] + 1)
              <7>1. tail[l - 1] = dev.data[l]
                BY <2>2, <3>3, <6>2
              <7>. QED
                BY <4>1, <5>1, <7>1 DEF InStream
            <6>. QED
              BY <5>3, <6>3, <6>4, <6>5 DEF InStream
          <5>. QED
            BY <5>2, <5>3
        <4>. HIDE DEF tail, latch, wanted
        <4>4. wanted \in Samples
          BY <2>6, <2>7
        <4>5. InStream(data, wanted, source)
          <5>1. CASE low
            <6>1. InStream(Sound!Pushed(tail, dev.source), wanted, Sound!Place(dev.source + Burst))
              BY <2>1, <2>2, <4>3, <4>4, <5>1, RefilledStream
            <6>. QED
              BY <5>1, <6>1
          <5>2. CASE ~low
            <6>1. tail # <<>>
              BY <3>1, <5>2, GbaAssumption
            <6>. QED
              BY <4>3, <5>2, <6>1
          <5>. QED
            BY <5>1, <5>2
        <4>. QED
          BY <4>5
      <3>. QED
        BY <3>2, <3>3
    <2>8. popped \in {<<>>} \cup {<<s, s>> : s \in Samples}
      <3>1. CASE sounds
        <4>1. latch = dev.wanted /\ dev.wanted \in Samples
          BY <2>1, <2>2, <3>1 DEF FifoInv, InStream
        <4>. QED
          BY <3>1, <4>1
      <3>2. CASE ~sounds
        BY <3>2
      <3>. QED
        BY <3>1, <3>2
    <2>9. popped # <<>> => dev.wanted # -1
      OBVIOUS
    <2>10. /\ dev'.data = data /\ dev'.source = source /\ dev'.wanted = wanted
           /\ dev'.popped = popped /\ dev'.armed = dev.armed /\ dev' \in FifoChannels
      <3>. HIDE DEF tail, latch, data, source, low
      <3>1. dev' = [dev EXCEPT !.data = data, !.latch = latch, !.source = source,
                               !.popped = popped, !.wanted = wanted]
        <4>1. f = [dev EXCEPT !.data = data, !.latch = latch, !.source = source]
          BY <2>1, <2>4 DEF p, FifoChannels
        <4>2. f.latch = latch /\ f.wanted = dev.wanted
          BY <2>1, <4>1 DEF FifoChannels
        <4>. QED
          BY <1>2, <2>1, <4>1, <4>2 DEF FifoChannels
      <3>. HIDE DEF popped, wanted, sounds
      <3>. QED
        BY <2>1, <2>2, <2>5, <2>6, <2>8, <3>1 DEF FifoChannels
    <2>. HIDE DEF data, source, popped, wanted, sounds
    <2>11. dev.wanted # -1 => \/ data = <<>> /\ source = wanted /\ popped = <<>>
                              \/ InStream(data, wanted, source)
      BY <2>7
    <2>12. dev.wanted = -1 <=> dev.armed = {}
      BY DEF FifoInv
    <2>. QED
      BY <2>5, <2>6, <2>9, <2>10, <2>11, <2>12 DEF FifoInv
  <1>3. \E id \in {0, 1} : id = dev.timer \/ UNCHANGED dev
    BY DEF Sound!TimerOverflow
  <1>. QED
    BY <1>1, <1>2 DEF Sound!TimerOverflow, Sound!None

LEMMA FifoStep == FifoInv /\ Sound!FifoNext => FifoInv'
  <1>. SUFFICES ASSUME FifoInv, Sound!FifoNext PROVE FifoInv'
    OBVIOUS
  <1>0. /\ dev \in FifoChannels /\ 0 \in Samples /\ Burst \in Samples /\ FifoSize \in Nat
        /\ Samples \subseteq Nat
    BY GbaAssumption DEF FifoInv, Samples
  <1>1. ASSUME NEW ch \in {1, 2}, NEW from \in {0, Burst},
               dev' = [Sound!Reset(dev) EXCEPT !.armed = {ch}, !.source = from, !.wanted = from,
                                               !.popped = <<>>]
        PROVE  FifoInv'
    <2>1. dev' = [dev EXCEPT !.data = <<>>, !.armed = {ch}, !.source = from, !.wanted = from,
                             !.popped = <<>>]
      BY <1>0, <1>1 DEF Sound!Reset, FifoChannels
    <2>2. {ch} \in SUBSET {1, 2} /\ from \in Samples /\ <<>> \in Seq(Samples) /\ {ch} # {}
          /\ Len(<<>>) = 0 /\ from # -1
      BY <1>0
    <2>3. /\ dev' \in FifoChannels /\ dev'.data = <<>> /\ dev'.armed = {ch} /\ dev'.source = from
          /\ dev'.wanted = from /\ dev'.popped = <<>>
      BY <1>0, <2>1, <2>2 DEF FifoChannels
    <2>. QED
      BY <1>0, <2>2, <2>3 DEF FifoInv
  <1>2. CASE Sound!Stop
    <2>1. /\ dev' \in FifoChannels /\ dev'.data = dev.data /\ dev'.armed = {} /\ dev'.wanted = -1
          /\ dev'.popped = <<>>
      BY <1>0, <1>2 DEF Sound!Stop, FifoChannels, Sound!None
    <2>. QED
      BY <2>1 DEF FifoInv
  <1>. QED
    BY <1>1, <1>2, FifoOverflows DEF Sound!FifoNext, Sound!Start

LEMMA FifoHolds == FifoInv => Sound!StreamUnbroken /\ Sound!FifoTypeOK
  <1>. SUFFICES ASSUME FifoInv PROVE Sound!StreamUnbroken /\ Sound!FifoTypeOK
    OBVIOUS
  <1>1. /\ dev.popped \in {<<>>} \cup {<<s, s>> : s \in Samples}
        /\ dev.armed \subseteq {1, 2} /\ dev.source \in Samples
    BY DEF FifoInv, FifoChannels
  <1>2. dev.popped # <<>> => dev.popped[1] = dev.popped[2]
    BY <1>1
  <1>3. dev.wanted # -1 /\ dev.popped # <<>> => dev.data # <<>>
    BY DEF FifoInv, InStream
  <1>. QED
    BY <1>1, <1>2, <1>3 DEF FifoInv, Sound!StreamUnbroken, Sound!FifoTypeOK, Sound!None, Samples

-----------------------------------------------------------------------------
(* The sound generator: a channel that is on can be heard.                 *)

(* A channel of the sound generator with its registers in range, and able  *)
(* to sound when it is on.                                                 *)
EnvelopeUnit ==
  [initial : 0 .. Loudest, increasing : BOOLEAN, period : 0 .. 1, volume : 0 .. Loudest]
SweepUnit ==
  [period : 0 .. 1, negate : BOOLEAN, shift : 0 .. 1, on : BOOLEAN, shadow : 0 .. TopFrequency]
Generators ==
  [on : BOOLEAN, word : BOOLEAN, freq : 0 .. TopFrequency, length : 0 .. FullLength,
   limited : BOOLEAN, env : EnvelopeUnit, sweep : SweepUnit, step : 0 .. 7]

CanSound(p) ==
  p \in Generators /\ (p.on => (p.env.initial # 0 \/ p.env.increasing) /\ p.length > 0)

PsgInv == CanSound(dev)

LEMMA PsgNumbers ==
  /\ TopFrequency \in Nat /\ FullLength \in Nat \ {0} /\ Loudest \in Nat
  BY GbaAssumption

LEMMA NextFrequencyRange ==
  ASSUME NEW p \in Generators
  PROVE  Sound!NextFrequency(p) \in Nat
  <1>1. p.sweep.shadow \in Nat /\ p.sweep.shift \in {0, 1} /\ p.sweep.negate \in BOOLEAN
    BY PsgNumbers DEF Generators, SweepUnit
  <1>2. 2 ^ 0 = 1 /\ 2 ^ 1 = 2
    OBVIOUS
  <1>3. \A s \in Nat : s \div 1 = s /\ s \div 2 \in 0 .. s
    OBVIOUS
  <1>. DEFINE d == p.sweep.shadow \div (2 ^ p.sweep.shift)
  <1>4. d \in 0 .. p.sweep.shadow
    <2>1. CASE p.sweep.shift = 0
      BY <1>1, <1>2, <1>3, <2>1
    <2>2. CASE p.sweep.shift = 1
      BY <1>1, <1>2, <1>3, <2>2
    <2>. QED
      BY <1>1, <2>1, <2>2
  <1>5. Sound!NextFrequency(p) = IF p.sweep.negate THEN p.sweep.shadow - d ELSE p.sweep.shadow + d
    BY DEF Sound!NextFrequency
  <1>. HIDE DEF d
  <1>. QED
    BY <1>1, <1>4, <1>5

LEMMA ComputeSweepSound ==
  ASSUME NEW p, CanSound(p)
  PROVE  CanSound(Sound!ComputeSweep(p))
  BY DEF CanSound, Generators, Sound!ComputeSweep

LEMMA ClockLengthSound ==
  ASSUME NEW p, CanSound(p)
  PROVE  CanSound(Sound!ClockLength(p))
  <1>1. CASE ~p.limited \/ p.length = 0
    BY <1>1 DEF Sound!ClockLength
  <1>2. CASE ~(~p.limited \/ p.length = 0)
    <2>. DEFINE q == Sound!ClockLength(p)
                n == p.length - 1
                on == p.on /\ p.length > 1
    <2>1. p \in Generators /\ p.length \in 1 .. FullLength /\ p.on \in BOOLEAN
      BY <1>2 DEF CanSound, Generators
    <2>2. n \in 0 .. FullLength /\ on \in BOOLEAN /\ (on => n > 0) /\ (on => p.on)
      BY <2>1, PsgNumbers
    <2>3. q = [p EXCEPT !.length = n, !.on = on]
      BY <1>2, <2>1 DEF Sound!ClockLength, Generators
    <2>. HIDE DEF n, on, q
    <2>4. q \in Generators /\ q.on = on /\ q.length = n /\ q.env = p.env
      BY <2>1, <2>2, <2>3 DEF Generators
    <2>. QED
      BY <2>2, <2>4 DEF CanSound, q
  <1>. QED
    BY <1>1, <1>2

LEMMA ClockSweepSound ==
  ASSUME NEW p, CanSound(p)
  PROVE  CanSound(Sound!ClockSweep(p))
  <1>. DEFINE next == Sound!NextFrequency(p)
              checked == Sound!ComputeSweep(p)
              q == [checked EXCEPT !.freq = next, !.sweep.shadow = next]
  <1>1. CanSound(checked)
    BY ComputeSweepSound
  <1>2. next \in Nat
    BY NextFrequencyRange DEF CanSound
  <1>3. ASSUME next <= TopFrequency PROVE CanSound(q)
    <2>1. next \in 0 .. TopFrequency
      BY <1>2, <1>3, PsgNumbers
    <2>. HIDE DEF next, checked
    <2>2. checked \in Generators /\ checked.sweep \in SweepUnit
      BY <1>1 DEF CanSound, Generators
    <2>. DEFINE s == [checked.sweep EXCEPT !.shadow = next]
    <2>3. s \in SweepUnit
      BY <2>1, <2>2 DEF SweepUnit
    <2>4. q = [checked EXCEPT !.freq = next, !.sweep = s]
      BY <2>2 DEF Generators
    <2>. HIDE DEF s, q
    <2>5. q \in Generators /\ q.on = checked.on /\ q.env = checked.env /\ q.length = checked.length
      BY <2>1, <2>2, <2>3, <2>4 DEF Generators
    <2>. QED
      BY <1>1, <2>5 DEF CanSound
  <1>4. next <= TopFrequency => CanSound(Sound!ComputeSweep(q))
    BY <1>3, ComputeSweepSound
  <1>5. \/ Sound!ClockSweep(p) = p
        \/ Sound!ClockSweep(p) = checked
        \/ ~(next > TopFrequency) /\ Sound!ClockSweep(p) = Sound!ComputeSweep(q)
    BY DEF Sound!ClockSweep
  <1>6. ~(next > TopFrequency) => next <= TopFrequency
    BY <1>2, PsgNumbers
  <1>. HIDE DEF q, checked, next
  <1>. QED
    BY <1>1, <1>4, <1>5, <1>6, Zenon

LEMMA EnvelopeWritten ==
  ASSUME NEW p, CanSound(p), NEW e \in EnvelopeUnit, e.initial = p.env.initial,
         e.increasing = p.env.increasing
  PROVE  CanSound([p EXCEPT !.env = e])
  BY DEF CanSound, Generators

LEMMA ClockEnvelopeSound ==
  ASSUME NEW p, CanSound(p)
  PROVE  CanSound(Sound!ClockEnvelope(p))
  <1>1. p \in Generators /\ p.env \in EnvelopeUnit /\ p.env.volume \in 0 .. Loudest /\ Loudest \in Nat
    BY PsgNumbers DEF CanSound, Generators, EnvelopeUnit
  <1>2. ASSUME NEW v \in 0 .. Loudest PROVE CanSound([p EXCEPT !.env.volume = v])
    <2>1. /\ [p EXCEPT !.env.volume = v] = [p EXCEPT !.env = [p.env EXCEPT !.volume = v]]
      BY <1>1 DEF Generators
    <2>2. /\ [p.env EXCEPT !.volume = v] \in EnvelopeUnit
          /\ [p.env EXCEPT !.volume = v].initial = p.env.initial
          /\ [p.env EXCEPT !.volume = v].increasing = p.env.increasing
      BY <1>1 DEF EnvelopeUnit
    <2>. QED
      BY <2>1, <2>2, EnvelopeWritten
  <1>3. \/ Sound!ClockEnvelope(p) = p
        \/ p.env.volume < Loudest /\ Sound!ClockEnvelope(p) = [p EXCEPT !.env.volume = @ + 1]
        \/ p.env.volume > 0 /\ Sound!ClockEnvelope(p) = [p EXCEPT !.env.volume = @ - 1]
    BY DEF Sound!ClockEnvelope
  <1>4. CASE p.env.volume < Loudest /\ Sound!ClockEnvelope(p) = [p EXCEPT !.env.volume = @ + 1]
    <2>1. p.env.volume + 1 \in 0 .. Loudest
      BY <1>1, <1>4
    <2>. QED
      BY <1>2, <1>4, <2>1
  <1>5. CASE p.env.volume > 0 /\ Sound!ClockEnvelope(p) = [p EXCEPT !.env.volume = @ - 1]
    <2>1. p.env.volume - 1 \in 0 .. Loudest
      BY <1>1, <1>5
    <2>. QED
      BY <1>2, <1>5, <2>1
  <1>. QED
    BY <1>3, <1>4, <1>5

LEMMA TriggerSound ==
  ASSUME NEW p \in Generators
  PROVE  CanSound(Sound!Trigger(p))
  <1>. DEFINE on == Sound!DacOn(p.env)
              e == [p.env EXCEPT !.volume = p.env.initial]
              n == IF p.length = 0 THEN FullLength ELSE p.length
              w == [p.sweep EXCEPT !.shadow = p.freq,
                                   !.on = p.sweep.period # 0 \/ p.sweep.shift # 0]
              t == [p EXCEPT !.on = Sound!DacOn(p.env), !.env.volume = p.env.initial,
                             !.length = IF @ = 0 THEN FullLength ELSE @]
              s == [t EXCEPT !.sweep.shadow = p.freq,
                             !.sweep.on = p.sweep.period # 0 \/ p.sweep.shift # 0]
  <1>1. /\ p.env \in EnvelopeUnit /\ p.sweep \in SweepUnit /\ p.freq \in 0 .. TopFrequency
        /\ p.length \in 0 .. FullLength
    BY DEF Generators
  <1>2. on \in BOOLEAN /\ e \in EnvelopeUnit /\ e.initial = p.env.initial /\ e.increasing = p.env.increasing
    BY <1>1 DEF EnvelopeUnit, Sound!DacOn
  <1>3. n \in 0 .. FullLength /\ n > 0
    BY <1>1, PsgNumbers
  <1>4. w \in SweepUnit
    BY <1>1 DEF SweepUnit
  <1>5. t = [p EXCEPT !.on = on, !.env = e, !.length = n]
    BY DEF Generators
  <1>6. on => e.initial # 0 \/ e.increasing
    BY <1>2 DEF Sound!DacOn
  <1>7. Sound!Trigger(p) \in {t, s, Sound!ComputeSweep(s)}
    BY DEF Sound!Trigger
  <1>8. t.sweep = p.sweep
    BY DEF Generators
  <1>9. s = [t EXCEPT !.sweep = w]
    <2>1. s = [t EXCEPT !.sweep = [t.sweep EXCEPT !.shadow = p.freq,
                                     !.on = p.sweep.period # 0 \/ p.sweep.shift # 0]]
      BY DEF Generators
    <2>. QED
      BY <1>8, <2>1
  <1>. HIDE DEF on, e, n, w, t, s
  <1>10. t \in Generators /\ t.on = on /\ t.env = e /\ t.length = n
    BY <1>2, <1>3, <1>5 DEF Generators
  <1>11. CanSound(t)
    BY <1>3, <1>6, <1>10 DEF CanSound
  <1>12. s \in Generators /\ s.on = on /\ s.env = e /\ s.length = n
    BY <1>4, <1>9, <1>10 DEF Generators
  <1>13. CanSound(s)
    BY <1>3, <1>6, <1>12 DEF CanSound
  <1>. QED
    BY <1>7, <1>11, <1>13, ComputeSweepSound

LEMMA PsgStep == PsgInv /\ Sound!PsgNext => PsgInv'
  <1>. SUFFICES ASSUME CanSound(dev), Sound!PsgNext PROVE CanSound(dev')
    BY DEF PsgInv
  <1>0. dev \in Generators /\ dev.sweep \in SweepUnit /\ dev.env \in EnvelopeUnit
    BY DEF CanSound, Generators
  <1>1. CASE Sound!ClockFrameSequencer
    <2>. DEFINE l == IF dev.step \in {0, 2, 4, 6} THEN Sound!ClockLength(dev) ELSE dev
                s == IF dev.step \in {2, 6} THEN Sound!ClockSweep(l) ELSE l
                e == IF dev.step = 7 THEN Sound!ClockEnvelope(s) ELSE s
    <2>1. CanSound(l)
      BY ClockLengthSound
    <2>2. CanSound(s)
      <3>. HIDE DEF l
      <3>. QED
        BY <2>1, ClockSweepSound
    <2>3. CanSound(e)
      <3>. HIDE DEF s
      <3>. QED
        BY <2>2, ClockEnvelopeSound
    <2>4. dev' = [e EXCEPT !.step = (@ + 1) % 8]
      BY <1>1 DEF Sound!ClockFrameSequencer
    <2>. HIDE DEF e
    <2>5. e \in Generators /\ (e.step + 1) % 8 \in 0 .. 7
      BY <2>3 DEF CanSound, Generators
    <2>6. dev' \in Generators /\ dev'.on = e.on /\ dev'.env = e.env /\ dev'.length = e.length
      BY <2>4, <2>5 DEF Generators
    <2>. QED
      BY <2>3, <2>6 DEF CanSound
  <1>2. CASE Sound!WriteSweep
    <2>1. PICK s \in Sound!Sweeps :
            dev' = [dev EXCEPT !.sweep.period = s.period, !.sweep.negate = s.negate,
                               !.sweep.shift = s.shift]
      BY <1>2 DEF Sound!WriteSweep
    <2>. DEFINE w == [dev.sweep EXCEPT !.period = s.period, !.negate = s.negate, !.shift = s.shift]
    <2>2. w \in SweepUnit
      BY <1>0 DEF SweepUnit, Sound!Sweeps
    <2>3. dev' = [dev EXCEPT !.sweep = w]
      BY <1>0, <2>1 DEF Generators
    <2>. HIDE DEF w
    <2>4. dev' \in Generators /\ dev'.on = dev.on /\ dev'.env = dev.env /\ dev'.length = dev.length
      BY <1>0, <2>2, <2>3 DEF Generators
    <2>. QED
      BY <2>4 DEF CanSound
  <1>3. CASE Sound!WriteEnvelope
    <2>1. PICK e \in Sound!Envelopes, length \in {1, FullLength} :
            dev' = [dev EXCEPT !.env = [initial |-> e.initial, increasing |-> e.increasing,
                                        period |-> e.period, volume |-> e.initial],
                               !.length = length, !.on = @ /\ Sound!DacOn(e)]
      BY <1>3 DEF Sound!WriteEnvelope
    <2>. DEFINE v == [initial |-> e.initial, increasing |-> e.increasing,
                      period |-> e.period, volume |-> e.initial]
                on == dev.on /\ Sound!DacOn(e)
    <2>2. v \in EnvelopeUnit /\ v.initial = e.initial /\ v.increasing = e.increasing
      BY DEF EnvelopeUnit, Sound!Envelopes
    <2>3. on \in BOOLEAN /\ (on => e.initial # 0 \/ e.increasing)
      BY <1>0 DEF Generators, Sound!DacOn
    <2>4. length \in 0 .. FullLength /\ length > 0
      BY PsgNumbers
    <2>5. dev' = [dev EXCEPT !.env = v, !.length = length, !.on = on]
      BY <1>0, <2>1 DEF Generators
    <2>. HIDE DEF v, on
    <2>6. dev' \in Generators /\ dev'.on = on /\ dev'.env = v /\ dev'.length = length
      BY <1>0, <2>2, <2>3, <2>4, <2>5 DEF Generators
    <2>. QED
      BY <2>2, <2>3, <2>4, <2>6 DEF CanSound
  <1>4. ASSUME NEW freq \in 0 .. TopFrequency, NEW limited \in BOOLEAN, NEW start \in BOOLEAN,
               Sound!WriteFrequency(freq, limited, start)
        PROVE  CanSound(dev')
    <2>. DEFINE f == [dev EXCEPT !.freq = freq, !.limited = limited, !.word = start]
    <2>1. dev' = IF start THEN Sound!Trigger(f) ELSE f
      BY <1>4 DEF Sound!WriteFrequency
    <2>2. f \in Generators /\ f.on = dev.on /\ f.env = dev.env /\ f.length = dev.length
      BY <1>0 DEF Generators
    <2>3. CanSound(f)
      BY <2>2 DEF CanSound
    <2>. HIDE DEF f
    <2>. QED
      BY <2>1, <2>2, <2>3, TriggerSound
  <1>5. CASE Sound!WriteControl
    BY <1>4, <1>5 DEF Sound!WriteControl
  <1>6. CASE Sound!WriteLowByte
    BY <1>0, <1>4, <1>6 DEF Sound!WriteLowByte, Generators
  <1>. QED
    BY <1>1, <1>2, <1>3, <1>5, <1>6 DEF Sound!PsgNext

LEMMA PsgInitInv == Sound!PsgInit => PsgInv
  BY PsgNumbers DEF Sound!PsgInit, PsgInv, CanSound, Generators, EnvelopeUnit, SweepUnit

LEMMA PsgHolds == PsgInv => Sound!OnCanSound /\ Sound!PsgTypeOK
  BY DEF PsgInv, CanSound, Generators, EnvelopeUnit, Sound!OnCanSound, Sound!PsgTypeOK, Sound!DacOn

-----------------------------------------------------------------------------
(* The prefetch buffer is never ahead of the cartridge.                    *)

(* A prefetch buffer whose halfwords the cartridge has had the time for.   *)
Buffers ==
  [enabled : BOOLEAN, head : Nat, count : 0 .. BufferSize, countdown : 0 .. SeqWait,
   waits : {0, SeqWait}, pc : Nat, stream : BOOLEAN, start : Nat, elapsed : Nat]

InTime(p) ==
  (p.head + p.count - p.start) * SeqWait + (SeqWait - p.countdown) <= p.elapsed

Fetched(p) == p \in Buffers /\ (p.enabled /\ p.stream => p.waits = SeqWait /\ InTime(p))

PrefetchInv == Fetched(dev)

LEMMA BufferNumbers == BufferSize \in Nat /\ SeqWait \in Nat \ {0} /\ BranchTargets \subseteq Nat
  BY GbaAssumption

LEMMA Distributes ==
  ASSUME NEW a \in Int, NEW b \in Int, NEW c \in Int
  PROVE  /\ (a + b) * c = a * c + b * c
         /\ a * c \in Int /\ b * c \in Int /\ 0 * c = 0 /\ 1 * c = c
  OBVIOUS

LEMMA DivRange ==
  ASSUME NEW m \in Nat, NEW n \in Nat \ {0}
  PROVE  /\ m \div n \in Nat
         /\ (m \div n) * n <= m /\ m < (m \div n) * n + n
  OBVIOUS

LEMMA AccessSound ==
  ASSUME NEW p, Fetched(p), p.enabled, NEW addr \in Nat
  PROVE  Fetched(Bus!Access(p, addr)) /\ Bus!Access(p, addr).enabled
  <1>. DEFINE q == Bus!Access(p, addr)
  <1>0. /\ p \in Buffers /\ p.head \in Nat /\ p.count \in 0 .. BufferSize /\ p.count \in Nat
        /\ p.countdown \in 0 .. SeqWait /\ p.start \in Nat /\ p.elapsed \in Nat
        /\ SeqWait \in Nat \ {0} /\ BufferSize \in Nat
        /\ p.stream => InTime(p) /\ p.waits = SeqWait
    BY BufferNumbers DEF Fetched, Buffers
  <1>1. CASE addr = p.head /\ p.count = 0
    <2>. DEFINE cost == IF p.countdown > 1 THEN p.countdown ELSE 1
    <2>1. q = [p EXCEPT !.waits = SeqWait, !.head = p.head + 1, !.countdown = SeqWait,
                        !.elapsed = p.elapsed + cost]
      BY <1>0, <1>1 DEF Bus!Access, Buffers
    <2>2. cost \in Nat /\ cost >= p.countdown
      BY <1>0
    <2>. HIDE DEF cost, q
    <2>3. /\ q \in Buffers /\ q.waits = SeqWait /\ q.head = p.head + 1 /\ q.count = 0
          /\ q.start = p.start /\ q.countdown = SeqWait /\ q.elapsed = p.elapsed + cost
          /\ q.stream = p.stream /\ q.enabled = p.enabled
      <3>1. p.head + 1 \in Nat /\ SeqWait \in 0 .. SeqWait /\ p.elapsed + cost \in Nat
        BY <1>0, <2>2
      <3>. QED
        BY <1>0, <1>1, <2>1, <3>1 DEF Buffers
    <2>4. p.stream => InTime(q)
      <3>. SUFFICES ASSUME p.stream PROVE InTime(q)
        OBVIOUS
      <3>. DEFINE a == p.head - p.start
      <3>1. a \in Int /\ p.head + 0 - p.start = a /\ p.head + 1 + 0 - p.start = a + 1
        BY <1>0
      <3>2. a * SeqWait + (SeqWait - p.countdown) <= p.elapsed
        BY <1>0, <1>1, <3>1 DEF InTime
      <3>3. (a + 1) * SeqWait = a * SeqWait + SeqWait /\ a * SeqWait \in Int
        BY <1>0, <3>1, Distributes
      <3>4. a * SeqWait + SeqWait <= p.elapsed + cost
        BY <1>0, <2>2, <3>2, <3>3
      <3>5. (q.head + q.count - q.start) * SeqWait = a * SeqWait + SeqWait
        BY <2>3, <3>1, <3>3
      <3>. HIDE DEF a
      <3>. QED
        BY <1>0, <2>3, <3>3, <3>4, <3>5 DEF InTime
    <2>. QED
      BY <2>3, <2>4 DEF Fetched, q
  <1>2. CASE ~(addr = p.head /\ p.count = 0) /\ addr >= p.head /\ addr < p.head + p.count
    <2>. DEFINE n == p.head + p.count - addr - 1
    <2>1. q = [p EXCEPT !.waits = SeqWait, !.head = addr + 1, !.count = n]
      <3>1. Bus!Far(p) = p.head + p.count
        BY DEF Bus!Far
      <3>2. ~(addr = p.head /\ p.count = 0) /\ addr >= p.head /\ addr < Bus!Far(p)
        BY <1>2, <3>1
      <3>3. q = [p EXCEPT !.waits = SeqWait, !.head = addr + 1, !.count = Bus!Far(p) - addr - 1]
        BY <3>2, Zenon DEF Bus!Access
      <3>4. n = Bus!Far(p) - addr - 1
        <4>1. p.head \in Int /\ p.count \in Int /\ addr \in Int
          BY <1>0
        <4>. QED
          BY <3>1, <4>1
      <3>. HIDE DEF n
      <3>. QED
        BY <3>3, <3>4, Zenon
    <2>2. n \in 0 .. BufferSize /\ addr + 1 \in Nat /\ addr + 1 + n = p.head + p.count
      BY <1>0, <1>2
    <2>. HIDE DEF n, q
    <2>3. /\ q \in Buffers /\ q.waits = SeqWait /\ q.head = addr + 1 /\ q.count = n
          /\ q.start = p.start /\ q.countdown = p.countdown /\ q.elapsed = p.elapsed
          /\ q.stream = p.stream /\ q.enabled = p.enabled
      BY <1>0, <2>1, <2>2 DEF Buffers
    <2>4. p.stream => InTime(q)
      BY <1>0, <2>2, <2>3 DEF InTime
    <2>. QED
      BY <2>3, <2>4 DEF Fetched, q
  <1>3. CASE ~(addr = p.head /\ p.count = 0) /\ ~(addr >= p.head /\ addr < p.head + p.count)
    <2>1. q = [p EXCEPT !.waits = SeqWait, !.head = addr + 1, !.count = 0, !.countdown = SeqWait,
                        !.stream = TRUE, !.start = addr + 1, !.elapsed = 0]
      BY <1>0, <1>3 DEF Bus!Access, Bus!Far, Buffers
    <2>. HIDE DEF q
    <2>2. addr + 1 \in Nat /\ 0 \in 0 .. BufferSize /\ SeqWait \in 0 .. SeqWait
      BY <1>0
    <2>3. /\ q \in Buffers /\ q.waits = SeqWait /\ q.head = addr + 1 /\ q.count = 0
          /\ q.start = addr + 1 /\ q.countdown = SeqWait /\ q.elapsed = 0
          /\ q.enabled = p.enabled
      BY <1>0, <2>1, <2>2 DEF Buffers
    <2>4. InTime(q)
      <3>1. (addr + 1 + 0) - (addr + 1) = 0 /\ 0 * SeqWait = 0
        BY <1>0
      <3>. QED
        BY <1>0, <2>3, <3>1 DEF InTime
    <2>. QED
      BY <2>3, <2>4 DEF Fetched, q
  <1>. QED
    BY <1>1, <1>2, <1>3

LEMMA CodeFetchedSound ==
  ASSUME NEW p, Fetched(p), p.enabled, NEW addr \in Nat, NEW word
  PROVE  Fetched(Bus!CodeFetched(p, addr, word))
  <1>. DEFINE first == Bus!Access(p, addr)
  <1>1. Fetched(first) /\ first.enabled
    BY AccessSound
  <1>. HIDE DEF first
  <1>2. Fetched(Bus!Access(first, addr + 1))
    BY <1>1, AccessSound
  <1>3. Bus!CodeFetched(p, addr, word) \in {first, Bus!Access(first, addr + 1)}
    BY DEF Bus!CodeFetched, first
  <1>. QED
    BY <1>1, <1>2, <1>3

(* What idle cycles complete.                                              *)
LEMMA SteppedSound ==
  ASSUME NEW p, Fetched(p), NEW idle \in Nat
  PROVE  Fetched(Bus!Stepped(p, idle))
  <1>1. CASE ~p.enabled \/ p.waits = 0
    BY <1>1 DEF Bus!Stepped
  <1>2. CASE ~(~p.enabled \/ p.waits = 0)
    <2>. DEFINE q == Bus!Stepped(p, idle)
                room == BufferSize - p.count
                whole == 1 + ((idle - p.countdown) \div SeqWait)
                done == IF idle < p.countdown THEN 0 ELSE IF whole < room THEN whole ELSE room
                spent == IF done = 0 THEN 0 ELSE p.countdown + (done - 1) * SeqWait
                from == IF done = 0 THEN p.countdown ELSE SeqWait
                left == IF p.count + done = BufferSize THEN from ELSE from - (idle - spent)
    <2>1. /\ p \in Buffers /\ p.head \in Nat /\ p.count \in 0 .. BufferSize /\ p.count \in Nat
          /\ p.countdown \in 0 .. SeqWait /\ p.start \in Nat /\ p.elapsed \in Nat
          /\ SeqWait \in Nat \ {0} /\ BufferSize \in Nat /\ p.waits = SeqWait
          /\ p.stream => InTime(p)
      BY <1>2, BufferNumbers DEF Fetched, Buffers
    <2>2. q = [p EXCEPT !.count = p.count + done, !.elapsed = p.elapsed + idle, !.countdown = left]
      BY <1>2, <2>1 DEF Bus!Stepped, Bus!Lesser, Buffers
    <2>. HIDE DEF q
    <2>3. /\ done \in Nat /\ p.count + done <= BufferSize
          /\ left \in 0 .. SeqWait
          /\ done * SeqWait - left <= idle - p.countdown
      <3>1. CASE idle < p.countdown
        <4>1. done = 0 /\ 0 * SeqWait = 0
          BY <2>1, <3>1
        <4>2. left = IF p.count = BufferSize THEN p.countdown ELSE p.countdown - idle
          BY <2>1, <4>1
        <4>. HIDE DEF done, left
        <4>. QED
          BY <2>1, <3>1, <4>1, <4>2
      <3>2. CASE ~(idle < p.countdown)
        <4>. DEFINE m == idle - p.countdown
                    d == m \div SeqWait
        <4>1. m \in Nat /\ room \in Nat
          BY <2>1, <3>2
        <4>. HIDE DEF m
        <4>2. d \in Nat /\ d * SeqWait <= m /\ m < d * SeqWait + SeqWait
          BY <2>1, <4>1, DivRange
        <4>3. whole = 1 + d
          BY DEF m
        <4>. HIDE DEF d, room
        <4>4. done = IF whole < room THEN whole ELSE room
          BY <3>2
        <4>. HIDE DEF done, whole
        <4>5. done \in Nat /\ done <= room /\ done <= 1 + d
          BY <4>1, <4>2, <4>3, <4>4
        <4>6. p.count + done <= BufferSize
          BY <2>1, <4>5 DEF room
        <4>7. CASE done = 0
          <5>1. room = 0 /\ p.count + done = BufferSize /\ left = p.countdown /\ done * SeqWait = 0
            BY <2>1, <4>1, <4>2, <4>3, <4>4, <4>7 DEF room
          <5>. HIDE DEF left
          <5>. QED
            BY <2>1, <3>2, <4>5, <4>6, <5>1
        <4>8. CASE done # 0 /\ p.count + done = BufferSize
          <5>1. left = SeqWait
            BY <4>8
          <5>2. (done - 1) * SeqWait <= d * SeqWait
            <6>1. \A a, b \in Nat : a <= b => a * SeqWait <= b * SeqWait
              BY <2>1
            <6>2. done - 1 \in Nat /\ done - 1 <= d
              BY <4>2, <4>5, <4>8
            <6>. QED
              BY <4>2, <6>1, <6>2
          <5>3. done * SeqWait = (done - 1) * SeqWait + SeqWait /\ (done - 1) * SeqWait \in Int
                /\ d * SeqWait \in Int
            <6>. DEFINE e == done - 1
            <6>1. e \in Int /\ e + 1 = done /\ 1 \in Int /\ SeqWait \in Int /\ d \in Int
              BY <2>1, <4>2, <4>5
            <6>. HIDE DEF e
            <6>2. (e + 1) * SeqWait = e * SeqWait + 1 * SeqWait /\ 1 * SeqWait = SeqWait
                  /\ e * SeqWait \in Int /\ d * SeqWait \in Int
              BY <6>1, Distributes
            <6>. QED
              BY <6>1, <6>2 DEF e
          <5>. HIDE DEF left
          <5>. QED
            BY <2>1, <4>1, <4>2, <4>5, <4>6, <5>1, <5>2, <5>3 DEF m
        <4>9. CASE done # 0 /\ p.count + done # BufferSize
          <5>1. done = 1 + d /\ done - 1 = d
            BY <2>1, <4>1, <4>2, <4>3, <4>4, <4>9 DEF room
          <5>2. left = SeqWait - (m - d * SeqWait)
            <6>1. spent = p.countdown + d * SeqWait /\ from = SeqWait
              BY <4>9, <5>1
            <6>2. left = from - (idle - spent)
              BY <4>9
            <6>3. d * SeqWait \in Int /\ m = idle - p.countdown
              BY <2>1, <4>2 DEF m
            <6>. HIDE DEF spent, from, left
            <6>. QED
              BY <2>1, <6>1, <6>2, <6>3
          <5>3. done * SeqWait = d * SeqWait + SeqWait /\ d * SeqWait \in Int
            <6>1. d \in Int /\ 1 \in Int /\ SeqWait \in Int /\ d + 1 = done
              BY <2>1, <4>2, <5>1
            <6>. QED
              BY <6>1, Distributes
          <5>. HIDE DEF left
          <5>. QED
            BY <2>1, <4>1, <4>2, <4>5, <4>6, <5>2, <5>3 DEF m
        <4>. QED
          BY <4>7, <4>8, <4>9
      <3>. QED
        BY <3>1, <3>2
    <2>. HIDE DEF done, left
    <2>4. /\ q \in Buffers /\ q.waits = p.waits /\ q.head = p.head /\ q.count = p.count + done
          /\ q.start = p.start /\ q.countdown = left /\ q.elapsed = p.elapsed + idle
          /\ q.stream = p.stream /\ q.enabled = p.enabled
      <3>1. p.count + done \in 0 .. BufferSize /\ p.elapsed + idle \in Nat
        BY <2>1, <2>3
      <3>. QED
        BY <2>1, <2>2, <2>3, <3>1 DEF Buffers
    <2>5. p.stream => InTime(q)
      <3>. SUFFICES ASSUME p.stream PROVE InTime(q)
        OBVIOUS
      <3>. DEFINE a == p.head + p.count - p.start
      <3>1. a \in Int /\ p.head + (p.count + done) - p.start = a + done /\ done \in Int
        BY <2>1, <2>3
      <3>2. a * SeqWait + (SeqWait - p.countdown) <= p.elapsed
        BY <2>1 DEF InTime
      <3>. HIDE DEF a
      <3>3. /\ (a + done) * SeqWait = a * SeqWait + done * SeqWait
            /\ a * SeqWait \in Int /\ done * SeqWait \in Int
        BY <2>1, <3>1, Distributes
      <3>4. a * SeqWait + done * SeqWait + (SeqWait - left) <= p.elapsed + idle
        BY <2>1, <2>3, <3>2, <3>3
      <3>5. (q.head + q.count - q.start) * SeqWait = a * SeqWait + done * SeqWait
        BY <2>4, <3>1, <3>3
      <3>. QED
        BY <2>4, <3>3, <3>4, <3>5 DEF InTime
    <2>. QED
      BY <2>1, <2>4, <2>5 DEF Fetched, q
  <1>. QED
    BY <1>1, <1>2

LEMMA PrefetchStep == PrefetchInv /\ Bus!PrefetchNext => PrefetchInv'
  <1>. SUFFICES ASSUME Fetched(dev), Bus!PrefetchNext PROVE Fetched(dev')
    BY DEF PrefetchInv
  <1>0. dev \in Buffers /\ dev.enabled \in BOOLEAN /\ dev.stream \in BOOLEAN /\ dev.pc \in Nat
    BY DEF Fetched, Buffers
  <1>1. CASE Bus!Fetch
    <2>1. PICK addr \in {dev.pc} \cup BranchTargets, word \in BOOLEAN :
            LET f == IF dev.enabled THEN Bus!CodeFetched(dev, addr, word) ELSE dev
            IN  dev' = [f EXCEPT !.pc = addr + (IF word THEN 2 ELSE 1)]
      BY <1>1 DEF Bus!Fetch
    <2>. DEFINE f == IF dev.enabled THEN Bus!CodeFetched(dev, addr, word) ELSE dev
                n == addr + (IF word THEN 2 ELSE 1)
    <2>2. addr \in Nat /\ n \in Nat
      <3>1. addr \in Nat
        BY <1>0, BufferNumbers
      <3>2. (IF word THEN 2 ELSE 1) \in Nat
        OBVIOUS
      <3>. QED
        BY <3>1, <3>2
    <2>3. Fetched(f)
      BY <2>2, CodeFetchedSound
    <2>. HIDE DEF f, n
    <2>4. dev' = [f EXCEPT !.pc = n]
      BY <2>1 DEF f, n
    <2>5. /\ dev' \in Buffers /\ dev'.enabled = f.enabled /\ dev'.stream = f.stream
          /\ dev'.waits = f.waits /\ dev'.head = f.head /\ dev'.count = f.count
          /\ dev'.start = f.start /\ dev'.countdown = f.countdown /\ dev'.elapsed = f.elapsed
      BY <2>2, <2>3, <2>4 DEF Fetched, Buffers
    <2>. QED
      BY <2>3, <2>5 DEF Fetched, InTime
  <1>2. CASE Bus!Internal
    <2>1. PICK n \in 1 .. 2 * SeqWait + 1 : dev' = Bus!Stepped(dev, n)
      BY <1>2 DEF Bus!Internal
    <2>2. n \in Nat
      BY BufferNumbers
    <2>. QED
      BY <2>1, <2>2, SteppedSound
  <1>3. CASE Bus!DataOnCartridge
    <2>1. dev' = [dev EXCEPT !.count = 0,
                             !.countdown = IF dev.waits > 0 THEN dev.waits ELSE dev.countdown,
                             !.start = dev.head, !.elapsed = 0]
      BY <1>0, <1>3 DEF Bus!DataOnCartridge, Bus!CartData, Buffers
    <2>2. /\ dev.waits \in {0, SeqWait} /\ SeqWait \in Nat \ {0} /\ BufferSize \in Nat
          /\ dev.countdown \in 0 .. SeqWait /\ dev.head \in Nat
      BY <1>0, BufferNumbers DEF Buffers
    <2>. DEFINE c == IF dev.waits > 0 THEN dev.waits ELSE dev.countdown
    <2>3. c \in 0 .. SeqWait /\ 0 \in 0 .. BufferSize
      BY <2>2
    <2>4. dev.waits = SeqWait => c = SeqWait
      BY <2>2
    <2>. HIDE DEF c
    <2>5. /\ dev' \in Buffers /\ dev'.enabled = dev.enabled /\ dev'.stream = dev.stream
          /\ dev'.waits = dev.waits /\ dev'.head = dev.head /\ dev'.count = 0
          /\ dev'.start = dev.head /\ dev'.countdown = c /\ dev'.elapsed = 0
      BY <1>0, <2>1, <2>2, <2>3 DEF Buffers, c
    <2>6. dev.waits = SeqWait => InTime(dev')
      <3>. SUFFICES ASSUME dev.waits = SeqWait PROVE InTime(dev')
        OBVIOUS
      <3>1. dev.head + 0 - dev.head = 0 /\ 0 * SeqWait = 0 /\ c = SeqWait /\ SeqWait - SeqWait = 0
        BY <2>2, <2>4
      <3>. QED
        BY <2>2, <2>5, <3>1 DEF InTime
    <2>. QED
      BY <2>5, <2>6 DEF Fetched
  <1>4. CASE Bus!WriteWaitcnt
    <2>1. PICK on \in BOOLEAN : dev' = Bus!SetEnabled(dev, on)
      BY <1>4 DEF Bus!WriteWaitcnt
    <2>2. CASE on
      <3>1. dev' = [dev EXCEPT !.enabled = TRUE, !.stream = dev.stream /\ dev.enabled]
        BY <1>0, <2>1, <2>2 DEF Bus!SetEnabled, Buffers
      <3>. DEFINE s == dev.stream /\ dev.enabled
      <3>2. s \in BOOLEAN
        BY <1>0
      <3>3. s => dev.stream /\ dev.enabled
        OBVIOUS
      <3>. HIDE DEF s
      <3>4. /\ dev' \in Buffers /\ dev'.stream = s
            /\ dev'.waits = dev.waits /\ dev'.head = dev.head /\ dev'.count = dev.count
            /\ dev'.start = dev.start /\ dev'.countdown = dev.countdown /\ dev'.elapsed = dev.elapsed
        BY <1>0, <3>1, <3>2 DEF Buffers, s
      <3>. QED
        BY <3>3, <3>4 DEF Fetched, InTime
    <2>3. CASE ~on
      <3>1. dev' = [dev EXCEPT !.enabled = FALSE, !.count = 0, !.countdown = 0, !.stream = FALSE]
        BY <2>1, <2>3 DEF Bus!SetEnabled
      <3>2. dev' \in Buffers /\ ~dev'.enabled
        <4>1. 0 \in 0 .. BufferSize /\ 0 \in 0 .. SeqWait
          BY BufferNumbers
        <4>. QED
          BY <1>0, <3>1, <4>1 DEF Buffers
      <3>. QED
        BY <3>2 DEF Fetched
    <2>. QED
      BY <2>2, <2>3
  <1>. QED
    BY <1>1, <1>2, <1>3, <1>4 DEF Bus!PrefetchNext

LEMMA PrefetchInitInv == Bus!PrefetchInit => PrefetchInv
  BY BufferNumbers DEF Bus!PrefetchInit, PrefetchInv, Fetched, Buffers

LEMMA PrefetchHolds == PrefetchInv => Bus!NoFasterThanCartridge /\ Bus!PrefetchTypeOK
  BY DEF PrefetchInv, Fetched, Buffers, InTime, Bus!NoFasterThanCartridge, Bus!PrefetchTypeOK,
         Bus!Far

-----------------------------------------------------------------------------
(* Memory: what a store of any width leaves for a load of any width.       *)

MemoryInv == dev = Bus!Idle \/ dev \in Bus!Questions

Rams == {"ewram", "palette", "oam"}

LEMMA QuestionFields ==
  ASSUME NEW q \in Bus!Questions
  PROVE  /\ q.at = "asked" /\ q.region \in Bus!Regions /\ q.width \in {1, 2, 4}
         /\ q.to \in Bus!Span(q.region) /\ q.from \in Bus!Span(q.region)
         /\ q.to \in Nat /\ q.from \in Nat /\ q.from < 32 /\ q.to < 32
         /\ q.region # "vram" => q.from < 16 /\ q.to < 16
         /\ q.by \in Bus!Masters
  <1>1. PICK r \in Bus!Regions :
          q \in [at : {"asked"}, region : {r}, to : Bus!Span(r), width : Bus!Widths,
                 by : Bus!Masters, from : Bus!Span(r)]
    BY DEF Bus!Questions
  <1>2. /\ q.at = "asked" /\ q.region = r /\ q.width \in {1, 2, 4}
        /\ q.to \in Bus!Span(r) /\ q.from \in Bus!Span(r) /\ q.by \in Bus!Masters
    BY <1>1 DEF Bus!Widths
  <1>. QED
    BY <1>2 DEF Bus!Span

(* Where an aligned access lies, and where its bytes do.                   *)
LEMMA Aligned ==
  ASSUME NEW a \in Nat, a < 32, NEW w \in {1, 2, 4}
  PROVE  /\ Bus!Align(a, w) \in Nat /\ Bus!Align(a, w) < 32 /\ Bus!Align(a, w) <= a
         /\ Bus!Align(Bus!Align(a, w), w) = Bus!Align(a, w)
         /\ \E k \in 0 .. 31 : Bus!Align(a, w) = k * w
         /\ a < 16 => Bus!Align(a, w) < 16
         /\ a - Bus!Align(a, w) = a % w /\ a % w \in 0 .. w - 1
  <1>1. CASE w = 1
    BY <1>1 DEF Bus!Align
  <1>2. CASE w = 2
    BY <1>2 DEF Bus!Align
  <1>3. CASE w = 4
    BY <1>3 DEF Bus!Align
  <1>. QED
    BY <1>1, <1>2, <1>3

LEMMA CellsTogether ==
  ASSUME NEW region \in Rams \cup {"vram"}, NEW w \in {1, 2, 4}, NEW k \in 0 .. 31, k * w < 32,
         NEW i \in 0 .. w - 1
  PROVE  /\ Bus!Cell(region, k * w) + i = Bus!Cell(region, k * w + i)
         /\ Bus!Cell(region, k * w) \in Nat
         /\ Bus!Cell(region, k * w) + i <= Bus!Size(region) - 1
  <1>. DEFINE a == k * w
  <1>1. /\ region = "vram" => /\ \A b : Bus!Cell(region, b) = Bus!VramOffset(b)
                              /\ Bus!Size(region) = 12
        /\ region # "vram" => /\ \A b : Bus!Cell(region, b) = b % 8
                              /\ Bus!Size(region) = 8
    BY DEF Rams, Bus!Cell, Bus!Size
  <1>2. /\ (a % 8) + i = (a + i) % 8 /\ a % 8 \in Nat /\ (a % 8) + i <= 7
        /\ (a % 16) + i = (a + i) % 16 /\ a % 16 \in Nat /\ (a % 16) + i <= 15
        /\ (a % 16 >= 12 <=> (a + i) % 16 >= 12)
    <2>1. CASE w = 1
      BY <2>1
    <2>2. CASE w = 2
      BY <2>2
    <2>3. CASE w = 4
      BY <2>3
    <2>. QED
      BY <2>1, <2>2, <2>3
  <1>3. a \in Nat /\ i \in Nat
    BY DEF a
  <1>. HIDE DEF a
  <1>4. CASE region = "vram"
    BY <1>1, <1>2, <1>3, <1>4 DEF Bus!VramOffset, a
  <1>5. CASE region # "vram"
    BY <1>1, <1>2, <1>3, <1>5 DEF a
  <1>. QED
    BY <1>4, <1>5

LEMMA CellRange ==
  ASSUME NEW region \in Rams \cup {"vram"}, NEW a \in Nat, a < 32
  PROVE  Bus!Cell(region, a) \in 0 .. Bus!Size(region) - 1
  <1>1. 1 \in {1, 2, 4} /\ a \in 0 .. 31 /\ a * 1 = a /\ 0 \in 0 .. 1 - 1
    OBVIOUS
  <1>2. /\ Bus!Cell(region, a * 1) \in Nat
        /\ Bus!Cell(region, a * 1) + 0 <= Bus!Size(region) - 1
    BY <1>1, CellsTogether
  <1>3. Bus!Size(region) \in Int
    BY DEF Bus!Size
  <1>. QED
    BY <1>1, <1>2, <1>3

LEMMA CellsSame ==
  ASSUME NEW region \in Rams \cup {"vram"}, NEW a \in Nat, a < 36, NEW b \in Nat, b < 36
  PROVE  Bus!SameCell(region, a, b) <=> Bus!Cell(region, a) = Bus!Cell(region, b)
  <1>1. CASE region = "vram"
    <2>. DEFINE x == a % 16
                y == b % 16
    <2>1. x \in 0 .. 15 /\ y \in 0 .. 15
      OBVIOUS
    <2>2. Bus!SameCell(region, a, b) <=> x = y \/ \E c \in 8 .. 11 : {x, y} = {c, c + 4}
      BY <1>1 DEF Bus!SameCell
    <2>3. /\ Bus!Cell(region, a) = IF x >= 12 THEN x - 4 ELSE x
          /\ Bus!Cell(region, b) = IF y >= 12 THEN y - 4 ELSE y
      BY <1>1 DEF Bus!Cell, Bus!VramOffset
    <2>. HIDE DEF x, y
    <2>4. ASSUME NEW c \in 8 .. 11, {x, y} = {c, c + 4}
          PROVE  (IF x >= 12 THEN x - 4 ELSE x) = (IF y >= 12 THEN y - 4 ELSE y)
      <3>1. (x = c /\ y = c + 4) \/ (x = c + 4 /\ y = c)
        <4>1. c # c + 4 /\ c \in {x, y} /\ c + 4 \in {x, y} /\ x \in {c, c + 4} /\ y \in {c, c + 4}
          BY <2>4
        <4>. QED
          BY <4>1
      <3>. QED
        BY <2>1, <3>1
    <2>5. ASSUME (IF x >= 12 THEN x - 4 ELSE x) = (IF y >= 12 THEN y - 4 ELSE y), x # y
          PROVE  \E c \in 8 .. 11 : {x, y} = {c, c + 4}
      <3>1. \/ x \in 8 .. 11 /\ y = x + 4
            \/ y \in 8 .. 11 /\ x = y + 4
        BY <2>1, <2>5
      <3>. QED
        BY <3>1
    <2>6. (IF x >= 12 THEN x - 4 ELSE x) = (IF y >= 12 THEN y - 4 ELSE y)
            <=> x = y \/ \E c \in 8 .. 11 : {x, y} = {c, c + 4}
      BY <2>4, <2>5
    <2>. QED
      BY <2>2, <2>3, <2>6
  <1>2. CASE region # "vram"
    BY <1>2 DEF Rams, Bus!SameCell, Bus!Cell, Bus!Size
  <1>. QED
    BY <1>1, <1>2

LEMMA FunctionLen ==
  ASSUME NEW n \in Nat, NEW f, DOMAIN f = 1 .. n, f = [i \in 1 .. n |-> f[i]]
  PROVE  Len(f) = n
  <1>. DEFINE V == {f[i] : i \in 1 .. n}
  <1>1. f \in [1 .. n -> V]
    <2>1. \A i \in 1 .. n : f[i] \in V
      OBVIOUS
    <2>. HIDE DEF V
    <2>. QED
      BY <2>1
  <1>. HIDE DEF V
  <1>2. f \in Seq(V)
    BY <1>1
  <1>. QED
    BY <1>2

LEMMA LanesAre ==
  ASSUME NEW w \in {1, 2, 4}
  PROVE  /\ Len(Bus!Lanes(w)) = w
         /\ \A j \in 0 .. w - 1 : Bus!Lanes(w)[j + 1] = Bus!New(j)
  <1>1. DOMAIN Bus!Lanes(w) = 1 .. w /\ w \in Nat
    BY DEF Bus!Lanes
  <1>2. Len(Bus!Lanes(w)) = w
    <2>. DEFINE f == Bus!Lanes(w)
    <2>1. f = [i \in 1 .. w |-> Bus!New(i - 1)]
      BY DEF Bus!Lanes
    <2>2. f \in Seq({Bus!New(i) : i \in Int})
      BY <1>1, <2>1
    <2>. HIDE DEF f
    <2>. QED
      BY <1>1, <2>2 DEF f
  <1>3. ASSUME NEW j \in 0 .. w - 1
        PROVE  Bus!Lanes(w)[j + 1] = Bus!New(j)
    <2>1. j + 1 \in 1 .. w /\ (j + 1) - 1 = j
      OBVIOUS
    <2>. QED
      BY <2>1 DEF Bus!Lanes
  <1>. QED
    BY <1>2, <1>3

LEMMA PutCell ==
  ASSUME NEW mem, NEW from, NEW lanes, NEW c \in DOMAIN mem, NEW n, Len(lanes) - 1 = n
  PROVE  Bus!Put(mem, from, lanes)[c] =
           IF c - from \in 0 .. n THEN lanes[c - from + 1] ELSE mem[c]
  BY DEF Bus!Put

(* Memory after a store, cell by cell: how many cells it writes, from where*)
(* on, and what they hold then.                                            *)
Doubled(q) == q.width = 1 /\ q.region \in {"palette", "vram"}
Written(q) == IF Doubled(q) THEN 2 ELSE q.width
At(q) == Bus!Align(q.to, Written(q))
Ignored(q) == q.region = "oam" /\ q.width = 1

LEMMA StoredRam ==
  ASSUME NEW q \in Bus!Questions, q.region \in Rams \cup {"vram"},
         NEW c \in 0 .. Bus!Size(q.region) - 1
  PROVE  LET to == Bus!Cell(q.region, At(q))
         IN  Bus!After(q)[c] = IF Ignored(q) \/ ~(c - to \in 0 .. Written(q) - 1)
                               THEN Bus!Old(c)
                               ELSE Bus!New(IF Doubled(q) THEN 0 ELSE c - to)
  <1>. DEFINE mem == Bus!Cells(q.region)
              to == Bus!Cell(q.region, Bus!Align(q.to, q.width))
  <1>0. /\ q.width \in {1, 2, 4} /\ q.to \in Nat /\ q.to < 32 /\ c \in Int
        /\ Bus!Size(q.region) \in {8, 12}
    BY QuestionFields DEF Bus!Size, Rams
  <1>1. c \in DOMAIN mem /\ mem[c] = Bus!Old(c)
    BY DEF Bus!Cells, Rams
  <1>2. Bus!After(q) = Bus!BusWrite(q.region, mem, q.to, q.width, q.by)
    BY DEF Bus!After
  <1>. HIDE DEF mem
  <1>3. CASE Ignored(q)
    <2>1. Bus!After(q) = mem
      BY <1>2, <1>3 DEF Bus!BusWrite, Ignored
    <2>. QED
      BY <1>1, <1>3, <2>1
  <1>4. CASE ~Ignored(q) /\ ~Doubled(q)
    <2>1. Bus!After(q) = Bus!Put(mem, to, Bus!Lanes(q.width))
      <3>1. CASE q.region = "ewram"
        BY <1>2, <3>1 DEF Bus!BusWrite
      <3>2. CASE q.region \in {"palette", "vram"}
        BY <1>2, <1>4, <3>2 DEF Bus!BusWrite, Doubled
      <3>3. CASE q.region = "oam"
        BY <1>2, <1>4, <3>3 DEF Bus!BusWrite, Ignored
      <3>. QED
        BY <3>1, <3>2, <3>3 DEF Rams
    <2>2. Written(q) = q.width /\ to = Bus!Cell(q.region, At(q))
      BY <1>4 DEF Written, At
    <2>. HIDE DEF to
    <2>3. Bus!After(q)[c] = IF c - to \in 0 .. q.width - 1
                            THEN Bus!Lanes(q.width)[c - to + 1] ELSE Bus!Old(c)
      <3>1. Len(Bus!Lanes(q.width)) - 1 = q.width - 1
        BY <1>0, LanesAre
      <3>2. Bus!Put(mem, to, Bus!Lanes(q.width))[c] =
              IF c - to \in 0 .. q.width - 1 THEN Bus!Lanes(q.width)[c - to + 1] ELSE mem[c]
        <4>. DEFINE l == Bus!Lanes(q.width)
                    n == q.width - 1
        <4>1. c \in DOMAIN mem /\ Len(l) - 1 = n
          BY <1>1, <3>1
        <4>. HIDE DEF l, n
        <4>2. Bus!Put(mem, to, l)[c] = IF c - to \in 0 .. n THEN l[c - to + 1] ELSE mem[c]
          BY <4>1, PutCell
        <4>. QED
          BY <4>2 DEF l, n
      <3>. QED
        BY <1>1, <2>1, <3>2, Zenon
    <2>4. c - to \in 0 .. q.width - 1 => Bus!Lanes(q.width)[c - to + 1] = Bus!New(c - to)
      BY <1>0, LanesAre
    <2>. QED
      BY <1>4, <2>2, <2>3, <2>4
  <1>5. CASE ~Ignored(q) /\ Doubled(q)
    <2>. DEFINE at == Bus!Cell(q.region, At(q))
    <2>1. q.width = 1 /\ q.region \in {"palette", "vram"} /\ Written(q) = 2
      BY <1>5 DEF Doubled, Written
    <2>2. Bus!After(q) = Bus!Put(mem, Bus!Align(to, 2), <<Bus!New(0), Bus!New(0)>>)
      BY <1>2, <2>1 DEF Bus!BusWrite
    <2>3. Bus!Align(to, 2) = at
      <3>1. Bus!Align(q.to, 1) = q.to /\ Bus!Align(q.to, 2) = q.to - (q.to % 2) /\ q.to \in 0 .. 31
        BY <1>0 DEF Bus!Align
      <3>2. CASE q.region = "vram"
        BY <2>1, <3>1, <3>2 DEF At, Bus!Cell, Bus!VramOffset, Bus!Align
      <3>3. CASE q.region = "palette"
        BY <2>1, <3>1, <3>3 DEF At, Bus!Cell, Bus!Align, Bus!Size
      <3>. QED
        BY <2>1, <3>2, <3>3
    <2>. HIDE DEF at, to
    <2>4. Bus!After(q)[c] = IF c - at \in 0 .. 1 THEN <<Bus!New(0), Bus!New(0)>>[c - at + 1]
                            ELSE Bus!Old(c)
      <3>1. Len(<<Bus!New(0), Bus!New(0)>>) - 1 = 1
        OBVIOUS
      <3>. QED
        <4>. DEFINE l == <<Bus!New(0), Bus!New(0)>>
        <4>1. c \in DOMAIN mem /\ Len(l) - 1 = 1
          BY <1>1, <3>1
        <4>. HIDE DEF l
        <4>2. Bus!Put(mem, at, l)[c] = IF c - at \in 0 .. 1 THEN l[c - at + 1] ELSE mem[c]
          BY <4>1, PutCell
        <4>3. Bus!After(q) = Bus!Put(mem, at, l)
          BY <2>2, <2>3 DEF l
        <4>. QED
          BY <1>1, <4>2, <4>3 DEF l
    <2>5. c - at \in 0 .. 1 => <<Bus!New(0), Bus!New(0)>>[c - at + 1] = Bus!New(0)
      <3>. SUFFICES ASSUME c - at \in 0 .. 1
                    PROVE  <<Bus!New(0), Bus!New(0)>>[c - at + 1] = Bus!New(0)
        OBVIOUS
      <3>1. c - at + 1 \in {1, 2}
        OBVIOUS
      <3>. QED
        BY <3>1
    <2>. QED
      BY <1>5, <2>1, <2>4, <2>5 DEF at
  <1>. QED
    BY <1>3, <1>4, <1>5

(* What a read of a RAM returns: the cells of its bytes.                   *)
Bytes(region, mem, a, w) == [i \in 1 .. w |-> mem[Bus!Cell(region, a + i - 1)]]

LEMMA RamRead ==
  ASSUME NEW region \in Rams \cup {"vram"}, NEW mem, NEW a \in Nat, a < 32,
         NEW w \in {1, 2, 4}, NEW by
  PROVE  Bus!BusRead(region, mem, a, w, by) = Bytes(region, mem, Bus!Align(a, w), w)
  <1>1. PICK k \in 0 .. 31 : Bus!Align(a, w) = k * w
    BY Aligned
  <1>2. k * w \in Nat /\ k * w < 32
    BY <1>1, Aligned
  <1>3. Bus!BusRead(region, mem, a, w, by) =
          [i \in 1 .. w |-> mem[Bus!Cell(region, k * w) + i - 1]]
    BY <1>1 DEF Bus!BusRead, Rams
  <1>4. ASSUME NEW i \in 1 .. w
        PROVE  Bus!Cell(region, k * w) + i - 1 = Bus!Cell(region, k * w + i - 1)
    <2>. DEFINE j == i - 1
    <2>1. j \in 0 .. w - 1 /\ i \in Nat /\ k * w \in Nat
      BY <1>2
    <2>. HIDE DEF j
    <2>2. /\ Bus!Cell(region, k * w) + j = Bus!Cell(region, k * w + j)
          /\ Bus!Cell(region, k * w) \in Nat
      BY <1>2, <2>1, CellsTogether
    <2>3. (k * w) + i - 1 = (k * w) + j
      BY <2>1 DEF j
    <2>4. Bus!Cell(region, k * w) + i - 1 = Bus!Cell(region, k * w) + j
      BY <2>1, <2>2 DEF j
    <2>. QED
      BY <2>2, <2>3, <2>4, Zenon
  <1>5. Bus!BusRead(region, mem, a, w, by) =
          [i \in 1 .. w |-> mem[Bus!Cell(region, k * w + i - 1)]]
    BY <1>3, <1>4
  <1>. QED
    BY <1>1, <1>5 DEF Bytes

LEMMA RamByte ==
  ASSUME NEW q \in Bus!Questions, q.region \in Rams \cup {"vram"}, NEW a \in Nat, a < 32
  PROVE  Bus!Byte(q, a) = Bus!After(q)[Bus!Cell(q.region, a)]
  <1>1. Bus!Align(a, 1) = a
    BY DEF Bus!Align
  <1>2. Bus!BusRead(q.region, Bus!After(q), a, 1, "cpu") =
          Bytes(q.region, Bus!After(q), Bus!Align(a, 1), 1)
    BY RamRead
  <1>3. a + 1 - 1 = a /\ 1 \in 1 .. 1
    OBVIOUS
  <1>. QED
    BY <1>1, <1>2, <1>3 DEF Bus!Byte, Bytes

LEMMA RamWidthsAgree ==
  ASSUME NEW q \in Bus!Questions, q.region \in Rams \cup {"vram"}
  PROVE  Bus!WidthsAgree(q)
  <1>. SUFFICES ASSUME NEW w \in {1, 2, 4}
                PROVE  Bus!BusRead(q.region, Bus!After(q), Bus!Align(q.from, w), w, "cpu") =
                         [i \in 1 .. w |-> Bus!Byte(q, Bus!Align(q.from, w) + i - 1)]
    BY DEF Bus!WidthsAgree, Bus!Widths, Rams
  <1>. DEFINE a == Bus!Align(q.from, w)
  <1>1. a \in Nat /\ a < 32 /\ Bus!Align(a, w) = a /\ \E k \in 0 .. 31 : a = k * w
    BY QuestionFields, Aligned
  <1>. HIDE DEF a
  <1>2. Bus!BusRead(q.region, Bus!After(q), a, w, "cpu") =
          [i \in 1 .. w |-> Bus!After(q)[Bus!Cell(q.region, a + i - 1)]]
    <2>1. Bus!BusRead(q.region, Bus!After(q), a, w, "cpu") =
            Bytes(q.region, Bus!After(q), Bus!Align(a, w), w)
      BY <1>1, RamRead
    <2>. QED
      BY <1>1, <2>1 DEF Bytes
  <1>3. ASSUME NEW i \in 1 .. w
        PROVE  Bus!Byte(q, a + i - 1) = Bus!After(q)[Bus!Cell(q.region, a + i - 1)]
    <2>1. a + i - 1 \in Nat /\ a + i - 1 < 32
      <3>1. PICK k \in 0 .. 31 : a = k * w
        BY <1>1
      <3>2. CASE w = 1
        BY <1>1, <3>1, <3>2
      <3>3. CASE w = 2
        BY <1>1, <3>1, <3>3
      <3>4. CASE w = 4
        BY <1>1, <3>1, <3>4
      <3>. QED
        BY <3>2, <3>3, <3>4
    <2>. QED
      BY <2>1, RamByte
  <1>. QED
    BY <1>2, <1>3 DEF a

LEMMA RomWidthsAgree ==
  ASSUME NEW q \in Bus!Questions, q.region = "rom"
  PROVE  Bus!WidthsAgree(q)
  <1>. SUFFICES ASSUME NEW w \in {1, 2, 4}
                PROVE  LET a == Bus!Align(q.from, w)
                       IN  Bus!BusRead("rom", Bus!After(q), a, w, "cpu") =
                             [i \in 1 .. w |-> IF a + w > 6 THEN Bus!Beyond(a + i - 1)
                                              ELSE Bus!Byte(q, a + i - 1)]
    BY DEF Bus!WidthsAgree, Bus!Widths, Bus!Size
  <1>. DEFINE a == Bus!Align(q.from, w)
  <1>1. a \in Nat /\ a < 32 /\ Bus!Align(a, w) = a
    BY QuestionFields, Aligned
  <1>. HIDE DEF a
  <1>2. ASSUME NEW b \in Nat, NEW v \in {1, 2, 4}, Bus!Align(b, v) = b
        PROVE  Bus!BusRead("rom", Bus!After(q), b, v, "cpu") =
                 IF b + v > 6 THEN [i \in 1 .. v |-> Bus!Beyond(b + i - 1)]
                 ELSE [i \in 1 .. v |-> Bus!After(q)[b + i - 1]]
    BY <1>2 DEF Bus!BusRead, Bus!RomAccessible, Bus!Cell, Bus!Size
  <1>3. ASSUME NEW i \in 1 .. w, ~(a + w > 6)
        PROVE  Bus!Byte(q, a + i - 1) = Bus!After(q)[a + i - 1]
    <2>. DEFINE b == a + i - 1
    <2>1. b \in Nat /\ ~(b + 1 > 6) /\ b + 1 - 1 = b
      BY <1>1, <1>3
    <2>. HIDE DEF b
    <2>2. Bus!Align(b, 1) = b
      BY <2>1 DEF Bus!Align
    <2>3. Bus!BusRead("rom", Bus!After(q), b, 1, "cpu") = [j \in 1 .. 1 |-> Bus!After(q)[b + j - 1]]
      BY <1>2, <2>1, <2>2
    <2>4. Bus!Byte(q, b) = Bus!After(q)[b + 1 - 1]
      BY <2>3 DEF Bus!Byte
    <2>. QED
      BY <2>1, <2>4 DEF b
  <1>4. Bus!BusRead("rom", Bus!After(q), a, w, "cpu") =
          IF a + w > 6 THEN [i \in 1 .. w |-> Bus!Beyond(a + i - 1)]
          ELSE [i \in 1 .. w |-> Bus!After(q)[a + i - 1]]
    BY <1>1, <1>2
  <1>5. CASE a + w > 6
    BY <1>4, <1>5 DEF a
  <1>6. CASE ~(a + w > 6)
    BY <1>3, <1>4, <1>6 DEF a
  <1>. QED
    BY <1>5, <1>6

LEMMA StoresLandOnce ==
  ASSUME NEW q \in Bus!Questions
  PROVE  Bus!StoresLand(q)
  <1>. SUFFICES ASSUME q.region \in Rams \cup {"vram"}
                PROVE  Bus!StoresLand(q)
    BY DEF Bus!StoresLand, Rams
  <1>. DEFINE at == At(q)
              to == Bus!Cell(q.region, At(q))
              c == Bus!Cell(q.region, q.from)
              n == Written(q)
              hit == IF q.region = "oam" /\ q.width = 1 THEN {}
                     ELSE {i \in 0 .. (IF Doubled(q) THEN 1 ELSE q.width - 1) :
                             Bus!SameCell(q.region, at + i, q.from)}
  <1>0. /\ q.width \in {1, 2, 4} /\ q.to \in Nat /\ q.from \in Nat /\ q.from < 32 /\ q.to < 32
        /\ n \in {1, 2, 4}
    BY QuestionFields DEF Written
  <1>1. /\ at \in Nat /\ at < 32 /\ \E k \in 0 .. 31 : at = k * n
    BY <1>0, Aligned DEF At
  <1>2. c \in 0 .. Bus!Size(q.region) - 1 /\ Bus!Size(q.region) \in {8, 12}
    BY <1>0, CellRange DEF Rams, Bus!Size
  <1>3. Bus!Byte(q, q.from) = Bus!After(q)[c]
    BY <1>0, RamByte
  <1>4. Bus!After(q)[c] = IF Ignored(q) \/ ~(c - to \in 0 .. n - 1) THEN Bus!Old(c)
                          ELSE Bus!New(IF Doubled(q) THEN 0 ELSE c - to)
    BY <1>2, StoredRam
  <1>5. ASSUME NEW i \in 0 .. n - 1
        PROVE  (Bus!SameCell(q.region, at + i, q.from) <=> c = to + i) /\ to \in Nat
    <2>1. PICK k \in 0 .. 31 : at = k * n
      BY <1>1
    <2>2. k * n \in Nat /\ k * n < 32 /\ k * n + i \in Nat /\ k * n + i < 36
      BY <1>0, <1>1, <2>1
    <2>. HIDE DEF n
    <2>3. /\ Bus!Cell(q.region, k * n) + i = Bus!Cell(q.region, k * n + i)
          /\ Bus!Cell(q.region, k * n) \in Nat
      BY <1>0, <2>2, CellsTogether
    <2>4. Bus!SameCell(q.region, k * n + i, q.from)
            <=> Bus!Cell(q.region, k * n + i) = Bus!Cell(q.region, q.from)
      <3>. DEFINE b == k * n + i
      <3>1. b \in Nat /\ b < 36 /\ q.from \in Nat /\ q.from < 36
        BY <1>0, <2>2
      <3>. HIDE DEF b
      <3>2. Bus!SameCell(q.region, b, q.from) <=> Bus!Cell(q.region, b) = Bus!Cell(q.region, q.from)
        BY <3>1, CellsSame
      <3>. QED
        BY <3>2 DEF b
    <2>. QED
      BY <2>1, <2>3, <2>4
  <1>6. (IF Doubled(q) THEN 1 ELSE q.width - 1) = n - 1
    BY <1>0 DEF Written
  <1>7. hit = IF Ignored(q) THEN {} ELSE {i \in 0 .. n - 1 : Bus!SameCell(q.region, at + i, q.from)}
    BY <1>6 DEF Ignored
  <1>8. Bus!StoresLand(q) <=>
          /\ \A i \in hit : Bus!Byte(q, q.from) = Bus!New(IF Doubled(q) THEN 0 ELSE i)
          /\ hit = {} => \E b \in Bus!Span(q.region) :
                           Bus!SameCell(q.region, b, q.from) /\ Bus!Byte(q, q.from) = Bus!Old(b)
    <2>1. Bus!Align(q.to, IF Doubled(q) THEN 2 ELSE q.width) = at
      BY DEF At, Written
    <2>2. q.region \in {"ewram", "palette", "vram", "oam"}
      BY DEF Rams
    <2>. HIDE DEF at
    <2>. QED
      BY <2>1, <2>2 DEF Bus!StoresLand, Doubled
  <1>. HIDE DEF hit, at, to, c, n
  <1>9. ASSUME NEW i \in hit
        PROVE  Bus!Byte(q, q.from) = Bus!New(IF Doubled(q) THEN 0 ELSE i)
    <2>1. ~Ignored(q) /\ i \in 0 .. n - 1 /\ Bus!SameCell(q.region, at + i, q.from)
      BY <1>7
    <2>2. c = to + i /\ to \in Nat
      BY <1>5, <2>1
    <2>3. c - to = i /\ c - to \in 0 .. n - 1
      BY <1>0, <2>1, <2>2
    <2>. QED
      BY <1>3, <1>4, <2>1, <2>3
  <1>10. ASSUME hit = {}
         PROVE  \E b \in Bus!Span(q.region) :
                  Bus!SameCell(q.region, b, q.from) /\ Bus!Byte(q, q.from) = Bus!Old(b)
    <2>1. Ignored(q) \/ ~(c - to \in 0 .. n - 1)
      <3>. SUFFICES ASSUME ~Ignored(q), c - to \in 0 .. n - 1 PROVE FALSE
        OBVIOUS
      <3>. DEFINE i == c - to
      <3>1. i \in 0 .. n - 1 /\ to \in Nat /\ c \in Nat
        BY <1>2, <1>5
      <3>2. c = to + i
        BY <3>1
      <3>. HIDE DEF i
      <3>3. i \in hit
        BY <1>5, <1>7, <3>1, <3>2
      <3>. QED
        BY <1>10, <3>3
    <2>2. Bus!Byte(q, q.from) = Bus!Old(c)
      BY <1>3, <1>4, <2>1
    <2>3. c \in Bus!Span(q.region) /\ c \in Nat /\ c < 36
      BY <1>2 DEF Bus!Span, Bus!Size
    <2>4. Bus!Cell(q.region, c) = c
      <3>1. CASE q.region = "vram"
        BY <1>2, <3>1 DEF Bus!Cell, Bus!VramOffset, Bus!Size
      <3>2. CASE q.region # "vram"
        BY <1>2, <3>2 DEF Bus!Cell, Bus!Size, Rams
      <3>. QED
        BY <3>1, <3>2
    <2>5. Bus!SameCell(q.region, c, q.from)
      <3>1. q.from \in Nat /\ q.from < 36
        BY <1>0
      <3>2. Bus!SameCell(q.region, c, q.from) <=> Bus!Cell(q.region, c) = Bus!Cell(q.region, q.from)
        BY <2>3, <3>1, CellsSame
      <3>. QED
        BY <2>4, <3>2 DEF c
    <2>. QED
      BY <2>2, <2>3, <2>5
  <1>. QED
    BY <1>8, <1>9, <1>10

LEMMA BackupKeepsBytes ==
  ASSUME NEW q \in Bus!Questions
  PROVE  Bus!BackupIsBytes(q)
  <1>. SUFFICES ASSUME q.region = "sram"
                PROVE  Bus!Byte(q, q.from) = IF q.from = q.to /\ q.by = "cpu"
                                             THEN Bus!New(q.to % q.width) ELSE Bus!Old(q.from)
    BY DEF Bus!BackupIsBytes
  <1>0. /\ q.width \in {1, 2, 4} /\ q.to \in 0 .. 15 /\ q.from \in 0 .. 15
    BY QuestionFields DEF Bus!Span
  <1>. DEFINE mem == Bus!Cells(q.region)
  <1>1. q.from \in DOMAIN mem /\ mem[q.from] = Bus!Old(q.from)
    BY <1>0 DEF Bus!Cells, Bus!Span
  <1>. HIDE DEF mem
  <1>2. Bus!After(q) = IF q.by = "cpu" THEN Bus!Put(mem, q.to, <<Bus!New(q.to % q.width)>>) ELSE mem
    BY DEF Bus!After, Bus!BusWrite, Bus!SramAccessible, mem
  <1>3. Bus!Byte(q, q.from) = Bus!After(q)[q.from]
    <2>1. Bus!Align(q.from, 1) = q.from
      BY <1>0 DEF Bus!Align
    <2>2. Bus!BusRead(q.region, Bus!After(q), q.from, 1, "cpu") =
            [i \in 1 .. 1 |-> Bus!After(q)[q.from]]
      BY <2>1 DEF Bus!BusRead, Bus!SramAccessible
    <2>. QED
      BY <2>2 DEF Bus!Byte
  <1>4. Bus!Put(mem, q.to, <<Bus!New(q.to % q.width)>>)[q.from] =
          IF q.from - q.to \in 0 .. 0 THEN <<Bus!New(q.to % q.width)>>[q.from - q.to + 1]
          ELSE mem[q.from]
    <2>1. Len(<<Bus!New(q.to % q.width)>>) - 1 = 0
      OBVIOUS
    <2>. QED
      <3>. DEFINE l == <<Bus!New(q.to % q.width)>>
                  n == 0
      <3>1. q.from \in DOMAIN mem /\ Len(l) - 1 = n
        BY <1>1, <2>1
      <3>. HIDE DEF l, n
      <3>2. Bus!Put(mem, q.to, l)[q.from] =
              IF q.from - q.to \in 0 .. n THEN l[q.from - q.to + 1] ELSE mem[q.from]
        BY <3>1, PutCell
      <3>. QED
        BY <3>2 DEF l, n
  <1>5. q.from - q.to \in 0 .. 0 <=> q.from = q.to
    BY <1>0
  <1>6. q.from = q.to => q.from - q.to + 1 = 1
    BY <1>0
  <1>. QED
    BY <1>1, <1>2, <1>3, <1>4, <1>5, <1>6

(* A misaligned load starts at its byte.                                   *)
LEMMA LoadsStart ==
  ASSUME NEW q \in Bus!Questions
  PROVE  Bus!LoadsStartAtTheAddress(q)
  <1>. SUFFICES ASSUME q.region \in Rams
                PROVE  Bus!LoadsStartAtTheAddress(q)
    BY DEF Bus!LoadsStartAtTheAddress, Rams
  <1>. DEFINE mem == Bus!After(q)
              r == q.region
              a == q.from
              cell == mem[a % 8]
              read(b, w) == Bus!BusRead(r, mem, b, w, "cpu")
  <1>0. a \in Nat /\ a < 16 /\ r \in Rams \cup {"vram"} /\ r \in Rams
    BY QuestionFields DEF Rams
  <1>1. Bus!Byte(q, q.from) = cell
    BY <1>0, RamByte DEF Rams, Bus!Cell, Bus!Size
  <1>. HIDE DEF mem, r, a
  <1>2. ASSUME NEW b \in Nat, b < 32, NEW w \in {1, 2, 4}, Bus!Align(b, w) = b
        PROVE  /\ Len(read(b, w)) = w
               /\ \A i \in 1 .. w : read(b, w)[i] = mem[(b + i - 1) % 8]
               /\ DOMAIN read(b, w) = 1 .. w
    <2>1. read(b, w) = Bytes(r, mem, b, w)
      BY <1>0, <1>2, RamRead
    <2>2. Bytes(r, mem, b, w) = [i \in 1 .. w |-> mem[(b + i - 1) % 8]]
      BY <1>0 DEF Bytes, Bus!Cell, Bus!Size, Rams
    <2>. DEFINE f == [i \in 1 .. w |-> mem[(b + i - 1) % 8]]
    <2>4. DOMAIN f = 1 .. w /\ \A i \in 1 .. w : f[i] = mem[(b + i - 1) % 8]
      OBVIOUS
    <2>5. f = [i \in 1 .. w |-> f[i]] /\ w \in Nat
      OBVIOUS
    <2>. HIDE DEF f
    <2>6. Len(f) = w
      BY <2>4, <2>5, FunctionLen
    <2>. QED
      BY <2>1, <2>2, <2>4, <2>6 DEF f
  <1>. DEFINE odd == a % 2
              off == a % 4
  <1>3. /\ odd \in {0, 1} /\ off \in 0 .. 3
        /\ Bus!Align(a, 1) = a /\ Bus!Align(a, 2) = a - odd /\ Bus!Align(a, 4) = a - off
        /\ Bus!Align(a - odd, 2) = a - odd /\ Bus!Align(a - off, 4) = a - off
        /\ a - odd \in Nat /\ a - odd < 32 /\ a - off \in Nat /\ a - off < 32
    <2>1. a \in 0 .. 15
      BY <1>0
    <2>. QED
      BY <2>1 DEF Bus!Align
  <1>4. /\ Len(read(a, 1)) = 1 /\ read(a, 1)[1] = cell /\ DOMAIN read(a, 1) = 1 .. 1
    <2>1. a < 32 /\ 1 \in {1, 2, 4} /\ 1 \in 1 .. 1 /\ a + 1 - 1 = a
      BY <1>0
    <2>. HIDE DEF odd, off
    <2>2. Len(read(a, 1)) = 1 /\ DOMAIN read(a, 1) = 1 .. 1
          /\ \A i \in 1 .. 1 : read(a, 1)[i] = mem[(a + i - 1) % 8]
      BY <1>0, <1>2, <1>3, <2>1
    <2>. QED
      BY <2>1, <2>2
  <1>5. /\ Len(read(a - odd, 2)) = 2 /\ DOMAIN read(a - odd, 2) = 1 .. 2
        /\ read(a - odd, 2)[odd + 1] = cell
    <2>1. 2 \in {1, 2, 4} /\ odd + 1 \in 1 .. 2 /\ (a - odd) + (odd + 1) - 1 = a
      BY <1>0, <1>3
    <2>. HIDE DEF odd, off
    <2>2. Len(read(a - odd, 2)) = 2 /\ DOMAIN read(a - odd, 2) = 1 .. 2
          /\ \A i \in 1 .. 2 : read(a - odd, 2)[i] = mem[((a - odd) + i - 1) % 8]
      BY <1>0, <1>2, <1>3, <2>1
    <2>. QED
      BY <2>1, <2>2
  <1>6. /\ Len(read(a - off, 4)) = 4 /\ DOMAIN read(a - off, 4) = 1 .. 4
        /\ read(a - off, 4)[off + 1] = cell
    <2>1. 4 \in {1, 2, 4} /\ off + 1 \in 1 .. 4 /\ (a - off) + (off + 1) - 1 = a
      BY <1>0, <1>3
    <2>. HIDE DEF odd, off
    <2>2. Len(read(a - off, 4)) = 4 /\ DOMAIN read(a - off, 4) = 1 .. 4
          /\ \A i \in 1 .. 4 : read(a - off, 4)[i] = mem[((a - off) + i - 1) % 8]
      BY <1>0, <1>2, <1>3, <2>1
    <2>. QED
      BY <2>1, <2>2
  <1>. DEFINE L(op) == Bus!CpuLoad(op, r, mem, a)
  <1>7. /\ L("ldr") = Bus!RotateRight(read(Bus!Align(a, 4), 4), off)
        /\ L("ldrb") = Bus!Extended(read(a, 1), Bus!Zero)
        /\ L("ldrh") = Bus!RotateRight(Bus!Extended(read(Bus!Align(a, 2), 2), Bus!Zero), odd)
        /\ L("ldrsb") = Bus!Signed(read(a, 1))
        /\ L("ldrsh") = IF odd = 1 THEN Bus!Signed(read(a, 1)) ELSE Bus!Signed(read(a, 2))
    BY DEF Bus!CpuLoad
  <1>. HIDE DEF cell, read, L, odd, off
  <1>8. ASSUME NEW s, NEW fill, Len(s) \in 1 .. 4
        PROVE  /\ DOMAIN Bus!Extended(s, fill) = 1 .. 4 /\ Len(Bus!Extended(s, fill)) = 4
               /\ \A i \in 1 .. 4 : Bus!Extended(s, fill)[i] = IF i <= Len(s) THEN s[i] ELSE fill
    <2>. DEFINE f == [i \in 1 .. 4 |-> IF i <= Len(s) THEN s[i] ELSE fill]
    <2>2. DOMAIN f = 1 .. 4
      OBVIOUS
    <2>3. Len(f) = 4
      <3>1. f = [i \in 1 .. 4 |-> f[i]] /\ 4 \in Nat
        OBVIOUS
      <3>. HIDE DEF f
      <3>. QED
        BY <2>2, <3>1, FunctionLen
    <2>. QED
      BY <2>2, <2>3 DEF Bus!Extended
  <1>9. ASSUME NEW s, DOMAIN s = 1 .. 4, Len(s) = 4, NEW n \in 0 .. 3
        PROVE  Bus!RotateRight(s, n)[1] = s[n + 1]
    <2>1. (1 - 1 + n) % 4 = n /\ 1 \in 1 .. 4
      OBVIOUS
    <2>. QED
      BY <1>9, <2>1 DEF Bus!RotateRight
  <1>10. L("ldr")[1] = cell
    BY <1>3, <1>6, <1>7, <1>9
  <1>11. L("ldrb")[1] = cell
    BY <1>4, <1>7, <1>8
  <1>12. L("ldrh")[1] = cell
    <2>. DEFINE s == Bus!Extended(read(a - odd, 2), Bus!Zero)
    <2>1. Len(read(a - odd, 2)) \in 1 .. 4 /\ odd + 1 <= 2 /\ odd + 1 \in 1 .. 4 /\ odd \in 0 .. 3
      BY <1>3, <1>5
    <2>2. DOMAIN s = 1 .. 4 /\ Len(s) = 4 /\ s[odd + 1] = cell
      BY <1>5, <1>8, <2>1
    <2>3. L("ldrh") = Bus!RotateRight(s, odd)
      BY <1>3, <1>7
    <2>. HIDE DEF s
    <2>. QED
      BY <1>9, <2>1, <2>2, <2>3
  <1>13. ASSUME NEW s, Len(s) \in {1, 2}, s[1] = cell
         PROVE  /\ Bus!Signed(s)[1] = cell
                /\ \E i \in {1, 2} : /\ Bus!Signed(s)[3] = Bus!SignOf(Bus!Signed(s)[i])
                                     /\ Bus!Signed(s)[4] = Bus!Signed(s)[3]
    <2>. DEFINE f == Bus!SignOf(s[Len(s)])
                e == Bus!Extended(s, f)
    <2>1. Bus!Signed(s) = e
      BY DEF Bus!Signed
    <2>2. Len(s) \in 1 .. 4
      BY <1>13
    <2>. HIDE DEF f
    <2>3. \A i \in 1 .. 4 : e[i] = IF i <= Len(s) THEN s[i] ELSE f
      BY <1>8, <2>2
    <2>. HIDE DEF e
    <2>4. e[1] = s[1] /\ e[Len(s)] = s[Len(s)] /\ e[3] = f /\ e[4] = f
      BY <1>13, <2>2, <2>3
    <2>. QED
      BY <1>13, <2>1, <2>4 DEF f
  <1>14. /\ L("ldrsb") = Bus!Signed(read(a, 1)) /\ Len(read(a, 1)) \in {1, 2} /\ read(a, 1)[1] = cell
    BY <1>4, <1>7
  <1>15. \E b, w : L("ldrsh") = Bus!Signed(read(b, w)) /\ Len(read(b, w)) \in {1, 2}
                   /\ read(b, w)[1] = cell
    <2>1. CASE odd = 1
      BY <1>4, <1>7, <2>1
    <2>2. CASE odd # 1
      <3>1. odd = 0 /\ a - odd = a /\ odd + 1 = 1
        BY <1>0, <1>3, <2>2
      <3>. QED
        BY <1>5, <1>7, <2>2, <3>1
    <2>. QED
      BY <2>1, <2>2
  <1>16. /\ L("ldrsb")[1] = cell
         /\ \E i \in {1, 2} : /\ L("ldrsb")[3] = Bus!SignOf(L("ldrsb")[i])
                              /\ L("ldrsb")[4] = L("ldrsb")[3]
    BY <1>13, <1>14
  <1>17. /\ L("ldrsh")[1] = cell
         /\ \E i \in {1, 2} : /\ L("ldrsh")[3] = Bus!SignOf(L("ldrsh")[i])
                              /\ L("ldrsh")[4] = L("ldrsh")[3]
    BY <1>13, <1>15
  <1>18. \A op \in Bus!Loads : L(op)[1] = Bus!Byte(q, q.from)
    BY <1>1, <1>10, <1>11, <1>12, <1>16, <1>17 DEF Bus!Loads
  <1>. QED
    BY <1>16, <1>17, <1>18 DEF Bus!LoadsStartAtTheAddress, L, mem, r, a

LEMMA MemoryHolds == MemoryInv => Bus!MemoryCoherent /\ Bus!MemoryTypeOK
  <1>. SUFFICES ASSUME MemoryInv PROVE Bus!MemoryCoherent /\ Bus!MemoryTypeOK
    OBVIOUS
  <1>1. CASE dev = Bus!Idle
    BY <1>1 DEF Bus!MemoryCoherent, Bus!MemoryTypeOK, Bus!Idle
  <1>2. CASE dev \in Bus!Questions
    <2>1. dev.region \in Bus!Regions /\ dev.at = "asked"
      BY <1>2, QuestionFields
    <2>2. Bus!WidthsAgree(dev)
      <3>1. dev.region \in Rams \cup {"vram"} \/ dev.region = "rom" \/ dev.region = "sram"
        BY <2>1 DEF Rams, Bus!Regions
      <3>. QED
        BY <1>2, <3>1, RamWidthsAgree, RomWidthsAgree DEF Bus!WidthsAgree
    <2>. QED
      BY <1>2, <2>1, <2>2, StoresLandOnce, BackupKeepsBytes, LoadsStart
         DEF Bus!MemoryCoherent, Bus!MemoryTypeOK
  <1>. QED
    BY <1>1, <1>2 DEF MemoryInv

LEMMA MemoryInitInv == Bus!MemoryInit => MemoryInv
  BY DEF Bus!MemoryInit, MemoryInv

LEMMA MemoryStep == MemoryInv /\ Bus!MemoryNext => MemoryInv'
  BY DEF Bus!MemoryNext, Bus!Ask, Bus!Answer, MemoryInv

-----------------------------------------------------------------------------
(* The serial link, by the proofs of the module it is an instance of.      *)

Links == INSTANCE SerialLinkProofs WITH
  Halfwords <- LinkHalfwords, NoData <- AllOnes, Modes <- LinkModes, Count <- 2,
  RoundMod <- LinkRounds, MaxSessions <- LinkSessions, Reconciles <- FALSE

(* What the two copies say of a port. *)
LEMMA PortsSame ==
  /\ Links!Id = Link!Id /\ Links!Word = Link!Word /\ Links!Frame = Link!Frame
  /\ Links!Port = Link!Port
  /\ \A m : Links!NewPort(m) = Link!NewPort(m)
  /\ \A p : Links!AwaitingPeer(p) <=> Link!AwaitingPeer(p)
  /\ \A p, r : Links!BeginRound(p, r) = Link!BeginRound(p, r)
  /\ \A p, f : Links!Deliver(p, f) = Link!Deliver(p, f)
  /\ \A p, c, i, n : Links!SetLink(p, c, i, n) = Link!SetLink(p, c, i, n)
  /\ \A p, m, i, s : Links!WriteSiocnt(p, m, i, s) = Link!WriteSiocnt(p, m, i, s)
  <1>1. Links!Id = Link!Id /\ Links!Data = Link!Data
    BY Zenon DEF Links!Id, Link!Id, Links!Data, Link!Data, Links!Byte, Link!Byte
  <1>2. Links!Word = Link!Word /\ Links!Frame = Link!Frame
    BY <1>1, Zenon DEF Links!Word, Link!Word, Links!Frame, Link!Frame
  <1>3. Links!NoResult = Link!NoResult
    BY <1>1, Zenon DEF Links!NoResult, Link!NoResult, Links!Empty, Link!Empty
  <1>4. Links!Port = Link!Port
    BY <1>1, <1>2, Zenon
    DEF Links!Port, Link!Port, Links!Empty, Link!Empty, Links!NoFrame, Link!NoFrame
  <1>5. \A m : Links!NewPort(m) = Link!NewPort(m)
    BY <1>1, <1>3, Zenon
    DEF Links!NewPort, Link!NewPort, Links!Empty, Link!Empty, Links!NoFrame, Link!NoFrame
  <1>6. \A p : Links!Filled(p) = Link!Filled(p)
    BY Zenon DEF Links!Filled, Link!Filled, Links!Empty, Link!Empty, Links!Id, Link!Id,
        Links!Cardinality, Link!Cardinality
  <1>7. \A p : Links!AwaitingPeer(p) <=> Link!AwaitingPeer(p)
    BY <1>6, Zenon DEF Links!AwaitingPeer, Link!AwaitingPeer
  <1>8. \A p : Links!Received(p) = Link!Received(p)
    BY <1>1, Zenon
    DEF Links!Received, Link!Received, Links!Empty, Link!Empty, Links!Byte, Link!Byte
  <1>9. \A p : Links!CompleteIfFull(p) = Link!CompleteIfFull(p)
    BY <1>6, <1>8, Zenon
    DEF Links!CompleteIfFull, Link!CompleteIfFull, Links!CompleteRound, Link!CompleteRound
  <1>10. \A p, r : Links!BeginRound(p, r) = Link!BeginRound(p, r)
    BY <1>9, Zenon
    DEF Links!BeginRound, Link!BeginRound, Links!TxWord, Link!TxWord, Links!Empty, Link!Empty,
        Links!Id, Link!Id
  <1>11. \A p, f : Links!Deliver(p, f) = Link!Deliver(p, f)
    BY <1>9, <1>10, Zenon DEF Links!Deliver, Link!Deliver, Links!Empty, Link!Empty
  <1>12. \A p : Links!OnStart(p) = Link!OnStart(p)
    BY <1>1, <1>10, Zenon
    DEF Links!OnStart, Link!OnStart, Links!DisconnectedFallback, Link!DisconnectedFallback
  <1>13. \A p, m, i, s : Links!WriteSiocnt(p, m, i, s) = Link!WriteSiocnt(p, m, i, s)
    BY <1>12, Zenon DEF Links!WriteSiocnt, Link!WriteSiocnt
  <1>14. \A p, c, i, n : Links!SetLink(p, c, i, n) = Link!SetLink(p, c, i, n)
    BY <1>1, <1>3, Zenon
    DEF Links!SetLink, Link!SetLink, Links!Empty, Link!Empty, Links!NoFrame, Link!NoFrame
  <1>. QED
    BY <1>1, <1>2, <1>4, <1>5, <1>7, <1>10, <1>11, <1>13, <1>14

(* Of a step of one unit. *)
LEMMA UnitsSame ==
  ASSUME NEW u
  PROVE  /\ Links!Guest(u) <=> Link!Guest(u)
         /\ Links!Host(u) <=> Link!Host(u)
  <1>1. \A p : Links!Flush(u, p) <=> Link!Flush(u, p)
    BY PortsSame, Zenon
    DEF Links!Flush, Link!Flush, Links!Reaches, Link!Reaches, Links!NoFrame, Link!NoFrame,
        Links!Peer, Link!Peer
  <1>2. Links!HearOne(u) <=> Link!HearOne(u)
    BY PortsSame, Zenon DEF Links!HearOne, Link!HearOne
  <1>3. \A p : Links!Store(u, p) <=> Link!Store(u, p)
    BY <1>1, PortsSame, Zenon DEF Links!Store, Link!Store
  <1>4. Links!Guest(u) <=> Link!Guest(u)
    BY <1>3, PortsSame, Zenon
    DEF Links!Guest, Link!Guest, Links!GuestSend, Link!GuestSend, Links!GuestControl,
        Link!GuestControl, Links!GuestAcknowledges, Link!GuestAcknowledges
  <1>5. Links!Reconcile(u) <=> Link!Reconcile(u)
    BY PortsSame, Zenon DEF Links!Reconcile, Link!Reconcile, Links!Reaches, Link!Reaches
  <1>6. Links!StartFrame(u) <=> Link!StartFrame(u)
    BY PortsSame, Zenon DEF Links!StartFrame, Link!StartFrame
  <1>7. Links!Poll(u) <=> Link!Poll(u)
    BY <1>1, PortsSame, Zenon DEF Links!Poll, Link!Poll
  <1>8. (Links!Hear(u) <=> Link!Hear(u)) /\ (Links!Receive(u) <=> Link!Receive(u))
    BY <1>2, Zenon DEF Links!Hear, Link!Hear, Links!Receive, Link!Receive
  <1>. QED
    BY <1>4, <1>5, <1>6, <1>7, <1>8, Zenon
    DEF Links!Host, Link!Host, Links!BeginFrame, Link!BeginFrame, Links!Yield, Link!Yield,
        Links!FrameComplete, Link!FrameComplete, Links!Timeout, Link!Timeout

(* SerialLinkProofs is about the module `Link` is an instance of. *)
LEMMA LinksSame ==
  /\ Links!Init <=> Link!Init
  /\ Links!Next <=> Link!Next
  /\ Links!vars = linkVars
  /\ Links!TypeOK <=> Link!TypeOK
  /\ Links!RoundAgreement <=> Link!RoundAgreement
  /\ Links!ParentHeldAtBarrier <=> Link!ParentHeldAtBarrier
  <1>1. Links!Init <=> Link!Init
    BY PortsSame, Zenon DEF Links!Init, Link!Init
  <1>2. Links!Next <=> Link!Next
    <2>1. (Links!Connect <=> Link!Connect) /\ (Links!Cut <=> Link!Cut)
      BY PortsSame, Zenon DEF Links!Connect, Link!Connect, Links!Cut, Link!Cut
    <2>. QED
      BY <2>1, UnitsSame, PortsSame, Zenon DEF Links!Next, Link!Next
  <1>3. Links!vars = linkVars
    BY Zenon DEF Links!vars, linkVars
  <1>4. Links!TypeOK <=> Link!TypeOK
    BY PortsSame, Zenon DEF Links!TypeOK, Link!TypeOK, Links!HostState, Link!HostState
  <1>5. Links!RoundAgreement <=> Link!RoundAgreement
    BY PortsSame, Zenon
    DEF Links!RoundAgreement, Link!RoundAgreement, Links!Linked, Link!Linked,
        Links!Reaches, Link!Reaches
  <1>6. Links!ParentHeldAtBarrier <=> Link!ParentHeldAtBarrier
    BY PortsSame, Zenon DEF Links!ParentHeldAtBarrier, Link!ParentHeldAtBarrier
  <1>. QED
    BY <1>1, <1>2, <1>3, <1>4, <1>5, <1>6

(* The assumptions of SerialLink are among those of the configuration. *)
LEMMA LinkParameters ==
  /\ AllOnes \in Nat /\ LinkHalfwords \subseteq 0 .. AllOnes - 1 /\ 0 \in LinkHalfwords
  /\ LinkModes \subseteq {"Normal8", "Normal32", "Multiplayer", "Other"}
  /\ 2 \in 2 .. 4 /\ LinkRounds \in Nat \ {0, 1} /\ LinkSessions \in Nat
  /\ FALSE \in BOOLEAN
  <1>1. AllOnes \in Nat /\ 2 \in 2 .. 4 /\ FALSE \in BOOLEAN
    BY DEF AllOnes
  <1>. QED
    BY <1>1, GbaAssumption, Zenon

(* The invariant of the serial link: it holds at first, every step keeps   *)
(* it, and it says what RoundsAgree does.                                  *)
LEMMA LinkHolds ==
  /\ Link!Init => Links!LinkInv
  /\ Links!LinkInv /\ (Link!Next \/ UNCHANGED linkVars) => Links!LinkInv'
  /\ Links!LinkInv => Link!TypeOK /\ Link!RoundAgreement /\ Link!ParentHeldAtBarrier
  <1>1. Links!Init => Links!LinkInv
    BY LinkParameters, Links!InitInv
  <1>2. Links!LinkInv /\ [Links!Next]_(Links!vars) => Links!LinkInv'
    BY LinkParameters, Links!StepInv
  <1>3. Links!LinkInv => Links!RoundAgreement
    BY LinkParameters, Links!RoundsSame
  <1>4. Links!LinkInv => Links!ParentHeldAtBarrier
    BY LinkParameters, Links!HeldBack
  <1>5. Links!LinkInv => Links!TypeOK
    BY DEF Links!LinkInv
  <1>6. UNCHANGED linkVars => UNCHANGED Links!vars
    BY Zenon DEF linkVars, Links!vars
  <1>. QED
    BY <1>1, <1>2, <1>3, <1>4, <1>5, <1>6, LinksSame, Zenon

-----------------------------------------------------------------------------
(* All of them together.  The timers' part stands whichever unit runs: the *)
(* others leave the timers alone.                                          *)
GbaInv ==
  /\ TimersInv
  /\ unit = "link" => Links!LinkInv
  /\ unit = "dma" => DmaInv
  /\ unit = "fifo" => FifoInv
  /\ unit = "psg" => PsgInv
  /\ unit = "prefetch" => PrefetchInv
  /\ unit = "memory" => MemoryInv


LEMMA UnitInit ==
  /\ GbaInit => Init
  /\ GbaInit /\ unit = "link" => Link!Init
  /\ GbaInit /\ unit = "dma" => Dma!Init
  /\ GbaInit /\ unit = "fifo" => Sound!FifoInit
  /\ GbaInit /\ unit = "psg" => Sound!PsgInit
  /\ GbaInit /\ unit = "prefetch" => Bus!PrefetchInit
  /\ GbaInit /\ unit = "memory" => Bus!MemoryInit
  BY DEF GbaInit, DeviceInit

LEMMA UnitStep ==
  ASSUME GbaNext
  PROVE  /\ unit' = unit
         /\ Next \/ UNCHANGED vars
         /\ unit = "link" => Link!Next
         /\ unit = "dma" => Dma!Next
         /\ unit = "fifo" => Sound!FifoNext
         /\ unit = "psg" => Sound!PsgNext
         /\ unit = "prefetch" => Bus!PrefetchNext
         /\ unit = "memory" => Bus!MemoryNext
  BY DEF GbaNext, Still

LEMMA GbaInitInv == GbaInit => GbaInv
  BY UnitInit, TimersInit, LinkHolds, DmaInitInv, FifoInitInv, PsgInitInv, PrefetchInitInv,
     MemoryInitInv DEF GbaInv

LEMMA GbaStep == GbaInv /\ [GbaNext]_allVars => GbaInv'
  <1>1. CASE UNCHANGED allVars
    <2>1. UNCHANGED vars /\ UNCHANGED linkVars /\ UNCHANGED <<unit, dev>>
      BY <1>1 DEF allVars
    <2>2. GbaInv => TimersInv'
      BY <2>1, TimersNext DEF GbaInv
    <2>3. Links!LinkInv => Links!LinkInv'
      BY <2>1, LinkHolds
    <2>4. /\ DmaInv => DmaInv'
          /\ FifoInv => FifoInv'
          /\ PsgInv => PsgInv'
          /\ PrefetchInv => PrefetchInv'
          /\ MemoryInv => MemoryInv'
      BY <2>1 DEF DmaInv, FifoInv, PsgInv, PrefetchInv, MemoryInv
    <2>. QED
      BY <2>1, <2>2, <2>3, <2>4 DEF GbaInv
  <1>2. CASE GbaNext
    <2>1. GbaInv => TimersInv'
      BY <1>2, UnitStep, TimersNext DEF GbaInv
    <2>2. GbaInv /\ unit' = "link" => Links!LinkInv'
      BY <1>2, UnitStep, LinkHolds DEF GbaInv
    <2>3. GbaInv /\ unit' = "dma" => DmaInv'
      BY <1>2, UnitStep, DmaStep DEF GbaInv
    <2>4. GbaInv /\ unit' = "fifo" => FifoInv'
      BY <1>2, UnitStep, FifoStep DEF GbaInv
    <2>5. GbaInv /\ unit' = "psg" => PsgInv'
      BY <1>2, UnitStep, PsgStep DEF GbaInv
    <2>6. GbaInv /\ unit' = "prefetch" => PrefetchInv'
      BY <1>2, UnitStep, PrefetchStep DEF GbaInv
    <2>7. GbaInv /\ unit' = "memory" => MemoryInv'
      BY <1>2, UnitStep, MemoryStep DEF GbaInv
    <2>. QED
      BY <2>1, <2>2, <2>3, <2>4, <2>5, <2>6, <2>7 DEF GbaInv
  <1>. QED
    BY <1>1, <1>2

(* The invariant of the parts, in every behaviour of the run. *)
THEOREM GbaInvariant == GbaSpec => []GbaInv
  <1>. QED
    BY GbaInitInv, GbaStep, PTL DEF GbaSpec

(* Two linked machines take the same words from a round, and the parent's  *)
(* game is held at the barrier (crates/rewinds/src/main.rs).               *)
THEOREM LinkedRoundsAgree == GbaSpec => []RoundsAgree
  <1>1. GbaInv => RoundsAgree
    BY LinkHolds DEF GbaInv, RoundsAgree
  <1>. QED
    BY <1>1, GbaInvariant, PTL

(* What is stored is what is loaded, and no prefetched halfword comes      *)
(* before the cartridge had it (crates/gba/src/bus.rs).                    *)
THEOREM MemoryIsCoherent == GbaSpec => []MemoryCoherent
  <1>1. GbaInv => MemoryCoherent
    BY MemoryHolds, PrefetchHolds DEF GbaInv, MemoryCoherent
  <1>. QED
    BY <1>1, GbaInvariant, PTL

(* DMA jobs, sample streams and sound channels (dma.rs, apu.rs and         *)
(* psg.rs of crates/gba/src).                                              *)
THEOREM StreamsAreUnbroken == GbaSpec => []StreamsUnbroken
  <1>1. GbaInv => StreamsUnbroken
    BY DmaHolds, FifoHolds, PsgHolds DEF GbaInv, StreamsUnbroken
  <1>. QED
    BY <1>1, GbaInvariant, PTL
=============================================================================
