----------------------------- MODULE HostsProofs -----------------------------
(***************************************************************************)
(* Proofs about the hosts: the rewind timeline, whose machine stands after *)
(* every seek in the state it had when it played the frame; the run loop,  *)
(* which reports every frame to the host that slices it; the ring to the   *)
(* sound thread; and, by the proofs of the session, the desktop's and the  *)
(* iOS session's saves, pauses and link: for every length of a story, a    *)
(* slice, a frame, a save and a ring, and every set of inputs, sizes and   *)
(* connections.                                                            *)
(***************************************************************************)
EXTENDS MCHosts, QueueProofs

Machine == [played : Seq(Inputs), keypad : Inputs, lastInput : Inputs]

Timelines ==
  [interval : Intervals, capacity : Capacities, keyframes : Seq(Keyframe),
   inputs : Seq(Inputs), base : 0 .. MaxFrame, newest : 0 .. MaxFrame,
   cursor : 0 .. MaxFrame, started : BOOLEAN]

(* Keyframes in increasing frame order.                                    *)
Increasing(ks) == \A i, j \in 1 .. Len(ks) : i < j => ks[i].frame < ks[j].frame

(* Keyframes of the story st.                                              *)
OnStory(ks, st) ==
  /\ ks \in Seq(Keyframe) /\ Len(ks) >= 1
  /\ Increasing(ks)
  /\ \A j \in 1 .. Len(ks) : ks[j].frame <= Len(st) /\ ks[j].played = SubSeq(st, 1, ks[j].frame)

(* The inputs from frame `base` on are those of the story.                 *)
InputsOf(ins, base, st) ==
  /\ ins \in Seq(Inputs) /\ st \in Seq(Inputs) /\ Len(st) <= MaxFrame
  /\ base \in 0 .. Len(st) /\ Len(ins) = Len(st) - base + 1
  /\ \A i \in 2 .. Len(ins) : ins[i] = st[base + i - 1]

(* Every multiple of the interval since `base` has its keyframe.           *)
Covered(ks, base, interval, last) ==
  \A m \in base + 1 .. last : m % interval = 0 => \E j \in 1 .. Len(ks) : ks[j].frame = m

(* What a recorded timeline holds of the story st, the newest frame being  *)
(* its end.                                                                *)
Recorded(ks, ins, base, interval, st) ==
  /\ OnStory(ks, st) /\ InputsOf(ins, base, st) /\ Covered(ks, base, interval, Len(st))
  /\ base = ks[1].frame

Holds(tl, st) ==
  /\ tl.started /\ tl.newest = Len(st)
  /\ Recorded(tl.keyframes, tl.inputs, tl.base, tl.interval, st)

(* The inductive invariant.                                                *)
RewindInv ==
  /\ TypeOK
  /\ Frame(emu) = timeline.cursor
  /\ ~timeline.started => timeline.keyframes = <<>> /\ timeline.inputs = <<>>
  /\ timeline.started =>
       /\ Holds(timeline, story)
       /\ Len(timeline.keyframes) <= timeline.capacity
       /\ timeline.cursor \in timeline.base .. timeline.newest
       /\ emu.played = SubSeq(story, 1, timeline.cursor)
-----------------------------------------------------------------------------
(* Counting from two bases.                                                *)
LEMMA Shift ==
  ASSUME NEW b \in Nat, NEW o \in Nat, NEW l \in Nat, b <= o, o <= l, NEW n \in 2 .. l - o + 1
  PROVE  /\ n \in 1 .. l - o + 1 /\ o - b + n \in 2 .. l - b + 1
         /\ b + (o - b + n) - 1 = o + n - 1 /\ o + n - 1 \in 1 .. l
         /\ n \in 2 .. l - b + 1
  OBVIOUS

(* The multiple of a number at or before another.                          *)
LEMMA MultipleBefore ==
  ASSUME NEW t \in Nat, NEW v \in Nat \ {0}
  PROVE  \E m \in Int : m % v = 0 /\ m <= t /\ t < m + v
  <1>. DEFINE q == t \div v
              r == t % v
  <1>1. q \in Int /\ r \in 0 .. v - 1 /\ t = v * q + r
    OBVIOUS
  <1>. HIDE DEF q, r
  <1>2. (v * q) % v = 0
    BY <1>1
  <1>3. v * q \in Int /\ v * q <= t /\ t < v * q + v
    BY <1>1
  <1>. QED
    BY <1>2, <1>3

(* The end of a sequence, from a place on.                                 *)
LEMMA Rest ==
  ASSUME NEW S, NEW q \in Seq(S), NEW c \in 0 .. Len(q)
  PROVE  /\ SubSeq(q, c + 1, Len(q)) \in Seq(S)
         /\ Len(SubSeq(q, c + 1, Len(q))) = Len(q) - c
         /\ \A i \in 1 .. Len(q) - c : SubSeq(q, c + 1, Len(q))[i] = q[c + i]
  OBVIOUS

LEMMA KeyframeType ==
  ASSUME NEW ks \in Seq(Keyframe), NEW j \in 1 .. Len(ks)
  PROVE  /\ ks[j] \in Keyframe /\ ks[j].frame \in Nat /\ ks[j].frame <= MaxFrame
         /\ ks[j].played \in Seq(Inputs) /\ ks[j].keypad \in Inputs
  <1>1. ks[j] \in Keyframe
    OBVIOUS
  <1>. QED
    BY <1>1, RewindAssumption DEF Keyframe

(* The parts of a record, one by one.                                      *)
LEMMA RecordedParts ==
  ASSUME NEW ks, NEW ins, NEW base, NEW interval, NEW st,
         Recorded(ks, ins, base, interval, st)
  PROVE  /\ ks \in Seq(Keyframe) /\ ins \in Seq(Inputs) /\ st \in Seq(Inputs)
         /\ base \in 0 .. Len(st) /\ Len(ins) = Len(st) - base + 1 /\ Len(ks) >= 1
         /\ Len(st) <= MaxFrame /\ MaxFrame \in Nat /\ base = ks[1].frame
         /\ \A p, q \in 1 .. Len(ks) : p < q => ks[p].frame < ks[q].frame
         /\ \A j \in 1 .. Len(ks) : /\ ks[j].frame \in base .. Len(st)
                                    /\ ks[j].played = SubSeq(st, 1, ks[j].frame)
         /\ \A n \in 2 .. Len(ins) : ins[n] = st[base + n - 1]
         /\ \A m \in base + 1 .. Len(st) :
              m % interval = 0 => \E j \in 1 .. Len(ks) : ks[j].frame = m
  <1>1. /\ ks \in Seq(Keyframe) /\ ins \in Seq(Inputs) /\ st \in Seq(Inputs)
        /\ base \in 0 .. Len(st) /\ Len(ins) = Len(st) - base + 1 /\ Len(ks) >= 1
        /\ Len(st) <= MaxFrame /\ MaxFrame \in Nat /\ base = ks[1].frame
    BY RewindAssumption DEF Recorded, OnStory, InputsOf
  <1>2. \A p, q \in 1 .. Len(ks) : p < q => ks[p].frame < ks[q].frame
    BY Zenon DEF Recorded, OnStory, Increasing
  <1>3. \A j \in 1 .. Len(ks) : ks[j].frame <= Len(st) /\ ks[j].played = SubSeq(st, 1, ks[j].frame)
    BY Zenon DEF Recorded, OnStory
  <1>4. \A n \in 2 .. Len(ins) : ins[n] = st[base + n - 1]
    BY Zenon DEF Recorded, InputsOf
  <1>5. \A m \in base + 1 .. Len(st) :
          m % interval = 0 => \E j \in 1 .. Len(ks) : ks[j].frame = m
    BY Zenon DEF Recorded, Covered
  <1>6. \A j \in 1 .. Len(ks) : ks[j].frame \in base .. Len(st)
    <2>. SUFFICES ASSUME NEW j \in 1 .. Len(ks) PROVE ks[j].frame \in base .. Len(st)
      OBVIOUS
    <2>1. ks[j].frame \in Nat /\ ks[j].frame <= Len(st)
      BY <1>1, <1>3, KeyframeType
    <2>2. j = 1 \/ ks[1].frame < ks[j].frame
      BY <1>1, <1>2
    <2>. QED
      BY <1>1, <2>1, <2>2
  <1>. QED
    BY <1>1, <1>2, <1>3, <1>4, <1>5, <1>6

(* How many keyframes lie at or before a frame: all of them do up to that  *)
(* one, and none after it.                                                 *)
LEMMA UpTo ==
  ASSUME NEW tl, tl.keyframes \in Seq(Keyframe), Increasing(tl.keyframes), NEW n \in Nat
  PROVE  /\ KeyframesUpTo(tl, n) \in 0 .. Len(tl.keyframes)
         /\ \A j \in 1 .. Len(tl.keyframes) :
              tl.keyframes[j].frame <= n <=> j <= KeyframesUpTo(tl, n)
  <1>. DEFINE ks == tl.keyframes
              D == {j \in 1 .. Len(ks) : ks[j].frame <= n}
              T == {j \in Nat : j >= 1 /\ ~(j \in D)}
  <1>1. Len(ks) \in Nat /\ DOMAIN ks = 1 .. Len(ks)
    OBVIOUS
  <1>2. \A j \in 1 .. Len(ks) : ks[j].frame \in Nat
    BY KeyframeType
  <1>3. Len(ks) + 1 \in T
    BY <1>1
  <1>4. PICK m \in T : \A j \in T : m <= j
    BY <1>3, LeastNat
  <1>5. m \in 1 .. Len(ks) + 1
    BY <1>1, <1>3, <1>4
  <1>6. \A j \in 1 .. Len(ks) : j < m => j \in D
    BY <1>4
  <1>7. \A j \in 1 .. Len(ks) : j >= m => ~(j \in D)
    <2>. SUFFICES ASSUME NEW j \in 1 .. Len(ks), j >= m, ks[j].frame <= n PROVE FALSE
      OBVIOUS
    <2>1. m \in 1 .. Len(ks) /\ ~(ks[m].frame <= n)
      BY <1>4, <1>5
    <2>2. j = m \/ ks[m].frame < ks[j].frame
      BY <2>1 DEF Increasing
    <2>. QED
      BY <1>2, <2>1, <2>2
  <1>8. D = 1 .. m - 1
    BY <1>5, <1>6, <1>7
  <1>9. KeyframesUpTo(tl, n) = m - 1
    <2>1. KeyframesUpTo(tl, n) = Max({0} \cup D)
      BY <1>1 DEF KeyframesUpTo
    <2>. HIDE DEF D, T
    <2>2. m - 1 \in {0} \cup D /\ \A y \in {0} \cup D : m - 1 >= y
      BY <1>5, <1>8
    <2>3. \A x \in {0} \cup D : (\A y \in {0} \cup D : x >= y) => x = m - 1
      BY <1>5, <1>8
    <2>4. Max({0} \cup D) = m - 1
      BY <2>2, <2>3 DEF Max
    <2>. QED
      BY <2>1, <2>4
  <1>. HIDE DEF T
  <1>. QED
    BY <1>5, <1>8, <1>9

(* Cutting a recorded story at a frame: what is kept is a record of the    *)
(* story up to it.                                                         *)
LEMMA CutRecorded ==
  ASSUME NEW ks, NEW ins, NEW base, NEW interval, NEW st,
         Recorded(ks, ins, base, interval, st),
         NEW n \in base .. Len(st), NEW k \in 0 .. Len(ks),
         \A j \in 1 .. Len(ks) : ks[j].frame <= n <=> j <= k
  PROVE  Recorded(SubSeq(ks, 1, k), SubSeq(ins, 1, n - base + 1), base, interval,
                  SubSeq(st, 1, n))
  <1>. DEFINE K == SubSeq(ks, 1, k)
              I == SubSeq(ins, 1, n - base + 1)
              s == SubSeq(st, 1, n)
  <1>1. /\ ks \in Seq(Keyframe) /\ ins \in Seq(Inputs) /\ st \in Seq(Inputs)
        /\ base \in 0 .. Len(st) /\ Len(ins) = Len(st) - base + 1 /\ Len(ks) >= 1
        /\ Len(st) <= MaxFrame /\ MaxFrame \in Nat /\ base = ks[1].frame
    BY RecordedParts
  <1>a. \A a, b \in 1 .. Len(ks) : a < b => ks[a].frame < ks[b].frame
    BY RecordedParts
  <1>b. \A j \in 1 .. Len(ks) : /\ ks[j].frame \in base .. Len(st)
                                /\ ks[j].played = SubSeq(st, 1, ks[j].frame)
    BY RecordedParts
  <1>c. \A i \in 2 .. Len(ins) : ins[i] = st[base + i - 1]
    BY RecordedParts
  <1>d. \A m \in base + 1 .. Len(st) :
          m % interval = 0 => \E j \in 1 .. Len(ks) : ks[j].frame = m
    BY RecordedParts
  <1>2. n \in Nat /\ n <= Len(st) /\ k >= 1
    BY <1>1
  <1>3. s \in Seq(Inputs) /\ Len(s) = n /\ \A i \in 1 .. n : s[i] = st[i]
    BY <1>1, <1>2
  <1>4. K \in Seq(Keyframe) /\ Len(K) = k /\ \A j \in 1 .. k : K[j] = ks[j]
    BY <1>1, <1>2
  <1>5. I \in Seq(Inputs) /\ Len(I) = n - base + 1 /\ \A i \in 1 .. n - base + 1 : I[i] = ins[i]
    BY SMTT(30), <1>1, <1>2
  <1>. HIDE DEF K, I, s
  <1>6. \A j \in 1 .. k : K[j].frame <= n /\ K[j].played = SubSeq(s, 1, K[j].frame)
    <2>. SUFFICES ASSUME NEW j \in 1 .. k
                  PROVE  K[j].frame <= n /\ K[j].played = SubSeq(s, 1, K[j].frame)
      OBVIOUS
    <2>1. /\ K[j] = ks[j] /\ ks[j].frame <= n /\ ks[j].frame \in Nat
          /\ ks[j].played = SubSeq(st, 1, ks[j].frame)
      <3>1. j \in 1 .. Len(ks) /\ j <= k
        BY <1>1, <1>2
      <3>2. ks[j].frame \in Nat /\ ks[j].frame <= n
        BY <1>1, <3>1, KeyframeType
      <3>. QED
        BY <1>4, <1>b, <3>1, <3>2, Zenon
    <2>2. SubSeq(st, 1, ks[j].frame) = SubSeq(s, 1, ks[j].frame)
      BY SMTT(30), <1>1, <1>2, <1>3, <2>1
    <2>. QED
      BY <2>1, <2>2
  <1>7. OnStory(K, s)
    <2>1. Increasing(K)
      <3>1. 1 .. k \subseteq 1 .. Len(ks)
        BY <1>1, <1>2
      <3>2. \A a, b \in 1 .. k : a < b => K[a].frame < K[b].frame
        BY <1>4, <1>a, <3>1, Zenon
      <3>. QED
        BY <1>4, <3>2, Zenon DEF Increasing
    <2>. QED
      BY <1>2, <1>3, <1>4, <1>6, <2>1 DEF OnStory
  <1>8. InputsOf(I, base, s)
    <2>1. \A i \in 2 .. Len(I) : I[i] = s[base + i - 1]
      <3>. SUFFICES ASSUME NEW i \in 2 .. Len(I) PROVE I[i] = s[base + i - 1]
        OBVIOUS
      <3>1. i \in 2 .. n - base + 1 /\ base \in Nat /\ Len(st) \in Nat
        BY <1>1, <1>5
      <3>2. n \in Nat /\ base <= n /\ n <= Len(st)
        BY <1>1, <1>2
      <3>3. i \in 1 .. n - base + 1 /\ base + i - 1 \in 1 .. n
        BY <3>1, <3>2, Shift
      <3>4. i \in 2 .. Len(st) - base + 1
        <4>. DEFINE l == Len(st)
        <4>1. l \in Nat /\ n <= l
          BY <3>1, <3>2
        <4>. HIDE DEF l
        <4>2. i \in 2 .. l - base + 1
          BY <3>1, <3>2, <4>1
        <4>. QED
          BY <4>2 DEF l
      <3>5. i \in 2 .. Len(ins)
        BY <1>1, <3>4, Zenon
      <3>. QED
        BY <1>3, <1>5, <1>c, <3>3, <3>5, Zenon
    <2>2. /\ Len(s) <= MaxFrame /\ base \in 0 .. Len(s)
          /\ Len(I) = Len(s) - base + 1
      BY <1>1, <1>2, <1>3, <1>5
    <2>. QED
      BY <1>3, <1>5, <2>1, <2>2, Zenon DEF InputsOf
  <1>9. Covered(K, base, interval, n)
    <2>. SUFFICES ASSUME NEW m \in base + 1 .. n, m % interval = 0
                  PROVE  \E j \in 1 .. k : K[j].frame = m
      BY <1>4 DEF Covered
    <2>1. m \in base + 1 .. Len(st)
      BY <1>1, <1>2
    <2>2. PICK j \in 1 .. Len(ks) : ks[j].frame = m
      BY <1>d, <2>1, Zenon
    <2>. QED
      BY <1>2, <1>4, <2>2
  <1>. QED
    BY <1>1, <1>2, <1>3, <1>4, <1>7, <1>8, <1>9 DEF Recorded, K, I, s

(* Recording one more frame: its input, and a keyframe when it is due.     *)
LEMMA LogRecorded ==
  ASSUME NEW ks, NEW ins, NEW base, NEW interval, NEW st,
         Recorded(ks, ins, base, interval, st), Len(st) < MaxFrame,
         NEW i \in Inputs, NEW k \in Keyframe,
         k.frame = Len(st) + 1, k.played = Append(st, i)
  PROVE  /\ Recorded(Append(ks, k), Append(ins, i), base, interval, Append(st, i))
         /\ (Len(st) + 1) % interval # 0 =>
              Recorded(ks, Append(ins, i), base, interval, Append(st, i))
  <1>. DEFINE K == Append(ks, k)
              I == Append(ins, i)
              s == Append(st, i)
              f == Len(st) + 1
  <1>1. /\ ks \in Seq(Keyframe) /\ ins \in Seq(Inputs) /\ st \in Seq(Inputs)
        /\ base \in 0 .. Len(st) /\ Len(ins) = Len(st) - base + 1 /\ Len(ks) >= 1
        /\ Len(st) <= MaxFrame /\ MaxFrame \in Nat /\ base = ks[1].frame
    BY RecordedParts
  <1>a. \A a, b \in 1 .. Len(ks) : a < b => ks[a].frame < ks[b].frame
    BY RecordedParts
  <1>b. \A j \in 1 .. Len(ks) : /\ ks[j].frame \in base .. Len(st)
                                /\ ks[j].played = SubSeq(st, 1, ks[j].frame)
    BY RecordedParts
  <1>c. \A n \in 2 .. Len(ins) : ins[n] = st[base + n - 1]
    BY RecordedParts
  <1>d. \A m \in base + 1 .. Len(st) :
          m % interval = 0 => \E j \in 1 .. Len(ks) : ks[j].frame = m
    BY RecordedParts
  <1>2. s \in Seq(Inputs) /\ Len(s) = f /\ s[f] = i /\ \A n \in 1 .. Len(st) : s[n] = st[n]
    BY <1>1
  <1>3. /\ K \in Seq(Keyframe) /\ Len(K) = Len(ks) + 1 /\ K[Len(ks) + 1] = k
        /\ \A j \in 1 .. Len(ks) : K[j] = ks[j]
    BY <1>1
  <1>4. /\ I \in Seq(Inputs) /\ Len(I) = Len(ins) + 1 /\ I[Len(ins) + 1] = i
        /\ \A n \in 1 .. Len(ins) : I[n] = ins[n]
    BY <1>1
  <1>. HIDE DEF K, I, s
  <1>5. \A n \in 0 .. Len(st) : SubSeq(s, 1, n) = SubSeq(st, 1, n)
    BY <1>1, <1>2
  <1>6. SubSeq(s, 1, f) = s
    BY <1>1, <1>2
  <1>7. \A j \in 1 .. Len(ks) : /\ ks[j].frame \in 0 .. Len(st)
                                /\ ks[j].played = SubSeq(s, 1, ks[j].frame)
    <2>. SUFFICES ASSUME NEW j \in 1 .. Len(ks)
                  PROVE  /\ ks[j].frame \in 0 .. Len(st)
                         /\ ks[j].played = SubSeq(s, 1, ks[j].frame)
      OBVIOUS
    <2>1. ks[j].frame \in base .. Len(st) /\ ks[j].played = SubSeq(st, 1, ks[j].frame)
      BY <1>b, Zenon
    <2>2. ks[j].frame \in 0 .. Len(st)
      BY SMTT(30), <1>1, <2>1
    <2>. QED
      BY <1>5, <2>1, <2>2, Zenon
  <1>8. OnStory(ks, s)
    BY <1>1, <1>2, <1>7 DEF Recorded, OnStory
  <1>9. OnStory(K, s)
    <2>1. Increasing(K)
      <3>. SUFFICES ASSUME NEW p \in 1 .. Len(K), NEW q \in 1 .. Len(K), p < q
                    PROVE  K[p].frame < K[q].frame
        BY DEF Increasing
      <3>1. CASE q <= Len(ks)
        <4>1. p \in 1 .. Len(ks) /\ q \in 1 .. Len(ks)
          BY <1>1, <1>3, <3>1
        <4>. QED
          BY <1>3, <1>a, <4>1, Zenon
      <3>2. CASE q = Len(ks) + 1
        <4>1. p \in 1 .. Len(ks) /\ K[q] = k
          BY <1>1, <1>3, <3>2
        <4>2. K[p].frame \in 0 .. Len(st)
          BY <1>3, <1>7, <4>1, Zenon
        <4>. QED
          BY <4>1, <4>2
      <3>. QED
        BY <1>1, <1>3, <3>1, <3>2
    <2>2. k.played = SubSeq(s, 1, k.frame)
      BY <1>6 DEF s
    <2>3. \A j \in 1 .. Len(K) : K[j].frame <= Len(s) /\ K[j].played = SubSeq(s, 1, K[j].frame)
      <3>. SUFFICES ASSUME NEW j \in 1 .. Len(K)
                    PROVE  K[j].frame <= Len(s) /\ K[j].played = SubSeq(s, 1, K[j].frame)
        OBVIOUS
      <3>1. CASE j <= Len(ks)
        <4>1. j \in 1 .. Len(ks)
          BY <1>1, <1>3, <3>1
        <4>2. /\ K[j].frame \in 0 .. Len(st)
              /\ K[j].played = SubSeq(s, 1, K[j].frame)
          BY <1>3, <1>7, <4>1, Zenon
        <4>. QED
          BY <1>2, <4>2
      <3>2. CASE j = Len(ks) + 1
        BY <1>1, <1>2, <1>3, <2>2, <3>2
      <3>. QED
        BY <1>1, <1>3, <3>1, <3>2
    <2>. QED
      BY <1>1, <1>3, <2>1, <2>3 DEF OnStory
  <1>10. InputsOf(I, base, s)
    <2>1. \A n \in 2 .. Len(I) : I[n] = s[base + n - 1]
      <3>. SUFFICES ASSUME NEW n \in 2 .. Len(I) PROVE I[n] = s[base + n - 1]
        OBVIOUS
      <3>1. CASE n <= Len(ins)
        <4>1. n \in 2 .. Len(ins) /\ n \in 1 .. Len(ins) /\ base + n - 1 \in 1 .. Len(st)
          BY SMTT(30), <1>1, <3>1
        <4>. QED
          BY <1>2, <1>4, <1>c, <4>1, Zenon
      <3>2. CASE n = Len(ins) + 1
        <4>1. base + n - 1 = f
          BY SMTT(30), <1>1, <3>2
        <4>. QED
          BY <1>2, <1>4, <3>2, <4>1, Zenon
      <3>. QED
        BY SMTT(30), <1>1, <1>4, <3>1, <3>2
    <2>2. /\ Len(s) <= MaxFrame /\ base \in 0 .. Len(s)
          /\ Len(I) = Len(s) - base + 1
      BY SMTT(30), <1>1, <1>2, <1>4
    <2>. QED
      BY <1>2, <1>4, <2>1, <2>2, Zenon DEF InputsOf
  <1>11. Covered(K, base, interval, f)
    <2>. SUFFICES ASSUME NEW m \in base + 1 .. f, m % interval = 0
                  PROVE  \E j \in 1 .. Len(K) : K[j].frame = m
      BY DEF Covered
    <2>1. CASE m = f
      BY <1>1, <1>3, <2>1
    <2>2. CASE m # f
      <3>1. m \in base + 1 .. Len(st)
        BY <1>1, <2>2
      <3>2. PICK j \in 1 .. Len(ks) : ks[j].frame = m
        BY <1>d, <3>1, Zenon
      <3>3. j \in 1 .. Len(K) /\ K[j].frame = m
        BY <1>1, <1>3, <3>2
      <3>. QED
        BY <3>3, Zenon
    <2>. QED
      BY <2>1, <2>2
  <1>12. f % interval # 0 => Covered(ks, base, interval, f)
    BY SMTT(30), <1>1, <1>d DEF Covered
  <1>. QED
    BY <1>1, <1>2, <1>3, <1>8, <1>9, <1>10, <1>11, <1>12 DEF Recorded, K, I, s

(* Keeping the last keyframes only, and the inputs since the first of them.*)
LEMMA TrimRecorded ==
  ASSUME NEW ks, NEW ins, NEW base, NEW interval, NEW st,
         Recorded(ks, ins, base, interval, st),
         NEW d \in 0 .. Len(ks) - 1, NEW oldest, oldest = ks[d + 1].frame
  PROVE  /\ oldest \in base .. Len(st)
         /\ Recorded(SubSeq(ks, d + 1, Len(ks)), SubSeq(ins, oldest - base + 1, Len(ins)),
                     oldest, interval, st)
  <1>. DEFINE K == SubSeq(ks, d + 1, Len(ks))
              I == SubSeq(ins, oldest - base + 1, Len(ins))
  <1>1. /\ ks \in Seq(Keyframe) /\ ins \in Seq(Inputs) /\ st \in Seq(Inputs)
        /\ base \in 0 .. Len(st) /\ Len(ins) = Len(st) - base + 1 /\ Len(ks) >= 1
        /\ Len(st) <= MaxFrame /\ MaxFrame \in Nat /\ base = ks[1].frame
    BY RecordedParts
  <1>a. \A a, b \in 1 .. Len(ks) : a < b => ks[a].frame < ks[b].frame
    BY RecordedParts
  <1>b. \A j \in 1 .. Len(ks) : /\ ks[j].frame \in base .. Len(st)
                                /\ ks[j].played = SubSeq(st, 1, ks[j].frame)
    BY RecordedParts
  <1>c. \A n \in 2 .. Len(ins) : ins[n] = st[base + n - 1]
    BY SMTT(30), RecordedParts
  <1>d. \A m \in base + 1 .. Len(st) :
          m % interval = 0 => \E j \in 1 .. Len(ks) : ks[j].frame = m
    BY RecordedParts
  <1>2. d \in Nat /\ Len(ks) - d >= 1 /\ d + 1 \in 1 .. Len(ks) /\ Len(ks) \in Nat
    BY <1>1
  <1>3. oldest \in base .. Len(st)
    BY <1>b, <1>2, Zenon
  <1>4. oldest \in Nat /\ base \in Nat /\ Len(st) \in Nat /\ oldest - base \in 0 .. Len(st)
    BY SMTT(30), <1>1, <1>3
  <1>5. /\ K \in Seq(Keyframe) /\ Len(K) = Len(ks) - d
        /\ \A j \in 1 .. Len(ks) - d : K[j] = ks[d + j]
    BY <1>1, <1>2
  <1>6. /\ I \in Seq(Inputs) /\ Len(I) = Len(st) - oldest + 1
        /\ \A n \in 1 .. Len(st) - oldest + 1 : I[n] = ins[oldest - base + n]
    <2>. DEFINE c == oldest - base
    <2>1. c \in 0 .. Len(ins) - 1 /\ Len(ins) - c = Len(st) - oldest + 1
      <3>. DEFINE l == Len(st)
      <3>1. base \in Nat /\ l \in Nat /\ oldest \in Nat /\ base <= oldest /\ oldest <= l
            /\ Len(ins) = l - base + 1
        BY <1>1, <1>3, <1>4
      <3>. HIDE DEF l
      <3>2. c \in 0 .. (l - base + 1) - 1 /\ (l - base + 1) - c = l - oldest + 1
        BY <3>1
      <3>. QED
        BY <3>1, <3>2 DEF l
    <2>2. I = SubSeq(ins, c + 1, Len(ins))
      BY DEF I
    <2>. HIDE DEF c, I
    <2>3. /\ I \in Seq(Inputs) /\ Len(I) = Len(ins) - c
          /\ \A n \in 1 .. Len(ins) - c : I[n] = ins[c + n]
      <3>1. ins \in Seq(Inputs) /\ c \in 0 .. Len(ins)
        BY <1>1, <2>1
      <3>. QED
        BY <2>2, <3>1, Rest, Zenon
    <2>. QED
      BY <2>1, <2>3, Zenon DEF c
  <1>. HIDE DEF K, I
  <1>7. \A j \in 1 .. Len(K) : d + j \in 1 .. Len(ks) /\ K[j] = ks[d + j]
    BY <1>2, <1>5
  <1>8. OnStory(K, st)
    <2>1. Increasing(K)
      <3>. SUFFICES ASSUME NEW p \in 1 .. Len(K), NEW q \in 1 .. Len(K), p < q
                    PROVE  K[p].frame < K[q].frame
        BY DEF Increasing
      <3>1. d + p < d + q
        BY <1>2
      <3>. QED
        BY <1>7, <1>a, <3>1, Zenon
    <2>2. \A j \in 1 .. Len(K) : K[j].frame <= Len(st) /\ K[j].played = SubSeq(st, 1, K[j].frame)
      <3>. SUFFICES ASSUME NEW j \in 1 .. Len(K)
                    PROVE  K[j].frame <= Len(st) /\ K[j].played = SubSeq(st, 1, K[j].frame)
        OBVIOUS
      <3>1. K[j].frame \in base .. Len(st) /\ K[j].played = SubSeq(st, 1, K[j].frame)
        BY <1>7, <1>b, Zenon
      <3>. QED
        BY <1>1, <3>1
    <2>. QED
      BY <1>2, <1>5, <2>1, <2>2 DEF OnStory
  <1>9. InputsOf(I, oldest, st)
    <2>1. ASSUME NEW n \in 2 .. Len(I) PROVE I[n] = st[oldest + n - 1]
      <3>1. n \in 2 .. Len(st) - oldest + 1
        BY <1>6
      <3>a. base <= oldest /\ oldest <= Len(st) /\ Len(ins) = Len(st) - base + 1
        BY <1>1, <1>3, <1>4
      <3>2. /\ n \in 1 .. Len(st) - oldest + 1 /\ oldest - base + n \in 2 .. Len(st) - base + 1
            /\ base + (oldest - base + n) - 1 = oldest + n - 1
        <4>1. base \in Nat /\ oldest \in Nat /\ Len(st) \in Nat
          BY <1>1, <1>4
        <4>2. PICK l \in Nat, b \in Nat, o \in Nat : l = Len(st) /\ b = base /\ o = oldest
          BY <4>1, Zenon
        <4>3. b <= o /\ o <= l /\ n \in 2 .. l - o + 1
          BY <3>1, <3>a, <4>2
        <4>4. /\ n \in 1 .. l - o + 1 /\ o - b + n \in 2 .. l - b + 1
              /\ b + (o - b + n) - 1 = o + n - 1
          BY <4>3, Shift
        <4>. QED
          BY <4>2, <4>4, Zenon
      <3>3. I[n] = ins[oldest - base + n] /\ oldest - base + n \in 2 .. Len(ins)
        BY <1>6, <3>2, <3>a, Zenon
      <3>. QED
        BY <1>c, <3>2, <3>3, Zenon
    <2>. QED
      BY SMTT(30), <1>1, <1>3, <1>4, <1>6, <2>1 DEF InputsOf
  <1>10. Covered(K, oldest, interval, Len(st))
    <2>. SUFFICES ASSUME NEW m \in oldest + 1 .. Len(st), m % interval = 0
                  PROVE  \E j \in 1 .. Len(K) : K[j].frame = m
      BY DEF Covered
    <2>1. m \in base + 1 .. Len(st)
      BY SMTT(30), <1>3, <1>4
    <2>2. PICK j \in 1 .. Len(ks) : ks[j].frame = m
      BY <1>d, <2>1, Zenon
    <2>3. j > d
      <3>1. ~(j < d + 1)
        <4>1. j < d + 1 => ks[j].frame < oldest
          BY <1>2, <1>a, Zenon
        <4>. QED
          BY <1>4, <2>2, <4>1
      <3>. QED
        BY <1>2, <3>1
    <2>4. j - d \in 1 .. Len(K) /\ d + (j - d) = j
      BY <1>2, <1>5, <2>3
    <2>. QED
      BY <1>7, <2>2, <2>4
  <1>11. oldest = K[1].frame
    BY <1>2, <1>5
  <1>. QED
    BY <1>3, <1>8, <1>9, <1>10, <1>11 DEF Recorded, K, I

(* The first frame that is recorded.                                       *)
LEMMA FirstRecorded ==
  ASSUME NEW k \in Keyframe, NEW i \in Inputs, NEW interval, NEW st \in Seq(Inputs),
         k.frame = Len(st), k.played = st
  PROVE  Recorded(Append(<<>>, k), Append(<<>>, i), Len(st), interval, st)
  <1>. DEFINE K == Append(<<>>, k)
              I == Append(<<>>, i)
  <1>1. K \in Seq(Keyframe) /\ Len(K) = 1 /\ K[1] = k
    OBVIOUS
  <1>2. I \in Seq(Inputs) /\ Len(I) = 1
    OBVIOUS
  <1>3. Len(st) \in Nat /\ Len(st) <= MaxFrame /\ SubSeq(st, 1, Len(st)) = st
    BY RewindAssumption DEF Keyframe
  <1>. HIDE DEF K, I
  <1>4. OnStory(K, st)
    BY <1>1, <1>3 DEF OnStory, Increasing
  <1>5. InputsOf(I, Len(st), st)
    BY <1>2, <1>3 DEF InputsOf
  <1>6. Covered(K, Len(st), interval, Len(st))
    BY <1>3 DEF Covered
  <1>. QED
    BY <1>1, <1>4, <1>5, <1>6 DEF Recorded, K, I

(* A frame is less than an interval from the keyframe a seek to it starts  *)
(* at.                                                                     *)
LEMMA ReplayIsShort ==
  ASSUME NEW ks, NEW ins, NEW base, NEW interval \in Nat \ {0}, NEW st,
         Recorded(ks, ins, base, interval, st),
         NEW t \in base .. Len(st), NEW k \in 1 .. Len(ks),
         \A j \in 1 .. Len(ks) : ks[j].frame <= t <=> j <= k
  PROVE  t - ks[k].frame < interval
  <1>1. /\ base \in Nat /\ Len(st) \in Nat /\ Len(ks) \in Nat
        /\ \A j \in 1 .. Len(ks) : ks[j].frame \in base .. Len(st)
    BY RecordedParts
  <1>2. ks[k].frame \in base .. Len(st)
    BY <1>1
  <1>3. t \in Nat
    BY <1>1
  <1>4. PICK m \in Int : m % interval = 0 /\ m <= t /\ t < m + interval
    BY <1>3, MultipleBefore
  <1>5. m <= t /\ t - m < interval
    BY <1>3, <1>4
  <1>6. SUFFICES ASSUME m > ks[k].frame PROVE FALSE
    BY <1>2, <1>3, <1>5
  <1>7. m \in base + 1 .. Len(st)
    BY <1>1, <1>2, <1>5, <1>6
  <1>8. PICK j \in 1 .. Len(ks) : ks[j].frame = m
    <2>1. \A n \in base + 1 .. Len(st) :
            n % interval = 0 => \E j \in 1 .. Len(ks) : ks[j].frame = n
      BY RecordedParts
    <2>. QED
      BY <1>4, <1>7, <2>1, Zenon
  <1>9. j <= k
    BY <1>5, <1>8
  <1>10. j = k \/ ks[j].frame < ks[k].frame
    <2>1. j = k \/ j < k
      BY <1>9
    <2>2. \A a, b \in 1 .. Len(ks) : a < b => ks[a].frame < ks[b].frame
      BY RecordedParts
    <2>. QED
      BY <2>1, <2>2
  <1>. QED
    BY <1>2, <1>5, <1>6, <1>8, <1>10

LEMMA HoldsType ==
  ASSUME NEW tl, NEW st, Holds(tl, st)
  PROVE  /\ tl.started /\ tl.newest = Len(st) /\ st \in Seq(Inputs)
         /\ tl.keyframes \in Seq(Keyframe) /\ tl.inputs \in Seq(Inputs)
         /\ Len(tl.keyframes) >= 1 /\ Increasing(tl.keyframes) /\ tl.base \in 0 .. Len(st)
         /\ tl.base = tl.keyframes[1].frame
         /\ Len(tl.inputs) = Len(st) - tl.base + 1
         /\ Len(st) \in Nat /\ Len(st) <= MaxFrame
  BY RewindAssumption DEF Holds, Recorded, OnStory, InputsOf

LEMMA HoldsParts ==
  ASSUME NEW tl, NEW st, Holds(tl, st)
  PROVE  /\ \A j \in 1 .. Len(tl.keyframes) :
              /\ tl.keyframes[j].frame \in tl.base .. Len(st)
              /\ tl.keyframes[j].played = SubSeq(st, 1, tl.keyframes[j].frame)
         /\ \A i \in 2 .. Len(tl.inputs) : tl.inputs[i] = st[tl.base + i - 1]
  <1>. DEFINE ks == tl.keyframes
              ins == tl.inputs
              base == tl.base
              interval == tl.interval
  <1>1. Recorded(ks, ins, base, interval, st)
    BY Zenon DEF Holds
  <1>. HIDE DEF ks, ins, base, interval
  <1>2. /\ \A j \in 1 .. Len(ks) : /\ ks[j].frame \in base .. Len(st)
                                   /\ ks[j].played = SubSeq(st, 1, ks[j].frame)
        /\ \A i \in 2 .. Len(ins) : ins[i] = st[base + i - 1]
    BY <1>1, RecordedParts
  <1>. QED
    BY <1>2 DEF ks, ins, base

(* Branching at a recorded frame.                                          *)
LEMMA TruncateHolds ==
  ASSUME NEW tl \in Timelines, NEW st, Holds(tl, st), NEW n \in tl.base .. tl.newest
  PROVE  /\ TruncateAfter(tl, n) \in Timelines
         /\ Holds(TruncateAfter(tl, n), SubSeq(st, 1, n))
         /\ Len(SubSeq(st, 1, n)) = n
         /\ TruncateAfter(tl, n).interval = tl.interval
         /\ TruncateAfter(tl, n).capacity = tl.capacity
         /\ TruncateAfter(tl, n).cursor = tl.cursor
         /\ Len(TruncateAfter(tl, n).keyframes) <= Len(tl.keyframes)
  <1>. DEFINE k == KeyframesUpTo(tl, n)
              t == TruncateAfter(tl, n)
              ks == SubSeq(tl.keyframes, 1, k)
              ins == SubSeq(tl.inputs, 1, n - tl.base + 1)
  <1>1. /\ tl.keyframes \in Seq(Keyframe) /\ Increasing(tl.keyframes)
        /\ tl.inputs \in Seq(Inputs) /\ tl.newest = Len(st) /\ st \in Seq(Inputs)
        /\ tl.base \in Nat /\ Len(st) \in Nat /\ Len(st) <= MaxFrame /\ MaxFrame \in Nat
    BY HoldsType, RewindAssumption
  <1>2. n \in Nat /\ n <= Len(st) /\ n \in tl.base .. Len(st)
    BY <1>1
  <1>3. /\ k \in 0 .. Len(tl.keyframes)
        /\ \A j \in 1 .. Len(tl.keyframes) : tl.keyframes[j].frame <= n <=> j <= k
    BY <1>1, <1>2, UpTo
  <1>. HIDE DEF k
  <1>4. Recorded(ks, ins, tl.base, tl.interval, SubSeq(st, 1, n))
    <2>1. Recorded(tl.keyframes, tl.inputs, tl.base, tl.interval, st)
      BY DEF Holds
    <2>. QED
      BY <1>2, <1>3, <2>1, CutRecorded
  <1>5. Len(SubSeq(st, 1, n)) = n
    BY <1>1, <1>2
  <1>6. /\ ks \in Seq(Keyframe) /\ ins \in Seq(Inputs)
        /\ n \in 0 .. MaxFrame /\ Len(ks) = k
    BY <1>1, <1>2, <1>3, <1>4 DEF Recorded, OnStory, InputsOf
  <1>7. t = [tl EXCEPT !.keyframes = ks, !.inputs = ins, !.newest = n]
    <2>. DEFINE c == IF n >= tl.base THEN n - tl.base + 1 ELSE 0
    <2>1. c = n - tl.base + 1
      BY <1>1, <1>2
    <2>2. t = [tl EXCEPT !.keyframes = ks, !.inputs = SubSeq(tl.inputs, 1, c), !.newest = n]
      BY Zenon DEF TruncateAfter, k
    <2>. QED
      BY <2>1, <2>2, Zenon
  <1>. HIDE DEF t, ks, ins
  <1>8. /\ t \in Timelines /\ t.keyframes = ks /\ t.inputs = ins /\ t.newest = n
        /\ t.base = tl.base /\ t.interval = tl.interval /\ t.capacity = tl.capacity
        /\ t.cursor = tl.cursor /\ t.started = tl.started
    <2>1. t \in Timelines
      BY <1>6, <1>7, Zenon DEF Timelines
    <2>. QED
      BY <1>7, <2>1 DEF Timelines
  <1>9. Holds(t, SubSeq(st, 1, n))
    BY <1>4, <1>5, <1>8, HoldsType DEF Holds
  <1>. QED
    BY <1>1, <1>3, <1>5, <1>6, <1>8, <1>9 DEF t, ks, ins

(* Trimming a record that grew by a keyframe.                              *)
LEMMA TrimHolds ==
  ASSUME NEW tl \in Timelines, NEW st, Holds(tl, st)
  PROVE  /\ Trim(tl) \in Timelines /\ Holds(Trim(tl), st)
         /\ Trim(tl).interval = tl.interval /\ Trim(tl).capacity = tl.capacity
         /\ Trim(tl).cursor = tl.cursor
         /\ Len(Trim(tl).keyframes) <= tl.capacity
         /\ Trim(tl).base <= tl.newest
  <1>. DEFINE over == Len(tl.keyframes) > tl.capacity
              d == IF over THEN Len(tl.keyframes) - tl.capacity ELSE 0
              ks == SubSeq(tl.keyframes, d + 1, Len(tl.keyframes))
              oldest == tl.keyframes[d + 1].frame
              ins == SubSeq(tl.inputs, oldest - tl.base + 1, Len(tl.inputs))
              t == Trim(tl)
  <1>1. /\ tl.keyframes \in Seq(Keyframe) /\ tl.newest = Len(st) /\ st \in Seq(Inputs)
        /\ tl.inputs \in Seq(Inputs) /\ Len(tl.keyframes) >= 1
        /\ Len(tl.inputs) = Len(st) - tl.base + 1
        /\ tl.base \in 0 .. Len(st) /\ Len(st) \in Nat /\ Len(st) <= MaxFrame /\ MaxFrame \in Nat
    BY HoldsType, RewindAssumption
  <1>2. tl.capacity \in Nat \ {0}
    BY RewindAssumption DEF Timelines
  <1>3. d \in 0 .. Len(tl.keyframes) - 1 /\ Len(tl.keyframes) - d <= tl.capacity
    BY SMTT(30), <1>1, <1>2
  <1>4. /\ oldest \in tl.base .. Len(st)
        /\ Recorded(ks, ins, oldest, tl.interval, st)
    <2>1. Recorded(tl.keyframes, tl.inputs, tl.base, tl.interval, st)
      BY DEF Holds
    <2>. QED
      BY <1>3, <2>1, TrimRecorded
  <1>5. ks = IF over THEN SubSeq(tl.keyframes, Len(tl.keyframes) - tl.capacity + 1,
                                 Len(tl.keyframes))
                     ELSE tl.keyframes
    <2>1. CASE over
      BY <2>1
    <2>2. CASE ~over
      <3>1. SubSeq(tl.keyframes, 1, Len(tl.keyframes)) = tl.keyframes
        BY <1>1
      <3>2. d + 1 = 1
        BY <2>2
      <3>. QED
        BY <2>2, <3>1, <3>2
    <2>. QED
      BY <2>1, <2>2
  <1>6. ks[1].frame = oldest
    BY <1>4 DEF Recorded
  <1>. HIDE DEF d, over
  <1>7. oldest \in Nat /\ oldest <= MaxFrame /\ oldest - tl.base \in Nat
        /\ oldest - tl.base < Len(tl.inputs) /\ tl.base + (oldest - tl.base) = oldest
    <2>. DEFINE o == oldest
                b == tl.base
                l == Len(st)
    <2>1. /\ o \in b .. l /\ b \in 0 .. l /\ l \in Nat /\ l <= MaxFrame /\ MaxFrame \in Nat
          /\ Len(tl.inputs) = l - b + 1
      BY <1>1, <1>4
    <2>. HIDE DEF o, b, l
    <2>2. o \in Nat /\ o <= MaxFrame /\ o - b \in Nat /\ o - b < l - b + 1 /\ b + (o - b) = o
      BY <2>1
    <2>. QED
      BY <2>1, <2>2 DEF o, b, l
  <1>. HIDE DEF ks, oldest
  <1>8. t = [tl EXCEPT !.keyframes = ks, !.inputs = ins, !.base = oldest]
    <2>. DEFINE s == ks[1].frame - tl.base
                g == IF s < Len(tl.inputs) THEN s ELSE Len(tl.inputs) - 1
    <2>1. t = [tl EXCEPT !.keyframes = ks, !.inputs = SubSeq(tl.inputs, g + 1, Len(tl.inputs)),
                         !.base = tl.base + g]
      BY <1>5, Zenon DEF Trim, over
    <2>2. g = oldest - tl.base
      BY <1>6, <1>7
    <2>. QED
      BY <1>7, <2>1, <2>2, Zenon
  <1>. HIDE DEF t, ins
  <1>9. t \in Timelines
    <2>1. ks \in Seq(Keyframe) /\ ins \in Seq(Inputs)
      BY <1>4 DEF Recorded, OnStory, InputsOf
    <2>2. oldest \in 0 .. MaxFrame
      BY <1>1, <1>7
    <2>. QED
      BY <1>8, <2>1, <2>2, Zenon DEF Timelines
  <1>10. /\ t.keyframes = ks /\ t.inputs = ins /\ t.newest = tl.newest
         /\ t.base = oldest /\ t.interval = tl.interval /\ t.capacity = tl.capacity
         /\ t.cursor = tl.cursor /\ t.started = tl.started
    BY <1>8, <1>9 DEF Timelines
  <1>11. Holds(t, st)
    BY <1>4, <1>10 DEF Holds
  <1>12. Len(ks) <= tl.capacity
    <2>1. Len(ks) = Len(tl.keyframes) - d
      <3>1. d \in 0 .. Len(tl.keyframes)
        BY <1>1, <1>3
      <3>. QED
        BY <1>1, <3>1, Rest, Zenon DEF ks
    <2>. QED
      BY <1>3, <2>1
  <1>. QED
    BY <1>1, <1>4, <1>9, <1>10, <1>11, <1>12 DEF t

(* Recording a frame that the machine has just run on from the cursor.     *)
LEMMA RecordHolds ==
  ASSUME NEW tl \in Timelines, NEW st, Holds(tl, st), tl.cursor \in tl.base .. tl.newest,
         Len(tl.keyframes) <= tl.capacity,
         NEW e \in Machine,
         e.played = Append(SubSeq(st, 1, tl.cursor), e.lastInput), Frame(e) <= MaxFrame
  PROVE  /\ Frame(e) = tl.cursor + 1
         /\ Record(tl, e) \in Timelines /\ Holds(Record(tl, e), e.played)
         /\ Record(tl, e).cursor = Frame(e) /\ Record(tl, e).newest = Frame(e)
         /\ Record(tl, e).base <= Frame(e)
         /\ Len(Record(tl, e).keyframes) <= Record(tl, e).capacity
  <1>. DEFINE f == Frame(e)
              past == SubSeq(st, 1, tl.cursor)
              branch == IF tl.started /\ f <= tl.newest THEN TruncateAfter(tl, f - 1) ELSE tl
  <1>1. /\ tl.started /\ tl.newest = Len(st) /\ st \in Seq(Inputs)
        /\ tl.base \in 0 .. Len(st) /\ Len(st) \in Nat /\ Len(st) <= MaxFrame /\ MaxFrame \in Nat
    BY HoldsType, RewindAssumption
  <1>2. e.played \in Seq(Inputs) /\ e.keypad \in Inputs /\ e.lastInput \in Inputs
    BY DEF Machine
  <1>3. tl.cursor \in Nat /\ tl.cursor <= Len(st)
    BY <1>1
  <1>4. past \in Seq(Inputs) /\ Len(past) = tl.cursor
    BY <1>1, <1>3
  <1>5. f = tl.cursor + 1 /\ f \in Nat /\ f <= MaxFrame /\ f - 1 = tl.cursor
    BY <1>2, <1>3, <1>4 DEF Frame
  <1>. HIDE DEF f
  <1>6. /\ branch \in Timelines /\ Holds(branch, past)
        /\ branch.interval = tl.interval /\ branch.capacity = tl.capacity
        /\ branch.cursor = tl.cursor /\ branch.started
        /\ Len(branch.keyframes) <= tl.capacity
    <2>1. CASE f <= tl.newest
      <3>1. branch = TruncateAfter(tl, tl.cursor)
        BY <1>1, <1>5, <2>1
      <3>. HIDE DEF branch, past
      <3>2. /\ branch \in Timelines /\ Holds(branch, past)
            /\ branch.interval = tl.interval /\ branch.capacity = tl.capacity
            /\ branch.cursor = tl.cursor
            /\ Len(branch.keyframes) <= Len(tl.keyframes)
        BY <3>1, TruncateHolds, Zenon DEF past
      <3>3. branch.started /\ branch.keyframes \in Seq(Keyframe) /\ tl.keyframes \in Seq(Keyframe)
            /\ tl.capacity \in Nat
        BY <3>2, HoldsType, RewindAssumption DEF Timelines
      <3>. QED
        BY <3>2, <3>3
    <2>2. CASE ~(f <= tl.newest)
      <3>1. tl.cursor = Len(st)
        BY <1>1, <1>3, <1>5, <2>2
      <3>2. branch = tl /\ past = st
        BY <1>1, <2>2, <3>1
      <3>. HIDE DEF branch, past
      <3>. QED
        BY <1>1, <3>2
    <2>. QED
      BY <2>1, <2>2
  <1>. HIDE DEF branch, past
  <1>. DEFINE ins == Append(branch.inputs, e.lastInput)
              logged == [branch EXCEPT !.inputs = ins, !.base = branch.base,
                                       !.newest = f, !.cursor = f, !.started = TRUE]
              k == Snapshot(e)
              kept == [logged EXCEPT !.keyframes = Append(logged.keyframes, k)]
  <1>7. /\ branch.keyframes \in Seq(Keyframe) /\ branch.inputs \in Seq(Inputs)
        /\ Len(branch.keyframes) >= 1 /\ branch.base \in 0 .. Len(past)
        /\ Len(past) \in Nat /\ Len(past) < MaxFrame /\ f = Len(past) + 1
    BY SMTT(30), <1>1, <1>4, <1>5, <1>6, HoldsType
  <1>8. k \in Keyframe /\ k.frame = f /\ k.played = e.played
    BY <1>1, <1>2, <1>5 DEF Snapshot, Keyframe, f
  <1>9. ins \in Seq(Inputs) /\ f \in 0 .. MaxFrame /\ branch.base \in 0 .. MaxFrame
    BY <1>1, <1>2, <1>5, <1>7
  <1>. HIDE DEF k, ins
  <1>10. /\ logged \in Timelines /\ logged.keyframes = branch.keyframes /\ logged.inputs = ins
         /\ logged.newest = f /\ logged.cursor = f /\ logged.started
         /\ logged.base = branch.base /\ logged.interval = tl.interval
         /\ logged.capacity = tl.capacity
    <2>1. logged \in Timelines
      BY <1>6, <1>9, Zenon DEF Timelines
    <2>. QED
      BY <1>6, <2>1 DEF Timelines
  <1>. HIDE DEF logged
  <1>11. /\ kept \in Timelines /\ kept.keyframes = Append(branch.keyframes, k)
         /\ kept.inputs = ins /\ kept.newest = f /\ kept.cursor = f /\ kept.started
         /\ kept.base = branch.base /\ kept.interval = tl.interval
         /\ kept.capacity = tl.capacity
    <2>1. Append(logged.keyframes, k) \in Seq(Keyframe)
      BY <1>7, <1>8, <1>10
    <2>2. kept \in Timelines
      BY <1>10, <2>1, Zenon DEF Timelines
    <2>. QED
      BY <1>10, <2>2 DEF Timelines
  <1>. HIDE DEF kept
  <1>12. Record(tl, e) = IF logged.keyframes = <<>> \/ f % tl.interval = 0 THEN Trim(kept)
                         ELSE logged
    <2>1. ~(tl.started /\ f = tl.cursor) /\ tl.started
      BY <1>1, <1>3, <1>5
    <2>2. Record(tl, e) =
            LET l == [branch EXCEPT !.inputs = ins, !.base = IF tl.started THEN branch.base ELSE f,
                                    !.newest = f, !.cursor = f, !.started = TRUE]
            IN  IF tl.started /\ f = tl.cursor THEN tl
                ELSE IF l.keyframes = <<>> \/ f % tl.interval = 0
                     THEN Trim([l EXCEPT !.keyframes = Append(l.keyframes, k)])
                     ELSE l
      BY Zenon DEF Record, f, branch, ins, k
    <2>3. (IF tl.started THEN branch.base ELSE f) = branch.base
      BY <2>1
    <2>. QED
      BY <2>1, <2>2, <2>3, Zenon DEF logged, kept
  <1>13. logged.keyframes # <<>>
    BY <1>7, <1>10
  <1>14. Len(e.played) = f /\ e.played = Append(past, e.lastInput)
    BY DEF f, Frame, past
  <1>15. /\ Recorded(Append(branch.keyframes, k), ins, branch.base, tl.interval, e.played)
         /\ f % tl.interval # 0 =>
              Recorded(branch.keyframes, ins, branch.base, tl.interval, e.played)
    <2>1. Recorded(branch.keyframes, branch.inputs, branch.base, tl.interval, past)
      BY <1>6, Zenon DEF Holds
    <2>. QED
      BY <1>2, <1>7, <1>8, <1>14, <2>1, LogRecorded DEF ins
  <1>16. CASE f % tl.interval = 0
    <2>1. Record(tl, e) = Trim(kept)
      BY <1>12, <1>16, Zenon
    <2>2. Holds(kept, e.played)
      BY <1>11, <1>14, <1>15, Zenon DEF Holds
    <2>3. /\ Trim(kept) \in Timelines /\ Holds(Trim(kept), e.played)
          /\ Trim(kept).capacity = kept.capacity /\ Trim(kept).cursor = kept.cursor
          /\ Len(Trim(kept).keyframes) <= kept.capacity /\ Trim(kept).base <= kept.newest
      BY <1>11, <2>2, TrimHolds
    <2>. QED
      BY <1>5, <1>11, <1>14, <2>1, <2>3 DEF f, Holds
  <1>17. CASE f % tl.interval # 0
    <2>1. Record(tl, e) = logged
      BY <1>12, <1>13, <1>17, Zenon
    <2>2. Holds(logged, e.played)
      BY <1>10, <1>14, <1>15, <1>17, Zenon DEF Holds
    <2>3. branch.base <= f
      BY <1>7
    <2>. QED
      BY <1>5, <1>6, <1>10, <2>1, <2>2, <2>3 DEF f
  <1>. QED
    BY <1>16, <1>17, Zenon

(* Recording the first frame of a timeline.                                *)
LEMMA RecordStarts ==
  ASSUME NEW tl \in Timelines, ~tl.started, tl.keyframes = <<>>, tl.inputs = <<>>,
         NEW e \in Machine, Frame(e) <= MaxFrame
  PROVE  /\ Record(tl, e) \in Timelines /\ Holds(Record(tl, e), e.played)
         /\ Record(tl, e).cursor = Frame(e) /\ Record(tl, e).newest = Frame(e)
         /\ Record(tl, e).base <= Frame(e)
         /\ Len(Record(tl, e).keyframes) <= Record(tl, e).capacity
  <1>. DEFINE f == Frame(e)
              ins == Append(<<>>, e.lastInput)
              logged == [tl EXCEPT !.inputs = ins, !.base = f, !.newest = f, !.cursor = f,
                                   !.started = TRUE]
              k == Snapshot(e)
              ks == Append(<<>>, k)
              kept == [logged EXCEPT !.keyframes = ks]
  <1>1. /\ e.played \in Seq(Inputs) /\ e.keypad \in Inputs /\ e.lastInput \in Inputs
        /\ f \in Nat /\ f <= MaxFrame /\ MaxFrame \in Nat /\ f = Len(e.played)
    BY RewindAssumption DEF Machine, Frame
  <1>2. k \in Keyframe /\ k.frame = f /\ k.played = e.played
    BY <1>1 DEF Snapshot, Keyframe
  <1>3. Recorded(ks, ins, f, tl.interval, e.played)
    BY <1>1, <1>2, FirstRecorded, Zenon
  <1>. HIDE DEF f, k
  <1>4. ins \in Seq(Inputs) /\ f \in 0 .. MaxFrame /\ ks \in Seq(Keyframe)
    BY <1>1, <1>2
  <1>. HIDE DEF ins, ks
  <1>5. /\ logged \in Timelines /\ logged.keyframes = <<>> /\ logged.inputs = ins
        /\ logged.newest = f /\ logged.cursor = f /\ logged.started
        /\ logged.base = f /\ logged.interval = tl.interval /\ logged.capacity = tl.capacity
    <2>1. logged \in Timelines
      BY <1>4, Zenon DEF Timelines
    <2>. QED
      BY <2>1 DEF Timelines
  <1>. HIDE DEF logged
  <1>6. /\ kept \in Timelines /\ kept.keyframes = ks /\ kept.inputs = ins
        /\ kept.newest = f /\ kept.cursor = f /\ kept.started
        /\ kept.base = f /\ kept.interval = tl.interval /\ kept.capacity = tl.capacity
    <2>1. kept \in Timelines
      BY <1>4, <1>5, Zenon DEF Timelines
    <2>. QED
      BY <1>5, <2>1 DEF Timelines
  <1>. HIDE DEF kept
  <1>7. Record(tl, e) = Trim(kept)
    <2>. DEFINE branch == IF tl.started /\ f <= tl.newest THEN TruncateAfter(tl, f - 1) ELSE tl
                l == [tl EXCEPT !.inputs = Append(tl.inputs, e.lastInput),
                                !.base = IF tl.started THEN tl.base ELSE f,
                                !.newest = f, !.cursor = f, !.started = TRUE]
    <2>1. branch = tl
      BY Zenon
    <2>2. Record(tl, e) =
            LET m == [branch EXCEPT !.inputs = Append(branch.inputs, e.lastInput),
                                    !.base = IF tl.started THEN branch.base ELSE f,
                                    !.newest = f, !.cursor = f, !.started = TRUE]
            IN  IF tl.started /\ f = tl.cursor THEN tl
                ELSE IF m.keyframes = <<>> \/ f % tl.interval = 0
                     THEN Trim([m EXCEPT !.keyframes = Append(m.keyframes, k)])
                     ELSE m
      BY Zenon DEF Record, f, k
    <2>. HIDE DEF branch
    <2>3. l = logged
      BY Zenon DEF logged, ins
    <2>4. Record(tl, e) = IF tl.started /\ f = tl.cursor THEN tl
                          ELSE IF l.keyframes = <<>> \/ f % tl.interval = 0
                               THEN Trim([l EXCEPT !.keyframes = Append(l.keyframes, k)])
                               ELSE l
      BY <2>1, <2>2, Zenon
    <2>. HIDE DEF l
    <2>. QED
      BY <1>5, <2>3, <2>4, Zenon DEF kept, ks
  <1>8. Holds(kept, e.played)
    BY <1>1, <1>3, <1>6, Zenon DEF Holds
  <1>9. /\ Trim(kept) \in Timelines /\ Holds(Trim(kept), e.played)
        /\ Trim(kept).capacity = kept.capacity /\ Trim(kept).cursor = kept.cursor
        /\ Len(Trim(kept).keyframes) <= kept.capacity /\ Trim(kept).base <= kept.newest
    BY <1>6, <1>8, TrimHolds
  <1>. QED
    BY <1>1, <1>6, <1>7, <1>9 DEF f, Holds

(* A seek reaches the state the machine had when it played the frame.      *)
LEMMA SoughtExact ==
  ASSUME NEW tl \in Timelines, NEW st, Holds(tl, st), NEW target \in tl.base .. tl.newest,
         NEW e \in Machine
  PROVE  /\ Sought(tl, e, target) \in Machine
         /\ Sought(tl, e, target).played = SubSeq(st, 1, target)
         /\ Frame(Sought(tl, e, target)) = target
  <1>. DEFINE near == NearestKeyframe(tl, target)
              restored == Restore(e, near)
              F == [x \in Machine |-> ReplayFrame(tl, x)]
              rep == CHOOSE g : g = [n \in Nat |->
                       IF n = 0 THEN restored ELSE ReplayFrame(tl, g[n - 1])]
  <1>1. /\ tl.newest = Len(st) /\ st \in Seq(Inputs) /\ Len(st) \in Nat
        /\ tl.keyframes \in Seq(Keyframe) /\ Increasing(tl.keyframes)
        /\ tl.inputs \in Seq(Inputs) /\ Len(tl.inputs) = Len(st) - tl.base + 1
        /\ Len(tl.keyframes) >= 1
        /\ tl.base \in Nat /\ tl.base <= Len(st) /\ tl.base = tl.keyframes[1].frame
    BY HoldsType
  <1>s. \A n \in 0 .. Len(st) : Len(SubSeq(st, 1, n)) = n
    BY <1>1
  <1>2. target \in Nat /\ tl.base <= target /\ target <= Len(st)
    BY <1>1
  <1>3. /\ near \in Keyframe /\ near.frame \in tl.base .. target
        /\ near.played = SubSeq(st, 1, near.frame)
    <2>. DEFINE k == KeyframesUpTo(tl, target)
    <2>1. /\ k \in 0 .. Len(tl.keyframes)
          /\ \A j \in 1 .. Len(tl.keyframes) : tl.keyframes[j].frame <= target <=> j <= k
      BY <1>1, <1>2, UpTo
    <2>. HIDE DEF k
    <2>2. 1 <= k /\ k \in 1 .. Len(tl.keyframes)
      BY <1>1, <1>2, <2>1
    <2>3. near = tl.keyframes[k]
      <3>1. k # 0
        BY <2>2
      <3>. QED
        BY <3>1, Zenon DEF NearestKeyframe, k
    <2>4. \A j \in 1 .. Len(tl.keyframes) :
            /\ tl.keyframes[j].frame \in tl.base .. Len(st)
            /\ tl.keyframes[j].played = SubSeq(st, 1, tl.keyframes[j].frame)
      BY HoldsParts, Zenon
    <2>5. tl.keyframes[k].frame <= target
      BY <2>1, <2>2
    <2>. QED
      BY <1>1, <2>2, <2>3, <2>4, <2>5, KeyframeType
  <1>. HIDE DEF near
  <1>4. restored \in Machine /\ restored.played = SubSeq(st, 1, near.frame)
        /\ Frame(restored) = near.frame
    <2>1. near.played \in Seq(Inputs) /\ near.keypad \in Inputs
      BY <1>3 DEF Keyframe
    <2>2. restored \in Machine
      BY <2>1, Zenon DEF Restore, Machine
    <2>3. restored.played = near.played
      BY DEF Restore, Machine
    <2>4. Len(SubSeq(st, 1, near.frame)) = near.frame
      <3>1. near.frame \in 0 .. Len(st)
        BY SMTT(30), <1>1, <1>2, <1>3
      <3>. QED
        BY <1>s, <3>1, Zenon
    <2>. QED
      BY <1>3, <2>2, <2>3, <2>4, Zenon DEF Frame
  <1>. HIDE DEF restored
  <1>5. ASSUME NEW x \in Machine
        PROVE  /\ ReplayFrame(tl, x) \in Machine
               /\ ReplayFrame(tl, x).played =
                    Append(x.played, IF Frame(x) + 1 - tl.base + 1 \in DOMAIN tl.inputs
                                     THEN tl.inputs[Frame(x) + 1 - tl.base + 1] ELSE x.keypad)
    <2>. DEFINE index == Frame(x) + 1 - tl.base + 1
                set == IF index \in DOMAIN tl.inputs THEN SetInput(x, tl.inputs[index]) ELSE x
    <2>1. set \in Machine /\ set.played = x.played
          /\ set.keypad = IF index \in DOMAIN tl.inputs THEN tl.inputs[index] ELSE x.keypad
      <3>. HIDE DEF index
      <3>1. CASE index \in DOMAIN tl.inputs
        <4>1. tl.inputs[index] \in Inputs /\ set = SetInput(x, tl.inputs[index])
          BY <1>1, <3>1
        <4>2. set \in Machine
          BY <4>1, Zenon DEF SetInput, Machine
        <4>. QED
          BY <3>1, <4>1, <4>2 DEF SetInput, Machine
      <3>2. CASE ~(index \in DOMAIN tl.inputs)
        BY <3>2
      <3>. QED
        BY <3>1, <3>2, Zenon
    <2>2. ReplayFrame(tl, x) = RunFrame(set)
      BY Zenon DEF ReplayFrame
    <2>. HIDE DEF set
    <2>3. Append(set.played, set.keypad) \in Seq(Inputs)
      BY <2>1 DEF Machine
    <2>4. RunFrame(set) \in Machine
      BY <2>1, <2>3, Zenon DEF RunFrame, Machine
    <2>5. RunFrame(set).played = Append(set.played, set.keypad)
      BY <2>1 DEF RunFrame, Machine
    <2>. QED
      BY <2>1, <2>2, <2>4, <2>5, Zenon
  <1>6. \E g \in [Nat -> Machine] : g[0] = restored /\ \A n \in Nat : g[n + 1] = F[g[n]]
    <2>. DEFINE G == [n \in Nat |-> F]
    <2>1. F \in [Machine -> Machine]
      BY <1>5
    <2>. HIDE DEF F
    <2>2. G \in [Nat -> [Machine -> Machine]] /\ \A n \in Nat : G[n] = F
      BY <2>1
    <2>. HIDE DEF G
    <2>. QED
      <3>1. restored \in Machine
        BY <1>4
      <3>2. \E g : Iterated(g, Machine, G, restored)
        BY <2>2, <3>1, Iterates
      <3>. QED
        BY <2>2, <3>2, Zenon DEF Iterated
  <1>7. PICK g \in [Nat -> Machine] : g[0] = restored /\ \A n \in Nat : g[n + 1] = F[g[n]]
    BY <1>6, Zenon
  <1>8. g = [n \in Nat |-> IF n = 0 THEN restored ELSE ReplayFrame(tl, g[n - 1])]
    <2>1. ASSUME NEW n \in Nat
          PROVE  g[n] = IF n = 0 THEN restored ELSE ReplayFrame(tl, g[n - 1])
      <3>1. CASE n = 0
        BY <1>7, <3>1
      <3>2. CASE n # 0
        <4>1. n - 1 \in Nat /\ n = n - 1 + 1
          BY <3>2
        <4>2. g[n - 1 + 1] = F[g[n - 1]] /\ g[n - 1] \in Machine
          BY <1>7, <4>1, Zenon
        <4>3. F[g[n - 1]] = ReplayFrame(tl, g[n - 1])
          BY <4>2
        <4>. QED
          BY <3>2, <4>1, <4>2, <4>3, Zenon
      <3>. QED
        BY <3>1, <3>2, Zenon
    <2>. QED
      BY <1>7, <2>1, Zenon
  <1>9. rep = [n \in Nat |-> IF n = 0 THEN restored ELSE ReplayFrame(tl, rep[n - 1])]
    BY <1>8, Zenon
  <1>10. Sought(tl, e, target) = rep[target - near.frame]
    BY <1>4, Zenon DEF Sought, restored, near
  <1>. DEFINE K == near.frame
              good(n) == rep[n] \in Machine /\ rep[n].played = SubSeq(st, 1, K + n)
              T == {n \in Nat : n <= target - K /\ ~good(n)}
  <1>11. K \in Nat /\ tl.base <= K /\ K <= target /\ target - K \in Nat
    BY SMTT(30), <1>1, <1>2, <1>3
  <1>. HIDE DEF rep
  <1>k. restored.played = SubSeq(st, 1, K)
    BY <1>4, Zenon
  <1>m. \A n \in Nat : rep[n] = IF n = 0 THEN restored ELSE ReplayFrame(tl, rep[n - 1])
    <2>. SUFFICES ASSUME NEW m \in Nat
                  PROVE  rep[m] = IF m = 0 THEN restored ELSE ReplayFrame(tl, rep[m - 1])
      OBVIOUS
    <2>. QED
      BY <1>9, Zenon
  <1>. HIDE DEF K
  <1>12. rep[0] = restored /\ \A n \in Nat : rep[n + 1] = ReplayFrame(tl, rep[n])
    <2>1. rep[0] = restored
      <3>1. 0 \in Nat
        OBVIOUS
      <3>. QED
        BY <1>m, <3>1, Zenon
    <2>2. ASSUME NEW n \in Nat PROVE rep[n + 1] = ReplayFrame(tl, rep[n])
      <3>. DEFINE m == n + 1
      <3>1. m \in Nat /\ m # 0 /\ m - 1 = n
        OBVIOUS
      <3>. HIDE DEF m
      <3>2. rep[m] = IF m = 0 THEN restored ELSE ReplayFrame(tl, rep[m - 1])
        BY <1>m, <3>1, Zenon
      <3>3. rep[m] = ReplayFrame(tl, rep[n])
        BY <3>1, <3>2, Zenon
      <3>. QED
        BY <3>3, Zenon DEF m
    <2>. QED
      BY <2>1, <2>2
  <1>13. T = {}
    <2>. SUFFICES ASSUME T # {} PROVE FALSE
      OBVIOUS
    <2>1. PICK n \in T : \A m \in T : n <= m
      BY LeastNat
    <2>2. n \in Nat /\ n <= target - K /\ ~good(n)
      BY Zenon
    <2>3. n # 0
      <3>1. good(0)
        <4>1. K + 0 = K
          BY <1>11
        <4>. QED
          BY <1>4, <1>k, <1>12, <4>1, Zenon
      <3>. QED
        BY <2>2, <3>1
    <2>4. n - 1 \in Nat /\ n - 1 <= target - K /\ ~(n - 1 \in T)
      <3>. HIDE DEF T
      <3>. QED
        BY <1>11, <2>1, <2>2, <2>3
    <2>5. rep[n - 1] \in Machine /\ rep[n - 1].played = SubSeq(st, 1, K + (n - 1))
      BY <2>4, Zenon
    <2>. DEFINE x == rep[n - 1]
                p == K + (n - 1)
                index == Frame(x) + 1 - tl.base + 1
    <2>6. p \in Nat /\ tl.base <= p /\ p < target /\ p + 1 = K + n /\ p < Len(st)
      <3>. DEFINE l == Len(st)
                  b == tl.base
      <3>1. /\ K \in Nat /\ b <= K /\ K <= target /\ target <= l /\ target \in Nat /\ n \in Nat
            /\ n - 1 \in Nat /\ n <= target - K /\ b \in Nat /\ l \in Nat
        BY <1>1, <1>2, <1>11, <2>2, <2>4
      <3>. HIDE DEF l, b
      <3>2. p \in Nat /\ b <= p /\ p < target /\ p + 1 = K + n /\ p < l
        BY <3>1
      <3>. QED
        BY <3>2 DEF l, b
    <2>7. rep[n] = ReplayFrame(tl, x)
      BY <1>12, <2>2, <2>4
    <2>. HIDE DEF x, p
    <2>8. x \in Machine /\ x.played = SubSeq(st, 1, p) /\ Frame(x) = p
      BY SMTT(30), <1>1, <2>5, <2>6 DEF x, p, Frame
    <2>9. /\ ReplayFrame(tl, x) \in Machine
          /\ ReplayFrame(tl, x).played =
               Append(x.played, IF index \in DOMAIN tl.inputs THEN tl.inputs[index] ELSE x.keypad)
      BY <1>5, <2>8, Zenon
    <2>10. index \in DOMAIN tl.inputs /\ tl.inputs[index] = st[p + 1]
      <3>. DEFINE l == Len(st)
                  b == tl.base
      <3>1. index = p + 1 - b + 1 /\ b \in Nat /\ l \in Nat /\ b <= p /\ p < l
        BY <1>1, <2>6, <2>8
      <3>2. Len(tl.inputs) = l - b + 1 /\ DOMAIN tl.inputs = 1 .. Len(tl.inputs)
        BY <1>1
      <3>. HIDE DEF index, l, b
      <3>3. index \in 2 .. l - b + 1 /\ index \in 1 .. l - b + 1 /\ b + index - 1 = p + 1
        BY <2>6, <3>1
      <3>4. \A i \in 2 .. Len(tl.inputs) : tl.inputs[i] = st[b + i - 1]
        BY HoldsParts, Zenon DEF b
      <3>. QED
        BY <3>2, <3>3, <3>4, Zenon
    <2>. HIDE DEF index
    <2>11. ReplayFrame(tl, x).played = Append(SubSeq(st, 1, p), st[p + 1])
      BY <2>8, <2>9, <2>10, Zenon
    <2>12. Append(SubSeq(st, 1, p), st[p + 1]) = SubSeq(st, 1, p + 1)
      BY SMTT(30), <1>1, <2>6
    <2>13. good(n)
      BY <2>6, <2>7, <2>9, <2>11, <2>12, Zenon
    <2>. QED
      BY <2>2, <2>13
  <1>14. good(target - K)
    <2>. DEFINE n == target - K
    <2>1. n \in Nat /\ n <= n
      BY <1>11
    <2>. QED
      BY <1>13, <2>1, Zenon
  <1>15. /\ Sought(tl, e, target) \in Machine
         /\ Sought(tl, e, target).played = SubSeq(st, 1, target)
    <2>1. K + (target - K) = target
      BY <1>2, <1>11
    <2>. QED
      BY <1>10, <1>14, <2>1, Zenon DEF K
  <1>16. Len(SubSeq(st, 1, target)) = target
    BY <1>1, <1>2
  <1>. QED
    BY <1>15, <1>16, Zenon DEF Frame
-----------------------------------------------------------------------------
LEMMA TypeOKIs ==
  TypeOK <=> /\ emu \in Machine /\ timeline \in Timelines
             /\ scrubbing \in BOOLEAN /\ story \in Seq(Inputs)
  BY Zenon DEF TypeOK, Machine, Timelines

(* A state that satisfies the invariant of a started timeline.             *)
LEMMA StartedInv ==
  ASSUME emu' \in Machine, timeline' \in Timelines, scrubbing' \in BOOLEAN,
         Holds(timeline', story'),
         Len(timeline'.keyframes) <= timeline'.capacity,
         Frame(emu') = timeline'.cursor,
         timeline'.cursor \in timeline'.base .. timeline'.newest,
         emu'.played = SubSeq(story', 1, timeline'.cursor)
  PROVE  RewindInv'
  <1>1. story' \in Seq(Inputs) /\ timeline'.started
    BY HoldsType
  <1>2. TypeOK'
    BY <1>1, Zenon DEF TypeOK, Machine, Timelines
  <1>. QED
    BY <1>1, <1>2, Zenon DEF RewindInv, Frame

(* A frame that was recorded leaves the invariant.                         *)
LEMMA RecordedInv ==
  ASSUME emu' \in Machine, scrubbing' \in BOOLEAN, timeline' \in Timelines,
         Holds(timeline', emu'.played), story' = emu'.played,
         timeline'.cursor = Frame(emu'), timeline'.newest = Frame(emu'),
         timeline'.base <= Frame(emu'),
         Len(timeline'.keyframes) <= timeline'.capacity
  PROVE  RewindInv'
  <1>. DEFINE f == Frame(emu')
  <1>1. emu'.played \in Seq(Inputs) /\ f = Len(emu'.played)
    BY DEF Machine, Frame
  <1>2. emu'.played = SubSeq(emu'.played, 1, f) /\ f \in Nat
    BY <1>1
  <1>3. timeline'.base \in 0 .. Len(emu'.played)
    BY HoldsType
  <1>4. f \in timeline'.base .. f
    BY <1>1, <1>2, <1>3
  <1>. HIDE DEF f
  <1>. QED
    BY <1>2, <1>4, StartedInv, Zenon DEF f

LEMMA RewindInit == Init => RewindInv
  <1>. SUFFICES ASSUME Init PROVE RewindInv
    OBVIOUS
  <1>1. emu = [played |-> <<>>, keypad |-> NoInput, lastInput |-> NoInput]
        /\ scrubbing = FALSE /\ story = <<>>
    BY DEF Init
  <1>2. PICK i \in Intervals, c \in Capacities : timeline = NewTimeline(i, c)
    BY Zenon DEF Init
  <1>3. emu \in Machine
    BY <1>1, RewindAssumption DEF Machine
  <1>4. timeline \in Timelines
    BY <1>2, RewindAssumption DEF NewTimeline, Timelines
  <1>5. /\ ~timeline.started /\ timeline.keyframes = <<>> /\ timeline.inputs = <<>>
        /\ timeline.cursor = 0
    BY <1>2 DEF NewTimeline
  <1>6. Frame(emu) = 0
    BY <1>1 DEF Frame
  <1>7. TypeOK
    <2>1. <<>> \in Seq(Inputs) /\ FALSE \in BOOLEAN
      OBVIOUS
    <2>2. scrubbing \in BOOLEAN /\ story \in Seq(Inputs)
      BY <1>1, <2>1, Zenon
    <2>. QED
      BY <1>3, <1>4, <2>2, TypeOKIs, Zenon
  <1>. QED
    BY <1>5, <1>6, <1>7, Zenon DEF RewindInv

LEMMA LiveFrameInv ==
  ASSUME RewindInv, LiveFrame
  PROVE  RewindInv'
  <1>1. PICK i \in Inputs : RecordAs(RunFrame(SetInput(emu, i)))
    BY Zenon DEF LiveFrame
  <1>2. /\ emu \in Machine /\ timeline \in Timelines /\ scrubbing \in BOOLEAN
        /\ Frame(emu) < MaxFrame
    BY TypeOKIs DEF RewindInv, LiveFrame
  <1>. DEFINE e == RunFrame(SetInput(emu, i))
  <1>3. e \in Machine /\ e.played = Append(emu.played, i) /\ e.lastInput = i
    <2>. DEFINE x == SetInput(emu, i)
    <2>1. x \in Machine
      BY <1>2, Zenon DEF SetInput, Machine
    <2>2. x.played = emu.played /\ x.keypad = i /\ x.lastInput = i
      BY <1>2 DEF SetInput, Machine
    <2>3. Append(x.played, x.keypad) \in Seq(Inputs)
      BY <2>1 DEF Machine
    <2>. HIDE DEF x
    <2>4. RunFrame(x) \in Machine
      BY <2>1, <2>3, Zenon DEF RunFrame, Machine
    <2>5. RunFrame(x).played = Append(emu.played, i) /\ RunFrame(x).lastInput = i
      BY <2>1, <2>2 DEF RunFrame, Machine
    <2>. QED
      BY <2>4, <2>5 DEF x
  <1>4. Frame(e) = Frame(emu) + 1 /\ Frame(e) <= MaxFrame
    BY <1>2, <1>3, RewindAssumption DEF Machine, Frame
  <1>5. emu' = e /\ timeline' = Record(timeline, e) /\ story' = e.played /\ scrubbing' = scrubbing
    BY <1>1, Zenon DEF RecordAs
  <1>. HIDE DEF e
  <1>6. /\ Record(timeline, e) \in Timelines /\ Holds(Record(timeline, e), e.played)
        /\ Record(timeline, e).cursor = Frame(e) /\ Record(timeline, e).newest = Frame(e)
        /\ Record(timeline, e).base <= Frame(e)
        /\ Len(Record(timeline, e).keyframes) <= Record(timeline, e).capacity
    <2>1. CASE timeline.started
      <3>1. /\ Holds(timeline, story) /\ Len(timeline.keyframes) <= timeline.capacity
            /\ timeline.cursor \in timeline.base .. timeline.newest
            /\ emu.played = SubSeq(story, 1, timeline.cursor)
        BY <2>1, Zenon DEF RewindInv
      <3>2. e.played = Append(SubSeq(story, 1, timeline.cursor), e.lastInput)
        BY <1>3, <3>1, Zenon
      <3>. QED
        BY <1>2, <1>3, <1>4, <3>1, <3>2, RecordHolds
    <2>2. CASE ~timeline.started
      <3>1. timeline.keyframes = <<>> /\ timeline.inputs = <<>>
        BY <2>2, Zenon DEF RewindInv
      <3>. QED
        BY <1>2, <1>3, <1>4, <2>2, <3>1, RecordStarts
    <2>. QED
      BY <2>1, <2>2
  <1>. QED
    BY <1>2, <1>3, <1>5, <1>6, RecordedInv, Zenon

LEMMA SeekInv ==
  ASSUME RewindInv, Seek
  PROVE  RewindInv'
  <1>1. /\ emu \in Machine /\ timeline \in Timelines /\ scrubbing \in BOOLEAN
        /\ timeline.started /\ Holds(timeline, story)
        /\ Len(timeline.keyframes) <= timeline.capacity
    BY TypeOKIs DEF RewindInv, Seek
  <1>2. PICK target \in OldestFrame(timeline) .. timeline.newest :
          /\ emu' = Sought(timeline, emu, target)
          /\ timeline' = [timeline EXCEPT !.cursor = Frame(emu')]
    BY Zenon DEF Seek
  <1>3. scrubbing' = scrubbing /\ story' = story
    BY DEF Seek
  <1>4. /\ timeline.base \in 0 .. Len(story) /\ timeline.newest = Len(story)
        /\ Len(story) \in Nat /\ Len(story) <= MaxFrame
        /\ Len(timeline.keyframes) >= 1 /\ timeline.base = timeline.keyframes[1].frame
    BY <1>1, HoldsType
  <1>5. OldestFrame(timeline) = timeline.base
    BY <1>4 DEF OldestFrame
  <1>6. target \in timeline.base .. timeline.newest
    BY <1>2, <1>5, Zenon
  <1>7. /\ emu' \in Machine /\ emu'.played = SubSeq(story, 1, target)
        /\ Frame(emu') = target
    <2>1. /\ Sought(timeline, emu, target) \in Machine
          /\ Sought(timeline, emu, target).played = SubSeq(story, 1, target)
          /\ Frame(Sought(timeline, emu, target)) = target
      BY <1>1, <1>6, SoughtExact
    <2>. QED
      BY <1>2, <2>1
  <1>8. target \in 0 .. MaxFrame
    BY <1>4, <1>6, RewindAssumption
  <1>9. timeline' \in Timelines
    BY <1>1, <1>2, <1>7, <1>8, Zenon DEF Timelines
  <1>10. /\ timeline'.cursor = target /\ timeline'.keyframes = timeline.keyframes
         /\ timeline'.inputs = timeline.inputs /\ timeline'.base = timeline.base
         /\ timeline'.newest = timeline.newest /\ timeline'.interval = timeline.interval
         /\ timeline'.capacity = timeline.capacity /\ timeline'.started = timeline.started
    BY <1>1, <1>2, <1>7 DEF Timelines
  <1>11. Holds(timeline', story')
    BY <1>1, <1>3, <1>10, Zenon DEF Holds
  <1>. QED
    BY <1>1, <1>3, <1>6, <1>7, <1>9, <1>10, <1>11, StartedInv, Zenon

LEMMA EnableInv ==
  ASSUME RewindInv, Enable
  PROVE  RewindInv'
  <1>1. emu \in Machine /\ scrubbing \in BOOLEAN /\ Frame(emu) <= MaxFrame
    <2>1. Frame(emu) = timeline.cursor /\ timeline \in Timelines
      BY TypeOKIs DEF RewindInv
    <2>2. timeline.cursor <= MaxFrame
      BY <2>1, RewindAssumption DEF Timelines
    <2>. QED
      BY <2>1, <2>2, TypeOKIs DEF RewindInv
  <1>2. PICK i \in Intervals, c \in Capacities :
          /\ timeline' = Record(NewTimeline(i, c), emu)
          /\ story' = emu.played
          /\ UNCHANGED <<emu, scrubbing>>
    BY Zenon DEF Enable
  <1>3. emu' = emu /\ scrubbing' = scrubbing
    BY <1>2
  <1>. DEFINE tl == NewTimeline(i, c)
  <1>4. tl \in Timelines /\ ~tl.started /\ tl.keyframes = <<>> /\ tl.inputs = <<>>
    BY RewindAssumption DEF NewTimeline, Timelines
  <1>. HIDE DEF tl
  <1>5. timeline' = Record(tl, emu)
    BY <1>2, Zenon DEF tl
  <1>6. /\ Record(tl, emu) \in Timelines /\ Holds(Record(tl, emu), emu.played)
        /\ Record(tl, emu).cursor = Frame(emu) /\ Record(tl, emu).newest = Frame(emu)
        /\ Record(tl, emu).base <= Frame(emu)
        /\ Len(Record(tl, emu).keyframes) <= Record(tl, emu).capacity
    BY <1>1, <1>4, RecordStarts
  <1>. QED
    BY <1>1, <1>2, <1>3, <1>5, <1>6, RecordedInv, Zenon

LEMMA RewindNext == RewindInv /\ [NextWindow]_vars => RewindInv'
  <1>. SUFFICES ASSUME RewindInv, [NextWindow]_vars PROVE RewindInv'
    OBVIOUS
  <1>1. ASSUME emu' = emu, timeline' = timeline, story' = story, scrubbing' \in BOOLEAN
        PROVE  RewindInv'
    <2>1. TypeOK'
      BY <1>1, TypeOKIs, Zenon DEF RewindInv, TypeOK, Timelines, Machine
    <2>. QED
      BY <1>1, <2>1, Zenon DEF RewindInv, Frame, Holds
  <1>2. scrubbing \in BOOLEAN
    BY DEF RewindInv, TypeOK
  <1>3. CASE ToggleScrub
    BY <1>1, <1>2, <1>3 DEF ToggleScrub
  <1>4. CASE UNCHANGED vars
    BY <1>1, <1>2, <1>4 DEF vars
  <1>. QED
    BY <1>3, <1>4, LiveFrameInv, SeekInv, EnableInv DEF NextWindow

THEOREM RewindInvariant == WindowSpec => []RewindInv
  <1>. QED
    BY RewindInit, RewindNext, PTL DEF WindowSpec

(* Every state of the window and its timeline is of its type.              *)
THEOREM RewindTypeCorrect == WindowSpec => []TypeOK
  <1>1. RewindInv => TypeOK
    BY DEF RewindInv
  <1>. QED
    BY <1>1, RewindInvariant, PTL

(* A seek is exact: rewind.rs's promise that any past frame is             *)
(* reconstructed, wherever the user branched before.                       *)
THEOREM SeeksAreExact == WindowSpec => []SeekExact
  <1>1. RewindInv => SeekExact
    BY Zenon DEF RewindInv, SeekExact
  <1>. QED
    BY <1>1, RewindInvariant, PTL

(* The timeline holds what a seek relies on: the inputs of every recorded  *)
(* frame, keyframes of this story only and at most `capacity` of them, and *)
(* one less than an interval before every frame.                           *)
THEOREM TimelinesAreSound == WindowSpec => []TimelineSound
  <1>1. RewindInv => TimelineSound
    <2>. SUFFICES ASSUME RewindInv, timeline.started PROVE TimelineSound
      BY DEF TimelineSound, InputsAligned, KeyframesOnStory, ReplayBounded
    <2>. DEFINE ks == timeline.keyframes
                base == timeline.base
    <2>1. /\ timeline \in Timelines /\ Holds(timeline, story) /\ Len(ks) <= timeline.capacity
      BY TypeOKIs DEF RewindInv
    <2>2. /\ timeline.newest = Len(story) /\ base \in 0 .. Len(story)
          /\ ks \in Seq(Keyframe) /\ Increasing(ks) /\ Len(ks) >= 1 /\ base = ks[1].frame
          /\ Len(timeline.inputs) = Len(story) - base + 1 /\ Len(story) \in Nat
          /\ timeline.inputs \in Seq(Inputs)
          /\ timeline.interval \in Nat \ {0} /\ timeline.capacity \in Nat
      BY <2>1, HoldsType, RewindAssumption DEF Timelines
    <2>3. OldestFrame(timeline) = base
      BY <2>2 DEF OldestFrame
    <2>4. InputsAligned
      <3>1. timeline.base + Len(timeline.inputs) - 1 = timeline.newest
        BY SMTT(30), <2>2
      <3>2. ASSUME NEW i \in 1 .. Len(timeline.inputs), base + i - 1 > base
            PROVE  timeline.inputs[i] = story[base + i - 1]
        <4>1. i \in 2 .. Len(timeline.inputs)
          BY <2>2, <3>2
        <4>. QED
          BY <2>1, <4>1, HoldsParts, Zenon
      <3>. QED
        BY <2>3, <3>1, <3>2, Zenon DEF InputsAligned
    <2>5. KeyframesOnStory
      <3>1. \A j \in 1 .. Len(ks) : /\ ks[j].frame \in base .. Len(story)
                                    /\ ks[j].played = SubSeq(story, 1, ks[j].frame)
        BY <2>1, HoldsParts, Zenon
      <3>2. ASSUME NEW j \in 1 .. Len(ks), j > 1 PROVE ks[j - 1].frame < ks[j].frame
        <4>1. j - 1 \in 1 .. Len(ks) /\ j - 1 < j
          BY <2>2, <3>2
        <4>. QED
          BY <2>2, <4>1, Zenon DEF Increasing
      <3>3. \A j \in 1 .. Len(ks) : ks[j].frame <= timeline.newest
        BY <2>2, <3>1
      <3>4. Len(ks) \in 1 .. timeline.capacity
        BY <2>1, <2>2
      <3>. QED
        BY <3>1, <3>2, <3>3, <3>4, Zenon DEF KeyframesOnStory
    <2>6. ReplayBounded
      <3>. SUFFICES ASSUME NEW t \in base .. Len(story)
                    PROVE  t - NearestKeyframe(timeline, t).frame < timeline.interval
        BY <2>2, <2>3, Zenon DEF ReplayBounded
      <3>. DEFINE k == KeyframesUpTo(timeline, t)
      <3>1. t \in Nat /\ base <= t
        BY <2>2
      <3>2. /\ k \in 0 .. Len(ks)
            /\ \A j \in 1 .. Len(ks) : ks[j].frame <= t <=> j <= k
        BY <2>2, <3>1, UpTo
      <3>. HIDE DEF k
      <3>3. k \in 1 .. Len(ks) /\ k # 0
        <4>1. 1 <= k
          BY <2>2, <3>1, <3>2
        <4>. QED
          BY <3>2, <4>1
      <3>4. NearestKeyframe(timeline, t) = ks[k]
        BY <3>3, Zenon DEF NearestKeyframe, k
      <3>5. Recorded(ks, timeline.inputs, base, timeline.interval, story)
        BY <2>1, Zenon DEF Holds
      <3>6. t - ks[k].frame < timeline.interval
        BY <2>2, <3>2, <3>3, <3>5, ReplayIsShort
      <3>. QED
        BY <3>4, <3>6, Zenon
    <2>. QED
      BY <2>4, <2>5, <2>6 DEF TimelineSound
  <1>. QED
    BY <1>1, RewindInvariant, PTL
-----------------------------------------------------------------------------
(* The run loop under its host.  A call that has ended a frame has less of *)
(* its slice left than the next frame needs.                               *)
Loops ==
  [at : {"host", "loop"}, left : -1 .. Slice, until : -1 .. Period,
   power : {"running", "halted", "stopped"}, flags : SUBSET Loop!Sources,
   ie : SUBSET Loop!Sources, ime : BOOLEAN, masked : BOOLEAN, awaiting : BOOLEAN,
   keys : SUBSET Loop!Keys, keycnt : Loop!KeyConditions, ended : BOOLEAN, stall : {0},
   outcome : {"Yielded", "FrameComplete", "LinkPending"}, unseen : 0 .. 1]

LoopInv ==
  /\ dev \in Loops
  /\ dev.unseen = IF dev.ended THEN 1 ELSE 0
  /\ dev.at = "host" => ~dev.ended
  /\ dev.at = "loop" => dev.outcome = "Yielded"
  /\ dev.ended => dev.left - dev.until <= Slice - Period + 1

LEMMA LoopStarts == Loop!Init => LoopInv
  BY HostsAssumption
  DEF Loop!Init, LoopInv, Loops, Loop!Sources, Loop!Keys, Loop!KeyConditions

LEMMA DeadlineIs ==
  ASSUME dev.left \in Int, dev.until \in Int
  PROVE  /\ Loop!Deadline \in Int
         /\ Loop!Deadline = dev.left \/ Loop!Deadline = dev.until
         /\ Loop!Deadline <= dev.left /\ Loop!Deadline <= dev.until
  BY DEF Loop!Deadline, Loop!Min

(* What an instruction does it does to the machine, not to the call. *)
LEMMA ExecutedKeeps ==
  ASSUME NEW s \in Loops, NEW r \in Loop!Executed(s)
  PROVE  /\ r \in Loops /\ r.left = s.left /\ r.until = s.until /\ r.at = s.at
         /\ r.ended = s.ended /\ r.unseen = s.unseen /\ r.outcome = s.outcome
  <1>1. \/ r = s
        \/ \E e \in Loop!Enables : r = [s EXCEPT !.ie = e]
        \/ r = [s EXCEPT !.ime = ~@]
        \/ r = [s EXCEPT !.masked = ~@]
        \/ \E x \in Loop!Sources : r = [s EXCEPT !.flags = @ \ {x}]
        \/ \E p \in {"halted", "stopped"} : r = [s EXCEPT !.power = p]
        \/ r = [s EXCEPT !.awaiting = TRUE]
        \/ \E k \in Loop!KeyConditions : r = [s EXCEPT !.keycnt = k]
    BY Zenon DEF Loop!Executed
  <1>2. \A e \in Loop!Enables : e \in SUBSET Loop!Sources
    BY DEF Loop!Enables, Loop!Sources
  <1>3. CASE \E e \in Loop!Enables : r = [s EXCEPT !.ie = e]
    BY <1>2, <1>3 DEF Loops
  <1>4. CASE \E x \in Loop!Sources : r = [s EXCEPT !.flags = @ \ {x}]
    BY <1>4 DEF Loops
  <1>5. CASE \E p \in {"halted", "stopped"} : r = [s EXCEPT !.power = p]
    BY <1>5 DEF Loops
  <1>6. CASE \E k \in Loop!KeyConditions : r = [s EXCEPT !.keycnt = k]
    BY <1>6 DEF Loops
  <1>7. CASE r = [s EXCEPT !.ime = ~@] \/ r = [s EXCEPT !.masked = ~@]
    BY <1>7 DEF Loops
  <1>8. CASE r = s \/ r = [s EXCEPT !.awaiting = TRUE]
    BY <1>8 DEF Loops
  <1>. QED
    BY <1>1, <1>3, <1>4, <1>5, <1>6, <1>7, <1>8

LEMMA LoopInstruction == LoopInv /\ Loop!Instruction => LoopInv'
  <1>. SUFFICES ASSUME LoopInv, Loop!Instruction PROVE LoopInv'
    OBVIOUS
  <1>1. PICK s \in Loops :
          /\ s.left = dev.left /\ s.until = dev.until /\ s.at = dev.at /\ s.ended = dev.ended
          /\ s.unseen = dev.unseen /\ s.outcome = dev.outcome
          /\ \E cost \in {1, 2} : \E r \in Loop!Executed(s) : dev' = Loop!Advanced(r, cost)
    <2>1. CASE Loop!AcceptsIrq
      <3>. DEFINE s == [dev EXCEPT !.masked = TRUE]
      <3>1. s \in Loops
        BY DEF LoopInv, Loops
      <3>2. \E cost \in {1, 2} : \E r \in Loop!Executed(s) : dev' = Loop!Advanced(r, cost)
        BY <2>1 DEF Loop!Instruction
      <3>3. /\ s.left = dev.left /\ s.until = dev.until /\ s.at = dev.at /\ s.ended = dev.ended
            /\ s.unseen = dev.unseen /\ s.outcome = dev.outcome
        BY DEF LoopInv, Loops
      <3>. QED
        BY <3>1, <3>2, <3>3
    <2>2. CASE ~Loop!AcceptsIrq
      BY <2>2 DEF Loop!Instruction, LoopInv
    <2>. QED
      BY <2>1, <2>2
  <1>2. PICK cost \in {1, 2}, r \in Loop!Executed(s) : dev' = Loop!Advanced(r, cost)
    BY <1>1
  <1>3. /\ r \in Loops /\ r.left = s.left /\ r.until = s.until /\ r.at = s.at
        /\ r.ended = s.ended /\ r.unseen = s.unseen /\ r.outcome = s.outcome
    BY <1>1, <1>2, ExecutedKeeps
  <1>4. /\ dev.left >= 1 /\ dev.until >= 1 /\ dev.left \in Int /\ dev.until \in Int
    <2>1. Loop!Deadline > 0 /\ dev.left \in Int /\ dev.until \in Int
      BY HostsAssumption DEF Loop!Instruction, LoopInv, Loops
    <2>. QED
      BY <2>1, DeadlineIs
  <1>5. /\ dev' = [r EXCEPT !.left = r.left - cost, !.until = r.until - cost]
    BY <1>2 DEF Loop!Advanced
  <1>6. /\ r.left - cost \in -1 .. Slice /\ r.until - cost \in -1 .. Period
    BY HostsAssumption, <1>1, <1>3, <1>4 DEF Loops
  <1>7. dev' \in Loops
    BY <1>3, <1>5, <1>6 DEF Loops
  <1>8. /\ dev'.left = r.left - cost /\ dev'.until = r.until - cost /\ dev'.at = r.at
        /\ dev'.ended = r.ended /\ dev'.unseen = r.unseen /\ dev'.outcome = r.outcome
    BY <1>3, <1>5 DEF Loops
  <1>. QED
    BY HostsAssumption, <1>1, <1>3, <1>4, <1>7, <1>8 DEF LoopInv

LEMMA LoopIdle == LoopInv /\ Loop!Idle => LoopInv'
  <1>. SUFFICES ASSUME LoopInv, Loop!Idle PROVE LoopInv'
    OBVIOUS
  <1>1. /\ dev \in Loops /\ dev.left \in Int /\ dev.until \in Int /\ dev.left > 0
        /\ dev.at = "loop"
    BY DEF LoopInv, Loops, Loop!Idle, Loop!Running
  <1>. DEFINE jump == Loop!Max({Loop!Deadline, 0})
  <1>2. jump = IF Loop!Deadline >= 0 THEN Loop!Deadline ELSE 0
    BY <1>1, DeadlineIs DEF Loop!Max
  <1>3. PICK s : /\ s = (IF Loop!LowPower THEN Loop!Advanced(dev, jump) ELSE dev)
                 /\ \E d \in Loop!Dispatched(s) :
                      LET r == [Loop!Advanced(d, d.stall) EXCEPT !.stall = 0]
                      IN  dev' = [r EXCEPT !.power = IF Loop!ShouldWake(r) THEN "running" ELSE @]
    BY Zenon DEF Loop!Idle
  <1>4. /\ s \in Loops /\ s.left >= 0 /\ s.left - s.until = dev.left - dev.until
        /\ s.left <= dev.left /\ s.at = dev.at /\ s.ended = dev.ended
        /\ s.unseen = dev.unseen /\ s.outcome = dev.outcome
    <2>1. CASE Loop!LowPower
      <3>1. s = [dev EXCEPT !.left = dev.left - jump, !.until = dev.until - jump]
        BY <1>3, <2>1 DEF Loop!Advanced
      <3>2. jump \in 0 .. dev.left /\ dev.left - jump \in -1 .. Slice /\ dev.until - jump \in -1 .. Period
        BY <1>1, <1>2, DeadlineIs, HostsAssumption DEF Loops
      <3>. HIDE DEF jump
      <3>3. jump \in Int /\ dev.left - jump >= 0
        BY <1>1, <3>2
      <3>4. s \in Loops
        BY <1>1, <3>1, <3>2 DEF Loops
      <3>5. /\ s.left = dev.left - jump /\ s.until = dev.until - jump /\ s.at = dev.at
            /\ s.ended = dev.ended /\ s.unseen = dev.unseen /\ s.outcome = dev.outcome
        BY <1>1, <3>1 DEF Loops
      <3>. QED
        BY <1>1, <3>2, <3>3, <3>4, <3>5
    <2>2. CASE ~Loop!LowPower
      BY <1>1, <1>3, <2>2
    <2>. QED
      BY <2>1, <2>2
  <1>5. PICK d \in Loop!Dispatched(s) :
          LET r == [Loop!Advanced(d, d.stall) EXCEPT !.stall = 0]
          IN  dev' = [r EXCEPT !.power = IF Loop!ShouldWake(r) THEN "running" ELSE @]
    BY <1>3
  <1>. DEFINE r == [Loop!Advanced(d, d.stall) EXCEPT !.stall = 0]
  <1>6. dev' = [r EXCEPT !.power = IF Loop!ShouldWake(r) THEN "running" ELSE @]
    BY <1>5
  <1>7. CASE s.until > 0
    <2>1. d = s
      BY <1>7, Zenon DEF Loop!Dispatched
    <2>2. s.stall = 0 /\ s.left - 0 = s.left /\ s.until - 0 = s.until
      BY <1>4 DEF Loops
    <2>3. r = [s EXCEPT !.left = s.left, !.until = s.until, !.stall = 0]
      BY <2>1, <2>2 DEF Loop!Advanced
    <2>. HIDE DEF r
    <2>4. PICK p \in {"running", "halted", "stopped"} :
            dev' = [s EXCEPT !.left = s.left, !.until = s.until, !.stall = 0, !.power = p]
      BY <1>4, <1>6, <2>3 DEF Loops
    <2>5. dev' \in Loops
      BY <1>4, <2>4 DEF Loops
    <2>6. /\ dev'.left = s.left /\ dev'.until = s.until /\ dev'.at = s.at /\ dev'.ended = s.ended
          /\ dev'.unseen = s.unseen /\ dev'.outcome = s.outcome
      BY <1>4, <2>4 DEF Loops
    <2>. QED
      BY <1>4, <2>5, <2>6 DEF LoopInv, Loops
  <1>8. CASE ~(s.until > 0)
    <2>1. PICK n \in {0, 1} :
            d = [s EXCEPT !.until = s.until + Period, !.flags = s.flags \cup {"vblank"},
                          !.ended = TRUE, !.unseen = s.unseen + 1, !.stall = n]
      BY <1>8, Zenon DEF Loop!Dispatched
    <2>2. r = [at |-> s.at, left |-> s.left - n, until |-> s.until + Period - n,
               power |-> s.power, flags |-> s.flags \cup {"vblank"}, ie |-> s.ie, ime |-> s.ime,
               masked |-> s.masked, awaiting |-> s.awaiting, keys |-> s.keys,
               keycnt |-> s.keycnt, ended |-> TRUE, stall |-> 0, outcome |-> s.outcome,
               unseen |-> s.unseen + 1]
      <3>1. d = [at |-> s.at, left |-> s.left, until |-> s.until + Period,
                 power |-> s.power, flags |-> s.flags \cup {"vblank"}, ie |-> s.ie, ime |-> s.ime,
                 masked |-> s.masked, awaiting |-> s.awaiting, keys |-> s.keys,
                 keycnt |-> s.keycnt, ended |-> TRUE, stall |-> n, outcome |-> s.outcome,
                 unseen |-> s.unseen + 1]
        BY <1>4, <2>1 DEF Loops
      <3>2. d.stall = n /\ d.left = s.left /\ d.until = s.until + Period
        BY <3>1
      <3>3. Loop!Advanced(d, d.stall) = [d EXCEPT !.left = d.left - d.stall, !.until = d.until - d.stall]
        BY DEF Loop!Advanced
      <3>4. d.left - d.stall = s.left - n /\ d.until - d.stall = s.until + Period - n
        BY <1>4, <3>2, HostsAssumption DEF Loops
      <3>5. r = [[d EXCEPT !.left = s.left - n, !.until = s.until + Period - n] EXCEPT !.stall = 0]
        BY <3>3, <3>4, Zenon
      <3>. HIDE DEF r
      <3>. QED
        BY <3>1, <3>5
    <2>. HIDE DEF r
    <2>3. ~dev.ended /\ s.unseen = 0
      <3>1. /\ dev.ended => dev.left - dev.until <= Slice - Period + 1
            /\ dev.ended \in BOOLEAN /\ dev.unseen = IF dev.ended THEN 1 ELSE 0
        BY DEF LoopInv, Loops
      <3>2. s.left \in Int /\ s.until \in Int
        BY <1>4 DEF Loops
      <3>3. dev.left - dev.until > Slice - Period + 1
        <4>1. s.left - s.until >= 0
          BY <1>4, <1>8, <3>2
        <4>. QED
          BY <1>1, <1>4, <3>2, <4>1, HostsAssumption
      <3>. QED
        BY <1>1, <1>4, <3>1, <3>3, HostsAssumption
    <2>4. /\ s.until + Period - n \in -1 .. Period /\ s.left - n \in -1 .. Slice
          /\ s.flags \cup {"vblank"} \in SUBSET Loop!Sources
      BY <1>4, <1>8, HostsAssumption DEF Loops, Loop!Sources
    <2>5. PICK p \in {"running", "halted", "stopped"} :
            dev' = [at |-> s.at, left |-> s.left - n, until |-> s.until + Period - n,
                    power |-> p, flags |-> s.flags \cup {"vblank"}, ie |-> s.ie, ime |-> s.ime,
                    masked |-> s.masked, awaiting |-> s.awaiting, keys |-> s.keys,
                    keycnt |-> s.keycnt, ended |-> TRUE, stall |-> 0, outcome |-> s.outcome,
                    unseen |-> 1]
      <3>1. s.power \in {"running", "halted", "stopped"}
        BY <1>4 DEF Loops
      <3>. DEFINE p == IF Loop!ShouldWake(r) THEN "running" ELSE s.power
      <3>2. s.unseen + 1 = 1 /\ r.power = s.power
        BY <2>2, <2>3
      <3>3. dev' = [r EXCEPT !.power = p]
        BY <1>6, <3>2
      <3>4. p \in {"running", "halted", "stopped"}
        BY <3>1
      <3>. HIDE DEF p
      <3>. QED
        BY <2>2, <3>2, <3>3, <3>4
    <2>6. dev' \in Loops
      BY <1>4, <2>4, <2>5 DEF Loops
    <2>7. /\ dev'.left = s.left - n /\ dev'.until = s.until + Period - n /\ dev'.at = s.at
          /\ dev'.ended = TRUE /\ dev'.unseen = 1 /\ dev'.outcome = s.outcome
      BY <2>5
    <2>8. dev'.left - dev'.until <= Slice - Period + 1
      BY <1>4, <1>8, <2>7, HostsAssumption DEF Loops
    <2>. QED
      BY <1>1, <1>4, <2>6, <2>7, <2>8 DEF LoopInv
  <1>. QED
    BY <1>4, <1>7, <1>8 DEF Loops

LEMMA LoopReturn == LoopInv /\ Loop!Return => LoopInv'
  <1>. SUFFICES ASSUME LoopInv, Loop!Return PROVE LoopInv'
    OBVIOUS
  <1>1. PICK o \in {"LinkPending", "FrameComplete", "Yielded"} :
          /\ dev' = [dev EXCEPT !.outcome = o, !.at = "host", !.left = 0, !.ended = FALSE,
                                !.unseen = CASE o = "FrameComplete" -> dev.unseen - 1
                                             [] o = "LinkPending" -> 0
                                             [] OTHER -> dev.unseen]
          /\ o = "FrameComplete" => dev.ended
          /\ o = "Yielded" => ~dev.ended
    <2>. DEFINE o == CASE dev.awaiting -> "LinkPending"
                       [] dev.ended -> "FrameComplete"
                       [] OTHER -> "Yielded"
    <2>1. /\ o \in {"LinkPending", "FrameComplete", "Yielded"}
          /\ o = "FrameComplete" => dev.ended
          /\ o = "Yielded" => ~dev.ended
      <3>1. dev.awaiting \in BOOLEAN /\ dev.ended \in BOOLEAN
        BY DEF LoopInv, Loops
      <3>. QED
        BY <3>1
    <2>2. dev' = Loop!Answered([dev EXCEPT !.outcome = o])
      BY DEF Loop!Return
    <2>. HIDE DEF o
    <2>3. Loop!Answered([dev EXCEPT !.outcome = o]) =
            [dev EXCEPT !.outcome = o, !.at = "host", !.left = 0, !.ended = FALSE,
                        !.unseen = CASE o = "FrameComplete" -> dev.unseen - 1
                                     [] o = "LinkPending" -> 0
                                     [] OTHER -> dev.unseen]
      BY DEF Loop!Answered, LoopInv, Loops
    <2>. QED
      BY <2>1, <2>2, <2>3
  <1>2. /\ dev \in Loops /\ dev.unseen = IF dev.ended THEN 1 ELSE 0
        /\ dev.ended \in BOOLEAN
    BY DEF LoopInv, Loops
  <1>3. dev' = [dev EXCEPT !.outcome = o, !.at = "host", !.left = 0, !.ended = FALSE, !.unseen = 0]
    <2>1. CASE o = "FrameComplete"
      <3>1. dev.unseen - 1 = 0
        BY <1>1, <1>2, <2>1
      <3>. QED
        BY <1>1, <2>1, <3>1
    <2>2. CASE o # "FrameComplete"
      BY <1>1, <1>2, <2>2
    <2>. QED
      BY <2>1, <2>2
  <1>4. dev' = [at |-> "host", left |-> 0, until |-> dev.until, power |-> dev.power,
                flags |-> dev.flags, ie |-> dev.ie, ime |-> dev.ime, masked |-> dev.masked,
                awaiting |-> dev.awaiting, keys |-> dev.keys, keycnt |-> dev.keycnt,
                ended |-> FALSE, stall |-> dev.stall, outcome |-> o, unseen |-> 0]
    BY <1>2, <1>3 DEF Loops
  <1>5. dev' \in Loops
    BY <1>2, <1>4, HostsAssumption DEF Loops
  <1>. QED
    BY <1>4, <1>5 DEF LoopInv

LEMMA LoopHost == LoopInv /\ (Loop!Call \/ Loop!SetKey \/ Loop!Deliver) => LoopInv'
  <1>. SUFFICES ASSUME LoopInv, Loop!Call \/ Loop!SetKey \/ Loop!Deliver PROVE LoopInv'
    OBVIOUS
  <1>1. CASE Loop!Call
    <2>1. /\ dev \in Loops /\ dev.at = "host" /\ ~dev.ended /\ dev.unseen = 0
          /\ dev' = [dev EXCEPT !.at = "loop", !.left = Slice, !.outcome = "Yielded"]
      BY <1>1 DEF LoopInv, Loop!Call
    <2>2. Slice \in -1 .. Slice
      BY HostsAssumption
    <2>3. dev' \in Loops
      BY <2>1, <2>2 DEF Loops
    <2>4. ~dev'.ended /\ dev'.unseen = 0 /\ dev'.outcome = "Yielded" /\ dev'.at = "loop"
      BY <2>1 DEF Loops
    <2>. QED
      BY <2>3, <2>4 DEF LoopInv
  <1>2. CASE Loop!SetKey
    <2>1. PICK ks \in SUBSET Loop!Keys, fs \in SUBSET Loop!Sources :
            dev' = [dev EXCEPT !.keys = ks, !.flags = fs]
      <3>1. PICK ks \in {dev.keys \cup {k} : k \in Loop!Keys} \cup {dev.keys \ {k} : k \in Loop!Keys} :
              LET r == [dev EXCEPT !.keys = ks]
              IN  dev' = [r EXCEPT !.flags = IF ~Loop!KeyConditionMet(dev) /\ Loop!KeyConditionMet(r)
                                             THEN @ \cup {"keypad"} ELSE @]
        BY <1>2, Zenon DEF Loop!SetKey
      <3>2. ks \in SUBSET Loop!Keys /\ dev.flags \in SUBSET Loop!Sources
        BY DEF LoopInv, Loops
      <3>. DEFINE r == [dev EXCEPT !.keys = ks]
                  fs == IF ~Loop!KeyConditionMet(dev) /\ Loop!KeyConditionMet(r)
                        THEN dev.flags \cup {"keypad"} ELSE dev.flags
      <3>3. fs \in SUBSET Loop!Sources
        BY <3>2 DEF Loop!Sources
      <3>4. r.flags = dev.flags
        BY DEF LoopInv, Loops
      <3>5. dev' = [r EXCEPT !.flags = fs]
        BY <3>1, <3>4
      <3>. HIDE DEF fs
      <3>6. dev' = [dev EXCEPT !.keys = ks, !.flags = fs]
        BY <3>5
      <3>. QED
        BY <3>2, <3>3, <3>6
    <2>. QED
      BY <2>1 DEF LoopInv, Loops
  <1>3. CASE Loop!Deliver
    BY <1>3 DEF LoopInv, Loops, Loop!Deliver, Loop!Sources
  <1>. QED
    BY <1>1, <1>2, <1>3

LEMMA LoopStep == LoopInv /\ [Loop!Next]_dev => LoopInv'
  <1>1. LoopInv /\ UNCHANGED dev => LoopInv'
    BY DEF LoopInv
  <1>. QED
    BY <1>1, LoopInstruction, LoopIdle, LoopReturn, LoopHost DEF Loop!Next

(* Every frame is reported in the call that ends it. *)
LEMMA LoopReports == LoopInv => Loop!TypeOK /\ Loop!FramesReported
  BY HostsAssumption DEF LoopInv, Loops, Loop!TypeOK, Loop!FramesReported
-----------------------------------------------------------------------------
(* The ring between the run loop and the host's sound thread.              *)
Sample == Int \X {"left", "right"}

Rings ==
  [capacity : RingCapacities, pos : Int, frame : 0 .. RingFrames, scratch : Seq(Int),
   room : Nat, pushing : {"idle", "made", "storing"}, ring : Seq(Sample), taking : Nat,
   reading : BOOLEAN, made : Seq(Int), lost : SUBSET Sample, heard : Seq(Sample)]

(* Places a ratio apart, the next of which is `next`.                      *)
Apart(d) == d \in Base - 1 .. Base + 1
Rising(s, next) ==
  /\ s \in Seq(Int) /\ next \in Int
  /\ \A i, j \in 1 .. Len(s) : i < j => s[i] < s[j]
  /\ \A i \in 1 .. Len(s) : s[i] < next
  /\ \A i \in 1 .. Len(s) - 1 : Apart(s[i + 1] - s[i])
  /\ Len(s) > 0 => Apart(next - s[Len(s)])

(* The output frames `kept` of those made, in order, the others lost whole. *)
Keeps(kept, made, lost) ==
  /\ kept \in Seq(Int)
  /\ \A i, j \in 1 .. Len(kept) : i < j => kept[i] < kept[j]
  /\ \A i \in 1 .. Len(kept) : <<kept[i], "left">> \notin lost /\ \E j \in 1 .. Len(made) : kept[i] = made[j]
  /\ \A j \in 1 .. Len(made) : <<made[j], "left">> \notin lost => \E i \in 1 .. Len(kept) : kept[i] = made[j]
  /\ \A s \in lost : \E j \in 1 .. Len(made) : s[1] = made[j]
  /\ \A s \in lost : \A side \in {"left", "right"} : <<s[1], side>> \in lost

RingInv ==
  /\ dev \in Rings
  /\ Rising(dev.made \o dev.scratch, dev.frame * Grain + dev.pos)
  /\ \E kept : Keeps(kept, dev.made, dev.lost) /\ dev.heard \o dev.ring = Ring!Samples(kept)
  /\ Len(dev.heard) % 2 = 0 /\ dev.taking % 2 = 0 /\ dev.room % 2 = 0
  /\ dev.taking <= Len(dev.ring)
  /\ Len(dev.ring) + dev.room <= dev.capacity
  /\ dev.room <= 2 * Len(dev.scratch)
  /\ dev.pushing = "idle" => dev.scratch = <<>>
  /\ dev.pushing # "storing" => dev.room = 0

LEMMA Even ==
  ASSUME NEW a \in Nat, NEW b \in Nat, a % 2 = 0
  PROVE  /\ b % 2 = 0 => (a + b) % 2 = 0
         /\ \A c \in Nat : a + b = 2 * c => b % 2 = 0
  OBVIOUS

LEMMA EvenLess ==
  ASSUME NEW a \in Nat, NEW b \in Nat, a % 2 = 0, b % 2 = 0, b <= a
  PROVE  a - b \in Nat /\ (a - b) % 2 = 0
  OBVIOUS

LEMMA Twice ==
  ASSUME NEW a \in Nat
  PROVE  2 * a \in Nat /\ (2 * a) % 2 = 0
  OBVIOUS

LEMMA Half ==
  ASSUME NEW a \in Nat, NEW b \in Nat, a % 2 = 0, a <= 2 * b
  PROVE  a \div 2 \in 0 .. b /\ a = 2 * (a \div 2)
  OBVIOUS

LEMMA Filled ==
  ASSUME NEW l \in Nat, NEW c \in Nat, NEW t \in Nat, NEW h \in Nat, NEW r, r = 2 * h, t <= l, l + r <= c
  PROVE  l + 2 * h + 0 <= c /\ t <= l + 2 * h
  OBVIOUS

LEMMA LeastEven ==
  ASSUME NEW a \in Nat, NEW b \in Nat, a % 2 = 0, b % 2 = 0
  PROVE  /\ Ring!Least(a, b) \in Nat /\ Ring!Least(a, b) % 2 = 0
         /\ Ring!Least(a, b) <= a /\ Ring!Least(a, b) <= b
  BY DEF Ring!Least

LEMMA RingConstants ==
  /\ \A n \in RingCapacities : n \in Nat /\ n % 2 = 0
  /\ \A n \in Wants : n \in Nat /\ n % 2 = 0
  /\ Chunks \subseteq Nat /\ RingFrames \in Nat /\ Grain \in Nat \ {0} /\ Base \in Nat /\ Base >= 2
  BY HostsAssumption

LEMMA RingTyped ==
  ASSUME dev \in Rings
  PROVE  /\ dev.made \in Seq(Int) /\ dev.scratch \in Seq(Int) /\ dev.pos \in Int
         /\ dev.frame \in 0 .. RingFrames /\ dev.frame \in Nat /\ dev.lost \in SUBSET Sample
         /\ dev.capacity \in Nat /\ dev.capacity % 2 = 0 /\ dev.room \in Nat /\ dev.taking \in Nat
         /\ dev.ring \in Seq(Sample) /\ dev.heard \in Seq(Sample)
         /\ Len(dev.ring) \in Nat /\ Len(dev.heard) \in Nat /\ Len(dev.made) \in Nat
         /\ Len(dev.scratch) \in Nat
  <1>1. /\ dev.made \in Seq(Int) /\ dev.scratch \in Seq(Int) /\ dev.pos \in Int
        /\ dev.frame \in 0 .. RingFrames /\ dev.lost \in SUBSET Sample
        /\ dev.capacity \in RingCapacities /\ dev.room \in Nat /\ dev.taking \in Nat
        /\ dev.ring \in Seq(Sample) /\ dev.heard \in Seq(Sample)
    BY DEF Rings
  <1>2. /\ Len(dev.ring) \in Nat /\ Len(dev.heard) \in Nat /\ Len(dev.made) \in Nat
        /\ Len(dev.scratch) \in Nat
    BY <1>1
  <1>3. dev.frame \in Nat /\ dev.capacity \in Nat /\ dev.capacity % 2 = 0
    BY <1>1, RingConstants
  <1>. QED
    BY <1>1, <1>2, <1>3, Zenon

LEMMA Halves ==
  ASSUME NEW n \in Nat, NEW j \in 1 .. 2 * n
  PROVE  /\ (j + 1) \div 2 \in 1 .. n
         /\ \/ j = 2 * ((j + 1) \div 2) - 1 /\ j % 2 = 1
            \/ j = 2 * ((j + 1) \div 2) /\ j % 2 = 0
  OBVIOUS

LEMMA HalvesOn ==
  ASSUME NEW m \in Nat, NEW n \in Nat, NEW j \in 2 * m + 1 .. 2 * m + 2 * n
  PROVE  /\ j - 2 * m \in 1 .. 2 * n /\ (j + 1) \div 2 \in m + 1 .. m + n
         /\ (j - 2 * m + 1) \div 2 = (j + 1) \div 2 - m /\ (j - 2 * m) % 2 = j % 2
  <1>1. PICK k \in 1 .. 2 * n : k = j - 2 * m
    OBVIOUS
  <1>2. j \in 1 .. 2 * (m + n) /\ m + n \in Nat
    OBVIOUS
  <1>3. PICK h \in Int : h = (j + 1) \div 2
    OBVIOUS
  <1>4. PICK g \in Int : g = (k + 1) \div 2
    OBVIOUS
  <1>5. \/ j = 2 * h - 1 /\ j % 2 = 1
        \/ j = 2 * h /\ j % 2 = 0
    BY <1>2, <1>3, Halves, Zenon
  <1>6. \/ k = 2 * g - 1 /\ k % 2 = 1
        \/ k = 2 * g /\ k % 2 = 0
    BY <1>4, Halves, Zenon
  <1>7. g = h - m /\ k % 2 = j % 2 /\ h \in m + 1 .. m + n
    BY <1>1, <1>5, <1>6
  <1>. QED
    BY <1>1, <1>3, <1>4, <1>7, Zenon

LEMMA SamplesAre ==
  ASSUME NEW p \in Seq(Int)
  PROVE  /\ Ring!Samples(p) \in Seq(Sample) /\ Len(Ring!Samples(p)) = 2 * Len(p)
         /\ \A i \in 1 .. Len(p) : /\ Ring!Samples(p)[2 * i - 1] = <<p[i], "left">>
                                   /\ Ring!Samples(p)[2 * i] = <<p[i], "right">>
         /\ \A j \in 1 .. 2 * Len(p) :
              Ring!Samples(p)[j] = <<p[(j + 1) \div 2], IF j % 2 = 1 THEN "left" ELSE "right">>
  <1>. DEFINE n == Len(p)
              s == Ring!Samples(p)
  <1>1. n \in Nat /\ 2 * n \in Nat
    OBVIOUS
  <1>2. s = [j \in 1 .. 2 * n |-> <<p[(j + 1) \div 2], Ring!Sides[2 - (j % 2)]>>]
    BY DEF Ring!Samples
  <1>3. ASSUME NEW j \in 1 .. 2 * n
        PROVE  /\ s[j] = <<p[(j + 1) \div 2], IF j % 2 = 1 THEN "left" ELSE "right">>
               /\ s[j] \in Sample
    <2>1. (j + 1) \div 2 \in 1 .. n /\ p[(j + 1) \div 2] \in Int
      BY <1>1, Halves
    <2>2. Ring!Sides[2 - (j % 2)] = IF j % 2 = 1 THEN "left" ELSE "right"
      <3>1. j % 2 = 1 \/ j % 2 = 0
        BY <1>1
      <3>2. 2 - 1 = 1 /\ 2 - 0 = 2
        OBVIOUS
      <3>. QED
        BY <3>1, <3>2 DEF Ring!Sides
    <2>3. s[j] = <<p[(j + 1) \div 2], Ring!Sides[2 - (j % 2)]>>
      BY <1>2
    <2>. QED
      BY <2>1, <2>2, <2>3 DEF Sample
  <1>. HIDE DEF s
  <1>4. s \in Seq(Sample) /\ Len(s) = 2 * n
    <2>1. DOMAIN s = 1 .. 2 * n
      BY <1>2
    <2>2. s \in [1 .. 2 * n -> Sample]
      BY <1>2, <1>3, <2>1
    <2>. QED
      BY <1>1, <2>1, <2>2, SeqOver
  <1>5. ASSUME NEW i \in 1 .. n
        PROVE  s[2 * i - 1] = <<p[i], "left">> /\ s[2 * i] = <<p[i], "right">>
    <2>1. /\ 2 * i - 1 \in 1 .. 2 * n /\ 2 * i \in 1 .. 2 * n
          /\ (2 * i - 1 + 1) \div 2 = i /\ (2 * i + 1) \div 2 = i
          /\ (2 * i - 1) % 2 = 1 /\ (2 * i) % 2 = 0
      BY <1>1
    <2>2. s[2 * i - 1] = <<p[(2 * i - 1 + 1) \div 2], IF (2 * i - 1) % 2 = 1 THEN "left" ELSE "right">>
      BY <1>3, <2>1, Zenon
    <2>3. s[2 * i] = <<p[(2 * i + 1) \div 2], IF (2 * i) % 2 = 1 THEN "left" ELSE "right">>
      BY <1>3, <2>1, Zenon
    <2>4. s[2 * i - 1] = <<p[i], "left">>
      BY <2>1, <2>2, Zenon
    <2>5. (2 * i) % 2 # 1
      BY <2>1
    <2>6. s[2 * i] = <<p[i], "right">>
      BY <2>1, <2>3, <2>5, Zenon
    <2>. QED
      BY <2>4, <2>6
  <1>. QED
    BY <1>3, <1>4, <1>5 DEF s

LEMMA JoinParts ==
  ASSUME NEW S, NEW a \in Seq(S), NEW b \in Seq(S)
  PROVE  /\ a \o b \in Seq(S) /\ Len(a \o b) = Len(a) + Len(b)
         /\ \A i \in 1 .. Len(a) : (a \o b)[i] = a[i]
         /\ \A i \in 1 .. Len(b) : (a \o b)[Len(a) + i] = b[i]
         /\ \A i \in Len(a) + 1 .. Len(a) + Len(b) : (a \o b)[i] = b[i - Len(a)]
  OBVIOUS

(* Two sequences of samples that agree. *)
LEMMA SameSeq ==
  ASSUME NEW S, NEW a \in Seq(S), NEW b \in Seq(S), Len(a) = Len(b),
         \A i \in 1 .. Len(a) : a[i] = b[i]
  PROVE  a = b
  OBVIOUS

LEMMA SamplesJoin ==
  ASSUME NEW p \in Seq(Int), NEW q \in Seq(Int)
  PROVE  Ring!Samples(p \o q) = Ring!Samples(p) \o Ring!Samples(q)
  <1>. DEFINE a == Ring!Samples(p \o q)
              b == Ring!Samples(p) \o Ring!Samples(q)
              m == Len(p)
              n == Len(q)
  <1>1. m \in Nat /\ n \in Nat /\ p \o q \in Seq(Int) /\ Len(p \o q) = m + n
    OBVIOUS
  <1>2. a \in Seq(Sample) /\ Len(a) = 2 * (m + n)
    BY <1>1, SamplesAre
  <1>3. /\ Ring!Samples(p) \in Seq(Sample) /\ Len(Ring!Samples(p)) = 2 * m
        /\ Ring!Samples(q) \in Seq(Sample) /\ Len(Ring!Samples(q)) = 2 * n
    BY SamplesAre
  <1>4. b \in Seq(Sample) /\ Len(b) = 2 * (m + n)
    <2>1. b \in Seq(Sample) /\ Len(b) = Len(Ring!Samples(p)) + Len(Ring!Samples(q))
      BY <1>3, JoinParts
    <2>. QED
      BY <1>1, <1>3, <2>1
  <1>5. ASSUME NEW j \in 1 .. 2 * (m + n) PROVE a[j] = b[j]
    <2>. DEFINE h == (j + 1) \div 2
                side == IF j % 2 = 1 THEN "left" ELSE "right"
    <2>1. h \in 1 .. m + n /\ a[j] = <<(p \o q)[h], side>>
      <3>1. j \in 1 .. 2 * Len(p \o q) /\ h \in 1 .. m + n
        BY <1>1, Halves
      <3>. QED
        BY <1>1, <3>1, SamplesAre
    <2>2. CASE j <= 2 * m
      <3>1. j \in 1 .. 2 * m /\ h \in 1 .. m
        BY <1>1, <2>2
      <3>2. b[j] = Ring!Samples(p)[j] /\ (p \o q)[h] = p[h]
        BY <1>1, <1>3, <3>1
      <3>3. Ring!Samples(p)[j] = <<p[h], side>>
        BY <3>1, SamplesAre
      <3>. QED
        BY <2>1, <3>2, <3>3
    <2>3. CASE j > 2 * m
      <3>. DEFINE k == j - 2 * m
      <3>1. /\ k \in 1 .. 2 * n /\ (k + 1) \div 2 = h - m /\ k % 2 = j % 2
            /\ h \in m + 1 .. m + n
        <4>1. j \in 2 * m + 1 .. 2 * m + 2 * n
          BY <1>1, <2>3
        <4>. QED
          BY <1>1, <4>1, HalvesOn
      <3>2. b[j] = Ring!Samples(q)[k] /\ (p \o q)[h] = q[h - m]
        <4>1. j \in Len(Ring!Samples(p)) + 1 .. Len(Ring!Samples(p)) + Len(Ring!Samples(q))
              /\ j - Len(Ring!Samples(p)) = k
          BY <1>1, <1>3, <2>3
        <4>2. b[j] = Ring!Samples(q)[k]
          <5>1. /\ Ring!Samples(p) \in Seq(Sample) /\ Ring!Samples(q) \in Seq(Sample)
                /\ j \in Len(Ring!Samples(p)) + 1 .. Len(Ring!Samples(p)) + Len(Ring!Samples(q))
            BY <1>3, <4>1
          <5>2. b[j] = Ring!Samples(q)[j - Len(Ring!Samples(p))]
            BY <5>1, JoinParts, Zenon
          <5>. QED
            BY <4>1, <5>2
        <4>3. (p \o q)[h] = q[h - m]
          BY <3>1, JoinParts
        <4>. QED
          BY <4>2, <4>3
      <3>3. Ring!Samples(q)[k] = <<q[h - m], side>>
        BY <3>1, SamplesAre
      <3>. QED
        BY <2>1, <3>2, <3>3
    <2>4. j \in Int /\ 2 * m \in Int
      BY <1>1
    <2>. HIDE DEF a, b
    <2>. QED
      BY <2>2, <2>3, <2>4
  <1>. HIDE DEF a, b
  <1>6. a = b
    BY <1>1, <1>2, <1>4, <1>5
  <1>. QED
    BY <1>6 DEF a, b

LEMMA SamplesCut ==
  ASSUME NEW p \in Seq(Int), NEW h \in 0 .. Len(p)
  PROVE  SubSeq(Ring!Samples(p), 1, 2 * h) = Ring!Samples(SubSeq(p, 1, h))
  <1>. DEFINE q == SubSeq(p, 1, h)
              a == SubSeq(Ring!Samples(p), 1, 2 * h)
              b == Ring!Samples(q)
  <1>1. q \in Seq(Int) /\ Len(q) = h /\ \A i \in 1 .. h : q[i] = p[i]
    OBVIOUS
  <1>2. b \in Seq(Sample) /\ Len(b) = 2 * h
    BY <1>1, SamplesAre
  <1>3. Ring!Samples(p) \in Seq(Sample) /\ Len(Ring!Samples(p)) = 2 * Len(p)
    BY SamplesAre
  <1>4. a \in Seq(Sample) /\ Len(a) = 2 * h /\ \A j \in 1 .. 2 * h : a[j] = Ring!Samples(p)[j]
    BY <1>3
  <1>5. ASSUME NEW j \in 1 .. 2 * h PROVE a[j] = b[j]
    <2>1. (j + 1) \div 2 \in 1 .. h /\ j \in 1 .. 2 * Len(p)
      BY Halves
    <2>2. b[j] = <<q[(j + 1) \div 2], IF j % 2 = 1 THEN "left" ELSE "right">>
      BY <1>1, SamplesAre
    <2>3. a[j] = <<p[(j + 1) \div 2], IF j % 2 = 1 THEN "left" ELSE "right">>
      BY <1>4, <2>1, SamplesAre
    <2>. QED
      BY <1>1, <2>1, <2>2, <2>3
  <1>. HIDE DEF a, b
  <1>6. a = b
    BY <1>2, <1>4, <1>5
  <1>. QED
    BY <1>6 DEF a, b

(* The places of a sequence of samples. *)
Places(out) == [i \in 1 .. Len(out) \div 2 |-> out[2 * i - 1][1]]

LEMMA PlacesOf ==
  ASSUME NEW p \in Seq(Int)
  PROVE  Places(Ring!Samples(p)) = p
  <1>1. Len(p) \in Nat /\ Len(Ring!Samples(p)) \div 2 = Len(p)
    BY SamplesAre
  <1>2. \A i \in 1 .. Len(p) : Ring!Samples(p)[2 * i - 1][1] = p[i]
    BY SamplesAre
  <1>3. Places(Ring!Samples(p)) = [i \in 1 .. Len(p) |-> p[i]]
    BY <1>1, <1>2 DEF Places
  <1>. QED
    BY <1>1, <1>3

LEMMA Within ==
  ASSUME NEW m \in Nat, NEW n \in Nat, NEW i \in 1 .. m - 1
  PROVE  i \in 1 .. m + n - 1 /\ i \in 1 .. m /\ i + 1 \in 1 .. m
  OBVIOUS

LEMMA RingSound == RingInv => Ring!TypeOK /\ Ring!SoundIsUnbroken
  <1>. SUFFICES ASSUME RingInv PROVE Ring!TypeOK /\ Ring!SoundIsUnbroken
    OBVIOUS
  <1>1. /\ dev \in Rings /\ dev.made \in Seq(Int) /\ dev.scratch \in Seq(Int)
        /\ dev.capacity \in Nat /\ dev.ring \in Seq(Sample) /\ dev.room \in Nat
    BY HostsAssumption DEF RingInv, Rings
  <1>2. Ring!TypeOK
    BY <1>1 DEF RingInv, Rings, Ring!TypeOK
  <1>3. PICK kept : /\ Keeps(kept, dev.made, dev.lost)
                    /\ dev.heard \o dev.ring = Ring!Samples(kept)
    BY DEF RingInv
  <1>. DEFINE out == dev.heard \o dev.ring
  <1>4. kept \in Seq(Int) /\ Places(out) = kept
    BY <1>3, PlacesOf DEF Keeps
  <1>5. \A i \in 1 .. Len(kept) - 1 : kept[i] < kept[i + 1]
    <2>1. \A i \in 1 .. Len(kept) - 1 : i \in 1 .. Len(kept) /\ i + 1 \in 1 .. Len(kept) /\ i < i + 1
      BY <1>4
    <2>. QED
      BY <1>3, <2>1 DEF Keeps
  <1>6. Ring!ToSet(kept) = {place \in Ring!ToSet(dev.made) : <<place, "left">> \notin dev.lost}
    <2>1. Ring!ToSet(kept) = {kept[i] : i \in 1 .. Len(kept)}
      BY <1>4 DEF Ring!ToSet
    <2>2. Ring!ToSet(dev.made) = {dev.made[i] : i \in 1 .. Len(dev.made)}
      BY <1>1 DEF Ring!ToSet
    <2>3. /\ \A i \in 1 .. Len(kept) : <<kept[i], "left">> \notin dev.lost
                                       /\ \E j \in 1 .. Len(dev.made) : kept[i] = dev.made[j]
          /\ \A j \in 1 .. Len(dev.made) :
               <<dev.made[j], "left">> \notin dev.lost => \E i \in 1 .. Len(kept) : kept[i] = dev.made[j]
      BY <1>3 DEF Keeps
    <2>4. \A i \in 1 .. Len(kept) : kept[i] \in {place \in Ring!ToSet(dev.made) : <<place, "left">> \notin dev.lost}
      BY <2>2, <2>3, Zenon
    <2>5. \A j \in 1 .. Len(dev.made) : <<dev.made[j], "left">> \notin dev.lost => dev.made[j] \in Ring!ToSet(kept)
      BY <2>1, <2>3
    <2>. QED
      BY <2>1, <2>2, <2>4, <2>5, Zenon
  <1>7. {dev.made[i + 1] - dev.made[i] : i \in 1 .. Len(dev.made) - 1} \subseteq Base - 1 .. Base + 1
    <2>. SUFFICES ASSUME NEW i \in 1 .. Len(dev.made) - 1
                  PROVE  dev.made[i + 1] - dev.made[i] \in Base - 1 .. Base + 1
      OBVIOUS
    <2>1. /\ i \in 1 .. Len(dev.made \o dev.scratch) - 1
          /\ i \in 1 .. Len(dev.made) /\ i + 1 \in 1 .. Len(dev.made)
      <3>1. Len(dev.made \o dev.scratch) = Len(dev.made) + Len(dev.scratch)
        BY <1>1, JoinParts
      <3>2. Len(dev.made) \in Nat /\ Len(dev.scratch) \in Nat
        BY <1>1
      <3>3. /\ i \in 1 .. Len(dev.made) + Len(dev.scratch) - 1
            /\ i \in 1 .. Len(dev.made) /\ i + 1 \in 1 .. Len(dev.made)
        BY <3>2, Within
      <3>4. Len(dev.made) + Len(dev.scratch) - 1 = Len(dev.made \o dev.scratch) - 1
        BY <3>1, <3>2
      <3>. QED
        BY <3>3, <3>4, Zenon
    <2>2. /\ (dev.made \o dev.scratch)[i] = dev.made[i]
          /\ (dev.made \o dev.scratch)[i + 1] = dev.made[i + 1]
      <3>1. \A n \in 1 .. Len(dev.made) : (dev.made \o dev.scratch)[n] = dev.made[n]
        BY <1>1, JoinParts, ZenonT(60)
      <3>. QED
        BY <2>1, <3>1, Zenon
    <2>3. Apart((dev.made \o dev.scratch)[i + 1] - (dev.made \o dev.scratch)[i])
      BY <2>1 DEF RingInv, Rising
    <2>. QED
      BY <2>2, <2>3 DEF Apart
  <1>8. Len(dev.heard) % 2 = 0 /\ \A s \in dev.lost : \A side \in {"left", "right"} : <<s[1], side>> \in dev.lost
    BY <1>3 DEF RingInv, Keeps
  <1>. QED
    BY <1>2, <1>3, <1>4, <1>5, <1>6, <1>7, <1>8, Zenon DEF Ring!SoundIsUnbroken, Places

LEMMA RingStarts == Ring!Init => RingInv
  <1>. SUFFICES ASSUME Ring!Init PROVE RingInv
    OBVIOUS
  <1>1. PICK n \in RingCapacities :
          dev = [capacity |-> n, pos |-> 0, frame |-> 0, scratch |-> <<>>, room |-> 0,
                 pushing |-> "idle", ring |-> <<>>, taking |-> 0, reading |-> FALSE,
                 made |-> <<>>, lost |-> {}, heard |-> <<>>]
    BY DEF Ring!Init
  <1>2. n \in Nat /\ 0 \in 0 .. RingFrames /\ Grain \in Nat
    BY HostsAssumption
  <1>3. dev \in Rings
    BY <1>1, <1>2 DEF Rings
  <1>4. Rising(dev.made \o dev.scratch, dev.frame * Grain + dev.pos)
    <2>1. dev.made \o dev.scratch = <<>> /\ dev.frame * Grain + dev.pos \in Int
      BY <1>1, <1>2
    <2>. QED
      BY <2>1 DEF Rising
  <1>5. Keeps(<<>>, dev.made, dev.lost) /\ dev.heard \o dev.ring = Ring!Samples(<<>>)
    <2>1. Keeps(<<>>, dev.made, dev.lost)
      BY <1>1 DEF Keeps
    <2>2. Ring!Samples(<<>>) \in Seq(Sample) /\ Len(Ring!Samples(<<>>)) = 0
      <3>1. <<>> \in Seq(Int) /\ Len(<<>>) = 0 /\ 2 * 0 = 0
        OBVIOUS
      <3>. QED
        BY <3>1, SamplesAre
    <2>3. Ring!Samples(<<>>) = <<>> /\ dev.heard \o dev.ring = <<>>
      BY <1>1, <2>2
    <2>. QED
      BY <2>1, <2>3
  <1>6. /\ Len(dev.heard) % 2 = 0 /\ dev.taking % 2 = 0 /\ dev.room % 2 = 0
        /\ dev.taking <= Len(dev.ring) /\ Len(dev.ring) + dev.room <= dev.capacity
        /\ dev.room <= 2 * Len(dev.scratch)
        /\ dev.pushing = "idle" => dev.scratch = <<>>
        /\ dev.pushing # "storing" => dev.room = 0
    BY <1>1, <1>2
  <1>. QED
    BY <1>3, <1>4, <1>5, <1>6 DEF RingInv

LEMMA RingEven == RingInv => Len(dev.ring) % 2 = 0
  <1>. SUFFICES ASSUME RingInv PROVE Len(dev.ring) % 2 = 0
    OBVIOUS
  <1>1. PICK kept : kept \in Seq(Int) /\ dev.heard \o dev.ring = Ring!Samples(kept)
    BY DEF RingInv, Keeps
  <1>2. dev.heard \in Seq(Sample) /\ dev.ring \in Seq(Sample) /\ Len(dev.heard) % 2 = 0
    BY DEF RingInv, Rings
  <1>3. Len(dev.heard) + Len(dev.ring) = 2 * Len(kept)
    <2>1. Len(dev.heard \o dev.ring) = Len(dev.heard) + Len(dev.ring)
      BY <1>2, JoinParts
    <2>. QED
      BY <1>1, <2>1, SamplesAre
  <1>4. Len(dev.heard) \in Nat /\ Len(dev.ring) \in Nat /\ Len(kept) \in Nat
    BY <1>1, <1>2
  <1>. QED
    BY <1>2, <1>3, <1>4, Even

LEMMA CutJoin ==
  ASSUME NEW S, NEW a \in Seq(S), NEW b \in Seq(S), NEW t \in 0 .. Len(b)
  PROVE  (a \o SubSeq(b, 1, t)) \o SubSeq(b, t + 1, Len(b)) = a \o b
  <1>. DEFINE l == SubSeq(b, 1, t)
              r == SubSeq(b, t + 1, Len(b))
  <1>1. Len(b) \in Nat /\ t \in Nat /\ t <= Len(b)
    OBVIOUS
  <1>1a. l \in Seq(S) /\ Len(l) = t /\ \A i \in 1 .. t : l[i] = b[i]
    BY <1>1
  <1>1b. r \in Seq(S) /\ Len(r) = Len(b) - t /\ \A i \in 1 .. Len(b) - t : r[i] = b[t + i]
    BY <1>1
  <1>. HIDE DEF l, r
  <1>2. l \o r = b
    <2>1. l \o r \in Seq(S) /\ Len(l \o r) = Len(l) + Len(r)
      BY <1>1a, <1>1b, JoinParts
    <2>2. Len(l \o r) = Len(b)
      BY <1>1, <1>1a, <1>1b, <2>1
    <2>3. ASSUME NEW i \in 1 .. Len(b) PROVE (l \o r)[i] = b[i]
      <3>1. CASE i <= t
        <4>1. i \in 1 .. t
          BY <1>1, <3>1
        <4>. QED
          BY <1>1a, <1>1b, <4>1, JoinParts
      <3>2. CASE i > t
        <4>1. i - t \in 1 .. Len(b) - t /\ t + (i - t) = i /\ i \in Len(l) + 1 .. Len(l) + Len(r)
              /\ i - Len(l) = i - t
          BY <1>1, <1>1a, <1>1b, <3>2
        <4>2. (l \o r)[i] = r[i - Len(l)]
          <5>1. \A n \in Len(l) + 1 .. Len(l) + Len(r) : (l \o r)[n] = r[n - Len(l)]
            <6>1. l \in Seq(S) /\ r \in Seq(S)
              BY <1>1a, <1>1b
            <6>. QED
              BY <6>1, JoinParts
          <5>. QED
            BY <4>1, <5>1, Zenon
        <4>. QED
          BY <1>1b, <4>1, <4>2
      <3>3. i <= t \/ i > t
        BY <1>1
      <3>. QED
        BY <3>1, <3>2, <3>3, Zenon
    <2>. QED
      BY <2>1, <2>2, <2>3, SameSeq
  <1>3. (a \o l) \o r = a \o (l \o r)
    BY <1>1
  <1>. QED
    BY <1>2, <1>3 DEF l, r

(* The reader's two steps. *)
LEMMA RingReadLook == RingInv /\ Ring!ReadLook => RingInv'
  <1>. SUFFICES ASSUME RingInv, Ring!ReadLook PROVE RingInv'
    OBVIOUS
  <1>1. PICK want \in Wants :
          dev' = [dev EXCEPT !.reading = TRUE, !.taking = Ring!Least(want, Len(dev.ring))]
    BY DEF Ring!ReadLook
  <1>2. dev \in Rings /\ Len(dev.ring) \in Nat /\ want \in Nat /\ want % 2 = 0
    BY RingConstants, RingTyped DEF RingInv
  <1>3. Len(dev.ring) % 2 = 0
    BY RingEven
  <1>4. PICK n : /\ n = Ring!Least(want, Len(dev.ring))
                 /\ n \in Nat /\ n % 2 = 0 /\ n <= Len(dev.ring)
    BY <1>2, <1>3, LeastEven
  <1>5. dev' \in Rings
    BY <1>1, <1>2, <1>4 DEF Rings
  <1>6. /\ dev'.made = dev.made /\ dev'.scratch = dev.scratch /\ dev'.frame = dev.frame
        /\ dev'.pos = dev.pos /\ dev'.lost = dev.lost /\ dev'.heard = dev.heard
        /\ dev'.ring = dev.ring /\ dev'.room = dev.room /\ dev'.capacity = dev.capacity
        /\ dev'.pushing = dev.pushing /\ dev'.taking = n
    BY <1>1, <1>2, <1>4 DEF Rings
  <1>. QED
    BY <1>4, <1>5, <1>6 DEF RingInv

LEMMA RingReadEnd == RingInv /\ Ring!ReadEnd => RingInv'
  <1>. SUFFICES ASSUME RingInv, Ring!ReadEnd PROVE RingInv'
    OBVIOUS
  <1>. DEFINE t == dev.taking
              rest == SubSeq(dev.ring, t + 1, Len(dev.ring))
              more == dev.heard \o SubSeq(dev.ring, 1, t)
  <1>1. dev' = [dev EXCEPT !.ring = rest, !.heard = more, !.taking = 0, !.reading = FALSE]
    BY DEF Ring!ReadEnd
  <1>2. /\ dev \in Rings /\ dev.ring \in Seq(Sample) /\ dev.heard \in Seq(Sample)
        /\ t \in 0 .. Len(dev.ring) /\ t % 2 = 0 /\ Len(dev.heard) % 2 = 0
        /\ dev.room \in Nat /\ dev.capacity \in Nat /\ Len(dev.ring) \in Nat
    <2>1. dev \in Rings /\ dev.taking <= Len(dev.ring) /\ dev.taking % 2 = 0 /\ Len(dev.heard) % 2 = 0
      BY Zenon DEF RingInv
    <2>2. /\ dev.ring \in Seq(Sample) /\ dev.heard \in Seq(Sample) /\ dev.taking \in Nat
          /\ dev.room \in Nat /\ dev.capacity \in Nat /\ Len(dev.ring) \in Nat
      BY <2>1, RingTyped
    <2>3. t \in 0 .. Len(dev.ring)
      BY <2>1, <2>2
    <2>. QED
      BY <2>1, <2>2, <2>3
  <1>3. /\ rest \in Seq(Sample) /\ Len(rest) = Len(dev.ring) - t
        /\ SubSeq(dev.ring, 1, t) \in Seq(Sample) /\ Len(SubSeq(dev.ring, 1, t)) = t
    <2>1. rest \in Seq(Sample) /\ Len(rest) = Len(dev.ring) - t
      BY SMTT(30), <1>2
    <2>2. SubSeq(dev.ring, 1, t) \in Seq(Sample) /\ Len(SubSeq(dev.ring, 1, t)) = t
      BY <1>2
    <2>. QED
      BY <2>1, <2>2
  <1>4. more \in Seq(Sample) /\ Len(more) = Len(dev.heard) + t
    BY <1>2, <1>3, JoinParts
  <1>5. more \o rest = dev.heard \o dev.ring
    BY <1>2, CutJoin
  <1>. HIDE DEF rest, more
  <1>6. dev' \in Rings
    BY <1>1, <1>2, <1>3, <1>4 DEF Rings
  <1>7. /\ dev'.made = dev.made /\ dev'.scratch = dev.scratch /\ dev'.frame = dev.frame
        /\ dev'.pos = dev.pos /\ dev'.lost = dev.lost /\ dev'.heard = more
        /\ dev'.ring = rest /\ dev'.room = dev.room /\ dev'.capacity = dev.capacity
        /\ dev'.pushing = dev.pushing /\ dev'.taking = 0
    BY <1>1, <1>2 DEF Rings
  <1>8. Len(dev'.heard) % 2 = 0
    <2>1. Len(dev.heard) \in Nat /\ t \in Nat
      BY <1>2
    <2>2. (Len(dev.heard) + t) % 2 = 0
      BY <1>2, <2>1, Even
    <2>. QED
      BY <1>4, <1>7, <2>2
  <1>9. dev'.taking <= Len(dev'.ring) /\ Len(dev'.ring) + dev'.room <= dev'.capacity /\ dev'.taking % 2 = 0
    <2>1. Len(dev.ring) + dev.room <= dev.capacity
      BY DEF RingInv
    <2>. QED
      BY <1>2, <1>3, <1>7, <2>1
  <1>. QED
    BY <1>5, <1>6, <1>7, <1>8, <1>9 DEF RingInv

(* The producer's steps. *)
LEMMA RingPushLook == RingInv /\ Ring!PushLook => RingInv'
  <1>. SUFFICES ASSUME RingInv, Ring!PushLook PROVE RingInv'
    OBVIOUS
  <1>1. /\ dev \in Rings /\ dev.capacity \in Nat /\ Len(dev.ring) \in Nat /\ Len(dev.scratch) \in Nat
        /\ dev.capacity % 2 = 0 /\ Len(dev.ring) % 2 = 0 /\ Len(dev.ring) <= dev.capacity
    <2>1. /\ dev \in Rings /\ Len(dev.ring) + dev.room <= dev.capacity
      BY DEF RingInv
    <2>2. /\ dev.capacity \in Nat /\ Len(dev.ring) \in Nat /\ Len(dev.scratch) \in Nat
          /\ dev.capacity % 2 = 0 /\ dev.room \in Nat
      BY <2>1, RingTyped
    <2>3. Len(dev.ring) <= dev.capacity
      BY <2>1, <2>2
    <2>. QED
      BY <2>1, <2>2, <2>3, RingEven
  <1>. DEFINE vacant == dev.capacity - Len(dev.ring)
  <1>2. vacant \in Nat /\ vacant % 2 = 0 /\ 2 * Len(dev.scratch) \in Nat /\ (2 * Len(dev.scratch)) % 2 = 0
    <2>1. vacant \in Nat /\ vacant % 2 = 0
      BY <1>1, EvenLess
    <2>2. 2 * Len(dev.scratch) \in Nat /\ (2 * Len(dev.scratch)) % 2 = 0
      BY <1>1, Twice
    <2>. QED
      BY <2>1, <2>2
  <1>3. PICK n : /\ n = Ring!Least(2 * Len(dev.scratch), dev.capacity - Len(dev.ring))
                 /\ n \in Nat /\ n % 2 = 0 /\ n <= 2 * Len(dev.scratch) /\ n <= vacant
    BY <1>2, LeastEven
  <1>4. dev' = [dev EXCEPT !.pushing = "storing", !.room = n]
    BY <1>3 DEF Ring!PushLook
  <1>5. dev' \in Rings
    BY <1>1, <1>3, <1>4 DEF Rings
  <1>6. /\ dev'.made = dev.made /\ dev'.scratch = dev.scratch /\ dev'.frame = dev.frame
        /\ dev'.pos = dev.pos /\ dev'.lost = dev.lost /\ dev'.heard = dev.heard
        /\ dev'.ring = dev.ring /\ dev'.room = n /\ dev'.capacity = dev.capacity
        /\ dev'.pushing = "storing" /\ dev'.taking = dev.taking
    BY <1>1, <1>4 DEF Rings
  <1>7. Len(dev.ring) + n <= dev.capacity
    BY <1>1, <1>3
  <1>. QED
    BY <1>3, <1>5, <1>6, <1>7 DEF RingInv

(* What is stored of the frames made is kept, the rest lost whole.         *)
LEMMA KeepsMore ==
  ASSUME NEW kept, NEW made \in Seq(Int), NEW lost \in SUBSET Sample, Keeps(kept, made, lost),
         NEW scratch \in Seq(Int), NEW h \in 0 .. Len(scratch), NEW next, Rising(made \o scratch, next),
         NEW dropped, dropped = {Ring!Samples(scratch)[i] : i \in 2 * h + 1 .. 2 * Len(scratch)}
  PROVE  Keeps(kept \o SubSeq(scratch, 1, h), made \o scratch, lost \cup dropped)
  <1>. DEFINE m == Len(made)
              n == Len(scratch)
              k == Len(kept)
              all == made \o scratch
              cut == SubSeq(scratch, 1, h)
              now == kept \o cut
  <1>1. /\ m \in Nat /\ n \in Nat /\ kept \in Seq(Int) /\ k \in Nat /\ h \in Nat /\ h <= n
    BY DEF Keeps
  <1>2. /\ all \in Seq(Int) /\ Len(all) = m + n /\ \A i \in 1 .. m : all[i] = made[i]
        /\ \A i \in 1 .. n : all[m + i] = scratch[i]
    BY JoinParts
  <1>3. cut \in Seq(Int) /\ Len(cut) = h /\ \A i \in 1 .. h : cut[i] = scratch[i]
    BY <1>1
  <1>4. /\ now \in Seq(Int) /\ Len(now) = k + h /\ \A i \in 1 .. k : now[i] = kept[i]
        /\ \A i \in 1 .. h : now[k + i] = cut[i]
    <2>1. kept \in Seq(Int) /\ cut \in Seq(Int)
      BY <1>1, <1>3
    <2>2. /\ now \in Seq(Int) /\ Len(now) = k + Len(cut) /\ \A i \in 1 .. k : now[i] = kept[i]
          /\ \A i \in 1 .. Len(cut) : now[k + i] = cut[i]
      BY <2>1, JoinParts
    <2>. QED
      BY <1>3, <2>2
  <1>5. \A i \in 1 .. h : now[k + i] = scratch[i]
    BY <1>3, <1>4
  <1>6. \A x \in dropped : \E i \in h + 1 .. n : \E side \in {"left", "right"} : x = <<scratch[i], side>>
    <2>. SUFFICES ASSUME NEW x \in dropped
                  PROVE  \E i \in h + 1 .. n : \E side \in {"left", "right"} : x = <<scratch[i], side>>
      OBVIOUS
    <2>0. PICK j \in 2 * h + 1 .. 2 * n : x = Ring!Samples(scratch)[j]
      BY Zenon
    <2>1. j \in 1 .. 2 * n /\ (j + 1) \div 2 \in h + 1 .. n
      BY <1>1
    <2>2. Ring!Samples(scratch)[j] = <<scratch[(j + 1) \div 2], IF j % 2 = 1 THEN "left" ELSE "right">>
      BY <2>1, SamplesAre
    <2>. QED
      BY <2>0, <2>1, <2>2
  <1>7. \A i \in h + 1 .. n : <<scratch[i], "left">> \in dropped /\ <<scratch[i], "right">> \in dropped
    <2>. SUFFICES ASSUME NEW i \in h + 1 .. n
                  PROVE  <<scratch[i], "left">> \in dropped /\ <<scratch[i], "right">> \in dropped
      OBVIOUS
    <2>1. i \in 1 .. n /\ 2 * i - 1 \in 2 * h + 1 .. 2 * n /\ 2 * i \in 2 * h + 1 .. 2 * n
      BY <1>1
    <2>2. Ring!Samples(scratch)[2 * i - 1] = <<scratch[i], "left">>
          /\ Ring!Samples(scratch)[2 * i] = <<scratch[i], "right">>
      BY <2>1, SamplesAre
    <2>. QED
      BY <2>1, <2>2
  <1>8. \A i \in 1 .. m, j \in 1 .. n : made[i] < scratch[j]
    <2>. SUFFICES ASSUME NEW i \in 1 .. m, NEW j \in 1 .. n PROVE made[i] < scratch[j]
      OBVIOUS
    <2>1. i \in 1 .. m + n /\ m + j \in 1 .. m + n /\ i < m + j
      BY <1>1
    <2>2. all[i] < all[m + j]
      BY <1>2, <2>1 DEF Rising
    <2>. QED
      BY <1>2, <2>2
  <1>9. \A i, j \in 1 .. n : i < j => scratch[i] < scratch[j]
    <2>. SUFFICES ASSUME NEW i \in 1 .. n, NEW j \in 1 .. n, i < j PROVE scratch[i] < scratch[j]
      OBVIOUS
    <2>1. m + i \in 1 .. m + n /\ m + j \in 1 .. m + n /\ m + i < m + j
      BY <1>1
    <2>2. all[m + i] < all[m + j]
      BY <1>2, <2>1 DEF Rising
    <2>. QED
      BY <1>2, <2>2
  <1>10. /\ \A i \in 1 .. m : made[i] \in Int
         /\ \A i \in 1 .. n : scratch[i] \in Int
    OBVIOUS
  <1>. DEFINE gone == lost \cup dropped
  <1>11. \A i, j \in 1 .. Len(now) : i < j => now[i] < now[j]
    <2>. SUFFICES ASSUME NEW i \in 1 .. k + h, NEW j \in 1 .. k + h, i < j PROVE now[i] < now[j]
      BY <1>4
    <2>1. CASE j <= k
      <3>1. i \in 1 .. k /\ j \in 1 .. k
        BY <1>1, <2>1
      <3>2. kept[i] < kept[j]
        BY <3>1 DEF Keeps
      <3>. QED
        BY <1>4, <3>1, <3>2
    <2>2. CASE i <= k /\ j > k
      <3>1. i \in 1 .. k /\ j - k \in 1 .. h /\ j - k \in 1 .. n /\ k + (j - k) = j
        BY <1>1, <2>2
      <3>2. now[i] = kept[i] /\ now[j] = scratch[j - k]
        BY <1>4, <1>5, <3>1
      <3>3. PICK l \in 1 .. m : kept[i] = made[l]
        BY <3>1 DEF Keeps
      <3>. QED
        BY <1>8, <3>1, <3>2, <3>3
    <2>3. CASE i > k
      <3>1. /\ i - k \in 1 .. h /\ i - k \in 1 .. n /\ k + (i - k) = i /\ j - k \in 1 .. h
            /\ j - k \in 1 .. n /\ k + (j - k) = j /\ i - k < j - k
        BY <1>1, <2>3
      <3>2. now[i] = scratch[i - k] /\ now[j] = scratch[j - k]
        BY <1>5, <3>1
      <3>. QED
        BY <1>9, <3>1, <3>2
    <2>4. j <= k \/ (i <= k /\ j > k) \/ i > k
      BY <1>1
    <2>. HIDE DEF now
    <2>. QED
      BY <2>1, <2>2, <2>3, <2>4
  <1>12. ASSUME NEW i \in 1 .. m PROVE <<made[i], "left">> \in gone <=> <<made[i], "left">> \in lost
    <2>1. <<made[i], "left">> \notin dropped
      <3>. SUFFICES ASSUME <<made[i], "left">> \in dropped PROVE FALSE
        OBVIOUS
      <3>1. PICK j \in h + 1 .. n : \E side \in {"left", "right"} : <<made[i], "left">> = <<scratch[j], side>>
        BY <1>6
      <3>2. made[i] = scratch[j] /\ j \in 1 .. n
        BY <1>1, <3>1
      <3>3. made[i] \in Int /\ made[i] < scratch[j]
        BY <1>8, <1>10, <3>2
      <3>. QED
        BY <3>2, <3>3
    <2>. QED
      BY <2>1
  <1>13. ASSUME NEW i \in 1 .. n PROVE <<scratch[i], "left">> \in gone <=> i > h
    <2>1. <<scratch[i], "left">> \notin lost
      <3>. SUFFICES ASSUME <<scratch[i], "left">> \in lost PROVE FALSE
        OBVIOUS
      <3>1. PICK j \in 1 .. m : scratch[i] = made[j]
        <4>1. \A s \in lost : \E j \in 1 .. m : s[1] = made[j]
          BY Zenon DEF Keeps
        <4>2. <<scratch[i], "left">>[1] = scratch[i]
          OBVIOUS
        <4>. QED
          BY <4>1, <4>2
      <3>2. made[j] < scratch[i] /\ scratch[i] \in Int
        BY <1>8, <1>10
      <3>. QED
        BY <3>1, <3>2
    <2>2. i > h => <<scratch[i], "left">> \in dropped
      <3>1. i > h => i \in h + 1 .. n
        BY <1>1
      <3>. QED
        BY <1>7, <3>1
    <2>3. <<scratch[i], "left">> \in dropped => i > h
      <3>. SUFFICES ASSUME <<scratch[i], "left">> \in dropped, ~(i > h) PROVE FALSE
        OBVIOUS
      <3>1. PICK j \in h + 1 .. n : \E side \in {"left", "right"} : <<scratch[i], "left">> = <<scratch[j], side>>
        BY <1>6
      <3>2. scratch[i] = scratch[j] /\ j \in 1 .. n /\ i < j
        BY <1>1, <3>1
      <3>3. scratch[i] \in Int /\ scratch[i] < scratch[j]
        BY <1>9, <1>10, <3>2
      <3>. QED
        BY <3>2, <3>3
    <2>. QED
      BY <2>1, <2>2, <2>3
  <1>14. \A i \in 1 .. Len(now) : <<now[i], "left">> \notin gone /\ \E j \in 1 .. Len(all) : now[i] = all[j]
    <2>. SUFFICES ASSUME NEW i \in 1 .. k + h
                  PROVE  <<now[i], "left">> \notin gone /\ \E j \in 1 .. m + n : now[i] = all[j]
      BY <1>2, <1>4
    <2>1. CASE i <= k
      <3>1. i \in 1 .. k /\ now[i] = kept[i]
        BY <1>1, <1>4, <2>1
      <3>2. PICK j \in 1 .. m : kept[i] = made[j]
        BY <3>1 DEF Keeps
      <3>3. <<made[j], "left">> \notin lost
        BY <3>1, <3>2 DEF Keeps
      <3>4. j \in 1 .. m + n /\ now[i] = all[j] /\ <<now[i], "left">> = <<made[j], "left">>
        BY <1>1, <1>2, <3>1, <3>2
      <3>5. <<made[j], "left">> \notin gone
        BY <1>12, <3>3
      <3>. HIDE DEF gone, now, all
      <3>. QED
        BY <3>4, <3>5
    <2>2. CASE i > k
      <3>1. i - k \in 1 .. h /\ i - k \in 1 .. n /\ k + (i - k) = i /\ ~(i - k > h)
            /\ m + (i - k) \in 1 .. m + n
        BY <1>1, <2>2
      <3>2. now[i] = scratch[i - k] /\ all[m + (i - k)] = scratch[i - k]
        BY <1>2, <1>5, <3>1
      <3>3. <<scratch[i - k], "left">> \notin gone
        BY <1>13, <3>1
      <3>. HIDE DEF gone, now, all
      <3>. QED
        BY <3>1, <3>2, <3>3
    <2>3. i <= k \/ i > k
      BY <1>1
    <2>. HIDE DEF gone, now, all
    <2>. QED
      BY <2>1, <2>2, <2>3
  <1>15. \A j \in 1 .. Len(all) : <<all[j], "left">> \notin gone => \E i \in 1 .. Len(now) : now[i] = all[j]
    <2>. SUFFICES ASSUME NEW j \in 1 .. m + n, <<all[j], "left">> \notin gone
                  PROVE  \E i \in 1 .. k + h : now[i] = all[j]
      BY <1>2, <1>4
    <2>1. CASE j <= m
      <3>1. j \in 1 .. m /\ all[j] = made[j]
        BY <1>1, <1>2, <2>1
      <3>2. <<made[j], "left">> \notin lost
        BY <3>1
      <3>3. PICK i \in 1 .. k : kept[i] = made[j]
        BY <3>1, <3>2 DEF Keeps
      <3>4. i \in 1 .. k + h /\ now[i] = all[j]
        BY <1>1, <1>4, <3>1, <3>3
      <3>. QED
        BY <3>4
    <2>2. CASE j > m
      <3>1. j - m \in 1 .. n /\ m + (j - m) = j
        BY <1>1, <2>2
      <3>2. all[j] = scratch[j - m]
        BY <1>2, <3>1
      <3>3. ~(j - m > h)
        BY <1>13, <3>1, <3>2
      <3>4. j - m \in 1 .. h /\ k + (j - m) \in 1 .. k + h
        BY SMTT(30), <1>1, <3>1, <3>3
      <3>5. now[k + (j - m)] = all[j]
        BY <1>5, <3>2, <3>4
      <3>. QED
        BY <3>4, <3>5
    <2>3. j <= m \/ j > m
      BY <1>1
    <2>. HIDE DEF gone, now, all
    <2>. QED
      BY <2>1, <2>2, <2>3
  <1>16. ASSUME NEW s \in gone
         PROVE  /\ \E j \in 1 .. Len(all) : s[1] = all[j]
                /\ \A side \in {"left", "right"} : <<s[1], side>> \in gone
    <2>1. CASE s \in lost
      <3>1. PICK j \in 1 .. m : s[1] = made[j]
        BY <2>1 DEF Keeps
      <3>2. j \in 1 .. Len(all) /\ s[1] = all[j]
        BY <1>1, <1>2, <3>1
      <3>3. \A side \in {"left", "right"} : <<s[1], side>> \in lost
        BY <2>1 DEF Keeps
      <3>. HIDE DEF all
      <3>. QED
        BY <3>2, <3>3
    <2>2. CASE s \in dropped
      <3>1. PICK i \in h + 1 .. n : \E side \in {"left", "right"} : s = <<scratch[i], side>>
        BY <1>6, <2>2
      <3>2. s[1] = scratch[i]
        BY <3>1
      <3>3. i \in 1 .. n /\ m + i \in 1 .. Len(all)
        BY <1>1, <1>2
      <3>4. s[1] = all[m + i]
        BY <1>2, <3>2, <3>3
      <3>5. \A side \in {"left", "right"} : <<s[1], side>> \in dropped
        BY <1>7, <3>2
      <3>. HIDE DEF all
      <3>. QED
        BY <3>3, <3>4, <3>5
    <2>. QED
      BY <2>1, <2>2
  <1>. HIDE DEF all, now, gone
  <1>17. Keeps(now, all, gone)
    BY <1>4, <1>11, <1>14, <1>15, <1>16 DEF Keeps
  <1>. QED
    BY <1>17 DEF now, all, gone

LEMMA RingPushEnd == RingInv /\ Ring!PushEnd => RingInv'
  <1>. SUFFICES ASSUME RingInv, Ring!PushEnd PROVE RingInv'
    OBVIOUS
  <1>1. /\ dev.made \in Seq(Int) /\ dev.scratch \in Seq(Int) /\ dev.lost \in SUBSET Sample
        /\ dev.ring \in Seq(Sample) /\ dev.heard \in Seq(Sample) /\ dev.room \in Nat
        /\ Len(dev.scratch) \in Nat /\ Len(dev.ring) \in Nat /\ dev.capacity \in Nat
        /\ dev \in Rings /\ dev.taking \in Nat /\ dev.frame \in Nat /\ dev.pos \in Int
    <2>1. dev \in Rings
      BY DEF RingInv
    <2>. QED
      BY <2>1, RingTyped
  <1>2. PICK h \in 0 .. Len(dev.scratch) : dev.room = 2 * h
    <2>1. dev.room % 2 = 0 /\ dev.room <= 2 * Len(dev.scratch)
      BY DEF RingInv
    <2>2. dev.room \div 2 \in 0 .. Len(dev.scratch) /\ dev.room = 2 * (dev.room \div 2)
      BY <1>1, <2>1, Half
    <2>. QED
      BY <2>2
  <1>3. PICK kept : /\ Keeps(kept, dev.made, dev.lost)
                    /\ dev.heard \o dev.ring = Ring!Samples(kept)
    BY DEF RingInv
  <1>. DEFINE s == Ring!Samples(dev.scratch)
              stored == SubSeq(s, 1, 2 * h)
              cut == SubSeq(dev.scratch, 1, h)
              dropped == {s[i] : i \in 2 * h + 1 .. 2 * Len(dev.scratch)}
              next == dev.frame * Grain + dev.pos
  <1>4. s \in Seq(Sample) /\ Len(s) = 2 * Len(dev.scratch)
    BY <1>1, SamplesAre
  <1>5. stored = Ring!Samples(cut) /\ cut \in Seq(Int) /\ kept \in Seq(Int) /\ Len(cut) = h
    <2>1. stored = Ring!Samples(cut)
      BY <1>1, SamplesCut
    <2>2. cut \in Seq(Int) /\ Len(cut) = h
      BY <1>1
    <2>. QED
      BY <1>3, <2>1, <2>2 DEF Keeps
  <1>6. stored \in Seq(Sample) /\ Len(stored) = 2 * h
    BY <1>5, SamplesAre
  <1>7. dev' = [dev EXCEPT !.ring = dev.ring \o stored, !.made = dev.made \o dev.scratch,
                           !.lost = dev.lost \cup dropped, !.scratch = <<>>, !.room = 0,
                           !.pushing = "idle"]
    BY <1>2, <1>4, Zenon DEF Ring!PushEnd
  <1>8. /\ dev.made \o dev.scratch \in Seq(Int) /\ dev.lost \cup dropped \in SUBSET Sample
        /\ dev.ring \o stored \in Seq(Sample) /\ Len(dev.ring \o stored) = Len(dev.ring) + 2 * h
    <2>1. \A i \in 2 * h + 1 .. 2 * Len(dev.scratch) : s[i] \in Sample
      <3>1. \A i \in 1 .. Len(s) : s[i] \in Sample
        BY <1>4
      <3>. HIDE DEF s
      <3>. QED
        BY <1>1, <1>4, <3>1
    <2>2. dropped \in SUBSET Sample
      BY <2>1, Zenon
    <2>3. dev.made \o dev.scratch \in Seq(Int)
      BY <1>1, JoinParts
    <2>4. dev.ring \o stored \in Seq(Sample) /\ Len(dev.ring \o stored) = Len(dev.ring) + Len(stored)
      BY <1>1, <1>6, JoinParts
    <2>. HIDE DEF dropped, stored
    <2>. QED
      BY <1>1, <1>6, <2>2, <2>3, <2>4
  <1>9. Keeps(kept \o cut, dev.made \o dev.scratch, dev.lost \cup dropped)
    <2>1. Rising(dev.made \o dev.scratch, next)
      BY DEF RingInv
    <2>. HIDE DEF next
    <2>. QED
      BY <1>1, <1>3, <2>1, KeepsMore
  <1>10. dev.heard \o (dev.ring \o stored) = Ring!Samples(kept \o cut)
    <2>1. (dev.heard \o dev.ring) \o stored = dev.heard \o (dev.ring \o stored)
      <3>. HIDE DEF stored
      <3>. QED
        <4>1. PICK a \in Seq(Sample) : a = dev.heard
          BY <1>1
        <4>2. PICK b \in Seq(Sample) : b = dev.ring
          BY <1>1
        <4>3. (a \o b) \o stored = a \o (b \o stored)
          BY <1>6
        <4>. QED
          BY <4>1, <4>2, <4>3
    <2>2. Ring!Samples(kept \o cut) = Ring!Samples(kept) \o Ring!Samples(cut)
      BY <1>5, SamplesJoin
    <2>. QED
      BY <1>3, <1>5, <2>1, <2>2
  <1>. HIDE DEF dropped, stored, cut, s
  <1>11. dev' \in Rings
    <2>1. dev' = [[dev EXCEPT !.ring = dev.ring \o stored, !.made = dev.made \o dev.scratch,
                              !.lost = dev.lost \cup dropped]
                    EXCEPT !.scratch = <<>>, !.room = 0, !.pushing = "idle"]
      BY <1>1, <1>7 DEF Rings
    <2>2. [dev EXCEPT !.ring = dev.ring \o stored, !.made = dev.made \o dev.scratch,
                      !.lost = dev.lost \cup dropped] \in Rings
      BY <1>1, <1>8 DEF Rings
    <2>3. ASSUME NEW r \in Rings PROVE [r EXCEPT !.scratch = <<>>, !.room = 0, !.pushing = "idle"] \in Rings
      <3>1. <<>> \in Seq(Int) /\ 0 \in Nat
        OBVIOUS
      <3>. QED
        BY <3>1 DEF Rings
    <2>. QED
      BY <2>1, <2>2, <2>3, Zenon
  <1>12. /\ dev'.made = dev.made \o dev.scratch /\ dev'.scratch = <<>> /\ dev'.frame = dev.frame
         /\ dev'.pos = dev.pos /\ dev'.lost = dev.lost \cup dropped /\ dev'.heard = dev.heard
         /\ dev'.ring = dev.ring \o stored /\ dev'.room = 0 /\ dev'.capacity = dev.capacity
         /\ dev'.pushing = "idle" /\ dev'.taking = dev.taking
    BY <1>1, <1>7 DEF Rings
  <1>13. Rising(dev'.made \o dev'.scratch, dev'.frame * Grain + dev'.pos)
    <2>1. (dev.made \o dev.scratch) \o <<>> = dev.made \o dev.scratch
      BY <1>8, ConcatEmptySeq
    <2>. QED
      BY <1>12, <2>1 DEF RingInv
  <1>14. \E k : Keeps(k, dev'.made, dev'.lost) /\ dev'.heard \o dev'.ring = Ring!Samples(k)
    BY <1>9, <1>10, <1>12
  <1>15. /\ dev'.taking <= Len(dev'.ring) /\ Len(dev'.ring) + dev'.room <= dev'.capacity
         /\ dev'.room <= 2 * Len(dev'.scratch) /\ dev'.room % 2 = 0
    <2>1. dev.taking <= Len(dev.ring) /\ Len(dev.ring) + dev.room <= dev.capacity
      BY DEF RingInv
    <2>2. Len(dev'.scratch) = 0 /\ 0 <= 2 * 0 /\ 0 % 2 = 0
      BY <1>12
    <2>3. dev'.taking <= Len(dev'.ring) /\ Len(dev'.ring) + dev'.room <= dev'.capacity
      <3>1. Len(dev.ring \o stored) + 0 <= dev.capacity /\ dev.taking <= Len(dev.ring \o stored)
        <4>1. Len(dev.ring) + 2 * h + 0 <= dev.capacity /\ dev.taking <= Len(dev.ring) + 2 * h
          <5>1. h \in Nat /\ Len(dev.ring) \in Nat /\ dev.capacity \in Nat /\ dev.taking \in Nat
            BY <1>1
          <5>. QED
            BY <1>2, <2>1, <5>1, Filled
        <4>2. Len(dev.ring \o stored) = Len(dev.ring) + 2 * h
          BY <1>8
        <4>. QED
          BY <4>1, <4>2
      <3>. QED
        BY <1>12, <3>1
    <2>. QED
      BY <1>12, <2>2, <2>3
  <1>16. Len(dev'.heard) % 2 = 0 /\ dev'.taking % 2 = 0
    BY <1>12 DEF RingInv
  <1>. QED
    BY <1>11, <1>12, <1>13, <1>14, <1>15, <1>16 DEF RingInv

(* The output frames that chunks of source frames add are a ratio apart,   *)
(* and the next is where they leave off.                                   *)
Progression(first, ratio, n) == [i \in 1 .. n |-> first + (i - 1) * ratio]
NextPlace(r) == r.frame * Grain + r.pos

LEMMA ProgressionType ==
  ASSUME NEW first \in Int, NEW ratio \in Int, NEW n \in Nat
  PROVE  Progression(first, ratio, n) \in Seq(Int) /\ Len(Progression(first, ratio, n)) = n
  <1>. DEFINE p == Progression(first, ratio, n)
  <1>1. p = [i \in 1 .. n |-> first + (i - 1) * ratio]
    BY DEF Progression
  <1>2. DOMAIN p = 1 .. n /\ p \in [1 .. n -> Int]
    BY <1>1
  <1>. HIDE DEF p
  <1>3. p \in UNION {[1 .. k -> Int] : k \in Nat}
    BY <1>2
  <1>4. p \in Seq(Int)
    BY <1>3, SeqDef, Zenon
  <1>5. p \in Seq(Int) /\ Len(p) = n
    BY <1>2, <1>4
  <1>. QED
    BY <1>5 DEF p

LEMMA RisesOn ==
  ASSUME NEW s, NEW next, Rising(s, next), NEW ratio \in Base - 1 .. Base + 1, NEW n \in Nat
  PROVE  Rising(s \o Progression(next, ratio, n), next + n * ratio)
  <1>. DEFINE p == Progression(next, ratio, n)
              m == Len(s)
              all == s \o p
  <1>1. /\ next \in Int /\ ratio \in Nat /\ ratio >= 1 /\ n \in Nat /\ s \in Seq(Int) /\ m \in Nat
    BY RingConstants DEF Rising
  <1>2. \A i \in 1 .. n : (i - 1) * ratio \in Int /\ p[i] = next + (i - 1) * ratio /\ p[i] \in Int
    BY <1>1 DEF Progression
  <1>3. p \in Seq(Int) /\ Len(p) = n
    <2>1. ratio \in Int
      BY RingConstants
    <2>. QED
      BY <1>1, <2>1, ProgressionType, Zenon
  <1>4. /\ all \in Seq(Int) /\ Len(all) = m + n /\ \A i \in 1 .. m : all[i] = s[i] /\ s[i] \in Int
        /\ \A i \in m + 1 .. m + n : all[i] = p[i - m]
    <2>. HIDE DEF p
    <2>1. /\ all \in Seq(Int) /\ Len(all) = Len(s) + Len(p) /\ \A i \in 1 .. Len(s) : all[i] = s[i]
          /\ \A i \in Len(s) + 1 .. Len(s) + Len(p) : all[i] = p[i - Len(s)]
      BY <1>1, <1>3, JoinParts, ZenonT(60)
    <2>. QED
      BY <1>1, <1>3, <2>1
  <1>5. \A i, j \in Int : i < j => (i - 1) * ratio < (j - 1) * ratio
    <2>. SUFFICES ASSUME NEW i \in Int, NEW j \in Int, i < j PROVE (i - 1) * ratio < (j - 1) * ratio
      OBVIOUS
    <2>. QED
      BY <1>1
  <1>6. \A i \in Int : i * ratio = (i - 1) * ratio + ratio
    BY <1>1
  <1>7. n * ratio \in Int /\ next + n * ratio \in Int
    BY <1>1
  <1>8. \A i \in m + 1 .. m + n : /\ i - m \in 1 .. n /\ i - m \in Int
                                 /\ all[i] = next + (i - m - 1) * ratio /\ (i - m - 1) * ratio \in Int
    BY <1>1, <1>2, <1>4
  <1>9. \A i \in m + 1 .. m + n : all[i] >= next /\ all[i] < next + n * ratio
    <2>. SUFFICES ASSUME NEW i \in m + 1 .. m + n PROVE all[i] >= next /\ all[i] < next + n * ratio
      OBVIOUS
    <2>1. 0 <= (i - m - 1) * ratio /\ (i - m - 1) * ratio < n * ratio
      BY <1>1
    <2>. QED
      <3>1. all[i] = next + (i - m - 1) * ratio /\ (i - m - 1) * ratio \in Int
        BY <1>8
      <3>. HIDE DEF all
      <3>. QED
        BY <1>1, <1>7, <2>1, <3>1
  <1>. HIDE DEF p, all
  <1>10. ASSUME NEW i \in 1 .. m + n, NEW j \in 1 .. m + n, i < j PROVE all[i] < all[j]
    <2>1. CASE j <= m
      <3>1. i \in 1 .. m /\ j \in 1 .. m
        BY <1>1, <1>10, <2>1
      <3>2. s[i] < s[j]
        BY <1>10, <3>1 DEF Rising
      <3>. QED
        BY <1>4, <3>1, <3>2
    <2>2. CASE i <= m /\ j > m
      <3>1. i \in 1 .. m /\ j \in m + 1 .. m + n
        BY <1>1, <2>2
      <3>2. s[i] < next /\ all[i] = s[i] /\ s[i] \in Int
        BY <1>4, <3>1 DEF Rising
      <3>3. all[j] >= next /\ all[j] \in Int
        BY <1>1, <1>8, <1>9, <3>1
      <3>. QED
        BY <1>1, <3>2, <3>3
    <2>3. CASE i > m
      <3>1. i \in m + 1 .. m + n /\ j \in m + 1 .. m + n /\ i - m < j - m /\ i - m \in Int /\ j - m \in Int
        BY <1>1, <1>10, <2>3
      <3>2. (i - m - 1) * ratio < (j - m - 1) * ratio
        BY <1>5, <3>1
      <3>. QED
        BY <1>1, <1>8, <3>1, <3>2
    <2>4. j <= m \/ (i <= m /\ j > m) \/ i > m
      BY <1>1
    <2>. QED
      BY <2>1, <2>2, <2>3, <2>4
  <1>11. \A i \in 1 .. m + n : all[i] < next + n * ratio
    <2>. SUFFICES ASSUME NEW i \in 1 .. m + n PROVE all[i] < next + n * ratio
      OBVIOUS
    <2>1. CASE i <= m
      <3>1. i \in 1 .. m
        BY <1>1, <2>1
      <3>2. s[i] < next /\ all[i] = s[i] /\ s[i] \in Int
        BY <1>4, <3>1 DEF Rising
      <3>3. n * ratio >= 0
        BY <1>1
      <3>. QED
        BY <1>1, <1>7, <3>2, <3>3
    <2>2. CASE i > m
      <3>1. i \in m + 1 .. m + n
        BY <1>1, <2>2
      <3>. QED
        BY <1>9, <3>1
    <2>3. i <= m \/ i > m
      BY <1>1
    <2>. QED
      BY <2>1, <2>2, <2>3
  <1>12. ASSUME NEW i \in 1 .. m + n - 1 PROVE Apart(all[i + 1] - all[i])
    <2>1. CASE i < m
      <3>1. i \in 1 .. m - 1 /\ i \in 1 .. m /\ i + 1 \in 1 .. m
        BY <1>1, <2>1
      <3>2. Apart(s[i + 1] - s[i])
        BY <3>1 DEF Rising
      <3>. QED
        BY <1>4, <3>1, <3>2
    <2>2. CASE i = m
      <3>1. m \in 1 .. m /\ m + 1 \in m + 1 .. m + n /\ m > 0
        BY <1>1, <2>2
      <3>2. Apart(next - s[m]) /\ all[m] = s[m]
        BY <1>4, <3>1 DEF Rising
      <3>3. all[m + 1] = next
        <4>1. m + 1 - m - 1 = 0 /\ 0 * ratio = 0 /\ next + 0 = next
          BY <1>1
        <4>. QED
          BY <1>8, <3>1, <4>1
      <3>. QED
        BY <2>2, <3>2, <3>3
    <2>3. CASE i > m
      <3>1. i \in m + 1 .. m + n /\ i + 1 \in m + 1 .. m + n /\ i - m \in Int /\ i + 1 - m - 1 = i - m
        BY <1>1, <2>3
      <3>2. (i - m) * ratio = (i - m - 1) * ratio + ratio
        BY <1>6, <3>1
      <3>3. all[i + 1] - all[i] = ratio
        BY <1>1, <1>8, <3>1, <3>2
      <3>. QED
        BY <3>3 DEF Apart
    <2>4. i < m \/ i = m \/ i > m
      BY <1>1
    <2>. QED
      BY <2>1, <2>2, <2>3, <2>4
  <1>13. Len(all) > 0 => Apart(next + n * ratio - all[Len(all)])
    <2>1. CASE n = 0
      <3>1. 0 * ratio = 0 /\ next + n * ratio = next /\ Len(all) = m
        BY <1>1, <1>4, <2>1
      <3>2. m > 0 => all[m] = s[m]
        <4>1. m > 0 => m \in 1 .. m
          BY <1>1
        <4>. QED
          BY <1>4, <4>1
      <3>. QED
        BY <3>1, <3>2 DEF Rising
    <2>2. CASE n # 0
      <3>1. m + n \in m + 1 .. m + n /\ m + n - m = n /\ n \in Int
        BY <1>1, <2>2
      <3>2. n * ratio = (n - 1) * ratio + ratio
        BY <1>6, <3>1
      <3>3. all[m + n] = next + (n - 1) * ratio /\ (n - 1) * ratio \in Int
        BY <1>8, <3>1
      <3>4. next + n * ratio - all[m + n] = ratio
        BY <1>1, <1>7, <3>2, <3>3
      <3>. QED
        BY <1>4, <3>4 DEF Apart
    <2>. QED
      BY <2>1, <2>2
  <1>14. Rising(all, next + n * ratio)
    BY <1>4, <1>7, <1>10, <1>11, <1>12, <1>13 DEF Rising
  <1>. QED
    BY <1>14 DEF all, p

(* The output frames of a chunk go on from those of the chunks before. *)
Emission == [out : Seq(Int), pos : Int, frame : Nat]
Continues(made) == {r \in Emission : Rising(made \o r.out, NextPlace(r))}

LEMMA Divides ==
  ASSUME NEW x \in Nat, NEW d \in Nat \ {0}
  PROVE  x \div d \in Nat
  OBVIOUS

LEMMA EmittedContinues ==
  ASSUME NEW made \in Seq(Int), NEW r \in Continues(made), NEW ratio \in Base - 1 .. Base + 1
  PROVE  Ring!Emitted(r, ratio) \in Continues(made) /\ Ring!Emitted(r, ratio).frame = r.frame + 1
  <1>. DEFINE e == Ring!Emitted(r, ratio)
  <1>1. /\ r.out \in Seq(Int) /\ r.pos \in Int /\ r.frame \in Nat /\ Grain \in Nat \ {0}
        /\ ratio \in Nat \ {0} /\ Rising(made \o r.out, NextPlace(r)) /\ NextPlace(r) \in Int
    BY RingConstants DEF Continues, Emission, NextPlace
  <1>2. PICK n \in Nat :
          n = IF r.pos < Grain THEN (Grain - r.pos + ratio - 1) \div ratio ELSE 0
    <2>1. CASE r.pos < Grain
      <3>1. Grain - r.pos + ratio - 1 \in Nat
        BY <1>1, <2>1
      <3>2. (Grain - r.pos + ratio - 1) \div ratio \in Nat
        BY <1>1, <3>1, Divides
      <3>. QED
        BY <2>1, <3>2
    <2>2. CASE ~(r.pos < Grain)
      BY <2>2
    <2>. QED
      BY <2>1, <2>2
  <1>. DEFINE p == Progression(NextPlace(r), ratio, n)
  <1>3. e = [out |-> r.out \o p, pos |-> r.pos + n * ratio - Grain, frame |-> r.frame + 1]
    BY <1>2, Zenon DEF Ring!Emitted, Progression, NextPlace
  <1>4. p \in Seq(Int)
    BY <1>1, ProgressionType
  <1>5. Rising((made \o r.out) \o p, NextPlace(r) + n * ratio)
    BY <1>1, RisesOn
  <1>6. (made \o r.out) \o p = made \o (r.out \o p) /\ r.out \o p \in Seq(Int)
    <2>. HIDE DEF p
    <2>1. PICK a \in Seq(Int) : a = r.out
      BY <1>1
    <2>2. (made \o a) \o p = made \o (a \o p) /\ a \o p \in Seq(Int)
      BY <1>4
    <2>. QED
      BY <2>1, <2>2
  <1>7. n * ratio \in Int
    BY <1>1
  <1>8. NextPlace(e) = NextPlace(r) + n * ratio
    <2>1. e.frame = r.frame + 1 /\ e.pos = r.pos + n * ratio - Grain
      BY <1>3
    <2>2. (r.frame + 1) * Grain = r.frame * Grain + Grain /\ r.frame * Grain \in Int
      BY <1>1
    <2>3. \A f, g, q, x \in Int : (f + g) + (q + x - g) = f + q + x
      OBVIOUS
    <2>. HIDE DEF e
    <2>4. NextPlace(e) = (r.frame * Grain + Grain) + (r.pos + n * ratio - Grain)
      BY <2>1, <2>2, Zenon DEF NextPlace
    <2>5. r.frame * Grain \in Int /\ Grain \in Int /\ r.pos \in Int /\ n * ratio \in Int
      BY <1>1, <1>7, <2>2
    <2>6. (r.frame * Grain + Grain) + (r.pos + n * ratio - Grain)
            = r.frame * Grain + r.pos + n * ratio
      <3>1. PICK f \in Int, q \in Int, x \in Int : f = r.frame * Grain /\ q = r.pos /\ x = n * ratio
        BY <2>5, Zenon
      <3>. QED
        BY <2>3, <2>5, <3>1
    <2>. QED
      BY <2>4, <2>6, Zenon DEF NextPlace
  <1>9. e \in Emission /\ e.out = r.out \o p /\ e.frame = r.frame + 1
    <2>1. r.pos + n * ratio - Grain \in Int /\ r.frame + 1 \in Nat
      BY <1>1, <1>7
    <2>. HIDE DEF p, e
    <2>. QED
      BY <1>3, <1>6, <2>1 DEF Emission
  <1>. HIDE DEF e, p
  <1>10. e \in Continues(made)
    BY <1>5, <1>6, <1>8, <1>9 DEF Continues
  <1>. QED
    BY <1>9, <1>10 DEF e

IsRun(g, a, frames, ratio) ==
  g = [k \in 0 .. frames |->
         IF k = 0 THEN [out |-> <<>>, pos |-> a.pos, frame |-> a.frame]
         ELSE Ring!Emitted(g[k - 1], ratio)]

LEMMA RunExists ==
  ASSUME NEW made \in Seq(Int), NEW a, [out |-> <<>>, pos |-> a.pos, frame |-> a.frame] \in Continues(made),
         NEW frames \in Nat, NEW ratio \in Base - 1 .. Base + 1
  PROVE  \E g : IsRun(g, a, frames, ratio) /\ Ring!Resampled(a, frames, ratio) = g[frames]
  <1>. DEFINE S == Continues(made)
              F == [n \in Nat |-> [x \in S |-> Ring!Emitted(x, ratio)]]
              zero == [out |-> <<>>, pos |-> a.pos, frame |-> a.frame]
  <1>1. F \in [Nat -> [S -> S]]
    <2>1. \A x \in S : Ring!Emitted(x, ratio) \in S
      BY EmittedContinues
    <2>. HIDE DEF S
    <2>. QED
      BY <2>1
  <1>2. \A n \in Nat, x \in S : F[n][x] = Ring!Emitted(x, ratio)
    <2>. HIDE DEF S
    <2>. QED
      OBVIOUS
  <1>. HIDE DEF F, S
  <1>3. PICK f : Iterated(f, S, F, zero)
    <2>1. zero \in S
      BY DEF S
    <2>. HIDE DEF zero
    <2>. QED
      BY <1>1, <2>1, Iterates
  <1>. DEFINE g == [k \in 0 .. frames |-> f[k]]
  <1>4. \A k \in 0 .. frames : g[k] = IF k = 0 THEN zero ELSE Ring!Emitted(g[k - 1], ratio)
    <2>. HIDE DEF zero
    <2>. SUFFICES ASSUME NEW k \in 0 .. frames
                  PROVE  g[k] = IF k = 0 THEN zero ELSE Ring!Emitted(g[k - 1], ratio)
      BY Zenon
    <2>1. CASE k = 0
      BY <1>3, <2>1 DEF Iterated
    <2>2. CASE k # 0
      <3>1. k - 1 \in Nat /\ k - 1 \in 0 .. frames /\ k - 1 + 1 = k
        BY <2>2
      <3>2. f[k - 1] \in S /\ f[k - 1 + 1] = F[k - 1][f[k - 1]]
        BY <1>3, <3>1, Zenon DEF Iterated
      <3>3. f[k] = Ring!Emitted(f[k - 1], ratio)
        BY <1>2, <3>1, <3>2
      <3>4. g[k] = f[k] /\ g[k - 1] = f[k - 1]
        BY <3>1
      <3>. HIDE DEF g
      <3>. QED
        BY <2>2, <3>3, <3>4
    <2>. QED
      BY <2>1, <2>2
  <1>5. g = [k \in 0 .. frames |-> g[k]]
    OBVIOUS
  <1>6. IsRun(g, a, frames, ratio)
    <2>. HIDE DEF g
    <2>. QED
      BY <1>4, <1>5, Zenon DEF IsRun
  <1>7. Ring!Resampled(a, frames, ratio) = (CHOOSE h : IsRun(h, a, frames, ratio))[frames]
    BY DEF Ring!Resampled, IsRun
  <1>. HIDE DEF g
  <1>. QED
    BY <1>6, <1>7, Zenon

LEMMA ResampledContinues ==
  ASSUME NEW made \in Seq(Int), NEW a, [out |-> <<>>, pos |-> a.pos, frame |-> a.frame] \in Continues(made),
         NEW frames \in Nat, NEW ratio \in Base - 1 .. Base + 1
  PROVE  /\ Ring!Resampled(a, frames, ratio) \in Continues(made)
         /\ Ring!Resampled(a, frames, ratio).frame = a.frame + frames
  <1>1. PICK g : IsRun(g, a, frames, ratio) /\ Ring!Resampled(a, frames, ratio) = g[frames]
    BY RunExists
  <1>. DEFINE zero == [out |-> <<>>, pos |-> a.pos, frame |-> a.frame]
              S == Continues(made)
              Good(k) == g[k] \in S /\ g[k].frame = a.frame + k
  <1>2. \A k \in 0 .. frames : g[k] = IF k = 0 THEN zero ELSE Ring!Emitted(g[k - 1], ratio)
    BY <1>1, Zenon DEF IsRun
  <1>3. a.frame \in Nat /\ zero \in S /\ zero.frame = a.frame
    BY DEF Continues, Emission
  <1>. HIDE DEF zero
  <1>4. Good(0)
    BY <1>2, <1>3
  <1>5. ASSUME NEW k \in 1 .. frames, Good(k - 1) PROVE Good(k)
    <2>1. k \in 0 .. frames /\ k # 0 /\ k - 1 \in Nat
      OBVIOUS
    <2>2. g[k] = Ring!Emitted(g[k - 1], ratio)
      BY <1>2, <2>1
    <2>3. g[k] \in S /\ g[k].frame = g[k - 1].frame + 1
      BY <1>5, <2>2, EmittedContinues
    <2>. QED
      BY <1>3, <1>5, <2>1, <2>3
  <1>. DEFINE T == {k \in 0 .. frames : ~Good(k)}
  <1>. HIDE DEF Good
  <1>6. T = {}
    <2>. SUFFICES ASSUME T # {} PROVE FALSE
      OBVIOUS
    <2>1. T \subseteq Nat
      OBVIOUS
    <2>2. PICK m \in T : \A n \in T : m <= n
      BY <2>1, LeastNat
    <2>3. m \in 1 .. frames /\ ~Good(m)
      BY <1>4, <2>2
    <2>4. ~(m - 1 \in T) /\ m - 1 \in 0 .. frames
      BY <2>2, <2>3, SMTT(30)
    <2>. QED
      BY <1>5, <2>3, <2>4
  <1>7. Good(frames)
    BY <1>6
  <1>. QED
    BY <1>1, <1>7 DEF Good

LEMMA RingPushBegin == RingInv /\ Ring!PushBegin => RingInv'
  <1>. SUFFICES ASSUME RingInv, Ring!PushBegin PROVE RingInv'
    OBVIOUS
  <1>1. /\ dev \in Rings /\ dev.made \in Seq(Int) /\ dev.scratch = <<>> /\ dev.frame \in Nat
        /\ dev.pos \in Int /\ dev.room = 0 /\ Len(dev.ring) \in Nat /\ dev.capacity \in Nat
        /\ dev.pushing = "idle"
    <2>1. /\ dev \in Rings /\ dev.pushing = "idle" /\ dev.scratch = <<>> /\ dev.room = 0
      BY DEF RingInv, Ring!PushBegin
    <2>. QED
      BY <2>1, RingTyped
  <1>2. PICK frames \in Chunks :
          /\ dev.frame + frames <= RingFrames
          /\ dev' = [dev EXCEPT !.pos = Ring!Resampled(dev, frames, Ring!Ratio(dev)).pos,
                                !.frame = Ring!Resampled(dev, frames, Ring!Ratio(dev)).frame,
                                !.scratch = Ring!Resampled(dev, frames, Ring!Ratio(dev)).out,
                                !.pushing = "made"]
    BY Zenon DEF Ring!PushBegin
  <1>3. Ring!Ratio(dev) \in Base - 1 .. Base + 1 /\ frames \in Nat /\ RingFrames \in Nat
    <2>1. \A n : Ring!Clamped(n) \in {-1, 0, 1}
      BY DEF Ring!Clamped
    <2>. QED
      BY <2>1, RingConstants DEF Ring!Ratio
  <1>4. [out |-> <<>>, pos |-> dev.pos, frame |-> dev.frame] \in Continues(dev.made)
    <2>1. dev.made \o <<>> = dev.made
      BY <1>1, ConcatEmptySeq
    <2>2. Rising(dev.made, dev.frame * Grain + dev.pos)
      BY <1>1, <2>1 DEF RingInv
    <2>3. [out |-> <<>>, pos |-> dev.pos, frame |-> dev.frame] \in Emission
      BY <1>1 DEF Emission
    <2>. QED
      BY <2>1, <2>2, <2>3 DEF Continues, NextPlace
  <1>. DEFINE r == Ring!Resampled(dev, frames, Ring!Ratio(dev))
  <1>5. r \in Continues(dev.made) /\ r.frame = dev.frame + frames
    BY <1>1, <1>3, <1>4, ResampledContinues
  <1>6. dev' = [dev EXCEPT !.pos = r.pos, !.frame = r.frame, !.scratch = r.out, !.pushing = "made"]
    BY <1>2
  <1>. HIDE DEF r
  <1>7. /\ r.pos \in Int /\ r.frame \in 0 .. RingFrames /\ r.out \in Seq(Int)
        /\ Rising(dev.made \o r.out, r.frame * Grain + r.pos)
    BY <1>1, <1>2, <1>3, <1>5 DEF Continues, Emission, NextPlace
  <1>8. dev' \in Rings
    BY <1>1, <1>6, <1>7 DEF Rings
  <1>9. /\ dev'.made = dev.made /\ dev'.scratch = r.out /\ dev'.frame = r.frame
        /\ dev'.pos = r.pos /\ dev'.lost = dev.lost /\ dev'.heard = dev.heard
        /\ dev'.ring = dev.ring /\ dev'.room = 0 /\ dev'.capacity = dev.capacity
        /\ dev'.pushing = "made" /\ dev'.taking = dev.taking
    BY <1>1, <1>6 DEF Rings
  <1>10. 0 <= 2 * Len(r.out) /\ 0 % 2 = 0
    <2>1. Len(r.out) \in Nat
      BY <1>7
    <2>. QED
      BY <2>1
  <1>. QED
    BY <1>1, <1>7, <1>8, <1>9, <1>10 DEF RingInv

LEMMA RingStep == RingInv /\ [Ring!Next]_dev => RingInv'
  <1>1. RingInv /\ UNCHANGED dev => RingInv'
    BY DEF RingInv
  <1>. QED
    BY <1>1, RingReadLook, RingReadEnd, RingPushLook, RingPushEnd, RingPushBegin DEF Ring!Next
-----------------------------------------------------------------------------
(* The session's proofs, for the session with its saves and pauses and for *)
(* the one with its link, and the desktop's.                               *)
S == INSTANCE SessionProofs WITH
  session <- dev, desktop <- dev, Connections <- {}, Reasons <- {"lifecycle", "menu"},
  Counting <- BOOLEAN
L == INSTANCE SessionProofs WITH
  session <- dev, desktop <- dev, Reasons <- {}, Counting <- {TRUE}, MaxGap <- 0, Quiet <- 1,
  MaxWritten <- 0
D == INSTANCE SessionProofs WITH
  session <- dev, desktop <- dev, Connections <- {}, Reasons <- {}, Counting <- BOOLEAN,
  MaxWritten <- DeskWritten

(* What they assume of their constants is so.                              *)
LEMMA SavingConstants == S!SessionConstants
  BY DEF S!SessionConstants

LEMMA LinkingConstants ==
  /\ L!SessionConstants
  /\ 1 \in Nat \ {0} /\ Guard \in Nat /\ SaveLength \in Nat \ {0}
  /\ 0 \in Nat /\ 0 < 1
  /\ SaveLength * (0 + 1) + 1 <= Guard
  /\ 0 \in Nat /\ 0 % SaveLength = 0
  <1>1. L!SessionConstants
    BY HostsAssumption DEF L!SessionConstants, L!NoConnection
  <1>2. SaveLength * (0 + 1) <= SaveLength * (MaxGap + 1)
    BY SaveRulesAssumption
  <1>. QED
    BY <1>1, <1>2, SaveRulesAssumption

LEMMA DesktopConstants ==
  /\ Quiet \in Nat \ {0} /\ Guard \in Nat /\ SaveLength \in Nat \ {0}
  /\ MaxGap \in Nat /\ MaxGap < Quiet
  /\ SaveLength * (MaxGap + 1) + Quiet <= Guard
  /\ DeskWritten \in Nat /\ DeskWritten % SaveLength = 0
  BY SaveRulesAssumption, HostsAssumption

(* The same session, named twice.                                         *)
LEMMA SavingSession ==
  /\ Saving!Init <=> S!Init
  /\ Saving!Next <=> S!Next
  /\ Saving!TypeOK <=> S!TypeOK
  /\ Saving!CleanIsOnFile <=> S!CleanIsOnFile
  /\ Saving!PausesHold <=> S!PausesHold
  /\ Saving!FileStep <=> S!FileStep
  /\ Saving!LidStep <=> S!LidStep
  <1>1. Saving!Init <=> S!Init
    BY Zenon
    DEF Saving!NewBackup, S!NewBackup, Saving!NewWatch, S!NewWatch, Saving!Epoch, S!Epoch,
        Saving!CoreUnlinked, S!CoreUnlinked, Saving!NewLink, S!NewLink, Saving!NoConnection,
        S!NoConnection, Saving!Init, S!Init
  <1>2. Saving!Next <=> S!Next
    <2>1. Saving!MainThread <=> S!MainThread
      BY ZenonT(60)
      DEF Saving!Idle, S!Idle, Saving!Pause, S!Pause, Saving!Hidden, S!Hidden, Saving!Start,
          S!Start, Saving!Resign, S!Resign, Saving!Menu, S!Menu, Saving!EnterBackground,
          S!EnterBackground, Saving!Teardown, S!Teardown, Saving!TakeCore, S!TakeCore,
          Saving!Flushing, S!Flushing, Saving!FlushFrame, S!FlushFrame, Saving!FlushEnd,
          S!FlushEnd, Saving!ShutDownLink, S!ShutDownLink, Saving!EnterForeground,
          S!EnterForeground, Saving!LinkCall, S!LinkCall, Saving!MainThread, S!MainThread,
          Saving!NewWatch, S!NewWatch, Saving!Epoch, S!Epoch, Saving!AfterFrame, S!AfterFrame,
          Saving!Whole, S!Whole, Saving!Min, S!Min, Saving!Watched, S!Watched,
          Saving!KeepsWaiting, S!KeepsWaiting, Saving!Flushed, S!Flushed, Saving!NoConnection,
          S!NoConnection, Saving!Unused, S!Unused, Saving!StopListener, S!StopListener,
          Saving!SetCarrierIntent, S!SetCarrierIntent, Saving!Hosted, S!Hosted, Saving!Joined,
          S!Joined, Saving!Disconnected, S!Disconnected, Saving!Cancelled, S!Cancelled,
          Saving!ShutDown, S!ShutDown
    <2>2. Saving!EmulationThread <=> S!EmulationThread
      <3>1. Saving!Check <=> S!Check
        BY Zenon DEF Saving!Check, S!Check
      <3>2. Saving!BeginTick <=> S!BeginTick
        <4>1. \A l : Saving!Cancelled(l) = S!Cancelled(l)
          BY Zenon DEF Saving!Cancelled, S!Cancelled, Saving!NoConnection, S!NoConnection
        <4>2. \A l : Saving!TornDown(l) = S!TornDown(l)
          BY <4>1, Zenon DEF Saving!TornDown, S!TornDown, Saving!CoreUnlinked, S!CoreUnlinked
        <4>3. \A l : Saving!IntentsApplied(l) = S!IntentsApplied(l)
          BY <4>2, Zenon
          DEF Saving!IntentsApplied, S!IntentsApplied, Saving!NoConnection, S!NoConnection
        <4>4. \A l : Saving!Reconciled(l) = S!Reconciled(l)
          BY <4>2, <4>3, ZenonT(60)
          DEF Saving!Reconciled, S!Reconciled, Saving!NoConnection, S!NoConnection
        <4>. QED
          BY <4>4, Zenon DEF Saving!BeginTick, S!BeginTick
      <3>3. Saving!EndTick <=> S!EndTick
        BY ZenonT(60)
        DEF Saving!EndTick, S!EndTick, Saving!AfterFrame, S!AfterFrame, Saving!Whole, S!Whole,
            Saving!Min, S!Min, Saving!Epoch, S!Epoch, Saving!Watched, S!Watched,
            Saving!Flushed, S!Flushed, Saving!DrivesLink, S!DrivesLink, Saving!NoConnection,
            S!NoConnection
      <3>. QED
        BY <3>1, <3>2, <3>3 DEF Saving!EmulationThread, S!EmulationThread
    <2>3. Saving!Network <=> S!Network
      BY Zenon
      DEF Saving!Network, S!Network, Saving!Knocked, S!Knocked, Saving!Accepted, S!Accepted,
          Saving!AcceptEnded, S!AcceptEnded, Saving!NetworkChanged, S!NetworkChanged,
          Saving!Unused, S!Unused, Saving!StopListener, S!StopListener,
          Saving!SetCarrierIntent, S!SetCarrierIntent
    <2>. QED
      BY <2>1, <2>2, <2>3 DEF Saving!Next, S!Next
  <1>3. Saving!TypeOK <=> S!TypeOK
    BY Zenon
    DEF Saving!NoConnection, S!NoConnection, Saving!Statuses, S!Statuses, Saving!LinkTypeOK,
        S!LinkTypeOK, Saving!TypeOK, S!TypeOK
  <1>4. Saving!CleanIsOnFile <=> S!CleanIsOnFile
    BY Zenon
    DEF Saving!CleanIsOnFile, S!CleanIsOnFile
  <1>5. Saving!PausesHold <=> S!PausesHold
    BY Zenon
    DEF Saving!PausesHold, S!PausesHold
  <1>6. Saving!FileStep <=> S!FileStep
    BY Zenon
    DEF Saving!FileStep, S!FileStep, Saving!Flushing, S!Flushing, Saving!Whole, S!Whole,
        Saving!Settled, S!Settled
  <1>7. Saving!LidStep <=> S!LidStep
    BY Zenon
    DEF Saving!LidStep, S!LidStep, Saving!Settled, S!Settled, Saving!Whole, S!Whole
  <1>. QED
    BY <1>1, <1>2, <1>3, <1>4, <1>5, <1>6, <1>7

LEMMA LinkingSession ==
  /\ Linking!Init <=> L!Init
  /\ Linking!Next <=> L!Next
  /\ Linking!TypeOK <=> L!TypeOK
  /\ Linking!LinkAsAsked <=> L!LinkAsAsked
  <1>1. Linking!Init <=> L!Init
    BY Zenon
    DEF Linking!NewBackup, L!NewBackup, Linking!NewWatch, L!NewWatch, Linking!Epoch, L!Epoch,
        Linking!CoreUnlinked, L!CoreUnlinked, Linking!NewLink, L!NewLink, Linking!NoConnection,
        L!NoConnection, Linking!Init, L!Init
  <1>2. Linking!Next <=> L!Next
    <2>1. Linking!MainThread <=> L!MainThread
      BY ZenonT(60)
      DEF Linking!Idle, L!Idle, Linking!Pause, L!Pause, Linking!Hidden, L!Hidden,
          Linking!Start, L!Start, Linking!Resign, L!Resign, Linking!Menu, L!Menu,
          Linking!EnterBackground, L!EnterBackground, Linking!Teardown, L!Teardown,
          Linking!TakeCore, L!TakeCore, Linking!Flushing, L!Flushing, Linking!FlushFrame,
          L!FlushFrame, Linking!FlushEnd, L!FlushEnd, Linking!ShutDownLink, L!ShutDownLink,
          Linking!EnterForeground, L!EnterForeground, Linking!LinkCall, L!LinkCall,
          Linking!MainThread, L!MainThread, Linking!NewWatch, L!NewWatch, Linking!Epoch,
          L!Epoch, Linking!AfterFrame, L!AfterFrame, Linking!Whole, L!Whole, Linking!Min,
          L!Min, Linking!Watched, L!Watched, Linking!KeepsWaiting, L!KeepsWaiting,
          Linking!Flushed, L!Flushed, Linking!NoConnection, L!NoConnection, Linking!Unused,
          L!Unused, Linking!StopListener, L!StopListener, Linking!SetCarrierIntent,
          L!SetCarrierIntent, Linking!Hosted, L!Hosted, Linking!Joined, L!Joined,
          Linking!Disconnected, L!Disconnected, Linking!Cancelled, L!Cancelled,
          Linking!ShutDown, L!ShutDown
    <2>2. Linking!EmulationThread <=> L!EmulationThread
      <3>1. Linking!Check <=> L!Check
        BY Zenon DEF Linking!Check, L!Check
      <3>2. Linking!BeginTick <=> L!BeginTick
        <4>1. \A l : Linking!Cancelled(l) = L!Cancelled(l)
          BY Zenon DEF Linking!Cancelled, L!Cancelled, Linking!NoConnection, L!NoConnection
        <4>2. \A l : Linking!TornDown(l) = L!TornDown(l)
          BY <4>1, Zenon DEF Linking!TornDown, L!TornDown, Linking!CoreUnlinked, L!CoreUnlinked
        <4>3. \A l : Linking!IntentsApplied(l) = L!IntentsApplied(l)
          BY <4>2, Zenon
          DEF Linking!IntentsApplied, L!IntentsApplied, Linking!NoConnection, L!NoConnection
        <4>4. \A l : Linking!Reconciled(l) = L!Reconciled(l)
          BY <4>2, <4>3, ZenonT(60)
          DEF Linking!Reconciled, L!Reconciled, Linking!NoConnection, L!NoConnection
        <4>. QED
          BY <4>4, Zenon DEF Linking!BeginTick, L!BeginTick
      <3>3. Linking!EndTick <=> L!EndTick
        BY ZenonT(60)
        DEF Linking!EndTick, L!EndTick, Linking!AfterFrame, L!AfterFrame, Linking!Whole,
            L!Whole, Linking!Min, L!Min, Linking!Epoch, L!Epoch, Linking!Watched, L!Watched,
            Linking!Flushed, L!Flushed, Linking!DrivesLink, L!DrivesLink, Linking!NoConnection,
            L!NoConnection
      <3>. QED
        BY <3>1, <3>2, <3>3 DEF Linking!EmulationThread, L!EmulationThread
    <2>3. Linking!Network <=> L!Network
      BY Zenon
      DEF Linking!Network, L!Network, Linking!Knocked, L!Knocked, Linking!Accepted, L!Accepted,
          Linking!AcceptEnded, L!AcceptEnded, Linking!NetworkChanged, L!NetworkChanged,
          Linking!Unused, L!Unused, Linking!StopListener, L!StopListener,
          Linking!SetCarrierIntent, L!SetCarrierIntent
    <2>. QED
      BY <2>1, <2>2, <2>3 DEF Linking!Next, L!Next
  <1>3. Linking!TypeOK <=> L!TypeOK
    BY Zenon
    DEF Linking!NoConnection, L!NoConnection, Linking!Statuses, L!Statuses, Linking!LinkTypeOK,
        L!LinkTypeOK, Linking!TypeOK, L!TypeOK
  <1>4. Linking!LinkAsAsked <=> L!LinkAsAsked
    BY Zenon
    DEF Linking!LinkAsAsked, L!LinkAsAsked, Linking!NoConnection, L!NoConnection,
        Linking!FollowsIntent, L!FollowsIntent
  <1>. QED
    BY <1>1, <1>2, <1>3, <1>4

LEMMA DesktopLoop ==
  /\ Desktop!Init <=> D!Desk!Init
  /\ Desktop!Next <=> D!Desk!Next
  /\ Desktop!TypeOK <=> D!Desk!TypeOK
  /\ Desktop!CleanIsOnFile <=> D!Desk!CleanIsOnFile
  /\ Desktop!ExitKeeps <=> D!Desk!ExitKeeps
  /\ Desktop!TornIsKnown <=> D!Desk!TornIsKnown
  /\ Desktop!FileStep <=> D!Desk!FileStep
  <1>1. Desktop!Init <=> D!Desk!Init
    BY Zenon
    DEF Desktop!NewBackup, D!Desk!NewBackup, Desktop!NewWatch, D!Desk!NewWatch, Desktop!Epoch,
        D!Desk!Epoch, Desktop!Init, D!Desk!Init
  <1>2. Desktop!Next <=> D!Desk!Next
    <2>1. \A b : Desktop!Turn(b) <=> D!Desk!Turn(b)
      BY Zenon
      DEF Desktop!Turn, D!Desk!Turn, Desktop!Watched, D!Desk!Watched, Desktop!Epoch,
          D!Desk!Epoch, Desktop!Min, D!Desk!Min, Desktop!Recorded, D!Desk!Recorded,
          Desktop!NotAfter, D!Desk!NotAfter
    <2>2. \A b : Desktop!AfterFrame(b) = D!Desk!AfterFrame(b)
      BY Zenon
      DEF Desktop!AfterFrame, D!Desk!AfterFrame, Desktop!Whole, D!Desk!Whole, Desktop!Min,
          D!Desk!Min
    <2>3. /\ Desktop!LiveFrame <=> D!Desk!LiveFrame
          /\ Desktop!WarpFrames <=> D!Desk!WarpFrames
      BY <2>1, <2>2, Zenon
      DEF Desktop!LiveFrame, D!Desk!LiveFrame, Desktop!WarpFrames, D!Desk!WarpFrames,
          Desktop!Playing, D!Desk!Playing
    <2>4. /\ Desktop!Seek <=> D!Desk!Seek
          /\ Desktop!Close <=> D!Desk!Close
      BY Zenon
      DEF Desktop!Seek, D!Desk!Seek, Desktop!Close, D!Desk!Close, Desktop!Playing,
          D!Desk!Playing, Desktop!NotAfter, D!Desk!NotAfter, Desktop!NewWatch,
          D!Desk!NewWatch, Desktop!Epoch, D!Desk!Epoch
    <2>5. Desktop!ClosingFrame <=> D!Desk!ClosingFrame
      BY <2>2, Zenon
      DEF Desktop!ClosingFrame, D!Desk!ClosingFrame, Desktop!Waiting, D!Desk!Waiting,
          Desktop!KeepsWaiting, D!Desk!KeepsWaiting, Desktop!Watched, D!Desk!Watched,
          Desktop!Epoch, D!Desk!Epoch, Desktop!Min, D!Desk!Min
    <2>6. Desktop!FinalWrite <=> D!Desk!FinalWrite
      BY Zenon
      DEF Desktop!FinalWrite, D!Desk!FinalWrite, Desktop!Waiting, D!Desk!Waiting,
          Desktop!KeepsWaiting, D!Desk!KeepsWaiting
    <2>7. /\ Desktop!WriteSave <=> D!Desk!WriteSave
          /\ Desktop!WriteSidecar <=> D!Desk!WriteSidecar
          /\ Desktop!Kill <=> D!Desk!Kill
      BY Zenon
      DEF Desktop!WriteSave, D!Desk!WriteSave, Desktop!WriteSidecar, D!Desk!WriteSidecar,
          Desktop!Kill, D!Desk!Kill, Desktop!Ended, D!Desk!Ended, Desktop!Torn, D!Desk!Torn,
          Desktop!Dead, D!Desk!Dead
    <2>. QED
      BY <2>3, <2>4, <2>5, <2>6, <2>7, Zenon DEF Desktop!Next, D!Desk!Next
  <1>3. Desktop!TypeOK <=> D!Desk!TypeOK
    BY Zenon
    DEF Desktop!TypeOK, D!Desk!TypeOK, Desktop!Torn, D!Desk!Torn
  <1>4. Desktop!CleanIsOnFile <=> D!Desk!CleanIsOnFile
    BY Zenon
    DEF Desktop!CleanIsOnFile, D!Desk!CleanIsOnFile, Desktop!OnFile, D!Desk!OnFile
  <1>5. Desktop!ExitKeeps <=> D!Desk!ExitKeeps
    BY Zenon
    DEF Desktop!ExitKeeps, D!Desk!ExitKeeps, Desktop!OnFile, D!Desk!OnFile
  <1>6. Desktop!FileStep <=> D!Desk!FileStep
    BY Zenon
    DEF Desktop!FileStep, D!Desk!FileStep, Desktop!CompleteWrite, D!Desk!CompleteWrite,
        Desktop!Whole, D!Desk!Whole, Desktop!Settled, D!Desk!Settled, Desktop!Torn, D!Desk!Torn
  <1>7. Desktop!TornIsKnown <=> D!Desk!TornIsKnown
    BY Zenon
    DEF Desktop!TornIsKnown, D!Desk!TornIsKnown, Desktop!Torn, D!Desk!Torn
  <1>. QED
    BY <1>1, <1>2, <1>3, <1>4, <1>5, <1>6, <1>7

(* Every unit stays in its own invariant.                                  *)
HostsInv ==
  \/ unit = "rewind" /\ RewindInv
  \/ unit = "desktop" /\ D!DeskInv
  \/ unit = "saving" /\ S!IInv
  \/ unit = "linking" /\ L!IInv
  \/ unit = "loop" /\ LoopInv
  \/ unit = "ring" /\ RingInv

LEMMA HostsStart == HostsInit => HostsInv
  <1>. SUFFICES ASSUME HostsInit PROVE HostsInv
    OBVIOUS
  <1>1. CASE unit = "rewind" /\ Init
    BY <1>1, RewindInit DEF HostsInv
  <1>2. CASE unit = "desktop" /\ Desktop!Init
    BY <1>2, DesktopLoop, DesktopConstants, D!InitDeskInv DEF HostsInv
  <1>3. CASE unit = "saving" /\ Saving!Init
    BY <1>3, SavingSession, SavingConstants, SaveRulesAssumption, S!InitIInv DEF HostsInv
  <1>4. CASE unit = "linking" /\ Linking!Init
    BY <1>4, LinkingSession, LinkingConstants, L!InitIInv DEF HostsInv
  <1>5. CASE unit = "loop" /\ Loop!Init
    BY <1>5, LoopStarts DEF HostsInv
  <1>6. CASE unit = "ring" /\ Ring!Init
    BY <1>6, RingStarts DEF HostsInv
  <1>. QED
    BY <1>1, <1>2, <1>3, <1>4, <1>5, <1>6 DEF HostsInit

(* A step keeps the invariant, and the rule about the file with it.        *)
LEMMA HostsStep ==
  ASSUME HostsInv, [HostsNext]_<<vars, unit, dev>>
  PROVE  HostsInv' /\ FlushStep
  <1>1. unit' = unit
    BY DEF HostsNext, Still
  <1>2. CASE unit = "rewind"
    <2>1. RewindInv /\ [NextWindow]_vars
      BY <1>2 DEF HostsInv, HostsNext
    <2>. QED
      BY <1>1, <1>2, <2>1, RewindNext DEF HostsInv, FlushStep
  <1>3. CASE unit = "desktop"
    <2>1. D!DeskInv /\ [D!Desk!Next]_dev
      BY <1>3, DesktopLoop DEF HostsInv, HostsNext
    <2>2. D!DeskInv' /\ D!Desk!FileStep
      BY <2>1, DesktopConstants, D!DeskStep DEF D!Desk!vars
    <2>. QED
      BY <1>1, <1>3, <2>2, DesktopLoop DEF HostsInv, FlushStep
  <1>4. CASE unit = "saving"
    <2>1. S!IInv /\ [S!Next]_dev
      BY <1>4, SavingSession DEF HostsInv, HostsNext
    <2>2. S!IInv' /\ S!FileStep /\ S!LidStep
      BY <2>1, SavingConstants, SaveRulesAssumption, S!NextStep DEF S!vars
    <2>. QED
      BY <1>1, <1>4, <2>2, SavingSession DEF HostsInv, FlushStep
  <1>5. CASE unit = "linking"
    <2>1. L!IInv /\ [L!Next]_dev
      BY <1>5, LinkingSession DEF HostsInv, HostsNext
    <2>2. L!IInv'
      BY <2>1, LinkingConstants, L!NextStep DEF L!vars
    <2>. QED
      BY <1>1, <1>5, <2>2 DEF HostsInv, FlushStep
  <1>6. CASE unit = "loop"
    <2>1. LoopInv /\ [Loop!Next]_dev
      BY <1>6 DEF HostsInv, HostsNext
    <2>. QED
      BY <1>1, <1>6, <2>1, LoopStep DEF HostsInv, FlushStep
  <1>7. CASE unit = "ring"
    <2>1. RingInv /\ [Ring!Next]_dev
      BY <1>7 DEF HostsInv, HostsNext
    <2>. QED
      BY <1>1, <1>7, <2>1, RingStep DEF HostsInv, FlushStep
  <1>. QED
    BY <1>2, <1>3, <1>4, <1>5, <1>6, <1>7 DEF HostsInv

THEOREM HostsInvariant == HostsSpec => []HostsInv
  <1>1. HostsInv /\ [HostsNext]_<<vars, unit, dev>> => HostsInv'
    BY HostsStep
  <1>. QED
    BY <1>1, HostsStart, PTL DEF HostsSpec

(* The state of every unit is well formed: the threads of the session are  *)
(* where they can be, no counter leaves its range, a callback never takes  *)
(* more than the ring holds.                                               *)
THEOREM HostsTypeCorrect == HostsSpec => []HostsTypeOK
  <1>1. HostsInv => HostsTypeOK
    <2>. SUFFICES ASSUME HostsInv PROVE HostsTypeOK
      OBVIOUS
    <2>1. CASE unit = "rewind" /\ RewindInv
      BY <2>1 DEF HostsTypeOK, RewindInv
    <2>2. CASE unit = "desktop" /\ D!DeskInv
      <3>1. D!Desk!TypeOK
        BY <2>2 DEF D!DeskInv, D!DeskState, D!Desk!TypeOK, D!Backup, D!Watch
      <3>. QED
        BY <2>2, <3>1, DesktopLoop DEF HostsTypeOK
    <2>3. CASE unit = "saving" /\ S!IInv
      <3>1. S!TypeOK
        BY <2>3 DEF S!IInv, S!Session, S!TypeOK, S!Link, S!LinkTypeOK
      <3>. QED
        BY <2>3, <3>1, SavingSession DEF HostsTypeOK
    <2>4. CASE unit = "linking" /\ L!IInv
      <3>1. L!TypeOK
        BY <2>4 DEF L!IInv, L!Session, L!TypeOK, L!Link, L!LinkTypeOK
      <3>. QED
        BY <2>4, <3>1, LinkingSession DEF HostsTypeOK
    <2>5. CASE unit = "loop" /\ LoopInv
      BY <2>5, LoopReports DEF HostsTypeOK
    <2>6. CASE unit = "ring" /\ RingInv
      BY <2>6, RingSound DEF HostsTypeOK
    <2>. QED
      BY <2>1, <2>2, <2>3, <2>4, <2>5, <2>6 DEF HostsInv
  <1>. QED
    BY <1>1, HostsInvariant, PTL

(* No reason to pause is lifted by another's end: out of sight or under    *)
(* its menu the game gets the one tick that had already looked, at most.   *)
THEOREM PausesAreKept == HostsSpec => []PausesHold
  <1>1. HostsInv => PausesHold
    <2>1. S!IInv => S!PausesHold
      BY DEF S!IInv, S!PauseInv, S!PausesHold, S!Session
    <2>. QED
      BY <2>1, SavingSession DEF HostsInv, PausesHold
  <1>. QED
    BY <1>1, HostsInvariant, PTL

(* A tick drives the link last asked for, by the user or a peer let in,    *)
(* whatever was recorded between two ticks, and the core knows that link.  *)
THEOREM LinksAreAsked == HostsSpec => []LinkAsAsked
  <1>1. HostsInv => LinkAsAsked
    <2>1. L!IInv => L!LinkAsAsked
      BY DEF L!IInv, L!LinkInv, L!IntentInv, L!Told, L!LinkAsAsked, L!FollowsIntent, L!Session,
             L!Link
    <2>. QED
      BY <2>1, LinkingSession DEF HostsInv, LinkAsAsked
  <1>. QED
    BY <1>1, HostsInvariant, PTL

(* What the machine made reaches its host: the call in which a frame ended *)
(* reports it, whatever slice the host ran, stop mode and link rounds in   *)
(* between; and every output frame is heard, in its order and pair, or was *)
(* dropped whole, however the producer and the callback interleave.        *)
THEOREM OutputArrives == HostsSpec => []OutputReachesHost
  <1>1. HostsInv => OutputReachesHost
    BY LoopReports, RingSound DEF HostsInv, OutputReachesHost
  <1>. QED
    BY <1>1, HostsInvariant, PTL

(* Neither host puts half a save of the game on file or forgets a store,   *)
(* through writes that fail or stop half-way, fast-forwards, seeks and     *)
(* whatever way the program is left; the desktop's file is in pieces only  *)
(* after an error or a kill; and the lid waits for the save under way.     *)
THEOREM FilesAreWhole == HostsSpec => FilesWhole
  <1>1. HostsInv => FilesAreKept
    <2>1. D!DeskInv => Desktop!CleanIsOnFile /\ Desktop!ExitKeeps /\ Desktop!TornIsKnown
      BY DesktopLoop DEF D!DeskInv
    <2>2. S!IInv => Saving!CleanIsOnFile
      BY SavingSession DEF S!IInv, S!SaveInv
    <2>. QED
      BY <2>1, <2>2 DEF HostsInv, FilesAreKept
  <1>2. HostsInv /\ HostsInv' /\ [HostsNext]_<<vars, unit, dev>>
          => [FilesAreKept' /\ FlushStep]_<<vars, unit, dev>>
    <2>1. HostsInv' => FilesAreKept'
      BY <1>1, PTL
    <2>. QED
      BY <2>1, HostsStep
  <1>. QED
    BY <1>2, HostsInvariant, PTL DEF HostsSpec, FilesWhole
=============================================================================
