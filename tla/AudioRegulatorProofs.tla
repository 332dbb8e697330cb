------------------------ MODULE AudioRegulatorProofs ------------------------
(***************************************************************************)
(* Proofs about the audio output, for every size of the ring, every size   *)
(* of the frames and of the requests, and every number of them.            *)
(***************************************************************************)
EXTENDS AudioRegulator, TLAPS

Pushing == {"idle", "silence", "convert", "write", "full", "limit", "skip", "finish"}

\* The device and the regulator, by where the decoder thread is.
PlayerFollowsPc ==
    /\ pc \in {"open", "close"} => stream # "running"
    /\ pc \in Pushing => stream = "running"
    /\ pc = "closed" => stream = "none"
    /\ stream # "none" => alive
    /\ cpc # "idle" => stream = "running"

\* What the callback reads is there until it has read it.
CallbackIsServed ==
    /\ cpc = "locked" => got <= can_read
    /\ cpc \in {"locked", "after"} => got <= Chunk

\* What the decoder thread writes has room, and ends with the frame.
JobFits ==
    /\ pc \in {"write", "silence"} => job.count <= can_write
    /\ pc \in {"write", "full"} =>
         /\ job.samples <= Capacity /\ job.written <= job.samples
         /\ job.first + job.samples = serial + 1 /\ job.first > 0
    /\ pc \in {"silence", "convert"} => job.written = 0
    /\ pc = "write" =>
         /\ job.stage \in {1, 3} /\ job.written + job.count <= job.samples
         /\ job.stage = 3 => job.written + job.count = job.samples

\* The newest sample that was written, or that may have been.
Newest == IF pc \in {"write", "full"} THEN job.first + job.written - 1 ELSE serial

RingIsInOrder ==
    /\ last <= Newest
    /\ \A i \in 1 .. can_read : Nth(i) # 0 =>
         /\ last < Nth(i) /\ Nth(i) <= Newest
         /\ \A j \in 1 .. i - 1 : Nth(j) < Nth(i)

\* The most samples between two frames.
Most == MaxBuffered(TRUE)

\* How much is buffered, by where the decoder thread is.
LevelFollowsPc ==
    /\ pc = "open" => can_read = 0
    /\ pc \in {"idle", "convert", "finish"} => can_read <= Most
    /\ pc = "silence" => can_read + job.count <= Most
    /\ pc \in {"skip", "finish"} => job.max <= Most

IInv ==
    /\ TypeOK /\ ~failed /\ PlayerFollowsPc /\ CallbackIsServed /\ JobFits
    /\ RingIsInOrder /\ LevelFollowsPc

-----------------------------------------------------------------------------
(* The arithmetic of the ring.                                              *)

\* The slot of a cursor.
Wrap(a) == a % AllocSize

\* The ring has one more slot than it holds samples.
LEMMA RingSize ==
    /\ Capacity \in Nat /\ Capacity > 0
    /\ AllocSize \in Nat /\ AllocSize = Capacity + 1 /\ AllocSize > 1
    /\ \A x : x \in Slots <=> x \in Nat /\ x < AllocSize
  <1>1. Target \in Nat /\ Rate \in Nat /\ Rate > 0
    BY SizesAssumption
  <1>2. Capacity \in Nat /\ Capacity > 0
    BY <1>1 DEF Capacity
  <1>3. AllocSize \in Nat /\ AllocSize = Capacity + 1 /\ AllocSize > 1
    BY <1>2 DEF AllocSize
  <1>4. \A x : x \in Slots <=> x \in Nat /\ x < AllocSize
    BY <1>3 DEF Slots
  <1> QED
    BY <1>2, <1>3, <1>4

\* A cursor past the end of the ring wraps around once.
LEMMA Wrapped ==
    ASSUME NEW a \in Nat, a < AllocSize + AllocSize
    PROVE  /\ a < AllocSize => Wrap(a) = a
           /\ AllocSize <= a => Wrap(a) = a - AllocSize
           /\ Wrap(a) \in Slots
  <1>1. ASSUME NEW m \in Nat, m > 0, NEW b \in Nat, b < m
        PROVE  b % m = b
    BY <1>1
  <1>2. ASSUME NEW m \in Nat, m > 0, NEW b \in Nat, m <= b, b < m + m
        PROVE  b % m = b - m
    BY <1>2
  <1>3. AllocSize \in Nat /\ AllocSize > 0
    BY RingSize
  <1>4. a < AllocSize => Wrap(a) = a
    BY <1>1, <1>3 DEF Wrap
  <1>5. AllocSize <= a => Wrap(a) = a - AllocSize
    BY <1>2, <1>3 DEF Wrap
  <1> QED
    BY <1>3, <1>4, <1>5, RingSize

\* No two positions within the ring are the same slot.
LEMMA SlotsDiffer ==
    ASSUME NEW c \in Slots, NEW p \in Nat, NEW q \in Nat,
           1 <= p, p < q, q <= AllocSize
    PROVE  Wrap(c + p - 1) # Wrap(c + q - 1)
  <1>1. c \in Nat /\ c < AllocSize /\ AllocSize \in Nat
    BY RingSize
  <1>2. /\ c + p - 1 \in Nat /\ c + p - 1 < AllocSize + AllocSize
        /\ c + q - 1 \in Nat /\ c + q - 1 < AllocSize + AllocSize
    BY <1>1
  <1>3. /\ c + p - 1 < AllocSize => Wrap(c + p - 1) = c + p - 1
        /\ AllocSize <= c + p - 1 => Wrap(c + p - 1) = c + p - 1 - AllocSize
    BY <1>1, <1>2, Wrapped
  <1>4. /\ c + q - 1 < AllocSize => Wrap(c + q - 1) = c + q - 1
        /\ AllocSize <= c + q - 1 => Wrap(c + q - 1) = c + q - 1 - AllocSize
    BY <1>1, <1>2, Wrapped
  <1> QED
    BY <1>1, <1>3, <1>4

\* Between two cursors: the samples to read and the room to write add up to
\* the capacity.
LEMMA Level ==
    ASSUME NEW h \in Slots, NEW t \in Slots
    PROVE  /\ Wrap(AllocSize + h - t) \in Nat
           /\ Wrap(AllocSize + h - t) <= Capacity
           /\ Wrap(AllocSize + h - t) = IF t <= h THEN h - t ELSE AllocSize + h - t
           /\ Wrap(AllocSize + t - h - 1) = Capacity - Wrap(AllocSize + h - t)
  <1>1. /\ h \in Nat /\ h < AllocSize /\ t \in Nat /\ t < AllocSize
        /\ AllocSize \in Nat /\ AllocSize = Capacity + 1
    BY RingSize
  <1>2. /\ AllocSize + h - t \in Nat /\ AllocSize + h - t < AllocSize + AllocSize
        /\ AllocSize + t - h - 1 \in Nat /\ AllocSize + t - h - 1 < AllocSize + AllocSize
    BY <1>1
  <1>3. /\ AllocSize + h - t < AllocSize =>
             Wrap(AllocSize + h - t) = AllocSize + h - t
        /\ AllocSize <= AllocSize + h - t =>
             Wrap(AllocSize + h - t) = AllocSize + h - t - AllocSize
    BY <1>1, <1>2, Wrapped
  <1>4. /\ AllocSize + t - h - 1 < AllocSize =>
             Wrap(AllocSize + t - h - 1) = AllocSize + t - h - 1
        /\ AllocSize <= AllocSize + t - h - 1 =>
             Wrap(AllocSize + t - h - 1) = AllocSize + t - h - 1 - AllocSize
    BY <1>1, <1>2, Wrapped
  <1>5. Capacity \in Nat
    BY RingSize
  <1>6. CASE t <= h
    <2>1. Wrap(AllocSize + h - t) = h - t
      BY <1>1, <1>3, <1>6
    <2>2. Wrap(AllocSize + t - h - 1) = AllocSize + t - h - 1
      BY <1>1, <1>4, <1>6
    <2> QED
      BY <1>1, <1>5, <1>6, <2>1, <2>2
  <1>7. CASE ~(t <= h)
    <2>1. Wrap(AllocSize + h - t) = AllocSize + h - t
      BY <1>1, <1>3, <1>7
    <2>2. Wrap(AllocSize + t - h - 1) = t - h - 1
      BY <1>1, <1>4, <1>7
    <2> QED
      BY <1>1, <1>5, <1>7, <2>1, <2>2
  <1> QED
    BY <1>6, <1>7

\* Writing n samples and dropping the k oldest.
LEMMA Moved ==
    ASSUME NEW h \in Slots, NEW t \in Slots, NEW r \in Nat,
           r = Wrap(AllocSize + h - t),
           NEW n \in Nat, n <= Capacity - r, NEW k \in Nat, k <= r + n
    PROVE  /\ Wrap(h + n) \in Slots /\ Wrap(t + k) \in Slots
           /\ Wrap(AllocSize + Wrap(h + n) - Wrap(t + k)) = r + n - k
  <1>1. /\ h \in Nat /\ h < AllocSize /\ t \in Nat /\ t < AllocSize
        /\ AllocSize \in Nat /\ AllocSize = Capacity + 1 /\ Capacity \in Nat
    BY RingSize
  <1>2. r <= Capacity /\ r = IF t <= h THEN h - t ELSE AllocSize + h - t
    BY Level
  <1>3. /\ h + n \in Nat /\ h + n < AllocSize + AllocSize
        /\ t + k \in Nat /\ t + k < AllocSize + AllocSize
    BY <1>1, <1>2
  <1> DEFINE H == Wrap(h + n)
             T == Wrap(t + k)
  <1>4. H \in Slots /\ (h + n < AllocSize => H = h + n)
        /\ (AllocSize <= h + n => H = h + n - AllocSize)
    BY <1>1, <1>3, Wrapped
  <1>5. T \in Slots /\ (t + k < AllocSize => T = t + k)
        /\ (AllocSize <= t + k => T = t + k - AllocSize)
    BY <1>1, <1>3, Wrapped
  <1> HIDE DEF H, T
  <1>6. Wrap(AllocSize + H - T) = IF T <= H THEN H - T ELSE AllocSize + H - T
    BY <1>4, <1>5, Level
  <1>7. H \in Nat /\ H < AllocSize /\ T \in Nat /\ T < AllocSize
    BY <1>4, <1>5, RingSize
  <1>8. (IF T <= H THEN H - T ELSE AllocSize + H - T) = r + n - k
    <2>1. CASE t <= h
      BY <1>1, <1>2, <1>4, <1>5, <1>7, <2>1
    <2>2. CASE ~(t <= h)
      BY <1>1, <1>2, <1>4, <1>5, <1>7, <2>2
    <2> QED
      BY <2>1, <2>2
  <1> QED
    BY <1>4, <1>5, <1>6, <1>8 DEF H, T

\* The i-th slot after k others.
LEMMA Shifted ==
    ASSUME NEW t \in Slots, NEW k \in Nat, NEW i \in Nat, 1 <= i, k + i <= AllocSize
    PROVE  /\ Wrap(Wrap(t + k) + i - 1) = Wrap(t + (k + i) - 1)
           /\ Wrap(t + i - 1) \in Slots
  <1>1. /\ t \in Nat /\ t < AllocSize /\ AllocSize \in Nat
    BY RingSize
  <1>2. /\ t + k \in Nat /\ t + k < AllocSize + AllocSize
        /\ t + (k + i) - 1 \in Nat /\ t + (k + i) - 1 < AllocSize + AllocSize
        /\ t + i - 1 \in Nat /\ t + i - 1 < AllocSize + AllocSize
    BY <1>1
  <1> DEFINE T == Wrap(t + k)
  <1>3. T \in Slots /\ (t + k < AllocSize => T = t + k)
        /\ (AllocSize <= t + k => T = t + k - AllocSize)
    BY <1>1, <1>2, Wrapped
  <1> HIDE DEF T
  <1>4. T \in Nat /\ T < AllocSize
    BY <1>3, RingSize
  <1>5. T + i - 1 \in Nat /\ T + i - 1 < AllocSize + AllocSize
    BY <1>1, <1>4
  <1>6. /\ T + i - 1 < AllocSize => Wrap(T + i - 1) = T + i - 1
        /\ AllocSize <= T + i - 1 => Wrap(T + i - 1) = T + i - 1 - AllocSize
    BY <1>1, <1>4, <1>5, Wrapped
  <1>7. /\ t + (k + i) - 1 < AllocSize =>
             Wrap(t + (k + i) - 1) = t + (k + i) - 1
        /\ AllocSize <= t + (k + i) - 1 =>
             Wrap(t + (k + i) - 1) = t + (k + i) - 1 - AllocSize
    BY <1>1, <1>2, Wrapped
  <1>8. Wrap(T + i - 1) = Wrap(t + (k + i) - 1)
    <2>1. CASE t + k < AllocSize
      <3>1. T = t + k /\ T + i - 1 = t + (k + i) - 1
        BY <1>1, <1>3, <2>1
      <3> QED
        BY <3>1
    <2>2. CASE AllocSize <= t + k
      <3>1. T = t + k - AllocSize
        BY <1>3, <2>2
      <3>2. T + i - 1 = t + (k + i) - 1 - AllocSize /\ T + i - 1 < AllocSize
        BY <1>1, <3>1
      <3>3. AllocSize <= t + (k + i) - 1
        BY <1>1, <2>2
      <3> QED
        BY <1>6, <1>7, <3>2, <3>3
    <2> QED
      BY <1>1, <2>1, <2>2
  <1> QED
    BY <1>2, <1>8, Wrapped DEF T

\* The cursor of the writer is that of the reader and what there is to read.
LEMMA HeadIsAfter ==
    ASSUME NEW h \in Slots, NEW t \in Slots
    PROVE  h = Wrap(t + Wrap(AllocSize + h - t))
  <1>1. /\ h \in Nat /\ h < AllocSize /\ t \in Nat /\ t < AllocSize
        /\ AllocSize \in Nat
    BY RingSize
  <1> DEFINE r == Wrap(AllocSize + h - t)
  <1>2. r \in Nat /\ r = IF t <= h THEN h - t ELSE AllocSize + h - t
    BY Level
  <1> HIDE DEF r
  <1>3. t + r \in Nat /\ t + r < AllocSize + AllocSize
    BY <1>1, <1>2
  <1>4. /\ t + r < AllocSize => Wrap(t + r) = t + r
        /\ AllocSize <= t + r => Wrap(t + r) = t + r - AllocSize
    BY <1>1, <1>2, <1>3, Wrapped
  <1>5. Wrap(t + r) = h
    BY <1>1, <1>2, <1>4
  <1> QED
    BY <1>5 DEF r

-----------------------------------------------------------------------------
(* The ring, in a state and over a step.                                    *)

\* What there is to read and to write.
LEMMA RingLevel ==
    ASSUME TypeOK
    PROVE  /\ can_read \in Nat /\ can_read <= Capacity
           /\ can_write \in Nat /\ can_write = Capacity - can_read
           /\ Capacity \in Nat /\ AllocSize \in Nat /\ AllocSize = Capacity + 1
           /\ can_read = Wrap(AllocSize + head - tail)
           /\ \A i \in 1 .. Capacity : Nth(i) = data[Wrap(tail + i - 1)] /\ Nth(i) \in Nat
  <1>1. head \in Slots /\ tail \in Slots /\ data \in [Slots -> Nat]
    BY DEF TypeOK
  <1>2. /\ can_read = Wrap(AllocSize + head - tail)
        /\ can_write = Wrap(AllocSize + tail - head - 1)
    BY DEF can_read, can_write, Wrap
  <1>3. can_read \in Nat /\ can_read <= Capacity /\ can_write = Capacity - can_read
    BY <1>1, <1>2, Level
  <1>4. Capacity \in Nat /\ AllocSize \in Nat /\ AllocSize = Capacity + 1
    BY RingSize
  <1>5. can_write \in Nat
    BY <1>3, <1>4
  <1>6. ASSUME NEW i \in 1 .. Capacity
        PROVE  Nth(i) = data[Wrap(tail + i - 1)] /\ Nth(i) \in Nat
    <2>1. i \in Nat /\ 1 <= i /\ 0 \in Nat /\ 0 + i <= AllocSize
      BY <1>4
    <2>2. Wrap(tail + i - 1) \in Slots
      BY <1>1, <2>1, Shifted
    <2>3. Nth(i) = data[Wrap(tail + i - 1)]
      BY DEF Nth, Wrap
    <2> QED
      BY <1>1, <2>2, <2>3
  <1> QED
    BY <1>2, <1>3, <1>4, <1>5, <1>6

\* A step that leaves the ring alone.
LEMMA RingKept ==
    ASSUME UNCHANGED <<data, head, tail>>
    PROVE  /\ can_read' = can_read /\ can_write' = can_write
           /\ \A i \in Nat : Nth(i)' = Nth(i)
  BY DEF can_read, can_write, Nth

\* The slots of samples that are read and the slots after them are not the
\* same.
LEMMA Disjoint ==
    ASSUME TypeOK, NEW n \in Nat, n <= can_write, NEW m \in Nat, m <= can_read
    PROVE  SlotsOf(head, n) \cap SlotsOf(tail, m) = {}
  <1> SUFFICES ASSUME NEW i \in 1 .. n, NEW j \in 1 .. m,
                      Wrap(head + i - 1) = Wrap(tail + j - 1)
               PROVE  FALSE
    BY DEF SlotsOf, Wrap
  <1>1. head \in Slots /\ tail \in Slots
    BY DEF TypeOK
  <1>2. /\ can_read \in Nat /\ can_read <= Capacity /\ can_write = Capacity - can_read
        /\ Capacity \in Nat /\ AllocSize \in Nat /\ AllocSize = Capacity + 1
        /\ can_read = Wrap(AllocSize + head - tail)
    BY RingLevel
  <1>3. head = Wrap(tail + can_read)
    BY <1>1, <1>2, HeadIsAfter
  <1>4. i \in Nat /\ 1 <= i /\ can_read + i <= AllocSize
    BY <1>2
  <1>5. Wrap(head + i - 1) = Wrap(tail + (can_read + i) - 1)
    <2>1. Wrap(Wrap(tail + can_read) + i - 1) = Wrap(tail + (can_read + i) - 1)
      BY <1>1, <1>2, <1>4, Shifted
    <2> QED
      BY <1>3, <2>1
  <1>6. /\ j \in Nat /\ can_read + i \in Nat /\ 1 <= j /\ j < can_read + i
        /\ can_read + i <= AllocSize
    BY <1>2, <1>4
  <1>7. Wrap(tail + j - 1) # Wrap(tail + (can_read + i) - 1)
    BY <1>1, <1>6, SlotsDiffer
  <1> QED
    BY <1>5, <1>7

\* Samples are stored behind those that are there, and the k oldest dropped.
LEMMA Stored ==
    ASSUME TypeOK, NEW n \in Nat, n <= can_write, NEW v \in [1 .. n -> Nat],
           Len(v) = n, Store(v), NEW k \in Nat, k <= can_read + n,
           tail' = (tail + k) % AllocSize
    PROVE  /\ data' \in [Slots -> Nat] /\ head' \in Slots /\ tail' \in Slots
           /\ can_read' = can_read + n - k
           /\ \A i \in 1 .. can_read' :
                Nth(i)' = IF i + k <= can_read THEN Nth(i + k) ELSE v[i + k - can_read]
  <1>1. head \in Slots /\ tail \in Slots /\ data \in [Slots -> Nat]
    BY DEF TypeOK
  <1>2. /\ can_read \in Nat /\ can_read <= Capacity /\ can_write = Capacity - can_read
        /\ Capacity \in Nat /\ AllocSize \in Nat /\ AllocSize = Capacity + 1
        /\ can_read = Wrap(AllocSize + head - tail)
    BY RingLevel
  <1>3. head' = Wrap(head + n) /\ tail' = Wrap(tail + k)
    BY DEF Store, Wrap
  <1>4. /\ head' \in Slots /\ tail' \in Slots
        /\ Wrap(AllocSize + head' - tail') = can_read + n - k
    <2>1. n <= Capacity - can_read
      BY <1>2
    <2>2. /\ Wrap(head + n) \in Slots /\ Wrap(tail + k) \in Slots
          /\ Wrap(AllocSize + Wrap(head + n) - Wrap(tail + k)) = can_read + n - k
      BY <1>1, <1>2, <2>1, Moved
    <2> QED
      BY <1>3, <2>2
  <1>5. can_read' = can_read + n - k
    BY <1>4 DEF can_read, Wrap
  <1> DEFINE at(i) == Wrap(head + i - 1)
  <1>6. DOMAIN v = 1 .. n
    OBVIOUS
  <1>7. \A i \in 1 .. n : Region(head, Len(v))[i] = at(i)
    BY DEF Region, Wrap
  <1>8. data' = [s \in Slots |-> IF \E i \in 1 .. n : at(i) = s
                                 THEN v[CHOOSE i \in 1 .. n : at(i) = s]
                                 ELSE data[s]]
    <2>1. data' = [s \in Slots |->
                     IF \E i \in DOMAIN v : Region(head, Len(v))[i] = s
                     THEN v[CHOOSE i \in DOMAIN v : Region(head, Len(v))[i] = s]
                     ELSE data[s]]
      BY DEF Store, Written
    <2>2. Region(head, Len(v)) = [i \in 1 .. n |-> at(i)]
      BY DEF Region, Wrap
    <2> HIDE DEF at
    <2>3. ASSUME NEW s \in Slots
          PROVE  /\ (\E i \in DOMAIN v : Region(head, Len(v))[i] = s)
                      <=> \E i \in 1 .. n : at(i) = s
                 /\ (CHOOSE i \in DOMAIN v : Region(head, Len(v))[i] = s)
                      = CHOOSE i \in 1 .. n : at(i) = s
      <3>1. \A i : (i \in DOMAIN v /\ Region(head, Len(v))[i] = s)
                     <=> (i \in 1 .. n /\ at(i) = s)
        BY <1>6, <2>2
      <3> QED
        BY <3>1
    <2> QED
      BY <2>1, <2>3
  <1> HIDE DEF at
  <1>9. data' \in [Slots -> Nat]
    <2>1. ASSUME NEW s \in Slots, \E i \in 1 .. n : at(i) = s
          PROVE  v[CHOOSE i \in 1 .. n : at(i) = s] \in Nat
      <3>1. (CHOOSE i \in 1 .. n : at(i) = s) \in 1 .. n
        BY <2>1
      <3> QED
        BY <3>1
    <2> QED
      BY <1>1, <1>8, <2>1
  <1>10. head = Wrap(tail + can_read)
    BY <1>1, <1>2, HeadIsAfter
  <1>11. ASSUME NEW i \in 1 .. n
         PROVE  at(i) = Wrap(tail + (can_read + i) - 1)
    <2>1. i \in Nat /\ 1 <= i /\ can_read + i <= AllocSize
      BY <1>2
    <2>2. Wrap(Wrap(tail + can_read) + i - 1) = Wrap(tail + (can_read + i) - 1)
      BY <1>1, <1>2, <2>1, Shifted
    <2> QED
      BY <1>10, <2>2 DEF at
  <1>12. ASSUME NEW i \in 1 .. can_read
         PROVE  data'[Wrap(tail + i - 1)] = data[Wrap(tail + i - 1)]
    <2>1. ASSUME NEW j \in 1 .. n PROVE at(j) # Wrap(tail + i - 1)
      <3>1. /\ i \in Nat /\ 1 <= i /\ i < can_read + j
            /\ can_read + j <= AllocSize /\ can_read + j \in Nat
        BY <1>2
      <3> QED
        BY <1>1, <1>11, <3>1, SlotsDiffer
    <2>2. 0 \in Nat /\ i \in Nat /\ 1 <= i /\ 0 + i <= AllocSize
      BY <1>2
    <2>3. Wrap(tail + i - 1) \in Slots
      BY <1>1, <2>2, Shifted
    <2> QED
      BY <1>8, <2>1, <2>3
  <1>13. ASSUME NEW i \in 1 .. n
         PROVE  data'[Wrap(tail + (can_read + i) - 1)] = v[i]
    <2>1. ASSUME NEW j \in 1 .. n, at(j) = at(i) PROVE j = i
      <3>1. \A m \in 1 .. n : /\ can_read + m \in Nat /\ 1 <= can_read + m
                             /\ can_read + m <= AllocSize
        BY <1>2
      <3>2. ~(can_read + i < can_read + j)
        BY <1>1, <1>11, <2>1, <3>1, SlotsDiffer
      <3>3. ~(can_read + j < can_read + i)
        BY <1>1, <1>11, <2>1, <3>1, SlotsDiffer
      <3> QED
        BY <1>2, <3>1, <3>2, <3>3
    <2>2. (CHOOSE j \in 1 .. n : at(j) = at(i)) = i
      BY <2>1
    <2>3. at(i) \in Slots
      <3>1. can_read + i \in Nat /\ 1 <= can_read + i /\ 0 + (can_read + i) <= AllocSize
        BY <1>2
      <3>2. Wrap(tail + (can_read + i) - 1) \in Slots
        BY <1>1, <3>1, Shifted
      <3> QED
        BY <1>11, <3>2
    <2>4. data'[at(i)] = v[i]
      BY <1>8, <2>2, <2>3
    <2> QED
      BY <1>11, <2>4
  <1>14. ASSUME NEW i \in 1 .. can_read'
         PROVE  Nth(i)' = IF i + k <= can_read THEN Nth(i + k)
                          ELSE v[i + k - can_read]
    <2>1. /\ i \in Nat /\ 1 <= i /\ k + i <= can_read + n /\ k + i <= AllocSize
          /\ k + i = i + k /\ i + k \in Nat
      BY <1>2, <1>5
    <2>2. Nth(i)' = data'[Wrap(tail' + i - 1)]
      BY DEF Nth, Wrap
    <2>3. Wrap(tail' + i - 1) = Wrap(tail + (k + i) - 1)
      BY <1>1, <1>3, <2>1, Shifted
    <2>4. CASE i + k <= can_read
      <3>1. i + k \in 1 .. can_read
        BY <1>2, <2>1, <2>4
      <3>2. Nth(i + k) = data[Wrap(tail + (i + k) - 1)]
        BY DEF Nth, Wrap
      <3> QED
        BY <1>12, <2>1, <2>2, <2>3, <2>4, <3>1, <3>2
    <2>5. CASE ~(i + k <= can_read)
      <3>1. i + k - can_read \in 1 .. n /\ can_read + (i + k - can_read) = k + i
        BY <1>2, <2>1, <2>5
      <3>2. data'[Wrap(tail + (can_read + (i + k - can_read)) - 1)] = v[i + k - can_read]
        BY <1>13, <3>1
      <3> QED
        BY <2>2, <2>3, <2>5, <3>1, <3>2
    <2> QED
      BY <2>4, <2>5
  <1> QED
    BY <1>4, <1>5, <1>9, <1>14

\* The k oldest samples are dropped or read.
LEMMA Dropped ==
    ASSUME TypeOK, UNCHANGED <<data, head>>, NEW k \in Nat, k <= can_read,
           tail' = (tail + k) % AllocSize
    PROVE  /\ tail' \in Slots /\ can_read' = can_read - k
           /\ \A i \in 1 .. can_read' : Nth(i)' = Nth(i + k)
  <1>1. head \in Slots /\ tail \in Slots
    BY DEF TypeOK
  <1>2. /\ can_read \in Nat /\ can_read <= Capacity
        /\ Capacity \in Nat /\ AllocSize \in Nat /\ AllocSize = Capacity + 1
        /\ can_read = Wrap(AllocSize + head - tail)
    BY RingLevel
  <1>3. tail' = Wrap(tail + k) /\ Wrap(head + 0) = head
    <2>1. head \in Nat /\ head < AllocSize + AllocSize /\ head < AllocSize /\ head + 0 = head
      BY <1>1, <1>2, RingSize
    <2>2. Wrap(head) = head
      BY <2>1, Wrapped
    <2> QED
      BY <2>1, <2>2 DEF Wrap
  <1>4. /\ tail' \in Slots /\ Wrap(AllocSize + head - tail') = can_read + 0 - k
    <2>1. 0 \in Nat /\ 0 <= Capacity - can_read /\ k <= can_read + 0
      BY <1>2
    <2>2. /\ Wrap(tail + k) \in Slots
          /\ Wrap(AllocSize + Wrap(head + 0) - Wrap(tail + k)) = can_read + 0 - k
      BY <1>1, <1>2, <2>1, Moved
    <2> QED
      BY <1>3, <2>2
  <1>5. can_read' = can_read - k
    BY <1>2, <1>4 DEF can_read, Wrap
  <1>6. ASSUME NEW i \in 1 .. can_read'
        PROVE  Nth(i)' = Nth(i + k)
    <2>1. i \in Nat /\ 1 <= i /\ k + i <= AllocSize /\ k + i = i + k
      BY <1>2, <1>5
    <2>2. Wrap(tail' + i - 1) = Wrap(tail + (k + i) - 1)
      <3>1. Wrap(Wrap(tail + k) + i - 1) = Wrap(tail + (k + i) - 1)
        BY <1>1, <2>1, Shifted
      <3> QED
        BY <1>3, <3>1
    <2>3. Nth(i)' = data[Wrap(tail' + i - 1)] /\ Nth(i + k) = data[Wrap(tail + (i + k) - 1)]
      BY DEF Nth, Wrap
    <2> QED
      BY <2>1, <2>2, <2>3
  <1> QED
    BY <1>4, <1>5, <1>6

\* The order holds on if what is stored is silence, or the samples that follow
\* the newest one.
LEMMA OrderGrows ==
    ASSUME TypeOK, RingIsInOrder, NEW n \in Nat, n <= can_write, NEW k \in Nat,
           k <= can_read + n, NEW v \in [1 .. n -> Nat],
           can_read' = can_read + n - k,
           \A i \in 1 .. can_read' :
             Nth(i)' = IF i + k <= can_read THEN Nth(i + k) ELSE v[i + k - can_read],
           last' = last, Newest \in Nat, Newest' \in Nat, Newest <= Newest',
           \/ \A m \in 1 .. n : v[m] = 0
           \/ Newest + n <= Newest' /\ \A m \in 1 .. n : v[m] = Newest + m
    PROVE  RingIsInOrder'
  <1>1. /\ can_read \in Nat /\ can_read <= Capacity /\ can_write = Capacity - can_read
        /\ Capacity \in Nat /\ \A i \in 1 .. Capacity : Nth(i) \in Nat
    BY RingLevel
  <1>2. last \in Nat
    BY DEF TypeOK
  <1> DEFINE w(i) == IF i <= can_read THEN Nth(i) ELSE v[i - can_read]
  <1>3. ASSUME NEW i \in 1 .. can_read + n
        PROVE  w(i) \in Nat /\ (w(i) # 0 => last < w(i) /\ w(i) <= Newest')
    <2>1. CASE i <= can_read
      <3>1. i \in 1 .. can_read /\ i \in 1 .. Capacity
        BY <1>1, <2>1
      <3>2. Nth(i) \in Nat /\ (Nth(i) # 0 => last < Nth(i) /\ Nth(i) <= Newest)
        BY <1>1, <3>1 DEF RingIsInOrder
      <3> QED
        BY <1>2, <2>1, <3>2
    <2>2. CASE ~(i <= can_read)
      <3>1. i - can_read \in 1 .. n
        BY <1>1, <2>2
      <3>2. v[i - can_read] \in Nat /\ last <= Newest
        BY <3>1 DEF RingIsInOrder
      <3>3. v[i - can_read] # 0 => last < v[i - can_read] /\ v[i - can_read] <= Newest'
        <4>1. CASE \A m \in 1 .. n : v[m] = 0
          BY <3>1, <4>1
        <4>2. CASE Newest + n <= Newest' /\ \A m \in 1 .. n : v[m] = Newest + m
          <5>1. v[i - can_read] = Newest + (i - can_read)
            BY <3>1, <4>2
          <5> QED
            BY <1>1, <1>2, <3>1, <3>2, <4>2, <5>1
        <4> QED
          BY <4>1, <4>2
      <3> QED
        BY <2>2, <3>2, <3>3
    <2> QED
      BY <2>1, <2>2
  <1>4. ASSUME NEW i \in 1 .. can_read + n, NEW j \in 1 .. i - 1, w(i) # 0
        PROVE  w(j) < w(i)
    <2>0. j \in Nat /\ i \in Nat /\ 1 <= j /\ j < i
      BY <1>1
    <2>1. CASE i <= can_read
      <3>1. i \in 1 .. can_read /\ j <= can_read
        BY <1>1, <2>0, <2>1
      <3>2. w(i) = Nth(i) /\ w(j) = Nth(j)
        BY <2>1, <3>1
      <3> QED
        BY <1>4, <3>1, <3>2 DEF RingIsInOrder
    <2>2. CASE ~(i <= can_read)
      <3>1. i - can_read \in 1 .. n
        BY <1>1, <2>2
      <3>2. v[i - can_read] # 0
        BY <1>4, <2>2
      <3>3. /\ \A m \in 1 .. n : v[m] = Newest + m
            /\ v[i - can_read] = Newest + (i - can_read)
        BY <3>1, <3>2
      <3>4. CASE j <= can_read
        <4>1. j \in 1 .. can_read /\ j \in 1 .. Capacity
          BY <1>1, <2>0, <3>4
        <4>2. Nth(j) <= Newest
          <5>1. Nth(j) \in Nat /\ (Nth(j) # 0 => Nth(j) <= Newest)
            BY <1>1, <4>1 DEF RingIsInOrder
          <5> QED
            BY <5>1
        <4>3. w(i) = Newest + (i - can_read) /\ w(j) = Nth(j) /\ Nth(j) \in Nat
          BY <1>1, <2>2, <3>3, <3>4, <4>1
        <4> QED
          BY <1>1, <2>0, <2>2, <4>2, <4>3
      <3>5. CASE ~(j <= can_read)
        <4>1. j - can_read \in 1 .. n
          BY <1>1, <2>0, <3>5
        <4>2. w(i) = Newest + (i - can_read) /\ w(j) = Newest + (j - can_read)
          BY <2>2, <3>3, <3>5, <4>1
        <4> QED
          BY <1>1, <2>0, <4>2
      <3> QED
        BY <3>4, <3>5
    <2> QED
      BY <2>1, <2>2
  <1>5. ASSUME NEW i \in 1 .. can_read'
        PROVE  /\ Nth(i)' = w(i + k) /\ i + k \in 1 .. can_read + n
               /\ \A j \in 1 .. i - 1 : /\ Nth(j)' = w(j + k)
                                        /\ j + k \in 1 .. (i + k) - 1
    <2>1. i \in Nat /\ i + k \in 1 .. can_read + n
      BY <1>1
    <2>2. ASSUME NEW j \in 1 .. i - 1
          PROVE  j \in 1 .. can_read' /\ j + k \in 1 .. (i + k) - 1
      BY <1>1, <2>1
    <2>3. \A j \in 1 .. can_read' : Nth(j)' = w(j + k)
      <3> SUFFICES ASSUME NEW j \in 1 .. can_read' PROVE Nth(j)' = w(j + k)
        OBVIOUS
      <3>1. CASE j + k <= can_read
        <4>1. Nth(j)' = Nth(j + k) /\ w(j + k) = Nth(j + k)
          BY <3>1
        <4> QED
          BY <4>1
      <3>2. CASE ~(j + k <= can_read)
        <4>0. j + k - can_read \in 1 .. n /\ j + k \in Nat
          BY <1>1, <3>2
        <4>1. Nth(j)' = v[j + k - can_read]
          BY <3>2
        <4>2. w(j + k) = v[(j + k) - can_read]
          BY <1>1, <3>2, <4>0
        <4>3. j + k - can_read = (j + k) - can_read
          BY <1>1
        <4> QED
          BY <4>1, <4>2, <4>3
      <3> QED
        BY <3>1, <3>2
    <2> QED
      BY <2>1, <2>2, <2>3
  <1> HIDE DEF w
  <1>6. ASSUME NEW i \in 1 .. can_read', Nth(i)' # 0
        PROVE  /\ last' < Nth(i)' /\ Nth(i)' <= Newest'
               /\ \A j \in 1 .. i - 1 : Nth(j)' < Nth(i)'
    <2>1. last < w(i + k) /\ w(i + k) <= Newest'
      BY <1>3, <1>5, <1>6
    <2>2. ASSUME NEW j \in 1 .. i - 1 PROVE w(j + k) < w(i + k)
      BY <1>4, <1>5, <1>6
    <2> QED
      BY <1>5, <2>1, <2>2
  <1>7. last' <= Newest'
    BY <1>2 DEF RingIsInOrder
  <1> QED
    BY <1>6, <1>7 DEF RingIsInOrder

\* The order holds on if the ring is left alone.
LEMMA OrderKept ==
    ASSUME TypeOK, RingIsInOrder, UNCHANGED <<data, head, tail, last>>,
           Newest \in Nat, Newest' \in Nat, Newest <= Newest'
    PROVE  RingIsInOrder'
  <1>1. can_read' = can_read /\ \A i \in Nat : Nth(i)' = Nth(i)
    BY RingKept
  <1>2. can_read \in Nat /\ can_read <= Capacity /\ \A i \in 1 .. Capacity : Nth(i) \in Nat
    BY RingLevel
  <1>3. last \in Nat /\ Capacity \in Nat
    BY RingSize DEF TypeOK
  <1>4. ASSUME NEW i \in 1 .. can_read', Nth(i)' # 0
        PROVE  /\ last' < Nth(i)' /\ Nth(i)' <= Newest'
               /\ \A j \in 1 .. i - 1 : Nth(j)' < Nth(i)'
    <2>1. i \in 1 .. can_read /\ i \in Nat /\ Nth(i) # 0 /\ i \in 1 .. Capacity
      BY <1>1, <1>2, <1>3, <1>4
    <2>2. /\ last < Nth(i) /\ Nth(i) <= Newest /\ Nth(i) \in Nat
          /\ \A j \in 1 .. i - 1 : Nth(j) < Nth(i)
      BY <1>2, <2>1 DEF RingIsInOrder
    <2>3. ASSUME NEW j \in 1 .. i - 1 PROVE Nth(j)' = Nth(j)
      BY <1>1, <2>1
    <2> QED
      BY <1>1, <2>1, <2>2, <2>3
  <1>5. last' <= Newest'
    BY <1>3 DEF RingIsInOrder
  <1> QED
    BY <1>4, <1>5 DEF RingIsInOrder

-----------------------------------------------------------------------------
(* The steps.                                                               *)

\* The locals of the decoder thread.
LEMMA JobTypes ==
    ASSUME TypeOK
    PROVE  /\ job.stage \in 0 .. 3 /\ job.samples \in Nat /\ job.first \in Nat
           /\ job.written \in Nat /\ job.count \in Nat /\ job.max \in Nat
           /\ job.input \in Nat /\ job.played \in BOOLEAN
  BY DEF TypeOK

\* The smaller of two numbers.
LEMMA LeastIs ==
    ASSUME NEW a \in Nat, NEW b \in Nat
    PROVE  /\ Least(a, b) \in Nat /\ Least(a, b) <= a /\ Least(a, b) <= b
           /\ Least(a, b) = a \/ Least(a, b) = b
  BY DEF Least

\* The limit is highest while playing, and above the target.
LEMMA Limits ==
    /\ Most \in Nat /\ Target \in Nat /\ Target <= Most
    /\ \A p \in BOOLEAN : MaxBuffered(p) \in Nat /\ MaxBuffered(p) <= Most
  <1>1. /\ Target \in Nat /\ Margin10 \in Nat /\ Margin60 \in Nat
        /\ Margin10 <= Margin60
    BY SizesAssumption
  <1> DEFINE e == (Target * 11) \div 10
  <1>2. e \in Nat /\ e >= Target
    BY <1>1
  <1>3. Most = e + Margin60
    BY DEF MaxBuffered, Most
  <1>4. ASSUME NEW p \in BOOLEAN
        PROVE  MaxBuffered(p) = e + Margin60 \/ MaxBuffered(p) = Target + Margin10
    BY DEF MaxBuffered
  <1> HIDE DEF e
  <1>5. Most \in Nat /\ Target <= Most
    BY <1>1, <1>2, <1>3
  <1>6. ASSUME NEW p \in BOOLEAN
        PROVE  MaxBuffered(p) \in Nat /\ MaxBuffered(p) <= Most
    <2>1. e + Margin60 \in Nat /\ e + Margin60 <= Most
      BY <1>1, <1>2, <1>3
    <2>2. Target + Margin10 \in Nat /\ Target + Margin10 <= Most
      BY <1>1, <1>2, <1>3
    <2> QED
      BY <1>4, <2>1, <2>2
  <1> QED
    BY <1>1, <1>5, <1>6

\* The newest sample is a number of one.
LEMMA NewestType ==
    ASSUME TypeOK, JobFits
    PROVE  Newest \in Nat
  <1>1. serial \in Nat /\ job.samples \in Nat /\ job.first \in Nat /\ job.written \in Nat
    BY JobTypes DEF TypeOK
  <1>2. CASE pc \in {"write", "full"}
    <2>1. job.first + job.samples = serial + 1 /\ job.samples <= Capacity
      BY <1>2 DEF JobFits
    <2>2. job.first + job.written - 1 \in Nat
      <3>1. job.first > 0
        BY <1>2 DEF JobFits
      <3> QED
        BY <1>1, <3>1
    <2> QED
      BY <1>2, <2>2 DEF Newest
  <1>3. CASE pc \notin {"write", "full"}
    BY <1>1, <1>3 DEF Newest
  <1> QED
    BY <1>2, <1>3

\* The player is opened.
LEMMA OpenStep ==
    ASSUME IInv, Open
    PROVE  IInv'
  <1> USE DEF regVars, threadVars
  <1>0. TypeOK /\ JobFits /\ PlayerFollowsPc /\ CallbackIsServed /\ LevelFollowsPc
        /\ RingIsInOrder /\ ~failed
    BY DEF IInv
  <1>a. /\ can_read' = can_read /\ can_write' = can_write /\ failed' = failed
        /\ UNCHANGED <<data, head, tail, last>>
    BY RingKept DEF Open
  <1>b. /\ can_read \in Nat /\ can_write \in Nat /\ Capacity \in Nat
        /\ can_read <= Capacity /\ can_write = Capacity - can_read
    BY <1>0, RingLevel
  <1>1. TypeOK'
    BY <1>0 DEF Open, TypeOK
  <1>2. PlayerFollowsPc'
    BY <1>0 DEF Open, PlayerFollowsPc, Pushing
  <1>3. CallbackIsServed'
    BY <1>0, <1>a DEF Open, CallbackIsServed, Chunk
  <1>4. JobFits'
    BY <1>0, <1>a DEF Open, JobFits
  <1>5. RingIsInOrder'
    <2>1. Newest \in Nat
      BY <1>0, NewestType
    <2>2. Newest' = Newest
      BY <1>0 DEF Open, Newest
    <2> QED
      BY <1>0, <1>a, <2>1, <2>2, OrderKept
  <1>6. LevelFollowsPc'
    <2>1. can_read = 0
      BY <1>0 DEF Open, LevelFollowsPc
    <2>2. can_read <= Most
      BY <2>1, Limits
    <2> QED
      BY <1>a, <2>1, <2>2 DEF Open, LevelFollowsPc
  <1> QED
    BY <1>0, <1>a, <1>1, <1>2, <1>3, <1>4, <1>5, <1>6 DEF IInv

\* The player cannot be opened.
LEMMA OpenFailsStep ==
    ASSUME IInv, OpenFails
    PROVE  IInv'
  <1> USE DEF regVars, threadVars
  <1>0. TypeOK /\ JobFits /\ PlayerFollowsPc /\ CallbackIsServed /\ LevelFollowsPc
        /\ RingIsInOrder /\ ~failed
    BY DEF IInv
  <1>a. /\ can_read' = can_read /\ can_write' = can_write /\ failed' = failed
        /\ UNCHANGED <<data, head, tail, last>>
    BY RingKept DEF OpenFails
  <1>b. /\ can_read \in Nat /\ can_write \in Nat /\ Capacity \in Nat
        /\ can_read <= Capacity /\ can_write = Capacity - can_read
    BY <1>0, RingLevel
  <1>1. TypeOK'
    BY <1>0 DEF OpenFails, TypeOK
  <1>2. PlayerFollowsPc'
    BY <1>0 DEF OpenFails, PlayerFollowsPc, Pushing
  <1>3. CallbackIsServed'
    BY <1>0, <1>a DEF OpenFails, CallbackIsServed, Chunk
  <1>4. JobFits'
    BY <1>0, <1>a DEF OpenFails, JobFits
  <1>5. RingIsInOrder'
    <2>1. Newest \in Nat
      BY <1>0, NewestType
    <2>2. Newest' = Newest
      BY <1>0 DEF OpenFails, Newest
    <2> QED
      BY <1>0, <1>a, <2>1, <2>2, OrderKept
  <1>6. LevelFollowsPc'
    BY <1>0, <1>a DEF OpenFails, LevelFollowsPc
  <1> QED
    BY <1>0, <1>a, <1>1, <1>2, <1>3, <1>4, <1>5, <1>6 DEF IInv

\* The player is closed.
LEMMA CloseStep ==
    ASSUME IInv, Close
    PROVE  IInv'
  <1> USE DEF regVars, threadVars
  <1>0. TypeOK /\ JobFits /\ PlayerFollowsPc /\ CallbackIsServed /\ LevelFollowsPc
        /\ RingIsInOrder /\ ~failed
    BY DEF IInv
  <1>a. /\ can_read' = can_read /\ can_write' = can_write /\ failed' = failed
        /\ UNCHANGED <<data, head, tail, last>>
    BY RingKept DEF Close
  <1>b. /\ can_read \in Nat /\ can_write \in Nat /\ Capacity \in Nat
        /\ can_read <= Capacity /\ can_write = Capacity - can_read
    BY <1>0, RingLevel
  <1>1. TypeOK'
    BY <1>0 DEF Close, TypeOK
  <1>2. PlayerFollowsPc'
    BY <1>0 DEF Close, PlayerFollowsPc, Pushing
  <1>3. CallbackIsServed'
    BY <1>0, <1>a DEF Close, CallbackIsServed, Chunk
  <1>4. JobFits'
    BY <1>0, <1>a DEF Close, JobFits
  <1>5. RingIsInOrder'
    <2>1. Newest \in Nat
      BY <1>0, NewestType
    <2>2. Newest' = Newest
      BY <1>0 DEF Close, Newest
    <2> QED
      BY <1>0, <1>a, <2>1, <2>2, OrderKept
  <1>6. LevelFollowsPc'
    BY <1>0, <1>a DEF Close, LevelFollowsPc
  <1> QED
    BY <1>0, <1>a, <1>1, <1>2, <1>3, <1>4, <1>5, <1>6 DEF IInv

\* The resampler fails.
LEMMA ConvertFailsStep ==
    ASSUME IInv, ConvertFails
    PROVE  IInv'
  <1> USE DEF regVars, threadVars
  <1>0. TypeOK /\ JobFits /\ PlayerFollowsPc /\ CallbackIsServed /\ LevelFollowsPc
        /\ RingIsInOrder /\ ~failed
    BY DEF IInv
  <1>a. /\ can_read' = can_read /\ can_write' = can_write /\ failed' = failed
        /\ UNCHANGED <<data, head, tail, last>>
    BY RingKept DEF ConvertFails
  <1>b. /\ can_read \in Nat /\ can_write \in Nat /\ Capacity \in Nat
        /\ can_read <= Capacity /\ can_write = Capacity - can_read
    BY <1>0, RingLevel
  <1>1. TypeOK'
    <2>1. job' \in [stage : 0 .. 3, input : Nat, samples : Nat, first : Nat,
                    written : Nat, count : Nat, max : Nat, played : BOOLEAN]
      BY DEF ConvertFails, NoJob
    <2> QED
      BY <1>0, <2>1 DEF ConvertFails, TypeOK
  <1>2. PlayerFollowsPc'
    BY <1>0 DEF ConvertFails, PlayerFollowsPc, Pushing
  <1>3. CallbackIsServed'
    BY <1>0, <1>a DEF ConvertFails, CallbackIsServed, Chunk
  <1>4. JobFits'
    BY <1>0, <1>a DEF ConvertFails, JobFits
  <1>5. RingIsInOrder'
    <2>1. Newest \in Nat
      BY <1>0, NewestType
    <2>2. Newest' = Newest
      BY <1>0 DEF ConvertFails, Newest
    <2> QED
      BY <1>0, <1>a, <2>1, <2>2, OrderKept
  <1>6. LevelFollowsPc'
    BY <1>0, <1>a DEF ConvertFails, LevelFollowsPc
  <1> QED
    BY <1>0, <1>a, <1>1, <1>2, <1>3, <1>4, <1>5, <1>6 DEF IInv

\* A frame comes in.
LEMMA PushStep ==
    ASSUME IInv, NEW n \in FrameSizes, NEW s \in Resampled(n), NEW d \in BOOLEAN, Push(n, s, d)
    PROVE  IInv'
  <1> USE DEF regVars, threadVars
  <1>0. TypeOK /\ JobFits /\ PlayerFollowsPc /\ CallbackIsServed /\ LevelFollowsPc
        /\ RingIsInOrder /\ ~failed
    BY DEF IInv
  <1>a. /\ can_read' = can_read /\ can_write' = can_write /\ failed' = failed
        /\ UNCHANGED <<data, head, tail, last>>
    BY RingKept DEF Push
  <1>b. /\ can_read \in Nat /\ can_write \in Nat /\ Capacity \in Nat
        /\ can_read <= Capacity /\ can_write = Capacity - can_read
    BY <1>0, RingLevel
  <1>c. n \in Nat /\ n > 0 /\ s \in Nat
    BY SizesAssumption DEF Resampled
  <1> DEFINE silence == IF d /\ n + can_read < Target
                          THEN WriteCount(Target - can_read - n) ELSE 0
  <1>d. /\ silence \in Nat /\ silence <= can_write
        /\ silence > 0 => can_read + silence <= Target
    <2>0. Target \in Nat
      BY SizesAssumption
    <2>1. CASE d /\ n + can_read < Target
      <3>1. Target - can_read - n \in Nat /\ can_read + (Target - can_read - n) <= Target
        BY <1>b, <1>c, <2>0, <2>1
      <3> DEFINE room == Target - can_read - n
      <3>2. silence = Least(room, can_write) /\ room \in Nat /\ can_read + room <= Target
        BY <2>1, <3>1 DEF WriteCount
      <3> HIDE DEF silence, room
      <3>3. silence \in Nat /\ silence <= room /\ silence <= can_write
        BY <1>b, <3>2, LeastIs
      <3> QED
        BY <1>b, <2>0, <3>2, <3>3
    <2>2. CASE ~(d /\ n + can_read < Target)
      BY <1>b, <2>2
    <2> QED
      BY <2>1, <2>2
  <1>e. /\ job' = [NoJob EXCEPT !.input = n, !.samples = s, !.count = silence]
        /\ pc' = (IF d THEN "silence" ELSE "convert") /\ pc = "idle"
    BY DEF Push
  <1> HIDE DEF silence
  <1>f. job'.count = silence /\ job'.written = 0
    BY <1>e DEF NoJob
  <1>1. TypeOK'
    <2>1. job' \in [stage : 0 .. 3, input : Nat, samples : Nat, first : Nat,
                    written : Nat, count : Nat, max : Nat, played : BOOLEAN]
      <3>1. NoJob \in [stage : 0 .. 3, input : Nat, samples : Nat, first : Nat,
                       written : Nat, count : Nat, max : Nat, played : BOOLEAN]
        BY DEF NoJob
      <3> QED
        BY <1>c, <1>d, <1>e, <3>1
    <2>2. pc' \in {"silence", "convert"}
      BY <1>e
    <2> QED
      BY <1>0, <2>1, <2>2 DEF Push, TypeOK
  <1>2. PlayerFollowsPc'
    BY <1>0 DEF Push, PlayerFollowsPc, Pushing
  <1>3. CallbackIsServed'
    BY <1>0, <1>a DEF Push, CallbackIsServed, Chunk
  <1>4. JobFits'
    BY <1>a, <1>d, <1>e, <1>f DEF JobFits
  <1>5. RingIsInOrder'
    <2>1. Newest \in Nat
      BY <1>0, NewestType
    <2>2. Newest' = Newest
      BY <1>0 DEF Push, Newest
    <2> QED
      BY <1>0, <1>a, <2>1, <2>2, OrderKept
  <1>6. LevelFollowsPc'
    <2>1. can_read <= Most
      BY <1>0, <1>e DEF LevelFollowsPc
    <2>2. can_read + silence <= Most
      <3>1. Target \in Nat /\ Most \in Nat /\ Target <= Most
        BY Limits, SizesAssumption
      <3> QED
        BY <1>b, <1>d, <2>1, <3>1
    <2> QED
      BY <1>a, <1>e, <1>f, <2>1, <2>2 DEF LevelFollowsPc
  <1> QED
    BY <1>0, <1>a, <1>1, <1>2, <1>3, <1>4, <1>5, <1>6 DEF IInv

\* The resampler gives its samples.
LEMMA ConvertStep ==
    ASSUME IInv, Convert
    PROVE  IInv'
  <1> USE DEF regVars, threadVars
  <1>0. TypeOK /\ JobFits /\ PlayerFollowsPc /\ CallbackIsServed /\ LevelFollowsPc
        /\ RingIsInOrder /\ ~failed
    BY DEF IInv
  <1>a. /\ can_read' = can_read /\ can_write' = can_write /\ failed' = failed
        /\ UNCHANGED <<data, head, tail, last>>
    BY RingKept DEF Convert
  <1>b. /\ can_read \in Nat /\ can_write \in Nat /\ Capacity \in Nat
        /\ can_read <= Capacity /\ can_write = Capacity - can_read
    BY <1>0, RingLevel
  <1> DEFINE samples == Least(job.samples, Capacity)
             first == serial + job.samples - samples + 1
             count == WriteCount(samples)
  <1>c. /\ samples \in Nat /\ samples <= Capacity /\ samples <= job.samples
        /\ job.samples \in Nat /\ serial \in Nat
    <2>1. job.samples \in Nat /\ serial \in Nat
      BY <1>0, JobTypes DEF TypeOK
    <2>2. samples = Least(job.samples, Capacity)
      OBVIOUS
    <2> HIDE DEF samples
    <2>3. samples \in Nat /\ samples <= Capacity /\ samples <= job.samples
      BY <1>b, <2>1, <2>2, LeastIs
    <2> QED
      BY <2>1, <2>3
  <1> HIDE DEF samples
  <1>d. /\ first \in Nat /\ first > 0 /\ first + samples = serial + job.samples + 1
        /\ serial <= first - 1
    BY <1>c
  <1>e. count \in Nat /\ count <= samples /\ count <= can_write
    <2>1. count = Least(samples, can_write)
      BY DEF WriteCount
    <2> HIDE DEF count
    <2> QED
      BY <1>b, <1>c, <2>1, LeastIs
  <1>f. /\ job' = [job EXCEPT !.stage = 1, !.samples = samples, !.first = first,
                              !.count = count]
        /\ pc' = "write" /\ pc = "convert" /\ serial' = serial + job.samples
    BY DEF Convert, samples
  <1> HIDE DEF first, count
  <1>g. /\ job'.stage = 1 /\ job'.samples = samples /\ job'.first = first
        /\ job'.count = count /\ job'.written = job.written
    BY <1>0, <1>f DEF TypeOK
  <1>h. job.written = 0
    BY <1>0, <1>f DEF JobFits
  <1>1. TypeOK'
    <2>1. job' \in [stage : 0 .. 3, input : Nat, samples : Nat, first : Nat,
                    written : Nat, count : Nat, max : Nat, played : BOOLEAN]
      <3>1. job \in [stage : 0 .. 3, input : Nat, samples : Nat, first : Nat,
                     written : Nat, count : Nat, max : Nat, played : BOOLEAN]
        BY <1>0 DEF TypeOK
      <3>2. samples \in Nat /\ first \in Nat /\ count \in Nat /\ 1 \in 0 .. 3
        BY <1>c, <1>d, <1>e
      <3>3. job' = [job EXCEPT !.stage = 1, !.samples = samples, !.first = first,
                               !.count = count]
        BY <1>f
      <3> QED
        BY ONLY <3>1, <3>2, <3>3
    <2>2. serial' \in Nat
      BY <1>c, <1>f
    <2> QED
      BY <1>0, <2>1, <2>2 DEF Convert, TypeOK
  <1>2. PlayerFollowsPc'
    BY <1>0 DEF Convert, PlayerFollowsPc, Pushing
  <1>3. CallbackIsServed'
    BY <1>0, <1>a DEF Convert, CallbackIsServed, Chunk
  <1>4. JobFits'
    <2>1. job'.first + job'.samples = serial' + 1
      BY <1>d, <1>f, <1>g
    <2>2. /\ job'.written <= job'.samples
          /\ job'.written + job'.count <= job'.samples
      BY <1>c, <1>e, <1>g, <1>h
    <2> QED
      BY <1>a, <1>c, <1>d, <1>e, <1>f, <1>g, <2>1, <2>2 DEF JobFits
  <1>5. RingIsInOrder'
    <2>1. Newest = serial
      BY <1>f DEF Newest
    <2>2. Newest' = first - 1
      BY <1>d, <1>f, <1>g, <1>h DEF Newest
    <2> QED
      BY <1>0, <1>a, <1>c, <1>d, <2>1, <2>2, OrderKept
  <1>6. LevelFollowsPc'
    BY <1>f DEF LevelFollowsPc
  <1> QED
    BY <1>0, <1>a, <1>1, <1>2, <1>3, <1>4, <1>5, <1>6 DEF IInv

\* The limit is chosen.
LEMMA LimitStep ==
    ASSUME IInv, Limit
    PROVE  IInv'
  <1> USE DEF regVars, threadVars
  <1>0. TypeOK /\ JobFits /\ PlayerFollowsPc /\ CallbackIsServed /\ LevelFollowsPc
        /\ RingIsInOrder /\ ~failed
    BY DEF IInv
  <1>a. /\ can_read' = can_read /\ can_write' = can_write /\ failed' = failed
        /\ UNCHANGED <<data, head, tail, last>>
    BY RingKept DEF Limit
  <1>b. /\ can_read \in Nat /\ can_write \in Nat /\ Capacity \in Nat
        /\ can_read <= Capacity /\ can_write = Capacity - can_read
    BY <1>0, RingLevel
  <1>c. /\ played \in BOOLEAN /\ MaxBuffered(played) \in Nat
        /\ MaxBuffered(played) <= Most /\ Most \in Nat
    BY <1>0, Limits DEF TypeOK
  <1>d. /\ job' = [job EXCEPT !.played = played, !.max = MaxBuffered(played)]
        /\ pc' = (IF can_read > MaxBuffered(played) THEN "skip" ELSE "finish")
    BY DEF Limit
  <1>e. job'.max = MaxBuffered(played)
    BY <1>0, <1>d DEF TypeOK
  <1>f. pc' \in {"skip", "finish"} /\ pc = "limit" /\ serial' = serial
    BY <1>d DEF Limit
  <1>1. TypeOK'
    <2>1. job' \in [stage : 0 .. 3, input : Nat, samples : Nat, first : Nat,
                    written : Nat, count : Nat, max : Nat, played : BOOLEAN]
      BY <1>0, <1>c, <1>d DEF TypeOK
    <2>2. underflow' \in Nat
      BY <1>0 DEF Limit, TypeOK
    <2> QED
      BY <1>0, <1>f, <2>1, <2>2 DEF Limit, TypeOK
  <1>2. PlayerFollowsPc'
    BY <1>0 DEF Limit, PlayerFollowsPc, Pushing
  <1>3. CallbackIsServed'
    BY <1>0, <1>a DEF Limit, CallbackIsServed, Chunk
  <1>4. JobFits'
    BY <1>f DEF JobFits
  <1>5. RingIsInOrder'
    <2>1. Newest \in Nat
      BY <1>0, NewestType
    <2>2. Newest' = Newest
      BY <1>f DEF Newest
    <2> QED
      BY <1>0, <1>a, <2>1, <2>2, OrderKept
  <1>6. LevelFollowsPc'
    <2>1. pc' = "finish" => can_read <= Most
      BY <1>b, <1>c, <1>d
    <2> QED
      BY <1>a, <1>c, <1>e, <1>f, <2>1 DEF LevelFollowsPc
  <1> QED
    BY <1>0, <1>a, <1>1, <1>2, <1>3, <1>4, <1>5, <1>6 DEF IInv

\* The frame is done.
LEMMA FinishStep ==
    ASSUME IInv, Finish
    PROVE  IInv'
  <1> USE DEF regVars, threadVars
  <1>0. TypeOK /\ JobFits /\ PlayerFollowsPc /\ CallbackIsServed /\ LevelFollowsPc
        /\ RingIsInOrder /\ ~failed
    BY DEF IInv
  <1>a. /\ can_read' = can_read /\ can_write' = can_write /\ failed' = failed
        /\ UNCHANGED <<data, head, tail, last>>
    BY RingKept DEF Finish
  <1>b. /\ can_read \in Nat /\ can_write \in Nat /\ Capacity \in Nat
        /\ can_read <= Capacity /\ can_write = Capacity - can_read
    BY <1>0, RingLevel
  <1>1. TypeOK'
    <2>1. job' \in [stage : 0 .. 3, input : Nat, samples : Nat, first : Nat,
                    written : Nat, count : Nat, max : Nat, played : BOOLEAN]
      BY DEF Finish, NoJob
    <2>2. resync' \in Nat /\ active' \in BOOLEAN
      BY <1>0, JobTypes DEF Finish, TypeOK
    <2> QED
      BY <1>0, <2>1, <2>2 DEF Finish, TypeOK
  <1>2. PlayerFollowsPc'
    BY <1>0 DEF Finish, PlayerFollowsPc, Pushing
  <1>3. CallbackIsServed'
    BY <1>0, <1>a DEF Finish, CallbackIsServed, Chunk
  <1>4. JobFits'
    BY <1>0, <1>a DEF Finish, JobFits
  <1>5. RingIsInOrder'
    <2>1. Newest \in Nat
      BY <1>0, NewestType
    <2>2. Newest' = Newest
      BY <1>0 DEF Finish, Newest
    <2> QED
      BY <1>0, <1>a, <2>1, <2>2, OrderKept
  <1>6. LevelFollowsPc'
    BY <1>0, <1>a DEF Finish, LevelFollowsPc
  <1> QED
    BY <1>0, <1>a, <1>1, <1>2, <1>3, <1>4, <1>5, <1>6 DEF IInv

\* SDL asks for samples.
LEMMA CallbackStep ==
    ASSUME IInv, NEW n \in Requests, Callback(n)
    PROVE  IInv'
  <1> USE DEF regVars, threadVars
  <1>0. TypeOK /\ JobFits /\ PlayerFollowsPc /\ CallbackIsServed /\ LevelFollowsPc
        /\ RingIsInOrder /\ ~failed
    BY DEF IInv
  <1>a. /\ can_read' = can_read /\ can_write' = can_write /\ failed' = failed
        /\ UNCHANGED <<data, head, tail, last>>
    BY RingKept DEF Callback
  <1>b. /\ can_read \in Nat /\ can_write \in Nat /\ Capacity \in Nat
        /\ can_read <= Capacity /\ can_write = Capacity - can_read
    BY <1>0, RingLevel
  <1>1. TypeOK'
    <2>1. n \in Nat
      BY SizesAssumption
    <2> QED
      BY <1>0, <2>1 DEF Callback, TypeOK
  <1>2. PlayerFollowsPc'
    BY <1>0 DEF Callback, PlayerFollowsPc, Pushing
  <1>3. CallbackIsServed'
    BY <1>0, <1>a DEF Callback, CallbackIsServed, Chunk
  <1>4. JobFits'
    BY <1>0, <1>a DEF Callback, JobFits
  <1>5. RingIsInOrder'
    <2>1. Newest \in Nat
      BY <1>0, NewestType
    <2>2. Newest' = Newest
      BY <1>0 DEF Callback, Newest
    <2> QED
      BY <1>0, <1>a, <2>1, <2>2, OrderKept
  <1>6. LevelFollowsPc'
    BY <1>0, <1>a DEF Callback, LevelFollowsPc
  <1> QED
    BY <1>0, <1>a, <1>1, <1>2, <1>3, <1>4, <1>5, <1>6 DEF IInv

\* The callback takes the lock.
LEMMA PullStep ==
    ASSUME IInv, Pull
    PROVE  IInv'
  <1> USE DEF regVars, threadVars
  <1>0. TypeOK /\ JobFits /\ PlayerFollowsPc /\ CallbackIsServed /\ LevelFollowsPc
        /\ RingIsInOrder /\ ~failed
    BY DEF IInv
  <1>a. /\ can_read' = can_read /\ can_write' = can_write /\ failed' = failed
        /\ UNCHANGED <<data, head, tail, last>>
    BY RingKept DEF Pull
  <1>b. /\ can_read \in Nat /\ can_write \in Nat /\ Capacity \in Nat
        /\ can_read <= Capacity /\ can_write = Capacity - can_read
    BY <1>0, RingLevel
  <1>c. /\ want \in Nat /\ Aout \in Nat /\ Chunk \in Nat /\ Chunk <= want
    <2>1. want \in Nat /\ Aout \in Nat
      BY <1>0, SizesAssumption DEF TypeOK
    <2>2. Chunk \in Nat /\ Chunk <= want
      BY <2>1, LeastIs DEF Chunk
    <2> QED
      BY <2>1, <2>2
  <1>d. ASSUME NextChunk
        PROVE  want' \in Nat /\ cpc' \in {"idle", "pull"}
    BY <1>c, <1>d DEF NextChunk
  <1>e. /\ got \in Nat /\ got' \in Nat /\ want' \in Nat
        /\ cpc = "pull" /\ cpc' \in {"idle", "pull", "locked"}
        /\ cpc' = "locked" => want' = want /\ got' <= Chunk /\ got' <= can_read
    <2>1. got \in Nat
      BY <1>0 DEF TypeOK
    <2>2. CASE ~played /\ can_read < Target
      BY <1>c, <1>d, <2>1, <2>2 DEF Pull
    <2>3. CASE ~(~played /\ can_read < Target)
      <3>1. got' = Least(Chunk, can_read) /\ cpc' = "locked" /\ want' = want /\ cpc = "pull"
        BY <2>3 DEF Pull
      <3>2. got' \in Nat /\ got' <= Chunk /\ got' <= can_read
        BY <1>b, <1>c, <3>1, LeastIs
      <3> QED
        BY <1>b, <1>c, <2>1, <3>1, <3>2
    <2> QED
      BY <2>2, <2>3
  <1>f. /\ UNCHANGED <<alive, stream, pc, job, serial, frames>>
        /\ UNCHANGED <<played, received, underflow, active, resync>>
    BY DEF Pull
  <1>1. TypeOK'
    BY <1>0, <1>a, <1>e, <1>f DEF TypeOK
  <1>2. PlayerFollowsPc'
    BY <1>0, <1>e, <1>f DEF PlayerFollowsPc
  <1>3. CallbackIsServed'
    BY <1>a, <1>e DEF CallbackIsServed, Chunk
  <1>4. JobFits'
    BY <1>0, <1>a, <1>f DEF JobFits
  <1>5. RingIsInOrder'
    <2>1. Newest \in Nat
      BY <1>0, NewestType
    <2>2. Newest' = Newest
      BY <1>f DEF Newest
    <2> QED
      BY <1>0, <1>a, <2>1, <2>2, OrderKept
  <1>6. LevelFollowsPc'
    BY <1>0, <1>a, <1>f DEF LevelFollowsPc
  <1> QED
    BY <1>0, <1>a, <1>1, <1>2, <1>3, <1>4, <1>5, <1>6 DEF IInv

\* The callback fills up with silence.
LEMMA SilenceStep ==
    ASSUME IInv, Silence
    PROVE  IInv'
  <1> USE DEF regVars, threadVars
  <1>0. TypeOK /\ JobFits /\ PlayerFollowsPc /\ CallbackIsServed /\ LevelFollowsPc
        /\ RingIsInOrder /\ ~failed
    BY DEF IInv
  <1>a. /\ can_read' = can_read /\ can_write' = can_write /\ failed' = failed
        /\ UNCHANGED <<data, head, tail, last>>
    BY RingKept DEF Silence
  <1>b. /\ can_read \in Nat /\ can_write \in Nat /\ Capacity \in Nat
        /\ can_read <= Capacity /\ can_write = Capacity - can_read
    BY <1>0, RingLevel
  <1>c. /\ want \in Nat /\ Aout \in Nat /\ Chunk \in Nat /\ Chunk <= want
    <2>1. want \in Nat /\ Aout \in Nat
      BY <1>0, SizesAssumption DEF TypeOK
    <2>2. Chunk \in Nat /\ Chunk <= want
      BY <2>1, LeastIs DEF Chunk
    <2> QED
      BY <2>1, <2>2
  <1>d. ASSUME NextChunk
        PROVE  want' \in Nat /\ cpc' \in {"idle", "pull"}
    BY <1>c, <1>d DEF NextChunk
  <1>e. /\ cpc = "after" /\ want' \in Nat /\ cpc' \in {"idle", "pull"} /\ got' = 0
        /\ played' = TRUE
        /\ underflow' \in {underflow, underflow + Chunk - got}
    BY <1>d DEF Silence
  <1>f. underflow' \in Nat
    <2>1. got \in Nat /\ underflow \in Nat /\ got <= Chunk
      BY <1>0, <1>e DEF TypeOK, CallbackIsServed
    <2>2. underflow + Chunk - got \in Nat
      BY <1>c, <2>1
    <2> QED
      BY <1>e, <2>1, <2>2
  <1>g. /\ UNCHANGED <<alive, stream, pc, job, serial, frames>>
        /\ UNCHANGED <<received, active, resync>>
    BY DEF Silence
  <1>1. TypeOK'
    BY <1>0, <1>a, <1>e, <1>f, <1>g DEF TypeOK
  <1>2. PlayerFollowsPc'
    BY <1>0, <1>e, <1>g DEF PlayerFollowsPc
  <1>3. CallbackIsServed'
    BY <1>e DEF CallbackIsServed
  <1>4. JobFits'
    BY <1>0, <1>a, <1>g DEF JobFits
  <1>5. RingIsInOrder'
    <2>1. Newest \in Nat
      BY <1>0, NewestType
    <2>2. Newest' = Newest
      BY <1>g DEF Newest
    <2> QED
      BY <1>0, <1>a, <2>1, <2>2, OrderKept
  <1>6. LevelFollowsPc'
    BY <1>0, <1>a, <1>g DEF LevelFollowsPc
  <1> QED
    BY <1>0, <1>a, <1>1, <1>2, <1>3, <1>4, <1>5, <1>6 DEF IInv

-----------------------------------------------------------------------------
(* The steps that change the ring.                                          *)

\* What there is to write after a step.
LEMMA RoomAfter ==
    ASSUME head' \in Slots, tail' \in Slots
    PROVE  can_write' = Capacity - can_read'
  <1>1. /\ can_read' = Wrap(AllocSize + head' - tail')
        /\ can_write' = Wrap(AllocSize + tail' - head' - 1)
    BY DEF can_read, can_write, Wrap
  <1> QED
    BY <1>1, Level

\* The order holds on when the k oldest samples are dropped or read.
LEMMA OrderDrops ==
    ASSUME TypeOK, RingIsInOrder, NEW k \in Nat, k <= can_read,
           can_read' = can_read - k, \A i \in 1 .. can_read' : Nth(i)' = Nth(i + k),
           Newest' = Newest, last' <= Newest,
           \A i \in k + 1 .. can_read : Nth(i) # 0 => last' < Nth(i)
    PROVE  RingIsInOrder'
  <1>1. can_read \in Nat
    BY RingLevel
  <1>2. ASSUME NEW i \in 1 .. can_read', Nth(i)' # 0
        PROVE  /\ last' < Nth(i)' /\ Nth(i)' <= Newest'
               /\ \A j \in 1 .. i - 1 : Nth(j)' < Nth(i)'
    <2>1. /\ i + k \in k + 1 .. can_read /\ i + k \in 1 .. can_read
          /\ Nth(i)' = Nth(i + k)
      BY <1>1
    <2>2. last' < Nth(i)' /\ Nth(i)' <= Newest'
      BY <1>2, <2>1 DEF RingIsInOrder
    <2>3. ASSUME NEW j \in 1 .. i - 1 PROVE Nth(j)' < Nth(i)'
      <3>1. j \in 1 .. can_read' /\ j + k \in 1 .. (i + k) - 1
        BY <1>1
      <3>2. Nth(j)' = Nth(j + k)
        BY <3>1
      <3>3. Nth(j + k) < Nth(i + k)
        BY <1>2, <2>1, <3>1 DEF RingIsInOrder
      <3> QED
        BY <2>1, <3>2, <3>3
    <2> QED
      BY <2>2, <2>3
  <1> QED
    BY <1>2 DEF RingIsInOrder

\* A discontinuity is filled with silence.
LEMMA DiscontinuityStep ==
    ASSUME IInv, Discontinuity
    PROVE  IInv'
  <1> USE DEF regVars, threadVars
  <1>0. TypeOK /\ JobFits /\ PlayerFollowsPc /\ CallbackIsServed /\ LevelFollowsPc
        /\ RingIsInOrder /\ ~failed
    BY DEF IInv
  <1>b. /\ can_read \in Nat /\ can_write \in Nat /\ Capacity \in Nat
        /\ can_read <= Capacity /\ can_write = Capacity - can_read
        /\ AllocSize \in Nat /\ AllocSize > 0
    BY <1>0, RingLevel, RingSize
  <1>c. /\ pc = "silence" /\ pc' = "convert" /\ job' = job /\ last' = last
        /\ serial' = serial /\ failed' = failed /\ tail' = tail
        /\ UNCHANGED <<alive, stream, cpc, want, got>>
        /\ UNCHANGED <<played, received, frames>>
        /\ active' = FALSE /\ resync' = 0 /\ underflow' = 0
    BY DEF Discontinuity
  <1> DEFINE n == job.count
             v == [i \in 1 .. n |-> 0]
  <1>d. n \in Nat /\ n <= can_write
    BY <1>0, <1>c, JobTypes DEF JobFits
  <1>e. /\ Store(v) /\ v \in [1 .. n -> Nat] /\ Len(v) = n
        /\ \A m \in 1 .. n : v[m] = 0
    <2>1. Store(v)
      BY DEF Discontinuity
    <2> HIDE DEF n
    <2>2. v \in [1 .. n -> Nat] /\ Len(v) = n /\ \A m \in 1 .. n : v[m] = 0
      BY <1>d
    <2> QED
      BY <2>1, <2>2
  <1>f. tail' = (tail + 0) % AllocSize
    <2>1. tail \in Nat /\ tail < AllocSize + AllocSize /\ tail < AllocSize /\ tail + 0 = tail
      BY <1>0, <1>b, RingSize DEF TypeOK
    <2>2. Wrap(tail) = tail
      BY <2>1, Wrapped
    <2> QED
      BY <1>c, <2>1, <2>2 DEF Wrap
  <1> HIDE DEF v, n
  <1>g. 0 \in Nat /\ 0 <= can_read + n
    BY <1>b, <1>d
  <1>h. /\ data' \in [Slots -> Nat] /\ head' \in Slots /\ tail' \in Slots
        /\ can_read' = can_read + n - 0
        /\ \A i \in 1 .. can_read' :
             Nth(i)' = IF i + 0 <= can_read THEN Nth(i + 0) ELSE v[i + 0 - can_read]
    BY <1>0, <1>d, <1>e, <1>f, <1>g, Stored
  <1>i. can_read' = can_read + n
    BY <1>b, <1>d, <1>h
  <1>1. TypeOK'
    BY <1>0, <1>c, <1>h DEF TypeOK
  <1>2. PlayerFollowsPc'
    BY <1>0, <1>c DEF PlayerFollowsPc, Pushing
  <1>3. CallbackIsServed'
    <2>1. got \in Nat
      BY <1>0 DEF TypeOK
    <2>2. cpc' = "locked" => got' <= can_read'
      BY <1>0, <1>b, <1>c, <1>d, <1>i, <2>1 DEF CallbackIsServed
    <2> QED
      BY <1>0, <1>c, <2>2 DEF CallbackIsServed, Chunk
  <1>4. JobFits'
    BY <1>0, <1>c DEF JobFits
  <1>5. RingIsInOrder'
    <2>1. Newest = serial /\ Newest' = serial /\ serial \in Nat
      BY <1>0, <1>c DEF Newest, TypeOK
    <2> QED
      BY <1>0, <1>c, <1>d, <1>e, <1>g, <1>h, <2>1, OrderGrows
  <1>6. LevelFollowsPc'
    <2>1. can_read' <= Most
      BY <1>0, <1>c, <1>i DEF LevelFollowsPc, n
    <2> QED
      BY <1>c, <2>1 DEF LevelFollowsPc
  <1> QED
    BY <1>0, <1>c, <1>1, <1>2, <1>3, <1>4, <1>5, <1>6 DEF IInv

\* The samples of a frame, as they follow the newest one.
LEMMA SamplesFollow ==
    ASSUME TypeOK, JobFits, pc \in {"write", "full"}, NEW n \in Nat
    PROVE  /\ Samples(job.first + job.written, n) \in [1 .. n -> Nat]
           /\ Len(Samples(job.first + job.written, n)) = n
           /\ \A m \in 1 .. n :
                Samples(job.first + job.written, n)[m] = Newest + m
           /\ Newest = job.first + job.written - 1
  <1> DEFINE f == job.first + job.written
  <1>1. f \in Nat /\ f > 0
    <2>1. job.first \in Nat /\ job.written \in Nat /\ job.first > 0
      BY JobTypes DEF JobFits
    <2> QED
      BY <2>1
  <1>2. Newest = job.first + job.written - 1 /\ Newest = f - 1
    <2>1. job.first \in Nat /\ job.written \in Nat
      BY JobTypes
    <2> QED
      BY <2>1 DEF Newest
  <1> HIDE DEF f
  <1>3. Samples(f, n) = [i \in 1 .. n |-> f + i - 1]
    BY DEF Samples
  <1>4. \A i \in 1 .. n : f + i - 1 \in Nat /\ f + i - 1 = Newest + i
    BY <1>1, <1>2
  <1>5. /\ Samples(f, n) \in [1 .. n -> Nat] /\ Len(Samples(f, n)) = n
        /\ \A m \in 1 .. n : Samples(f, n)[m] = Newest + m
    <2>1. Len(Samples(f, n)) = n
      BY <1>3
    <2>2. Samples(f, n) \in [1 .. n -> Nat]
      BY <1>3, <1>4
    <2>3. \A m \in 1 .. n : Samples(f, n)[m] = Newest + m
      BY <1>3, <1>4
    <2> QED
      BY <2>1, <2>2, <2>3
  <1> QED
    BY <1>2, <1>5 DEF f

\* A write without the lock ends.
LEMMA WriteEndsStep ==
    ASSUME IInv, WriteEnds
    PROVE  IInv'
  <1> USE DEF regVars, threadVars
  <1>0. TypeOK /\ JobFits /\ PlayerFollowsPc /\ CallbackIsServed /\ LevelFollowsPc
        /\ RingIsInOrder /\ ~failed
    BY DEF IInv
  <1>b. /\ can_read \in Nat /\ can_write \in Nat /\ Capacity \in Nat
        /\ can_read <= Capacity /\ can_write = Capacity - can_read
        /\ AllocSize \in Nat /\ AllocSize > 0
    BY <1>0, RingLevel, RingSize
  <1> DEFINE n == job.count
             written == job.written + job.count
             v == Samples(job.first + job.written, job.count)
  <1>c. /\ pc = "write" /\ last' = last /\ serial' = serial /\ tail' = tail
        /\ UNCHANGED <<alive, stream, cpc, want, got>>
        /\ UNCHANGED <<played, received, underflow, active, resync, frames>>
    BY DEF WriteEnds
  <1>d. /\ job.stage \in 0 .. 3 /\ job.samples \in Nat /\ job.first \in Nat
        /\ job.written \in Nat /\ job.count \in Nat /\ job.max \in Nat
        /\ job.input \in Nat /\ serial \in Nat
    BY <1>0, JobTypes DEF TypeOK
  <1>e. /\ n <= can_write /\ job.samples <= Capacity /\ written <= job.samples
        /\ job.first + job.samples = serial + 1 /\ job.first > 0
        /\ job.stage \in {1, 3} /\ (job.stage = 3 => written = job.samples)
    BY <1>0, <1>c DEF JobFits
  <1>f. /\ job.stage = 1 => /\ job' = [job EXCEPT !.written = written]
                            /\ pc' = (IF written < job.samples THEN "full" ELSE "limit")
                            /\ failed' = failed
        /\ job.stage = 3 => /\ job' = job /\ pc' = "limit" /\ ~failed'
    <2>1. CASE job.stage = 1
      BY <2>1 DEF WriteEnds
    <2>2. CASE job.stage = 3
      <3>1. /\ failed' = (failed \/ written # job.samples)
            /\ job' = job /\ pc' = "limit"
        BY <2>2 DEF WriteEnds
      <3>2. written = job.samples /\ job.stage # 1
        BY <1>e, <2>2
      <3> HIDE DEF written
      <3>3. ~failed'
        BY <1>0, <3>1, <3>2
      <3> QED
        BY <2>2, <3>1, <3>2, <3>3
    <2> QED
      BY <2>1, <2>2
  <1>g. /\ v \in [1 .. n -> Nat] /\ Len(v) = n /\ n \in Nat
        /\ \A m \in 1 .. n : v[m] = Newest + m
        /\ Newest = job.first + job.written - 1
    BY <1>0, <1>c, <1>d, SamplesFollow
  <1>h. Store(v)
    BY DEF WriteEnds
  <1>i. tail' = (tail + 0) % AllocSize
    <2>1. tail \in Nat /\ tail < AllocSize + AllocSize /\ tail < AllocSize /\ tail + 0 = tail
      BY <1>0, <1>b, RingSize DEF TypeOK
    <2>2. Wrap(tail) = tail
      BY <2>1, Wrapped
    <2> QED
      BY <1>c, <2>1, <2>2 DEF Wrap
  <1>j. written \in Nat /\ written <= job.samples /\ written = job.written + n
    BY <1>d, <1>e
  <1>k. /\ ~failed' /\ pc' \in {"full", "limit"}
        /\ pc' = "limit" => written = job.samples
        /\ pc' = "full" => job' = [job EXCEPT !.written = written]
    BY <1>0, <1>d, <1>e, <1>f, <1>j
  <1> HIDE DEF v, n, written
  <1>l. 0 \in Nat /\ 0 <= can_read + n
    BY <1>b, <1>g
  <1>m. /\ data' \in [Slots -> Nat] /\ head' \in Slots /\ tail' \in Slots
        /\ can_read' = can_read + n - 0
        /\ \A i \in 1 .. can_read' :
             Nth(i)' = IF i + 0 <= can_read THEN Nth(i + 0) ELSE v[i + 0 - can_read]
    BY <1>0, <1>e, <1>g, <1>h, <1>i, <1>l, Stored
  <1>n. can_read' = can_read + n
    BY <1>b, <1>g, <1>m
  <1>o. pc' = "full" => /\ job'.samples = job.samples /\ job'.first = job.first
                        /\ job'.written = written
    BY <1>0, <1>k DEF TypeOK
  <1>1. TypeOK'
    <2>1. job' \in [stage : 0 .. 3, input : Nat, samples : Nat, first : Nat,
                    written : Nat, count : Nat, max : Nat, played : BOOLEAN]
      <3>1. job \in [stage : 0 .. 3, input : Nat, samples : Nat, first : Nat,
                    written : Nat, count : Nat, max : Nat, played : BOOLEAN]
        BY <1>0 DEF TypeOK
      <3>2. job' = job \/ job' = [job EXCEPT !.written = written]
        BY <1>e, <1>f
      <3> QED
        BY ONLY <1>j, <3>1, <3>2
    <2>2. failed' \in BOOLEAN /\ pc' \in {"full", "limit"}
      <3>1. failed' \in BOOLEAN
        BY <1>0, <1>e, <1>f DEF TypeOK, WriteEnds
      <3> QED
        BY <1>k, <3>1
    <2> QED
      BY <1>0, <1>c, <1>m, <2>1, <2>2 DEF TypeOK
  <1>2. PlayerFollowsPc'
    BY <1>0, <1>c, <1>k DEF PlayerFollowsPc, Pushing
  <1>3. CallbackIsServed'
    <2>1. got \in Nat
      BY <1>0 DEF TypeOK
    <2>2. cpc' = "locked" => got' <= can_read'
      BY <1>0, <1>b, <1>c, <1>g, <1>n, <2>1 DEF CallbackIsServed
    <2> QED
      BY <1>0, <1>c, <2>2 DEF CallbackIsServed, Chunk
  <1>4. JobFits'
    BY <1>c, <1>e, <1>j, <1>k, <1>o DEF JobFits
  <1>5. RingIsInOrder'
    <2>0. Newest = job.first + job.written - 1 /\ n \in Nat
      BY <1>g
    <2>1. Newest' = Newest + n
      <3>1. CASE pc' = "full"
        <4>1. Newest' = job.first + written - 1
          BY <1>o, <3>1 DEF Newest
        <4> QED
          BY <1>d, <1>j, <2>0, <4>1
      <3>2. CASE pc' = "limit"
        <4>1. Newest' = serial
          BY <1>c, <3>2 DEF Newest
        <4>2. written = job.samples
          BY <1>k, <3>2
        <4> QED
          BY <1>d, <1>e, <1>j, <2>0, <4>1, <4>2
      <3> QED
        BY <1>k, <3>1, <3>2
    <2>2. Newest \in Nat
      BY <1>0, NewestType
    <2>3. Newest' \in Nat /\ Newest <= Newest' /\ Newest + n <= Newest'
      BY <1>g, <2>1, <2>2
    <2> QED
      BY <1>0, <1>c, <1>e, <1>g, <1>l, <1>m, <2>2, <2>3, OrderGrows
  <1>6. LevelFollowsPc'
    BY <1>k DEF LevelFollowsPc
  <1> QED
    BY <1>k, <1>1, <1>2, <1>3, <1>4, <1>5, <1>6 DEF IInv

\* Old samples make room for the rest of the frame.
LEMMA MakeRoomStep ==
    ASSUME IInv, MakeRoom
    PROVE  IInv'
  <1> USE DEF regVars, threadVars
  <1>0. TypeOK /\ JobFits /\ PlayerFollowsPc /\ CallbackIsServed /\ LevelFollowsPc
        /\ RingIsInOrder /\ ~failed
    BY DEF IInv
  <1>b. /\ can_read \in Nat /\ can_write \in Nat /\ Capacity \in Nat
        /\ can_read <= Capacity /\ can_write = Capacity - can_read
        /\ AllocSize \in Nat /\ AllocSize > 0
    BY <1>0, RingLevel, RingSize
  <1> DEFINE again == WriteCount(job.samples - job.written)
             written == job.written + again
             remaining == job.samples - written
             level == can_read + again
             skipped == Least(remaining, level)
             count == Least(remaining, Capacity - level + skipped)
             v == Samples(job.first + job.written, again)
  <1>c. /\ pc = "full" /\ cpc # "locked" /\ last' = last /\ serial' = serial
        /\ UNCHANGED <<alive, stream, cpc, want, got>>
        /\ UNCHANGED <<played, received, underflow, active, resync, frames>>
    BY DEF MakeRoom
  <1>d. /\ Store(v) /\ tail' = (tail + skipped) % AllocSize
        /\ failed' = (failed \/ skipped # remaining)
        /\ job' = [job EXCEPT !.stage = 3, !.written = written, !.count = count]
        /\ pc' = (IF remaining > 0 THEN "write" ELSE "limit")
    BY DEF MakeRoom
  <1>e. /\ job.samples \in Nat /\ job.first \in Nat /\ job.written \in Nat
        /\ serial \in Nat
    BY <1>0, JobTypes DEF TypeOK
  <1>f. /\ job.samples <= Capacity /\ job.written <= job.samples
        /\ job.first + job.samples = serial + 1 /\ job.first > 0
    BY <1>0, <1>c DEF JobFits
  <1>g. /\ again \in Nat /\ again <= can_write /\ written <= job.samples
        /\ again = can_write \/ written = job.samples
    <2> DEFINE rest == job.samples - job.written
    <2>1. rest \in Nat /\ rest = job.samples - job.written
      BY <1>e, <1>f
    <2>2. again = Least(rest, can_write)
      BY DEF WriteCount
    <2>3. written = job.written + again
      OBVIOUS
    <2> HIDE DEF rest, again, written
    <2>4. again \in Nat /\ again <= rest /\ again <= can_write
          /\ (again = rest \/ again = can_write)
      BY <1>b, <2>1, <2>2, LeastIs
    <2> QED
      BY <1>b, <1>e, <2>1, <2>3, <2>4
  <1>h. /\ written = job.written + again /\ remaining = job.samples - written
        /\ level = can_read + again
    OBVIOUS
  <1>i. /\ v \in [1 .. again -> Nat] /\ Len(v) = again
        /\ \A m \in 1 .. again : v[m] = Newest + m
        /\ Newest = job.first + job.written - 1
    BY <1>0, <1>c, <1>g, SamplesFollow
  <1>j. skipped = Least(remaining, level) /\ count = Least(remaining, Capacity - level + skipped)
    OBVIOUS
  <1> HIDE DEF v, count, skipped, level, remaining, written, again
  <1>k. /\ written \in Nat /\ remaining \in Nat /\ level \in Nat /\ level <= Capacity
        /\ remaining <= Capacity /\ (remaining > 0 => level = Capacity)
    BY <1>b, <1>e, <1>f, <1>g, <1>h
  <1>l. skipped = remaining
    BY <1>b, <1>j, <1>k DEF Least
  <1>m. count = remaining
    <2>1. remaining <= Capacity - level + skipped
      BY <1>b, <1>k, <1>l
    <2> QED
      BY <1>j, <2>1 DEF Least
  <1>n. remaining <= can_read + again
    BY <1>b, <1>g, <1>h, <1>k
  <1>o. tail' = (tail + remaining) % AllocSize /\ ~failed' /\ failed' \in BOOLEAN
    BY <1>0, <1>d, <1>l
  <1>p. /\ data' \in [Slots -> Nat] /\ head' \in Slots /\ tail' \in Slots
        /\ can_read' = can_read + again - remaining
        /\ \A i \in 1 .. can_read' :
             Nth(i)' = IF i + remaining <= can_read THEN Nth(i + remaining)
                       ELSE v[i + remaining - can_read]
    BY <1>0, <1>d, <1>g, <1>i, <1>k, <1>n, <1>o, Stored
  <1>q. remaining <= can_write'
    <2>1. can_write' = Capacity - can_read'
      BY <1>p, RoomAfter
    <2> QED
      BY <1>b, <1>g, <1>h, <1>k, <1>p, <2>1
  <1>r. /\ job'.stage = 3 /\ job'.written = written /\ job'.count = remaining
        /\ job'.samples = job.samples /\ job'.first = job.first
    BY <1>0, <1>d, <1>m DEF TypeOK
  <1>s. /\ pc' \in {"write", "limit"} /\ (pc' = "limit" => written = job.samples)
    BY <1>d, <1>e, <1>h, <1>k
  <1>1. TypeOK'
    <2>1. job' \in [stage : 0 .. 3, input : Nat, samples : Nat, first : Nat,
                    written : Nat, count : Nat, max : Nat, played : BOOLEAN]
      <3>1. job \in [stage : 0 .. 3, input : Nat, samples : Nat, first : Nat,
                    written : Nat, count : Nat, max : Nat, played : BOOLEAN]
        BY <1>0 DEF TypeOK
      <3>2. written \in Nat /\ count \in Nat /\ 3 \in 0 .. 3
        BY <1>k, <1>m
      <3>3. job' = [job EXCEPT !.stage = 3, !.written = written, !.count = count]
        BY <1>d
      <3> QED
        BY ONLY <3>1, <3>2, <3>3
    <2> QED
      BY <1>0, <1>c, <1>o, <1>p, <1>s, <2>1 DEF TypeOK
  <1>2. PlayerFollowsPc'
    BY <1>0, <1>c, <1>s DEF PlayerFollowsPc, Pushing
  <1>3. CallbackIsServed'
    BY <1>0, <1>c DEF CallbackIsServed, Chunk
  <1>4. JobFits'
    <2>1. written + remaining = job.samples /\ written <= job.samples
      BY <1>e, <1>g, <1>h, <1>k
    <2> QED
      BY <1>c, <1>e, <1>f, <1>k, <1>q, <1>r, <1>s, <2>1 DEF JobFits
  <1>5. RingIsInOrder'
    <2>0. Newest = job.first + job.written - 1 /\ again \in Nat
      BY <1>g, <1>i
    <2>1. Newest' = Newest + again
      <3>1. CASE pc' = "write"
        <4>1. Newest' = job.first + written - 1
          BY <1>r, <3>1 DEF Newest
        <4> QED
          BY <1>e, <1>h, <2>0, <4>1
      <3>2. CASE pc' = "limit"
        <4>1. Newest' = serial
          BY <1>c, <3>2 DEF Newest
        <4>2. written = job.samples
          BY <1>s, <3>2
        <4> QED
          BY <1>e, <1>f, <1>h, <2>0, <4>1, <4>2
      <3> QED
        BY <1>s, <3>1, <3>2
    <2>2. Newest \in Nat
      BY <1>0, NewestType
    <2>3. Newest' \in Nat /\ Newest <= Newest' /\ Newest + again <= Newest'
      BY <1>g, <2>1, <2>2
    <2> QED
      BY <1>0, <1>c, <1>g, <1>i, <1>k, <1>n, <1>p, <2>2, <2>3, OrderGrows
  <1>6. LevelFollowsPc'
    BY <1>s DEF LevelFollowsPc
  <1> QED
    BY <1>o, <1>1, <1>2, <1>3, <1>4, <1>5, <1>6 DEF IInv

\* What is over the limit is dropped.
LEMMA SkipStep ==
    ASSUME IInv, Skip
    PROVE  IInv'
  <1> USE DEF regVars, threadVars
  <1>0. TypeOK /\ JobFits /\ PlayerFollowsPc /\ CallbackIsServed /\ LevelFollowsPc
        /\ RingIsInOrder /\ ~failed
    BY DEF IInv
  <1>b. /\ can_read \in Nat /\ can_write \in Nat /\ Capacity \in Nat
        /\ can_read <= Capacity /\ can_write = Capacity - can_read
        /\ AllocSize \in Nat /\ AllocSize > 0
    BY <1>0, RingLevel, RingSize
  <1>c. /\ pc = "skip" /\ pc' = "finish" /\ cpc # "locked" /\ job' = job
        /\ last' = last /\ serial' = serial /\ failed' = failed
        /\ UNCHANGED <<data, head>>
        /\ UNCHANGED <<alive, stream, cpc, want, got>>
        /\ UNCHANGED <<played, received, underflow, active, resync, frames>>
    BY DEF Skip
  <1> DEFINE k == IF can_read > job.max THEN can_read - job.max ELSE 0
  <1>d. job.max \in Nat /\ job.max <= Most /\ Most \in Nat
    BY <1>0, <1>c, JobTypes, Limits DEF LevelFollowsPc
  <1>e. k \in Nat /\ k <= can_read /\ can_read - k <= Most
    BY <1>b, <1>d
  <1>f. tail' = (tail + k) % AllocSize
    <2>1. CASE can_read > job.max
      <3>1. k = can_read - job.max
        BY <2>1
      <3>2. tail \in Nat
        BY <1>0, RingSize DEF TypeOK
      <3> QED
        BY <1>b, <1>d, <2>1, <3>1, <3>2 DEF Skip
    <2>2. CASE ~(can_read > job.max)
      <3>1. tail \in Nat /\ tail < AllocSize + AllocSize /\ tail < AllocSize /\ tail + 0 = tail
        BY <1>0, <1>b, RingSize DEF TypeOK
      <3>2. Wrap(tail) = tail
        BY <3>1, Wrapped
      <3>3. k = 0 /\ tail' = tail
        BY <2>2 DEF Skip
      <3> QED
        BY <3>1, <3>2, <3>3 DEF Wrap
    <2> QED
      BY <2>1, <2>2
  <1> HIDE DEF k
  <1>g. /\ tail' \in Slots /\ can_read' = can_read - k
        /\ \A i \in 1 .. can_read' : Nth(i)' = Nth(i + k)
    BY <1>0, <1>c, <1>e, <1>f, Dropped
  <1>1. TypeOK'
    BY <1>0, <1>c, <1>g DEF TypeOK
  <1>2. PlayerFollowsPc'
    BY <1>0, <1>c DEF PlayerFollowsPc, Pushing
  <1>3. CallbackIsServed'
    BY <1>0, <1>c DEF CallbackIsServed, Chunk
  <1>4. JobFits'
    BY <1>c DEF JobFits
  <1>5. RingIsInOrder'
    <2>1. Newest' = Newest
      BY <1>c DEF Newest
    <2>2. last' <= Newest
      BY <1>0, <1>c DEF RingIsInOrder
    <2>3. ASSUME NEW i \in k + 1 .. can_read, Nth(i) # 0 PROVE last' < Nth(i)
      <3>1. i \in 1 .. can_read
        BY <1>b, <1>e
      <3> QED
        BY <1>0, <1>c, <2>3, <3>1 DEF RingIsInOrder
    <2> QED
      BY <1>0, <1>e, <1>g, <2>1, <2>2, <2>3, OrderDrops
  <1>6. LevelFollowsPc'
    BY <1>c, <1>d, <1>e, <1>g DEF LevelFollowsPc
  <1> QED
    BY <1>0, <1>c, <1>1, <1>2, <1>3, <1>4, <1>5, <1>6 DEF IInv

\* The callback has read its samples.
LEMMA PullEndsStep ==
    ASSUME IInv, PullEnds
    PROVE  IInv'
  <1> USE DEF regVars, threadVars
  <1>0. TypeOK /\ JobFits /\ PlayerFollowsPc /\ CallbackIsServed /\ LevelFollowsPc
        /\ RingIsInOrder /\ ~failed
    BY DEF IInv
  <1>b. /\ can_read \in Nat /\ can_write \in Nat /\ Capacity \in Nat
        /\ can_read <= Capacity /\ can_write = Capacity - can_read
        /\ AllocSize \in Nat /\ AllocSize > 0
    BY <1>0, RingLevel, RingSize
  <1>c. /\ cpc = "locked" /\ cpc' = "after" /\ UNCHANGED <<pc, job, want, got>>
        /\ UNCHANGED <<data, head>> /\ serial' = serial /\ failed' = failed
        /\ UNCHANGED <<alive, stream>>
        /\ UNCHANGED <<played, received, underflow, active, resync, frames>>
        /\ tail' = (tail + got) % AllocSize
    BY DEF PullEnds
  <1>d. got \in Nat /\ got <= can_read
    BY <1>0, <1>c DEF TypeOK, CallbackIsServed
  <1>e. /\ tail' \in Slots /\ can_read' = can_read - got
        /\ \A i \in 1 .. can_read' : Nth(i)' = Nth(i + got)
    BY <1>0, <1>c, <1>d, Dropped
  <1>f. Newest \in Nat /\ Newest' = Newest
    <2>1. Newest' = Newest
      BY <1>c DEF Newest
    <2> QED
      BY <1>0, <2>1, NewestType
  <1>g. \/ last' = last
        \/ \E j \in 1 .. got : last' = Nth(j) /\ Nth(j) # 0
    <2>1. CASE Heard = {}
      BY <2>1 DEF PullEnds
    <2>2. CASE Heard # {}
      <3>1. last' \in Heard
        BY <2>2 DEF PullEnds
      <3>2. PICK s \in SlotsOf(tail, got) : last' = data[s] /\ data[s] # 0
        BY <3>1 DEF Heard
      <3>3. PICK j \in 1 .. got : s = (tail + j - 1) % AllocSize
        BY DEF SlotsOf
      <3>4. Nth(j) = data[s]
        BY <3>3 DEF Nth
      <3> QED
        BY <3>2, <3>4
    <2> QED
      BY <2>1, <2>2
  <1>h. /\ last' \in Nat /\ last' <= Newest
        /\ \A i \in got + 1 .. can_read : Nth(i) # 0 => last' < Nth(i)
    <2>1. CASE last' = last
      <3>1. last \in Nat /\ last <= Newest
        BY <1>0 DEF TypeOK, RingIsInOrder
      <3>2. ASSUME NEW i \in got + 1 .. can_read, Nth(i) # 0 PROVE last < Nth(i)
        <4>1. i \in 1 .. can_read
          BY <1>b, <1>d
        <4> QED
          BY <1>0, <3>2, <4>1 DEF RingIsInOrder
      <3> QED
        BY <2>1, <3>1, <3>2
    <2>2. CASE \E j \in 1 .. got : last' = Nth(j) /\ Nth(j) # 0
      <3>1. PICK j \in 1 .. got : last' = Nth(j) /\ Nth(j) # 0
        BY <2>2
      <3>2. j \in 1 .. can_read /\ j \in 1 .. Capacity
        BY <1>b, <1>d
      <3>3. Nth(j) \in Nat /\ Nth(j) <= Newest
        BY <1>0, <3>1, <3>2, RingLevel DEF RingIsInOrder
      <3>4. ASSUME NEW i \in got + 1 .. can_read, Nth(i) # 0 PROVE Nth(j) < Nth(i)
        <4>1. i \in 1 .. can_read /\ j \in 1 .. i - 1
          BY <1>b, <1>d
        <4> QED
          BY <1>0, <3>4, <4>1 DEF RingIsInOrder
      <3> QED
        BY <3>1, <3>3, <3>4
    <2> QED
      BY <1>g, <2>1, <2>2
  <1>i. can_write' >= can_write
    <2>1. head' \in Slots
      BY <1>0, <1>c DEF TypeOK
    <2>2. can_write' = Capacity - can_read'
      BY <1>e, <2>1, RoomAfter
    <2> QED
      BY <1>b, <1>d, <1>e, <2>2
  <1>j. can_write' \in Int /\ can_read' <= can_read /\ can_read' \in Nat
    <2>1. head' \in Slots
      BY <1>0, <1>c DEF TypeOK
    <2>2. can_write' = Capacity - can_read'
      BY <1>e, <2>1, RoomAfter
    <2> QED
      BY <1>b, <1>d, <1>e, <2>2
  <1>1. TypeOK'
    BY <1>0, <1>c, <1>e, <1>h DEF TypeOK
  <1>2. PlayerFollowsPc'
    BY <1>0, <1>c DEF PlayerFollowsPc
  <1>3. CallbackIsServed'
    BY <1>0, <1>c DEF CallbackIsServed, Chunk
  <1>4. JobFits'
    <2>1. pc' \in {"write", "silence"} => job'.count <= can_write'
      <3>1. job.count \in Nat
        BY <1>0, JobTypes
      <3> QED
        BY <1>0, <1>b, <1>c, <1>i, <1>j, <3>1 DEF JobFits
    <2> QED
      BY <1>0, <1>c, <2>1 DEF JobFits
  <1>5. RingIsInOrder'
    BY <1>0, <1>d, <1>e, <1>f, <1>h, OrderDrops
  <1>6. LevelFollowsPc'
    <2>1. PlayerFollowsPc /\ pc # "open"
      BY <1>0, <1>c DEF PlayerFollowsPc
    <2>2. Most \in Nat /\ job.count \in Nat
      BY <1>0, JobTypes, Limits
    <2>3. /\ pc \in {"idle", "convert", "finish"} => can_read' <= Most
          /\ pc = "silence" => can_read' + job.count <= Most
      BY <1>0, <1>b, <1>j, <2>2 DEF LevelFollowsPc
    <2> QED
      BY <1>0, <1>c, <2>1, <2>3 DEF LevelFollowsPc
  <1> QED
    BY <1>0, <1>c, <1>1, <1>2, <1>3, <1>4, <1>5, <1>6 DEF IInv

-----------------------------------------------------------------------------
(* The theorems.                                                            *)

\* The invariant holds at first: the ring is empty.
LEMMA InitHolds ==
    ASSUME Init
    PROVE  IInv
  <1> USE DEF Init, RegulatorInit
  <1>0. AllocSize \in Nat /\ AllocSize > 1 /\ 0 \in Slots
    BY RingSize
  <1>1. TypeOK
    <2>1. data \in [Slots -> Nat] /\ head \in Slots /\ tail \in Slots
      BY <1>0
    <2>2. job \in [stage : 0 .. 3, input : Nat, samples : Nat, first : Nat,
                    written : Nat, count : Nat, max : Nat, played : BOOLEAN]
      BY DEF NoJob
    <2> QED
      BY <2>1, <2>2 DEF TypeOK
  <1>2. can_read = 0
    <2>1. AllocSize + 0 - 0 = AllocSize /\ AllocSize % AllocSize = 0
      BY <1>0
    <2> QED
      BY <2>1 DEF can_read
  <1>3. PlayerFollowsPc /\ CallbackIsServed /\ JobFits
    BY DEF PlayerFollowsPc, CallbackIsServed, JobFits, Pushing
  <1>4. RingIsInOrder
    BY <1>2 DEF RingIsInOrder, Newest
  <1>5. LevelFollowsPc
    BY <1>2 DEF LevelFollowsPc
  <1> QED
    BY <1>1, <1>3, <1>4, <1>5 DEF IInv

\* A step that changes nothing.
LEMMA StutterStep ==
    ASSUME IInv, UNCHANGED vars
    PROVE  IInv'
  BY DEF IInv, TypeOK, PlayerFollowsPc, CallbackIsServed, JobFits, RingIsInOrder,
     LevelFollowsPc, Newest, Nth, can_read, can_write, Chunk, vars, regVars, threadVars

\* Every step keeps the invariant.
LEMMA NextHolds ==
    ASSUME IInv, [Next]_vars
    PROVE  IInv'
  <1>1. CASE Open
    BY <1>1, OpenStep
  <1>2. CASE OpenFails
    BY <1>2, OpenFailsStep
  <1>3. CASE Close
    BY <1>3, CloseStep
  <1>4. ASSUME NEW n \in FrameSizes, NEW s \in Resampled(n), NEW d \in BOOLEAN,
               Push(n, s, d)
        PROVE  IInv'
    BY <1>4, PushStep
  <1>5. CASE Discontinuity
    BY <1>5, DiscontinuityStep
  <1>6. CASE Convert
    BY <1>6, ConvertStep
  <1>7. CASE ConvertFails
    BY <1>7, ConvertFailsStep
  <1>8. CASE WriteEnds
    BY <1>8, WriteEndsStep
  <1>9. CASE MakeRoom
    BY <1>9, MakeRoomStep
  <1>10. CASE Limit
    BY <1>10, LimitStep
  <1>11. CASE Skip
    BY <1>11, SkipStep
  <1>12. CASE Finish
    BY <1>12, FinishStep
  <1>13. ASSUME NEW n \in Requests, Callback(n)
         PROVE  IInv'
    BY <1>13, CallbackStep
  <1>14. CASE Pull
    BY <1>14, PullStep
  <1>15. CASE PullEnds
    BY <1>15, PullEndsStep
  <1>16. CASE Silence
    BY <1>16, SilenceStep
  <1>17. CASE Done \/ UNCHANGED vars
    BY <1>17, StutterStep DEF Done
  <1> QED
    BY <1>1, <1>2, <1>3, <1>4, <1>5, <1>6, <1>7, <1>8, <1>9, <1>10, <1>11,
       <1>12, <1>13, <1>14, <1>15, <1>16, <1>17 DEF Next

\* The ring, the two cursors and the locals of both threads agree, whatever
\* the order of the steps of sc_audio_regulator_push() and of the callback.
THEOREM InvariantHolds == Spec => []IInv
  <1>1. Init => IInv
    BY InitHolds
  <1>2. IInv /\ [Next]_vars => IInv'
    BY NextHolds
  <1> QED
    BY <1>1, <1>2, PTL DEF Spec

\* The decoder thread never writes, without the lock, a slot that the callback
\* is copying, and the callback never finds the regulator destroyed: for every
\* size of the ring and of the requests.
THEOREM NoSampleIsTorn == Spec => []NoTornSamples
  <1>1. IInv => NoTornSamples
    <2> SUFFICES ASSUME IInv PROVE NoTornSamples
      OBVIOUS
    <2>1. TypeOK /\ PlayerFollowsPc /\ CallbackIsServed /\ JobFits
      BY DEF IInv
    <2>2. ASSUME pc \in {"write", "silence"}
          PROVE  SlotsOf(head, job.count) \cap SlotsOf(tail, can_read) = {}
      <3>1. job.count \in Nat /\ job.count <= can_write /\ can_read \in Nat
            /\ can_read <= can_read
        BY <2>1, <2>2, JobTypes, RingLevel DEF JobFits
      <3> QED
        BY <2>1, <3>1, Disjoint
    <2>3. ASSUME pc \in {"write", "silence"}, cpc = "locked"
          PROVE  SlotsOf(head, job.count) \cap SlotsOf(tail, got) = {}
      <3>1. job.count \in Nat /\ job.count <= can_write /\ got \in Nat /\ got <= can_read
        BY <2>1, <2>3, JobTypes DEF JobFits, CallbackIsServed, TypeOK
      <3> QED
        BY <2>1, <3>1, Disjoint
    <2>4. cpc # "idle" => alive
      BY <2>1 DEF PlayerFollowsPc
    <2> QED
      BY <2>2, <2>3, <2>4 DEF NoTornSamples
  <1> QED
    BY <1>1, InvariantHolds, PTL

\* Samples are played in the order in which they were pushed and at most once,
\* and none of the assertions of sc_audio_regulator_push() fails: for every
\* size of the ring, of the frames and of the requests.
THEOREM SoundStaysInOrder == Spec => []SoundIsInOrder
  <1>1. IInv => SoundIsInOrder
    <2> SUFFICES ASSUME IInv PROVE SoundIsInOrder
      OBVIOUS
    <2>1. TypeOK /\ JobFits /\ RingIsInOrder /\ ~failed
      BY DEF IInv
    <2>2. Newest \in Nat /\ serial \in Nat /\ Newest <= serial
      <3>1. serial \in Nat /\ job.first \in Nat /\ job.written \in Nat /\ job.samples \in Nat
        BY <2>1, JobTypes DEF TypeOK
      <3>2. CASE pc \in {"write", "full"}
        <4>1. /\ job.written <= job.samples /\ job.first + job.samples = serial + 1
              /\ Newest = job.first + job.written - 1
          BY <2>1, <3>2 DEF JobFits, Newest
        <4>2. Newest <= serial
          BY <3>1, <4>1
        <4> QED
          BY <2>1, <3>1, <4>2, NewestType
      <3>3. CASE pc \notin {"write", "full"}
        BY <3>1, <3>3 DEF Newest
      <3> QED
        BY <3>2, <3>3
    <2>3. ASSUME NEW i \in 1 .. can_read, Nth(i) # 0
          PROVE  /\ last < Nth(i) /\ Nth(i) <= serial
                 /\ \A j \in 1 .. i - 1 : Nth(j) < Nth(i)
      <3>1. /\ last < Nth(i) /\ Nth(i) <= Newest
            /\ \A j \in 1 .. i - 1 : Nth(j) < Nth(i)
        BY <2>1, <2>3 DEF RingIsInOrder
      <3>2. Nth(i) \in Nat
        <4>1. i \in 1 .. Capacity
          BY <2>1, RingLevel
        <4> QED
          BY <2>1, <4>1, RingLevel
      <3>3. Nth(i) <= serial
        BY <2>2, <3>1, <3>2
      <3> QED
        BY <3>1, <3>3
    <2> QED
      BY <2>1, <2>3 DEF SoundIsInOrder
  <1> QED
    BY <1>1, InvariantHolds, PTL

\* Between two frames the ring holds at most the target, a tenth of it and
\* 60 ms, whatever the callback does while the limit is chosen: for every
\* target and rate.
THEOREM LatencyStaysBounded == Spec => []LatencyIsBounded
  <1>1. IInv => LatencyIsBounded
    BY DEF IInv, LevelFollowsPc, LatencyIsBounded, Most
  <1> QED
    BY <1>1, InvariantHolds, PTL

=============================================================================
