--------------------------- MODULE RecorderProofs ---------------------------
(***************************************************************************)
(* Proofs about the recorder, for every set of time stamps, every time     *)
(* base and every number of packets.                                       *)
(***************************************************************************)
EXTENDS Recorder, TLAPS

\* What the thread holds, by where it is.
Shape ==
    /\ pc \in {"file", "header", "hwait"} => \A s \in Streams : pkt[s] = <<>>
    /\ pc \in {"lock", "wait", "write", "last"} =>
         \A s \in Streams : pkt[s] # <<>> => ~pkt[s][1].config
    /\ pc = "write" => origin # <<>>
    /\ prev # <<>> => origin # <<>>
    /\ pc = "last" \/ (pc \in {"clear", "ended"} /\ ok) =>
         stopped /\ \A s \in Streams : pkt[s] = <<>> /\ queue[s] = <<>>
    /\ pc \in {"clear", "ended"} /\ ok => prev = <<>>

\* Nothing is written before there is an origin.
Unstarted == origin = <<>> => \A s \in Streams : last[s] = <<>>

\* A stream that is not recorded, or not open yet, has given nothing.
Quiet ==
    \A s \in Streams :
        /\ ~wants[s] => demuxer[s] = "ended" /\ pkt[s] = <<>> /\ queue[s] = <<>>
        /\ demuxer[s] = "codec" => pkt[s] = <<>> /\ queue[s] = <<>>

\* last_pts is at or after the last packet in the file.
LastIsLast ==
    \A s \in Streams :
        written[s] # <<>> => last[s] # <<>> /\ written[s][Len(written[s])].pts <= last[s][1]

\* The packets of s that left its queue, the one kept back included ...
Done(s) == Len(written[s]) + IF s = "video" THEN Len(prev) ELSE 0

\* ... and with the one the thread holds.
Out(s) == Done(s) + Len(Media(s))

\* The queue q holds, with config packets in between, the packets out + 1 to
\* acc, in order.
Holds(q, out, acc) ==
    /\ out <= acc
    /\ \A i \in 1 .. Len(q) : ~q[i].config => out < q[i].n /\ q[i].n <= acc
    /\ \A i, j \in 1 .. Len(q) :
         i < j /\ ~q[i].config /\ ~q[j].config => q[i].n < q[j].n
    /\ \A m \in Nat : out < m /\ m <= acc =>
         \E i \in 1 .. Len(q) : ~q[i].config /\ q[i].n = m

\* The packets with a time stamp are numbered one after the other from the
\* file over prev and pkt to the end of the queue.
Numbered(s) ==
    /\ \A i \in 1 .. Len(written[s]) : written[s][i].n = i
    /\ s = "video" /\ prev # <<>> => prev[1].n = Len(written[s]) + 1
    /\ Media(s) # <<>> => Media(s)[1].n = Done(s) + 1
    /\ Holds(queue[s], Out(s), accepted[s])

\* ... as long as nothing was lost to a failure.
Complete == ok /\ ~io => \A s \in Streams : Numbered(s)

\* The first packet of each stream is at or after the origin, which was set
\* with one of every stream at hand.
Waiting(s) ==
    \/ s = "video" /\ prev # <<>> /\ prev[1].pts >= 0
    \/ pc = "write" /\ pkt[s] # <<>> /\ pkt[s][1].pts >= origin[1] /\ (s = "video" => prev = <<>>)

Origins ==
    ~stopped /\ pc # "clear" /\ origin # <<>> =>
        \A s \in Streams : wants[s] /\ written[s] = <<>> => last[s] = <<>> /\ Waiting(s)

IInv ==
    /\ TypeOK /\ Shape /\ Unstarted /\ Quiet /\ NoLostWakeup /\ LastIsLast
    /\ PtsIncrease /\ Complete /\ Origins /\ NoStreamStartsEarly

-----------------------------------------------------------------------------
(* The operators of the model.                                              *)

\* Rounding to the time base of the file gives a time, and a time from the
\* origin on stays one.
LEMMA RescaledIsTime ==
    ASSUME NEW t \in Int
    PROVE  Rescaled(t) \in Int /\ (t >= 0 => Rescaled(t) >= 0)
  <1>1. TimeBase \in Nat /\ TimeBase > 0
    BY TimeBaseAssumption
  <1>2. ASSUME NEW a \in Nat, NEW b \in Nat, b > 0 PROVE a \div b \in Nat
    BY <1>2
  <1>3. 2 * TimeBase \in Nat /\ 2 * TimeBase > 0
    BY <1>1
  <1>4. CASE t >= 0
    <2>1. 2 * t + TimeBase \in Nat
      BY <1>1, <1>4
    <2>2. (2 * t + TimeBase) \div (2 * TimeBase) \in Nat
      BY <1>2, <1>3, <2>1
    <2> QED
      BY <1>4, <2>2 DEF Rescaled
  <1>5. CASE ~(t >= 0)
    <2>1. 2 * (-t) + TimeBase \in Nat
      BY <1>1, <1>5
    <2>2. (2 * (-t) + TimeBase) \div (2 * TimeBase) \in Nat
      BY <1>2, <1>3, <2>1
    <2> QED
      BY <1>5, <2>2 DEF Rescaled
  <1> QED
    BY <1>4, <1>5

\* The elements of a sequence.
LEMMA SeqElements ==
    ASSUME NEW T, NEW q \in Seq(T)
    PROVE  /\ Len(q) \in Nat /\ (q = <<>> <=> Len(q) = 0)
           /\ \A i \in 1 .. Len(q) : q[i] \in T
           /\ q # <<>> => /\ q[1] \in T /\ Head(q) = q[1] /\ Tail(q) \in Seq(T)
                          /\ Len(Tail(q)) = Len(q) - 1
                          /\ \A i \in 1 .. Len(q) - 1 : Tail(q)[i] = q[i + 1]
  OBVIOUS

\* The time stamp a packet is written with is above last_pts.
LEMMA FixedIsLater ==
    ASSUME TypeOK, NEW s \in Streams, NEW t \in Int
    PROVE  /\ Fixed(s, t) \in Int
           /\ last[s] # <<>> => last[s][1] \in Int /\ last[s][1] < Fixed(s, t)
           /\ last[s] = <<>> => Fixed(s, t) = t
  <1>1. last[s] \in Seq(Int)
    BY DEF TypeOK
  <1>2. last[s] # <<>> => last[s][1] \in Int
    BY <1>1, SeqElements
  <1> QED
    BY <1>2 DEF Fixed

\* What writing a packet does to its stream.
LEMMA PacketIsMuxed ==
    ASSUME TypeOK, NEW p \in [Streams -> Seq(AnyPacket)], NEW F, Muxed(p, F),
           NEW s \in Streams, p[s] # <<>>
    PROVE  \E t \in Int :
              /\ t = Fixed(s, Rescaled(p[s][1].pts))
              /\ last'[s] = <<t>>
              /\ p[s][1].n \in Nat
              /\ written'[s] = IF s \in F THEN written[s]
                               ELSE Append(written[s], [n |-> p[s][1].n, pts |-> t])
  <1> DEFINE at(x) == Fixed(x, Rescaled(p[x][1].pts))
  <1>1. /\ last' = [x \in Streams |-> IF p[x] = <<>> THEN last[x] ELSE <<at(x)>>]
        /\ written' = [x \in Streams |-> IF p[x] = <<>> \/ x \in F THEN written[x]
                         ELSE Append(written[x], [n |-> p[x][1].n, pts |-> at(x)])]
    BY DEF Muxed
  <1>2. at(s) \in Int /\ p[s][1].n \in Nat
    <2>1. p[s][1] \in AnyPacket
      BY SeqElements
    <2>2. p[s][1].pts \in Int /\ p[s][1].n \in Nat
      BY <2>1 DEF AnyPacket
    <2>3. Rescaled(p[s][1].pts) \in Int
      BY <2>2, RescaledIsTime
    <2> QED
      BY <2>2, <2>3, FixedIsLater
  <1>3. at(s) = Fixed(s, Rescaled(p[s][1].pts))
    OBVIOUS
  <1> HIDE DEF at
  <1>4. /\ last'[s] = <<at(s)>>
        /\ written'[s] = IF s \in F THEN written[s]
                         ELSE Append(written[s], [n |-> p[s][1].n, pts |-> at(s)])
    BY <1>1
  <1> QED
    BY <1>2, <1>3, <1>4, Zenon

\* What writing the packets p does to each stream.
LEMMA MuxedWrites ==
    ASSUME TypeOK, NEW p \in [Streams -> Seq(AnyPacket)], NEW F, Muxed(p, F)
    PROVE  /\ last' \in [Streams -> Seq(Int)]
           /\ written' \in [Streams -> Seq([n : Nat, pts : Int])]
           /\ \A s \in Streams : Len(last'[s]) <= 1
           /\ \A s \in Streams :
                /\ p[s] = <<>> => last'[s] = last[s] /\ written'[s] = written[s]
                /\ p[s] # <<>> =>
                     \E t \in Int :
                        /\ t = Fixed(s, Rescaled(p[s][1].pts))
                        /\ last'[s] = <<t>>
                        /\ p[s][1].n \in Nat
                        /\ written'[s] = IF s \in F THEN written[s]
                                         ELSE Append(written[s], [n |-> p[s][1].n, pts |-> t])
  <1> DEFINE at(s) == Fixed(s, Rescaled(p[s][1].pts))
  <1>1. /\ last' = [s \in Streams |-> IF p[s] = <<>> THEN last[s] ELSE <<at(s)>>]
        /\ written' = [s \in Streams |-> IF p[s] = <<>> \/ s \in F THEN written[s]
                         ELSE Append(written[s], [n |-> p[s][1].n, pts |-> at(s)])]
    BY DEF Muxed
  <1>2. ASSUME NEW s \in Streams, p[s] # <<>>
        PROVE  at(s) \in Int /\ p[s][1].n \in Nat
    <2>1. p[s][1] \in AnyPacket
      BY <1>2, SeqElements
    <2>2. p[s][1].pts \in Int /\ p[s][1].n \in Nat
      BY <2>1 DEF AnyPacket
    <2>3. Rescaled(p[s][1].pts) \in Int
      BY <2>2, RescaledIsTime
    <2> QED
      BY <2>2, <2>3, FixedIsLater
  <1> HIDE DEF at
  <1>3. \A s \in Streams : last[s] \in Seq(Int) /\ written[s] \in Seq([n : Nat, pts : Int])
    BY DEF TypeOK
  <1>4. last' \in [Streams -> Seq(Int)]
    BY <1>1, <1>2, <1>3
  <1>5. written' \in [Streams -> Seq([n : Nat, pts : Int])]
    <2>1. ASSUME NEW s \in Streams, p[s] # <<>>
          PROVE  Append(written[s], [n |-> p[s][1].n, pts |-> at(s)]) \in Seq([n : Nat, pts : Int])
      BY <1>2, <1>3, <2>1
    <2> QED
      BY <1>1, <1>3, <2>1
  <1>6. ASSUME NEW s \in Streams, p[s] = <<>>
        PROVE  last'[s] = last[s] /\ written'[s] = written[s]
    BY <1>1, <1>6
  <1>7. ASSUME NEW s \in Streams, p[s] # <<>>
        PROVE  /\ last'[s] = <<at(s)>>
               /\ written'[s] = IF s \in F THEN written[s]
                                ELSE Append(written[s], [n |-> p[s][1].n, pts |-> at(s)])
    BY <1>1, <1>7
  <1>8. \A s \in Streams : at(s) = Fixed(s, Rescaled(p[s][1].pts))
    BY DEF at
  <1>9. ASSUME NEW s \in Streams PROVE Len(last'[s]) <= 1
    <2>1. Len(last[s]) <= 1
      BY DEF TypeOK
    <2>2. p[s] # <<>> => Len(<<at(s)>>) <= 1
      BY <1>2
    <2> QED
      BY <1>6, <1>7, <2>1, <2>2
  <1> QED
    BY <1>2, <1>4, <1>5, <1>6, <1>7, <1>8, <1>9

\* What taking a packet of each stream in S does.
LEMMA PoppedTakes ==
    ASSUME TypeOK, NEW S, \A s \in S \cap Streams : queue[s] # <<>>, Popped(S)
    PROVE  /\ pkt' \in [Streams -> Seq(AnyPacket)] /\ queue' \in [Streams -> Seq(AnyPacket)]
           /\ \A s \in Streams :
                /\ s \in S => /\ pkt'[s] = <<queue[s][1]>> /\ queue'[s] = Tail(queue[s])
                              /\ queue[s][1] \in AnyPacket /\ Len(pkt'[s]) <= 1 /\ pkt'[s] # <<>>
                /\ s \notin S => pkt'[s] = pkt[s] /\ queue'[s] = queue[s]
  <1>1. \A s \in Streams : queue[s] \in Seq(AnyPacket) /\ pkt[s] \in Seq(AnyPacket)
    BY DEF TypeOK
  <1>2. \A s \in S \cap Streams : /\ Head(queue[s]) = queue[s][1] /\ queue[s][1] \in AnyPacket
                                  /\ Tail(queue[s]) \in Seq(AnyPacket)
    BY <1>1, SeqElements
  <1>3. /\ pkt' = [s \in Streams |-> IF s \in S THEN <<Head(queue[s])>> ELSE pkt[s]]
        /\ queue' = [s \in Streams |-> IF s \in S THEN Tail(queue[s]) ELSE queue[s]]
    BY DEF Popped
  <1>4. \A s \in Streams :
          /\ s \in S => pkt'[s] = <<queue[s][1]>> /\ queue'[s] = Tail(queue[s])
          /\ s \notin S => pkt'[s] = pkt[s] /\ queue'[s] = queue[s]
    BY <1>2, <1>3
  <1>5. ASSUME NEW s \in S \cap Streams
        PROVE  /\ <<queue[s][1]>> \in Seq(AnyPacket) /\ Len(<<queue[s][1]>>) <= 1
               /\ <<queue[s][1]>> # <<>>
    BY <1>2
  <1> QED
    BY <1>1, <1>2, <1>3, <1>4, <1>5

\* What is left of the packets at hand without config packets.
LEMMA MediaIsPacket ==
    ASSUME TypeOK, NEW s \in Streams
    PROVE  /\ Media(s) \in Seq(AnyPacket) /\ Len(Media(s)) <= 1
           /\ Media(s) # <<>> => Media(s) = pkt[s] /\ ~pkt[s][1].config
  <1>1. pkt[s] \in Seq(AnyPacket) /\ Len(pkt[s]) <= 1
    BY DEF TypeOK
  <1> QED
    BY <1>1 DEF Media

\* The time stamps from the origin.
LEMMA ShiftedIsPacket ==
    ASSUME TypeOK, origin # <<>>, NEW p \in Seq(AnyPacket), Len(p) <= 1
    PROVE  /\ Shifted(p) \in Seq(AnyPacket) /\ Len(Shifted(p)) <= 1 /\ origin[1] \in Int
           /\ p = <<>> => Shifted(p) = <<>>
           /\ p # <<>> => /\ Shifted(p) # <<>> /\ Len(Shifted(p)) = 1 /\ p[1].pts \in Int
                          /\ Shifted(p)[1].pts = p[1].pts - origin[1]
                          /\ Shifted(p)[1].n = p[1].n /\ Shifted(p)[1].config = p[1].config
  <1>1. origin[1] \in Int
    BY SeqElements DEF TypeOK
  <1>2. CASE p = <<>>
    BY <1>1, <1>2 DEF Shifted
  <1>3. CASE p # <<>>
    <2> DEFINE r == [p[1] EXCEPT !.pts = @ - origin[1]]
    <2>1. p[1] \in [n : Nat, pts : Int, config : BOOLEAN]
      BY <1>3, SeqElements DEF AnyPacket
    <2>2. p[1].pts \in Int
      BY <2>1
    <2>3. p[1].pts - origin[1] \in Int
      BY <1>1, <2>2
    <2>4. r \in AnyPacket /\ r.pts = p[1].pts - origin[1] /\ r.n = p[1].n /\ r.config = p[1].config
      BY <2>1, <2>3 DEF AnyPacket
    <2>5. Shifted(p) = <<r>>
      BY <1>3 DEF Shifted
    <2> HIDE DEF r
    <2>6. <<r>> \in Seq(AnyPacket) /\ Len(<<r>>) = 1 /\ <<r>>[1] = r /\ <<r>> # <<>>
      BY <2>4
    <2> QED
      BY <1>1, <1>3, <2>2, <2>4, <2>5, <2>6
  <1> QED
    BY <1>2, <1>3

\* The origin of time, if the packets at hand give one.
LEMMA StartIsTime ==
    ASSUME TypeOK, Start(Media("video"), Media("audio")) # <<>>
    PROVE  /\ Start(Media("video"), Media("audio")) \in Seq(Int)
           /\ Len(Start(Media("video"), Media("audio"))) <= 1
  <1> DEFINE v == Media("video")
             a == Media("audio")
  <1>1. \A p \in {v, a} : p # <<>> => p[1].pts \in Int
    <2>1. ASSUME NEW s \in Streams, Media(s) # <<>> PROVE Media(s)[1].pts \in Int
      <3>1. Media(s) \in Seq(AnyPacket)
        BY MediaIsPacket
      <3>2. Media(s)[1] \in AnyPacket
        BY <2>1, <3>1, SeqElements
      <3> QED
        BY <3>2 DEF AnyPacket
    <2> QED
      BY <2>1 DEF Streams
  <1>2. \A p \in {v, a} : First(p) # <<>> => First(p) \in Seq(Int) /\ Len(First(p)) <= 1
    BY <1>1 DEF First
  <1>3. v # <<>> /\ a # <<>> => /\ <<MIN(v[1].pts, a[1].pts)>> \in Seq(Int)
                                /\ Len(<<MIN(v[1].pts, a[1].pts)>>) <= 1
    BY <1>1 DEF MIN
  <1>4. wants["audio"] \in BOOLEAN /\ wants["video"] \in BOOLEAN
    BY DEF TypeOK, Streams
  <1> HIDE DEF v, a
  <1>5. Start(v, a) # <<>> => Start(v, a) \in Seq(Int) /\ Len(Start(v, a)) <= 1
    BY <1>2, <1>3, <1>4 DEF Start
  <1> QED
    BY <1>5 DEF v, a

\* A pair of packets, one of each stream.
LEMMA PairIsPackets ==
    ASSUME NEW v \in Seq(AnyPacket), NEW a \in Seq(AnyPacket)
    PROVE  /\ Pair(v, a) \in [Streams -> Seq(AnyPacket)]
           /\ Pair(v, a)["video"] = v /\ Pair(v, a)["audio"] = a
  BY DEF Pair, Streams

\* What the signal does to the recorder thread.
LEMMA SignalWakes ==
    ASSUME TypeOK, Signal
    PROVE  /\ pc' \notin {"hwait", "wait"}
           /\ pc' \in {"file", "header", "hwait", "config", "lock", "wait", "taken", "write",
                       "last", "clear", "ended"}
           /\ pc = "hwait" => pc' = "header"
           /\ pc = "wait" => pc' = "lock"
           /\ pc \notin {"hwait", "wait"} => pc' = pc
  BY DEF TypeOK, Signal

-----------------------------------------------------------------------------
(* Types.                                                                   *)

\* The recorder starts with well-typed variables.
LEMMA InitTyped == Init => TypeOK
  <1> SUFFICES ASSUME Init PROVE TypeOK
    OBVIOUS
  <1>1. <<>> \in Seq(AnyPacket) /\ <<>> \in Seq(Int) /\ <<>> \in Seq(Nat)
        /\ <<>> \in Seq([n : Nat, pts : Int]) /\ Len(<<>>) = 0
    OBVIOUS
  <1>2. /\ init \in [Streams -> BOOLEAN] /\ expects \in [Streams -> BOOLEAN]
        /\ wants \in [Streams -> BOOLEAN] /\ stopped \in BOOLEAN /\ ok \in BOOLEAN
        /\ quit \in BOOLEAN /\ io \in BOOLEAN
    BY DEF Init, Each
  <1>3. /\ queue \in [Streams -> Seq(AnyPacket)] /\ pkt \in [Streams -> Seq(AnyPacket)]
        /\ last \in [Streams -> Seq(Int)] /\ written \in [Streams -> Seq([n : Nat, pts : Int])]
        /\ \A s \in Streams : last[s] = <<>> /\ pkt[s] = <<>>
    BY <1>1 DEF Init, Each
  <1>4. /\ given \in [Streams -> Nat] /\ accepted \in [Streams -> Nat]
        /\ demuxer \in [Streams -> {"codec", "open", "ended"}]
    BY DEF Init, Each
  <1> QED
    <2>1. /\ prev \in Seq(AnyPacket) /\ Len(prev) <= 1 /\ origin \in Seq(Int) /\ Len(origin) <= 1
          /\ \A s \in Streams : Len(last[s]) <= 1 /\ Len(pkt[s]) <= 1
      BY <1>1, <1>3 DEF Init
    <2>2. pc = "file" /\ main = "run"
      BY DEF Init
    <2> QED
      BY <1>2, <1>3, <1>4, <2>1, <2>2 DEF TypeOK

\* Each step keeps the types, if the thread holds what it should.
LEMMA StepTyped == TypeOK /\ Shape /\ [Next]_vars => TypeOK'
  <1> SUFFICES ASSUME TypeOK, Shape, [Next]_vars PROVE TypeOK'
    OBVIOUS
  <1> USE DEF sharedVars, fileVars, localVars, threadVars, historyVars
  <1>1. ASSUME NEW s \in Streams, DemuxerFails(s) PROVE TypeOK'
    <2>1. quit' \in BOOLEAN
      BY <1>1 DEF DemuxerFails, DemuxerEnds
    <2> QED
      BY <1>1, <2>1 DEF DemuxerFails, DemuxerEnds, TypeOK
  <1>2. ASSUME NEW s \in Streams, SinkOpens(s) PROVE TypeOK'
    <2>1. init' \in [Streams -> BOOLEAN] /\ expects' \in [Streams -> BOOLEAN]
      BY <1>2 DEF SinkOpens, TypeOK
    <2> QED
      BY <1>2, <2>1, SignalWakes DEF SinkOpens, TypeOK
  <1>3. ASSUME NEW s \in Streams, SinkCloses(s) PROVE TypeOK'
    <2>1. quit' \in BOOLEAN /\ stopped' \in BOOLEAN
      BY <1>3 DEF SinkCloses, DemuxerEnds
    <2> QED
      BY <1>3, <2>1, SignalWakes DEF SinkCloses, DemuxerEnds, TypeOK
  <1>4. ASSUME NEW s \in Streams, NEW p \in Packets(s), SinkPushes(s, p) PROVE TypeOK'
    <2>1. p \in AnyPacket
      <3>1. accepted[s] + 1 \in Nat
        BY DEF TypeOK
      <3>2. CASE p \in [n : {0}, pts : {0}, config : {TRUE} \cap {expects[s]}]
        BY <3>2 DEF AnyPacket
      <3>3. CASE p \in [n : {accepted[s] + 1}, pts : Pts, config : {FALSE}]
        <4>1. Pts \subseteq Int
          BY PtsAssumption
        <4> QED
          BY <3>1, <3>3, <4>1 DEF AnyPacket
      <3> QED
        BY <3>2, <3>3 DEF Packets
    <2>2. queue' \in [Streams -> Seq(AnyPacket)]
      <3>1. queue \in [Streams -> Seq(AnyPacket)]
        BY DEF TypeOK
      <3>2. Append(queue[s], p) \in Seq(AnyPacket)
        BY <2>1, <3>1
      <3> QED
        BY <1>4, <3>1, <3>2 DEF SinkPushes
    <2>3. given' \in [Streams -> Nat] /\ accepted' \in [Streams -> Nat]
      BY <1>4 DEF SinkPushes, TypeOK
    <2> QED
      BY <1>4, <2>2, <2>3, SignalWakes DEF SinkPushes, TypeOK
  <1>5. CASE AudioDisabled
    <2>1. /\ wants' \in [Streams -> BOOLEAN] /\ init' \in [Streams -> BOOLEAN]
          /\ quit' \in BOOLEAN
      BY <1>5 DEF AudioDisabled, TypeOK
    <2> QED
      BY <1>5, <2>1, SignalWakes DEF AudioDisabled, TypeOK
  <1>6. CASE sc_recorder_stop
    <2>1. stopped' \in BOOLEAN
      BY <1>6 DEF sc_recorder_stop
    <2> QED
      BY <1>6, <2>1, SignalWakes DEF sc_recorder_stop, TypeOK
  <1>7. CASE sc_recorder_join
    BY <1>7 DEF sc_recorder_join, TypeOK
  <1>8. CASE OpenFile
    <2>1. ok' \in BOOLEAN /\ io' \in BOOLEAN
      BY <1>8 DEF OpenFile, TypeOK
    <2> QED
      BY <1>8, <2>1 DEF OpenFile, TypeOK
  <1>9. CASE HeaderWaits
    BY <1>9 DEF HeaderWaits, TypeOK
  <1>10. CASE HeaderGivesUp
    <2>1. ok' \in BOOLEAN
      BY <1>10 DEF HeaderGivesUp
    <2> QED
      BY <1>10, <2>1 DEF HeaderGivesUp, TypeOK
  <1>11. ASSUME NEW S, \A s \in S \cap Streams : queue[s] # <<>>, Popped(S)
         PROVE  /\ pkt' \in [Streams -> Seq(AnyPacket)] /\ queue' \in [Streams -> Seq(AnyPacket)]
                /\ \A s \in Streams : Len(pkt'[s]) <= 1
    <2>1. \A s \in Streams : Len(pkt[s]) <= 1
      BY DEF TypeOK
    <2> QED
      <3>1. /\ pkt' \in [Streams -> Seq(AnyPacket)] /\ queue' \in [Streams -> Seq(AnyPacket)]
            /\ \A s \in Streams : s \in S => Len(pkt'[s]) <= 1
            /\ \A s \in Streams : s \notin S => pkt'[s] = pkt[s]
        BY <1>11, PoppedTakes
      <3> QED
        BY <2>1, <3>1
  <1>12. CASE HeaderTakes
    <2>1. Popped({s \in Streams : expects[s] /\ queue[s] # <<>>})
      BY <1>12 DEF HeaderTakes
    <2>2. /\ pkt' \in [Streams -> Seq(AnyPacket)] /\ queue' \in [Streams -> Seq(AnyPacket)]
          /\ \A s \in Streams : Len(pkt'[s]) <= 1
      BY <1>11, <2>1
    <2> QED
      BY <1>12, <2>2 DEF HeaderTakes, TypeOK
  <1>13. Each(<<>>) \in [Streams -> Seq(AnyPacket)] /\ \A s \in Streams : Len(Each(<<>>)[s]) = 0
    BY DEF Each
  <1>14. CASE HeaderWritten
    <2>1. ok' \in BOOLEAN /\ io' \in BOOLEAN
      BY <1>14 DEF HeaderWritten, TypeOK
    <2>2. /\ pkt' \in [Streams -> Seq(AnyPacket)] /\ \A s \in Streams : Len(pkt'[s]) <= 1
          /\ pc' \in {"lock", "clear"}
      BY <1>13, <1>14 DEF HeaderWritten
    <2> QED
      BY <1>14, <2>1, <2>2 DEF HeaderWritten, TypeOK
  <1>15. CASE PacketsWait
    BY <1>15 DEF PacketsWait, TypeOK
  <1>16. CASE PacketsTake
    <2>1. /\ Popped(Takeable) /\ \A s \in Takeable \cap Streams : queue[s] # <<>>
          /\ pc' \in {"last", "taken"}
      BY <1>16 DEF PacketsTake, Takeable
    <2>2. /\ pkt' \in [Streams -> Seq(AnyPacket)] /\ queue' \in [Streams -> Seq(AnyPacket)]
          /\ \A s \in Streams : Len(pkt'[s]) <= 1
      BY <1>11, <2>1
    <2> QED
      BY <1>16, <2>1, <2>2 DEF PacketsTake, TypeOK
  <1>17. CASE Origin
    <2>1. pkt' = [s \in Streams |-> Media(s)]
      BY <1>17 DEF Origin
    <2>2. pkt' \in [Streams -> Seq(AnyPacket)] /\ \A s \in Streams : Len(pkt'[s]) <= 1
      BY <2>1, MediaIsPacket
    <2>3. ok' \in BOOLEAN
      BY <1>17 DEF Origin, TypeOK
    <2>4. ASSUME Start(Media("video"), Media("audio")) # <<>>
          PROVE  /\ Start(Media("video"), Media("audio")) \in Seq(Int)
                 /\ Len(Start(Media("video"), Media("audio"))) <= 1
      BY <2>4, StartIsTime, Zenon
    <2>5. origin' \in Seq(Int) /\ Len(origin') <= 1
      <3> DEFINE start == Start(Media("video"), Media("audio"))
      <3>1. origin' = origin \/ (start # <<>> /\ origin' = start)
        BY <1>17 DEF Origin
      <3>2. start # <<>> => start \in Seq(Int) /\ Len(start) <= 1
        BY <2>4
      <3> HIDE DEF start
      <3>3. origin \in Seq(Int) /\ Len(origin) <= 1
        BY DEF TypeOK
      <3> QED
        BY <3>1, <3>2, <3>3
    <2>6. pc' \in {"write", "clear", "lock"}
      BY <1>17 DEF Origin
    <2> QED
      BY <1>17, <2>2, <2>3, <2>5, <2>6 DEF Origin, TypeOK
  <1>18. CASE Write
    <2> DEFINE v == IF pkt["video"] = <<>> THEN <<>> ELSE prev
               a == Shifted(pkt["audio"])
    <2>1. origin # <<>> /\ \A s \in Streams : pkt[s] \in Seq(AnyPacket) /\ Len(pkt[s]) <= 1
      BY <1>18 DEF Write, Shape, TypeOK
    <2>2. a \in Seq(AnyPacket) /\ Shifted(pkt["video"]) \in Seq(AnyPacket)
          /\ Len(Shifted(pkt["video"])) <= 1
      BY <2>1, ShiftedIsPacket DEF Streams
    <2>3. v \in Seq(AnyPacket) /\ <<>> \in Seq(AnyPacket)
      BY DEF TypeOK
    <2>4. /\ \/ Muxed(Pair(v, a), {})
             \/ Muxed(Pair(v, <<>>), {"video"})
             \/ Muxed(Pair(v, a), {"audio"})
          /\ pc' \in {"lock", "clear"}
      BY <1>18 DEF Write
    <2> HIDE DEF v, a
    <2>5. PICK p \in [Streams -> Seq(AnyPacket)] : \E F : Muxed(p, F)
      BY <2>2, <2>3, <2>4, PairIsPackets
    <2>6. /\ last' \in [Streams -> Seq(Int)] /\ written' \in [Streams -> Seq([n : Nat, pts : Int])]
          /\ \A s \in Streams : Len(last'[s]) <= 1
      <3>1. PICK F : Muxed(p, F)
        BY <2>5
      <3> QED
        BY <3>1, MuxedWrites
    <2>8. prev' \in Seq(AnyPacket) /\ Len(prev') <= 1
      BY <1>18, <2>2 DEF Write, TypeOK
    <2>9. pkt' \in [Streams -> Seq(AnyPacket)] /\ \A s \in Streams : Len(pkt'[s]) <= 1
      BY <1>13, <1>18 DEF Write
    <2>10. ok' \in BOOLEAN /\ io' \in BOOLEAN
      BY <1>18 DEF Write, TypeOK
    <2> QED
      BY <1>18, <2>4, <2>6, <2>8, <2>9, <2>10 DEF Write, TypeOK
  <1>19. CASE WriteLast
    <2>1. prev \in Seq(AnyPacket) /\ <<>> \in Seq(AnyPacket)
      BY DEF TypeOK
    <2>2. PICK p \in [Streams -> Seq(AnyPacket)] : \E F : Muxed(p, F)
      BY <1>19, <2>1, PairIsPackets DEF WriteLast
    <2>3. /\ last' \in [Streams -> Seq(Int)] /\ written' \in [Streams -> Seq([n : Nat, pts : Int])]
          /\ \A s \in Streams : Len(last'[s]) <= 1
      <3>1. PICK F : Muxed(p, F)
        BY <2>2
      <3> QED
        BY <3>1, MuxedWrites
    <2>5. prev' \in Seq(AnyPacket) /\ Len(prev') <= 1
      BY <1>19 DEF WriteLast
    <2>6. ok' \in BOOLEAN /\ io' \in BOOLEAN
      BY <1>19 DEF WriteLast, TypeOK
    <2> QED
      BY <1>19, <2>3, <2>5, <2>6 DEF WriteLast, TypeOK
  <1>20. CASE Clear
    <2>1. stopped' \in BOOLEAN /\ quit' \in BOOLEAN
      BY <1>20 DEF Clear
    <2>2. queue' \in [Streams -> Seq(AnyPacket)]
      BY <1>13, <1>20 DEF Clear
    <2> QED
      BY <1>20, <2>1, <2>2 DEF Clear, TypeOK
  <1>21. CASE UNCHANGED vars
    BY <1>21 DEF vars, TypeOK
  <1> QED
    BY <1>1, <1>2, <1>3, <1>4, <1>5, <1>6, <1>7, <1>8, <1>9, <1>10, <1>12, <1>14, <1>15, <1>16,
       <1>17, <1>18, <1>19, <1>20, <1>21 DEF Next, Demuxer, Thread

-----------------------------------------------------------------------------
(* What the thread holds, and its sleep.                                    *)

\* The demuxers and the main thread leave the locals of the recorder alone;
\* they move it only by a signal.
Outside ==
    \/ \E s \in Streams : Demuxer(s)
    \/ AudioDisabled \/ sc_recorder_stop \/ sc_recorder_join

\* Their effect on what the recorder thread works with.
LEMMA OutsideKeeps ==
    ASSUME TypeOK, Outside
    PROVE  /\ UNCHANGED <<fileVars, localVars>>
           /\ pc' = pc \/ Signal
           /\ stopped => stopped' /\ queue' = queue /\ UNCHANGED accepted
           /\ \A s \in Streams : queue[s] # <<>> => queue'[s] # <<>>
  <1> USE DEF sharedVars, fileVars, localVars, threadVars, historyVars
  <1>1. ASSUME NEW s \in Streams, NEW p \in Packets(s), SinkPushes(s, p)
        PROVE  \A t \in Streams : queue[t] # <<>> => queue'[t] # <<>>
    <2>1. queue \in [Streams -> Seq(AnyPacket)]
      BY DEF TypeOK
    <2>2. Append(queue[s], p) # <<>>
      BY <2>1
    <2> QED
      BY <1>1, <2>1, <2>2 DEF SinkPushes
  <1>2. ASSUME NEW s \in Streams, Demuxer(s)
        PROVE  /\ UNCHANGED <<fileVars, localVars>>
               /\ pc' = pc \/ Signal
               /\ stopped => stopped' /\ queue' = queue /\ UNCHANGED accepted
               /\ \A t \in Streams : queue[t] # <<>> => queue'[t] # <<>>
    BY <1>1, <1>2 DEF Demuxer, DemuxerFails, DemuxerEnds, SinkOpens, SinkCloses, SinkPushes
  <1>3. CASE sc_recorder_join
    BY <1>3 DEF sc_recorder_join
  <1>5. CASE AudioDisabled
    <2>1. /\ Signal /\ UNCHANGED <<last, written, pkt, prev, origin, ok, io>>
          /\ UNCHANGED <<stopped, queue, accepted>>
      BY <1>5 DEF AudioDisabled
    <2> QED
      BY <2>1
  <1>4. CASE sc_recorder_stop
    BY <1>4 DEF sc_recorder_stop
  <1> QED
    BY <1>2, <1>3, <1>4, <1>5 DEF Outside

\* Next, by who moves.
LEMMA NextIsEither == [Next]_vars <=> Outside \/ Thread \/ UNCHANGED vars
  BY DEF Next, Outside

\* Every step keeps what the thread holds where it is.
LEMMA StepShape == TypeOK /\ Shape /\ [Next]_vars => Shape'
  <1> SUFFICES ASSUME TypeOK, Shape, [Next]_vars PROVE Shape'
    OBVIOUS
  <1> USE DEF sharedVars, fileVars, localVars, threadVars, historyVars
  <1>1. CASE Outside
    <2>1. /\ pkt' = pkt /\ prev' = prev /\ origin' = origin /\ ok' = ok
          /\ pc' = pc \/ Signal
          /\ stopped => stopped' /\ queue' = queue
      BY <1>1, OutsideKeeps
    <2>2. pc' = pc \/ (pc = "hwait" /\ pc' = "header") \/ (pc = "wait" /\ pc' = "lock")
      BY <2>1, SignalWakes
    <2> QED
      BY <2>1, <2>2 DEF Shape
  <1>2. CASE UNCHANGED vars
    BY <1>2 DEF vars, Shape
  <1>3. CASE OpenFile
    BY <1>3 DEF OpenFile, Shape
  <1>4. CASE HeaderWaits \/ PacketsWait
    BY <1>4 DEF HeaderWaits, PacketsWait, Shape
  <1>5. CASE HeaderGivesUp
    BY <1>5 DEF HeaderGivesUp, Shape
  <1>6. CASE HeaderTakes
    BY <1>6 DEF HeaderTakes, Shape
  <1>7. \A s \in Streams : Each(<<>>)[s] = <<>>
    BY DEF Each
  <1>8. CASE HeaderWritten
    BY <1>7, <1>8 DEF HeaderWritten, Shape
  <1>9. CASE PacketsTake
    <2>1. /\ Popped(Takeable) /\ \A s \in Takeable \cap Streams : queue[s] # <<>>
      BY <1>9 DEF PacketsTake, Takeable
    <2>2. /\ pc' = "last" => \A s \in Streams : pkt'[s] = <<>>
          /\ pc' \in {"last", "taken"} /\ stopped' = stopped /\ prev' = prev /\ origin' = origin
          /\ stopped \/ \E s \in Takeable : wants[s]
      BY <1>9 DEF PacketsTake
    <2>3. ASSUME pc' = "last" PROVE \A s \in Streams : s \notin Takeable
      <3>1. SUFFICES ASSUME NEW s \in Streams, s \in Takeable PROVE FALSE
        OBVIOUS
      <3>2. pkt'[s] # <<>>
        BY <2>1, <3>1, PoppedTakes
      <3> QED
        BY <2>2, <2>3, <3>2
    <2>4. ASSUME pc' = "last"
          PROVE  stopped' /\ \A s \in Streams : pkt'[s] = <<>> /\ queue'[s] = <<>>
      <3>1. \A s \in Streams : pkt'[s] = pkt[s] /\ queue'[s] = queue[s]
        BY <2>1, <2>3, <2>4, PoppedTakes
      <3>2. \A s \in Streams : queue[s] = <<>>
        BY <2>2, <2>3, <2>4, <3>1 DEF Takeable
      <3>3. stopped
        BY <2>2, <2>3, <2>4 DEF Takeable
      <3> QED
        BY <2>2, <2>4, <3>1, <3>2, <3>3
    <2> QED
      BY <2>2, <2>4 DEF Shape
  <1>10. CASE Origin
    <2>1. /\ pkt' = [s \in Streams |-> Media(s)]
          /\ pc' \in {"write", "clear", "lock"} /\ (pc' = "write" => origin' # <<>>)
          /\ (pc' = "clear" => ~ok') /\ (origin # <<>> => origin' # <<>>)
          /\ prev' = prev
      BY <1>10 DEF Origin
    <2>2. \A s \in Streams : pkt'[s] # <<>> => ~pkt'[s][1].config
      BY <2>1, MediaIsPacket
    <2> QED
      BY <2>1, <2>2 DEF Shape
  <1>11. CASE Write
    <2>1. /\ pkt' = Each(<<>>) /\ pc' \in {"lock", "clear"} /\ (pc' = "clear" => ~ok')
          /\ origin' = origin /\ origin # <<>>
      BY <1>11 DEF Write, Shape
    <2> QED
      BY <1>7, <2>1 DEF Shape
  <1>12. CASE WriteLast
    <2>1. /\ pc = "last" /\ pc' = "clear" /\ prev' = <<>> /\ pkt' = pkt /\ queue' = queue
          /\ stopped' = stopped
      BY <1>12 DEF WriteLast
    <2>2. ok' \in {ok, FALSE}
      BY <1>12 DEF WriteLast
    <2>3. ok' => ok
      BY <2>2
    <2> QED
      BY <2>1, <2>3 DEF Shape
  <1>13. CASE Clear
    <2>1. /\ pc = "clear" /\ pc' = "ended" /\ stopped' = TRUE /\ queue' = Each(<<>>)
          /\ pkt' = pkt /\ prev' = prev /\ origin' = origin /\ ok' = ok
      BY <1>13 DEF Clear
    <2> QED
      BY <1>7, <2>1 DEF Shape
  <1> QED
    BY <1>1, <1>2, <1>3, <1>4, <1>5, <1>6, <1>8, <1>9, <1>10, <1>11, <1>12, <1>13, NextIsEither
    DEF Thread

\* A stream that is disabled, or not open, gives nothing in any step.
LEMMA StepQuiet == TypeOK /\ Quiet /\ [Next]_vars => Quiet'
  <1> SUFFICES ASSUME TypeOK, Quiet, [Next]_vars PROVE Quiet'
    OBVIOUS
  <1> USE DEF sharedVars, fileVars, localVars, threadVars, historyVars
  <1>1. /\ wants \in [Streams -> BOOLEAN] /\ demuxer \in [Streams -> {"codec", "open", "ended"}]
        /\ queue \in [Streams -> Seq(AnyPacket)]
    BY DEF TypeOK
  <1>2. CASE Outside
    <2>1. pkt' = pkt
      BY <1>2, OutsideKeeps
    <2>2. ASSUME NEW s \in Streams, NEW p \in Packets(s), SinkPushes(s, p) PROVE Quiet'
      BY <1>1, <2>1, <2>2 DEF SinkPushes, Quiet
    <2>3. ASSUME NEW s \in Streams, DemuxerFails(s) \/ SinkCloses(s) PROVE Quiet'
      BY <1>1, <2>1, <2>3 DEF DemuxerFails, SinkCloses, DemuxerEnds, Quiet
    <2>4. ASSUME NEW s \in Streams, SinkOpens(s) PROVE Quiet'
      BY <1>1, <2>1, <2>4 DEF SinkOpens, Quiet
    <2>5. CASE AudioDisabled
      <3>1. /\ \A s \in Streams : queue'[s] = queue[s] /\ pkt'[s] = pkt[s]
            /\ \A s \in Streams \ {"audio"} : wants'[s] = wants[s] /\ demuxer'[s] = demuxer[s]
            /\ demuxer["audio"] = "codec" /\ demuxer'["audio"] = "ended"
        BY <1>1, <2>1, <2>5 DEF AudioDisabled, Streams
      <3> QED
        BY <3>1 DEF Quiet
    <2>6. CASE sc_recorder_stop \/ sc_recorder_join
      BY <2>1, <2>6 DEF sc_recorder_stop, sc_recorder_join, Quiet
    <2> QED
      BY <1>2, <2>2, <2>3, <2>4, <2>5, <2>6 DEF Outside, Demuxer
  <1>3. ASSUME wants' = wants, demuxer' = demuxer,
               \A s \in Streams : pkt[s] = <<>> /\ queue[s] = <<>> => pkt'[s] = <<>> /\ queue'[s] = <<>>
        PROVE  Quiet'
    BY <1>3 DEF Quiet
  <1>4. \A s \in Streams : Each(<<>>)[s] = <<>>
    BY DEF Each
  <1>5. CASE UNCHANGED vars
    BY <1>3, <1>5 DEF vars
  <1>6. CASE OpenFile \/ HeaderWaits \/ HeaderGivesUp \/ PacketsWait \/ WriteLast
    BY <1>3, <1>6 DEF OpenFile, HeaderWaits, HeaderGivesUp, PacketsWait, WriteLast
  <1>7. CASE HeaderTakes
    <2>1. Popped({s \in Streams : expects[s] /\ queue[s] # <<>>})
      BY <1>7 DEF HeaderTakes
    <2>2. wants' = wants /\ demuxer' = demuxer
      BY <1>7 DEF HeaderTakes
    <2> QED
      BY <1>3, <2>1, <2>2 DEF Popped
  <1>8. CASE PacketsTake
    <2>1. Popped(Takeable) /\ wants' = wants /\ demuxer' = demuxer
      BY <1>8 DEF PacketsTake
    <2> QED
      BY <1>3, <2>1 DEF Popped, Takeable
  <1>9. CASE HeaderWritten \/ Write \/ Clear
    BY <1>3, <1>4, <1>9 DEF HeaderWritten, Write, Clear
  <1>10. CASE Origin
    BY <1>3, <1>10 DEF Origin, Media
  <1> QED
    BY <1>2, <1>5, <1>6, <1>7, <1>8, <1>9, <1>10, NextIsEither DEF Thread

\* Who gives the recorder thread something to do also signals it.
LEMMA StepWakes == TypeOK /\ NoLostWakeup /\ [Next]_vars => NoLostWakeup'
  <1> SUFFICES ASSUME TypeOK, NoLostWakeup, [Next]_vars PROVE NoLostWakeup'
    OBVIOUS
  <1> USE DEF sharedVars, fileVars, localVars, threadVars, historyVars
  <1>1. ASSUME Signal PROVE NoLostWakeup'
    BY <1>1, SignalWakes DEF NoLostWakeup
  <1>2. ASSUME UNCHANGED <<sharedVars, pkt, pc>> PROVE NoLostWakeup'
    BY <1>2 DEF NoLostWakeup, MustWait, Takeable
  <1>3. CASE Outside
    <2>1. UNCHANGED pkt
      BY <1>3, OutsideKeeps
    <2> QED
      BY <1>1, <1>2, <1>3, <2>1 DEF Outside, Demuxer, DemuxerFails, SinkOpens, SinkCloses,
         SinkPushes, AudioDisabled, sc_recorder_stop, sc_recorder_join
  <1>4. CASE UNCHANGED vars
    BY <1>2, <1>4 DEF vars
  <1>5. CASE HeaderWaits
    BY <1>5 DEF HeaderWaits, NoLostWakeup, MustWait, Takeable
  <1>6. CASE PacketsWait
    BY <1>6 DEF PacketsWait, NoLostWakeup, MustWait, Takeable
  <1>7. ASSUME pc' \notin {"hwait", "wait"} PROVE NoLostWakeup'
    BY <1>7 DEF NoLostWakeup
  <1>8. CASE OpenFile \/ HeaderGivesUp \/ HeaderTakes \/ HeaderWritten
    BY <1>7, <1>8 DEF OpenFile, HeaderGivesUp, HeaderTakes, HeaderWritten
  <1>9. CASE PacketsTake \/ Origin \/ Write \/ WriteLast \/ Clear
    BY <1>7, <1>9 DEF PacketsTake, Origin, Write, WriteLast, Clear
  <1> QED
    BY <1>3, <1>4, <1>5, <1>6, <1>8, <1>9, NextIsEither DEF Thread

-----------------------------------------------------------------------------
(* Time stamps.                                                             *)

\* The steps that write to the file.
LEMMA OnlyWritesWrite ==
    ASSUME TypeOK, [Next]_vars
    PROVE  (UNCHANGED <<last, written>>) \/ Write \/ WriteLast
  <1> USE DEF sharedVars, fileVars, localVars, threadVars, historyVars
  <1>1. CASE Outside
    BY <1>1, OutsideKeeps
  <1>2. CASE UNCHANGED vars
    BY <1>2 DEF vars
  <1>3. CASE Thread
    BY <1>3 DEF Thread, OpenFile, HeaderWaits, HeaderGivesUp, HeaderTakes, HeaderWritten,
       PacketsWait, PacketsTake, Origin, Clear
  <1> QED
    BY <1>1, <1>2, <1>3, NextIsEither

\* Both write what they write in the same way.
LEMMA WritesAreMuxed ==
    ASSUME TypeOK, Shape, Write \/ WriteLast
    PROVE  \E p \in [Streams -> Seq(AnyPacket)], F \in SUBSET Streams : Muxed(p, F)
  <1>1. CASE Write
    <2> DEFINE v == IF pkt["video"] = <<>> THEN <<>> ELSE prev
               a == Shifted(pkt["audio"])
    <2>1. origin # <<>> /\ \A s \in Streams : pkt[s] \in Seq(AnyPacket) /\ Len(pkt[s]) <= 1
      BY <1>1 DEF Write, Shape, TypeOK
    <2>2. a \in Seq(AnyPacket)
      BY <2>1, ShiftedIsPacket DEF Streams
    <2>3. v \in Seq(AnyPacket) /\ <<>> \in Seq(AnyPacket)
      BY DEF TypeOK
    <2>4. \/ Muxed(Pair(v, a), {})
          \/ Muxed(Pair(v, <<>>), {"video"})
          \/ Muxed(Pair(v, a), {"audio"})
      BY <1>1 DEF Write
    <2>5. {} \in SUBSET Streams /\ {"video"} \in SUBSET Streams /\ {"audio"} \in SUBSET Streams
      BY DEF Streams
    <2> HIDE DEF v, a
    <2> QED
      BY <2>2, <2>3, <2>4, <2>5, PairIsPackets
  <1>2. CASE WriteLast
    <2>1. prev \in Seq(AnyPacket) /\ <<>> \in Seq(AnyPacket)
      BY DEF TypeOK
    <2>2. Muxed(Pair(prev, <<>>), {}) \/ Muxed(Pair(prev, <<>>), {"video"})
      BY <1>2 DEF WriteLast
    <2>3. {} \in SUBSET Streams /\ {"video"} \in SUBSET Streams
      BY DEF Streams
    <2> QED
      BY <2>1, <2>2, <2>3, PairIsPackets
  <1> QED
    BY <1>1, <1>2

\* A packet is written after last_pts, which is after all packets before.
LEMMA StepIncreases ==
    TypeOK /\ Shape /\ LastIsLast /\ PtsIncrease /\ [Next]_vars => LastIsLast' /\ PtsIncrease'
  <1> SUFFICES ASSUME TypeOK, Shape, LastIsLast, PtsIncrease, [Next]_vars
               PROVE  LastIsLast' /\ PtsIncrease'
    OBVIOUS
  <1>1. CASE UNCHANGED <<last, written>>
    BY <1>1 DEF LastIsLast, PtsIncrease
  <1>2. CASE Write \/ WriteLast
    <2>1. PICK p \in [Streams -> Seq(AnyPacket)], F \in SUBSET Streams : Muxed(p, F)
      BY <1>2, WritesAreMuxed
    <2>2. ASSUME NEW s \in Streams
          PROVE  /\ written'[s] # <<>> =>
                      last'[s] # <<>> /\ written'[s][Len(written'[s])].pts <= last'[s][1]
                 /\ \A i \in 1 .. Len(written'[s]) - 1 :
                      written'[s][i].pts < written'[s][i + 1].pts
      <3> DEFINE w == written[s]
      <3>1. /\ w \in Seq([n : Nat, pts : Int])
            /\ w # <<>> => last[s] # <<>> /\ w[Len(w)].pts <= last[s][1]
            /\ \A i \in 1 .. Len(w) - 1 : w[i].pts < w[i + 1].pts
        BY DEF TypeOK, LastIsLast, PtsIncrease
      <3>2. /\ Len(w) \in Nat /\ (w = <<>> <=> Len(w) = 0)
            /\ \A i \in 1 .. Len(w) : w[i] \in [n : Nat, pts : Int]
        BY <3>1, SeqElements
      <3>3. CASE p[s] = <<>>
        <4>1. last'[s] = last[s] /\ written'[s] = w
          BY <2>1, <3>3, MuxedWrites
        <4> QED
          BY <3>1, <4>1
      <3>4. CASE p[s] # <<>>
        <4>1. PICK t \in Int :
                /\ t = Fixed(s, Rescaled(p[s][1].pts))
                /\ last'[s] = <<t>>
                /\ p[s][1].n \in Nat
                /\ written'[s] = IF s \in F THEN written[s]
                                 ELSE Append(written[s], [n |-> p[s][1].n, pts |-> t])
          <5>1. Muxed(p, F)
            BY <2>1
          <5> HIDE DEF w
          <5> QED
            BY <3>4, <5>1, PacketIsMuxed
        <4>2. p[s][1] \in AnyPacket
          BY <3>4, SeqElements
        <4>3. Rescaled(p[s][1].pts) \in Int
          BY <4>2, RescaledIsTime DEF AnyPacket
        <4>4. last[s] # <<>> => last[s][1] \in Int /\ last[s][1] < t
          BY <4>1, <4>3, FixedIsLater
        <4>5. last'[s] # <<>> /\ last'[s][1] = t
          BY <4>1
        <4>6. w # <<>> => w[Len(w)].pts \in Int /\ w[Len(w)].pts < t
          <5>1. SUFFICES ASSUME w # <<>> PROVE w[Len(w)].pts \in Int /\ w[Len(w)].pts < t
            OBVIOUS
          <5>2. Len(w) \in 1 .. Len(w)
            BY <3>2, <5>1
          <5>3. w[Len(w)] \in [n : Nat, pts : Int]
            BY <3>2, <5>2
          <5>4. w[Len(w)].pts \in Int
            BY <5>3
          <5> HIDE DEF w
          <5> QED
            BY <3>1, <4>4, <5>1, <5>4
        <4> DEFINE e == [n |-> p[s][1].n, pts |-> t]
        <4>7. e \in [n : Nat, pts : Int] /\ e.pts = t
          BY <4>1
        <4> HIDE DEF w, e
        <4>8. CASE s \in F
          BY <3>1, <4>1, <4>5, <4>6, <4>8 DEF w
        <4>9. CASE s \notin F
          <5>1. written'[s] = Append(w, e)
            BY <4>1, <4>9 DEF e, w
          <5>2. /\ Len(written'[s]) = Len(w) + 1 /\ written'[s][Len(w) + 1] = e
                /\ \A i \in 1 .. Len(w) : written'[s][i] = w[i]
            BY <3>1, <4>7, <5>1
          <5>3. ASSUME NEW i \in 1 .. Len(w) PROVE written'[s][i].pts < written'[s][i + 1].pts
            <6>1. CASE i = Len(w)
              BY <3>2, <4>6, <4>7, <5>2, <6>1
            <6>2. CASE i # Len(w)
              <7>1. i \in 1 .. Len(w) - 1 /\ i + 1 \in 1 .. Len(w)
                BY <3>2, <6>2
              <7> QED
                BY <3>1, <5>2, <7>1
            <6> QED
              BY <6>1, <6>2
          <5> QED
            BY <3>2, <4>5, <4>7, <5>2, <5>3
        <4> QED
          BY <4>8, <4>9
      <3> QED
        BY <3>3, <3>4
    <2> QED
      BY <2>2 DEF LastIsLast, PtsIncrease
  <1> QED
    BY <1>1, <1>2, OnlyWritesWrite

\* Nothing is written before the origin is known.
LEMMA StepUnstarted == TypeOK /\ Shape /\ Unstarted /\ [Next]_vars => Unstarted'
  <1> SUFFICES ASSUME TypeOK, Shape, Unstarted, [Next]_vars, origin' = <<>>
               PROVE  \A s \in Streams : last'[s] = <<>>
    BY DEF Unstarted
  <1> USE DEF sharedVars, fileVars, localVars, threadVars, historyVars
  <1>1. origin = <<>>
    <2>1. CASE Outside
      BY <2>1, OutsideKeeps
    <2>2. CASE UNCHANGED vars
      BY <2>2 DEF vars
    <2>3. CASE Origin
      BY <2>3 DEF Origin
    <2>4. CASE Thread /\ ~Origin
      BY <2>4 DEF Thread, OpenFile, HeaderWaits, HeaderGivesUp, HeaderTakes, HeaderWritten,
         PacketsWait, PacketsTake, Write, WriteLast, Clear
    <2> QED
      BY <2>1, <2>2, <2>3, <2>4, NextIsEither
  <1>2. \A s \in Streams : last[s] = <<>>
    BY <1>1 DEF Unstarted
  <1>3. CASE UNCHANGED <<last, written>>
    BY <1>2, <1>3
  <1>4. CASE Write
    BY <1>1, <1>4 DEF Write, Shape
  <1>5. CASE WriteLast
    <2>1. prev = <<>>
      BY <1>1 DEF Shape
    <2>2. /\ <<>> \in Seq(AnyPacket)
          /\ Muxed(Pair(<<>>, <<>>), {}) \/ Muxed(Pair(<<>>, <<>>), {"video"})
      BY <1>5, <2>1 DEF WriteLast
    <2>3. /\ Pair(<<>>, <<>>) \in [Streams -> Seq(AnyPacket)]
          /\ \A s \in Streams : Pair(<<>>, <<>>)[s] = <<>>
      BY <2>2, PairIsPackets DEF Pair
    <2>4. \A s \in Streams : last'[s] = last[s]
      BY <2>2, <2>3, MuxedWrites
    <2> QED
      BY <1>2, <2>4
  <1> QED
    BY <1>3, <1>4, <1>5, OnlyWritesWrite

-----------------------------------------------------------------------------
(* Completeness.                                                            *)

\* A packet at the end of the queue.
LEMMA AppendHolds ==
    ASSUME NEW q \in Seq(AnyPacket), NEW out \in Nat, NEW acc \in Nat, NEW p \in AnyPacket,
           Holds(q, out, acc), ~p.config => p.n = acc + 1
    PROVE  Holds(Append(q, p), out, IF p.config THEN acc ELSE acc + 1)
  <1> DEFINE r == Append(q, p)
             top == IF p.config THEN acc ELSE acc + 1
  <1>1. /\ Len(q) \in Nat /\ Len(r) = Len(q) + 1 /\ r[Len(q) + 1] = p
        /\ \A i \in 1 .. Len(q) : r[i] = q[i] /\ q[i] \in AnyPacket
    OBVIOUS
  <1>2. \A i \in 1 .. Len(r) : i \in 1 .. Len(q) \/ i = Len(q) + 1
    BY <1>1
  <1>3. \A i \in 1 .. Len(q) : q[i].n \in Nat
    BY <1>1 DEF AnyPacket
  <1> HIDE DEF r
  <1>4. out <= top /\ acc <= top /\ top \in Nat
    BY DEF Holds
  <1>5. ASSUME NEW i \in 1 .. Len(r), ~r[i].config PROVE out < r[i].n /\ r[i].n <= top
    BY <1>1, <1>2, <1>3, <1>5 DEF Holds
  <1>6. ASSUME NEW i \in 1 .. Len(r), NEW j \in 1 .. Len(r), i < j, ~r[i].config, ~r[j].config
        PROVE  r[i].n < r[j].n
    <2>1. i \in 1 .. Len(q)
      BY <1>1, <1>2, <1>6
    <2>2. CASE j \in 1 .. Len(q)
      BY <1>1, <1>6, <2>1, <2>2 DEF Holds
    <2>3. CASE j = Len(q) + 1
      <3>1. r[i].n <= acc /\ r[i].n \in Nat
        BY <1>1, <1>3, <1>6, <2>1 DEF Holds
      <3>2. r[j].n = acc + 1
        BY <1>1, <1>6, <2>3
      <3> QED
        BY <3>1, <3>2
    <2> QED
      BY <1>2, <2>2, <2>3
  <1>7. ASSUME NEW m \in Nat, out < m, m <= top
        PROVE  \E i \in 1 .. Len(r) : ~r[i].config /\ r[i].n = m
    <2>1. CASE m <= acc
      <3>1. PICK i \in 1 .. Len(q) : ~q[i].config /\ q[i].n = m
        BY <1>7, <2>1 DEF Holds
      <3> QED
        BY <1>1, <3>1
    <2>2. CASE ~(m <= acc)
      <3>1. ~p.config /\ m = acc + 1
        BY <1>7, <2>2
      <3> QED
        BY <1>1, <3>1
    <2> QED
      BY <2>1, <2>2
  <1>8. Holds(r, out, top)
    BY <1>4, <1>5, <1>6, <1>7 DEF Holds
  <1> QED
    BY <1>8 DEF r

\* A packet from the head of the queue.
LEMMA TailHolds ==
    ASSUME NEW q \in Seq(AnyPacket), NEW out \in Nat, NEW acc \in Nat, q # <<>>,
           Holds(q, out, acc)
    PROVE  /\ ~q[1].config => q[1].n = out + 1
           /\ Holds(Tail(q), IF q[1].config THEN out ELSE out + 1, acc)
  <1> DEFINE r == Tail(q)
             bottom == IF q[1].config THEN out ELSE out + 1
  <1>1. /\ Len(q) \in Nat /\ Len(q) > 0 /\ Len(r) = Len(q) - 1
        /\ \A i \in 1 .. Len(q) : q[i] \in AnyPacket
        /\ \A i \in 1 .. Len(q) - 1 : r[i] = q[i + 1]
    BY SeqElements
  <1>2. \A i \in 1 .. Len(r) : i + 1 \in 1 .. Len(q) /\ 1 < i + 1 /\ r[i] = q[i + 1]
    BY <1>1
  <1>3. \A i \in 1 .. Len(q) : q[i].n \in Nat
    BY <1>1 DEF AnyPacket
  <1>4. 1 \in 1 .. Len(q)
    BY <1>1
  <1> HIDE DEF r
  <1>5. ~q[1].config => q[1].n = out + 1
    <2>1. SUFFICES ASSUME ~q[1].config PROVE q[1].n = out + 1
      OBVIOUS
    <2>2. out < q[1].n /\ q[1].n <= acc /\ q[1].n \in Nat
      BY <1>3, <1>4, <2>1 DEF Holds
    <2>3. PICK i \in 1 .. Len(q) : ~q[i].config /\ q[i].n = out + 1
      <3>1. out + 1 \in Nat /\ out < out + 1 /\ out + 1 <= acc
        BY <2>2
      <3> QED
        BY <3>1 DEF Holds
    <2>4. CASE i = 1
      BY <2>3, <2>4
    <2>5. CASE 1 < i
      <3>1. q[1].n < q[i].n
        BY <1>4, <2>1, <2>3, <2>5 DEF Holds
      <3> QED
        BY <2>2, <2>3, <3>1
    <2> QED
      BY <2>4, <2>5
  <1>6. bottom <= acc /\ bottom \in Nat
    <2>1. CASE q[1].config
      BY <2>1 DEF Holds
    <2>2. CASE ~q[1].config
      <3>1. q[1].n <= acc
        BY <1>4, <2>2 DEF Holds
      <3> QED
        BY <1>5, <2>2, <3>1
    <2> QED
      BY <2>1, <2>2
  <1>7. ASSUME NEW i \in 1 .. Len(r), ~r[i].config PROVE bottom < r[i].n /\ r[i].n <= acc
    <2>1. out < q[i + 1].n /\ q[i + 1].n <= acc /\ q[i + 1].n \in Nat
      BY <1>2, <1>3, <1>7 DEF Holds
    <2>2. ~q[1].config => q[1].n < q[i + 1].n
      BY <1>2, <1>4, <1>7 DEF Holds
    <2> QED
      BY <1>2, <1>5, <2>1, <2>2
  <1>8. ASSUME NEW i \in 1 .. Len(r), NEW j \in 1 .. Len(r), i < j, ~r[i].config, ~r[j].config
        PROVE  r[i].n < r[j].n
    <2>1. /\ i + 1 \in 1 .. Len(q) /\ j + 1 \in 1 .. Len(q) /\ i + 1 < j + 1
          /\ r[i] = q[i + 1] /\ r[j] = q[j + 1]
      BY <1>2, <1>8
    <2> QED
      BY <1>8, <2>1 DEF Holds
  <1>9. ASSUME NEW m \in Nat, bottom < m, m <= acc
        PROVE  \E i \in 1 .. Len(r) : ~r[i].config /\ r[i].n = m
    <2>1. PICK i \in 1 .. Len(q) : ~q[i].config /\ q[i].n = m
      <3>1. out < m
        BY <1>9
      <3> QED
        BY <1>9, <3>1 DEF Holds
    <2>2. i # 1
      BY <1>5, <1>9, <2>1
    <2>3. i - 1 \in 1 .. Len(r) /\ r[i - 1] = q[i]
      BY <1>1, <1>2, <2>2
    <2> QED
      BY <2>1, <2>3
  <1>10. Holds(r, bottom, acc)
    BY <1>6, <1>7, <1>8, <1>9 DEF Holds
  <1> QED
    BY <1>5, <1>10 DEF r

\* The counts are numbers.
LEMMA CountsAreNumbers ==
    ASSUME TypeOK, NEW s \in Streams
    PROVE  /\ Len(written[s]) \in Nat /\ Len(prev) \in Nat /\ Len(Media(s)) \in Nat
           /\ Done(s) \in Nat /\ Out(s) \in Nat /\ accepted[s] \in Nat
           /\ prev # <<>> => Len(prev) = 1 /\ prev[1] \in AnyPacket
           /\ prev = <<>> => Len(prev) = 0
           /\ Media(s) # <<>> => Len(Media(s)) = 1 /\ Media(s)[1] \in AnyPacket
           /\ Media(s) = <<>> => Len(Media(s)) = 0
  <1>1. /\ written[s] \in Seq([n : Nat, pts : Int]) /\ prev \in Seq(AnyPacket) /\ Len(prev) <= 1
        /\ accepted[s] \in Nat
    BY DEF TypeOK
  <1>2. Media(s) \in Seq(AnyPacket) /\ Len(Media(s)) <= 1
    BY MediaIsPacket
  <1>3. ASSUME NEW q \in Seq(AnyPacket), Len(q) <= 1
        PROVE  /\ Len(q) \in Nat
               /\ q # <<>> => Len(q) = 1 /\ q[1] \in AnyPacket
               /\ q = <<>> => Len(q) = 0
    <2>1. /\ Len(q) \in Nat /\ (q = <<>> <=> Len(q) = 0)
          /\ q # <<>> => q[1] \in AnyPacket
      BY SeqElements
    <2>2. ASSUME NEW l \in Nat, l <= 1 PROVE l = 0 \/ l = 1
      BY <2>2
    <2>3. Len(q) = 0 \/ Len(q) = 1
      BY <1>3, <2>1, <2>2
    <2> QED
      BY <2>1, <2>3
  <1>4. /\ Len(prev) \in Nat
        /\ prev # <<>> => Len(prev) = 1 /\ prev[1] \in AnyPacket
        /\ prev = <<>> => Len(prev) = 0
    BY <1>1, <1>3
  <1>5. /\ Len(Media(s)) \in Nat
        /\ Media(s) # <<>> => Len(Media(s)) = 1 /\ Media(s)[1] \in AnyPacket
        /\ Media(s) = <<>> => Len(Media(s)) = 0
    BY <1>2, <1>3
  <1>6. Len(written[s]) \in Nat
    BY <1>1
  <1>7. Done(s) \in Nat
    <2>1. CASE s = "video"
      BY <1>4, <1>6, <2>1 DEF Done
    <2>2. CASE s # "video"
      BY <1>6, <2>2 DEF Done
    <2> QED
      BY <2>1, <2>2
  <1>8. Out(s) \in Nat
    BY <1>5, <1>7 DEF Out
  <1> QED
    BY <1>1, <1>4, <1>5, <1>6, <1>7, <1>8

\* A stream of which nothing moves, but a config packet is dropped.
LEMMA SameNumbers ==
    ASSUME NEW s \in Streams, Numbered(s), written'[s] = written[s], prev' = prev,
           queue'[s] = queue[s], accepted'[s] = accepted[s], Media(s)' = Media(s)
    PROVE  Numbered(s)'
  <1>1. Done(s)' = Done(s)
    BY DEF Done
  <1>2. Out(s)' = Out(s)
    BY <1>1 DEF Out
  <1> QED
    BY <1>1, <1>2 DEF Numbered

\* A stream of which the next packet is taken.
LEMMA PoppedNumbers ==
    ASSUME TypeOK, NEW s \in Streams, Numbered(s), written'[s] = written[s], prev' = prev,
           accepted'[s] = accepted[s], pkt[s] = <<>>, queue[s] # <<>>,
           pkt'[s] = <<queue[s][1]>>, queue'[s] = Tail(queue[s])
    PROVE  Numbered(s)'
  <1>1. Media(s) = <<>> /\ Len(Media(s)) = 0
    BY CountsAreNumbers DEF Media
  <1>2. Done(s) \in Nat /\ Out(s) = Done(s) /\ accepted[s] \in Nat
    BY <1>1, CountsAreNumbers DEF Out
  <1>3. queue[s] \in Seq(AnyPacket)
    BY DEF TypeOK
  <1>4. /\ ~queue[s][1].config => queue[s][1].n = Out(s) + 1
        /\ Holds(queue'[s], IF queue[s][1].config THEN Out(s) ELSE Out(s) + 1, accepted'[s])
    BY <1>2, <1>3, TailHolds DEF Numbered
  <1>5. Done(s)' = Done(s)
    BY DEF Done
  <1>6. pkt'[s] # <<>> /\ pkt'[s][1] = queue[s][1]
    OBVIOUS
  <1>7. CASE queue[s][1].config
    <2>1. Media(s)' = <<>>
      BY <1>6, <1>7 DEF Media
    <2>2. Out(s)' = Out(s)
      BY <1>1, <1>5, <2>1 DEF Out
    <2> QED
      BY <1>4, <1>7, <2>1, <2>2 DEF Numbered
  <1>8. CASE ~queue[s][1].config
    <2>1. Media(s)' = <<queue[s][1]>>
      BY <1>6, <1>8 DEF Media
    <2>2. Len(Media(s)') = 1 /\ Media(s)'[1] = queue[s][1]
      BY <2>1
    <2>3. Out(s)' = Out(s) + 1
      BY <1>2, <1>5, <2>2 DEF Out
    <2> QED
      BY <1>2, <1>4, <1>5, <1>8, <2>2, <2>3 DEF Numbered
  <1> QED
    BY <1>7, <1>8

\* A stream of which packets of Muxed are written: v stands for the one kept
\* back, or the audio packet at hand.
LEMMA AppendNumbers ==
    ASSUME NEW w \in Seq([n : Nat, pts : Int]), \A i \in 1 .. Len(w) : w[i].n = i,
           NEW t \in Int, NEW k \in Nat, k = Len(w) + 1
    PROVE  /\ Len(Append(w, [n |-> k, pts |-> t])) = Len(w) + 1
           /\ \A i \in 1 .. Len(w) + 1 : Append(w, [n |-> k, pts |-> t])[i].n = i
  <1> DEFINE e == [n |-> k, pts |-> t]
             r == Append(w, e)
  <1>1. e \in [n : Nat, pts : Int] /\ e.n = k /\ Len(w) \in Nat
    OBVIOUS
  <1> HIDE DEF e
  <1>2. Len(r) = Len(w) + 1 /\ r[Len(w) + 1] = e /\ \A i \in 1 .. Len(w) : r[i] = w[i]
    BY <1>1
  <1>3. \A i \in 1 .. Len(w) + 1 : i \in 1 .. Len(w) \/ i = Len(w) + 1
    BY <1>1
  <1> HIDE DEF r
  <1>4. \A i \in 1 .. Len(w) + 1 : r[i].n = i
    BY <1>1, <1>2, <1>3
  <1> QED
    BY <1>2, <1>4 DEF r, e

\* The streams that Write writes to.
LEMMA WriteNumbers ==
    ASSUME TypeOK, Shape, Write, ok', ~io', \A s \in Streams : Numbered(s)
    PROVE  \A s \in Streams : Numbered(s)'
  <1> USE DEF sharedVars, fileVars, localVars, threadVars, historyVars
  <1> DEFINE v == IF pkt["video"] = <<>> THEN <<>> ELSE prev
             a == Shifted(pkt["audio"])
  <1>1. /\ origin # <<>> /\ pc = "write"
        /\ \A s \in Streams : /\ pkt[s] \in Seq(AnyPacket) /\ Len(pkt[s]) <= 1
                              /\ pkt[s] # <<>> => ~pkt[s][1].config
    BY DEF Write, Shape, TypeOK
  <1>2. /\ Muxed(Pair(v, a), {})
        /\ prev' = IF pkt["video"] = <<>> THEN prev ELSE Shifted(pkt["video"])
        /\ pkt' = Each(<<>>) /\ queue' = queue /\ accepted' = accepted
    BY DEF Write
  <1>3. \A s \in Streams : Media(s) = pkt[s] /\ Media(s)' = <<>>
    BY <1>1, <1>2 DEF Media, Each
  <1>4. a \in Seq(AnyPacket) /\ v \in Seq(AnyPacket)
    BY <1>1, ShiftedIsPacket DEF Streams, TypeOK
  <1>5. /\ Pair(v, a) \in [Streams -> Seq(AnyPacket)]
        /\ Pair(v, a)["video"] = v /\ Pair(v, a)["audio"] = a
    BY <1>4, PairIsPackets
  <1>6. \A s \in Streams :
          /\ Pair(v, a)[s] = <<>> => written'[s] = written[s]
          /\ Pair(v, a)[s] # <<>> =>
               \E t \in Int : /\ Pair(v, a)[s][1].n \in Nat
                              /\ written'[s] = Append(written[s], [n |-> Pair(v, a)[s][1].n, pts |-> t])
    <2> DEFINE p == Pair(v, a)
    <2>1. Muxed(p, {}) /\ p \in [Streams -> Seq(AnyPacket)]
      BY <1>2, <1>5
    <2> HIDE DEF p
    <2>2. ASSUME NEW s \in Streams
          PROVE  /\ p[s] = <<>> => written'[s] = written[s]
                 /\ p[s] # <<>> =>
                      \E t \in Int : /\ p[s][1].n \in Nat
                                     /\ written'[s] = Append(written[s], [n |-> p[s][1].n, pts |-> t])
      <3>1. CASE p[s] = <<>>
        BY <2>1, <3>1, MuxedWrites
      <3>2. CASE p[s] # <<>>
        <4>1. PICK F : F = {} /\ Muxed(p, F)
          BY <2>1
        <4>2. PICK t \in Int :
                /\ t = Fixed(s, Rescaled(p[s][1].pts))
                /\ last'[s] = <<t>>
                /\ p[s][1].n \in Nat
                /\ written'[s] = IF s \in F THEN written[s]
                                 ELSE Append(written[s], [n |-> p[s][1].n, pts |-> t])
          <5>1. Muxed(p, F) /\ p \in [Streams -> Seq(AnyPacket)]
            BY <2>1, <4>1
          <5> QED
            BY <3>2, <5>1, PacketIsMuxed
        <4> QED
          BY <3>2, <4>1, <4>2
      <3> QED
        BY <3>1, <3>2
    <2> QED
      BY <2>2 DEF p
  <1>7. \A s \in Streams : /\ written[s] \in Seq([n : Nat, pts : Int])
                           /\ \A i \in 1 .. Len(written[s]) : written[s][i].n = i
    BY DEF TypeOK, Numbered
  <1>8. Len(<<>>) = 0
    OBVIOUS
  <1>9. Numbered("audio")'
    <2> DEFINE s == "audio"
    <2>1. s \in Streams
      BY DEF Streams
    <2>2. /\ Done(s) = Len(written[s]) /\ Done(s)' = Len(written'[s]) /\ Out(s)' = Done(s)'
          /\ Out(s) = Len(written[s]) + Len(pkt[s])
          /\ Len(written[s]) \in Nat /\ (pkt[s] = <<>> => Len(pkt[s]) = 0)
          /\ (pkt[s] # <<>> => Len(pkt[s]) = 1 /\ pkt[s][1] \in AnyPacket)
      <3>1. Len(written'[s]) \in Nat
        <4>1. written'[s] = written[s] \/ \E t \in Int, k \in Nat :
                 written'[s] = Append(written[s], [n |-> k, pts |-> t])
          BY <1>6, <2>1
        <4> QED
          BY <1>7, <2>1, <4>1
      <3>2. Done(s) = Len(written[s]) + 0 /\ Done(s)' = Len(written'[s]) + 0
        BY DEF Done
      <3>4. Out(s) = Done(s) + Len(pkt[s]) /\ Out(s)' = Done(s)' + 0
        BY <1>3, <1>8, <2>1 DEF Out
      <3>3. /\ Len(written[s]) \in Nat /\ (pkt[s] = <<>> => Len(pkt[s]) = 0)
            /\ (pkt[s] # <<>> => Len(pkt[s]) = 1 /\ pkt[s][1] \in AnyPacket)
        BY <1>3, <2>1, CountsAreNumbers
      <3> QED
        <4>1. Done(s) = Len(written[s]) /\ Done(s)' = Len(written'[s])
          BY <3>1, <3>2, <3>3
        <4>2. Out(s)' = Done(s)'
          BY <3>1, <3>4, <4>1
        <4> QED
          BY <3>3, <3>4, <4>1, <4>2
    <2>3. CASE pkt[s] = <<>>
      <3>1. written'[s] = written[s]
        BY <1>5, <1>6, <2>1, <2>3 DEF Shifted
      <3>2. Out(s)' = Out(s)
        BY <2>2, <2>3, <3>1
      <3> QED
        BY <1>2, <1>3, <1>7, <2>1, <3>1, <3>2 DEF Numbered
    <2>4. CASE pkt[s] # <<>>
      <3>1. a # <<>> /\ a[1].n = pkt[s][1].n /\ pkt[s][1].n = Len(written[s]) + 1
        BY <1>1, <1>3, <2>1, <2>2, <2>4, ShiftedIsPacket DEF Numbered
      <3>2. PICK t \in Int : written'[s] = Append(written[s], [n |-> Len(written[s]) + 1, pts |-> t])
        <4> HIDE DEF a, v
        <4> QED
          BY <1>5, <1>6, <2>1, <3>1
      <3>3. Len(written'[s]) = Len(written[s]) + 1 /\ \A i \in 1 .. Len(written'[s]) : written'[s][i].n = i
        BY <1>7, <2>1, <2>2, <3>2, AppendNumbers
      <3>4. Out(s)' = Out(s)
        BY <2>2, <2>4, <3>3
      <3> QED
        BY <1>2, <1>3, <2>1, <3>3, <3>4 DEF Numbered
    <2> QED
      BY <2>3, <2>4
  <1>10. Numbered("video")'
    <2> DEFINE s == "video"
    <2>1. s \in Streams
      BY DEF Streams
    <2>2. /\ Len(written[s]) \in Nat /\ Len(prev) \in Nat
          /\ (prev # <<>> => Len(prev) = 1 /\ prev[1] \in AnyPacket /\ prev[1].n = Len(written[s]) + 1)
          /\ (prev = <<>> => Len(prev) = 0)
          /\ (pkt[s] # <<>> => Len(pkt[s]) = 1 /\ pkt[s][1].n = Len(written[s]) + Len(prev) + 1)
          /\ Out(s) = Len(written[s]) + Len(prev) + Len(pkt[s])
      BY <1>3, <2>1, CountsAreNumbers DEF Numbered, Done, Out
    <2>3. CASE pkt[s] = <<>>
      <3>1. written'[s] = written[s] /\ prev' = prev /\ Media(s)' = Media(s)
        BY <1>2, <1>3, <1>5, <1>6, <2>1, <2>3
      <3> QED
        BY <1>2, <2>1, <3>1, SameNumbers
    <2>4. CASE pkt[s] # <<>>
      <3>1. /\ prev' # <<>> /\ Len(prev') = 1 /\ prev'[1].n = Len(written[s]) + Len(prev) + 1
        BY <1>1, <1>2, <2>1, <2>2, <2>4, ShiftedIsPacket
      <3>2. /\ Len(written'[s]) = Len(written[s]) + Len(prev)
            /\ \A i \in 1 .. Len(written'[s]) : written'[s][i].n = i
        <4>1. CASE prev = <<>>
          <5>1. written'[s] = written[s]
            BY <1>5, <1>6, <2>1, <2>4, <4>1
          <5> QED
            BY <1>7, <2>1, <2>2, <4>1, <5>1
        <4>2. CASE prev # <<>>
          <5>1. PICK t \in Int : written'[s] = Append(written[s], [n |-> Len(written[s]) + 1, pts |-> t])
            <6>1. v = prev
              BY <2>4
            <6> HIDE DEF a, v
            <6> QED
              BY <1>5, <1>6, <2>1, <2>2, <4>2, <6>1
          <5>2. /\ Len(written'[s]) = Len(written[s]) + 1
                /\ \A i \in 1 .. Len(written[s]) + 1 : written'[s][i].n = i
            BY <1>7, <2>1, <2>2, <5>1, AppendNumbers
          <5> QED
            BY <2>2, <4>2, <5>2
        <4> QED
          BY <4>1, <4>2
      <3>3. Out(s)' = Out(s)
        <4>1. Out(s)' = (Len(written'[s]) + Len(prev')) + 0
          BY <1>3, <1>8, <2>1 DEF Out, Done
        <4>2. Out(s)' = (Len(written[s]) + Len(prev)) + 1
          BY <2>2, <3>1, <3>2, <4>1
        <4> QED
          BY <2>2, <2>4, <4>2
      <3> QED
        BY <1>2, <1>3, <2>1, <2>2, <3>1, <3>2, <3>3 DEF Numbered
    <2> QED
      BY <2>3, <2>4
  <1> QED
    BY <1>9, <1>10 DEF Streams

\* No step loses, repeats or reorders a packet without a failure.
LEMMA StepComplete == TypeOK /\ Shape /\ Complete /\ [Next]_vars => Complete'
  <1> SUFFICES ASSUME TypeOK, Shape, Complete, [Next]_vars, ok', ~io'
               PROVE  \A s \in Streams : Numbered(s)'
    BY DEF Complete
  <1> USE DEF sharedVars, fileVars, localVars, threadVars, historyVars
  <1>1. ASSUME ok, ~io PROVE \A s \in Streams : Numbered(s)
    BY <1>1 DEF Complete
  <1>2. ASSUME ok' = ok, io' = io PROVE \A s \in Streams : Numbered(s)
    BY <1>1, <1>2
  <1>3. ASSUME UNCHANGED <<written, prev, pkt, queue, accepted, ok, io>>
        PROVE  \A s \in Streams : Numbered(s)'
    <2>1. \A s \in Streams : Media(s)' = Media(s)
      BY <1>3 DEF Media
    <2>2. ASSUME NEW s \in Streams PROVE Numbered(s)'
      BY <1>2, <1>3, <2>1, SameNumbers
    <2> QED
      BY <2>2
  <1>4. CASE UNCHANGED vars
    BY <1>3, <1>4 DEF vars
  <1>5. CASE Outside
    <2>1. UNCHANGED <<written, prev, pkt, ok, io>>
      BY <1>5, OutsideKeeps
    <2>2. ASSUME NEW s \in Streams, NEW p \in Packets(s), SinkPushes(s, p)
          PROVE  \A t \in Streams : Numbered(t)'
      <3>1. \A t \in Streams : /\ Media(t)' = Media(t) /\ Done(t)' = Done(t) /\ Out(t)' = Out(t)
                               /\ Numbered(t)
        BY <1>2, <2>1 DEF Media, Done, Out
      <3>2. /\ queue \in [Streams -> Seq(AnyPacket)] /\ accepted \in [Streams -> Nat]
        BY DEF TypeOK
      <3>3. /\ queue' = [queue EXCEPT ![s] = Append(@, p)]
            /\ accepted' = [accepted EXCEPT ![s] = IF p.config THEN @ ELSE @ + 1]
        BY <2>2 DEF SinkPushes
      <3>4. ASSUME NEW t \in Streams, t # s PROVE Numbered(t)'
        <4>1. queue'[t] = queue[t] /\ accepted'[t] = accepted[t]
          BY <3>2, <3>3, <3>4
        <4> QED
          BY <2>1, <3>1, <4>1, SameNumbers
      <3>5. Numbered(s)'
        <4>1. /\ queue'[s] = Append(queue[s], p)
              /\ accepted'[s] = IF p.config THEN accepted[s] ELSE accepted[s] + 1
          BY <3>2, <3>3
        <4>2. p \in AnyPacket /\ (~p.config => p.n = accepted[s] + 1)
          <5>1. Pts \subseteq Int /\ accepted[s] + 1 \in Nat
            BY <3>2, PtsAssumption
          <5>2. CASE p \in [n : {0}, pts : {0}, config : {TRUE} \cap {expects[s]}]
            BY <5>2 DEF AnyPacket
          <5>3. CASE p \in [n : {accepted[s] + 1}, pts : Pts, config : {FALSE}]
            BY <5>1, <5>3 DEF AnyPacket
          <5> QED
            BY <5>2, <5>3 DEF Packets
        <4>3. Out(s) \in Nat /\ accepted[s] \in Nat /\ queue[s] \in Seq(AnyPacket)
          BY <3>2, CountsAreNumbers
        <4>4. Holds(queue[s], Out(s), accepted[s])
          BY <3>1 DEF Numbered
        <4>5. Holds(queue'[s], Out(s)', accepted'[s])
          BY <3>1, <4>1, <4>2, <4>3, <4>4, AppendHolds
        <4> QED
          BY <2>1, <3>1, <4>5 DEF Numbered
      <3> QED
        BY <3>4, <3>5
    <2>3. CASE UNCHANGED <<queue, accepted>>
      BY <1>3, <2>1, <2>3
    <2> QED
      BY <1>5, <2>2, <2>3 DEF Outside, Demuxer, DemuxerFails, SinkOpens, SinkCloses,
         AudioDisabled, sc_recorder_stop, sc_recorder_join
  <1>6. CASE OpenFile \/ HeaderWaits \/ HeaderGivesUp \/ PacketsWait
    BY <1>3, <1>6 DEF OpenFile, HeaderWaits, HeaderGivesUp, PacketsWait
  <1>7. ASSUME NEW S, Popped(S), \A s \in S \cap Streams : pkt[s] = <<>> /\ queue[s] # <<>>,
               UNCHANGED <<written, prev, accepted, ok, io>>
        PROVE  \A s \in Streams : Numbered(s)'
    <2>1. \A s \in Streams :
            /\ s \in S => pkt'[s] = <<queue[s][1]>> /\ queue'[s] = Tail(queue[s])
            /\ s \notin S => pkt'[s] = pkt[s] /\ queue'[s] = queue[s]
      BY <1>7, PoppedTakes
    <2>2. ASSUME NEW s \in Streams PROVE Numbered(s)'
      <3>1. Numbered(s)
        BY <1>2, <1>7
      <3>2. CASE s \in S
        BY <1>7, <2>1, <3>1, <3>2, PoppedNumbers
      <3>3. CASE s \notin S
        <4>1. Media(s)' = Media(s)
          BY <2>1, <3>3 DEF Media
        <4> QED
          BY <1>7, <2>1, <3>1, <3>3, <4>1, SameNumbers
      <3> QED
        BY <3>2, <3>3
    <2> QED
      BY <2>2
  <1>8. CASE HeaderTakes
    <2>1. /\ Popped({s \in Streams : expects[s] /\ queue[s] # <<>>})
          /\ UNCHANGED <<written, prev, accepted, ok, io>>
          /\ \A s \in Streams : pkt[s] = <<>>
      BY <1>8 DEF HeaderTakes, Shape
    <2> QED
      BY <1>7, <2>1
  <1>9. CASE PacketsTake
    <2>1. /\ Popped(Takeable) /\ UNCHANGED <<written, prev, accepted, ok, io>>
      BY <1>9 DEF PacketsTake
    <2> QED
      BY <1>7, <2>1 DEF Takeable
  <1>10. CASE HeaderWritten
    <2>1. /\ pkt' = Each(<<>>) /\ UNCHANGED <<written, prev, queue, accepted, ok, io>>
          /\ \A s \in Streams : pkt[s] # <<>> => pkt[s][1].config
      BY <1>10 DEF HeaderWritten
    <2>2. \A s \in Streams : Media(s) = <<>> /\ Media(s)' = <<>>
      BY <2>1 DEF Media, Each
    <2>3. ASSUME NEW s \in Streams PROVE Numbered(s)'
      BY <1>2, <2>1, <2>2, SameNumbers
    <2> QED
      BY <2>3
  <1>11. CASE Origin
    <2>1. /\ pkt' = [s \in Streams |-> Media(s)] /\ UNCHANGED <<written, prev, queue, accepted, io>>
          /\ ok' = ok
      BY <1>11 DEF Origin
    <2>2. \A s \in Streams : Media(s)' = Media(s)
      BY <2>1 DEF Media
    <2>3. ASSUME NEW s \in Streams PROVE Numbered(s)'
      BY <1>2, <2>1, <2>2, SameNumbers
    <2> QED
      BY <2>3
  <1>12. CASE Write
    <2>1. ok' = ok /\ io' = io
      BY <1>12 DEF Write
    <2> QED
      BY <1>2, <1>12, <2>1, WriteNumbers
  <1>13. CASE WriteLast
    <2>1. /\ Muxed(Pair(prev, <<>>), {}) /\ prev' = <<>> /\ pc = "last"
          /\ UNCHANGED <<pkt, queue, accepted>> /\ io' = io
      BY <1>13 DEF WriteLast
    <2>2. ok' \in {ok, FALSE}
      BY <1>13 DEF WriteLast
    <2>3. ok
      BY <2>2
    <2>4. \A s \in Streams : /\ Numbered(s) /\ Media(s)' = Media(s)
                             /\ written[s] \in Seq([n : Nat, pts : Int])
                             /\ \A i \in 1 .. Len(written[s]) : written[s][i].n = i
      BY <1>1, <2>1, <2>3 DEF Media, TypeOK, Numbered
    <2>5. prev \in Seq(AnyPacket) /\ <<>> \in Seq(AnyPacket) /\ Len(<<>>) = 0
      BY DEF TypeOK
    <2>6. PICK p \in [Streams -> Seq(AnyPacket)] :
            Muxed(p, {}) /\ p["video"] = prev /\ p["audio"] = <<>>
      BY <2>1, <2>5, PairIsPackets
    <2>7. Numbered("audio")'
      <3>1. written'["audio"] = written["audio"] /\ "audio" \in Streams
        BY <2>6, MuxedWrites DEF Streams
      <3>2. Done("audio")' = Done("audio")
        BY <3>1 DEF Done
      <3>3. Out("audio")' = Out("audio")
        BY <2>4, <3>1, <3>2 DEF Out
      <3> QED
        BY <2>1, <2>4, <3>1, <3>2, <3>3 DEF Numbered
    <2>8. Numbered("video")'
      <3>1. /\ "video" \in Streams /\ Len(written["video"]) \in Nat
            /\ Done("video") = Len(written["video"]) + Len(prev)
            /\ Done("video")' = Len(written'["video"]) + 0
            /\ prev # <<>> => Len(prev) = 1 /\ prev[1].n = Len(written["video"]) + 1
            /\ prev = <<>> => Len(prev) = 0
        BY <2>1, <2>4, <2>5, CountsAreNumbers DEF Done, Streams, Numbered
      <3>2. /\ Len(written'["video"]) = Len(written["video"]) + Len(prev)
            /\ \A i \in 1 .. Len(written'["video"]) : written'["video"][i].n = i
        <4>1. CASE prev = <<>>
          <5>1. written'["video"] = written["video"]
            BY <2>6, <3>1, <4>1, MuxedWrites
          <5> QED
            BY <2>4, <3>1, <4>1, <5>1
        <4>2. CASE prev # <<>>
          <5>1. PICK F : F = {} /\ Muxed(p, F)
            BY <2>6
          <5>2. Muxed(p, F) /\ p["video"] # <<>> /\ "video" \in Streams
            BY <2>6, <3>1, <4>2, <5>1
          <5>3. PICK t \in Int :
                  written'["video"] = IF "video" \in F THEN written["video"]
                       ELSE Append(written["video"], [n |-> p["video"][1].n, pts |-> t])
            BY <5>2, PacketIsMuxed
          <5>4. written'["video"] = Append(written["video"], [n |-> Len(written["video"]) + 1, pts |-> t])
            BY <2>6, <3>1, <4>2, <5>1, <5>3
          <5>5. /\ Len(written'["video"]) = Len(written["video"]) + 1
                /\ \A i \in 1 .. Len(written["video"]) + 1 : written'["video"][i].n = i
            BY <2>4, <3>1, <5>4, AppendNumbers
          <5> QED
            BY <3>1, <4>2, <5>5
        <4> QED
          BY <4>1, <4>2
      <3>3. Done("video")' = Done("video")
        BY <3>1, <3>2
      <3>4. Out("video")' = Out("video")
        BY <2>4, <3>1, <3>3 DEF Out
      <3> QED
        BY <2>1, <2>4, <3>1, <3>2, <3>3, <3>4 DEF Numbered
    <2> QED
      BY <2>7, <2>8 DEF Streams
  <1>14. CASE Clear
    <2>1. /\ pc = "clear" /\ queue' = Each(<<>>) /\ UNCHANGED <<written, prev, pkt, accepted, ok, io>>
      BY <1>14 DEF Clear
    <2>2. \A s \in Streams : queue[s] = <<>> /\ queue'[s] = <<>>
      BY <2>1 DEF Shape, Each
    <2>3. \A s \in Streams : Media(s)' = Media(s)
      BY <2>1 DEF Media
    <2>4. ASSUME NEW s \in Streams PROVE Numbered(s)'
      BY <1>2, <2>1, <2>2, <2>3, SameNumbers
    <2> QED
      BY <2>4
  <1> QED
    BY <1>4, <1>5, <1>6, <1>8, <1>9, <1>10, <1>11, <1>12, <1>13, <1>14, NextIsEither DEF Thread

\* A recording that succeeded holds every accepted packet.
LEMMA CompleteSucceeds == TypeOK /\ Shape /\ Complete => SuccessIsComplete
  <1> SUFFICES ASSUME TypeOK, Shape, Complete, pc = "ended", ok, ~io, NEW s \in Streams
               PROVE  /\ Len(written[s]) = accepted[s]
                      /\ \A i \in 1 .. accepted[s] : written[s][i].n = i
    BY DEF SuccessIsComplete
  <1>1. prev = <<>> /\ pkt[s] = <<>> /\ queue[s] = <<>> /\ Numbered(s)
    BY DEF Shape, Complete
  <1>2. Media(s) = <<>>
    BY <1>1 DEF Media
  <1>3. /\ Len(written[s]) \in Nat /\ accepted[s] \in Nat /\ Len(prev) = 0 /\ Len(Media(s)) = 0
        /\ Len(queue[s]) = 0
    BY <1>1, <1>2, CountsAreNumbers
  <1>4. Done(s) = Len(written[s])
    BY <1>3 DEF Done
  <1>5. Out(s) = Len(written[s])
    BY <1>3, <1>4 DEF Out
  <1>6. /\ Len(written[s]) <= accepted[s]
        /\ \A m \in Nat : Len(written[s]) < m /\ m <= accepted[s] => FALSE
        /\ \A i \in 1 .. Len(written[s]) : written[s][i].n = i
    BY <1>1, <1>3, <1>5 DEF Numbered, Holds
  <1>7. Len(written[s]) = accepted[s]
    BY <1>3, <1>6
  <1> QED
    BY <1>6, <1>7

-----------------------------------------------------------------------------
(* The origin of time.                                                      *)

\* What Write writes.
LEMMA WriteMuxes ==
    ASSUME TypeOK, Shape, Write
    PROVE  /\ origin # <<>> /\ pc = "write"
           /\ pc' = "clear" \/
                \E p \in [Streams -> Seq(AnyPacket)] :
                   /\ Muxed(p, {})
                   /\ p["video"] = IF pkt["video"] = <<>> THEN <<>> ELSE prev
                   /\ p["audio"] = Shifted(pkt["audio"])
           /\ \E p \in [Streams -> Seq(AnyPacket)], F \in SUBSET Streams :
                   /\ Muxed(p, F)
                   /\ p["video"] = IF pkt["video"] = <<>> THEN <<>> ELSE prev
                   /\ p["audio"] = Shifted(pkt["audio"]) \/ p["audio"] = <<>>
  <1> DEFINE v == IF pkt["video"] = <<>> THEN <<>> ELSE prev
             a == Shifted(pkt["audio"])
  <1>1. /\ origin # <<>> /\ pc = "write"
        /\ \A s \in Streams : pkt[s] \in Seq(AnyPacket) /\ Len(pkt[s]) <= 1
    BY DEF Write, Shape, TypeOK
  <1>2. a \in Seq(AnyPacket)
    BY <1>1, ShiftedIsPacket DEF Streams
  <1>3. v \in Seq(AnyPacket) /\ <<>> \in Seq(AnyPacket)
    BY DEF TypeOK
  <1>4. \/ Muxed(Pair(v, a), {}) /\ pc' = "lock"
        \/ Muxed(Pair(v, <<>>), {"video"}) /\ pc' = "clear"
        \/ Muxed(Pair(v, a), {"audio"}) /\ pc' = "clear"
    BY DEF Write
  <1>5. {} \in SUBSET Streams /\ {"video"} \in SUBSET Streams /\ {"audio"} \in SUBSET Streams
    BY DEF Streams
  <1> HIDE DEF v, a
  <1>6. /\ Pair(v, a) \in [Streams -> Seq(AnyPacket)] /\ Pair(v, a)["video"] = v
        /\ Pair(v, a)["audio"] = a
    BY <1>2, <1>3, PairIsPackets
  <1>7. /\ Pair(v, <<>>) \in [Streams -> Seq(AnyPacket)] /\ Pair(v, <<>>)["video"] = v
        /\ Pair(v, <<>>)["audio"] = <<>>
    BY <1>3, PairIsPackets
  <1>8. pc' = "clear" \/ \E p \in [Streams -> Seq(AnyPacket)] :
           Muxed(p, {}) /\ p["video"] = v /\ p["audio"] = a
    BY <1>4, <1>6
  <1>9. \E p \in [Streams -> Seq(AnyPacket)], F \in SUBSET Streams :
           Muxed(p, F) /\ p["video"] = v /\ (p["audio"] = a \/ p["audio"] = <<>>)
    BY <1>4, <1>5, <1>6, <1>7
  <1> QED
    BY <1>1, <1>8, <1>9 DEF v, a

\* A stream that writes to the file for the first time.
LEMMA FirstIsMuxed ==
    ASSUME TypeOK, NEW p \in [Streams -> Seq(AnyPacket)], NEW F, Muxed(p, F), NEW s \in Streams
    PROVE  /\ written[s] # <<>> => written'[s] # <<>> /\ written'[s][1] = written[s][1]
           /\ written[s] = <<>> /\ written'[s] # <<>> =>
                /\ p[s] # <<>> /\ p[s][1].pts \in Int
                /\ written'[s][1].pts = Fixed(s, Rescaled(p[s][1].pts))
           /\ p[s] = <<>> => last'[s] = last[s] /\ written'[s] = written[s]
           /\ p[s] # <<>> /\ s \notin F => written'[s] # <<>>
  <1>1. written[s] \in Seq([n : Nat, pts : Int])
    BY DEF TypeOK
  <1>2. CASE p[s] = <<>>
    <2>1. last'[s] = last[s] /\ written'[s] = written[s]
      BY <1>2, MuxedWrites
    <2> QED
      BY <1>2, <2>1
  <1>3. CASE p[s] # <<>>
    <2>1. PICK t \in Int :
            /\ t = Fixed(s, Rescaled(p[s][1].pts))
            /\ p[s][1].n \in Nat
            /\ written'[s] = IF s \in F THEN written[s]
                             ELSE Append(written[s], [n |-> p[s][1].n, pts |-> t])
      BY <1>3, PacketIsMuxed
    <2>2. p[s][1] \in AnyPacket
      BY <1>3, SeqElements
    <2>3. p[s][1].pts \in Int
      BY <2>2 DEF AnyPacket
    <2> DEFINE e == [n |-> p[s][1].n, pts |-> t]
    <2>4. e \in [n : Nat, pts : Int] /\ e.pts = t
      BY <2>1
    <2>5. written'[s] = IF s \in F THEN written[s] ELSE Append(written[s], e)
      BY <2>1
    <2> HIDE DEF e
    <2>6. /\ Append(written[s], e) # <<>>
          /\ written[s] # <<>> => Append(written[s], e)[1] = written[s][1]
          /\ written[s] = <<>> => Append(written[s], e)[1] = e
      <3> DEFINE w == written[s]
                 r == Append(w, e)
      <3>1. /\ Len(w) \in Nat /\ (w = <<>> <=> Len(w) = 0)
        BY <1>1, SeqElements
      <3>2. /\ r \in Seq([n : Nat, pts : Int]) /\ Len(r) = Len(w) + 1 /\ r[Len(w) + 1] = e
            /\ \A i \in 1 .. Len(w) : r[i] = w[i]
        BY <1>1, <2>4
      <3> HIDE DEF w, r
      <3>3. r # <<>>
        BY <3>1, <3>2, SeqElements
      <3>4. w # <<>> => 1 \in 1 .. Len(w)
        BY <3>1
      <3>5. w = <<>> => r[1] = e
        <4>1. Len(w) = 0 => Len(w) + 1 = 1
          OBVIOUS
        <4> QED
          BY <3>1, <3>2, <4>1
      <3> QED
        BY <3>2, <3>3, <3>4, <3>5 DEF w, r
    <2> QED
      BY <1>3, <2>1, <2>3, <2>4, <2>5, <2>6
  <1> QED
    BY <1>2, <1>3

\* Until its first packet is written, each stream has it at hand, not before the
\* origin.
LEMMA StepOrigins ==
    TypeOK /\ Shape /\ Unstarted /\ LastIsLast /\ Origins /\ [Next]_vars => Origins'
  <1> SUFFICES ASSUME TypeOK, Shape, Unstarted, LastIsLast, Origins, [Next]_vars,
                      ~stopped', pc' # "clear", origin' # <<>>,
                      NEW s \in Streams, wants'[s], written'[s] = <<>>
               PROVE  last'[s] = <<>> /\ Waiting(s)'
    BY DEF Origins
  <1> USE DEF sharedVars, fileVars, localVars, threadVars, historyVars
  <1>1. ASSUME ~stopped, pc # "clear", origin # <<>>, wants[s], written[s] = <<>>
        PROVE  last[s] = <<>> /\ Waiting(s)
    BY <1>1 DEF Origins
  <1>2. CASE Outside
    <2>1. UNCHANGED <<last, written, pkt, prev, origin>> /\ ~stopped
      BY <1>2, OutsideKeeps
    <2>2. pc' = pc \/ (pc = "hwait" /\ pc' = "header") \/ (pc = "wait" /\ pc' = "lock")
      BY <1>2, OutsideKeeps, SignalWakes
    <2>3. wants[s]
      <3>1. wants \in [Streams -> BOOLEAN]
        BY DEF TypeOK
      <3>2. wants' = wants \/ wants' = [wants EXCEPT !["audio"] = FALSE]
        BY <1>2 DEF Outside, Demuxer, DemuxerFails, SinkOpens, SinkCloses, SinkPushes,
           AudioDisabled, sc_recorder_stop, sc_recorder_join
      <3> QED
        BY <3>1, <3>2 DEF Streams
    <2>4. last[s] = <<>> /\ Waiting(s)
      BY <1>1, <2>1, <2>2, <2>3
    <2> QED
      BY <2>1, <2>2, <2>4 DEF Waiting
  <1>3. ASSUME UNCHANGED <<last, written, prev, origin, stopped, wants>>, pc \notin {"clear", "write"}
        PROVE  last'[s] = <<>> /\ Waiting(s)'
    BY <1>1, <1>3 DEF Waiting
  <1>4. CASE UNCHANGED vars
    <2>1. last[s] = <<>> /\ Waiting(s)
      BY <1>1, <1>4 DEF vars
    <2> QED
      BY <1>4, <2>1 DEF vars, Waiting
  <1>5. CASE OpenFile \/ HeaderWaits \/ HeaderGivesUp \/ HeaderTakes
    BY <1>3, <1>5 DEF OpenFile, HeaderWaits, HeaderGivesUp, HeaderTakes
  <1>6. CASE HeaderWritten \/ PacketsWait \/ PacketsTake
    BY <1>3, <1>6 DEF HeaderWritten, PacketsWait, PacketsTake
  <1>7. CASE Origin
    <2>1. CASE origin # <<>>
      BY <1>3, <1>7, <2>1 DEF Origin
    <2>2. CASE origin = <<>>
      <3> DEFINE v == Media("video")
                 a == Media("audio")
      <3>1. /\ Start(v, a) # <<>> /\ origin' = Start(v, a) /\ pc' = "write"
            /\ pkt' = [x \in Streams |-> Media(x)]
            /\ UNCHANGED <<last, written, prev, wants, stopped>>
        BY <1>7, <2>2 DEF Origin
      <3>2. last[s] = <<>> /\ prev = <<>>
        BY <2>2 DEF Unstarted, Shape
      <3>3. pkt'["video"] = v /\ pkt'["audio"] = a
        BY <3>1 DEF Streams
      <3>4. \A q \in {v, a} : q # <<>> => q[1].pts \in Int
        <4>1. \A x \in Streams : Media(x) # <<>> => Media(x)[1] \in AnyPacket
          BY CountsAreNumbers
        <4>2. \A x \in Streams : Media(x) # <<>> => Media(x)[1].pts \in Int
          BY <4>1 DEF AnyPacket
        <4> QED
          BY <4>2 DEF Streams
      <3> HIDE DEF v, a
      <3>5. wants["audio"] \in BOOLEAN /\ wants["video"] \in BOOLEAN /\ wants[s]
        BY <3>1 DEF TypeOK, Streams
      <3>6. s = "video" => v # <<>> /\ v[1].pts >= Start(v, a)[1]
        BY <3>1, <3>4, <3>5 DEF Start, First, MIN
      <3>7. s = "audio" => a # <<>> /\ a[1].pts >= Start(v, a)[1]
        BY <3>1, <3>4, <3>5 DEF Start, First, MIN
      <3> QED
        BY <3>1, <3>2, <3>3, <3>6, <3>7 DEF Waiting, Streams
    <2> QED
      BY <2>1, <2>2
  <1>8. CASE Write
    <2>1. PICK p \in [Streams -> Seq(AnyPacket)] :
            /\ Muxed(p, {})
            /\ p["video"] = IF pkt["video"] = <<>> THEN <<>> ELSE prev
            /\ p["audio"] = Shifted(pkt["audio"])
      BY <1>8, WriteMuxes
    <2>2. /\ origin # <<>> /\ pc = "write" /\ ~stopped /\ wants[s] /\ origin' = origin
          /\ prev' = IF pkt["video"] = <<>> THEN prev ELSE Shifted(pkt["video"])
      BY <1>8 DEF Write, Shape
    <2>3. /\ written[s] = <<>> /\ p[s] = <<>>
      BY <2>1, FirstIsMuxed
    <2>4. last'[s] = last[s]
      BY <2>1, <2>3, FirstIsMuxed
    <2>5. last[s] = <<>> /\ Waiting(s)
      BY <1>1, <2>2, <2>3
    <2>6. \A x \in Streams : pkt[x] \in Seq(AnyPacket) /\ Len(pkt[x]) <= 1
      BY DEF TypeOK
    <2>7. CASE s = "audio"
      <3>1. pkt["audio"] # <<>>
        BY <2>5, <2>7 DEF Waiting
      <3>2. Shifted(pkt["audio"]) # <<>>
        BY <2>2, <2>6, <3>1, ShiftedIsPacket DEF Streams
      <3> QED
        BY <2>1, <2>3, <2>7, <3>2
    <2>8. CASE s = "video"
      <3>1. CASE pkt["video"] = <<>>
        BY <2>2, <2>4, <2>5, <2>8, <3>1 DEF Waiting
      <3>2. CASE pkt["video"] # <<>>
        <4>1. prev = <<>>
          BY <2>1, <2>3, <2>8, <3>2
        <4>2. pkt["video"][1].pts >= origin[1]
          BY <2>5, <2>8, <4>1 DEF Waiting
        <4>3. /\ prev' # <<>> /\ prev'[1].pts = pkt["video"][1].pts - origin[1]
              /\ pkt["video"][1].pts \in Int /\ origin[1] \in Int
          BY <2>2, <2>6, <3>2, ShiftedIsPacket DEF Streams
        <4>4. prev'[1].pts >= 0
          BY <4>2, <4>3
        <4> QED
          BY <2>4, <2>5, <2>8, <4>3, <4>4 DEF Waiting
      <3> QED
        BY <3>1, <3>2
    <2> QED
      BY <2>7, <2>8 DEF Streams
  <1>9. CASE WriteLast \/ Clear
    BY <1>9 DEF WriteLast, Clear
  <1> QED
    BY <1>2, <1>4, <1>5, <1>6, <1>7, <1>8, <1>9, NextIsEither DEF Thread

\* The first packet of each stream is written at or after time 0.
LEMMA StepStarts ==
    /\ TypeOK /\ Shape /\ Quiet /\ Origins /\ NoStreamStartsEarly /\ [Next]_vars
    => NoStreamStartsEarly'
  <1> SUFFICES ASSUME TypeOK, Shape, Quiet, Origins, NoStreamStartsEarly, [Next]_vars,
                      ~stopped', NEW s \in Streams, written'[s] # <<>>
               PROVE  written'[s][1].pts >= 0
    BY DEF NoStreamStartsEarly
  <1> USE DEF sharedVars, fileVars, localVars, threadVars, historyVars
  <1>1. ~stopped
    <2>1. CASE Outside
      BY <2>1, OutsideKeeps
    <2>2. CASE UNCHANGED vars
      BY <2>2 DEF vars
    <2>3. CASE Thread
      BY <2>3 DEF Thread, OpenFile, HeaderWaits, HeaderGivesUp, HeaderTakes, HeaderWritten,
         PacketsWait, PacketsTake, Origin, Write, WriteLast, Clear
    <2> QED
      BY <2>1, <2>2, <2>3, NextIsEither
  <1>2. written[s] # <<>> => written[s][1].pts >= 0
    BY <1>1 DEF NoStreamStartsEarly
  <1>3. CASE UNCHANGED <<last, written>>
    BY <1>2, <1>3
  <1>4. CASE WriteLast
    BY <1>1, <1>4 DEF WriteLast, Shape
  <1>5. CASE Write
    <2>1. PICK p \in [Streams -> Seq(AnyPacket)], F \in SUBSET Streams :
            /\ Muxed(p, F)
            /\ p["video"] = IF pkt["video"] = <<>> THEN <<>> ELSE prev
            /\ p["audio"] = Shifted(pkt["audio"]) \/ p["audio"] = <<>>
      BY <1>5, WriteMuxes
    <2>2. CASE written[s] # <<>>
      BY <1>2, <2>1, <2>2, FirstIsMuxed
    <2>3. CASE written[s] = <<>>
      <3>1. /\ p[s] # <<>> /\ p[s][1].pts \in Int
            /\ written'[s][1].pts = Fixed(s, Rescaled(p[s][1].pts))
        BY <2>1, <2>3, FirstIsMuxed
      <3>2. /\ origin # <<>> /\ pc = "write"
            /\ \A x \in Streams : pkt[x] \in Seq(AnyPacket) /\ Len(pkt[x]) <= 1
        BY <1>5, WriteMuxes DEF TypeOK
      <3>3. pkt[s] # <<>>
        <4>1. pkt["audio"] = <<>> => Shifted(pkt["audio"]) = <<>>
          BY DEF Shifted
        <4> QED
          BY <2>1, <3>1, <4>1 DEF Streams
      <3>4. last[s] = <<>> /\ Waiting(s)
        BY <1>1, <2>3, <3>2, <3>3 DEF Origins, Quiet
      <3>5. p[s][1].pts >= 0
        <4>1. CASE s = "video"
          <5>1. p[s] = prev
            BY <2>1, <3>3, <4>1
          <5> QED
            BY <3>1, <3>4, <5>1, <4>1 DEF Waiting
        <4>2. CASE s = "audio"
          <5>1. p[s] = Shifted(pkt[s]) /\ pkt[s][1].pts >= origin[1]
            BY <2>1, <3>1, <3>4, <4>2 DEF Waiting
          <5>2. /\ Shifted(pkt[s])[1].pts = pkt[s][1].pts - origin[1]
                /\ pkt[s][1].pts \in Int /\ origin[1] \in Int
            BY <3>2, <3>3, ShiftedIsPacket
          <5>3. pkt[s][1].pts - origin[1] >= 0
            BY <5>1, <5>2
          <5> QED
            BY <5>1, <5>2, <5>3
        <4> QED
          BY <4>1, <4>2 DEF Streams
      <3>6. Rescaled(p[s][1].pts) \in Int /\ Rescaled(p[s][1].pts) >= 0
        BY <3>1, <3>5, RescaledIsTime
      <3> QED
        BY <3>1, <3>4, <3>6, FixedIsLater
    <2> QED
      BY <2>2, <2>3
  <1> QED
    BY <1>3, <1>4, <1>5, OnlyWritesWrite

-----------------------------------------------------------------------------
(* The theorems.                                                            *)

\* The invariant holds when the recorder is started.
LEMMA InitEstablishes == Init => IInv
  <1> SUFFICES ASSUME Init PROVE IInv
    OBVIOUS
  <1>1. TypeOK
    BY InitTyped
  <1>2. /\ pc = "file" /\ stopped = FALSE /\ prev = <<>> /\ origin = <<>>
        /\ \A s \in Streams : /\ pkt[s] = <<>> /\ queue[s] = <<>> /\ last[s] = <<>>
                              /\ written[s] = <<>> /\ accepted[s] = 0
                              /\ ~wants[s] => demuxer[s] = "ended"
    BY DEF Init, Each
  <1>3. Shape /\ Unstarted /\ Quiet /\ NoLostWakeup /\ Origins
    BY <1>2 DEF Shape, Unstarted, Quiet, NoLostWakeup, Origins
  <1>4. LastIsLast /\ NoStreamStartsEarly
    BY <1>2 DEF LastIsLast, NoStreamStartsEarly
  <1>5. \A s \in Streams : Len(written[s]) = 0 /\ Len(queue[s]) = 0 /\ Len(prev) = 0
    BY <1>2
  <1>6. PtsIncrease
    BY <1>5 DEF PtsIncrease
  <1>7. ASSUME NEW s \in Streams PROVE Numbered(s)
    <2>1. Media(s) = <<>> /\ Len(Media(s)) = 0
      BY <1>2 DEF Media
    <2>2. Done(s) = 0
      <3>1. CASE s = "video"
        BY <1>5, <3>1 DEF Done
      <3>2. CASE s # "video"
        BY <1>5, <3>2 DEF Done
      <3> QED
        BY <3>1, <3>2
    <2>3. Out(s) = 0
      BY <2>1, <2>2 DEF Out
    <2>4. Holds(queue[s], 0, 0)
      BY <1>5 DEF Holds
    <2> QED
      BY <1>2, <1>5, <2>1, <2>3, <2>4 DEF Numbered
  <1>8. Complete
    BY <1>7 DEF Complete
  <1> QED
    BY <1>1, <1>3, <1>4, <1>6, <1>8 DEF IInv

\* Every step keeps it.
LEMMA StepPreserves == IInv /\ [Next]_vars => IInv'
  BY StepTyped, StepShape, StepUnstarted, StepQuiet, StepWakes, StepIncreases, StepComplete,
     StepOrigins, StepStarts DEF IInv

\* The inductive invariant.
LEMMA Invariance == Spec => []IInv
  BY InitEstablishes, StepPreserves, PTL DEF Spec

\* The variables of recorder.c stay within their types.
THEOREM TypesAreKept == Spec => []TypeOK
  <1>1. IInv => TypeOK
    BY DEF IInv
  <1> QED
    BY <1>1, Invariance, PTL

\* The recorder thread never sleeps in either of its two loops while there is
\* something for it to do.
THEOREM WakeupsAreKept == Spec => []NoLostWakeup
  <1>1. IInv => NoLostWakeup
    BY DEF IInv
  <1> QED
    BY <1>1, Invariance, PTL

\* sc_recorder_write_stream() gives the muxer strictly increasing time stamps.
THEOREM TimesIncrease == Spec => []PtsIncrease
  <1>1. IInv => PtsIncrease
    BY DEF IInv
  <1> QED
    BY <1>1, Invariance, PTL

\* A recording that is reported complete holds every packet that a sink
\* accepted, in order.
THEOREM NothingIsLost == Spec => []SuccessIsComplete
  <1>1. IInv => SuccessIsComplete
    BY CompleteSucceeds DEF IInv
  <1> QED
    BY <1>1, Invariance, PTL

\* The assertions on the streams that are not recorded hold.
THEOREM UnwantedStaysEmpty == Spec => []UnwantedIsEmpty
  <1>1. IInv => UnwantedIsEmpty
    BY DEF IInv, Quiet, UnwantedIsEmpty
  <1> QED
    BY <1>1, Invariance, PTL

\* No stream starts before the time 0 of the file while the recorder runs.
THEOREM StartsAreOnTime == Spec => []NoStreamStartsEarly
  <1>1. IInv => NoStreamStartsEarly
    BY DEF IInv
  <1> QED
    BY <1>1, Invariance, PTL

\* The file has increasing time stamps and, when reported complete, every
\* packet, for every stream of packets, time base and order of the threads.
THEOREM CorrectFile == Spec => []FileIsCorrect
  BY TypesAreKept, TimesIncrease, NothingIsLost, PTL DEF FileIsCorrect

\* The assertions on streams that are not recorded hold, and no stream starts
\* before the time 0 of the file.
THEOREM AlignedStreams == Spec => []StreamsAreAligned
  BY UnwantedStaysEmpty, StartsAreOnTime, PTL DEF StreamsAreAligned
=============================================================================
