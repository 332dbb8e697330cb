------------------------ MODULE VideoPipelineProofs ------------------------
(***************************************************************************)
(* Proofs about the video pipeline, for every number of packets, every     *)
(* delay of the codec and every range of the clock.                        *)
(***************************************************************************)
EXTENDS VideoPipeline, TLAPS

Busy == {"loop", "decode", "receive", "push", "asap", "record"}

Closing == {"close", "stop", "join", "closeDecoder"}

\* The sinks, by where the demuxer is.
SinksFollowPc ==
    /\ pc \in {"codec", "session"} => \A s \in Sinks : sink[s] = "new"
    /\ pc = "open" => /\ sink["decoder"] \in {"new", "open"}
                      /\ sink["screen"] = sink["decoder"]
                      /\ sink["recorder"] = "new"
    /\ pc \in Busy => \A s \in Sinks : sink[s] = "open"
    /\ pc \in Closing =>
         /\ sink["decoder"] = "open" /\ sink["screen"] = "open"
         /\ pc = "close" => sink["recorder"] \in {"new", "open"}
         /\ pc # "close" => sink["recorder"] \in {"new", "closed"}
    /\ pc = "ended" => \A s \in Sinks : sink[s] \in {"new", "closed", "disabled"}

\* The buffering thread lives while the frame sink is open, and only then.
ThreadFollowsPc ==
    /\ bpc = "none" <=> ~regulated \/ sink["decoder"] = "new"
    /\ pc \in {"closeDecoder", "ended"} => bpc \in {"none", "ended"}
    /\ pc \in {"stop", "join", "asap"} => regulated
    /\ stopped => regulated
    /\ bpc \in {"flush", "ended"} => stopped

\* The last configuration sent is in the merger, in front of the packet that
\* is being pushed, or in the codec.
ConfigIsKept ==
    merge =>
      /\ pc \in {"codec", "session", "open"} =>
           config = 0 /\ sent.config = 0 /\ decoded = 0
      /\ pc \in {"loop", "record"} =>
           IF config = 0 THEN decoded = sent.config ELSE config = sent.config
      /\ pc = "decode" =>
           IF pkt.kind = "config" THEN config = sent.config /\ config # 0
           ELSE /\ config = 0
                /\ IF pkt.config = 0 THEN decoded = sent.config
                   ELSE pkt.config = sent.config
      /\ pc \in {"receive", "push", "asap"} => config = 0 /\ decoded = sent.config

\* Nothing has happened before the sinks are open.
Fresh ==
    sink["decoder"] = "new" =>
      /\ codec = <<>> /\ frames = <<>> /\ given = 0 /\ held = None /\ queue = <<>>
      /\ ~stopped /\ range = 0 /\ shown.id = 0

\* The codec holds the last frames; the one it gave comes before them.
CodecInOrder ==
    /\ Len(codec) <= given
    /\ \A i \in 1 .. Len(codec) :
         codec[i].kind = "frame" /\ codec[i].id = given - Len(codec) + i
    /\ pc \notin {"push", "asap"} => frames = <<>>
    /\ pc \in {"push", "asap"} =>
         /\ Len(frames) = 1 /\ frames[1].kind = "frame"
         /\ frames[1].session = sent.session
         /\ frames[1].id = given - Len(codec)

\* What the buffering thread holds, by where it is: a frame is the next one
\* to be shown, and its session is already at the sink.
HeldFollowsBpc ==
    /\ bpc \in {"none", "check", "sleep", "ended"} => held = None
    /\ bpc = "delay" => held.kind = "frame"
    /\ bpc = "push" => held.kind \in {"session", "frame"}
    /\ bpc \in {"delay", "push"} /\ held.kind = "frame" =>
         held.id = shown.id + 1 /\ held.session = shown.current

\* The queue q leads from frame lo and session cur to frame hi and session
\* last: n and c are the frame and the session after each of its packets.
Leads(q, lo, cur, hi, last, n, c) ==
    /\ n[0] = lo /\ c[0] = cur /\ n[Len(q)] = hi /\ c[Len(q)] = last
    /\ \A i, j \in 0 .. Len(q) : i <= j => n[i] <= n[j]
    /\ \A i \in 1 .. Len(q) :
         \/ /\ q[i].kind = "frame" /\ q[i].id = n[i] /\ q[i].session = c[i]
            /\ n[i] = n[i - 1] + 1 /\ c[i] = c[i - 1]
         \/ /\ q[i].kind = "session" /\ q[i].session = c[i]
            /\ n[i] = n[i - 1]

Run(q, lo, cur, hi, last) ==
    \E n, c \in [0 .. Len(q) -> Nat] : Leads(q, lo, cur, hi, last, n, c)

\* The last frame that left the decoder.
Out == given - Len(codec) - Len(frames)

\* The frame and the session before the queue.
HeldId == IF held.kind = "frame" THEN held.id ELSE shown.id
HeldSession == IF held.kind = "session" THEN held.session ELSE shown.current

Streaming == pc \in Busy \cup {"open"} /\ sink["decoder"] = "open"

\* From what the sink has over held and queue to what left the decoder, no
\* frame is missing and each comes behind its session.
QueueInOrder ==
    bpc \in {"check", "sleep", "delay", "push"} =>
      \E hi, last \in Nat :
        /\ Run(queue, HeldId, HeldSession, hi, last)
        /\ Streaming => hi = Out /\ last = sent.session

\* Without regulator the sink is up to date; with it, the first frame of all
\* is pushed before any other is queued.
StreamInOrder ==
    /\ Streaming /\ ~regulated => shown.id = Out /\ shown.current = sent.session
    /\ Streaming /\ stopped => bpc \in {"flush", "ended"}
    /\ Streaming /\ regulated /\ ~stopped =>
         /\ range = 0 => Out = 0
         /\ range # 0 /\ pc # "asap" => shown.id # 0
    /\ pc = "asap" => Out = 0 /\ ~stopped /\ range # 0

IInv ==
    /\ TypeOK /\ SinksFollowPc /\ ThreadFollowsPc /\ ConfigIsKept /\ Fresh
    /\ CodecInOrder /\ HeldFollowsBpc /\ QueueInOrder /\ StreamInOrder

-----------------------------------------------------------------------------
(* Sequences.                                                               *)

\* The elements of a sequence, and of what is left without the first.
LEMMA SeqElements ==
    ASSUME NEW T, NEW q \in Seq(T)
    PROVE  /\ Len(q) \in Nat /\ (q = <<>> <=> Len(q) = 0)
           /\ \A i \in 1 .. Len(q) : q[i] \in T
           /\ q # <<>> => /\ q[1] \in T /\ Head(q) = q[1] /\ Tail(q) \in Seq(T)
                          /\ Len(Tail(q)) = Len(q) - 1
                          /\ \A i \in 1 .. Len(q) - 1 : Tail(q)[i] = q[i + 1]
  OBVIOUS

\* The elements of a sequence with one more.
LEMMA SeqAppend ==
    ASSUME NEW T, NEW q \in Seq(T), NEW e \in T
    PROVE  /\ Append(q, e) \in Seq(T) /\ Len(Append(q, e)) = Len(q) + 1
           /\ \A i \in 1 .. Len(q) : Append(q, e)[i] = q[i]
           /\ Append(q, e)[Len(q) + 1] = e
  OBVIOUS

\* A sequence of one element.
LEMMA OnlyElement ==
    ASSUME NEW T, NEW q \in Seq(T), Len(q) = 1
    PROVE  q # <<>> /\ Head(q) = q[1] /\ Head(q) \in T
  BY SeqElements

\* What the fields of a packet are.
LEMMA PacketFields ==
    ASSUME NEW p \in Packets
    PROVE  /\ p.id \in Nat /\ p.session \in Nat /\ p.config \in Nat
           /\ p.kind \in {"none", "session", "config", "media", "frame"}
  BY DEF Packets

\* The packets the pipeline makes, and what the sink keeps of one.
LEMMA PacketsMade ==
    /\ None \in Packets
    /\ \A n \in Nat : [None EXCEPT !.kind = "session", !.session = n] \in Packets
    /\ \A n \in Nat : [None EXCEPT !.kind = "frame", !.id = n] \in Packets
    /\ \A n \in Nat, k \in {"config", "media"} :
         [None EXCEPT !.kind = k, !.config = n] \in Packets
    /\ \A p \in Packets, n \in Nat : /\ [p EXCEPT !.config = n] \in Packets
                                     /\ [p EXCEPT !.session = n] \in Packets
  BY DEF None, Packets

\* What the sink got stays what it can get.
LEMMA SinkGetsType ==
    ASSUME NEW p \in Packets, shown \in [id : Nat, session : Nat, current : Nat]
    PROVE  SinkGets(p) \in [id : Nat, session : Nat, current : Nat]
  BY DEF SinkGets, Packets

-----------------------------------------------------------------------------
(* Types and sinks.                                                         *)

\* A step keeps the types.
LEMMA TypeStep ==
    ASSUME TypeOK, CodecInOrder, [Next]_vars
    PROVE  TypeOK'
  <1> USE DEF modeVars, demuxVars, codecVars, bufVars, regVars
  <1>a. /\ sent \in [items : Nat, session : Nat, config : Nat]
        /\ shown \in [id : Nat, session : Nat, current : Nat]
        /\ sink \in [Sinks -> {"new", "open", "closed", "disabled", "misused"}]
    BY DEF TypeOK
  <1>e. codec \in Seq(Packets)
    BY DEF TypeOK
  <1>f. frames \in Seq(Packets)
    BY DEF TypeOK
  <1>g. <<>> \in Seq(Packets)
    OBVIOUS
  <1>q. queue \in Seq(Packets)
    BY DEF TypeOK
  <1>c. /\ config \in Nat /\ decoded \in Nat /\ given \in Nat
        /\ pkt \in Packets /\ held \in Packets
        /\ range \in 0 .. ClockRange
    BY DEF TypeOK
  <1>d. sent.items + 1 \in Nat /\ sent.session + 1 \in Nat /\ sent.config + 1 \in Nat /\ sent.session \in Nat
    BY <1>a
  <1>1. CASE RecvCodecId
    BY <1>1 DEF TypeOK, RecvCodecId, Disabled
  <1>2. CASE RecvSession
    <2>1. [sent EXCEPT !.items = 1, !.session = 1] \in [items : Nat, session : Nat, config : Nat]
      BY <1>a
    <2>2. sent' \in [items : Nat, session : Nat, config : Nat]
      BY <1>a, <1>2, <2>1 DEF RecvSession
    <2> QED
      BY <1>2, <2>1, <2>2 DEF TypeOK, RecvSession
  <1>3. CASE OpenDecoder
    BY <1>3 DEF TypeOK, OpenDecoder, Opened, Closed
  <1>4. CASE OpenRecorder
    BY <1>4 DEF TypeOK, OpenRecorder, Opened
  <1>5. CASE EndOfStream
    BY <1>5 DEF TypeOK, EndOfStream
  <1>6. CASE RecvFails
    BY <1>6 DEF TypeOK, RecvFails
  <1>7. CASE RecvNewSession
    <2>1. sent' \in [items : Nat, session : Nat, config : Nat]
      BY <1>a, <1>d, <1>7 DEF RecvNewSession
    <2>2. [None EXCEPT !.kind = "session", !.session = sent.session + 1] \in Packets
      BY <1>d, PacketsMade
    <2>3. shown' \in [id : Nat, session : Nat, current : Nat]
      BY <1>a, <1>7, <2>2, SinkGetsType DEF RecvNewSession
    <2>4. queue' \in Seq(Packets)
      BY <1>q, <1>7, <2>2, SeqAppend DEF RecvNewSession
    <2>5. sink' \in [Sinks -> {"new", "open", "closed", "disabled", "misused"}]
      BY <1>a, <1>7 DEF RecvNewSession, Pushed
    <2> QED
      BY <1>7, <2>1, <2>2, <2>3, <2>4, <2>5 DEF TypeOK, RecvNewSession, Signal
  <1>8. ASSUME NEW kind \in {"config", "media"}, RecvPacket(kind)
        PROVE  TypeOK'
    <2> DEFINE n == sent.config + (IF kind = "config" THEN 1 ELSE 0)
               p == [None EXCEPT !.kind = kind,
                                 !.config = IF kind = "config" THEN n ELSE 0]
    <2>1. n \in Nat /\ (IF kind = "config" THEN n ELSE 0) \in Nat
      BY <1>a
    <2>2. p \in Packets
      BY <1>8, <2>1, PacketsMade
    <2>3. sent' = [sent EXCEPT !.items = @ + 1, !.config = n]
      BY <1>8 DEF RecvPacket
    <2> HIDE DEF n
    <2>4. sent' \in [items : Nat, session : Nat, config : Nat]
      BY <1>a, <1>d, <2>1, <2>3
    <2>5. /\ pkt' = IF merge THEN Merged(p).pkt ELSE p
          /\ config' = IF merge THEN Merged(p).config ELSE 0
      BY <1>8 DEF RecvPacket, n
    <2> HIDE DEF p
    <2>6. p.config \in Nat /\ [p EXCEPT !.config = config] \in Packets
      BY <1>c, <2>2, PacketsMade, PacketFields
    <2>7. pkt' \in Packets /\ config' \in Nat
      BY <2>2, <2>5, <2>6 DEF Merged
    <2> QED
      BY <1>8, <2>4, <2>7 DEF TypeOK, RecvPacket
  <1>9. CASE SendPacket
    <2>1. given + 1 \in Nat
      BY <1>c
    <2>2. [None EXCEPT !.kind = "frame", !.id = given + 1] \in Packets
      BY <2>1, PacketsMade
    <2>3. codec' \in Seq(Packets) /\ given' \in Nat
      BY <1>e, <1>c, <1>9, <2>1, <2>2, SeqAppend DEF SendPacket
    <2>4. decoded' \in Nat
      BY <1>c, <1>9, PacketFields DEF SendPacket
    <2>5. sink' \in [Sinks -> {"new", "open", "closed", "disabled", "misused"}]
      BY <1>a, <1>9 DEF SendPacket, Pushed
    <2> QED
      BY <1>9, <2>1, <2>2, <2>3, <2>4, <2>5 DEF TypeOK, SendPacket
  <1>10. CASE ReceiveFrame
    <2>1. codec # <<>> => Head(codec) \in Packets /\ Tail(codec) \in Seq(Packets)
      BY <1>e, SeqElements
    <2>2. codec' \in Seq(Packets)
      BY <1>e, <1>10, <2>1 DEF ReceiveFrame
    <2>3. codec # <<>> => [Head(codec) EXCEPT !.session = sent.session] \in Packets
      BY <1>d, <2>1, PacketsMade
    <2>4. codec # <<>> => <<[Head(codec) EXCEPT !.session = sent.session]>> \in Seq(Packets)
      BY <2>3
    <2>5. frames' \in Seq(Packets)
      BY <1>f, <1>10, <2>4 DEF ReceiveFrame
    <2> QED
      BY <1>10, <2>1, <2>2, <2>3, <2>4, <2>5 DEF TypeOK, ReceiveFrame
  <1>11. CASE PushFrame
    <2>1. sink' \in [Sinks -> {"new", "open", "closed", "disabled", "misused"}]
      BY <1>a, <1>11 DEF PushFrame, Pushed
    <2>2. Len(frames) = 1
      BY <1>11 DEF PushFrame, CodecInOrder
    <2>3. Head(frames) \in Packets
      BY <1>f, <2>2, SeqElements
    <2>4. shown' \in [id : Nat, session : Nat, current : Nat]
      BY <1>a, <1>11, <2>3, SinkGetsType DEF PushFrame
    <2>5. frames' \in Seq(Packets)
      BY <1>11 DEF PushFrame
    <2> QED
      BY <1>11, <2>1, <2>2, <2>3, <2>4, <2>5 DEF TypeOK, PushFrame
  <1>12. CASE RegulateFrame
    <2>1. Len(frames) = 1
      BY <1>12 DEF RegulateFrame, CodecInOrder
    <2>2. Head(frames) \in Packets
      BY <1>f, <2>1, SeqElements
    <2>3. queue' \in Seq(Packets)
      BY <1>q, <1>12, <2>2, SeqAppend DEF RegulateFrame
    <2>4. range' \in 0 .. ClockRange
      BY <1>c, <1>12, ClockAssumption DEF RegulateFrame, ClockUpdated
    <2>5. frames' \in Seq(Packets)
      BY <1>f, <1>g, <1>12 DEF RegulateFrame
    <2> QED
      BY <1>12, <2>1, <2>2, <2>3, <2>4, <2>5 DEF TypeOK, RegulateFrame, Signal
  <1>13. CASE RecordPacket
    <2>1. sink' \in [Sinks -> {"new", "open", "closed", "disabled", "misused"}]
      BY <1>a, <1>13 DEF RecordPacket, Pushed
    <2>2. pkt' \in Packets
      BY <1>13, PacketsMade DEF RecordPacket
    <2> QED
      BY <1>13, <2>1, <2>2 DEF TypeOK, RecordPacket
  <1>14. CASE CloseRecorder
    BY <1>14 DEF TypeOK, CloseRecorder, Closed
  <1>15. CASE StopRegulator
    BY <1>15 DEF TypeOK, StopRegulator, Signal
  <1>16. CASE JoinRegulator
    BY <1>16 DEF TypeOK, JoinRegulator
  <1>17. CASE CloseDecoder
    BY <1>17 DEF TypeOK, CloseDecoder, Closed
  <1>18. CASE BufferingWaits
    <2>1. queue # <<>> => Head(queue) \in Packets /\ Tail(queue) \in Seq(Packets)
      BY <1>q, SeqElements
    <2>2. held' \in Packets /\ queue' \in Seq(Packets)
      BY <1>q, <1>c, <1>18, <2>1 DEF BufferingWaits
    <2> QED
      BY <1>18, <2>1, <2>2 DEF TypeOK, BufferingWaits
  <1>19. CASE DelayEnds
    BY <1>19 DEF TypeOK, DelayEnds
  <1>20. CASE BufferingPushes
    <2>1. sink' \in [Sinks -> {"new", "open", "closed", "disabled", "misused"}]
      BY <1>a, <1>20 DEF BufferingPushes, Pushed
    <2>2. held' \in Packets
      BY <1>20, PacketsMade DEF BufferingPushes
    <2>3. shown' \in [id : Nat, session : Nat, current : Nat]
      BY <1>a, <1>c, <1>20, SinkGetsType DEF BufferingPushes
    <2> QED
      BY <1>20, <2>1, <2>2, <2>3 DEF TypeOK, BufferingPushes
  <1>21. CASE Flush
    <2>1. held' \in Packets
      BY <1>21, PacketsMade DEF Flush
    <2>2. queue' \in Seq(Packets)
      BY <1>21 DEF Flush
    <2> QED
      BY <1>21, <2>1, <2>2 DEF TypeOK, Flush
  <1>22. CASE UNCHANGED vars
    BY <1>22 DEF TypeOK, vars
  <1> QED
    BY <1>1, <1>2, <1>3, <1>4, <1>5, <1>6, <1>7, <1>8, <1>9, <1>10, <1>11,
       <1>12, <1>13, <1>14, <1>15, <1>16, <1>17, <1>18, <1>19, <1>20, <1>21,
       <1>22 DEF Next, Demux, Buffering

\* A step keeps the sinks as the demuxer goes through its states.
LEMMA SinksStep ==
    ASSUME TypeOK, SinksFollowPc, ThreadFollowsPc, [Next]_vars
    PROVE  SinksFollowPc'
  <1> USE DEF Sinks, SinksFollowPc, Busy, Closing, modeVars, demuxVars, codecVars, bufVars, regVars
  <1>0. sink \in [Sinks -> {"new", "open", "closed", "disabled", "misused"}]
    BY DEF TypeOK
  <1>1. CASE RecvCodecId
    BY <1>1, <1>0 DEF RecvCodecId, Disabled
  <1>2. CASE RecvSession
    BY <1>2, <1>0 DEF RecvSession
  <1>3. CASE OpenDecoder
    BY <1>3, <1>0 DEF OpenDecoder, Opened, Closed
  <1>4. CASE OpenRecorder
    BY <1>4, <1>0 DEF OpenRecorder, Opened
  <1>5. CASE EndOfStream
    BY <1>5, <1>0 DEF EndOfStream
  <1>6. CASE RecvFails
    BY <1>6, <1>0 DEF RecvFails
  <1>7. CASE RecvNewSession
    BY <1>7, <1>0 DEF RecvNewSession, Pushed, SinkGets, Signal, None
  <1>8. ASSUME NEW kind \in {"config", "media"}, RecvPacket(kind)
        PROVE  SinksFollowPc'
    BY <1>8, <1>0 DEF RecvPacket, Merged, None
  <1>9. CASE SendPacket
    BY <1>9, <1>0 DEF SendPacket, Pushed, None
  <1>10. CASE ReceiveFrame
    BY <1>10, <1>0 DEF ReceiveFrame
  <1>11. CASE PushFrame
    BY <1>11, <1>0 DEF PushFrame, Pushed, SinkGets
  <1>12. CASE RegulateFrame
    BY <1>12, <1>0 DEF RegulateFrame, ClockUpdated, Signal
  <1>13. CASE RecordPacket
    BY <1>13, <1>0 DEF RecordPacket, Pushed, None
  <1>14. CASE CloseRecorder
    BY <1>14, <1>0 DEF CloseRecorder, Closed
  <1>15. CASE StopRegulator
    BY <1>15, <1>0 DEF StopRegulator, Signal
  <1>16. CASE JoinRegulator
    BY <1>16, <1>0 DEF JoinRegulator
  <1>17. CASE CloseDecoder
    BY <1>17, <1>0 DEF CloseDecoder, Closed
  <1>18. CASE BufferingWaits
    BY <1>18, <1>0 DEF BufferingWaits
  <1>19. CASE DelayEnds
    BY <1>19, <1>0 DEF DelayEnds
  <1>20. CASE BufferingPushes
    <2>1. pc \in Busy \cup Closing \cup {"open"} /\ sink["screen"] = "open"
      BY <1>20 DEF BufferingPushes, ThreadFollowsPc, TypeOK
    <2> QED
      BY <1>0, <1>20, <2>1 DEF BufferingPushes, Pushed
  <1>21. CASE Flush
    BY <1>21, <1>0 DEF Flush, None
  <1>22. CASE UNCHANGED vars
    BY <1>22 DEF vars
  <1> QED
    BY <1>1, <1>2, <1>3, <1>4, <1>5, <1>6, <1>7, <1>8, <1>9, <1>10, <1>11,
       <1>12, <1>13, <1>14, <1>15, <1>16, <1>17, <1>18, <1>19, <1>20, <1>21,
       <1>22 DEF Next, Demux, Buffering

\* A step keeps the life of the buffering thread.
LEMMA ThreadStep ==
    ASSUME TypeOK, SinksFollowPc, ThreadFollowsPc, [Next]_vars
    PROVE  ThreadFollowsPc'
  <1> USE DEF Sinks, SinksFollowPc, Busy, Closing, ThreadFollowsPc, modeVars, demuxVars, codecVars, bufVars, regVars
  <1>0. sink \in [Sinks -> {"new", "open", "closed", "disabled", "misused"}]
    BY DEF TypeOK
  <1>1. CASE RecvCodecId
    BY <1>1, <1>0 DEF RecvCodecId
  <1>2. CASE RecvSession
    BY <1>2, <1>0 DEF RecvSession
  <1>3. CASE OpenDecoder
    BY <1>3, <1>0 DEF OpenDecoder, Opened, Closed
  <1>4. CASE OpenRecorder
    BY <1>4, <1>0 DEF OpenRecorder, Opened
  <1>5. CASE EndOfStream
    BY <1>5, <1>0 DEF EndOfStream
  <1>6. CASE RecvFails
    BY <1>6, <1>0 DEF RecvFails
  <1>7. CASE RecvNewSession
    BY <1>7, <1>0 DEF RecvNewSession, Pushed, SinkGets, Signal, None
  <1>8. ASSUME NEW kind \in {"config", "media"}, RecvPacket(kind)
        PROVE  ThreadFollowsPc'
    BY <1>8, <1>0 DEF RecvPacket, Merged, None
  <1>9. CASE SendPacket
    BY <1>9, <1>0 DEF SendPacket, Pushed, None
  <1>10. CASE ReceiveFrame
    BY <1>10, <1>0 DEF ReceiveFrame
  <1>11. CASE PushFrame
    BY <1>11, <1>0 DEF PushFrame, Pushed, SinkGets
  <1>12. CASE RegulateFrame
    BY <1>12, <1>0 DEF RegulateFrame, ClockUpdated, Signal
  <1>13. CASE RecordPacket
    BY <1>13, <1>0 DEF RecordPacket, Pushed, None
  <1>14. CASE CloseRecorder
    BY <1>14, <1>0 DEF CloseRecorder, Closed
  <1>15. CASE StopRegulator
    BY <1>15, <1>0 DEF StopRegulator, Signal
  <1>16. CASE JoinRegulator
    BY <1>16, <1>0 DEF JoinRegulator
  <1>17. CASE CloseDecoder
    BY <1>17, <1>0 DEF CloseDecoder, Closed
  <1>18. CASE BufferingWaits
    BY <1>18, <1>0 DEF BufferingWaits
  <1>19. CASE DelayEnds
    BY <1>19, <1>0 DEF DelayEnds
  <1>20. CASE BufferingPushes
    BY <1>20, <1>0 DEF BufferingPushes, Pushed, SinkGets, None
  <1>21. CASE Flush
    BY <1>21, <1>0 DEF Flush, None
  <1>22. CASE UNCHANGED vars
    BY <1>22 DEF vars
  <1> QED
    BY <1>1, <1>2, <1>3, <1>4, <1>5, <1>6, <1>7, <1>8, <1>9, <1>10, <1>11,
       <1>12, <1>13, <1>14, <1>15, <1>16, <1>17, <1>18, <1>19, <1>20, <1>21,
       <1>22 DEF Next, Demux, Buffering

\* A step does not lose the last configuration.
LEMMA ConfigStep ==
    ASSUME TypeOK, ConfigIsKept, [Next]_vars
    PROVE  ConfigIsKept'
  <1> USE DEF ConfigIsKept, modeVars, demuxVars, codecVars, bufVars, regVars
  <1>0. /\ sent \in [items : Nat, session : Nat, config : Nat]
        /\ config \in Nat /\ pkt \in Packets
    BY DEF TypeOK
  <1>1. CASE RecvCodecId
    BY <1>1, <1>0 DEF RecvCodecId, Disabled
  <1>2. CASE RecvSession
    BY <1>2, <1>0 DEF RecvSession
  <1>3. CASE OpenDecoder
    BY <1>3, <1>0 DEF OpenDecoder, Opened, Closed
  <1>4. CASE OpenRecorder
    BY <1>4, <1>0 DEF OpenRecorder, Opened
  <1>5. CASE EndOfStream
    BY <1>5, <1>0 DEF EndOfStream
  <1>6. CASE RecvFails
    BY <1>6, <1>0 DEF RecvFails
  <1>7. CASE RecvNewSession
    BY <1>7, <1>0 DEF RecvNewSession, Pushed, SinkGets, Signal, None
  <1>8. ASSUME NEW kind \in {"config", "media"}, RecvPacket(kind)
        PROVE  ConfigIsKept'
    <2>1. sent'.config = sent.config + (IF kind = "config" THEN 1 ELSE 0)
      BY <1>0, <1>8 DEF RecvPacket
    <2>2. CASE kind = "config" /\ merge
      <3>1. config' = sent.config + 1 /\ pkt'.kind = "config"
        BY <1>0, <1>8, <2>2 DEF RecvPacket, Merged, None
      <3> QED
        BY <1>0, <1>8, <2>1, <2>2, <3>1 DEF RecvPacket
    <2>3. CASE kind = "media" /\ merge
      <3>1. config' = 0 /\ pkt'.kind = "media" /\ pkt'.config = config
        BY <1>0, <1>8, <2>3 DEF RecvPacket, Merged, None
      <3> QED
        BY <1>0, <1>8, <2>1, <2>3, <3>1 DEF RecvPacket
    <2> QED
      BY <1>8, <2>2, <2>3 DEF RecvPacket
  <1>9. CASE SendPacket
    BY <1>9, <1>0 DEF SendPacket, Pushed, None
  <1>10. CASE ReceiveFrame
    BY <1>10, <1>0 DEF ReceiveFrame
  <1>11. CASE PushFrame
    BY <1>11, <1>0 DEF PushFrame, Pushed, SinkGets
  <1>12. CASE RegulateFrame
    BY <1>12, <1>0 DEF RegulateFrame, ClockUpdated, Signal
  <1>13. CASE RecordPacket
    BY <1>13, <1>0 DEF RecordPacket, Pushed, None
  <1>14. CASE CloseRecorder
    BY <1>14, <1>0 DEF CloseRecorder, Closed
  <1>15. CASE StopRegulator
    BY <1>15, <1>0 DEF StopRegulator, Signal
  <1>16. CASE JoinRegulator
    BY <1>16, <1>0 DEF JoinRegulator
  <1>17. CASE CloseDecoder
    BY <1>17, <1>0 DEF CloseDecoder, Closed
  <1>18. CASE BufferingWaits
    BY <1>18, <1>0 DEF BufferingWaits
  <1>19. CASE DelayEnds
    BY <1>19, <1>0 DEF DelayEnds
  <1>20. CASE BufferingPushes
    BY <1>20, <1>0 DEF BufferingPushes, Pushed, SinkGets, None
  <1>21. CASE Flush
    BY <1>21, <1>0 DEF Flush, None
  <1>22. CASE UNCHANGED vars
    BY <1>22 DEF vars
  <1> QED
    BY <1>1, <1>2, <1>3, <1>4, <1>5, <1>6, <1>7, <1>8, <1>9, <1>10, <1>11,
       <1>12, <1>13, <1>14, <1>15, <1>16, <1>17, <1>18, <1>19, <1>20, <1>21,
       <1>22 DEF Next, Demux, Buffering

-----------------------------------------------------------------------------
(* The queue of the regulator.                                              *)

\* An empty queue leads from a frame and a session to the same.
LEMMA RunEmpty ==
    ASSUME NEW lo \in Nat, NEW cur \in Nat
    PROVE  Run(<<>>, lo, cur, lo, cur)
  <1>1. /\ [i \in 0 .. 0 |-> lo] \in [0 .. Len(<<>>) -> Nat]
        /\ [i \in 0 .. 0 |-> cur] \in [0 .. Len(<<>>) -> Nat]
    OBVIOUS
  <1>2. Leads(<<>>, lo, cur, lo, cur, [i \in 0 .. 0 |-> lo], [i \in 0 .. 0 |-> cur])
    BY DEF Leads
  <1> QED
    BY <1>1, <1>2 DEF Run

\* A frame at the end of the queue is the next one, of the last session.
LEMMA RunAppendFrame ==
    ASSUME NEW q \in Seq(Packets), NEW lo \in Nat, NEW cur \in Nat, NEW hi \in Nat,
           NEW last \in Nat, Run(q, lo, cur, hi, last),
           NEW p \in Packets, p.kind = "frame", p.id = hi + 1, p.session = last
    PROVE  Run(Append(q, p), lo, cur, hi + 1, last)
  <1>1. PICK n, c \in [0 .. Len(q) -> Nat] : Leads(q, lo, cur, hi, last, n, c)
    BY DEF Run
  <1> DEFINE N == [i \in 0 .. Len(q) + 1 |-> IF i <= Len(q) THEN n[i] ELSE hi + 1]
             C == [i \in 0 .. Len(q) + 1 |-> IF i <= Len(q) THEN c[i] ELSE last]
  <1>2. Len(q) \in Nat
    BY SeqElements
  <1>3. /\ Len(Append(q, p)) = Len(q) + 1
        /\ \A i \in 1 .. Len(q) : Append(q, p)[i] = q[i]
        /\ Append(q, p)[Len(q) + 1] = p
    BY SeqAppend
  <1>4. N \in [0 .. Len(q) + 1 -> Nat] /\ C \in [0 .. Len(q) + 1 -> Nat]
    BY <1>2
  <1>5. \A i \in 0 .. Len(q) : N[i] = n[i] /\ C[i] = c[i]
    BY <1>2
  <1>6. N[Len(q) + 1] = hi + 1 /\ C[Len(q) + 1] = last
    BY <1>2
  <1> HIDE DEF N, C
  <1>7. N[0] = lo /\ C[0] = cur /\ n[Len(q)] = hi /\ c[Len(q)] = last
    BY <1>1, <1>2, <1>5 DEF Leads
  <1>8. ASSUME NEW i \in 0 .. Len(q) + 1, NEW j \in 0 .. Len(q) + 1, i <= j
        PROVE  N[i] <= N[j]
    <2>1. \A k \in 0 .. Len(q) : n[k] <= hi
      BY <1>1, <1>2 DEF Leads
    <2>2. CASE j <= Len(q)
      BY <1>1, <1>2, <1>5, <1>8, <2>2 DEF Leads
    <2>3. CASE j = Len(q) + 1 /\ i <= Len(q)
      BY <1>2, <1>5, <1>6, <1>8, <2>1, <2>3
    <2>4. CASE j = Len(q) + 1 /\ i = Len(q) + 1
      BY <1>6, <2>4
    <2> QED
      BY <1>2, <1>8, <2>2, <2>3, <2>4
  <1>9. ASSUME NEW i \in 1 .. Len(q) + 1
        PROVE  \/ /\ Append(q, p)[i].kind = "frame" /\ Append(q, p)[i].id = N[i]
                  /\ Append(q, p)[i].session = C[i]
                  /\ N[i] = N[i - 1] + 1 /\ C[i] = C[i - 1]
               \/ /\ Append(q, p)[i].kind = "session" /\ Append(q, p)[i].session = C[i]
                  /\ N[i] = N[i - 1]
    <2>1. CASE i <= Len(q)
      <3>1. i \in 1 .. Len(q) /\ i \in 0 .. Len(q) /\ i - 1 \in 0 .. Len(q)
        BY <1>2, <2>1
      <3> QED
        BY <1>1, <1>3, <1>5, <3>1 DEF Leads
    <2>2. CASE i = Len(q) + 1
      <3>1. i - 1 = Len(q) /\ Len(q) \in 0 .. Len(q)
        BY <1>2, <2>2
      <3> QED
        BY <1>3, <1>5, <1>6, <1>7, <2>2, <3>1
    <2> QED
      BY <1>2, <2>1, <2>2
  <1>10. Leads(Append(q, p), lo, cur, hi + 1, last, N, C)
    BY <1>3, <1>6, <1>7, <1>8, <1>9 DEF Leads
  <1> QED
    BY <1>3, <1>4, <1>10 DEF Run

\* A session at the end of the queue is the last one.
LEMMA RunAppendSession ==
    ASSUME NEW q \in Seq(Packets), NEW lo \in Nat, NEW cur \in Nat, NEW hi \in Nat,
           NEW last \in Nat, Run(q, lo, cur, hi, last),
           NEW p \in Packets, p.kind = "session"
    PROVE  Run(Append(q, p), lo, cur, hi, p.session)
  <1>1. PICK n, c \in [0 .. Len(q) -> Nat] : Leads(q, lo, cur, hi, last, n, c)
    BY DEF Run
  <1> DEFINE N == [i \in 0 .. Len(q) + 1 |-> IF i <= Len(q) THEN n[i] ELSE hi]
             C == [i \in 0 .. Len(q) + 1 |-> IF i <= Len(q) THEN c[i] ELSE p.session]
  <1>2. Len(q) \in Nat
    BY SeqElements
  <1>3. /\ Len(Append(q, p)) = Len(q) + 1
        /\ \A i \in 1 .. Len(q) : Append(q, p)[i] = q[i]
        /\ Append(q, p)[Len(q) + 1] = p
    BY SeqAppend
  <1>4. N \in [0 .. Len(q) + 1 -> Nat] /\ C \in [0 .. Len(q) + 1 -> Nat]
    BY <1>2, PacketFields
  <1>5. \A i \in 0 .. Len(q) : N[i] = n[i] /\ C[i] = c[i]
    BY <1>2
  <1>6. N[Len(q) + 1] = hi /\ C[Len(q) + 1] = p.session
    BY <1>2
  <1> HIDE DEF N, C
  <1>7. N[0] = lo /\ C[0] = cur /\ n[Len(q)] = hi /\ c[Len(q)] = last
    BY <1>1, <1>2, <1>5 DEF Leads
  <1>8. ASSUME NEW i \in 0 .. Len(q) + 1, NEW j \in 0 .. Len(q) + 1, i <= j
        PROVE  N[i] <= N[j]
    <2>1. \A k \in 0 .. Len(q) : n[k] <= hi
      BY <1>1, <1>2 DEF Leads
    <2>2. CASE j <= Len(q)
      BY <1>1, <1>2, <1>5, <1>8, <2>2 DEF Leads
    <2>3. CASE j = Len(q) + 1 /\ i <= Len(q)
      BY <1>2, <1>5, <1>6, <1>8, <2>1, <2>3
    <2>4. CASE j = Len(q) + 1 /\ i = Len(q) + 1
      BY <1>6, <2>4
    <2> QED
      BY <1>2, <1>8, <2>2, <2>3, <2>4
  <1>9. ASSUME NEW i \in 1 .. Len(q) + 1
        PROVE  \/ /\ Append(q, p)[i].kind = "frame" /\ Append(q, p)[i].id = N[i]
                  /\ Append(q, p)[i].session = C[i]
                  /\ N[i] = N[i - 1] + 1 /\ C[i] = C[i - 1]
               \/ /\ Append(q, p)[i].kind = "session" /\ Append(q, p)[i].session = C[i]
                  /\ N[i] = N[i - 1]
    <2>1. CASE i <= Len(q)
      <3>1. i \in 1 .. Len(q) /\ i \in 0 .. Len(q) /\ i - 1 \in 0 .. Len(q)
        BY <1>2, <2>1
      <3> QED
        BY <1>1, <1>3, <1>5, <3>1 DEF Leads
    <2>2. CASE i = Len(q) + 1
      <3>1. i - 1 = Len(q) /\ Len(q) \in 0 .. Len(q)
        BY <1>2, <2>2
      <3> QED
        BY <1>3, <1>5, <1>6, <1>7, <2>2, <3>1
    <2> QED
      BY <1>2, <2>1, <2>2
  <1>10. Leads(Append(q, p), lo, cur, hi, p.session, N, C)
    BY <1>3, <1>6, <1>7, <1>8, <1>9 DEF Leads
  <1> QED
    BY <1>3, <1>4, <1>10 DEF Run

\* The first packet of the queue is the next frame, of the current session,
\* or a session; the rest leads on from there.
LEMMA RunTail ==
    ASSUME NEW q \in Seq(Packets), q # <<>>, NEW lo \in Nat, NEW cur \in Nat,
           NEW hi \in Nat, NEW last \in Nat, Run(q, lo, cur, hi, last)
    PROVE  \/ /\ Head(q).kind = "frame" /\ Head(q).id = lo + 1
              /\ Head(q).session = cur
              /\ Run(Tail(q), lo + 1, cur, hi, last)
           \/ /\ Head(q).kind = "session"
              /\ Run(Tail(q), lo, Head(q).session, hi, last)
  <1>1. PICK n, c \in [0 .. Len(q) -> Nat] : Leads(q, lo, cur, hi, last, n, c)
    BY DEF Run
  <1> DEFINE N == [i \in 0 .. Len(q) - 1 |-> n[i + 1]]
             C == [i \in 0 .. Len(q) - 1 |-> c[i + 1]]
  <1>2. Len(q) \in Nat /\ Len(q) > 0
    BY SeqElements
  <1>3. /\ Len(Tail(q)) = Len(q) - 1 /\ Head(q) = q[1]
        /\ \A i \in 1 .. Len(q) - 1 : Tail(q)[i] = q[i + 1]
    BY SeqElements
  <1>4. N \in [0 .. Len(q) - 1 -> Nat] /\ C \in [0 .. Len(q) - 1 -> Nat]
    BY <1>2
  <1>5. \A i \in 0 .. Len(q) - 1 : N[i] = n[i + 1] /\ C[i] = c[i + 1]
    BY <1>2
  <1> HIDE DEF N, C
  <1>6. /\ N[0] = n[1] /\ C[0] = c[1] /\ n[0] = lo /\ c[0] = cur
        /\ N[Len(q) - 1] = hi /\ C[Len(q) - 1] = last
    <2>1. /\ 0 \in 0 .. Len(q) - 1 /\ Len(q) - 1 \in 0 .. Len(q) - 1
          /\ 0 + 1 = 1 /\ (Len(q) - 1) + 1 = Len(q)
      BY <1>2
    <2>2. N[Len(q) - 1] = n[Len(q)] /\ C[Len(q) - 1] = c[Len(q)]
      BY <1>5, <2>1
    <2>3. N[0] = n[1] /\ C[0] = c[1]
      BY <1>5, <2>1
    <2> QED
      BY <1>1, <2>2, <2>3 DEF Leads
  <1>7. ASSUME NEW i \in 0 .. Len(q) - 1, NEW j \in 0 .. Len(q) - 1, i <= j
        PROVE  N[i] <= N[j]
    <2>1. i + 1 \in 0 .. Len(q) /\ j + 1 \in 0 .. Len(q) /\ i + 1 <= j + 1
      BY <1>2, <1>7
    <2> QED
      BY <1>1, <1>5, <2>1 DEF Leads
  <1>8. ASSUME NEW i \in 1 .. Len(q) - 1
        PROVE  \/ /\ Tail(q)[i].kind = "frame" /\ Tail(q)[i].id = N[i]
                  /\ Tail(q)[i].session = C[i]
                  /\ N[i] = N[i - 1] + 1 /\ C[i] = C[i - 1]
               \/ /\ Tail(q)[i].kind = "session" /\ Tail(q)[i].session = C[i]
                  /\ N[i] = N[i - 1]
    <2>1. /\ i + 1 \in 1 .. Len(q) /\ i \in 0 .. Len(q) - 1
          /\ i - 1 \in 0 .. Len(q) - 1 /\ (i - 1) + 1 = i /\ (i + 1) - 1 = i
      BY <1>2
    <2>2. N[i] = n[i + 1] /\ C[i] = c[i + 1] /\ N[i - 1] = n[i] /\ C[i - 1] = c[i]
      BY <1>5, <2>1
    <2>3. \/ /\ q[i + 1].kind = "frame" /\ q[i + 1].id = n[i + 1]
             /\ q[i + 1].session = c[i + 1]
             /\ n[i + 1] = n[i] + 1 /\ c[i + 1] = c[i]
          \/ /\ q[i + 1].kind = "session" /\ q[i + 1].session = c[i + 1]
             /\ n[i + 1] = n[i]
      BY <1>1, <2>1 DEF Leads
    <2> QED
      BY <1>3, <2>2, <2>3
  <1>9. Leads(Tail(q), n[1], c[1], hi, last, N, C)
    BY <1>3, <1>6, <1>7, <1>8 DEF Leads
  <1>10. Run(Tail(q), n[1], c[1], hi, last)
    BY <1>3, <1>4, <1>9 DEF Run
  <1>11. \/ /\ q[1].kind = "frame" /\ q[1].id = n[1] /\ q[1].session = c[1]
            /\ n[1] = n[0] + 1 /\ c[1] = c[0]
         \/ /\ q[1].kind = "session" /\ q[1].session = c[1]
            /\ n[1] = n[0]
    <2>1. 1 \in 1 .. Len(q) /\ 1 - 1 = 0
      BY <1>2
    <2> QED
      BY <1>1, <2>1 DEF Leads
  <1> QED
    BY <1>3, <1>6, <1>10, <1>11

\* The frames of the queue come after lo, and a queue that leads from no
\* frame to none holds only sessions: it leads as well from any other frame.
LEMMA RunBounds ==
    ASSUME NEW q \in Seq(Packets), NEW lo \in Nat, NEW cur \in Nat,
           NEW hi \in Nat, NEW last \in Nat, Run(q, lo, cur, hi, last)
    PROVE  lo <= hi /\ (lo = hi => Run(q, lo + 1, cur, hi + 1, last))
  <1>1. PICK n, c \in [0 .. Len(q) -> Nat] : Leads(q, lo, cur, hi, last, n, c)
    BY DEF Run
  <1>2. Len(q) \in Nat
    BY SeqElements
  <1>3. /\ n[0] = lo /\ c[0] = cur /\ n[Len(q)] = hi /\ c[Len(q)] = last
        /\ \A i \in 0 .. Len(q) : lo <= n[i] /\ n[i] <= hi
    BY <1>1, <1>2 DEF Leads
  <1>4. ASSUME lo = hi
        PROVE  Run(q, lo + 1, cur, hi + 1, last)
    <2> DEFINE N == [i \in 0 .. Len(q) |-> lo + 1]
    <2>1. N \in [0 .. Len(q) -> Nat] /\ \A i \in 0 .. Len(q) : N[i] = lo + 1
      OBVIOUS
    <2>2. \A i \in 0 .. Len(q) : n[i] = lo
      BY <1>3, <1>4
    <2> HIDE DEF N
    <2>3. ASSUME NEW i \in 1 .. Len(q)
          PROVE  q[i].kind = "session" /\ q[i].session = c[i] /\ N[i] = N[i - 1]
      <3>1. i \in 0 .. Len(q) /\ i - 1 \in 0 .. Len(q)
        BY <1>2
      <3>2. n[i] # n[i - 1] + 1
        BY <2>2, <3>1
      <3> QED
        BY <1>1, <2>1, <3>1, <3>2 DEF Leads
    <2>4. 0 \in 0 .. Len(q) /\ Len(q) \in 0 .. Len(q)
      BY <1>2
    <2>5. N[0] = lo + 1 /\ N[Len(q)] = hi + 1
      BY <1>4, <2>1, <2>4
    <2>6. \A i, j \in 0 .. Len(q) : i <= j => N[i] <= N[j]
      BY <2>1
    <2>7. Leads(q, lo + 1, cur, hi + 1, last, N, c)
      BY <1>3, <2>3, <2>5, <2>6 DEF Leads
    <2> QED
      BY <2>1, <2>7 DEF Run
  <1>5. lo <= hi
    BY <1>2, <1>3
  <1> QED
    BY <1>4, <1>5

-----------------------------------------------------------------------------
(* The order of the frames.                                                 *)

\* A step that opens nothing leaves everything as it was.
LEMMA FreshStep ==
    ASSUME TypeOK, SinksFollowPc, ThreadFollowsPc, Fresh, [Next]_vars
    PROVE  Fresh'
  <1> USE DEF Sinks, SinksFollowPc, Busy, Closing, ThreadFollowsPc, Fresh, modeVars, demuxVars, codecVars, bufVars, regVars
  <1>0. sink \in [Sinks -> {"new", "open", "closed", "disabled", "misused"}]
    BY DEF TypeOK
  <1>1. CASE RecvCodecId
    BY <1>1, <1>0 DEF RecvCodecId, Disabled
  <1>2. CASE RecvSession
    BY <1>2, <1>0 DEF RecvSession
  <1>3. CASE OpenDecoder
    BY <1>3, <1>0 DEF OpenDecoder, Opened, Closed
  <1>4. CASE OpenRecorder
    BY <1>4, <1>0 DEF OpenRecorder, Opened
  <1>5. CASE EndOfStream
    BY <1>5, <1>0 DEF EndOfStream
  <1>6. CASE RecvFails
    BY <1>6, <1>0 DEF RecvFails
  <1>7. CASE RecvNewSession
    BY <1>7, <1>0 DEF RecvNewSession, Pushed, SinkGets, Signal, None
  <1>8. ASSUME NEW kind \in {"config", "media"}, RecvPacket(kind)
        PROVE  Fresh'
    BY <1>8, <1>0 DEF RecvPacket, Merged, None
  <1>9. CASE SendPacket
    BY <1>9, <1>0 DEF SendPacket, Pushed, None
  <1>10. CASE ReceiveFrame
    BY <1>10, <1>0 DEF ReceiveFrame
  <1>11. CASE PushFrame
    BY <1>11, <1>0 DEF PushFrame, Pushed, SinkGets
  <1>12. CASE RegulateFrame
    BY <1>12, <1>0 DEF RegulateFrame, ClockUpdated, Signal
  <1>13. CASE RecordPacket
    BY <1>13, <1>0 DEF RecordPacket, Pushed, None
  <1>14. CASE CloseRecorder
    BY <1>14, <1>0 DEF CloseRecorder, Closed
  <1>15. CASE StopRegulator
    BY <1>15, <1>0 DEF StopRegulator, Signal
  <1>16. CASE JoinRegulator
    BY <1>16, <1>0 DEF JoinRegulator
  <1>17. CASE CloseDecoder
    BY <1>17, <1>0 DEF CloseDecoder, Closed
  <1>18. CASE BufferingWaits
    BY <1>18, <1>0 DEF BufferingWaits
  <1>19. CASE DelayEnds
    BY <1>19, <1>0 DEF DelayEnds
  <1>20. CASE BufferingPushes
    BY <1>20, <1>0 DEF BufferingPushes, Pushed, SinkGets, None
  <1>21. CASE Flush
    BY <1>21, <1>0 DEF Flush, None
  <1>22. CASE UNCHANGED vars
    BY <1>22 DEF vars
  <1> QED
    BY <1>1, <1>2, <1>3, <1>4, <1>5, <1>6, <1>7, <1>8, <1>9, <1>10, <1>11,
       <1>12, <1>13, <1>14, <1>15, <1>16, <1>17, <1>18, <1>19, <1>20, <1>21,
       <1>22 DEF Next, Demux, Buffering

\* A step keeps the frames in the codec in order.
LEMMA CodecStep ==
    ASSUME TypeOK, CodecInOrder, [Next]_vars
    PROVE  CodecInOrder'
  <1> USE DEF CodecInOrder, modeVars, demuxVars, codecVars, bufVars, regVars
  <1>0. /\ sent \in [items : Nat, session : Nat, config : Nat]
        /\ codec \in Seq(Packets) /\ given \in Nat
    BY DEF TypeOK
  <1>a. Len(codec) \in Nat /\ (codec = <<>> <=> Len(codec) = 0)
    BY <1>0, SeqElements
  <1>1. CASE RecvCodecId
    BY <1>1, <1>0 DEF RecvCodecId, Disabled
  <1>2. CASE RecvSession
    BY <1>2, <1>0 DEF RecvSession
  <1>3. CASE OpenDecoder
    BY <1>3, <1>0 DEF OpenDecoder, Opened, Closed
  <1>4. CASE OpenRecorder
    BY <1>4, <1>0 DEF OpenRecorder, Opened
  <1>5. CASE EndOfStream
    BY <1>5, <1>0 DEF EndOfStream
  <1>6. CASE RecvFails
    BY <1>6, <1>0 DEF RecvFails
  <1>7. CASE RecvNewSession
    BY <1>7, <1>0 DEF RecvNewSession, Pushed, SinkGets, Signal, None
  <1>8. ASSUME NEW kind \in {"config", "media"}, RecvPacket(kind)
        PROVE  CodecInOrder'
    BY <1>8, <1>0 DEF RecvPacket
  <1>9. CASE SendPacket
    <2> DEFINE f == [None EXCEPT !.kind = "frame", !.id = given + 1]
    <2>1. CASE codec' = Append(codec, f) /\ given' = given + 1
      <3>1. f \in Packets /\ f.kind = "frame" /\ f.id = given + 1
        <4>1. given + 1 \in Nat
          BY <1>0
        <4>2. f \in Packets
          BY <4>1, PacketsMade
        <4>3. f.kind = "frame" /\ f.id = given + 1
          BY DEF None
        <4> QED
          BY <4>2, <4>3
      <3> HIDE DEF f
      <3>2. /\ Len(codec') = Len(codec) + 1
            /\ \A i \in 1 .. Len(codec) : codec'[i] = codec[i]
            /\ codec'[Len(codec) + 1] = f
        BY <1>0, <2>1, <3>1, SeqAppend
      <3>3. ASSUME NEW i \in 1 .. Len(codec')
            PROVE  codec'[i].kind = "frame" /\ codec'[i].id = given' - Len(codec') + i
        <4>1. i \in 1 .. Len(codec) \/ i = Len(codec) + 1
          BY <1>a, <3>2
        <4>2. given' - Len(codec') = given - Len(codec)
          BY <1>0, <1>a, <2>1, <3>2
        <4>3. CASE i \in 1 .. Len(codec)
          BY <3>2, <4>2, <4>3
        <4>4. CASE i = Len(codec) + 1
          <5>1. given + 1 = given - Len(codec) + i
            BY <1>0, <1>a, <4>4
          <5> QED
            BY <3>1, <3>2, <4>2, <4>4, <5>1
        <4> QED
          BY <4>1, <4>3, <4>4
      <3>4. Len(codec') <= given'
        BY <1>0, <1>a, <2>1, <3>2
      <3> QED
        BY <1>9, <3>3, <3>4 DEF SendPacket
    <2>2. CASE codec' = codec /\ given' = given
      BY <1>9, <2>2 DEF SendPacket
    <2> QED
      BY <1>9, <2>1, <2>2 DEF SendPacket
  <1>10. CASE ReceiveFrame
    <2>1. CASE codec = <<>> \/ pc' # "push"
      BY <1>10, <2>1 DEF ReceiveFrame
    <2>2. CASE codec # <<>> /\ pc' = "push"
      <3>1. /\ frames' = <<[Head(codec) EXCEPT !.session = sent.session]>>
            /\ codec' = Tail(codec) /\ given' = given /\ sent' = sent
        BY <1>10, <2>2 DEF ReceiveFrame
      <3>2. /\ Head(codec) = codec[1] /\ Head(codec) \in Packets
            /\ Len(codec') = Len(codec) - 1 /\ Len(codec) > 0
            /\ \A i \in 1 .. Len(codec) - 1 : codec'[i] = codec[i + 1]
        BY <1>0, <1>a, <2>2, <3>1, SeqElements
      <3>3. ASSUME NEW i \in 1 .. Len(codec')
            PROVE  codec'[i].kind = "frame" /\ codec'[i].id = given' - Len(codec') + i
        <4>1. i + 1 \in 1 .. Len(codec) /\ i \in 1 .. Len(codec) - 1
          BY <1>a, <3>2
        <4>2. given - Len(codec) + (i + 1) = given' - Len(codec') + i
          BY <1>0, <1>a, <3>1, <3>2
        <4>3. codec'[i] = codec[i + 1]
          BY <3>2, <4>1
        <4>4. /\ codec[i + 1].kind = "frame"
              /\ codec[i + 1].id = given - Len(codec) + (i + 1)
          BY <4>1
        <4> QED
          BY <4>2, <4>3, <4>4
      <3>4. codec[1].kind = "frame" /\ codec[1].id = given' - Len(codec')
        <4>1. 1 \in 1 .. Len(codec) /\ given - Len(codec) + 1 = given' - Len(codec')
          BY <1>0, <1>a, <3>1, <3>2
        <4> QED
          BY <4>1
      <3>5. /\ Len(frames') = 1 /\ frames'[1].kind = "frame"
            /\ frames'[1].session = sent'.session /\ frames'[1].id = given' - Len(codec')
        BY <3>1, <3>2, <3>4 DEF Packets
      <3>6. Len(codec') <= given'
        BY <1>0, <1>a, <3>1, <3>2
      <3> QED
        BY <2>2, <3>3, <3>5, <3>6
    <2> QED
      BY <2>1, <2>2
  <1>11. CASE PushFrame
    BY <1>11, <1>0 DEF PushFrame
  <1>12. CASE RegulateFrame
    BY <1>12, <1>0 DEF RegulateFrame, ClockUpdated, Signal
  <1>13. CASE RecordPacket
    BY <1>13, <1>0 DEF RecordPacket, Pushed, None
  <1>14. CASE CloseRecorder
    BY <1>14, <1>0 DEF CloseRecorder, Closed
  <1>15. CASE StopRegulator
    BY <1>15, <1>0 DEF StopRegulator, Signal
  <1>16. CASE JoinRegulator
    BY <1>16, <1>0 DEF JoinRegulator
  <1>17. CASE CloseDecoder
    BY <1>17, <1>0 DEF CloseDecoder, Closed
  <1>18. CASE BufferingWaits
    BY <1>18, <1>0 DEF BufferingWaits
  <1>19. CASE DelayEnds
    BY <1>19, <1>0 DEF DelayEnds
  <1>20. CASE BufferingPushes
    BY <1>20, <1>0 DEF BufferingPushes
  <1>21. CASE Flush
    BY <1>21, <1>0 DEF Flush, None
  <1>22. CASE UNCHANGED vars
    BY <1>22 DEF vars
  <1> QED
    BY <1>1, <1>2, <1>3, <1>4, <1>5, <1>6, <1>7, <1>8, <1>9, <1>10, <1>11,
       <1>12, <1>13, <1>14, <1>15, <1>16, <1>17, <1>18, <1>19, <1>20, <1>21,
       <1>22 DEF Next, Demux, Buffering

\* When the first frame is about to be pushed from the demuxer, nothing was
\* shown and no frame is in the hands of the buffering thread.
LEMMA FirstIsAlone ==
    ASSUME IInv, pc = "asap"
    PROVE  /\ bpc \in {"check", "sleep", "delay", "push"} /\ regulated /\ ~stopped
           /\ shown.id = 0 /\ HeldId = 0 /\ held.kind # "frame"
           /\ Head(frames).id = 1 /\ frames # <<>> /\ Head(frames).kind = "frame"
           /\ given' = given /\ codec' = codec /\ frames' = <<>> => Out' = 1
           /\ \E last \in Nat : /\ last = sent.session
                                /\ Run(queue, 0, HeldSession, 0, last)
  <1>1. regulated /\ ~stopped /\ Out = 0 /\ sink["decoder"] = "open" /\ Streaming
    BY DEF IInv, ThreadFollowsPc, StreamInOrder, SinksFollowPc, Busy, Sinks, Streaming
  <1>2. bpc \in {"check", "sleep", "delay", "push"}
    BY <1>1 DEF IInv, ThreadFollowsPc, TypeOK
  <1>3. /\ queue \in Seq(Packets) /\ held \in Packets /\ given \in Nat
        /\ shown \in [id : Nat, session : Nat, current : Nat]
        /\ codec \in Seq(Packets) /\ frames \in Seq(Packets)
    BY DEF IInv, TypeOK
  <1>4. PICK hi, last \in Nat : /\ Run(queue, HeldId, HeldSession, hi, last)
                                /\ hi = Out /\ last = sent.session
    BY <1>1, <1>2 DEF IInv, QueueInOrder
  <1>5. HeldId \in Nat /\ HeldSession \in Nat
    BY <1>3, PacketFields DEF HeldId, HeldSession
  <1>6. HeldId = 0
    <2>1. HeldId <= 0
      BY <1>1, <1>3, <1>4, <1>5, RunBounds
    <2> QED
      BY <1>5, <2>1
  <1>7. held.kind # "frame"
    <2> SUFFICES ASSUME held.kind = "frame" PROVE FALSE
      OBVIOUS
    <2>1. bpc \in {"delay", "push"}
      BY <1>2 DEF IInv, HeldFollowsBpc, None
    <2>2. held.id = shown.id + 1
      BY <2>1 DEF IInv, HeldFollowsBpc
    <2> QED
      BY <1>3, <1>6, <2>2 DEF HeldId
  <1>8. shown.id = 0
    BY <1>6, <1>7 DEF HeldId
  <1>9. /\ Len(frames) = 1 /\ frames[1].kind = "frame"
        /\ frames[1].id = given - Len(codec)
    BY DEF IInv, CodecInOrder
  <1>10. Len(codec) \in Nat
    BY <1>3, SeqElements
  <1>11. frames # <<>> /\ Head(frames) = frames[1]
    <2>1. frames \in Seq(Packets) /\ Len(frames) = 1
      BY <1>3, <1>9
    <2> QED
      BY <2>1, OnlyElement
  <1>12. given - Len(codec) = 1
    BY <1>1, <1>3, <1>9, <1>10 DEF Out
  <1>13. given' = given /\ codec' = codec /\ frames' = <<>> => Out' = 1
    BY <1>12, <1>10, <1>3 DEF Out
  <1> QED
    BY <1>1, <1>2, <1>4, <1>6, <1>7, <1>8, <1>9, <1>11, <1>12, <1>13

\* A step keeps what the buffering thread holds.
LEMMA HeldStep ==
    ASSUME IInv, [Next]_vars
    PROVE  HeldFollowsBpc'
  <1> USE DEF modeVars, demuxVars, codecVars, bufVars, regVars
  <1>0. /\ queue \in Seq(Packets) /\ held \in Packets
        /\ shown \in [id : Nat, session : Nat, current : Nat]
    BY DEF IInv, TypeOK
  <1>a. HeldFollowsBpc /\ ThreadFollowsPc
    BY DEF IInv
  <1>1. CASE RecvCodecId
    BY <1>a, <1>1 DEF HeldFollowsBpc, RecvCodecId
  <1>2. CASE RecvSession
    BY <1>a, <1>2 DEF HeldFollowsBpc, RecvSession
  <1>3. CASE OpenDecoder
    <2>1. held = None
      BY <1>3 DEF OpenDecoder, IInv, Fresh
    <2> QED
      BY <1>a, <1>3, <2>1 DEF OpenDecoder, HeldFollowsBpc, None
  <1>4. CASE OpenRecorder
    BY <1>a, <1>4 DEF HeldFollowsBpc, OpenRecorder
  <1>5. CASE EndOfStream
    BY <1>a, <1>5 DEF HeldFollowsBpc, EndOfStream
  <1>6. CASE RecvFails
    BY <1>a, <1>6 DEF HeldFollowsBpc, RecvFails
  <1>7. CASE RecvNewSession
    <2>1. CASE ~regulated
      BY <1>a, <1>7, <2>1 DEF RecvNewSession, HeldFollowsBpc, ThreadFollowsPc
    <2>2. CASE regulated
      BY <1>a, <1>7, <2>2 DEF RecvNewSession, Signal, HeldFollowsBpc
    <2> QED
      BY <2>1, <2>2
  <1>8. ASSUME NEW kind \in {"config", "media"}, RecvPacket(kind)
        PROVE  HeldFollowsBpc'
    BY <1>a, <1>8 DEF HeldFollowsBpc, RecvPacket
  <1>9. CASE SendPacket
    BY <1>a, <1>9 DEF HeldFollowsBpc, SendPacket
  <1>10. CASE ReceiveFrame
    BY <1>a, <1>10 DEF HeldFollowsBpc, ReceiveFrame
  <1>11. CASE PushFrame
    <2>1. CASE ~regulated
      BY <1>a, <1>11, <2>1 DEF PushFrame, HeldFollowsBpc, ThreadFollowsPc
    <2>2. CASE regulated
      <3>1. held.kind # "frame"
        BY <1>11, <2>2, FirstIsAlone DEF PushFrame
      <3> QED
        BY <1>a, <1>11, <3>1 DEF PushFrame, HeldFollowsBpc
    <2> QED
      BY <2>1, <2>2
  <1>12. CASE RegulateFrame
    BY <1>a, <1>12 DEF HeldFollowsBpc, RegulateFrame, Signal
  <1>13. CASE RecordPacket
    BY <1>a, <1>13 DEF HeldFollowsBpc, RecordPacket
  <1>14. CASE CloseRecorder
    BY <1>a, <1>14 DEF HeldFollowsBpc, CloseRecorder
  <1>15. CASE StopRegulator
    BY <1>a, <1>15 DEF HeldFollowsBpc, StopRegulator, Signal
  <1>16. CASE JoinRegulator
    BY <1>a, <1>16 DEF HeldFollowsBpc, JoinRegulator
  <1>17. CASE CloseDecoder
    BY <1>a, <1>17 DEF HeldFollowsBpc, CloseDecoder
  <1>18. CASE BufferingWaits
    <2>1. CASE stopped \/ queue = <<>>
      BY <1>a, <1>18, <2>1 DEF BufferingWaits, HeldFollowsBpc
    <2>2. CASE ~stopped /\ queue # <<>>
      <3>1. /\ bpc = "check" /\ held = None /\ held' = Head(queue)
            /\ bpc' = IF Head(queue).kind = "frame" THEN "delay" ELSE "push"
            /\ shown' = shown
        BY <1>a, <1>18, <2>2 DEF BufferingWaits, HeldFollowsBpc
      <3>2. HeldId = shown.id /\ HeldSession = shown.current
        BY <3>1 DEF HeldId, HeldSession, None
      <3>3. PICK hi, last \in Nat : Run(queue, shown.id, shown.current, hi, last)
        BY <3>1, <3>2 DEF IInv, QueueInOrder
      <3>4. \/ /\ Head(queue).kind = "frame" /\ Head(queue).id = shown.id + 1
               /\ Head(queue).session = shown.current
            \/ Head(queue).kind = "session"
        BY <1>0, <2>2, <3>3, RunTail
      <3> QED
        BY <3>1, <3>4 DEF HeldFollowsBpc
    <2> QED
      BY <2>1, <2>2
  <1>19. CASE DelayEnds
    BY <1>a, <1>19 DEF HeldFollowsBpc, DelayEnds
  <1>20. CASE BufferingPushes
    BY <1>20 DEF BufferingPushes, HeldFollowsBpc, None
  <1>21. CASE Flush
    BY <1>21 DEF Flush, HeldFollowsBpc, None
  <1>22. CASE UNCHANGED vars
    BY <1>a, <1>22 DEF vars, HeldFollowsBpc
  <1> QED
    BY <1>1, <1>2, <1>3, <1>4, <1>5, <1>6, <1>7, <1>8, <1>9, <1>10, <1>11,
       <1>12, <1>13, <1>14, <1>15, <1>16, <1>17, <1>18, <1>19, <1>20, <1>21,
       <1>22 DEF Next, Demux, Buffering

\* The queue is as good as it was if it, what is before it and what left the
\* decoder stay the same.
LEMMA QueueKept ==
    ASSUME QueueInOrder, queue' = queue, held' = held, shown' = shown,
           bpc' \in {"check", "sleep", "delay", "push"} =>
             bpc \in {"check", "sleep", "delay", "push"},
           Streaming' => Streaming /\ Out' = Out /\ sent'.session = sent.session
    PROVE  QueueInOrder'
  <1> SUFFICES ASSUME bpc' \in {"check", "sleep", "delay", "push"}
               PROVE  \E hi, last \in Nat :
                        /\ Run(queue', HeldId', HeldSession', hi, last)
                        /\ Streaming' => hi = Out' /\ last = sent'.session
    BY DEF QueueInOrder
  <1>1. PICK hi, last \in Nat : /\ Run(queue, HeldId, HeldSession, hi, last)
                                /\ Streaming => hi = Out /\ last = sent.session
    BY DEF QueueInOrder
  <1>2. HeldId' = HeldId /\ HeldSession' = HeldSession
    BY DEF HeldId, HeldSession
  <1>3. Run(queue', HeldId', HeldSession', hi, last)
    BY <1>1, <1>2
  <1> QED
    BY <1>1, <1>3

\* What leaves the decoder changes only when a frame is pushed.
LEMMA OutKept ==
    ASSUME IInv
    PROVE  /\ UNCHANGED <<codec, frames, given>> => Out' = Out
           /\ SendPacket => Out' = Out
           /\ ReceiveFrame => Out' = Out
           /\ pc \in {"push", "asap"} =>
                /\ Head(frames) \in Packets /\ Head(frames).kind = "frame"
                /\ Head(frames).id = Out + 1 /\ Head(frames).session = sent.session
                /\ UNCHANGED <<codec, given>> /\ frames' = <<>> => Out' = Out + 1
  <1>1. codec \in Seq(Packets)
    BY DEF IInv, TypeOK
  <1>2. frames \in Seq(Packets)
    BY DEF IInv, TypeOK
  <1>3. given \in Nat /\ CodecInOrder
    BY DEF IInv, TypeOK
  <1>4. Len(codec) \in Nat /\ (codec # <<>> => Len(Tail(codec)) = Len(codec) - 1)
    BY <1>1, SeqElements
  <1>5. Len(frames) \in Nat
    BY <1>2, SeqElements
  <1>6. UNCHANGED <<codec, frames, given>> => Out' = Out
    BY DEF Out
  <1>7. ASSUME SendPacket PROVE Out' = Out
    <2>1. CASE UNCHANGED <<codec, given>>
      BY <1>6, <1>7, <2>1 DEF SendPacket
    <2>2. CASE ~UNCHANGED <<codec, given>>
      <3> DEFINE f == [None EXCEPT !.kind = "frame", !.id = given + 1]
      <3>1. given' = given + 1 /\ codec' = Append(codec, f) /\ frames' = frames
        BY <1>7, <2>2 DEF SendPacket
      <3>2. given + 1 \in Nat
        BY <1>3
      <3>3. f \in Packets
        BY <3>2, PacketsMade
      <3> HIDE DEF f
      <3>4. Len(codec') = Len(codec) + 1
        BY <1>1, <3>1, <3>3, SeqAppend
      <3> QED
        BY <1>3, <1>4, <1>5, <3>1, <3>4 DEF Out
    <2> QED
      BY <2>1, <2>2
  <1>8. ASSUME ReceiveFrame PROVE Out' = Out
    <2>1. CASE UNCHANGED <<codec, frames>>
      BY <1>6, <1>8, <2>1 DEF ReceiveFrame
    <2>2. CASE ~UNCHANGED <<codec, frames>>
      <3>1. /\ codec # <<>> /\ codec' = Tail(codec) /\ given' = given
            /\ frames' = <<[Head(codec) EXCEPT !.session = sent.session]>>
            /\ frames = <<>>
        BY <1>3, <1>8, <2>2 DEF ReceiveFrame, CodecInOrder
      <3>2. Len(frames') = 1 /\ Len(frames) = 0
        BY <3>1
      <3> QED
        BY <1>3, <1>4, <3>1, <3>2 DEF Out
    <2> QED
      BY <2>1, <2>2
  <1>9. ASSUME pc \in {"push", "asap"}
        PROVE  /\ Head(frames) \in Packets /\ Head(frames).kind = "frame"
               /\ Head(frames).id = Out + 1 /\ Head(frames).session = sent.session
               /\ UNCHANGED <<codec, given>> /\ frames' = <<>> => Out' = Out + 1
    <2>1. /\ Len(frames) = 1 /\ frames[1].kind = "frame"
          /\ frames[1].session = sent.session /\ frames[1].id = given - Len(codec)
      BY <1>3, <1>9 DEF CodecInOrder
    <2>2. Head(frames) = frames[1] /\ Head(frames) \in Packets
      BY <1>2, <2>1, OnlyElement
    <2>3. given - Len(codec) = Out + 1
      BY <1>3, <1>4, <2>1 DEF Out
    <2>4. UNCHANGED <<codec, given>> /\ frames' = <<>> => Out' = Out + 1
      BY <1>3, <1>4, <2>3 DEF Out
    <2> QED
      BY <2>1, <2>2, <2>3, <2>4
  <1> QED
    BY <1>6, <1>7, <1>8, <1>9

\* A step keeps the queue in order.
LEMMA QueueStep ==
    ASSUME IInv, [Next]_vars
    PROVE  QueueInOrder'
  <1> USE DEF modeVars, demuxVars, codecVars, bufVars, regVars
  <1>0. QueueInOrder
    BY DEF IInv
  <1>a. sink \in [Sinks -> {"new", "open", "closed", "disabled", "misused"}]
    BY DEF IInv, TypeOK
  <1>b. queue \in Seq(Packets)
    BY DEF IInv, TypeOK
  <1>c. /\ held \in Packets /\ HeldId \in Nat /\ HeldSession \in Nat
        /\ shown \in [id : Nat, session : Nat, current : Nat]
        /\ sent \in [items : Nat, session : Nat, config : Nat]
    BY PacketFields DEF IInv, TypeOK, HeldId, HeldSession
  <1>1. CASE RecvCodecId
    <2>1. /\ queue' = queue /\ held' = held /\ shown' = shown
          /\ bpc' \in {"check", "sleep", "delay", "push"} => bpc \in {"check", "sleep", "delay", "push"}
      BY <1>1 DEF RecvCodecId
    <2>2. Streaming' => Streaming /\ Out' = Out /\ sent'.session = sent.session
      BY <1>a, <1>c, <1>1, OutKept DEF RecvCodecId, Streaming, Busy, Sinks,
         Disabled, IInv, SinksFollowPc
    <2> QED
      BY <1>0, <2>1, <2>2, QueueKept
  <1>2. CASE RecvSession
    <2>1. /\ queue' = queue /\ held' = held /\ shown' = shown
          /\ bpc' \in {"check", "sleep", "delay", "push"} => bpc \in {"check", "sleep", "delay", "push"}
      BY <1>2 DEF RecvSession
    <2>2. Streaming' => Streaming /\ Out' = Out /\ sent'.session = sent.session
      BY <1>a, <1>c, <1>2, OutKept DEF RecvSession, Streaming, Busy, Sinks,
         IInv, SinksFollowPc
    <2> QED
      BY <1>0, <2>1, <2>2, QueueKept
  <1>3. CASE OpenDecoder
    <2>1. CASE bpc' \notin {"check", "sleep", "delay", "push"}
      BY <2>1 DEF QueueInOrder
    <2>2. CASE bpc' \in {"check", "sleep", "delay", "push"} /\ pc' = "ended"
      <3>1. bpc' = bpc /\ bpc = "none"
        BY <1>3, <2>2 DEF OpenDecoder, IInv, ThreadFollowsPc
      <3> QED
        BY <2>2, <3>1
    <2>3. CASE bpc' \in {"check", "sleep", "delay", "push"} /\ pc' # "ended"
      <3>1. /\ shown' = [shown EXCEPT !.current = sent.session]
            /\ held = None /\ queue = <<>> /\ shown.id = 0
            /\ UNCHANGED <<held, queue, codec, frames, given, sent>>
            /\ codec = <<>> /\ frames = <<>> /\ given = 0
        BY <1>3, <2>3 DEF OpenDecoder, IInv, Fresh
      <3>2. HeldId' = 0 /\ HeldSession' = sent.session /\ Out' = 0
        <4>1. shown'.id = 0 /\ shown'.current = sent.session /\ held'.kind = "none"
          BY <1>c, <3>1 DEF None
        <4>2. Len(codec') = 0 /\ Len(frames') = 0 /\ given' = 0
          BY <3>1
        <4> QED
          BY <4>1, <4>2 DEF HeldId, HeldSession, Out
      <3>3. Run(queue', HeldId', HeldSession', 0, sent.session)
        BY <1>c, <3>1, <3>2, RunEmpty
      <3> QED
        BY <1>c, <3>1, <3>2, <3>3 DEF QueueInOrder
    <2> QED
      BY <2>1, <2>2, <2>3
  <1>4. CASE OpenRecorder
    <2>1. /\ queue' = queue /\ held' = held /\ shown' = shown
          /\ bpc' \in {"check", "sleep", "delay", "push"} => bpc \in {"check", "sleep", "delay", "push"}
      BY <1>4 DEF OpenRecorder
    <2>2. Streaming' => Streaming /\ Out' = Out /\ sent'.session = sent.session
      BY <1>a, <1>c, <1>4, OutKept DEF OpenRecorder, Streaming, Busy, Sinks,
         Opened
    <2> QED
      BY <1>0, <2>1, <2>2, QueueKept
  <1>5. CASE EndOfStream
    <2>1. /\ queue' = queue /\ held' = held /\ shown' = shown
          /\ bpc' \in {"check", "sleep", "delay", "push"} => bpc \in {"check", "sleep", "delay", "push"}
      BY <1>5 DEF EndOfStream
    <2>2. Streaming' => Streaming /\ Out' = Out /\ sent'.session = sent.session
      BY <1>a, <1>c, <1>5, OutKept DEF EndOfStream, Streaming, Busy, Sinks
    <2> QED
      BY <1>0, <2>1, <2>2, QueueKept
  <1>6. CASE RecvFails
    <2>1. /\ queue' = queue /\ held' = held /\ shown' = shown
          /\ bpc' \in {"check", "sleep", "delay", "push"} => bpc \in {"check", "sleep", "delay", "push"}
      BY <1>6 DEF RecvFails
    <2>2. Streaming' => Streaming /\ Out' = Out /\ sent'.session = sent.session
      BY <1>a, <1>c, <1>6, OutKept DEF RecvFails, Streaming, Busy, Sinks
    <2> QED
      BY <1>0, <2>1, <2>2, QueueKept
  <1>7. CASE RecvNewSession
    <2> DEFINE p == [None EXCEPT !.kind = "session", !.session = sent.session + 1]
    <2>0. /\ p \in Packets /\ p.kind = "session" /\ p.session = sent.session + 1
          /\ sent'.session = sent.session + 1
      <3>1. sent.session + 1 \in Nat
        BY <1>c
      <3>2. p \in Packets
        BY <3>1, PacketsMade
      <3>3. p.kind = "session" /\ p.session = sent.session + 1
        BY DEF None
      <3>4. sent'.session = sent.session + 1
        BY <1>c, <1>7 DEF RecvNewSession
      <3> QED
        BY <3>2, <3>3, <3>4
    <2>1. CASE ~regulated
      <3>1. bpc' = "none"
        BY <1>7, <2>1 DEF RecvNewSession, IInv, ThreadFollowsPc
      <3> QED
        BY <3>1 DEF QueueInOrder
    <2>2. CASE regulated /\ stopped
      <3>1. /\ queue' = queue /\ held' = held /\ shown' = shown
            /\ bpc' = bpc /\ pc' = "close"
        BY <1>7, <2>2 DEF RecvNewSession
      <3>2. ~Streaming'
        BY <3>1 DEF Streaming, Busy
      <3> QED
        BY <1>0, <3>1, <3>2, QueueKept
    <2>3. CASE regulated /\ ~stopped
      <3> SUFFICES ASSUME bpc' \in {"check", "sleep", "delay", "push"}
                   PROVE  QueueInOrder'
        BY DEF QueueInOrder
      <3>1. /\ queue' = Append(queue, p) /\ held' = held /\ shown' = shown
            /\ UNCHANGED <<pc, sink, codec, frames, given>> /\ pc = "loop"
        BY <1>7, <2>3 DEF RecvNewSession
      <3>2. bpc \in {"check", "sleep", "delay", "push"}
        BY <1>7, <2>3 DEF RecvNewSession, Signal
      <3>3. PICK hi, last \in Nat : /\ Run(queue, HeldId, HeldSession, hi, last)
                                    /\ Streaming => hi = Out /\ last = sent.session
        BY <1>0, <3>2 DEF QueueInOrder
      <3> HIDE DEF p
      <3>4. Run(queue', HeldId, HeldSession, hi, p.session)
        BY <1>b, <1>c, <2>0, <3>1, <3>3, RunAppendSession
      <3>5. HeldId' = HeldId /\ HeldSession' = HeldSession
        BY <3>1 DEF HeldId, HeldSession
      <3>6. Streaming' => hi = Out' /\ p.session = sent'.session
        BY <2>0, <3>1, <3>3, OutKept DEF Streaming
      <3>7. p.session \in Nat
        BY <2>0, PacketFields
      <3> QED
        BY <3>4, <3>5, <3>6, <3>7 DEF QueueInOrder
    <2> QED
      BY <2>1, <2>2, <2>3
  <1>8. ASSUME NEW kind \in {"config", "media"}, RecvPacket(kind)
        PROVE  QueueInOrder'
    <2>1. /\ queue' = queue /\ held' = held /\ shown' = shown
          /\ bpc' \in {"check", "sleep", "delay", "push"} => bpc \in {"check", "sleep", "delay", "push"}
      BY <1>8 DEF RecvPacket
    <2>2. Streaming' => Streaming /\ Out' = Out /\ sent'.session = sent.session
      BY <1>a, <1>c, <1>8, OutKept DEF RecvPacket, Streaming, Busy, Sinks
    <2> QED
      BY <1>0, <2>1, <2>2, QueueKept
  <1>9. CASE SendPacket
    <2>1. /\ queue' = queue /\ held' = held /\ shown' = shown
          /\ bpc' \in {"check", "sleep", "delay", "push"} => bpc \in {"check", "sleep", "delay", "push"}
      BY <1>9 DEF SendPacket
    <2>2. Streaming' => Streaming /\ Out' = Out /\ sent'.session = sent.session
      BY <1>a, <1>c, <1>9, OutKept DEF SendPacket, Streaming, Busy, Sinks,
         IInv, SinksFollowPc
    <2> QED
      BY <1>0, <2>1, <2>2, QueueKept
  <1>10. CASE ReceiveFrame
    <2>1. /\ queue' = queue /\ held' = held /\ shown' = shown
          /\ bpc' \in {"check", "sleep", "delay", "push"} => bpc \in {"check", "sleep", "delay", "push"}
      BY <1>10 DEF ReceiveFrame
    <2>2. Streaming' => Streaming /\ Out' = Out /\ sent'.session = sent.session
      BY <1>a, <1>c, <1>10, OutKept DEF ReceiveFrame, Streaming, Busy, Sinks
    <2> QED
      BY <1>0, <2>1, <2>2, QueueKept
  <1>11. CASE PushFrame
    <2>1. CASE ~regulated
      <3>1. bpc' = "none"
        BY <1>11, <2>1 DEF PushFrame, IInv, ThreadFollowsPc
      <3> QED
        BY <3>1 DEF QueueInOrder
    <2>2. CASE regulated /\ pc' = "close"
      <3>1. /\ queue' = queue /\ held' = held /\ shown' = shown /\ bpc' = bpc
        BY <1>11, <2>2 DEF PushFrame
      <3>2. ~Streaming'
        BY <2>2 DEF Streaming, Busy
      <3> QED
        BY <1>0, <3>1, <3>2, QueueKept
    <2>3. CASE regulated /\ pc' # "close"
      <3>1. /\ pc = "asap" /\ shown' = SinkGets(Head(frames))
            /\ UNCHANGED <<queue, held, bpc, sent, codec, given>> /\ frames' = <<>>
        BY <1>11, <2>3 DEF PushFrame
      <3>2. /\ held.kind # "frame" /\ Head(frames).id = 1 /\ Head(frames).kind = "frame"
            /\ Out' = 1
            /\ \E last \in Nat : last = sent.session /\ Run(queue, 0, HeldSession, 0, last)
        BY <3>1, FirstIsAlone
      <3>3. shown'.id = 1 /\ shown'.current = shown.current
        BY <3>1, <3>2 DEF SinkGets
      <3>4. HeldId' = 1 /\ HeldSession' = HeldSession
        BY <3>1, <3>2, <3>3 DEF HeldId, HeldSession
      <3>5. PICK last \in Nat : last = sent.session /\ Run(queue, 0, HeldSession, 0, last)
        BY <3>2
      <3>6. Run(queue, 0 + 1, HeldSession, 0 + 1, last)
        BY <1>b, <1>c, <3>5, RunBounds
      <3>7. Run(queue', HeldId', HeldSession', 1, last)
        BY <3>1, <3>4, <3>6
      <3> QED
        BY <3>1, <3>2, <3>5, <3>7 DEF QueueInOrder
    <2> QED
      BY <2>1, <2>2, <2>3
  <1>12. CASE RegulateFrame
    <2>1. CASE UNCHANGED queue
      <3>1. /\ queue' = queue /\ held' = held /\ shown' = shown
            /\ bpc' \in {"check", "sleep", "delay", "push"} =>
                 bpc \in {"check", "sleep", "delay", "push"}
        BY <1>12, <2>1 DEF RegulateFrame, Signal
      <3>2. queue # Append(queue, Head(frames))
        <4>1. Head(frames) \in Packets
          BY <1>12, OutKept DEF RegulateFrame
        <4>2. Len(Append(queue, Head(frames))) = Len(queue) + 1 /\ Len(queue) \in Nat
          BY <1>b, <4>1, SeqAppend, SeqElements
        <4> QED
          BY <4>2
      <3>3. pc' = "close" \/ (pc' = "asap" /\ UNCHANGED <<sink, codec, given, frames, sent>>)
        BY <1>12, <2>1, <3>2 DEF RegulateFrame
      <3>4. Streaming' => Streaming /\ Out' = Out /\ sent'.session = sent.session
        BY <1>12, <3>3, OutKept DEF RegulateFrame, Streaming, Busy
      <3> QED
        BY <1>0, <3>1, <3>4, QueueKept
    <2>2. CASE ~UNCHANGED queue
      <3> SUFFICES ASSUME bpc' \in {"check", "sleep", "delay", "push"}
                   PROVE  QueueInOrder'
        BY DEF QueueInOrder
      <3>1. /\ queue' = Append(queue, Head(frames)) /\ held' = held /\ shown' = shown
            /\ UNCHANGED <<sink, codec, given, sent>> /\ pc = "push" /\ frames' = <<>>
        BY <1>12, <2>2 DEF RegulateFrame
      <3>2. bpc \in {"check", "sleep", "delay", "push"}
        BY <1>12 DEF RegulateFrame, Signal
      <3>3. Streaming
        BY <3>1 DEF Streaming, Busy, IInv, SinksFollowPc, Sinks
      <3>4. PICK hi, last \in Nat : /\ Run(queue, HeldId, HeldSession, hi, last)
                                    /\ hi = Out /\ last = sent.session
        BY <1>0, <3>2, <3>3 DEF QueueInOrder
      <3>5. /\ Head(frames) \in Packets /\ Head(frames).kind = "frame"
            /\ Head(frames).id = hi + 1 /\ Head(frames).session = last
            /\ Out' = hi + 1
        BY <3>1, <3>4, OutKept
      <3>6. Run(queue', HeldId, HeldSession, hi + 1, last)
        BY <1>b, <1>c, <3>1, <3>4, <3>5, RunAppendFrame
      <3>7. HeldId' = HeldId /\ HeldSession' = HeldSession
        BY <3>1 DEF HeldId, HeldSession
      <3>8. hi + 1 \in Nat
        OBVIOUS
      <3> QED
        BY <3>1, <3>4, <3>5, <3>6, <3>7, <3>8 DEF QueueInOrder
    <2> QED
      BY <2>1, <2>2
  <1>13. CASE RecordPacket
    <2>1. /\ queue' = queue /\ held' = held /\ shown' = shown
          /\ bpc' \in {"check", "sleep", "delay", "push"} => bpc \in {"check", "sleep", "delay", "push"}
      BY <1>13 DEF RecordPacket
    <2>2. Streaming' => Streaming /\ Out' = Out /\ sent'.session = sent.session
      BY <1>a, <1>c, <1>13, OutKept DEF RecordPacket, Streaming, Busy, Sinks,
         IInv, SinksFollowPc
    <2> QED
      BY <1>0, <2>1, <2>2, QueueKept
  <1>14. CASE CloseRecorder
    <2>1. /\ queue' = queue /\ held' = held /\ shown' = shown
          /\ bpc' \in {"check", "sleep", "delay", "push"} => bpc \in {"check", "sleep", "delay", "push"}
      BY <1>14 DEF CloseRecorder
    <2>2. Streaming' => Streaming /\ Out' = Out /\ sent'.session = sent.session
      BY <1>a, <1>c, <1>14, OutKept DEF CloseRecorder, Streaming, Busy, Sinks
    <2> QED
      BY <1>0, <2>1, <2>2, QueueKept
  <1>15. CASE StopRegulator
    <2>1. /\ queue' = queue /\ held' = held /\ shown' = shown
          /\ bpc' \in {"check", "sleep", "delay", "push"} => bpc \in {"check", "sleep", "delay", "push"}
      BY <1>15 DEF StopRegulator, Signal
    <2>2. Streaming' => Streaming /\ Out' = Out /\ sent'.session = sent.session
      BY <1>a, <1>c, <1>15, OutKept DEF StopRegulator, Streaming, Busy, Sinks
    <2> QED
      BY <1>0, <2>1, <2>2, QueueKept
  <1>16. CASE JoinRegulator
    <2>1. /\ queue' = queue /\ held' = held /\ shown' = shown
          /\ bpc' \in {"check", "sleep", "delay", "push"} => bpc \in {"check", "sleep", "delay", "push"}
      BY <1>16 DEF JoinRegulator
    <2>2. Streaming' => Streaming /\ Out' = Out /\ sent'.session = sent.session
      BY <1>a, <1>c, <1>16, OutKept DEF JoinRegulator, Streaming, Busy, Sinks
    <2> QED
      BY <1>0, <2>1, <2>2, QueueKept
  <1>17. CASE CloseDecoder
    <2>1. /\ queue' = queue /\ held' = held /\ shown' = shown
          /\ bpc' \in {"check", "sleep", "delay", "push"} => bpc \in {"check", "sleep", "delay", "push"}
      BY <1>17 DEF CloseDecoder
    <2>2. Streaming' => Streaming /\ Out' = Out /\ sent'.session = sent.session
      BY <1>a, <1>c, <1>17, OutKept DEF CloseDecoder, Streaming, Busy, Sinks
    <2> QED
      BY <1>0, <2>1, <2>2, QueueKept
  <1>18. CASE BufferingWaits
    <2>1. CASE stopped \/ queue = <<>>
      <3>1. /\ queue' = queue /\ held' = held /\ shown' = shown
            /\ bpc' \in {"check", "sleep", "delay", "push"} =>
                 bpc \in {"check", "sleep", "delay", "push"}
        BY <1>18, <2>1 DEF BufferingWaits
      <3>2. Streaming' => Streaming /\ Out' = Out /\ sent'.session = sent.session
        BY <1>18, OutKept DEF BufferingWaits, Streaming
      <3> QED
        BY <1>0, <3>1, <3>2, QueueKept
    <2>2. CASE ~stopped /\ queue # <<>>
      <3>1. /\ bpc = "check" /\ held' = Head(queue) /\ queue' = Tail(queue)
            /\ UNCHANGED <<shown, pc, sink, codec, given, frames, sent>>
        BY <1>18, <2>2 DEF BufferingWaits
      <3>2. HeldId = shown.id /\ HeldSession = shown.current
        BY <3>1 DEF IInv, HeldFollowsBpc, HeldId, HeldSession, None
      <3>3. PICK hi, last \in Nat : /\ Run(queue, HeldId, HeldSession, hi, last)
                                    /\ Streaming => hi = Out /\ last = sent.session
        BY <1>0, <3>1 DEF QueueInOrder
      <3>4. \/ /\ Head(queue).kind = "frame" /\ Head(queue).id = shown.id + 1
               /\ Run(Tail(queue), shown.id + 1, shown.current, hi, last)
            \/ /\ Head(queue).kind = "session"
               /\ Run(Tail(queue), shown.id, Head(queue).session, hi, last)
        BY <1>b, <1>c, <2>2, <3>2, <3>3, RunTail
      <3>5. Run(queue', HeldId', HeldSession', hi, last)
        BY <3>1, <3>4 DEF HeldId, HeldSession
      <3>6. Streaming' => hi = Out' /\ last = sent'.session
        BY <3>1, <3>3, OutKept DEF Streaming
      <3> QED
        BY <3>5, <3>6 DEF QueueInOrder
    <2> QED
      BY <2>1, <2>2
  <1>19. CASE DelayEnds
    <2>1. /\ queue' = queue /\ held' = held /\ shown' = shown
          /\ bpc' \in {"check", "sleep", "delay", "push"} => bpc \in {"check", "sleep", "delay", "push"}
      BY <1>19 DEF DelayEnds
    <2>2. Streaming' => Streaming /\ Out' = Out /\ sent'.session = sent.session
      BY <1>a, <1>c, <1>19, OutKept DEF DelayEnds, Streaming, Busy, Sinks
    <2> QED
      BY <1>0, <2>1, <2>2, QueueKept
  <1>20. CASE BufferingPushes
    <2> SUFFICES ASSUME bpc' \in {"check", "sleep", "delay", "push"}
                 PROVE  QueueInOrder'
      BY DEF QueueInOrder
    <2>1. /\ bpc = "push" /\ shown' = SinkGets(held) /\ held' = None
          /\ UNCHANGED <<queue, pc, codec, given, frames, sent>>
          /\ sink' = [sink EXCEPT !["screen"] = Pushed(@)]
      BY <1>20 DEF BufferingPushes
    <2>2. held.kind \in {"session", "frame"}
      BY <2>1 DEF IInv, HeldFollowsBpc
    <2>3. HeldId' = HeldId /\ HeldSession' = HeldSession
      BY <1>c, <2>1, <2>2 DEF HeldId, HeldSession, SinkGets, None
    <2>4. PICK hi, last \in Nat : /\ Run(queue, HeldId, HeldSession, hi, last)
                                  /\ Streaming => hi = Out /\ last = sent.session
      BY <1>0, <2>1 DEF QueueInOrder
    <2>5. Run(queue', HeldId', HeldSession', hi, last)
      BY <2>1, <2>3, <2>4
    <2>6. Streaming' => hi = Out' /\ last = sent'.session
      BY <1>a, <2>1, <2>4, OutKept DEF Streaming, Sinks
    <2> QED
      BY <2>5, <2>6 DEF QueueInOrder
  <1>21. CASE Flush
    BY <1>21 DEF Flush, QueueInOrder
  <1>22. CASE UNCHANGED vars
    <2>1. /\ queue' = queue /\ held' = held /\ shown' = shown
          /\ bpc' \in {"check", "sleep", "delay", "push"} => bpc \in {"check", "sleep", "delay", "push"}
      BY <1>22 DEF vars
    <2>2. Streaming' => Streaming /\ Out' = Out /\ sent'.session = sent.session
      BY <1>a, <1>c, <1>22, OutKept DEF vars, Streaming, Busy, Sinks
    <2> QED
      BY <1>0, <2>1, <2>2, QueueKept
  <1> QED
    BY <1>1, <1>2, <1>3, <1>4, <1>5, <1>6, <1>7, <1>8, <1>9, <1>10, <1>11,
       <1>12, <1>13, <1>14, <1>15, <1>16, <1>17, <1>18, <1>19, <1>20, <1>21,
       <1>22 DEF Next, Demux, Buffering

\* A step keeps the frames in order from the decoder to the sink.
LEMMA StreamStep ==
    ASSUME IInv, [Next]_vars
    PROVE  StreamInOrder'
  <1> USE DEF modeVars, demuxVars, codecVars, bufVars, regVars
  <1>0. /\ StreamInOrder /\ SinksFollowPc /\ ThreadFollowsPc /\ HeldFollowsBpc
        /\ CodecInOrder
    BY DEF IInv
  <1>a. sink \in [Sinks -> {"new", "open", "closed", "disabled", "misused"}]
    BY DEF IInv, TypeOK
  <1>c. /\ shown \in [id : Nat, session : Nat, current : Nat]
        /\ sent \in [items : Nat, session : Nat, config : Nat]
        /\ range \in 0 .. ClockRange
        /\ bpc # "none" => regulated
    BY DEF IInv, TypeOK, ThreadFollowsPc
  <1>1. CASE RecvCodecId
    <2>1. /\ shown' = shown /\ stopped' = stopped /\ range' = range
          /\ regulated' = regulated /\ pc' # "asap"
          /\ bpc \in {"flush", "ended"} => bpc' \in {"flush", "ended"}
      BY <1>1 DEF RecvCodecId
    <2>2. Streaming' => /\ Streaming /\ Out' = Out /\ sent'.session = sent.session
                        /\ pc # "asap"
      BY <1>a, <1>c, <1>1, OutKept DEF RecvCodecId, Streaming, Busy, Sinks,
         Disabled, IInv, SinksFollowPc
    <2> QED
      BY <1>0, <2>1, <2>2 DEF StreamInOrder
  <1>2. CASE RecvSession
    <2>1. /\ shown' = shown /\ stopped' = stopped /\ range' = range
          /\ regulated' = regulated /\ pc' # "asap"
          /\ bpc \in {"flush", "ended"} => bpc' \in {"flush", "ended"}
      BY <1>2 DEF RecvSession
    <2>2. Streaming' => /\ Streaming /\ Out' = Out /\ sent'.session = sent.session
                        /\ pc # "asap"
      BY <1>a, <1>c, <1>2, OutKept DEF RecvSession, Streaming, Busy, Sinks,
         IInv, SinksFollowPc
    <2> QED
      BY <1>0, <2>1, <2>2 DEF StreamInOrder
  <1>3. CASE OpenDecoder
    <2>1. CASE pc' = "ended"
      BY <2>1 DEF StreamInOrder, Streaming, Busy
    <2>2. CASE pc' # "ended"
      <3>1. /\ shown' = [shown EXCEPT !.current = sent.session] /\ pc' = "open"
            /\ codec = <<>> /\ frames = <<>> /\ given = 0 /\ shown.id = 0
            /\ ~stopped /\ range = 0
            /\ UNCHANGED <<codec, frames, given, sent, stopped, range>>
        BY <1>3, <2>2 DEF OpenDecoder, IInv, Fresh
      <3>2. Len(codec') = 0 /\ Len(frames') = 0 /\ given' = 0
        BY <3>1
      <3>3. shown'.id = 0 /\ shown'.current = sent'.session
        BY <1>c, <3>1
      <3>4. Out' = 0
        BY <3>2 DEF Out
      <3> QED
        BY <3>1, <3>3, <3>4 DEF StreamInOrder
    <2> QED
      BY <2>1, <2>2
  <1>4. CASE OpenRecorder
    <2>1. /\ shown' = shown /\ stopped' = stopped /\ range' = range
          /\ regulated' = regulated /\ pc' # "asap"
          /\ bpc \in {"flush", "ended"} => bpc' \in {"flush", "ended"}
      BY <1>4 DEF OpenRecorder
    <2>2. Streaming' => /\ Streaming /\ Out' = Out /\ sent'.session = sent.session
                        /\ pc # "asap"
      BY <1>a, <1>c, <1>4, OutKept DEF OpenRecorder, Streaming, Busy, Sinks,
         Opened
    <2> QED
      BY <1>0, <2>1, <2>2 DEF StreamInOrder
  <1>5. CASE EndOfStream
    <2>1. pc' \notin Busy \cup {"open"} /\ pc' # "asap"
      BY <1>5 DEF EndOfStream, Busy
    <2> QED
      BY <2>1 DEF StreamInOrder, Streaming
  <1>6. CASE RecvFails
    <2>1. pc' \notin Busy \cup {"open"} /\ pc' # "asap"
      BY <1>6 DEF RecvFails, Busy
    <2> QED
      BY <2>1 DEF StreamInOrder, Streaming
  <1>7. CASE RecvNewSession
    <2>1. /\ pc = "loop" /\ Streaming /\ Out' = Out /\ sent'.session = sent.session + 1
          /\ pc' # "asap" /\ UNCHANGED <<regulated, stopped, range>>
      BY <1>0, <1>a, <1>c, <1>7, OutKept DEF RecvNewSession, Streaming, Busy, Sinks, SinksFollowPc
    <2>2. CASE ~regulated
      <3>1. shown' = [shown EXCEPT !.current = sent.session + 1] /\ ~stopped
        BY <1>0, <1>7, <2>2 DEF RecvNewSession, SinkGets, None, ThreadFollowsPc
      <3> QED
        BY <1>0, <1>c, <2>1, <2>2, <3>1 DEF StreamInOrder
    <2>3. CASE regulated
      <3>1. shown' = shown /\ (bpc \in {"flush", "ended"} => bpc' \in {"flush", "ended"})
        BY <1>7, <2>3 DEF RecvNewSession, Signal
      <3> QED
        BY <1>0, <2>1, <2>3, <3>1 DEF StreamInOrder
    <2> QED
      BY <2>2, <2>3
  <1>8. ASSUME NEW kind \in {"config", "media"}, RecvPacket(kind)
        PROVE  StreamInOrder'
    <2>1. /\ shown' = shown /\ stopped' = stopped /\ range' = range
          /\ regulated' = regulated /\ pc' # "asap"
          /\ bpc \in {"flush", "ended"} => bpc' \in {"flush", "ended"}
      BY <1>8 DEF RecvPacket
    <2>2. Streaming' => /\ Streaming /\ Out' = Out /\ sent'.session = sent.session
                        /\ pc # "asap"
      BY <1>a, <1>c, <1>8, OutKept DEF RecvPacket, Streaming, Busy, Sinks
    <2> QED
      BY <1>0, <2>1, <2>2 DEF StreamInOrder
  <1>9. CASE SendPacket
    <2>1. /\ shown' = shown /\ stopped' = stopped /\ range' = range
          /\ regulated' = regulated /\ pc' # "asap"
          /\ bpc \in {"flush", "ended"} => bpc' \in {"flush", "ended"}
      BY <1>9 DEF SendPacket
    <2>2. Streaming' => /\ Streaming /\ Out' = Out /\ sent'.session = sent.session
                        /\ pc # "asap"
      BY <1>a, <1>c, <1>9, OutKept DEF SendPacket, Streaming, Busy, Sinks,
         IInv, SinksFollowPc
    <2> QED
      BY <1>0, <2>1, <2>2 DEF StreamInOrder
  <1>10. CASE ReceiveFrame
    <2>1. /\ shown' = shown /\ stopped' = stopped /\ range' = range
          /\ regulated' = regulated /\ pc' # "asap"
          /\ bpc \in {"flush", "ended"} => bpc' \in {"flush", "ended"}
      BY <1>10 DEF ReceiveFrame
    <2>2. Streaming' => /\ Streaming /\ Out' = Out /\ sent'.session = sent.session
                        /\ pc # "asap"
      BY <1>a, <1>c, <1>10, OutKept DEF ReceiveFrame, Streaming, Busy, Sinks
    <2> QED
      BY <1>0, <2>1, <2>2 DEF StreamInOrder
  <1>11. CASE PushFrame
    <2>1. CASE pc' = "close"
      BY <2>1 DEF StreamInOrder, Streaming, Busy
    <2>2. CASE ~regulated /\ pc' # "close"
      <3>1. /\ shown' = SinkGets(Head(frames)) /\ pc = "push" /\ pc' = "receive"
            /\ UNCHANGED <<codec, given, sent, regulated, stopped>> /\ frames' = <<>>
        BY <1>11, <2>2 DEF PushFrame
      <3>2. /\ Head(frames).kind = "frame" /\ Head(frames).id = Out + 1
            /\ Out' = Out + 1
        BY <3>1, OutKept
      <3>3. shown'.id = Out' /\ shown'.current = shown.current
        BY <3>1, <3>2 DEF SinkGets
      <3>4. Streaming /\ ~stopped
        BY <1>0, <2>2, <3>1 DEF Streaming, Busy, SinksFollowPc, ThreadFollowsPc, Sinks
      <3> QED
        BY <1>0, <2>2, <3>1, <3>3, <3>4 DEF StreamInOrder
    <2>3. CASE regulated /\ pc' # "close"
      <3>1. /\ pc = "asap" /\ shown' = SinkGets(Head(frames)) /\ pc' = "receive"
            /\ UNCHANGED <<codec, given, sent, regulated, stopped, range, bpc>>
            /\ frames' = <<>>
        BY <1>11, <2>3 DEF PushFrame
      <3>2. /\ Head(frames).id = 1 /\ Head(frames).kind = "frame" /\ ~stopped
        BY <3>1, FirstIsAlone
      <3>3. shown'.id = 1
        BY <3>1, <3>2 DEF SinkGets
      <3>4. range # 0
        BY <1>0, <3>1 DEF StreamInOrder
      <3> QED
        BY <2>3, <3>1, <3>2, <3>3, <3>4 DEF StreamInOrder
    <2> QED
      BY <2>1, <2>2, <2>3
  <1>12. CASE RegulateFrame
    <2>1. CASE pc' = "close"
      BY <2>1 DEF StreamInOrder, Streaming, Busy
    <2>2. CASE pc' # "close"
      <3>1. /\ pc = "push" /\ regulated /\ ~stopped
            /\ range' = ClockUpdated(range)
            /\ UNCHANGED <<shown, codec, given, sent, sink, regulated, stopped>>
        BY <1>12, <2>2 DEF RegulateFrame
      <3>2. Streaming
        BY <1>0, <3>1 DEF Streaming, Busy, SinksFollowPc, Sinks
      <3>3. range' # 0 /\ (range' = 1 <=> range = 0)
        BY <1>c, <3>1, ClockAssumption DEF ClockUpdated
      <3>4. CASE range = 0
        <4>1. pc' = "asap" /\ frames' = frames
          BY <1>12, <3>1, <3>3, <3>4 DEF RegulateFrame
        <4>2. Out' = 0
          BY <1>0, <3>1, <3>2, <3>4, <4>1, OutKept DEF StreamInOrder
        <4> QED
          BY <3>1, <3>3, <4>1, <4>2 DEF StreamInOrder
      <3>5. CASE range # 0
        <4>1. pc' = "receive"
          BY <1>12, <3>1, <3>3, <3>5 DEF RegulateFrame
        <4>2. shown.id # 0
          BY <1>0, <3>1, <3>2, <3>5 DEF StreamInOrder
        <4> QED
          BY <3>1, <3>3, <4>1, <4>2 DEF StreamInOrder
      <3> QED
        BY <3>4, <3>5
    <2> QED
      BY <2>1, <2>2
  <1>13. CASE RecordPacket
    <2>1. /\ shown' = shown /\ stopped' = stopped /\ range' = range
          /\ regulated' = regulated /\ pc' # "asap"
          /\ bpc \in {"flush", "ended"} => bpc' \in {"flush", "ended"}
      BY <1>13 DEF RecordPacket
    <2>2. Streaming' => /\ Streaming /\ Out' = Out /\ sent'.session = sent.session
                        /\ pc # "asap"
      BY <1>a, <1>c, <1>13, OutKept DEF RecordPacket, Streaming, Busy, Sinks,
         IInv, SinksFollowPc
    <2> QED
      BY <1>0, <2>1, <2>2 DEF StreamInOrder
  <1>14. CASE CloseRecorder
    <2>1. pc' \notin Busy \cup {"open"} /\ pc' # "asap"
      BY <1>14 DEF CloseRecorder, Busy
    <2> QED
      BY <2>1 DEF StreamInOrder, Streaming
  <1>15. CASE StopRegulator
    <2>1. pc' \notin Busy \cup {"open"} /\ pc' # "asap"
      BY <1>15 DEF StopRegulator, Busy
    <2> QED
      BY <2>1 DEF StreamInOrder, Streaming
  <1>16. CASE JoinRegulator
    <2>1. pc' \notin Busy \cup {"open"} /\ pc' # "asap"
      BY <1>16 DEF JoinRegulator, Busy
    <2> QED
      BY <2>1 DEF StreamInOrder, Streaming
  <1>17. CASE CloseDecoder
    <2>1. pc' \notin Busy \cup {"open"} /\ pc' # "asap"
      BY <1>17 DEF CloseDecoder, Busy
    <2> QED
      BY <2>1 DEF StreamInOrder, Streaming
  <1>18. CASE BufferingWaits
    <2>1. /\ UNCHANGED <<pc, regulated, stopped, range, shown, sink>>
          /\ UNCHANGED <<codec, frames, given, sent>>
      BY <1>18 DEF BufferingWaits
    <2>2. Out' = Out /\ Streaming' = Streaming
      BY <2>1, OutKept DEF Streaming
    <2>3. bpc \in {"flush", "ended"} => bpc' \in {"flush", "ended"}
      BY <1>18 DEF BufferingWaits
    <2> QED
      BY <1>0, <2>1, <2>2, <2>3 DEF StreamInOrder
  <1>19. CASE DelayEnds
    <2>1. /\ UNCHANGED <<pc, regulated, stopped, range, shown, sink>>
          /\ UNCHANGED <<codec, frames, given, sent>>
      BY <1>19 DEF DelayEnds
    <2>2. Out' = Out /\ Streaming' = Streaming
      BY <2>1, OutKept DEF Streaming
    <2>3. bpc \in {"flush", "ended"} => bpc' \in {"flush", "ended"}
      BY <1>19 DEF DelayEnds
    <2> QED
      BY <1>0, <2>1, <2>2, <2>3 DEF StreamInOrder
  <1>20. CASE BufferingPushes
    <2>1. /\ bpc = "push" /\ UNCHANGED <<pc, regulated, range>>
          /\ UNCHANGED <<codec, frames, given, sent>>
          /\ sink' = [sink EXCEPT !["screen"] = Pushed(@)]
      BY <1>20 DEF BufferingPushes
    <2>2. Out' = Out /\ Streaming' = Streaming /\ regulated
      BY <1>a, <1>c, <2>1, OutKept DEF Streaming, Sinks
    <2>3. CASE bpc' = "flush"
      <3>1. held.kind = "frame" /\ stopped' /\ shown' = shown
        BY <1>20, <2>3 DEF BufferingPushes
      <3>2. pc # "asap"
        BY <3>1, FirstIsAlone
      <3> QED
        BY <1>0, <2>1, <2>2, <2>3, <3>1, <3>2 DEF StreamInOrder
    <2>4. CASE bpc' # "flush"
      <3>1. stopped' = stopped /\ shown' = SinkGets(held)
        BY <1>20, <2>4 DEF BufferingPushes
      <3>2. held.kind = "frame" => held.id = shown.id + 1
        BY <1>0, <2>1 DEF HeldFollowsBpc
      <3>3. held.kind \in {"session", "frame"}
        BY <1>0, <2>1 DEF HeldFollowsBpc
      <3>4. shown'.id = shown.id \/ shown'.id = shown.id + 1
        BY <1>c, <3>1, <3>2, <3>3 DEF SinkGets
      <3>5. shown.id # 0 => shown'.id # 0
        BY <1>c, <3>4
      <3> QED
        BY <1>0, <2>1, <2>2, <3>1, <3>5 DEF StreamInOrder
    <2> QED
      BY <2>3, <2>4
  <1>21. CASE Flush
    <2>1. /\ UNCHANGED <<pc, regulated, stopped, range, shown, sink>>
          /\ UNCHANGED <<codec, frames, given, sent>>
      BY <1>21 DEF Flush
    <2>2. Out' = Out /\ Streaming' = Streaming
      BY <2>1, OutKept DEF Streaming
    <2>3. bpc \in {"flush", "ended"} => bpc' \in {"flush", "ended"}
      BY <1>21 DEF Flush
    <2> QED
      BY <1>0, <2>1, <2>2, <2>3 DEF StreamInOrder
  <1>22. CASE UNCHANGED vars
    <2>1. /\ UNCHANGED <<pc, regulated, stopped, range, shown, sink>>
          /\ UNCHANGED <<codec, frames, given, sent>>
      BY <1>22 DEF vars
    <2>2. Out' = Out /\ Streaming' = Streaming
      BY <2>1, OutKept DEF Streaming
    <2>3. bpc \in {"flush", "ended"} => bpc' \in {"flush", "ended"}
      BY <1>22 DEF vars
    <2> QED
      BY <1>0, <2>1, <2>2, <2>3 DEF StreamInOrder
  <1> QED
    BY <1>1, <1>2, <1>3, <1>4, <1>5, <1>6, <1>7, <1>8, <1>9, <1>10, <1>11,
       <1>12, <1>13, <1>14, <1>15, <1>16, <1>17, <1>18, <1>19, <1>20, <1>21,
       <1>22 DEF Next, Demux, Buffering

-----------------------------------------------------------------------------
(* The theorems.                                                            *)

\* The invariant holds before run_demuxer() starts ...
LEMMA InitHolds == Init => IInv
  <1> SUFFICES ASSUME Init PROVE IInv
    OBVIOUS
  <1>1. TypeOK
    <2>1. None \in Packets
      BY PacketsMade
    <2>2. 0 \in 0 .. ClockRange
      BY ClockAssumption
    <2>3. regulated \in BOOLEAN
      BY DEF Init
    <2>4. /\ sink \in [Sinks -> {"new", "open", "closed", "disabled", "misused"}]
          /\ sent \in [items : Nat, session : Nat, config : Nat]
          /\ shown \in [id : Nat, session : Nat, current : Nat]
      BY DEF Init
    <2>5. codec \in Seq(Packets) /\ frames \in Seq(Packets) /\ queue \in Seq(Packets)
      BY DEF Init
    <2> QED
      BY <2>1, <2>2, <2>3, <2>4, <2>5 DEF Init, TypeOK
  <1>2. SinksFollowPc /\ ThreadFollowsPc /\ Fresh
    BY DEF Init, SinksFollowPc, ThreadFollowsPc, Fresh, Sinks, Busy, Closing
  <1>3. ConfigIsKept /\ HeldFollowsBpc /\ QueueInOrder
    BY DEF Init, ConfigIsKept, HeldFollowsBpc, QueueInOrder
  <1>4. CodecInOrder /\ StreamInOrder
    BY DEF Init, CodecInOrder, StreamInOrder, Streaming, Sinks
  <1> QED
    BY <1>1, <1>2, <1>3, <1>4 DEF IInv

\* ... and every step of either thread keeps it.
LEMMA NextHolds == IInv /\ [Next]_vars => IInv'
  <1> SUFFICES ASSUME IInv, [Next]_vars PROVE IInv'
    OBVIOUS
  <1>1. TypeOK' /\ CodecInOrder'
    BY TypeStep, CodecStep DEF IInv
  <1>2. SinksFollowPc' /\ ThreadFollowsPc'
    BY SinksStep, ThreadStep DEF IInv
  <1>3. ConfigIsKept' /\ Fresh'
    BY ConfigStep, FreshStep DEF IInv
  <1>4. HeldFollowsBpc' /\ QueueInOrder' /\ StreamInOrder'
    BY HeldStep, QueueStep, StreamStep
  <1> QED
    BY <1>1, <1>2, <1>3, <1>4 DEF IInv

\* The inductive invariant holds throughout: the sinks and the buffering
\* thread follow run_demuxer(), the configuration is kept for the decoder and
\* the frames stay numbered from the codec over the queue to the screen.
THEOREM InvariantHolds == Spec => []IInv
  BY InitHolds, NextHolds, PTL DEF Spec

\* Every sink is opened once, used only while open and closed exactly if it
\* was opened, by whichever thread and whatever fails; at the end none is open
\* and the buffering thread is gone (sc_packet_source_sinks_open() and
\* _close(), sc_video_regulator_frame_sink_close()).
THEOREM SinksBalance == Spec => []SinksAreBalanced
  <1>1. IInv => SinksAreBalanced
    <2> SUFFICES ASSUME IInv PROVE SinksAreBalanced
      OBVIOUS
    <2>1. \A s \in Sinks : sink[s] # "misused"
      BY DEF IInv, TypeOK, SinksFollowPc, Busy, Closing, Sinks
    <2>2. pc = "ended" => \A s \in Sinks : sink[s] # "open"
      BY DEF IInv, SinksFollowPc
    <2>3. pc = "ended" => bpc \in {"none", "ended"}
      BY DEF IInv, ThreadFollowsPc
    <2> QED
      BY <2>1, <2>2, <2>3 DEF IInv, SinksAreBalanced
  <1> QED
    BY <1>1, InvariantHolds, PTL

\* Whatever the decoder decodes, it has seen the last configuration that the
\* device sent before, although it ignores the packets that hold one
\* (sc_packet_merger_merge(), sc_decoder_push()).
THEOREM ConfigIsDecoded == Spec => []ConfigReachesDecoder
  <1>1. IInv => ConfigReachesDecoder
    BY DEF IInv, ConfigIsKept, ConfigReachesDecoder
  <1> QED
    BY <1>1, InvariantHolds, PTL

\* A frame is shown by an action that pushes one, and it is the next one.
LEMMA NextFrame ==
    ASSUME IInv, [Next]_vars, shown'.id # shown.id
    PROVE  /\ shown'.id = shown.id + 1
           /\ shown.id > 0 => shown'.session = shown'.current
  <1> USE DEF modeVars, demuxVars, codecVars, bufVars, regVars
  <1>0. shown \in [id : Nat, session : Nat, current : Nat]
    BY DEF IInv, TypeOK
  <1>1. PushFrame \/ BufferingPushes
    <2>1. CASE UNCHANGED shown
      BY <2>1
    <2>2. CASE OpenDecoder
      BY <1>0, <2>2 DEF OpenDecoder
    <2>3. CASE RecvNewSession
      BY <1>0, <2>3 DEF RecvNewSession, SinkGets, None
    <2>4. ASSUME Next PROVE UNCHANGED shown \/ OpenDecoder \/ RecvNewSession
                            \/ PushFrame \/ BufferingPushes
      BY <2>4 DEF Next, Demux, Buffering, RecvCodecId, RecvSession, OpenRecorder,
         EndOfStream, RecvFails, RecvPacket, SendPacket, ReceiveFrame, RegulateFrame,
         RecordPacket, CloseRecorder, StopRegulator, JoinRegulator, CloseDecoder,
         BufferingWaits, DelayEnds, Flush
    <2>5. CASE UNCHANGED vars
      BY <2>1, <2>5 DEF vars
    <2> QED
      BY <2>1, <2>2, <2>3, <2>4, <2>5
  <1>2. CASE PushFrame /\ regulated
    <2>1. pc = "asap" /\ shown' = SinkGets(Head(frames))
      BY <1>2 DEF PushFrame
    <2>2. shown.id = 0 /\ Head(frames).id = 1 /\ Head(frames).kind = "frame"
      BY <2>1, FirstIsAlone
    <2> QED
      BY <2>1, <2>2 DEF SinkGets
  <1>3. CASE PushFrame /\ ~regulated
    <2>1. pc = "push" /\ shown' = SinkGets(Head(frames))
      BY <1>3 DEF PushFrame
    <2>2. /\ Head(frames).kind = "frame" /\ Head(frames).id = Out + 1
          /\ Head(frames).session = sent.session
      BY <2>1, OutKept
    <2>3. shown.id = Out /\ shown.current = sent.session
      BY <1>3, <2>1 DEF IInv, StreamInOrder, Streaming, Busy, SinksFollowPc, Sinks
    <2> QED
      BY <2>1, <2>2, <2>3 DEF SinkGets
  <1>4. CASE BufferingPushes
    <2>1. bpc = "push" /\ shown' = SinkGets(held)
      BY <1>4 DEF BufferingPushes
    <2>2. held.kind = "frame"
      BY <1>0, <2>1 DEF IInv, HeldFollowsBpc, SinkGets
    <2>3. held.id = shown.id + 1 /\ held.session = shown.current
      BY <2>1, <2>2 DEF IInv, HeldFollowsBpc
    <2> QED
      BY <2>1, <2>2, <2>3 DEF SinkGets
  <1> QED
    BY <1>1, <1>2, <1>3, <1>4

\* The frame sink gets the frames in the order of the stream and none is
\* skipped, although the first one comes from the thread of the demuxer and
\* the others from the buffering thread; all but that first one find their
\* session at the sink (sc_video_regulator_frame_sink_push(),
\* run_buffering()).
THEOREM FramesStayInOrder == Spec => FramesInOrder
  <1>1. IInv /\ [Next]_vars =>
          [shown'.id # shown.id =>
             /\ shown'.id = shown.id + 1
             /\ shown.id > 0 => shown'.session = shown'.current]_vars
    BY NextFrame
  <1> QED
    BY <1>1, InvariantHolds, PTL DEF Spec, FramesInOrder
=============================================================================
