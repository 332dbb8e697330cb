-------------------------- MODULE ControlPathProofs --------------------------
(***************************************************************************)
(* Proofs about the way from an input to the device: the control queue     *)
(* (Controller) for every set of messages and every limit, and the AOA     *)
(* thread and the acknowledgements (AoaHid), which rely on its order, for  *)
(* every set of gamepads, every limit of the two queues and every bound.   *)
(***************************************************************************)
EXTENDS Controller, AoaHid, SequenceTheorems, TLAPS

\* What the sender holds, and which thread exists in which phase of main().
Holding ==
    /\ sender \notin {"send", "ended"} => msg = <<>> /\ size = 0
    /\ msg # <<>> => size = 0
    /\ main = "init" => sender = "none"
    /\ main \in {"init", "starting", "abort"} => receiver = "none"

IInv ==
    /\ TypeOK /\ NoLostWakeup /\ OnlyNonDroppableAboveLimit
    /\ NothingLostOrReordered /\ SizesAdvance /\ OwnThreadsAreOver /\ Holding

-----------------------------------------------------------------------------
(* Sequences.                                                               *)

\* A message appended to the last of three sequences is appended to the whole.
LEMMA AppendToLast ==
    ASSUME NEW a \in Seq(Msgs), NEW b \in Seq(Msgs), NEW c \in Seq(Msgs), NEW x \in Msgs
    PROVE  Append((a \o b) \o c, x) = (a \o b) \o Append(c, x)
  <1>1. a \o b \in Seq(Msgs) /\ (a \o b) \o c \in Seq(Msgs) /\ Append(c, x) \in Seq(Msgs)
    BY ConcatProperties
  <1>2. Append((a \o b) \o c, x) = ((a \o b) \o c) \o <<x>>
    BY <1>1, AppendIsConcat
  <1>3. Append(c, x) = c \o <<x>>
    BY AppendIsConcat
  <1>4. <<x>> \in Seq(Msgs)
    OBVIOUS
  <1>5. ((a \o b) \o c) \o <<x>> = (a \o b) \o (c \o <<x>>)
    BY <1>1, <1>4, ConcatAssociative
  <1> QED
    BY <1>2, <1>3, <1>5

\* Taking the head of the last sequence into an empty middle one changes
\* nothing of the whole.
LEMMA HeadMovesUp ==
    ASSUME NEW S, NEW a \in Seq(S), NEW c \in Seq(S), c # <<>>
    PROVE  (a \o <<>>) \o c = (a \o <<Head(c)>>) \o Tail(c)
  <1>1. Head(c) \in S /\ Tail(c) \in Seq(S) /\ <<Head(c)>> \in Seq(S)
    BY HeadTailProperties
  <1>2. c = <<Head(c)>> \o Tail(c)
    BY <1>1
  <1>3. a \o <<>> = a
    BY ConcatEmptySeq
  <1>4. (a \o <<Head(c)>>) \o Tail(c) = a \o (<<Head(c)>> \o Tail(c))
    BY <1>1, ConcatAssociative
  <1> QED
    BY <1>2, <1>3, <1>4

\* The element after the first sequence of three, when the middle has one.
LEMMA NextElement ==
    ASSUME NEW S, NEW a \in Seq(S), NEW c \in Seq(S), NEW x \in S
    PROVE  LET w == (a \o <<x>>) \o c
           IN  /\ Len(a) < Len(w)
               /\ a \o <<x>> = Append(a, w[Len(a) + 1])
  <1>1. a \o <<x>> \in Seq(S) /\ Len(a \o <<x>>) = Len(a) + 1
    OBVIOUS
  <1>2. Len((a \o <<x>>) \o c) = Len(a) + 1 + Len(c)
    BY <1>1
  <1>3. ((a \o <<x>>) \o c)[Len(a) + 1] = (a \o <<x>>)[Len(a) + 1]
    BY <1>1
  <1>4. (a \o <<x>>)[Len(a) + 1] = x
    OBVIOUS
  <1>5. a \o <<x>> = Append(a, x)
    BY AppendIsConcat
  <1> QED
    BY <1>2, <1>3, <1>4, <1>5

-----------------------------------------------------------------------------
(* Invariance.                                                              *)

\* The invariant holds when the controller is initialised.
LEMMA InitEstablishes == Init => IInv
  <1> SUFFICES ASSUME Init PROVE IInv
    OBVIOUS
  <1>1. stopped \in BOOLEAN /\ peer \in BOOLEAN
    BY Zenon DEF Init
  <1> QED
    BY <1>1 DEF Init, IInv, TypeOK, NoLostWakeup, NothingToDo, OnlyNonDroppableAboveLimit,
                NothingLostOrReordered, SizesAdvance, OwnThreadsAreOver, Holding

\* sc_controller_push_msg(), below and above the limit.
LEMMA PushKeeps ==
    ASSUME IInv, NEW m \in Msgs, sc_controller_push_msg(m)
    PROVE  IInv'
  <1>0. Append((wire \o msg) \o queue, m) = (wire \o msg) \o Append(queue, m)
    <2>1. queue \in Seq(Msgs) /\ wire \in Seq(Msgs) /\ msg \in Seq(Msgs)
      BY DEF IInv, TypeOK
    <2> QED
      BY <2>1, AppendToLast, ZenonT(20)
  <1> USE DEF sc_controller_push_msg, locals, io, history
  <1>1. queue \in Seq(Msgs) /\ wire \in Seq(Msgs) /\ msg \in Seq(Msgs)
    BY DEF IInv, TypeOK
  <1>2. queue' = Append(queue, m)
    BY DEF PushedBelowLimit, PushedAboveLimit
  <1>3. sender' \in {sender, "lock"} /\ (sender' # sender => sender = "wait")
    BY DEF PushedBelowLimit, PushedAboveLimit, Signal
  <1>4. TypeOK'
    <2>1. queue' \in Seq(Msgs) /\ accepted' \in Seq(Msgs)
      BY <1>1, <1>2 DEF IInv, TypeOK
    <2> QED
      BY <1>3, <2>1 DEF IInv, TypeOK
  <1>5. NoLostWakeup'
    <2>1. CASE sender = "wait"
      <3>1. queue = <<>> /\ ~stopped
        BY <2>1 DEF IInv, NoLostWakeup, NothingToDo
      <3>2. CASE PushedBelowLimit(m)
        BY <2>1, <3>1, <3>2 DEF PushedBelowLimit, Signal, NoLostWakeup
      <3>3. CASE PushedAboveLimit(m)
        BY <3>1, <3>3, LimitAssumption DEF PushedAboveLimit, NoLostWakeup
      <3> QED
        BY <3>2, <3>3
    <2>2. CASE sender # "wait"
      BY <1>3, <2>2 DEF NoLostWakeup
    <2> QED
      BY <2>1, <2>2
  <1>6. OnlyNonDroppableAboveLimit'
    <2> SUFFICES ASSUME NEW i \in 1 .. Len(queue'), i > Limit
                 PROVE  queue'[i] \in NonDroppable
      BY DEF OnlyNonDroppableAboveLimit
    <2>1. CASE i <= Len(queue)
      <3>1. queue'[i] = queue[i]
        BY <1>1, <1>2, <2>1, LimitAssumption
      <3> QED
        BY <2>1, <3>1, LimitAssumption DEF IInv, OnlyNonDroppableAboveLimit
    <2>2. CASE i = Len(queue) + 1
      <3>1. queue'[i] = m /\ Len(queue) >= Limit
        BY <1>1, <1>2, <2>2, LimitAssumption
      <3>2. m \in NonDroppable
        BY <3>1, <1>1, LimitAssumption DEF PushedBelowLimit, PushedAboveLimit
      <3> QED
        BY <3>1, <3>2
    <2>3. Len(queue') = Len(queue) + 1
      BY <1>1, <1>2
    <2> QED
      BY <1>1, <2>1, <2>2, <2>3
  <1>7. NothingLostOrReordered'
    <2>1. accepted = (wire \o msg) \o queue
      BY DEF IInv, NothingLostOrReordered, Feeding
    <2>2. accepted' = (wire \o msg) \o queue'
      BY <1>2, <2>1, <1>0
    <2> QED
      BY <2>2 DEF NothingLostOrReordered
  <1>8. SizesAdvance' /\ OwnThreadsAreOver' /\ Holding'
    BY <1>3, SMTT(30) DEF IInv, SizesAdvance, OwnThreadsAreOver, Holding
  <1> QED
    BY <1>4, <1>5, <1>6, <1>7, <1>8 DEF IInv

\* TakesMsg moves the head of the queue into the hands of the sender.
LEMMA TakesMsgKeeps ==
    ASSUME IInv, TakesMsg
    PROVE  IInv'
  <1> USE DEF TakesMsg, io, history
  <1>1. /\ queue \in Seq(Msgs) /\ wire \in Seq(Msgs) /\ queue # <<>>
        /\ msg = <<>> /\ size = 0
    BY DEF IInv, TypeOK, Holding
  <1>2. /\ Head(queue) \in Msgs /\ queue' \in Seq(Msgs) /\ Len(queue') = Len(queue) - 1
        /\ \A i \in 1 .. Len(queue') : queue'[i] = queue[i + 1]
    BY <1>1, HeadTailProperties
  <1>3. TypeOK' /\ NoLostWakeup' /\ SizesAdvance' /\ OwnThreadsAreOver' /\ Holding'
    BY <1>1, <1>2
    DEF IInv, TypeOK, NoLostWakeup, SizesAdvance, OwnThreadsAreOver, Holding
  <1>4. OnlyNonDroppableAboveLimit'
    BY <1>1, <1>2, LimitAssumption DEF IInv, OnlyNonDroppableAboveLimit
  <1>5. NothingLostOrReordered'
    <2>1. (wire \o <<>>) \o queue = (wire \o msg') \o queue'
      BY <1>1, HeadMovesUp
    <2> QED
      BY <1>1, <2>1 DEF IInv, NothingLostOrReordered
  <1> QED
    BY <1>3, <1>4, <1>5 DEF IInv

\* Sent moves what the sender held to the wire.
LEMMA SentKeeps ==
    ASSUME IInv, Sent
    PROVE  IInv'
  <1> USE DEF Sent, io, history
  <1>1. queue \in Seq(Msgs) /\ wire \in Seq(Msgs) /\ msg \in Seq(Msgs)
    BY DEF IInv, TypeOK
  <1>2. wire' \in Seq(Msgs) /\ wire' \o msg' = wire \o msg
    BY <1>1, ConcatProperties, ConcatEmptySeq
  <1>3. TypeOK'
    BY <1>1, <1>2 DEF IInv, TypeOK
  <1>4. NothingLostOrReordered'
    BY <1>2 DEF IInv, NothingLostOrReordered
  <1>5. SizesAdvance'
    BY DEF IInv, TypeOK, SizesAdvance
  <1> QED
    BY <1>3, <1>4, <1>5
    DEF IInv, NoLostWakeup, OnlyNonDroppableAboveLimit, OwnThreadsAreOver, Holding

\* The device going away changes a flag nothing else depends on.
LEMMA PeerClosesKeeps ==
    ASSUME IInv, PeerCloses
    PROVE  IInv'
  <1>1. peer' \in BOOLEAN
    BY DEF PeerCloses
  <1> USE DEF PeerCloses, locals, history
  <1>2. TypeOK'
    BY <1>1 DEF IInv, TypeOK
  <1>3. /\ NoLostWakeup' /\ OnlyNonDroppableAboveLimit' /\ NothingLostOrReordered'
        /\ SizesAdvance' /\ OwnThreadsAreOver' /\ Holding'
    BY DEF IInv, NoLostWakeup, NothingToDo, OnlyNonDroppableAboveLimit,
           NothingLostOrReordered, SizesAdvance, OwnThreadsAreOver, Holding
  <1> QED
    BY <1>2, <1>3 DEF IInv

\* Every other step of the threads and of main().
LEMMA ThreadsKeep ==
    ASSUME IInv,
           \/ sc_controller_resize_display \/ SenderWaits \/ SpuriousWakeup \/ TakesSize
           \/ SendFails \/ SenderStops \/ ReceiverEnds \/ net_interrupt
    PROVE  IInv'
  <1> USE DEF IInv, TypeOK, NoLostWakeup, NothingToDo, OnlyNonDroppableAboveLimit,
              NothingLostOrReordered, SizesAdvance, OwnThreadsAreOver, Holding,
              locals, io, history
  <1>e. events \subseteq {"CONTROLLER_ERROR", "DEVICE_DISCONNECTED"}
    OBVIOUS
  <1>1. CASE sc_controller_resize_display
    BY <1>1, SMTT(30) DEF sc_controller_resize_display, Signal
  <1>2. CASE SenderWaits
    BY <1>2 DEF SenderWaits
  <1>3. CASE SpuriousWakeup
    BY <1>3 DEF SpuriousWakeup
  <1>4. CASE TakesSize
    BY <1>4 DEF TakesSize
  <1>5. CASE SendFails
    <2>1. /\ sender = "send" /\ sender' = "ended"
          /\ UNCHANGED <<queue, resize_display, stopped, msg, size, receiver, peer, socket,
                         main, pusher, history>>
      BY ONLY <1>5 DEF SendFails
    <2>2. events' \subseteq {"CONTROLLER_ERROR", "DEVICE_DISCONNECTED"}
      BY ONLY <1>5, <1>e DEF SendFails, on_ended
    <2> QED
      BY <2>1, <2>2, SMTT(30)
  <1>6. CASE SenderStops
    BY <1>6 DEF SenderStops, on_ended
  <1>7. CASE ReceiverEnds
    <2>1. /\ receiver = "recv" /\ receiver' = "ended"
          /\ UNCHANGED <<queue, resize_display, stopped, locals, peer, socket, main, pusher,
                         history>>
      BY ONLY <1>7 DEF ReceiverEnds
    <2>2. events' \subseteq {"CONTROLLER_ERROR", "DEVICE_DISCONNECTED"}
      BY ONLY <1>7, <1>e DEF ReceiverEnds, on_ended
    <2> QED
      BY <2>1, <2>2, SMTT(30)
  <1>8. CASE net_interrupt
    BY <1>8 DEF net_interrupt
  <1> QED
    BY <1>1, <1>2, <1>3, <1>4, <1>5, <1>6, <1>7, <1>8

\* The steps of main() that start, stop, join and destroy.
LEMMA MainKeeps ==
    ASSUME IInv, MainStarts \/ LoopEnds \/ MainEnds
    PROVE  IInv'
  <1> USE DEF IInv, TypeOK, NoLostWakeup, NothingToDo, OnlyNonDroppableAboveLimit,
              NothingLostOrReordered, SizesAdvance, OwnThreadsAreOver, Holding,
              locals, io, history
  <1>1. CASE StartsSender
    BY <1>1 DEF StartsSender
  <1>2. CASE StartsReceiver
    BY <1>2 DEF StartsReceiver
  <1>3. CASE StartFails
    BY <1>3 DEF StartFails
  <1>4. CASE StartAborts
    BY <1>4 DEF StartAborts, sc_controller_stop, Signal
  <1>5. CASE AbortJoins
    BY <1>5 DEF AbortJoins
  <1>6. CASE LoopEnds
    BY <1>6 DEF LoopEnds, sc_controller_stop, Signal
  <1>7. CASE sc_server_stop
    BY <1>7 DEF sc_server_stop
  <1>8. CASE sc_controller_join
    BY <1>8 DEF sc_controller_join
  <1>9. CASE sc_controller_destroy
    BY <1>9 DEF sc_controller_destroy
  <1> QED
    BY <1>1, <1>2, <1>3, <1>4, <1>5, <1>6, <1>7, <1>8, <1>9 DEF MainStarts, MainEnds

\* The file pusher's thread comes and goes; what it pushes is PushKeeps.
LEMMA PusherKeeps ==
    ASSUME IInv, PusherActs
    PROVE  IInv'
  <1>1. pusher' \in {"none", "running", "undefined"}
    BY DEF PusherActs, sc_file_pusher_start, PusherEnds, PushesToDestroyed
  <1>2. UNCHANGED <<queue, resize_display, stopped, locals, receiver, peer, socket, main, events, history>>
    BY DEF PusherActs, sc_file_pusher_start, PusherEnds, PushesToDestroyed
  <1> USE DEF locals, history
  <1>3. TypeOK'
    BY <1>1, <1>2 DEF IInv, TypeOK
  <1>4. /\ NoLostWakeup' /\ OnlyNonDroppableAboveLimit' /\ NothingLostOrReordered'
        /\ SizesAdvance' /\ OwnThreadsAreOver' /\ Holding'
    BY <1>2 DEF IInv, NoLostWakeup, NothingToDo, OnlyNonDroppableAboveLimit,
           NothingLostOrReordered, SizesAdvance, OwnThreadsAreOver, Holding
  <1> QED
    BY <1>3, <1>4 DEF IInv

\* The invariant is inductive.
LEMMA NextKeeps == IInv /\ [Next]_vars => IInv'
  <1> SUFFICES ASSUME IInv, [Next]_vars PROVE IInv'
    OBVIOUS
  <1>1. CASE UNCHANGED vars
    <2> USE <1>1 DEF vars, locals, io, history
    <2>1. TypeOK'
      BY DEF IInv, TypeOK
    <2>2. /\ NoLostWakeup' /\ OnlyNonDroppableAboveLimit' /\ NothingLostOrReordered'
          /\ SizesAdvance' /\ OwnThreadsAreOver' /\ Holding'
      BY DEF IInv, NoLostWakeup, NothingToDo, OnlyNonDroppableAboveLimit,
             NothingLostOrReordered, SizesAdvance, OwnThreadsAreOver, Holding
    <2> QED
      BY <2>1, <2>2 DEF IInv
  <1>2. CASE Next
    <2>1. ASSUME NEW m \in Msgs, sc_controller_push_msg(m) PROVE IInv'
      BY <2>1, PushKeeps
    <2>2. ASSUME NEW m \in Msgs, Discarded(m) PROVE IInv'
      BY <2>2, <1>1 DEF Discarded
    <2>3. CASE TakesMsg
      BY <2>3, TakesMsgKeeps
    <2>4. CASE Sent
      BY <2>4, SentKeeps
    <2>5. CASE PeerCloses
      BY <2>5, PeerClosesKeeps
    <2> QED
      BY <1>2, <2>1, <2>2, <2>3, <2>4, <2>5, ThreadsKeep, MainKeeps, PusherKeeps
      DEF Next, SenderActs
  <1> QED
    BY <1>1, <1>2

\* The inductive invariant holds in every behaviour.
THEOREM Invariance == Spec => []IInv
  BY InitEstablishes, NextKeeps, PTL DEF Spec

\* Every variable of the controller keeps its type, for every set of messages
\* and every limit of the queue.
THEOREM TypeCorrect == Spec => []TypeOK
  BY Invariance, PTL DEF IInv

\* No wakeup is ever lost: run_controller() is in sc_cond_wait() only while
\* there is nothing to do, for every interleaving of pushes, sizes and stops.
THEOREM WakeupsAreKept == Spec => []NoLostWakeup
  BY Invariance, PTL DEF IInv

\* Past the limit the queue holds non-droppable messages only.
THEOREM LimitIsKept == Spec => []OnlyNonDroppableAboveLimit
  BY Invariance, PTL DEF IInv

\* Accepted messages are neither lost nor repeated nor overtaken.
THEOREM QueueIsFifo == Spec => []NothingLostOrReordered
  BY Invariance, PTL DEF IInv

\* Sizes only get newer on their way to the wire.
THEOREM SizesAreOrdered == Spec => []SizesAdvance
  BY Invariance, PTL DEF IInv

\* The queue is not destroyed under the sender or the receiver.
THEOREM DestroyIsSafe == Spec => []OwnThreadsAreOver
  BY Invariance, PTL DEF IInv

\* The queue stays a FIFO within its limit, sizes stay in order and the queue
\* outlives the sender and the receiver, all at once and with the file pusher
\* pushing whenever it likes.
THEOREM FaithfulQueue == Spec => []QueueIsFaithful
  BY Invariance, PTL DEF IInv, QueueIsFaithful

-----------------------------------------------------------------------------
(* Refinement.                                                              *)

\* A non-empty sequence of at most one message.
LEMMA OneElement ==
    ASSUME NEW s \in Seq(Msgs), Len(s) <= 1, s # <<>>
    PROVE  s = <<s[1]>> /\ s[1] \in Msgs
  <1>1. Len(s) \in Nat /\ Len(s) # 0
    BY EmptySeq, LenProperties
  <1>2. Len(s) = 1
    <2>1. \A n \in Nat : n # 0 /\ n <= 1 => n = 1
      OBVIOUS
    <2> QED
      BY <1>1, <2>1, Zenon
  <1>3. s[1] \in Msgs
    BY <1>2, ElementOfSeq
  <1>4. <<s[1]>> \in Seq(Msgs) /\ Len(<<s[1]>>) = 1 /\ <<s[1]>>[1] = s[1]
    BY <1>3
  <1>5. \A i \in 1 .. Len(s) : s[i] = <<s[1]>>[i]
    BY <1>2, <1>4
  <1>6. s = <<s[1]>>
    BY <1>2, <1>4, <1>5, SeqEqual
  <1> QED
    BY <1>3, <1>6

\* Writing a queued message is the port's Send; writing a size is its SendSize.
LEMMA SentRefines ==
    ASSUME IInv, Sent
    PROVE  Port!Next \/ UNCHANGED Port!vars
  <1> USE DEF Sent, io
  <1>1. /\ queue \in Seq(Msgs) /\ wire \in Seq(Msgs) /\ msg \in Seq(Msgs) /\ Len(msg) <= 1
        /\ sender = "send" /\ sender' = "lock"
        /\ size \in Nat /\ display \in Nat /\ requested \in Nat
        /\ accepted' = accepted /\ requested' = requested
        /\ (display < size \/ size = 0) /\ size <= requested
    BY DEF IInv, TypeOK, SizesAdvance
  <1>2. CASE msg = <<>>
    <2>1. wire' = wire
      BY <1>1, <1>2, ConcatEmptySeq
    <2>2. CASE size = 0
      BY <1>1, <2>1, <2>2 DEF Port!vars
    <2>3. CASE size # 0
      <3>1. display' \in (display + 1) .. requested
        BY <1>1, <2>3
      <3> QED
        BY <1>1, <2>1, <3>1 DEF Port!Next, Port!SendSize
    <2> QED
      BY <2>2, <2>3
  <1>3. CASE msg # <<>>
    <2>1. msg = <<msg[1]>> /\ msg[1] \in Msgs
      BY <1>1, <1>3, OneElement
    <2>2. main # "destroyed" /\ size = 0
      BY <1>1, <1>3 DEF IInv, OwnThreadsAreOver, Holding
    <2>3. accepted = (wire \o <<msg[1]>>) \o queue
      BY <2>1, <2>2 DEF IInv, NothingLostOrReordered
    <2>4. Len(wire) < Len(accepted) /\ wire \o <<msg[1]>> = Append(wire, accepted[Len(wire) + 1])
      BY <1>1, <2>1, <2>3, NextElement
    <2>5. wire' = Append(wire, accepted[Len(wire) + 1]) /\ display' = display
      BY <2>1, <2>2, <2>4
    <2> QED
      BY <1>1, <2>4, <2>5 DEF Port!Next, Port!Send
  <1> QED
    BY <1>2, <1>3

\* Every step of the controller is a step of the port or leaves it alone.
LEMMA NextRefines ==
    ASSUME IInv, [Next]_vars
    PROVE  [Port!Next]_(Port!vars)
  <1> USE DEF Port!vars, locals, io, history
  <1>1. CASE UNCHANGED vars
    BY <1>1 DEF vars
  <1>2. ASSUME NEW m \in Msgs, sc_controller_push_msg(m) PROVE Port!Next
    <2>1. (sender' = "ended") = (sender = "ended")
      BY <1>2 DEF sc_controller_push_msg, PushedBelowLimit, PushedAboveLimit, Signal
    <2>2. accepted' = Append(accepted, m) /\ UNCHANGED <<wire, requested, display>>
      BY <1>2 DEF sc_controller_push_msg
    <2> QED
      BY <2>1, <2>2 DEF Port!Next, Port!Accept
  <1>3. ASSUME NEW m \in Msgs, Discarded(m) PROVE UNCHANGED Port!vars
    BY <1>1, <1>3 DEF Discarded, vars
  <1>4. CASE sc_controller_resize_display
    BY <1>4 DEF sc_controller_resize_display, Signal, Port!Next, Port!Request
  <1>5. CASE SenderWaits \/ TakesSize \/ TakesMsg \/ SpuriousWakeup
    BY <1>5 DEF SenderWaits, TakesSize, TakesMsg, SpuriousWakeup
  <1>6. CASE Sent
    BY <1>6, SentRefines
  <1>7. CASE SendFails \/ SenderStops
    BY <1>7 DEF SendFails, SenderStops, Port!Next, Port!Close
  <1>8. CASE ReceiverEnds \/ PeerCloses \/ net_interrupt \/ PusherActs
    BY <1>8 DEF ReceiverEnds, PeerCloses, net_interrupt, PusherActs, sc_file_pusher_start,
                PusherEnds, PushesToDestroyed
  <1>9. CASE StartsSender
    \* the thread that starts has not ended before
    BY <1>9 DEF StartsSender, IInv, Holding
  <1>10. CASE StartsReceiver \/ StartFails \/ StartAborts \/ LoopEnds
    BY <1>10 DEF StartsReceiver, StartFails, StartAborts, LoopEnds, sc_controller_stop, Signal
  <1>11. CASE MainEnds
    BY <1>11 DEF MainEnds, AbortJoins, sc_server_stop, sc_controller_join, sc_controller_destroy
  <1> QED
    BY <1>1, <1>2, <1>3, <1>4, <1>5, <1>6, <1>7, <1>8, <1>9, <1>10, <1>11
    DEF Next, SenderActs, MainStarts

\* The controller implements its port: what its users may rely on does not
\* depend on the wakeups, the limit or the order in which the threads end.
THEOREM RefinesPort == Spec => ImplementsPort
  <1>1. Init => Port!Init
    BY DEF Init, Port!Init
  <1>2. IInv /\ [Next]_vars => [Port!Next]_(Port!vars)
    BY NextRefines
  <1> QED
    BY <1>1, <1>2, Invariance, PTL DEF Spec, ImplementsPort, Port!Spec

-----------------------------------------------------------------------------
(* The AOA thread and the acknowledgements.                                 *)

Increasing(s) == \A i, j \in 1 .. Len(s) : i < j => s[i] < s[j]

Above(n, s) == \A i \in 1 .. Len(s) : n < s[i]

UpTo(s, n) == \A i \in 1 .. Len(s) : s[i] <= n

\* A sequence number travels control, clipboard, answers, acks, received, ack:
\* at each station the numbers are in order, and smaller than those behind.
Pipeline ==
    /\ Increasing(control) /\ Increasing(answers) /\ Increasing(acks)
    /\ Above(clipboard, control) /\ clipboard < next_sequence
    /\ \A i \in 1 .. Len(control) : control[i] < next_sequence
    /\ UpTo(answers, clipboard) /\ UpTo(acks, clipboard)
    /\ \A i \in 1 .. Len(acks) : Above(acks[i], answers)
    /\ ack <= clipboard /\ Above(ack, acks) /\ Above(ack, answers)
    /\ aoaReceiver = "ack" =>
          /\ ack <= received /\ received <= clipboard
          /\ Above(received, acks) /\ Above(received, answers)

\* An input that waits for an answer is processed when it has it.
Answered == aoa = "process" => event.ack <= ack

\* The list of the exit holds every device the phone has registered, but for
\* the strays; it is empty once the thread has ended.
Listed ==
    /\ \A id \in registered \ strays : vec_open[id] > 0
    /\ aoa = "ended" => \A id \in Ids : vec_open[id] = 0

AoaIInv == AoaTypeOK /\ Pipeline /\ Answered /\ PasteFollowsClipboard /\ NoEventMissed /\ Listed

-----------------------------------------------------------------------------
(* Sequences of numbers.                                                    *)

\* The tail of an increasing sequence: increasing, and above the head.
LEMMA TailIncreases ==
    ASSUME NEW s \in Seq(Nat), s # <<>>, Increasing(s)
    PROVE  /\ Head(s) \in Nat /\ Tail(s) \in Seq(Nat) /\ Head(s) = s[1] /\ 1 \in 1 .. Len(s)
           /\ Len(Tail(s)) = Len(s) - 1
           /\ \A i \in 1 .. Len(Tail(s)) : i + 1 \in 1 .. Len(s) /\ Tail(s)[i] = s[i + 1]
           /\ Increasing(Tail(s)) /\ Above(Head(s), Tail(s))
  <1>1. Len(s) \in Nat /\ Len(s) > 0
    OBVIOUS
  <1>2. Head(s) \in Nat /\ Tail(s) \in Seq(Nat) /\ Len(Tail(s)) = Len(s) - 1 /\ Head(s) = s[1]
    OBVIOUS
  <1>3. \A i \in 1 .. Len(s) - 1 : Tail(s)[i] = s[i + 1]
    OBVIOUS
  <1> QED
    BY <1>1, <1>2, <1>3 DEF Increasing, Above

\* Appending a number above all the others.
LEMMA AppendIncreases ==
    ASSUME NEW s \in Seq(Nat), NEW n \in Nat, Increasing(s),
           \A i \in 1 .. Len(s) : s[i] < n
    PROVE  /\ Append(s, n) \in Seq(Nat) /\ Increasing(Append(s, n))
           /\ Len(Append(s, n)) = Len(s) + 1
           /\ \A i \in 1 .. Len(s) : Append(s, n)[i] = s[i]
           /\ Append(s, n)[Len(s) + 1] = n
  <1>1. Len(s) \in Nat /\ \A i \in 1 .. Len(s) : s[i] \in Nat
    OBVIOUS
  <1>2. /\ Append(s, n) \in Seq(Nat) /\ Len(Append(s, n)) = Len(s) + 1
        /\ \A i \in 1 .. Len(s) : Append(s, n)[i] = s[i]
        /\ Append(s, n)[Len(s) + 1] = n
    OBVIOUS
  <1> QED
    BY <1>1, <1>2 DEF Increasing

-----------------------------------------------------------------------------
(* Invariance.                                                              *)

\* The invariant holds when the AOA thread is started.
LEMMA AoaInitEstablishes == AoaInit => AoaIInv
  <1> SUFFICES ASSUME AoaInit PROVE AoaIInv
    OBVIOUS
  <1> USE DEF AoaInit
  <1>1. OPEN(Keyboard) \in Events
    BY DEF OPEN, Events, Ids, SC_SEQUENCE_INVALID
  <1>2. AoaTypeOK
    <2>1. vec_open \in [Ids -> Nat] /\ aoaQueue \in Seq(Events)
      BY <1>1
    <2>2. /\ control \in Seq(Nat) /\ answers \in Seq(Nat) /\ acks \in Seq(Nat)
          /\ next_sequence \in Nat /\ ack_to_wait \in Nat /\ received \in Nat /\ ack \in Nat
          /\ keys \in Nat /\ plugs \in Nat /\ clipboard \in Nat
      BY DEF SC_SEQUENCE_INVALID
    <2> QED
      BY <1>1, <2>1, <2>2, Zenon DEF AoaTypeOK
  <1>3. Pipeline
    BY DEF Pipeline, Increasing, Above, UpTo, SC_SEQUENCE_INVALID
  <1>4. Answered /\ PasteFollowsClipboard /\ NoEventMissed /\ Listed
    BY DEF Answered, PasteFollowsClipboard, NoEventMissed, Listed
  <1> QED
    BY <1>2, <1>3, <1>4 DEF AoaIInv

\* What is pushed is an event, and pushing wakes the thread if it sleeps.
LEMMA Pushes ==
    ASSUME AoaTypeOK, NoEventMissed, NEW e \in Events, PushInput(e) \/ PushAlways(e)
    PROVE  /\ aoaQueue' \in Seq(Events)
           /\ aoa' \in {"lock", "wait", "acked", "process", "closing", "ended"}
           /\ aoa' = "wait" => aoaQueue' = <<>> /\ ~aoaStopped
           /\ aoa' # aoa => aoa' = "lock" /\ aoa = "wait"
  <1> USE DEF AoaTypeOK, NoEventMissed, PushInput, PushAlways, SignalIfEmpty
  <1>1. CASE aoaQueue' = Append(aoaQueue, e) /\ SignalIfEmpty
    BY <1>1
  <1>2. CASE UNCHANGED <<aoaQueue, aoa>>
    BY <1>2
  <1> QED
    BY <1>1, <1>2

\* The events that are pushed.
LEMMA EventsAreEvents ==
    /\ \A id \in Ids, n \in Nat : INPUT(id, n) \in Events
    /\ \A id \in Ids : OPEN(id) \in Events /\ CLOSE(id) \in Events
  BY DEF INPUT, OPEN, CLOSE, Events, SC_SEQUENCE_INVALID

\* Types are kept, and a sleeping thread has nothing to do.
LEMMA TypesKept ==
    ASSUME AoaTypeOK, NoEventMissed, AoaNext
    PROVE  AoaTypeOK' /\ NoEventMissed'
  <1> DEFINE Goal == AoaTypeOK' /\ NoEventMissed'
  <1> USE DEF mainVars, deviceVars, receiverVars, syncVars, threadVars,
              usbVars
  <1>1. ASSUME NEW id \in Ids, Key(id) PROVE Goal
    <2>1. INPUT(id, SC_SEQUENCE_INVALID) \in Events
      BY EventsAreEvents DEF AoaTypeOK, Ids, SC_SEQUENCE_INVALID
    <2>2. /\ aoaQueue' \in Seq(Events)
          /\ aoa' \in {"lock", "wait", "acked", "process", "closing", "ended"}
          /\ aoa' = "wait" => aoaQueue' = <<>> /\ ~aoaStopped
      BY <1>1, <2>1, Pushes DEF Key
    <2>3. AoaTypeOK'
      BY <1>1, <2>2 DEF Key, AoaTypeOK, SC_SEQUENCE_INVALID
    <2> QED
      BY <1>1, <2>2, <2>3 DEF Key, NoEventMissed
  <1>2. ASSUME NEW id \in Ids, GamepadAdded(id) PROVE Goal
    <2>1. OPEN(id) \in Events
      BY EventsAreEvents DEF AoaTypeOK, Ids, SC_SEQUENCE_INVALID
    <2>2. /\ aoaQueue' \in Seq(Events)
          /\ aoa' \in {"lock", "wait", "acked", "process", "closing", "ended"}
          /\ aoa' = "wait" => aoaQueue' = <<>> /\ ~aoaStopped
      BY <1>2, <2>1, Pushes DEF GamepadAdded
    <2>3. AoaTypeOK'
      BY <1>2, <2>2 DEF GamepadAdded, AoaTypeOK, SC_SEQUENCE_INVALID
    <2> QED
      BY <1>2, <2>2, <2>3 DEF GamepadAdded, NoEventMissed
  <1>3. ASSUME NEW id \in Ids, GamepadRemoved(id) PROVE Goal
    <2>1. CLOSE(id) \in Events
      BY EventsAreEvents DEF AoaTypeOK, Ids, SC_SEQUENCE_INVALID
    <2>2. /\ aoaQueue' \in Seq(Events)
          /\ aoa' \in {"lock", "wait", "acked", "process", "closing", "ended"}
          /\ aoa' = "wait" => aoaQueue' = <<>> /\ ~aoaStopped
      BY <1>3, <2>1, Pushes DEF GamepadRemoved
    <2>3. AoaTypeOK'
      BY <1>3, <2>2 DEF GamepadRemoved, AoaTypeOK, SC_SEQUENCE_INVALID
    <2> QED
      BY <1>3, <2>2, <2>3 DEF GamepadRemoved, NoEventMissed
  <1>4. ASSUME PasteRequested PROVE Goal
    <2>1. AoaTypeOK'
      BY <1>4 DEF PasteRequested, AoaTypeOK, SC_SEQUENCE_INVALID
    <2> QED
      BY <1>4, <2>1 DEF PasteRequested, NoEventMissed, AoaTypeOK
  <1>5. ASSUME PasteKey PROVE Goal
    <2>1. INPUT(Keyboard, ack_to_wait) \in Events
      BY EventsAreEvents DEF AoaTypeOK, Ids, SC_SEQUENCE_INVALID
    <2>2. /\ aoaQueue' \in Seq(Events)
          /\ aoa' \in {"lock", "wait", "acked", "process", "closing", "ended"}
          /\ aoa' = "wait" => aoaQueue' = <<>> /\ ~aoaStopped
      BY <1>5, <2>1, Pushes DEF PasteKey
    <2>3. AoaTypeOK'
      BY <1>5, <2>2 DEF PasteKey, AoaTypeOK, SC_SEQUENCE_INVALID
    <2> QED
      BY <1>5, <2>2, <2>3 DEF PasteKey, NoEventMissed
  <1>6. ASSUME sc_aoa_stop PROVE Goal
    <2>1. AoaTypeOK'
      BY <1>6 DEF sc_aoa_stop, AoaTypeOK, SC_SEQUENCE_INVALID
    <2> QED
      BY <1>6, <2>1 DEF sc_aoa_stop, NoEventMissed, AoaTypeOK
  <1>7. ASSUME sc_acksync_interrupt PROVE Goal
    <2>1. AoaTypeOK'
      BY <1>7 DEF sc_acksync_interrupt, AoaTypeOK, SC_SEQUENCE_INVALID
    <2> QED
      BY <1>7, <2>1 DEF sc_acksync_interrupt, NoEventMissed, AoaTypeOK
  <1>8. ASSUME StopServer PROVE Goal
    <2>1. AoaTypeOK'
      BY <1>8 DEF StopServer, AoaTypeOK, SC_SEQUENCE_INVALID
    <2> QED
      BY <1>8, <2>1 DEF StopServer, NoEventMissed, AoaTypeOK
  <1>9. ASSUME sc_acksync_destroy PROVE Goal
    <2>1. AoaTypeOK'
      BY <1>9 DEF sc_acksync_destroy, AoaTypeOK, SC_SEQUENCE_INVALID
    <2> QED
      BY <1>9, <2>1 DEF sc_acksync_destroy, NoEventMissed, AoaTypeOK
  <1>10. ASSUME JoinReceiver PROVE Goal
    <2>1. AoaTypeOK'
      BY <1>10 DEF JoinReceiver, AoaTypeOK, SC_SEQUENCE_INVALID
    <2> QED
      BY <1>10, <2>1 DEF JoinReceiver, NoEventMissed, AoaTypeOK
  <1>11. ASSUME InterruptSockets PROVE Goal
    <2>1. AoaTypeOK'
      BY <1>11 DEF InterruptSockets, AoaTypeOK, SC_SEQUENCE_INVALID
    <2> QED
      BY <1>11, <2>1 DEF InterruptSockets, NoEventMissed, AoaTypeOK
  <1>12. ASSUME setClipboard PROVE Goal
    <2>1. AoaTypeOK'
      BY <1>12 DEF setClipboard, AoaTypeOK, SC_SEQUENCE_INVALID
    <2> QED
      BY <1>12, <2>1 DEF setClipboard, NoEventMissed, AoaTypeOK
  <1>13. ASSUME SendAnswer PROVE Goal
    <2>1. AoaTypeOK'
      BY <1>13 DEF SendAnswer, AoaTypeOK, SC_SEQUENCE_INVALID
    <2> QED
      BY <1>13, <2>1 DEF SendAnswer, NoEventMissed, AoaTypeOK
  <1>14. ASSUME ReceiveAck PROVE Goal
    <2>1. AoaTypeOK'
      BY <1>14 DEF ReceiveAck, AoaTypeOK, SC_SEQUENCE_INVALID
    <2> QED
      BY <1>14, <2>1 DEF ReceiveAck, NoEventMissed, AoaTypeOK
  <1>15. ASSUME sc_acksync_ack PROVE Goal
    <2>1. AoaTypeOK'
      BY <1>15 DEF sc_acksync_ack, AoaTypeOK, SC_SEQUENCE_INVALID
    <2> QED
      BY <1>15, <2>1 DEF sc_acksync_ack, NoEventMissed, AoaTypeOK
  <1>16. ASSUME AckReceiverEnds PROVE Goal
    <2>1. AoaTypeOK'
      BY <1>16 DEF AckReceiverEnds, AoaTypeOK, SC_SEQUENCE_INVALID
    <2> QED
      BY <1>16, <2>1 DEF AckReceiverEnds, NoEventMissed, AoaTypeOK
  <1>17. ASSUME AoaWaits PROVE Goal
    <2>1. AoaTypeOK'
      BY <1>17 DEF AoaWaits, AoaTypeOK, SC_SEQUENCE_INVALID
    <2> QED
      BY <1>17, <2>1 DEF AoaWaits, NoEventMissed, AoaTypeOK
  <1>18. ASSUME AoaTakes PROVE Goal
    <2>1. AoaTypeOK'
      <3>1. event' \in Events /\ aoaQueue' \in Seq(Events)
        BY <1>18, HeadTailProperties DEF AoaTakes, AoaTypeOK
      <3>2. aoa' \in {"acked", "process"}
        BY <1>18 DEF AoaTakes
      <3> QED
        BY <1>18, <3>1, <3>2 DEF AoaTakes, AoaTypeOK
    <2> QED
      BY <1>18, <2>1 DEF AoaTakes, NoEventMissed, AoaTypeOK
  <1>19. ASSUME AckArrives PROVE Goal
    <2>1. AoaTypeOK'
      BY <1>19 DEF AckArrives, AoaTypeOK, SC_SEQUENCE_INVALID
    <2> QED
      BY <1>19, <2>1 DEF AckArrives, NoEventMissed, AoaTypeOK
  <1>20. ASSUME AckTimesOut PROVE Goal
    <2>1. AoaTypeOK'
      BY <1>20 DEF AckTimesOut, AoaTypeOK, SC_SEQUENCE_INVALID
    <2> QED
      BY <1>20, <2>1 DEF AckTimesOut, NoEventMissed, AoaTypeOK
  <1>21. ASSUME AoaStops PROVE Goal
    <2>1. AoaTypeOK'
      BY <1>21 DEF AoaStops, AoaTypeOK, SC_SEQUENCE_INVALID
    <2> QED
      BY <1>21, <2>1 DEF AoaStops, NoEventMissed, AoaTypeOK
  <1>22. ASSUME ProcessInput PROVE Goal
    <2>1. AoaTypeOK'
      <3>1. event.ack \in Nat
        BY DEF AoaTypeOK, Events
      <3>2. injected' \subseteq Nat
        BY <1>22, <3>1 DEF ProcessInput, AoaTypeOK
      <3> QED
        BY <1>22, <3>2 DEF ProcessInput, AoaTypeOK
    <2> QED
      BY <1>22, <2>1 DEF ProcessInput, NoEventMissed, AoaTypeOK
  <1>23. ASSUME ProcessOpen PROVE Goal
    <2>1. AoaTypeOK'
      <3>1. event.id \in Ids
        BY DEF AoaTypeOK, Events
      <3>2. vec_open' \in [Ids -> Nat] /\ registered' \subseteq Ids /\ strays' \subseteq Ids
        <4>1. \/ vec_open' = vec_open
              \/ vec_open' = [vec_open EXCEPT ![event.id] = @ + 1]
          BY <1>23 DEF ProcessOpen, Opened, OpenFails
        <4>2. /\ registered' \subseteq registered \cup {event.id}
              /\ strays' \subseteq strays \cup {event.id}
          BY <1>23 DEF ProcessOpen, Opened, OpenFails
        <4>3. vec_open' \in [Ids -> Nat]
          <5>1. vec_open \in [Ids -> Nat]
            BY DEF AoaTypeOK
          <5>2. [vec_open EXCEPT ![event.id] = @ + 1] \in [Ids -> Nat]
            BY <3>1, <5>1
          <5> QED
            BY <4>1, <5>1, <5>2
        <4> QED
          BY <3>1, <4>2, <4>3, Zenon DEF AoaTypeOK
      <3>3. open_error' \in BOOLEAN
        BY <1>23, Zenon DEF ProcessOpen, Opened, OpenFails, AoaTypeOK
      <3>4. aoa' = "lock" /\ UNCHANGED <<mainVars, deviceVars, aoaSocket, receiverVars, syncVars,
                                        aoaQueue, aoaStopped, event, injected>>
        BY <1>23 DEF ProcessOpen
      <3> QED
        BY <3>2, <3>3, <3>4 DEF AoaTypeOK
    <2> QED
      BY <1>23, <2>1 DEF ProcessOpen, NoEventMissed, AoaTypeOK
  <1>24. ASSUME ProcessClose PROVE Goal
    <2>1. AoaTypeOK'
      <3>1. event.id \in Ids
        BY DEF AoaTypeOK, Events
      <3>2. vec_open' \in [Ids -> Nat] /\ registered' \subseteq Ids /\ strays' \subseteq Ids
        <4>1. vec_open \in [Ids -> Nat] /\ registered \subseteq Ids /\ strays \subseteq Ids
          BY DEF AoaTypeOK
        <4>2. StruckOff(event.id) \in [Ids -> Nat]
          BY <3>1, <4>1 DEF StruckOff
        <4>3. /\ vec_open' = vec_open \/ vec_open' = StruckOff(event.id)
              /\ registered' \subseteq registered /\ strays' \subseteq strays
          BY <1>24 DEF ProcessClose
        <4> QED
          BY <4>1, <4>2, <4>3
      <3> QED
        BY <1>24, <3>2 DEF ProcessClose, AoaTypeOK
    <2> QED
      BY <1>24, <2>1 DEF ProcessClose, NoEventMissed, AoaTypeOK
  <1>25. ASSUME AoaEnds PROVE Goal
    <2>1. AoaTypeOK'
      BY <1>25 DEF AoaEnds, AoaTypeOK, SC_SEQUENCE_INVALID
    <2> QED
      BY <1>25, <2>1 DEF AoaEnds, NoEventMissed, AoaTypeOK
  <1>26. ASSUME NEW id \in Ids, Unregister(id) PROVE Goal
    <2>1. AoaTypeOK'
      <3>1. vec_open' \in [Ids -> Nat] /\ registered' \subseteq Ids
        BY <1>26 DEF Unregister, StruckOff, AoaTypeOK
      <3>2. strays' \subseteq Ids
        BY <1>26 DEF Unregister, AoaTypeOK
      <3>3. UNCHANGED <<mainVars, deviceVars, aoaSocket, receiverVars, syncVars, aoaQueue, aoaStopped,
                        aoa, event, open_error, injected>>
        BY <1>26 DEF Unregister
      <3> QED
        BY <3>1, <3>2, <3>3 DEF AoaTypeOK
    <2> QED
      BY <1>26, <2>1 DEF Unregister, NoEventMissed, AoaTypeOK
  <1> QED
    BY <1>1, <1>2, <1>3, <1>4, <1>5, <1>6, <1>7, <1>8, <1>9, <1>10, <1>11, <1>12, <1>13, <1>14,
       <1>15, <1>16, <1>17, <1>18, <1>19, <1>20, <1>21, <1>22, <1>23, <1>24, <1>25, <1>26, Zenon
    DEF AoaNext, User, Main, Receiver, Aoa

\* Sequence numbers keep their order on every way.
LEMMA PipelineKept ==
    ASSUME AoaTypeOK, Pipeline, AoaNext
    PROVE  Pipeline'
  <1> DEFINE pipe == <<control, clipboard, answers, acks, next_sequence, aoaReceiver, received, ack>>
  <1> USE DEF mainVars, deviceVars, receiverVars, syncVars
  <1>1. CASE PasteRequested
    <2>1. control' = Append(control, next_sequence) /\ next_sequence' = next_sequence + 1
      BY <1>1 DEF PasteRequested
    <2>2. UNCHANGED <<clipboard, answers, acks, aoaReceiver, received, ack>>
      BY <1>1 DEF PasteRequested
    <2>3. /\ Increasing(control') /\ Len(control') = Len(control) + 1
          /\ \A i \in 1 .. Len(control) : control'[i] = control[i]
          /\ control'[Len(control) + 1] = next_sequence
      BY <2>1, AppendIncreases DEF AoaTypeOK, Pipeline
    <2>4. Len(control) \in Nat /\ \A i \in 1 .. Len(control) : control[i] \in Nat
      BY DEF AoaTypeOK
    <2>5. Above(clipboard, control') /\ \A i \in 1 .. Len(control') : control'[i] < next_sequence'
      <3>1. \A i \in 1 .. Len(control') : i \in 1 .. Len(control) \/ i = Len(control) + 1
        BY <2>3, <2>4
      <3>2. \A i \in 1 .. Len(control) : clipboard < control[i] /\ control[i] < next_sequence
        BY DEF Pipeline, Above
      <3>3. clipboard < next_sequence /\ next_sequence \in Nat
        BY DEF Pipeline, AoaTypeOK
      <3>4. \A i \in 1 .. Len(control') : clipboard < control'[i] /\ control'[i] < next_sequence + 1
        BY <2>3, <2>4, <3>1, <3>2, <3>3
      <3> QED
        BY <2>1, <3>4 DEF Above
    <2> QED
      BY <2>1, <2>2, <2>3, <2>5 DEF Pipeline, AoaTypeOK
  <1>2. CASE setClipboard
    <2> DEFINE n == Head(control)
    <2>1. /\ control # <<>> /\ control' = Tail(control) /\ clipboard' = n
          /\ answers' = Append(answers, n) \/ answers' = answers
      BY <1>2 DEF setClipboard
    <2>2. UNCHANGED <<acks, next_sequence, aoaReceiver, received, ack>>
      BY <1>2 DEF setClipboard
    <2>3. /\ n \in Nat /\ clipboard < n /\ n < next_sequence
          /\ Increasing(control') /\ Above(n, control')
          /\ \A i \in 1 .. Len(control') : control'[i] < next_sequence
      BY <2>1, TailIncreases DEF AoaTypeOK, Pipeline, Above
    <2>4. /\ \A i \in 1 .. Len(answers) : answers[i] \in Nat /\ answers[i] < n
          /\ \A i \in 1 .. Len(acks) : acks[i] \in Nat /\ acks[i] < n
          /\ ack < n /\ (aoaReceiver = "ack" => received < n)
      <3>1. clipboard \in Nat /\ clipboard < n /\ n \in Nat
        BY <2>3 DEF AoaTypeOK
      <3>2. \A i \in 1 .. Len(answers) : answers[i] \in Nat /\ answers[i] < n
        <4>1. answers \in Seq(Nat)
          BY DEF AoaTypeOK
        <4>2. \A i \in 1 .. Len(answers) : answers[i] <= clipboard
          BY DEF Pipeline, UpTo
        <4> QED
          BY <3>1, <4>1, <4>2
      <3>3. \A i \in 1 .. Len(acks) : acks[i] \in Nat /\ acks[i] < n
        <4>1. acks \in Seq(Nat)
          BY DEF AoaTypeOK
        <4>2. \A i \in 1 .. Len(acks) : acks[i] <= clipboard
          BY DEF Pipeline, UpTo
        <4> QED
          BY <3>1, <4>1, <4>2
      <3>4. ack < n /\ (aoaReceiver = "ack" => received < n)
        BY <3>1 DEF AoaTypeOK, Pipeline
      <3> QED
        BY <3>2, <3>3, <3>4
    <2>5. /\ Increasing(answers') /\ UpTo(answers', n) /\ Above(ack, answers')
          /\ \A i \in 1 .. Len(acks) : Above(acks[i], answers')
          /\ aoaReceiver = "ack" => Above(received, answers')
      <3>1. CASE answers' = answers
        BY <2>3, <2>4, <3>1 DEF Pipeline, UpTo, Above
      <3>2. CASE answers' = Append(answers, n)
        <4>1. /\ Increasing(answers') /\ Len(answers') = Len(answers) + 1
              /\ \A i \in 1 .. Len(answers) : answers'[i] = answers[i]
              /\ answers'[Len(answers) + 1] = n /\ Len(answers) \in Nat
          <5>1. answers \in Seq(Nat) /\ Increasing(answers) /\ n \in Nat
            BY <2>3 DEF AoaTypeOK, Pipeline
          <5>2. \A i \in 1 .. Len(answers) : answers[i] < n
            BY <2>4
          <5> HIDE DEF n
          <5> QED
            BY <3>2, <5>1, <5>2, AppendIncreases
        <4>2. \A i \in 1 .. Len(answers') : i \in 1 .. Len(answers) \/ i = Len(answers) + 1
          BY <4>1
        <4>3. UpTo(answers', n)
          BY <2>3, <2>4, <4>1, <4>2 DEF UpTo
        <4>4. ASSUME NEW k \in Nat, Above(k, answers), k < n PROVE Above(k, answers')
          BY <4>1, <4>2, <4>4 DEF Above
        <4> QED
          BY <2>4, <4>1, <4>3, <4>4 DEF Pipeline, AoaTypeOK
      <3> QED
        BY <2>1, <3>1, <3>2
    <2>6. UpTo(acks, n) /\ ack <= n /\ (aoaReceiver = "ack" => received <= n)
      BY <2>3, <2>4, SMTT(30) DEF UpTo, AoaTypeOK
    <2> QED
      BY <2>1, <2>2, <2>3, <2>5, <2>6 DEF Pipeline
  <1>3. CASE SendAnswer
    <2> DEFINE n == Head(answers)
    <2>1. answers # <<>> /\ answers' = Tail(answers) /\ acks' = Append(acks, n)
      BY <1>3 DEF SendAnswer
    <2>2. UNCHANGED <<control, clipboard, next_sequence, aoaReceiver, received, ack>>
      BY <1>3 DEF SendAnswer
    <2>3. /\ n \in Nat /\ n = answers[1] /\ 1 \in 1 .. Len(answers)
          /\ Increasing(answers') /\ Above(n, answers')
          /\ \A i \in 1 .. Len(answers') : i + 1 \in 1 .. Len(answers) /\ answers'[i] = answers[i + 1]
      BY <2>1, TailIncreases DEF AoaTypeOK, Pipeline
    <2>4. /\ \A i \in 1 .. Len(acks) : acks[i] < n
          /\ n <= clipboard /\ ack < n /\ (aoaReceiver = "ack" => received < n)
      BY <2>3 DEF Pipeline, Above, UpTo
    <2>5. /\ Increasing(acks') /\ Len(acks') = Len(acks) + 1
          /\ \A i \in 1 .. Len(acks) : acks'[i] = acks[i]
          /\ acks'[Len(acks) + 1] = n /\ Len(acks) \in Nat
      <3>1. acks \in Seq(Nat) /\ Increasing(acks) /\ n \in Nat
        BY <2>3 DEF AoaTypeOK, Pipeline
      <3>2. \A i \in 1 .. Len(acks) : acks[i] < n
        BY <2>4
      <3> HIDE DEF n
      <3> QED
        BY <2>1, <3>1, <3>2, AppendIncreases
    <2>6. \A i \in 1 .. Len(acks') : i \in 1 .. Len(acks) \/ i = Len(acks) + 1
      BY <2>5
    <2>7. UpTo(acks', clipboard) /\ UpTo(answers', clipboard)
      BY <2>3, <2>4, <2>5, <2>6 DEF UpTo, Pipeline
    <2>8. ASSUME NEW k, Above(k, answers) PROVE Above(k, answers')
      BY <2>3, <2>8 DEF Above
    <2>9. ASSUME NEW k, Above(k, acks), k < n PROVE Above(k, acks')
      BY <2>5, <2>6, <2>9 DEF Above
    <2>10. \A i \in 1 .. Len(acks') : Above(acks'[i], answers')
      BY <2>3, <2>5, <2>6, <2>8 DEF Pipeline
    <2> QED
      BY <2>2, <2>3, <2>4, <2>5, <2>7, <2>8, <2>9, <2>10 DEF Pipeline
  <1>4. CASE ReceiveAck
    <2> DEFINE n == Head(acks)
    <2>1. /\ acks # <<>> /\ acks' = Tail(acks) /\ received' = n /\ aoaReceiver' = "ack"
          /\ UNCHANGED <<control, clipboard, answers, next_sequence, ack>>
      BY <1>4 DEF ReceiveAck
    <2>2. /\ n \in Nat /\ n = acks[1] /\ 1 \in 1 .. Len(acks)
          /\ Increasing(acks') /\ Above(n, acks')
          /\ \A i \in 1 .. Len(acks') : i + 1 \in 1 .. Len(acks) /\ acks'[i] = acks[i + 1]
      BY <2>1, TailIncreases DEF AoaTypeOK, Pipeline
    <2>3. ack <= n /\ n <= clipboard /\ Above(n, answers)
      BY <2>2 DEF Pipeline, Above, UpTo, AoaTypeOK
    <2>4. /\ UpTo(acks', clipboard) /\ Above(ack, acks')
          /\ \A i \in 1 .. Len(acks') : Above(acks'[i], answers)
      BY <2>2 DEF Pipeline, Above, UpTo
    <2> QED
      BY <2>1, <2>2, <2>3, <2>4 DEF Pipeline
  <1>5. CASE sc_acksync_ack
    BY <1>5 DEF sc_acksync_ack, Pipeline
  <1>6. CASE AckReceiverEnds
    BY <1>6 DEF AckReceiverEnds, Pipeline
  <1>7. CASE UNCHANGED pipe
    BY <1>7 DEF Pipeline
  <1>8. ASSUME NEW id \in Ids,
               Key(id) \/ GamepadAdded(id) \/ GamepadRemoved(id) \/ Unregister(id)
        PROVE  UNCHANGED pipe
    BY <1>8 DEF Key, GamepadAdded, GamepadRemoved, Unregister
  <1>9. ASSUME \/ sc_aoa_stop \/ PasteKey \/ sc_acksync_interrupt \/ StopServer
               \/ sc_acksync_destroy \/ JoinReceiver \/ InterruptSockets
        PROVE  UNCHANGED pipe
    BY <1>9 DEF sc_aoa_stop, PasteKey, sc_acksync_interrupt, StopServer,
       sc_acksync_destroy, JoinReceiver, InterruptSockets
  <1>10. ASSUME \/ AoaWaits \/ AoaTakes \/ AckArrives \/ AckTimesOut \/ AoaStops
                \/ ProcessInput \/ ProcessOpen \/ ProcessClose \/ AoaEnds
         PROVE  UNCHANGED pipe
    BY <1>10 DEF AoaWaits, AoaTakes, AckArrives, AckTimesOut, AoaStops,
       ProcessInput,
       ProcessOpen, ProcessClose, AoaEnds
  <1> HIDE DEF pipe
  <1> QED
    BY <1>1, <1>2, <1>3, <1>4, <1>5, <1>6, <1>7, <1>8, <1>9, <1>10, Zenon
    DEF AoaNext, User, Main, Receiver, Aoa

\* An input is processed once its answer is there, and stays behind it.
LEMMA PasteKept ==
    ASSUME AoaTypeOK, NoEventMissed, Pipeline, Answered, PasteFollowsClipboard, AoaNext
    PROVE  Answered' /\ PasteFollowsClipboard'
  <1> USE DEF mainVars, deviceVars, receiverVars, syncVars, threadVars,
              usbVars
  <1>1. ASSUME NEW id \in Ids, Key(id) \/ GamepadAdded(id) \/ GamepadRemoved(id) \/ PasteKey
        PROVE  UNCHANGED <<event, ack, injected, clipboard>> /\ (aoa' = "process" => aoa = "process")
    BY <1>1 DEF Key, GamepadAdded, GamepadRemoved, PasteKey, PushInput,
       PushAlways, SignalIfEmpty
  <1>2. ASSUME \/ sc_aoa_stop \/ PasteRequested \/ sc_acksync_interrupt \/ StopServer
               \/ sc_acksync_destroy \/ JoinReceiver \/ InterruptSockets
               \/ SendAnswer \/ ReceiveAck \/ AckReceiverEnds
        PROVE  UNCHANGED <<event, ack, injected, clipboard>> /\ (aoa' = "process" => aoa = "process")
    BY <1>2 DEF sc_aoa_stop, PasteRequested, sc_acksync_interrupt, StopServer,
       sc_acksync_destroy, JoinReceiver, InterruptSockets, SendAnswer,
       ReceiveAck, AckReceiverEnds
  <1>3. ASSUME \/ AoaWaits \/ AckTimesOut \/ AoaStops \/ ProcessOpen \/ ProcessClose \/ AoaEnds
               \/ \E id \in Ids : Unregister(id)
        PROVE  UNCHANGED <<event, ack, injected, clipboard>> /\ aoa' # "process"
    BY <1>3 DEF AoaWaits, AckTimesOut, AoaStops, ProcessOpen, ProcessClose,
       AoaEnds, Unregister
  <1>4. CASE UNCHANGED <<event, ack, injected, clipboard>> /\ (aoa' = "process" => aoa = "process")
    BY <1>4 DEF Answered, PasteFollowsClipboard
  <1>5. CASE setClipboard
    <2>1. /\ UNCHANGED <<event, ack, injected, aoa>> /\ control # <<>>
          /\ clipboard' = Head(control)
      BY <1>5 DEF setClipboard
    <2>2. clipboard' \in Nat /\ clipboard < clipboard'
      BY <2>1, TailIncreases DEF Pipeline, Above, AoaTypeOK
    <2>3. \A n \in injected : n \in Nat /\ n <= clipboard /\ clipboard \in Nat
      BY DEF PasteFollowsClipboard, AoaTypeOK
    <2>4. PasteFollowsClipboard'
      BY <2>1, <2>2, <2>3 DEF PasteFollowsClipboard
    <2> QED
      BY <2>1, <2>4 DEF Answered
  <1>6. CASE sc_acksync_ack
    <2>1. /\ UNCHANGED <<event, injected, clipboard, aoa>> /\ ack' = received /\ ack <= received
      BY <1>6 DEF sc_acksync_ack, Pipeline
    <2>2. event.ack \in Nat /\ ack \in Nat /\ received \in Nat
      BY DEF AoaTypeOK, Events
    <2> QED
      BY <2>1, <2>2 DEF Answered, PasteFollowsClipboard
  <1>7. CASE AoaTakes
    <2>1. UNCHANGED <<ack, injected, clipboard>> /\ ack \in Nat
      BY <1>7 DEF AoaTakes, AoaTypeOK
    <2>2. aoa' = "process" => event'.ack = 0
      BY <1>7 DEF AoaTakes, SC_SEQUENCE_INVALID
    <2> QED
      BY <2>1, <2>2 DEF Answered, PasteFollowsClipboard
  <1>8. CASE AckArrives
    <2>1. UNCHANGED <<event, ack, injected, clipboard>> /\ ack >= event.ack
      BY <1>8 DEF AckArrives
    <2>2. event.ack \in Nat /\ ack \in Nat
      BY DEF AoaTypeOK, Events
    <2> QED
      BY <2>1, <2>2 DEF Answered, PasteFollowsClipboard
  <1>9. CASE ProcessInput
    <2>1. /\ UNCHANGED <<event, ack, clipboard>> /\ aoa = "process" /\ aoa' = "lock"
          /\ injected' \subseteq injected \cup {event.ack}
      BY <1>9 DEF ProcessInput
    <2>2. event.ack \in Nat /\ ack \in Nat /\ clipboard \in Nat
      BY DEF AoaTypeOK, Events
    <2>3. event.ack <= clipboard
      BY <2>1, <2>2 DEF Answered, Pipeline
    <2> QED
      BY <2>1, <2>3 DEF Answered, PasteFollowsClipboard
  <1>10. Keyboard \in Ids
    BY DEF Ids
  <1>11. ASSUME PasteKey
         PROVE  UNCHANGED <<event, ack, injected, clipboard>> /\ (aoa' = "process" => aoa = "process")
    BY <1>1, <1>10, <1>11
  <1> QED
    BY <1>1, <1>2, <1>3, <1>4, <1>5, <1>6, <1>7, <1>8, <1>9, <1>11, Zenon
    DEF AoaNext, User, Main, Receiver, Aoa

\* The list of the exit is complete.
LEMMA ListedKept ==
    ASSUME AoaTypeOK, Listed, AoaNext
    PROVE  Listed'
  <1> USE DEF mainVars, deviceVars, receiverVars, syncVars, threadVars,
              usbVars
  <1> DEFINE Same == UNCHANGED <<vec_open, registered, strays>> /\ (aoa' = "ended" => aoa = "ended")
  <1>1. ASSUME NEW id \in Ids, Key(id) \/ GamepadAdded(id) \/ GamepadRemoved(id)
        PROVE  Same
    BY <1>1 DEF Key, GamepadAdded, GamepadRemoved, PushInput, PushAlways,
       SignalIfEmpty
  <1>2. ASSUME \/ sc_aoa_stop \/ PasteRequested \/ PasteKey \/ sc_acksync_interrupt
               \/ StopServer \/ sc_acksync_destroy \/ JoinReceiver \/ InterruptSockets
        PROVE  Same
    BY <1>2 DEF sc_aoa_stop, PasteRequested, PasteKey, PushInput, SignalIfEmpty,
       sc_acksync_interrupt, StopServer, sc_acksync_destroy,
       JoinReceiver, InterruptSockets
  <1>3. ASSUME setClipboard \/ SendAnswer \/ ReceiveAck \/ sc_acksync_ack \/ AckReceiverEnds
        PROVE  Same
    BY <1>3 DEF setClipboard, SendAnswer, ReceiveAck, sc_acksync_ack,
       AckReceiverEnds
  <1>4. ASSUME \/ AoaWaits \/ AoaTakes \/ AckArrives \/ AckTimesOut \/ AoaStops \/ ProcessInput
        PROVE  Same
    BY <1>4 DEF AoaWaits, AoaTakes, AckArrives, AckTimesOut, AoaStops,
       ProcessInput
  <1>5. CASE Same
    BY <1>5 DEF Listed
  <1>6. vec_open \in [Ids -> Nat] /\ registered \subseteq Ids /\ event.id \in Ids
    BY DEF AoaTypeOK, Events
  <1>7. CASE ProcessOpen
    <2>1. aoa' # "ended"
      BY <1>7 DEF ProcessOpen
    <2>2. CASE /\ registered' = registered \cup {event.id} /\ strays' = strays \ {event.id}
               /\ vec_open' = [vec_open EXCEPT ![event.id] = @ + 1]
      <3>1. \A id \in Ids : vec_open'[id] >= vec_open[id] /\ vec_open'[event.id] > 0
        BY <1>6, <2>2
      <3>2. \A id \in Ids : vec_open[id] \in Nat /\ vec_open'[id] \in Nat
        BY <1>6, <2>2
      <3>3. ASSUME NEW id \in registered' \ strays' PROVE vec_open'[id] > 0
        <4>1. CASE id = event.id
          BY <1>6, <3>1, <4>1
        <4>2. CASE id # event.id
          <5>1. id \in registered \ strays /\ id \in Ids
            BY <1>6, <2>2, <3>3, <4>2
          <5> QED
            BY <3>1, <3>2, <5>1 DEF Listed
        <4> QED
          BY <4>1, <4>2
      <3> QED
        BY <2>1, <3>3 DEF Listed
    <2>3. CASE /\ registered' \ strays' \subseteq registered \ strays
               /\ vec_open' = vec_open
      BY <2>1, <2>3 DEF Listed
    <2> QED
      BY <1>7, <2>2, <2>3 DEF ProcessOpen, Opened, OpenFails
  <1>8. CASE ProcessClose
    <2>1. aoa' # "ended"
      BY <1>8 DEF ProcessClose
    <2>2. registered' \subseteq registered /\ registered' \ strays' \subseteq registered \ strays
      BY <1>8 DEF ProcessClose
    <2>3. CASE event.id \notin registered' /\ vec_open' = StruckOff(event.id)
      <3>1. \A id \in registered' : vec_open'[id] = vec_open[id]
        BY <1>6, <2>2, <2>3 DEF StruckOff
      <3> QED
        BY <2>1, <2>2, <3>1 DEF Listed
    <2>4. CASE UNCHANGED vec_open
      BY <2>1, <2>2, <2>4 DEF Listed
    <2> QED
      BY <1>8, <2>3, <2>4 DEF ProcessClose
  <1>9. ASSUME NEW id \in Ids, Unregister(id) PROVE Listed'
    <2>1. aoa' # "ended" /\ vec_open' = StruckOff(id)
      BY <1>9 DEF Unregister
    <2>2. /\ id \notin registered' \ strays'
          /\ registered' \subseteq registered
          /\ registered' \ strays' \subseteq registered \ strays
      BY <1>9 DEF Unregister
    <2>3. \A k \in registered' \ strays' : vec_open'[k] = vec_open[k]
      BY <1>6, <2>1, <2>2 DEF StruckOff
    <2> QED
      BY <2>1, <2>2, <2>3 DEF Listed
  <1>10. CASE AoaEnds
    BY <1>10 DEF AoaEnds, Listed
  <1> HIDE DEF Same
  <1> QED
    BY <1>1, <1>2, <1>3, <1>4, <1>5, <1>7, <1>8, <1>9, <1>10, Zenon
    DEF AoaNext, User, Main, Receiver, Aoa

\* A step that changes nothing keeps everything.
LEMMA StutterKeeps == AoaIInv /\ UNCHANGED aoaVars => AoaIInv'
  <1> SUFFICES ASSUME AoaIInv, UNCHANGED aoaVars PROVE AoaIInv'
    OBVIOUS
  <1> USE DEF aoaVars, mainVars, deviceVars, receiverVars, syncVars,
              threadVars, usbVars
  <1>1. AoaTypeOK'
    BY DEF AoaIInv, AoaTypeOK
  <1>2. Pipeline'
    BY DEF AoaIInv, Pipeline
  <1>3. Answered' /\ PasteFollowsClipboard' /\ NoEventMissed' /\ Listed'
    BY DEF AoaIInv, Answered, PasteFollowsClipboard, NoEventMissed, Listed
  <1> QED
    BY <1>1, <1>2, <1>3 DEF AoaIInv

\* AoaIInv is an invariant of the AOA thread and its acknowledgements.
THEOREM AoaInvariance == AoaSpec => []AoaIInv
  <1>1. AoaIInv /\ [AoaNext]_aoaVars => AoaIInv'
    <2>1. AoaIInv /\ AoaNext => AoaIInv'
      BY TypesKept, PipelineKept, PasteKept, ListedKept DEF AoaIInv
    <2> QED
      BY <2>1, StutterKeeps
  <1> QED
    BY AoaInitEstablishes, <1>1, PTL DEF AoaSpec

\* Whatever is lost, late or dropped, acknowledgements reach sc_acksync_ack()
\* in increasing order: its assertion holds.
THEOREM AcksAreInOrder == AoaSpec => []AcksAreMonotonic
  <1>1. AoaIInv => AcksAreMonotonic
    BY DEF AoaIInv, AoaTypeOK, Pipeline, AcksAreMonotonic
  <1> QED
    BY AoaInvariance, <1>1, PTL

\* Ctrl+v over USB never overtakes the clipboard sent over the control socket.
THEOREM PasteIsNeverEarly == AoaSpec => []PasteFollowsClipboard
  <1>1. AoaIInv => PasteFollowsClipboard
    BY DEF AoaIInv
  <1> QED
    BY AoaInvariance, <1>1, PTL

\* The AOA thread never sleeps on an event or on a stop.
THEOREM AoaWakeupsAreKept == AoaSpec => []NoEventMissed
  <1>1. AoaIInv => NoEventMissed
    BY DEF AoaIInv
  <1> QED
    BY AoaInvariance, <1>1, PTL

\* The AOA thread leaves no device behind but those whose requests failed on the
\* phone or that no memory was left to list.
THEOREM NothingIsLeft == AoaSpec => []NoDeviceLeft
  <1>1. AoaIInv => NoDeviceLeft
    <2> SUFFICES ASSUME AoaIInv, aoa = "ended" PROVE registered \subseteq strays
      BY DEF NoDeviceLeft
    <2>1. \A id \in registered \ strays : vec_open[id] > 0 /\ vec_open[id] = 0
      BY DEF AoaIInv, Listed, AoaTypeOK
    <2> QED
      BY <2>1
  <1> QED
    BY AoaInvariance, <1>1, PTL

\* No Ctrl+v overtakes its clipboard and no answer an earlier one, for any
\* number of pastes and any loss of answers.
THEOREM PasteProtocol == AoaSpec => []PastesAreOrdered
  <1>1. AoaIInv => AoaTypeOK
    BY DEF AoaIInv
  <1> QED
    BY AoaInvariance, AcksAreInOrder, PasteIsNeverEarly, <1>1, PTL DEF PastesAreOrdered

\* The AOA thread misses no event and no stop, and leaves no device behind that
\* it could know of.
THEOREM ThreadIsReliable == AoaSpec => []NothingIsMissed
  BY AoaWakeupsAreKept, NothingIsLeft, PTL DEF NothingIsMissed
=============================================================================
