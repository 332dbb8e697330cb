---------------------------- MODULE VideoPipeline ----------------------------
(***************************************************************************)
(* From the socket to the frame sink: the demuxer thread (demuxer.c) reads *)
(* packets, merges the configuration (packet_merger.c) and pushes them to  *)
(* its packet sinks (trait/packet_source.c): the decoder (decoder.c), then *)
(* the recorder.  The decoder pushes frames to its sink, directly or       *)
(* through the video regulator (video_regulator.c, clock.c), which delays  *)
(* them on a thread of its own.                                            *)
(*                                                                         *)
(* The audio stream is the same thread without sessions nor regulator.     *)
(* Frames, sessions and configurations are numbered; a delay ends at any   *)
(* time.                                                                   *)
(***************************************************************************)
EXTENDS Integers, Sequences, FiniteSets

CONSTANTS
    MaxItems,       \* bound: sessions and packets the device sends
    MaxHeld,        \* bound: frames that the codec delays
    ClockRange      \* SC_CLOCK_RANGE

ASSUME BoundAssumption == MaxItems \in Nat /\ MaxHeld \in Nat

(* It is 32 in the code; with 1 the clock would have its first value for    *)
(* ever, and no frame would be delayed.                                    *)
ASSUME ClockAssumption == ClockRange \in Nat \ {0, 1}

Sinks == {"decoder", "recorder", "screen"}

VARIABLES
    video, regulated, merge,    \* the stream, and how it is handled
    pc, status,                 \* run_demuxer()
    sink,                       \* the sinks: "new", "open", "closed"...
    config,                     \* merger.config, 0 for NULL
    pkt,                        \* the packet being pushed
    codec, frames,              \* frames in the codec, and those it gave
    bpc, held,                  \* run_buffering() and its packet
    queue, stopped, range,      \* the regulator
    sent,                       \* history: what the device sent
    decoded,                    \* history: the last configuration decoded
    given,                      \* history: frames given by the codec
    shown                       \* history: what the frame sink got last

demuxVars == <<pc, status, config, pkt>>
codecVars == <<codec, frames, decoded, given>>
bufVars == <<bpc, held>>
regVars == <<queue, stopped, range>>
modeVars == <<video, regulated, merge>>
vars == <<modeVars, demuxVars, sink, codecVars, bufVars, regVars, sent, shown>>

None == [kind |-> "none", id |-> 0, session |-> 0, config |-> 0]

(* sc_demuxer_init(), sc_decoder_init(), sc_video_regulator_init().         *)
Init ==
    /\ video \in BOOLEAN /\ merge \in BOOLEAN
    /\ regulated \in IF video THEN BOOLEAN ELSE {FALSE}
    /\ pc = "codec" /\ status = "error" /\ config = 0 /\ pkt = None
    /\ sink = [s \in Sinks |-> "new"]
    /\ codec = <<>> /\ frames = <<>> /\ decoded = 0 /\ given = 0
    /\ bpc = "none" /\ held = None
    /\ queue = <<>> /\ stopped = FALSE /\ range = 0
    /\ sent = [items |-> 0, session |-> 0, config |-> 0]
    /\ shown = [id |-> 0, session |-> 0, current |-> 0]

(* The calls of a sink; one it cannot take shows in its state.              *)
Opened(s) == IF s = "new" THEN "open" ELSE "misused"
Closed(s) == IF s = "open" THEN "closed" ELSE "misused"
Disabled(s) == IF s = "new" THEN "disabled" ELSE "misused"
Pushed(s) == IF s = "open" THEN "open" ELSE "misused"

-----------------------------------------------------------------------------
(* run_demuxer() until the first session.  A codec that the device did not  *)
(* enable, or that is not known here, disables the sinks that can be: only *)
(* the audio sink of the recorder.                                         *)
RecvCodecId ==
    /\ pc = "codec"
    /\ \/ pc' = (IF video THEN "session" ELSE "open") /\ UNCHANGED <<status, sink>>
       \/ pc' = "ended" /\ UNCHANGED <<status, sink>>
       \/ /\ pc' = "ended"
          /\ status' \in {"disabled", "error"}
          /\ sink' = IF video THEN sink
                     ELSE [sink EXCEPT !["recorder"] = Disabled(@)]
    /\ UNCHANGED <<modeVars, config, pkt, codecVars, bufVars, regVars, sent, shown>>

(* The first header of a video stream is a session of a valid size.         *)
RecvSession ==
    /\ pc = "session"
    /\ \/ /\ pc' = "open"
          /\ sent' = [sent EXCEPT !.items = 1, !.session = 1]
       \/ pc' = "ended" /\ UNCHANGED sent
    /\ UNCHANGED <<modeVars, status, config, pkt, sink, codecVars, bufVars,
                   regVars, shown>>

(* sc_packet_source_sinks_open(): first the decoder, which opens its own    *)
(* sinks.  The regulator opens its sink before it starts its thread, and   *)
(* closes it if it cannot.                                                 *)
OpenDecoder ==
    /\ pc = "open" /\ sink["decoder"] = "new"
    /\ \/ /\ sink' = [sink EXCEPT !["decoder"] = Opened(@), !["screen"] = Opened(@)]
          /\ bpc' = IF regulated THEN "check" ELSE "none"
          /\ shown' = [shown EXCEPT !.current = sent.session]
          /\ UNCHANGED pc
       \/ /\ \/ UNCHANGED sink
             \/ /\ regulated
                /\ sink' = [sink EXCEPT !["screen"] = Closed(Opened(@))]
          /\ pc' = "ended"
          /\ UNCHANGED <<bpc, shown>>
    /\ UNCHANGED <<modeVars, status, config, pkt, codecVars, held, regVars, sent>>

(* Then the recorder: if it cannot be opened, the sinks before it are       *)
(* closed.                                                                 *)
OpenRecorder ==
    /\ pc = "open" /\ sink["decoder"] = "open"
    /\ \/ sink' = [sink EXCEPT !["recorder"] = Opened(@)] /\ pc' = "loop"
       \/ pc' = "close" /\ UNCHANGED sink
    /\ UNCHANGED <<modeVars, status, config, pkt, codecVars, bufVars, regVars,
                   sent, shown>>

-----------------------------------------------------------------------------
(* The regulator wakes its thread up.                                       *)
Signal == bpc' = IF bpc = "sleep" THEN "check" ELSE bpc

(* What the frame sink gets: a frame, or the session of the next ones.      *)
SinkGets(p) ==
    IF p.kind = "session" THEN [shown EXCEPT !.current = p.session]
    ELSE [id |-> p.id, session |-> p.session, current |-> shown.current]

(* The end of the stream: the header cannot be read.                        *)
EndOfStream ==
    /\ pc = "loop"
    /\ status' = "eos"
    /\ pc' = "close"
    /\ UNCHANGED <<modeVars, config, pkt, sink, codecVars, bufVars, regVars,
                   sent, shown>>

(* A packet cannot be read, or no memory is left to merge it.               *)
RecvFails ==
    /\ pc = "loop"
    /\ pc' = "close"
    /\ UNCHANGED <<modeVars, status, config, pkt, sink, codecVars, bufVars,
                   regVars, sent, shown>>

(* sc_packet_source_sinks_push_session() to sc_decoder_push_session(): the  *)
(* regulator queues the session, unless it has stopped.                    *)
RecvNewSession ==
    LET session == [None EXCEPT !.kind = "session", !.session = sent.session + 1]
    IN  /\ pc = "loop" /\ video /\ sent.items < MaxItems
        /\ sent' = [sent EXCEPT !.items = @ + 1, !.session = @ + 1]
        /\ IF ~regulated
             THEN /\ sink' = [sink EXCEPT !["screen"] = Pushed(@)]
                  /\ shown' = SinkGets(session)
                  /\ UNCHANGED <<pc, bpc, queue>>
             ELSE IF stopped
             THEN pc' = "close" /\ UNCHANGED <<sink, bpc, queue, shown>>
             ELSE /\ queue' = Append(queue, session)
                  /\ Signal
                  /\ UNCHANGED <<pc, sink, shown>>
        /\ UNCHANGED <<modeVars, status, config, pkt, codecVars, held, stopped,
                       range>>

\* Fault: a second configuration does not replace the first one.
MergedKept(p) ==
    IF p.kind = "config"
    THEN [config |-> IF config = 0 THEN p.config ELSE config, pkt |-> p]
    ELSE [config |-> 0, pkt |-> [p EXCEPT !.config = config]]

(* sc_packet_merger_merge(): a configuration is kept for the next packet    *)
(* that is not one.                                                        *)
Merged(p) ==
    IF p.kind = "config" THEN [config |-> p.config, pkt |-> p]
    ELSE [config |-> 0, pkt |-> [p EXCEPT !.config = config]]

(* sc_demuxer_recv_packet(), merged if the codec requires it.               *)
RecvPacket(kind) ==
    LET n == sent.config + (IF kind = "config" THEN 1 ELSE 0)
        p == [None EXCEPT !.kind = kind,
                          !.config = IF kind = "config" THEN n ELSE 0]
    IN  /\ pc = "loop" /\ sent.items < MaxItems
        /\ sent' = [sent EXCEPT !.items = @ + 1, !.config = n]
        /\ pkt' = IF merge THEN Merged(p).pkt ELSE p
        /\ config' = IF merge THEN Merged(p).config ELSE 0
        /\ pc' = "decode"
        /\ UNCHANGED <<modeVars, status, sink, codecVars, bufVars, regVars, shown>>

-----------------------------------------------------------------------------
(* sc_decoder_push(): a configuration is ignored; the codec takes a packet, *)
(* unless it fails.                                                        *)
SendPacket ==
    /\ pc = "decode"
    /\ sink' = [sink EXCEPT !["decoder"] = Pushed(@)]
    /\ IF pkt.kind = "config"
         THEN pc' = "record" /\ UNCHANGED <<codec, decoded, given>>
         ELSE \/ /\ pc' = "receive"
                 /\ given' = given + 1
                 /\ codec' = Append(codec, [None EXCEPT !.kind = "frame",
                                                         !.id = given + 1])
                 /\ decoded' = IF pkt.config # 0 THEN pkt.config ELSE decoded
              \/ pc' = "close" /\ UNCHANGED <<codec, decoded, given>>
    /\ UNCHANGED <<modeVars, status, config, pkt, frames, bufVars, regVars,
                   sent, shown>>

(* The codec gives its next frame, has none to give, or fails.  The frame  *)
(* belongs to the session that the decoder knows of.                       *)
ReceiveFrame ==
    /\ pc = "receive"
    /\ \/ /\ codec # <<>>
          /\ frames' = <<[Head(codec) EXCEPT !.session = sent.session]>>
          /\ codec' = Tail(codec)
          /\ pc' = "push"
       \/ /\ Len(codec) <= MaxHeld
          /\ pc' = "record"
          /\ UNCHANGED <<codec, frames>>
       \/ pc' = "close" /\ UNCHANGED <<codec, frames>>
    /\ UNCHANGED <<modeVars, status, config, pkt, sink, decoded, given, bufVars,
                   regVars, sent, shown>>

(* A frame is pushed straight to the frame sink, which may fail.            *)
PushFrame ==
    /\ pc = (IF regulated THEN "asap" ELSE "push")
    /\ sink' = [sink EXCEPT !["screen"] = Pushed(@)]
    /\ \/ shown' = SinkGets(Head(frames)) /\ pc' = "receive"
       \/ pc' = "close" /\ UNCHANGED shown
    /\ frames' = <<>>
    /\ UNCHANGED <<modeVars, status, config, pkt, codec, decoded, given, bufVars,
                   regVars, sent>>

(* sc_clock_update(): how many values the estimation of the clock rests on. *)
ClockUpdated(r) == IF r < ClockRange THEN r + 1 ELSE r

(* sc_video_regulator_frame_sink_push(): the first frame of all is pushed   *)
(* at once from this thread (first_frame_asap), the others are queued.     *)
RegulateFrame ==
    /\ pc = "push" /\ regulated
    /\ IF stopped
         THEN /\ pc' = "close"
              /\ frames' = <<>>
              /\ UNCHANGED <<bpc, queue, range>>
         ELSE /\ range' = ClockUpdated(range)
              /\ IF range' = 1
                   THEN pc' = "asap" /\ UNCHANGED <<frames, bpc, queue>>
                   ELSE /\ queue' = Append(queue, Head(frames))
                        /\ Signal
                        /\ pc' = "receive"
                        /\ frames' = <<>>
    /\ UNCHANGED <<modeVars, status, config, pkt, sink, codec, decoded, given,
                   held, stopped, sent, shown>>

(* The last packet sink is the recorder, which may fail.                    *)
RecordPacket ==
    /\ pc = "record"
    /\ sink' = [sink EXCEPT !["recorder"] = Pushed(@)]
    /\ pc' \in {"loop", "close"}
    /\ pkt' = None
    /\ UNCHANGED <<modeVars, status, config, codecVars, bufVars, regVars, sent,
                   shown>>

-----------------------------------------------------------------------------
(* sc_packet_source_sinks_close(), last sink first; the merger is freed.    *)
CloseRecorder ==
    /\ pc = "close"
    /\ config' = 0
    /\ sink' = IF sink["recorder"] = "open"
                 THEN [sink EXCEPT !["recorder"] = Closed(@)] ELSE sink
    /\ pc' = IF regulated THEN "stop" ELSE "closeDecoder"
    /\ UNCHANGED <<modeVars, status, pkt, codecVars, bufVars, regVars, sent, shown>>

\* Fault: the thread that waits for a packet is not woken up.
StopRegulatorQuietly ==
    /\ pc = "stop"
    /\ stopped' = TRUE
    /\ pc' = "join"
    /\ UNCHANGED <<modeVars, status, config, pkt, sink, codecVars, bufVars,
                   queue, range, sent, shown>>

\* Fault: the sinks are closed without joining the thread.
StopRegulatorUnjoined ==
    /\ pc = "stop"
    /\ stopped' = TRUE
    /\ Signal
    /\ pc' = "closeDecoder"
    /\ UNCHANGED <<modeVars, status, config, pkt, sink, codecVars, held, queue,
                   range, sent, shown>>

(* sc_video_regulator_frame_sink_close(): stop, signal, join.               *)
StopRegulator ==
    /\ pc = "stop"
    /\ stopped' = TRUE
    /\ Signal
    /\ pc' = "join"
    /\ UNCHANGED <<modeVars, status, config, pkt, sink, codecVars, held, queue,
                   range, sent, shown>>

JoinRegulator ==
    /\ pc = "join" /\ bpc = "ended"
    /\ pc' = "closeDecoder"
    /\ UNCHANGED <<modeVars, status, config, pkt, sink, codecVars, bufVars,
                   regVars, sent, shown>>

(* The decoder closes its frame sink, and the thread reports its status.    *)
CloseDecoder ==
    /\ pc = "closeDecoder"
    /\ sink' = [sink EXCEPT !["screen"] = Closed(@), !["decoder"] = Closed(@)]
    /\ pc' = "ended"
    /\ UNCHANGED <<modeVars, status, config, pkt, codecVars, bufVars, regVars,
                   sent, shown>>

-----------------------------------------------------------------------------
(* run_buffering(): wait for a packet; sessions are not delayed.            *)
BufferingWaits ==
    /\ bpc = "check"
    /\ IF stopped THEN bpc' = "flush" /\ UNCHANGED <<held, queue>>
       ELSE IF queue = <<>> THEN bpc' = "sleep" /\ UNCHANGED <<held, queue>>
       ELSE /\ held' = Head(queue)
            /\ queue' = Tail(queue)
            /\ bpc' = IF Head(queue).kind = "frame" THEN "delay" ELSE "push"
    /\ UNCHANGED <<modeVars, demuxVars, sink, codecVars, stopped, range, sent,
                   shown>>

\* Fault: a frame is delayed without keeping those behind it waiting.
DelayEndsRequeued ==
    /\ bpc = "delay"
    /\ IF stopped \/ queue = <<>>
         THEN bpc' = (IF stopped THEN "flush" ELSE "push") /\ UNCHANGED <<held, queue>>
         ELSE /\ bpc' = "push"
              /\ held' = Head(queue)
              /\ queue' = <<held>> \o Tail(queue)
    /\ UNCHANGED <<modeVars, demuxVars, sink, codecVars, stopped, range, sent,
                   shown>>

(* The deadline given by the clock has passed, or the regulator stops.      *)
DelayEnds ==
    /\ bpc = "delay"
    /\ bpc' = IF stopped THEN "flush" ELSE "push"
    /\ UNCHANGED <<modeVars, demuxVars, sink, codecVars, held, regVars, sent, shown>>

(* Without the lock: the sink takes the packet, or the regulator stops.     *)
BufferingPushes ==
    /\ bpc = "push"
    /\ sink' = [sink EXCEPT !["screen"] = Pushed(@)]
    /\ \/ /\ shown' = SinkGets(held)
          /\ bpc' = "check"
          /\ UNCHANGED stopped
       \/ /\ held.kind = "frame"
          /\ stopped' = TRUE
          /\ bpc' = "flush"
          /\ UNCHANGED shown
    /\ held' = None
    /\ UNCHANGED <<modeVars, demuxVars, codecVars, queue, range, sent>>

Flush ==
    /\ bpc = "flush"
    /\ queue' = <<>>
    /\ held' = None
    /\ bpc' = "ended"
    /\ UNCHANGED <<modeVars, demuxVars, sink, codecVars, stopped, range, sent,
                   shown>>

-----------------------------------------------------------------------------
Demux ==
    \/ RecvCodecId \/ RecvSession \/ OpenDecoder \/ OpenRecorder
    \/ EndOfStream \/ RecvFails \/ RecvNewSession
    \/ \E kind \in {"config", "media"} : RecvPacket(kind)
    \/ SendPacket \/ ReceiveFrame \/ PushFrame \/ RegulateFrame \/ RecordPacket
    \/ CloseRecorder \/ StopRegulator \/ JoinRegulator \/ CloseDecoder

Buffering == BufferingWaits \/ DelayEnds \/ BufferingPushes \/ Flush

Next == Demux \/ Buffering

Spec == Init /\ [][Next]_vars

(* Both threads are scheduled; the socket is closed at the end, so that the *)
(* device cannot make the demuxer wait for ever.                           *)
FairSpec == Spec /\ WF_vars(Demux) /\ WF_vars(Buffering)

-----------------------------------------------------------------------------
Packets == [kind : {"none", "session", "config", "media", "frame"}, id : Nat,
            session : Nat, config : Nat]

TypeOK ==
    /\ video \in BOOLEAN /\ regulated \in BOOLEAN /\ merge \in BOOLEAN
    /\ pc \in {"codec", "session", "open", "loop", "decode", "receive", "push",
               "asap", "record", "close", "stop", "join", "closeDecoder", "ended"}
    /\ status \in {"error", "disabled", "eos"}
    /\ sink \in [Sinks -> {"new", "open", "closed", "disabled", "misused"}]
    /\ config \in Nat /\ pkt \in Packets
    /\ codec \in Seq(Packets) /\ frames \in Seq(Packets)
    /\ decoded \in Nat /\ given \in Nat
    /\ bpc \in {"none", "check", "sleep", "delay", "push", "flush", "ended"}
    /\ held \in Packets
    /\ queue \in Seq(Packets) /\ stopped \in BOOLEAN /\ range \in 0 .. ClockRange
    /\ sent \in [items : Nat, session : Nat, config : Nat]
    /\ shown \in [id : Nat, session : Nat, current : Nat]

(* Whatever fails, and from whichever thread it is called, a sink is opened *)
(* once, used only while it is open and closed exactly if it was opened;   *)
(* the ones opened before a failure are closed, and when the stream has    *)
(* ended none is left open and the buffering thread is gone.               *)
SinksAreBalanced ==
    /\ \A s \in Sinks : sink[s] # "misused"
    /\ pc = "ended" => /\ \A s \in Sinks : sink[s] # "open"
                       /\ bpc \in {"none", "ended"}

(* The decoder ignores the packets that hold a configuration, so it has to  *)
(* find the newest one in front of the next packet: whatever it decodes,   *)
(* it has seen the last configuration the device sent before.              *)
ConfigReachesDecoder ==
    pc = "receive" /\ merge /\ sent.config > 0 => decoded = sent.config

(* The session at the screen is only accessed from the thread that calls    *)
(* the operations of the frame sink: two threads are never about to call   *)
(* them at once.  With first_frame_asap they are.                          *)
SinkHasOneThread == ~(pc = "asap" /\ bpc = "push")

(* Frames reach the sink in the order of the stream and none is skipped,    *)
(* although the first one is pushed by another thread than the others; all *)
(* but that first one find the session they belong to at the sink.         *)
FramesInOrder ==
    [][shown'.id # shown.id =>
          /\ shown'.id = shown.id + 1
          /\ shown.id > 0 => shown'.session = shown'.current]_vars

(* The demuxer thread ends, with the buffering thread, whatever fails: none *)
(* of the two waits for the other for ever, in particular to close.        *)
StreamEnds == <>(pc = "ended")

=============================================================================
