------------------------------ MODULE Recorder ------------------------------
(***************************************************************************)
(* The recorder of the client (recorder.c): the two demuxer threads feed   *)
(* packets to a recorder thread that muxes them to a file, until the user  *)
(* quits or a stream ends.  The demuxers (demuxer.c) are modelled as far   *)
(* as they call the recorder; writing to the file succeeds or fails.       *)
(***************************************************************************)
EXTENDS Integers, Sequences, FiniteSets

CONSTANTS
    Pts,            \* the time stamps of the device
    TimeBase,       \* the length of the file's unit of time, in theirs
    MaxPackets      \* bound: packets each stream gives the recorder

ASSUME PtsAssumption == Pts \subseteq Nat

ASSUME TimeBaseAssumption == TimeBase \in Nat \ {0}

ASSUME BoundAssumption == MaxPackets \in Nat

Streams == {"video", "audio"}

VARIABLES
    wants,          \* video and audio: the streams to record
    init, expects,  \* video_init..., video_expects_config_packet...
    queue,          \* video_queue, audio_queue
    stopped,
    last,           \* last_pts of each stream: <<>> or <<pts>>
    pc,             \* run_recorder()
    pkt, prev,      \* its locals video_pkt and audio_pkt, video_pkt_previous
    origin,         \* pts_origin
    ok,             \* what it will report
    demuxer,        \* the demuxer threads: "codec" until it is known
    main, quit,     \* the main thread, and an event that ends its loop
    given,          \* history: the number of packets accepted of each stream
    accepted,       \* history: the number of those with a time stamp
    written,        \* history: what the file holds
    io              \* history: a write failed, or a stream was malformed

sharedVars == <<wants, init, expects, queue, stopped>>
fileVars == <<last, written>>
localVars == <<pkt, prev, origin, ok, io>>
threadVars == <<demuxer, main, quit>>
historyVars == <<given, accepted>>
vars == <<sharedVars, fileVars, pc, localVars, threadVars, historyVars>>

Each(x) == [s \in Streams |-> x]

\* sc_recorder_init(), sc_recorder_start(), and the demuxers started later.
Init ==
    /\ wants \in {w \in [Streams -> BOOLEAN] : w["video"] \/ w["audio"]}
    /\ init = Each(FALSE) /\ expects = Each(FALSE) /\ queue = Each(<<>>)
    /\ stopped = FALSE /\ last = Each(<<>>)
    /\ pc = "file" /\ pkt = Each(<<>>) /\ prev = <<>> /\ origin = <<>> /\ ok = TRUE
    /\ demuxer = [s \in Streams |-> IF wants[s] THEN "codec" ELSE "ended"]
    /\ main = "run" /\ quit = FALSE
    /\ given = Each(0) /\ accepted = Each(0) /\ written = Each(<<>>) /\ io = FALSE

\* sc_cond_signal(&recorder->cond)
Signal == pc' = CASE pc = "hwait" -> "header" [] pc = "wait" -> "lock" [] OTHER -> pc

-----------------------------------------------------------------------------
(* The demuxers, and the sinks they call.                                   *)

\* The demuxer of s ends and its on_ended() asks the main thread to quit.
DemuxerEnds(s) == demuxer' = [demuxer EXCEPT ![s] = "ended"] /\ quit' = TRUE

\* No codec, no session, no decoder: neither open() nor disable() is called.
DemuxerFails(s) ==
    /\ demuxer[s] = "codec" /\ DemuxerEnds(s)
    /\ UNCHANGED <<sharedVars, fileVars, pc, localVars, main, historyVars>>

\* The device has no audio, or an unknown codec: sc_recorder_audio_packet_sink_disable().
AudioDisabled ==
    /\ demuxer["audio"] = "codec"
    /\ demuxer' = [demuxer EXCEPT !["audio"] = "ended"]
    /\ quit' \in {quit, TRUE}
    /\ wants' = [wants EXCEPT !["audio"] = FALSE] /\ init' = [init EXCEPT !["audio"] = TRUE]
    /\ Signal
    /\ UNCHANGED <<expects, queue, stopped, fileVars, localVars, main, historyVars>>

\* sc_recorder_video_packet_sink_open(), sc_recorder_audio_packet_sink_open():
\* only the first refuses when the recorder is stopped.
SinkOpens(s) ==
    /\ demuxer[s] = "codec"
    /\ s = "video" => ~stopped
    /\ demuxer' = [demuxer EXCEPT ![s] = "open"]
    /\ init' = [init EXCEPT ![s] = TRUE]
    /\ \E e \in BOOLEAN : expects' = [expects EXCEPT ![s] = e]
    /\ Signal
    /\ UNCHANGED <<wants, queue, stopped, fileVars, localVars, main, quit, historyVars>>

\* What sc_demuxer_recv_packet() hands to the sinks: config packets, of the
\* codecs that have them, and packets with a time stamp.
Packets(s) ==
    [n : {0}, pts : {0}, config : {TRUE} \cap {expects[s]}] \cup
    [n : {accepted[s] + 1}, pts : Pts, config : {FALSE}]

\* sc_recorder_..._packet_sink_push()
SinkPushes(s, p) ==
    /\ demuxer[s] = "open" /\ ~stopped /\ given[s] < MaxPackets
    /\ queue' = [queue EXCEPT ![s] = Append(@, p)]
    /\ given' = [given EXCEPT ![s] = @ + 1]
    /\ accepted' = [accepted EXCEPT ![s] = IF p.config THEN @ ELSE @ + 1]
    /\ Signal
    /\ UNCHANGED <<wants, init, expects, stopped, fileVars, localVars, threadVars>>

\* Fault: a closed sink does not wake the recorder.
SinkClosesQuietly(s) ==
    /\ demuxer[s] = "open" /\ DemuxerEnds(s)
    /\ stopped' = TRUE
    /\ UNCHANGED <<wants, init, expects, queue, fileVars, pc, localVars, main, historyVars>>

\* End of stream, an error or a refused packet: "EOS also stops the recorder".
SinkCloses(s) ==
    /\ demuxer[s] = "open" /\ DemuxerEnds(s)
    /\ stopped' = TRUE /\ Signal
    /\ UNCHANGED <<wants, init, expects, queue, fileVars, localVars, main, historyVars>>

-----------------------------------------------------------------------------
(* The main thread: scrcpy() goes to its end, for an event or the user.     *)

\* Fault: it is left to the sinks to stop the recorder.
sc_recorder_stop_skipped ==
    /\ main = "run" /\ main' = "join"
    /\ UNCHANGED <<sharedVars, pc, fileVars, localVars, demuxer, quit, historyVars>>

sc_recorder_stop ==
    /\ main = "run" /\ main' = "join"
    /\ stopped' = TRUE /\ Signal
    /\ UNCHANGED <<wants, init, expects, queue, fileVars, localVars, demuxer, quit, historyVars>>

\* The demuxers are joined, then the recorder.
sc_recorder_join ==
    /\ main = "join" /\ \A s \in Streams : demuxer[s] = "ended"
    /\ pc = "ended" /\ main' = "done"
    /\ UNCHANGED <<sharedVars, fileVars, pc, localVars, demuxer, quit, historyVars>>

-----------------------------------------------------------------------------
(* The recorder thread.                                                     *)

\* sc_recorder_open_output_file()
OpenFile ==
    /\ pc = "file"
    /\ \/ pc' = "header" /\ UNCHANGED <<ok, io>>
       \/ pc' = "clear" /\ ok' = FALSE /\ io' = TRUE
    /\ UNCHANGED <<sharedVars, fileVars, pkt, prev, origin, threadVars, historyVars>>

\* A stream is not known yet, or its config packet has not arrived.
MustWait == \E s \in Streams : wants[s] /\ (~init[s] \/ (expects[s] /\ queue[s] = <<>>))

HeaderWaits ==
    /\ pc = "header" /\ ~stopped /\ MustWait
    /\ pc' = "hwait"
    /\ UNCHANGED <<sharedVars, fileVars, localVars, threadVars, historyVars>>

\* "don't process anything if there are not at least video packets"
HeaderGivesUp ==
    /\ pc = "header" /\ stopped /\ wants["video"] /\ queue["video"] = <<>>
    /\ pc' = "clear" /\ ok' = FALSE
    /\ UNCHANGED <<sharedVars, fileVars, pkt, prev, origin, io, threadVars, historyVars>>

\* The streams whose next packet is taken.
Popped(S) ==
    /\ pkt' = [s \in Streams |-> IF s \in S THEN <<Head(queue[s])>> ELSE pkt[s]]
    /\ queue' = [s \in Streams |-> IF s \in S THEN Tail(queue[s]) ELSE queue[s]]

HeaderTakes ==
    /\ pc = "header" /\ (stopped \/ ~MustWait)
    /\ ~(stopped /\ wants["video"] /\ queue["video"] = <<>>)
    /\ Popped({s \in Streams : expects[s] /\ queue[s] # <<>>})
    /\ pc' = "config"
    /\ UNCHANGED <<wants, init, expects, stopped, fileVars, prev, origin, ok, io, threadVars,
                   historyVars>>

\* The config packets become the extradata of their streams; the header is
\* written, or it is not.
HeaderWritten ==
    /\ pc = "config" /\ pkt' = Each(<<>>)
    /\ \/ /\ \A s \in Streams : pkt[s] # <<>> => pkt[s][1].config
          /\ pc' = "lock" /\ UNCHANGED <<ok, io>>
       \/ pc' = "clear" /\ ok' = FALSE /\ io' = TRUE
    /\ UNCHANGED <<sharedVars, fileVars, prev, origin, threadVars, historyVars>>

\* Fault: a packet still held is not looked for.
TakeableAlways == {s \in Streams : queue[s] # <<>>}

\* The streams of which a packet can be taken.
Takeable == {s \in Streams : pkt[s] = <<>> /\ queue[s] # <<>>}

PacketsWait ==
    /\ pc = "lock" /\ ~stopped /\ Takeable \cap {s \in Streams : wants[s]} = {}
    /\ pc' = "wait"
    /\ UNCHANGED <<sharedVars, fileVars, localVars, threadVars, historyVars>>

\* "If stopped is set, continue to process the remaining events"
PacketsTake ==
    /\ pc = "lock" /\ (stopped \/ \E s \in Takeable : wants[s])
    /\ Popped(Takeable)
    /\ pc' = IF \A s \in Streams : pkt'[s] = <<>> THEN "last" ELSE "taken"
    /\ UNCHANGED <<wants, init, expects, stopped, fileVars, prev, origin, ok, io, threadVars,
                   historyVars>>

Media(s) == IF pkt[s] # <<>> /\ pkt[s][1].config THEN <<>> ELSE pkt[s]

\* The time of the first packet of a stream.
First(p) == IF p = <<>> THEN <<>> ELSE <<p[1].pts>>

MIN(a, b) == IF a <= b THEN a ELSE b

\* Fault: the first packet of any stream gives the origin.
StartAtOnce(v, a) == IF v # <<>> THEN First(v) ELSE First(a)

\* pts_origin from the first packets: of both streams, if both are recorded;
\* when stopped, of the video.
Start(v, a) ==
    CASE ~wants["audio"] -> First(v)
      [] wants["audio"] /\ ~wants["video"] -> First(a)
      [] wants["audio"] /\ wants["video"] ->
            IF v # <<>> /\ a # <<>> THEN <<MIN(v[1].pts, a[1].pts)>>
            ELSE IF stopped THEN First(v) ELSE <<>>

\* Config packets are dropped and pts_origin is set, once.  wants and stopped
\* are read without the lock: either may have changed since PacketsTake.
Origin ==
    /\ pc = "taken"
    /\ pkt' = [s \in Streams |-> Media(s)]
    /\ LET start == Start(Media("video"), Media("audio"))
       IN  \/ origin # <<>> /\ pc' = "write" /\ UNCHANGED <<origin, ok>>
           \/ origin = <<>> /\ start # <<>> /\ origin' = start /\ pc' = "write" /\ UNCHANGED ok
           \/ /\ origin = <<>> /\ start = <<>> /\ stopped
              /\ pc' = "clear" /\ ok' = FALSE /\ UNCHANGED origin
           \/ /\ origin = <<>> /\ start = <<>> /\ ~stopped
              /\ pc' = "lock" /\ UNCHANGED <<origin, ok>>
    /\ UNCHANGED <<sharedVars, fileVars, prev, io, threadVars, historyVars>>

\* av_packet_rescale_ts(), which rounds to the nearest unit of the file.
Rescaled(t) ==
    IF t >= 0 THEN (2 * t + TimeBase) \div (2 * TimeBase)
              ELSE -((2 * (-t) + TimeBase) \div (2 * TimeBase))

\* The time stamp a packet of s is written with, after the one before.
Fixed(s, t) == IF last[s] # <<>> /\ t <= last[s][1] THEN last[s][1] + 1 ELSE t

\* sc_recorder_write_stream() of the packets p (at most one) of each stream;
\* the muxer fails on those of the streams in F.
Muxed(p, F) ==
    LET at(s) == Fixed(s, Rescaled(p[s][1].pts))
    IN  /\ last' = [s \in Streams |-> IF p[s] = <<>> THEN last[s] ELSE <<at(s)>>]
        /\ written' = [s \in Streams |-> IF p[s] = <<>> \/ s \in F THEN written[s]
                         ELSE Append(written[s], [n |-> p[s][1].n, pts |-> at(s)])]

\* The time stamps of a packet, from the origin.
Shifted(p) == IF p = <<>> THEN p ELSE <<[p[1] EXCEPT !.pts = @ - origin[1]]>>

Pair(v, a) == [s \in Streams |-> IF s = "video" THEN v ELSE a]

\* The previous video packet and the audio packet are written, or one is not.
Write ==
    /\ pc = "write"
    /\ LET v == IF pkt["video"] = <<>> THEN <<>> ELSE prev
           a == Shifted(pkt["audio"])
       IN  \/ Muxed(Pair(v, a), {}) /\ pc' = "lock" /\ UNCHANGED <<ok, io>>
           \/ /\ \/ v # <<>> /\ Muxed(Pair(v, <<>>), {"video"})
                 \/ a # <<>> /\ Muxed(Pair(v, a), {"audio"})
              /\ pc' = "clear" /\ ok' = FALSE /\ io' = TRUE
    /\ prev' = IF pkt["video"] = <<>> THEN prev ELSE Shifted(pkt["video"])
    /\ pkt' = Each(<<>>)
    /\ UNCHANGED <<sharedVars, origin, threadVars, historyVars>>

\* The last video packet, whose failure is only logged, and the trailer.
WriteLast ==
    /\ pc = "last" /\ pc' = "clear" /\ prev' = <<>>
    /\ \/ Muxed(Pair(prev, <<>>), {}) /\ UNCHANGED io
       \/ prev # <<>> /\ Muxed(Pair(prev, <<>>), {"video"}) /\ io' = TRUE
    /\ ok' \in {ok, FALSE} /\ (ok' # ok => io')
    /\ UNCHANGED <<sharedVars, pkt, origin, threadVars, historyVars>>

\* The file is closed; the end of run_recorder(), and sc_recorder_on_ended().
Clear ==
    /\ pc = "clear" /\ pc' = "ended"
    /\ stopped' = TRUE /\ queue' = Each(<<>>)
    /\ quit' = (quit \/ ~ok)
    /\ UNCHANGED <<wants, init, expects, fileVars, localVars, demuxer, main, historyVars>>

-----------------------------------------------------------------------------
Demuxer(s) ==
    \/ DemuxerFails(s) \/ SinkOpens(s) \/ SinkCloses(s)
    \/ \E p \in Packets(s) : SinkPushes(s, p)

Thread ==
    \/ OpenFile \/ HeaderWaits \/ HeaderGivesUp \/ HeaderTakes \/ HeaderWritten
    \/ PacketsWait \/ PacketsTake \/ Origin \/ Write \/ WriteLast \/ Clear

Next ==
    \/ \E s \in Streams : Demuxer(s)
    \/ AudioDisabled \/ sc_recorder_stop \/ sc_recorder_join \/ Thread

Spec == Init /\ [][Next]_vars

\* The recorder thread is scheduled, the main thread reads the events pushed
\* to it, and once it has shut the sockets down the demuxers see their end.
Fairness ==
    /\ WF_vars(Thread) /\ WF_vars(quit /\ sc_recorder_stop) /\ WF_vars(sc_recorder_join)
    /\ \A s \in Streams : WF_vars(main # "run" /\ (DemuxerFails(s) \/ SinkCloses(s)))

FairSpec == Spec /\ Fairness

-----------------------------------------------------------------------------
(* Properties.                                                              *)

AnyPacket == [n : Nat, pts : Int, config : BOOLEAN]

\* Every variable stays within the values the code can give it.
TypeOK ==
    /\ wants \in [Streams -> BOOLEAN] /\ init \in [Streams -> BOOLEAN]
    /\ expects \in [Streams -> BOOLEAN] /\ queue \in [Streams -> Seq(AnyPacket)]
    /\ stopped \in BOOLEAN
    /\ last \in [Streams -> Seq(Int)] /\ pkt \in [Streams -> Seq(AnyPacket)]
    /\ \A s \in Streams : Len(last[s]) <= 1 /\ Len(pkt[s]) <= 1
    /\ pc \in {"file", "header", "hwait", "config", "lock", "wait", "taken", "write", "last",
               "clear", "ended"}
    /\ prev \in Seq(AnyPacket) /\ Len(prev) <= 1 /\ origin \in Seq(Int) /\ Len(origin) <= 1
    /\ ok \in BOOLEAN /\ demuxer \in [Streams -> {"codec", "open", "ended"}]
    /\ main \in {"run", "join", "done"} /\ quit \in BOOLEAN /\ io \in BOOLEAN
    /\ given \in [Streams -> Nat] /\ accepted \in [Streams -> Nat]
    /\ written \in [Streams -> Seq([n : Nat, pts : Int])]

\* The recorder thread sleeps only while there is nothing for it to do.
NoLostWakeup ==
    /\ pc = "hwait" => ~stopped /\ MustWait
    /\ pc = "wait" => ~stopped /\ \A s \in Takeable : ~wants[s]

\* The time stamps in the file increase strictly in each stream, whatever the
\* device sends and however they are rounded: muxers refuse anything else.
PtsIncrease ==
    \A s \in Streams : \A i \in 1 .. Len(written[s]) - 1 :
        written[s][i].pts < written[s][i + 1].pts

\* A recording reported complete holds every packet that was accepted, in
\* order, with the video packet that is kept back until the next one arrives.
SuccessIsComplete ==
    pc = "ended" /\ ok /\ ~io =>
        \A s \in Streams : /\ Len(written[s]) = accepted[s]
                           /\ \A i \in 1 .. accepted[s] : written[s][i].n = i

\* The assertions of sc_recorder_process_packets(): of a stream that is not
\* recorded there is never a packet.
UnwantedIsEmpty == \A s \in Streams : ~wants[s] => pkt[s] = <<>> /\ queue[s] = <<>>

\* While it runs, no stream starts before the time 0 of the file: pts_origin
\* waits for both streams to have a packet.
NoStreamStartsEarly ==
    ~stopped => \A s \in Streams : written[s] # <<>> => written[s][1].pts >= 0

\* A stop, the end of a stream or a failure ends the recording whatever the
\* recorder waits for, and scrcpy() with it.
QuitCompletes == (stopped \/ quit) ~> (main = "done")

\* The file is right: in each stream the time stamps increase, and a recording
\* reported complete holds every packet that was accepted.
FileIsCorrect == TypeOK /\ PtsIncrease /\ SuccessIsComplete

\* The two streams are told apart and aligned: the recorder never holds a packet
\* of a stream it does not record, and no stream starts before the other's
\* first packet is known.
StreamsAreAligned == UnwantedIsEmpty /\ NoStreamStartsEarly

-----------------------------------------------------------------------------
(* A comment the code does not keep up with (see the README).               *)

\* "If stopped is set, continue to process the remaining events (to finish the
\* recording) before actually stopping": with a video packet accepted and every
\* write successful, the recording does not fail.
StopFinishesRecording == pc = "ended" /\ ~io /\ accepted["video"] > 0 => ok
=============================================================================
