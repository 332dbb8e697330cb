------------------------------- MODULE Client -------------------------------
(***************************************************************************)
(* The program from its command line to its exit (main.c, cli.c,           *)
(* scrcpy.c): the arguments are parsed, scrcpy() starts what the options   *)
(* ask for, waits for events, then stops, joins and destroys everything.   *)
(* The file pusher (file_pusher.c) and the time limit (util/timeout.c) are *)
(* modelled here as a whole; of the other threads, only when they end and  *)
(* which parts of scrcpy they use.                                         *)
(*                                                                         *)
(* The queue of SDL events is the set of those that are pending: none of   *)
(* them is told apart by its place.  OTG mode ends at main().              *)
(***************************************************************************)
EXTENDS Options

CONSTANTS
    Args,            \* the arguments of the command line that are tried
    MaxArgs,         \* bound: arguments of one command line
    MaxRunArgs,      \* bound: arguments of one that is then run
    MaxFiles,        \* bound: files dropped on the window
    PromptTimeout    \* the main thread returns from sc_timeout_start() before
                     \* the new thread runs

ASSUME BoundAssumption ==
    /\ MaxArgs \in Nat /\ MaxRunArgs \in Nat /\ MaxFiles \in Nat
    /\ PromptTimeout \in BOOLEAN

(* The value of an option that takes numbers has been read as such, and the  *)
(* one of an option that takes a list has at least one item.                *)
ASSUME ArgsAssumption ==
    \A a \in Args :
        /\ a[1] \in DOMAIN Limits => a[2] \in Int
        /\ a[1] = "port" => \A i \in DOMAIN a[2] : a[2][i] \in Int
        /\ a[1] \in {"port", "mouse_bind"} => {1, Len(a[2])} \subseteq DOMAIN a[2]

VARIABLES
    opts,     \* the options, or those that scrcpy() looks at once it runs
    nargs,    \* arguments read
    pc,       \* where the main thread is
    step,     \* the next step of the end of scrcpy()
    made,     \* parts that are initialized
    gone,     \* parts that are destroyed
    thread,   \* state of each thread
    stopped,  \* parts that were told to stop
    link,     \* the connection to the device
    events,   \* pending events of the main thread
    fp,       \* the file pusher: queue, files dropped, and what its thread does
    limit,    \* what the thread of the time limit has read, and what is set
    ret,      \* what scrcpy() will return
    crashed   \* an assertion failed or a pointer was invalid

life == <<made, gone, thread, stopped, link, events, fp, limit, ret, crashed>>
vars == <<opts, nargs, pc, step, life>>

Parts == {"server", "pusher", "recorder", "controller", "aoa", "acksync",
          "screen", "v4l2", "timeout"}
Threads == {"server", "video", "audio", "recorder", "controller", "receiver",
            "aoa", "pusher", "timeout"}
Events == {"connected", "failed", "disconnected", "error", "time", "quit"}

(* The places of the main thread, in order.                                 *)
Starts == <<"server", "sdl", "await", "pusher", "recorder", "recording", "controller",
            "aoa", "controlling", "screen", "v4l2", "video", "audio",
            "timeout", "deadline", "app", "loop">>

Init ==
    /\ opts = scrcpy_options_default /\ nargs = 0
    /\ pc = "args" /\ step = 1
    /\ made = {} /\ gone = {} /\ stopped = {} /\ events = {}
    /\ thread = [t \in Threads |-> "off"]
    /\ link = "connecting"
    /\ fp = [queue |-> 0, dropped |-> 0, busy |-> None]
    /\ limit = [saw |-> None, set |-> FALSE]
    /\ ret = "failure" /\ crashed = FALSE

-----------------------------------------------------------------------------
(* The command line.                                                        *)

ParseArg(a) ==
    /\ pc = "args" /\ opts.ok /\ nargs < MaxArgs
    /\ opts' = parse_arg(opts, a)
    /\ nargs' = nargs + 1
    /\ UNCHANGED <<pc, step, life>>

scrcpy_parse_args ==
    /\ pc = "args"
    /\ opts' = IF opts.ok THEN complete(opts) ELSE opts
    /\ pc' = "parsed"
    /\ UNCHANGED <<nargs, step, life>>

(* The options that the rest of scrcpy() depends on.                        *)
Relevant(o) ==
    [video |-> o.video, audio |-> o.audio, control |-> o.control,
     window |-> o.window, list |-> o.list, play |-> o.video_playback,
     camera |-> o.video_source = "camera",
     record |-> o.record_filename # None, v4l2 |-> o.v4l2_device,
     aoa |-> "aoa" \in {processors(o).kp, processors(o).mp, processors(o).gp},
     time_limit |-> o.time_limit # 0, require_audio |-> o.require_audio,
     start_app |-> o.start_app,
     sdl |-> o.video_playback \/ o.audio_playback \/ o.gamepad_input_mode # "disabled"]

main_scrcpy ==
    /\ pc = "parsed"
    /\ IF opts.ok /\ ~opts.otg /\ nargs <= MaxRunArgs
       THEN opts' = Relevant(opts) /\ pc' = "server"
       ELSE opts' = Relevant(scrcpy_options_default) /\ pc' = "exit"
    /\ nargs' = 0
    /\ UNCHANGED <<step, life>>

-----------------------------------------------------------------------------
(* scrcpy() starts.  At each place a part may be initialized and threads    *)
(* started, if the options ask for it; a failure goes to the end.          *)

Next_(place) == Starts[1 + CHOOSE i \in DOMAIN Starts : Starts[i] = place]

Run(threads) == [t \in Threads |-> IF t \in threads THEN "run" ELSE thread[t]]

Goto(place) ==
    IF place = "end" THEN pc' = "end" /\ events' = {}
                     ELSE pc' = place /\ UNCHANGED events

StartIf(place, wanted, parts, threads) ==
    /\ pc = place
    /\ \/ ~wanted /\ Goto(Next_(place)) /\ UNCHANGED <<made, thread>>
       \/ /\ wanted /\ Goto(Next_(place))
          /\ made' = made \cup parts /\ thread' = Run(threads)
       \/ wanted /\ Goto("end") /\ UNCHANGED <<made, thread>>
    /\ UNCHANGED <<opts, nargs, step, gone, stopped, link, fp, limit, ret, crashed>>

(* Without a server, scrcpy() returns at once.                              *)
StartServer ==
    /\ pc = "server"
    /\ \/ made' = {"server"} /\ thread' = Run({"server"}) /\ Goto("sdl")
       \/ made' = {"server"} /\ UNCHANGED thread /\ Goto("end")
       \/ UNCHANGED <<made, thread, events>> /\ pc' = "exit"
    /\ UNCHANGED <<opts, nargs, step, gone, stopped, link, fp, limit, ret, crashed>>

(* SDL_Init() of the subsystems that are needed.                            *)
InitSdl == StartIf("sdl", opts.sdl /\ ~opts.list, {}, {})

(* await_for_server().                                                      *)
await_for_server ==
    /\ pc = "await"
    /\ \E e \in events \cap {"connected", "failed", "quit"} :
          IF e = "connected" /\ ~opts.list
          THEN pc' = "pusher" /\ events' = events \ {e} /\ UNCHANGED ret
          ELSE Goto("end") /\ ret' = IF e = "failed" THEN ret ELSE "success"
    /\ UNCHANGED <<opts, nargs, step, made, gone, thread, stopped, link, fp, limit,
                   crashed>>

InitPusher == StartIf("pusher", opts.window /\ opts.control, {"pusher"}, {})

InitRecorder == StartIf("recorder", opts.record, {"recorder"}, {})

StartRecorder == StartIf("recording", opts.record, {}, {"recorder"})

InitController == StartIf("controller", opts.control, {"controller"}, {})

(* A failure destroys again what is initialized, but when no USB device is  *)
(* selected (scrcpy.c:631) it forgets acksync.                             *)
StartAoa ==
    \/ StartIf("aoa", opts.aoa, {"aoa", "acksync"}, {"aoa"})
    \/ /\ pc = "aoa" /\ opts.aoa /\ Goto("end")
       /\ made' = made \cup {"acksync"}
       /\ UNCHANGED <<opts, nargs, step, gone, thread, stopped, link, fp, limit, ret,
                      crashed>>

StartController == StartIf("controlling", opts.control, {}, {"controller", "receiver"})

InitScreen == StartIf("screen", opts.window, {"screen"}, {})

InitV4l2 == StartIf("v4l2", opts.v4l2, {"v4l2"}, {})

StartVideo == StartIf("video", opts.video, {}, {"video"})

StartAudio == StartIf("audio", opts.audio, {}, {"audio"})

(* sc_timeout_init() and the first half of sc_timeout_start().              *)
StartTimeout ==
    /\ pc = "timeout"
    /\ \/ ~opts.time_limit /\ Goto("app") /\ UNCHANGED <<made, thread>>
       \/ /\ opts.time_limit /\ Goto("deadline")
          /\ made' = made \cup {"timeout"} /\ thread' = Run({"timeout"})
       \/ /\ opts.time_limit /\ Goto("end") /\ UNCHANGED thread
          /\ made' \in {made, made \cup {"timeout"}}
    /\ UNCHANGED <<opts, nargs, step, gone, stopped, link, fp, limit, ret, crashed>>

SetDeadline ==
    /\ pc = "deadline"
    /\ limit' = [limit EXCEPT !.set = TRUE]
    /\ Goto("app")
    /\ UNCHANGED <<opts, nargs, step, made, gone, thread, stopped, link, fp, ret, crashed>>

(* The messages to turn the screen off and to start an app.                 *)
StartApp == StartIf("app", opts.start_app, {}, {})

-----------------------------------------------------------------------------
(* event_loop().                                                            *)
Result(e) == CASE e = "disconnected" -> "disconnected"
               [] e \in {"time", "quit"} -> "success"
               [] OTHER -> "failure"

event_loop ==
    /\ pc = "loop"
    /\ \E e \in events \ {"connected", "failed"} : ret' = Result(e)
    /\ Goto("end")
    /\ UNCHANGED <<opts, nargs, step, made, gone, thread, stopped, link, fp, limit,
                   crashed>>

(* sc_file_pusher_request(), called by the window: its thread is started    *)
(* with the first file.  It may fail.                                      *)
sc_file_pusher_request ==
    \/ /\ thread' = Run(IF thread["pusher"] = "off" THEN {"pusher"} ELSE {})
       /\ fp' = [fp EXCEPT !.queue = @ + 1, !.dropped = @ + 1]
    \/ UNCHANGED thread /\ fp' = [fp EXCEPT !.dropped = @ + 1]

\* Fault: the screen is destroyed before the video demuxer has ended.
EndStepsEager == <<
    <<"stop", "timeout">>, <<"stop", "aoa">>, <<"stop", "controller">>,
    <<"stop", "pusher">>, <<"stop", "recorder">>, <<"stop", "server">>,
    <<"await", "screen">>, <<"destroy", "screen">>,
    <<"join", "timeout">>, <<"destroy", "timeout">>,
    <<"join", "video">>, <<"join", "audio">>, <<"destroy", "v4l2">>,
    <<"join", "aoa">>, <<"destroy", "aoa">>, <<"destroy", "acksync">>,
    <<"join", "controller">>, <<"join", "receiver">>, <<"destroy", "controller">>,
    <<"join", "recorder">>, <<"destroy", "recorder">>,
    <<"join", "pusher">>, <<"destroy", "pusher">>,
    <<"join", "server">>, <<"destroy", "server">> >>

(* The steps of the end of scrcpy(), in order.                              *)
EndSteps == <<
    <<"stop", "timeout">>, <<"stop", "aoa">>, <<"stop", "controller">>,
    <<"stop", "pusher">>, <<"stop", "recorder">>, <<"stop", "server">>,
    <<"await", "screen">>,
    <<"join", "timeout">>, <<"destroy", "timeout">>,
    <<"join", "video">>, <<"join", "audio">>, <<"destroy", "v4l2">>,
    <<"join", "aoa">>, <<"destroy", "aoa">>, <<"destroy", "acksync">>,
    <<"destroy", "screen">>,
    <<"join", "controller">>, <<"join", "receiver">>, <<"destroy", "controller">>,
    <<"join", "recorder">>, <<"destroy", "recorder">>,
    <<"join", "pusher">>, <<"destroy", "pusher">>,
    <<"join", "server">>, <<"destroy", "server">> >>

(* sc_input_manager_process_file(): a file is dropped on the window.        *)
process_file ==
    /\ pc = "loop"
    /\ opts.window /\ opts.control /\ ~opts.camera
    /\ fp.dropped < MaxFiles
    /\ sc_file_pusher_request
    /\ UNCHANGED <<opts, nargs, pc, step, made, gone, stopped, link, events, limit,
                   ret, crashed>>

-----------------------------------------------------------------------------
(* The end of scrcpy(): each step is for a part or a thread that was        *)
(* started.  sc_file_pusher_stop() does nothing before the first file.     *)

(* The parts to destroy.  The pointer to acksync is set at the end of the   *)
(* start of AOA only.                                                      *)
Destroyable == {p \in made : p = "acksync" => "aoa" \in made}

EndStep ==
    /\ pc = "end"
    /\ LET do == EndSteps[step][1]
           x == EndSteps[step][2]
       IN  /\ do = "join" => thread[x] \in {"off", "ended"}
           /\ stopped' = IF do = "stop" /\ thread[x] # "off" THEN stopped \cup {x}
                         ELSE stopped
           /\ thread' = IF do = "join" /\ thread[x] = "ended"
                        THEN [thread EXCEPT ![x] = "joined"] ELSE thread
           /\ gone' = IF do = "destroy" /\ x \in Destroyable THEN gone \cup {x} ELSE gone
    /\ IF step < Len(EndSteps) THEN step' = step + 1 /\ UNCHANGED pc
                               ELSE step' = 1 /\ pc' = "exit"
    /\ UNCHANGED <<opts, nargs, made, link, events, fp, limit, ret, crashed>>

Main == \/ StartServer \/ InitSdl
        \/ await_for_server \/ InitPusher \/ InitRecorder \/ StartRecorder
        \/ InitController \/ StartAoa \/ StartController \/ InitScreen \/ InitV4l2
        \/ StartVideo \/ StartAudio \/ StartTimeout \/ SetDeadline \/ StartApp
        \/ event_loop \/ EndStep

-----------------------------------------------------------------------------
(* The threads.  A thread that ends may leave an event, which nobody reads  *)
(* any more after the loop.                                                *)
Running(t) == thread[t] = "run"

Post(e) == events' = IF pc = "end" THEN events ELSE events \cup e

Ends(t, e) ==
    /\ Running(t)
    /\ thread' = [thread EXCEPT ![t] = "ended"]
    /\ Post(e)
    /\ UNCHANGED <<opts, nargs, pc, step, made, gone, stopped, fp, limit, ret>>

(* run_server(): a connection, or the output of a list, or a failure.       *)
ServerConnects ==
    /\ Running("server") /\ link = "connecting"
    /\ IF opts.list THEN Ends("server", {"connected"}) /\ link' = "down"
       ELSE /\ link' = "up" /\ Post({"connected"})
            /\ UNCHANGED <<opts, nargs, pc, step, made, gone, thread, stopped, fp,
                           limit, ret>>
    /\ UNCHANGED crashed

ServerFails ==
    link = "connecting" /\ Ends("server", {"failed"}) /\ link' = "down" /\ UNCHANGED crashed

(* The thread then only waits for sc_server_stop(), and shuts the sockets.  *)
ServerEnds ==
    /\ link # "connecting" /\ "server" \in stopped
    /\ Ends("server", {}) /\ link' = "down" /\ UNCHANGED crashed

(* The device goes away.                                                    *)
DeviceGone ==
    /\ link = "up" /\ link' = "down"
    /\ UNCHANGED <<opts, nargs, pc, step, made, gone, thread, stopped, events, fp,
                   limit, ret, crashed>>

\* Fault: it is left to the other threads to report the end.
VideoEndsQuietly == link = "down" /\ Ends("video", {}) /\ UNCHANGED <<link, crashed>>

(* The end of the stream, for each thread that reads one.                   *)
VideoEnds == link = "down" /\ Ends("video", {"disconnected"}) /\ UNCHANGED <<link, crashed>>
AudioEnds == link = "down" /\ Ends("audio", {"disconnected"}) /\ UNCHANGED <<link, crashed>>
ReceiverEnds == link = "down" /\ Ends("receiver", {"disconnected"}) /\ UNCHANGED <<link, crashed>>

(* They, the sender, and the recorder may fail at any time.                 *)
ThreadFails(t) ==
    /\ t \in {"video", "audio", "receiver", "controller", "recorder"}
    /\ Ends(t, {"error"}) /\ UNCHANGED <<link, crashed>>

(* sc_audio_demuxer_on_ended() when the device has no audio.                *)
AudioDisabled ==
    /\ Ends("audio", IF opts.require_audio THEN {"error"} ELSE {})
    /\ UNCHANGED <<link, crashed>>

(* The sender, the recorder and the AOA thread end when they are stopped.   *)
StoppedEnds(t) ==
    /\ t \in {"controller", "recorder", "aoa"} /\ t \in stopped
    /\ Ends(t, IF t = "controller" THEN {"disconnected"} ELSE {})
    /\ UNCHANGED <<link, crashed>>

(* The device of the AOA keyboard or mouse cannot be opened.                *)
AoaOpenError ==
    /\ Running("aoa") /\ Post({"error"})
    /\ UNCHANGED <<opts, nargs, pc, step, made, gone, thread, stopped, link, fp, limit,
                   ret, crashed>>

Pusher(step_) ==
    /\ Running("pusher") /\ fp' = step_
    /\ UNCHANGED <<opts, nargs, pc, step, made, gone, thread, stopped, link, events,
                   limit, ret, crashed>>

(* run_file_pusher(): takes a file, runs adb, and asks for a scan if the    *)
(* file was pushed.                                                        *)
PusherTakes ==
    /\ fp.busy = None /\ "pusher" \notin stopped /\ fp.queue > 0
    /\ Pusher([fp EXCEPT !.queue = @ - 1, !.busy = "adb"])

PusherRunsAdb ==
    /\ fp.busy = "adb"
    /\ \E next \in {"scan", None} : Pusher([fp EXCEPT !.busy = next])

request_scan_file == fp.busy = "scan" /\ Pusher([fp EXCEPT !.busy = None])

PusherEnds ==
    /\ fp.busy = None /\ "pusher" \in stopped
    /\ Ends("pusher", {}) /\ UNCHANGED <<link, crashed>>

(* run_timeout() reads the deadline without the lock.                       *)
TimeoutReads ==
    /\ Running("timeout") /\ limit.saw = None
    /\ PromptTimeout => limit.set
    /\ limit' = [limit EXCEPT !.saw = IF limit.set THEN "deadline" ELSE "garbage"]
    /\ UNCHANGED <<opts, nargs, pc, step, made, gone, thread, stopped, link, events, fp,
                   ret, crashed>>

(* Then waits for it, or for sc_timeout_stop(), and calls back in any case. *)
TimeoutFires ==
    /\ limit.saw # None
    /\ Ends("timeout", {"time"}) /\ crashed' = (crashed \/ ~limit.set) /\ UNCHANGED link

UserQuits ==
    /\ pc \notin {"args", "parsed", "exit"} /\ Post({"quit"})
    /\ UNCHANGED <<opts, nargs, pc, step, made, gone, thread, stopped, link, fp, limit,
                   ret, crashed>>

Done == pc = "exit" /\ UNCHANGED vars

Next ==
    \/ \E a \in Args : ParseArg(a)
    \/ scrcpy_parse_args \/ main_scrcpy
    \/ Main \/ process_file
    \/ ServerConnects \/ ServerFails \/ ServerEnds \/ DeviceGone
    \/ VideoEnds \/ AudioEnds \/ ReceiverEnds \/ AudioDisabled
    \/ \E t \in Threads : ThreadFails(t) \/ StoppedEnds(t)
    \/ AoaOpenError \/ PusherTakes \/ PusherRunsAdb \/ request_scan_file \/ PusherEnds
    \/ TimeoutReads \/ TimeoutFires
    \/ UserQuits \/ Done

Spec == Init /\ [][Next]_vars

(* The main thread runs; a connection attempt ends (the tries are counted); *)
(* adb ends; a thread that was stopped, or whose stream has ended, ends.   *)
Fairness ==
    /\ WF_vars(Main)
    /\ WF_vars(ServerConnects \/ ServerFails) /\ WF_vars(ServerEnds)
    /\ WF_vars(VideoEnds) /\ WF_vars(AudioEnds) /\ WF_vars(ReceiverEnds)
    /\ \A t \in Threads : WF_vars(StoppedEnds(t))
    /\ WF_vars(PusherTakes \/ PusherRunsAdb \/ request_scan_file) /\ WF_vars(PusherEnds)
    /\ WF_vars(TimeoutReads)
    /\ WF_vars(TimeoutFires /\ (limit.saw = "deadline" \/ "timeout" \in stopped))

FairSpec == Spec /\ Fairness

-----------------------------------------------------------------------------
(* Every variable stays within the values the code can give it.            *)
TypeOK ==
    /\ pc \in {"args", "parsed", "end", "exit"} \cup {Starts[i] : i \in DOMAIN Starts}
    /\ step \in DOMAIN EndSteps /\ nargs \in 0 .. MaxArgs
    /\ made \subseteq Parts /\ gone \subseteq made /\ stopped \subseteq Threads
    /\ thread \in [Threads -> {"off", "run", "ended", "joined"}]
    /\ events \subseteq Events /\ link \in {"connecting", "up", "down"}
    /\ fp.queue \in 0 .. MaxFiles /\ fp.busy \in {None, "adb", "scan"}
    /\ limit.saw \in {None, "deadline", "garbage"}
    /\ ret \in {"failure", "success", "disconnected"} /\ crashed \in BOOLEAN

(* Whatever the arguments and their order, the options that are accepted    *)
(* are those that the rest of the program relies on (cli.c:3022 and after). *)
OptionsAreConsistent == pc = "parsed" /\ opts.ok => Consistent(opts)

(* The parts of scrcpy that a thread uses while it runs.                    *)
Uses(t) ==
    CASE t = "video" -> {"server"} \cup {p \in {"recorder"} : opts.record}
                          \cup {p \in {"screen"} : opts.play} \cup {p \in {"v4l2"} : opts.v4l2}
      [] t = "audio" -> {"server"} \cup {p \in {"recorder"} : opts.record}
      [] t \in {"server", "recorder", "timeout"} -> {t}
      [] t = "controller" -> {"server", "controller"}
      [] t = "receiver" -> {"server", "controller"} \cup {p \in {"acksync"} : opts.aoa}
      [] t = "aoa" -> {"aoa", "acksync"}
      [] t = "pusher" -> {"pusher"} \cup {p \in {"controller"} : fp.busy = "scan"}

(* Two threads do use a part that is destroyed: the receiver acknowledges   *)
(* to an acksync destroyed at scrcpy.c:998 and is joined at 1011, and the   *)
(* file pusher pushes a message to a controller destroyed at scrcpy.c:1014  *)
(* and is joined at 1025.                                                  *)
KnownRaces == {<<"receiver", "acksync">>, <<"pusher", "controller">>}

(* A thread only uses parts that are initialized, and those two pairs are   *)
(* the only ones in which it may use a part that the end of scrcpy() has    *)
(* already destroyed.  Wherever the start failed, every thread is joined    *)
(* and every part destroyed at the exit, except exactly the acksync of a    *)
(* start that found no USB device (scrcpy.c:631), which is leaked.         *)
PartsOutliveThreads ==
    /\ TypeOK /\ ~crashed
    /\ \A t \in Threads : Running(t) =>
          \A p \in Uses(t) : p \in made /\ (p \in gone => <<t, p>> \in KnownRaces)
    /\ pc = "exit" =>
          /\ made \ gone = {p \in made : p = "acksync" /\ "aoa" \notin made}
          /\ \A t \in Threads : thread[t] \in {"off", "joined"}

(* The program ends once the user asks for it, the device is gone, or an    *)
(* error was reported: somebody always notices, and no join waits for ever. *)
ClientEnds ==
    (link = "down" \/ events \cap {"quit", "error", "time"} # {}) ~> pc = "exit"

=============================================================================
