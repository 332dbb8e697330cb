---------------------------- MODULE ClientProofs ----------------------------
(***************************************************************************)
(* Proofs about what the options decide.                                   *)
(*                                                                         *)
(* The program from its command line to its exit (Client): for every set   *)
(* of arguments, every number of them and of files that are dropped, and   *)
(* every order in which the threads end.                                   *)
(*                                                                         *)
(* The input manager, with the options that the command line leaves        *)
(* (InputManager): for every order of the events of the user, every        *)
(* message that is refused and every number of slots.                      *)
(***************************************************************************)
EXTENDS Client, InputManager, WellFoundedInduction, FiniteSetTheorems, TLAPS

\* The places of the main thread, from the last one on.
FromTimeout == {"timeout", "deadline", "app", "loop"}
FromVideo == FromTimeout \cup {"video", "audio"}
FromV4l2 == FromVideo \cup {"v4l2"}
FromScreen == FromV4l2 \cup {"screen"}
FromControlling == FromScreen \cup {"controlling"}
FromAoa == FromControlling \cup {"aoa"}
FromController == FromAoa \cup {"controller"}
FromRecording == FromController \cup {"recording"}
FromRecorder == FromRecording \cup {"recorder"}
FromPusher == FromRecorder \cup {"pusher"}
FromSdl == FromPusher \cup {"sdl", "await"}

\* The steps of the end at which a thread is joined and a part destroyed.
JoinAt == [timeout |-> 8, video |-> 10, audio |-> 11, aoa |-> 13, controller |-> 17,
           receiver |-> 18, recorder |-> 20, pusher |-> 22, server |-> 24]
DestroyAt == [timeout |-> 9, v4l2 |-> 12, aoa |-> 14, acksync |-> 15, screen |-> 16,
              controller |-> 19, recorder |-> 21, pusher |-> 23, server |-> 25]

\* What is set in a field that decides.
Suits(field, value) ==
    /\ field \in DOMAIN Choices => value \in Choices[field]
    /\ field = "audio_buffer" => value \in -1 .. BufferingTime[2]
    /\ field = "screen_off_timeout" => value \in -1 .. ScreenOffTimeout[2]
    /\ field = "port_range" => value[1] <= value[2]
    /\ field = "shortcut_mods" => value \subseteq ShortcutMods
    /\ field = "key_inject_mode" => value \in KeyInjectModes
    /\ field = "mouse_bindings" =>
         \A b \in BoundButtons : value.pri[b] \in Bindings /\ value.sec[b] \in Bindings

\* The fields that Typed is about.
Deciding == {"keyboard_input_mode", "mouse_input_mode", "gamepad_input_mode",
             "video_source", "record_orientation", "record_format", "audio_buffer",
             "screen_off_timeout", "port_range", "mouse_bindings", "shortcut_mods",
             "key_inject_mode"}
InputModes == {"keyboard_input_mode", "mouse_input_mode", "gamepad_input_mode"}

\* The options, while the command line is read and once it is.
ParsedFit ==
    /\ pc \in {"args", "parsed"} => DOMAIN opts = Fields
    /\ pc = "args" /\ opts.ok => Typed(opts)
    /\ pc = "parsed" /\ opts.ok => Consistent(opts)

\* The options, by where the main thread is.
OptionsFit ==
    /\ pc \in {"args", "parsed"} => DOMAIN opts = Fields
    /\ pc = "args" /\ opts.ok => Typed(opts)
    /\ pc = "parsed" /\ opts.ok => Consistent(opts)
    /\ pc \notin {"args", "parsed"} => (opts.play => opts.window)

\* What is made, by where the main thread is.
MadeFollowsPc ==
    /\ pc \in {"args", "parsed", "server"} =>
         made = {} /\ \A t \in Threads : thread[t] = "off"
    /\ pc \in FromSdl \cup {"end"} => "server" \in made
    /\ pc \in FromRecorder /\ opts.window /\ opts.control => "pusher" \in made
    /\ pc \in FromRecording /\ opts.record => "recorder" \in made
    /\ pc \in FromAoa /\ opts.control => "controller" \in made
    /\ pc \in FromControlling /\ opts.aoa => "acksync" \in made
    /\ pc \in FromV4l2 /\ opts.window => "screen" \in made
    /\ pc \in FromVideo /\ opts.v4l2 => "v4l2" \in made

\* What a thread uses was made before it.
Needs(t) ==
    CASE t = "video" -> {"server"} \cup {p \in {"recorder"} : opts.record}
                          \cup {p \in {"screen"} : opts.play} \cup {p \in {"v4l2"} : opts.v4l2}
      [] t = "audio" -> {"server"} \cup {p \in {"recorder"} : opts.record}
      [] t \in {"server", "recorder", "timeout"} -> {t}
      [] t = "controller" -> {"server", "controller"}
      [] t = "receiver" -> {"server", "controller"} \cup {p \in {"acksync"} : opts.aoa}
      [] t = "aoa" -> {"aoa", "acksync"}
      [] t = "pusher" -> {"pusher", "controller"}

NeedsAreMade == \A t \in Threads : thread[t] = "run" => Needs(t) \subseteq made

\* The end, by its next step.
EndFollowsStep ==
    /\ pc \notin {"end", "exit"} => gone = {} /\ \A t \in Threads : thread[t] # "joined"
    /\ pc # "end" => step = 1
    /\ pc = "end" =>
         /\ \A p \in Destroyable : p \in gone <=> DestroyAt[p] < step
         /\ \A t \in Threads : JoinAt[t] < step => thread[t] \in {"off", "joined"}
    /\ gone \subseteq Destroyable
    /\ pc = "exit" => gone = Destroyable /\ \A t \in Threads : thread[t] \in {"off", "joined"}

\* The files that wait were dropped, and what the time limit reads is set.
LocalsFit ==
    /\ fp \in [queue : Nat, dropped : 0 .. MaxFiles, busy : {None, "adb", "scan"}]
    /\ fp.queue <= fp.dropped
    /\ limit \in [saw : {None, "deadline", "garbage"}, set : BOOLEAN]
    /\ limit.saw # None => limit.set

IInv ==
    /\ TypeOK /\ ~crashed /\ OptionsFit /\ MadeFollowsPc /\ NeedsAreMade
    /\ EndFollowsStep /\ LocalsFit

-----------------------------------------------------------------------------
(* The two tables of the model.                                             *)

\* The place after each place.
LEMMA NextPlaces ==
    /\ Next_("sdl") = "await" /\ Next_("pusher") = "recorder"
    /\ Next_("recorder") = "recording" /\ Next_("recording") = "controller"
    /\ Next_("controller") = "aoa" /\ Next_("aoa") = "controlling"
    /\ Next_("controlling") = "screen" /\ Next_("screen") = "v4l2"
    /\ Next_("v4l2") = "video" /\ Next_("video") = "audio"
    /\ Next_("audio") = "timeout" /\ Next_("app") = "loop"
  <1>0. DOMAIN Starts = 1 .. 17
    BY DEF Starts
  <1>a. /\ Starts[2] = "sdl" /\ Starts[3] = "await" /\ Starts[4] = "pusher"
        /\ Starts[5] = "recorder" /\ Starts[6] = "recording" /\ Starts[7] = "controller"
        /\ Starts[8] = "aoa" /\ Starts[9] = "controlling" /\ Starts[10] = "screen"
        /\ Starts[11] = "v4l2" /\ Starts[12] = "video" /\ Starts[13] = "audio"
        /\ Starts[14] = "timeout" /\ Starts[16] = "app" /\ Starts[17] = "loop"
    BY DEF Starts
  <1>b. \A i, j \in 1 .. 17 : Starts[i] = Starts[j] => i = j
    BY DEF Starts
  <1>1. ASSUME NEW k \in 1 .. 16
        PROVE  Next_(Starts[k]) = Starts[1 + k]
    <2>1. (CHOOSE i \in DOMAIN Starts : Starts[i] = Starts[k]) = k
      BY <1>0, <1>b
    <2> QED
      BY <2>1 DEF Next_
  <1>2. /\ Next_(Starts[2]) = Starts[3] /\ Next_(Starts[4]) = Starts[5]
        /\ Next_(Starts[5]) = Starts[6] /\ Next_(Starts[6]) = Starts[7]
        /\ Next_(Starts[7]) = Starts[8] /\ Next_(Starts[8]) = Starts[9]
        /\ Next_(Starts[9]) = Starts[10] /\ Next_(Starts[10]) = Starts[11]
        /\ Next_(Starts[11]) = Starts[12] /\ Next_(Starts[12]) = Starts[13]
        /\ Next_(Starts[13]) = Starts[14] /\ Next_(Starts[16]) = Starts[17]
    BY <1>1
  <1> QED
    BY <1>a, <1>2

\* The places of the main thread.
LEMMA PlacesAre ==
    {Starts[i] : i \in DOMAIN Starts} = FromSdl \cup {"server"}
  <1>0. DOMAIN Starts = 1 .. 17
    BY DEF Starts
  <1>1. \A i \in 1 .. 17 : Starts[i] \in FromSdl \cup {"server"}
    BY DEF Starts, FromSdl, FromPusher, FromRecorder, FromRecording, FromController,
       FromAoa, FromControlling, FromScreen, FromV4l2, FromVideo, FromTimeout
  <1>2. /\ Starts[1] = "server" /\ Starts[2] = "sdl" /\ Starts[3] = "await"
        /\ Starts[4] = "pusher" /\ Starts[5] = "recorder" /\ Starts[6] = "recording"
        /\ Starts[7] = "controller" /\ Starts[8] = "aoa" /\ Starts[9] = "controlling"
        /\ Starts[10] = "screen" /\ Starts[11] = "v4l2" /\ Starts[12] = "video"
        /\ Starts[13] = "audio" /\ Starts[14] = "timeout" /\ Starts[15] = "deadline"
        /\ Starts[16] = "app" /\ Starts[17] = "loop"
    BY DEF Starts
  <1>3. \A p \in FromSdl \cup {"server"} : \E i \in 1 .. 17 : Starts[i] = p
    BY <1>2 DEF FromSdl, FromPusher, FromRecorder, FromRecording, FromController,
       FromAoa, FromControlling, FromScreen, FromV4l2, FromVideo, FromTimeout
  <1> QED
    BY <1>0, <1>1, <1>3

\* The end joins every thread once and destroys every part once.
LEMMA EndStepsAre ==
    /\ DOMAIN EndSteps = 1 .. 25 /\ Len(EndSteps) = 25
    /\ \A s \in 1 .. 25 :
         /\ EndSteps[s][1] = "stop" => EndSteps[s][2] \in Threads
         /\ EndSteps[s][1] = "join" => EndSteps[s][2] \in Threads
         /\ \A t \in Threads :
              JoinAt[t] = s <=> EndSteps[s][1] = "join" /\ EndSteps[s][2] = t
         /\ \A p \in Parts :
              DestroyAt[p] = s <=> EndSteps[s][1] = "destroy" /\ EndSteps[s][2] = p
  <1>1. DOMAIN EndSteps = 1 .. 25 /\ Len(EndSteps) = 25
    BY DEF EndSteps
  <1>2. ASSUME NEW s \in 1 .. 25
        PROVE  /\ EndSteps[s][1] = "stop" => EndSteps[s][2] \in Threads
               /\ EndSteps[s][1] = "join" => EndSteps[s][2] \in Threads
    BY DEF EndSteps, Threads
  <1>3. ASSUME NEW s \in 1 .. 25, NEW t \in Threads
        PROVE  JoinAt[t] = s <=> EndSteps[s][1] = "join" /\ EndSteps[s][2] = t
    BY DEF EndSteps, Threads, JoinAt
  <1>4. ASSUME NEW s \in 1 .. 25, NEW p \in Parts
        PROVE  DestroyAt[p] = s <=> EndSteps[s][1] = "destroy" /\ EndSteps[s][2] = p
    BY DEF EndSteps, Parts, DestroyAt
  <1> QED
    BY <1>1, <1>2, <1>3, <1>4

\* The steps of the tables are those of the end.
LEMMA TablesAre ==
    /\ \A t \in Threads : JoinAt[t] \in 8 .. 24
    /\ \A p \in Parts : DestroyAt[p] \in 9 .. 25
  BY DEF JoinAt, DestroyAt, Threads, Parts

\* The locals of two threads.
LEMMA LocalTypes ==
    ASSUME LocalsFit'
    PROVE  /\ limit'.saw \in {None, "deadline", "garbage"}
           /\ fp'.queue \in 0 .. MaxFiles /\ fp'.busy \in {None, "adb", "scan"}
  <1>1. /\ fp'.queue \in Nat /\ fp'.dropped \in 0 .. MaxFiles /\ MaxFiles \in Nat
        /\ fp'.queue <= fp'.dropped
    BY BoundAssumption DEF LocalsFit
  <1>2. fp'.queue \in 0 .. MaxFiles
    BY <1>1
  <1> QED
    BY <1>2 DEF LocalsFit

-----------------------------------------------------------------------------
(* The steps of the start.                                                  *)

\* A step of the start: parts may be made, and threads started that need only
\* what is made.
LEMMA StartKeeps ==
    ASSUME IInv, pc \in FromSdl \cup {"server"}, pc' \in FromSdl \cup {"end"},
           UNCHANGED <<opts, nargs, step, gone, stopped, link, crashed>>,
           made \subseteq made', made' \subseteq Parts, events' \subseteq Events,
           NEW ts \in SUBSET Threads, thread' = Run(ts),
           \A t \in ts : Needs(t) \subseteq made',
           ret' \in {"failure", "success", "disconnected"}, MadeFollowsPc', LocalsFit'
    PROVE  IInv'
  <1> USE DEF FromSdl,
       FromPusher, FromRecorder, FromRecording, FromController,
       FromAoa, FromControlling, FromScreen, FromV4l2, FromVideo, FromTimeout
  <1>0. TypeOK /\ ~crashed /\ OptionsFit /\ MadeFollowsPc /\ NeedsAreMade
        /\ EndFollowsStep /\ LocalsFit
    BY DEF IInv
  <1>1. /\ gone = {} /\ step = 1 /\ \A t \in Threads : thread[t] # "joined"
    BY <1>0 DEF EndFollowsStep
  <1>2. \A t \in Threads : thread'[t] = IF t \in ts THEN "run" ELSE thread[t]
    BY DEF Run
  <1>3. TypeOK'
    <2>1. thread' \in [Threads -> {"off", "run", "ended", "joined"}]
      BY <1>0 DEF TypeOK, Run
    <2>2. pc' \in {"args", "parsed", "end", "exit"} \cup {Starts[i] : i \in DOMAIN Starts}
      BY PlacesAre
    <2>3. gone' \subseteq made'
      BY <1>0 DEF TypeOK
    <2>4. /\ limit'.saw \in {None, "deadline", "garbage"}
          /\ fp'.queue \in 0 .. MaxFiles /\ fp'.busy \in {None, "adb", "scan"}
      BY LocalTypes
    <2> QED
      BY <1>0, <2>1, <2>2, <2>3, <2>4 DEF TypeOK
  <1>4. OptionsFit'
    BY <1>0 DEF OptionsFit
  <1>5. NeedsAreMade'
    <2> SUFFICES ASSUME NEW t \in Threads, thread'[t] = "run"
                 PROVE  Needs(t)' \subseteq made'
      BY DEF NeedsAreMade
    <2>1. Needs(t)' = Needs(t)
      BY DEF Needs
    <2>2. CASE t \in ts
      BY <2>1, <2>2
    <2>3. CASE t \notin ts
      <3>1. thread[t] = "run"
        BY <1>2, <2>3
      <3>2. Needs(t) \subseteq made
        BY <1>0, <3>1 DEF NeedsAreMade
      <3> QED
        BY <2>1, <3>2
    <2> QED
      BY <2>2, <2>3
  <1>6. EndFollowsStep'
    <2>1. \A t \in Threads : thread'[t] # "joined"
      BY <1>1, <1>2
    <2>2. \A p \in Destroyable' : ~(DestroyAt[p] < 1)
      BY TablesAre DEF Destroyable
    <2>3. \A t \in Threads : ~(JoinAt[t] < 1)
      BY TablesAre
    <2> QED
      BY <1>1, <2>1, <2>2, <2>3 DEF EndFollowsStep
  <1> QED
    BY <1>0, <1>3, <1>4, <1>5, <1>6 DEF IInv

\* What StartIf() leaves alone, and its outcomes.
LEMMA StartIfIs ==
    ASSUME TypeOK, NEW place, NEW wanted, NEW parts, NEW threads,
           StartIf(place, wanted, parts, threads), Next_(place) # "end"
    PROVE  /\ pc = place
           /\ UNCHANGED <<opts, nargs, step, gone, stopped, link, fp, limit, ret, crashed>>
           /\ \/ /\ ~wanted /\ pc' = Next_(place) /\ made' = made
                 /\ thread' = Run({}) /\ events' = events
              \/ /\ wanted /\ pc' = Next_(place) /\ made' = made \cup parts
                 /\ thread' = Run(threads) /\ events' = events
              \/ /\ pc' = "end" /\ made' = made /\ thread' = Run({}) /\ events' = {}
  <1>1. Run({}) = thread
    BY DEF Run, TypeOK
  <1> QED
    BY <1>1 DEF StartIf, Goto

\* SDL is initialized.
LEMMA InitSdlStep ==
    ASSUME IInv, InitSdl
    PROVE  IInv'
  <1>0. TypeOK /\ OptionsFit /\ MadeFollowsPc /\ LocalsFit
    BY DEF IInv
  <1>1. Next_("sdl") = "await"
    BY NextPlaces
  <1>2. /\ pc = "sdl"
        /\ UNCHANGED <<opts, nargs, step, gone, stopped, link, fp, limit, ret, crashed>>
        /\ \/ /\ ~(opts.sdl /\ ~opts.list) /\ pc' = "await" /\ made' = made
              /\ thread' = Run({}) /\ events' = events
           \/ /\ pc' = "await" /\ made' = made \cup {}
              /\ thread' = Run({}) /\ events' = events
           \/ /\ pc' = "end" /\ made' = made /\ thread' = Run({}) /\ events' = {}
    BY <1>0, <1>1, StartIfIs DEF InitSdl
  <1>3. /\ made \subseteq made' /\ made' \subseteq Parts /\ events' \subseteq Events
        /\ ret' \in {"failure", "success", "disconnected"}
    BY <1>0, <1>2 DEF TypeOK, Parts
  <1>4. MadeFollowsPc'
    BY <1>0, <1>2 DEF MadeFollowsPc, FromSdl,
       FromPusher, FromRecorder, FromRecording, FromController,
       FromAoa, FromControlling, FromScreen, FromV4l2, FromVideo, FromTimeout
  <1>5. LocalsFit'
    BY <1>0, <1>2 DEF LocalsFit
  <1>6. PICK ts \in {{}, {}} :
             /\ thread' = Run(ts)
             /\ ts = {} \/ made' = made \cup {}
    BY <1>2
  <1>7. ASSUME NEW t \in ts PROVE Needs(t) \subseteq made'
    BY <1>6
  <1>8. ts \in SUBSET Threads /\ pc \in FromSdl \cup {"server"}
        /\ pc' \in FromSdl \cup {"end"}
    BY <1>2, <1>6 DEF Threads, FromSdl,
       FromPusher, FromRecorder, FromRecording, FromController,
       FromAoa, FromControlling, FromScreen, FromV4l2, FromVideo, FromTimeout
  <1>9. thread' = Run(ts)
    BY <1>6
  <1> QED
    BY <1>2, <1>3, <1>4, <1>5, <1>7, <1>8, <1>9, StartKeeps

\* The file pusher is made.
LEMMA InitPusherStep ==
    ASSUME IInv, InitPusher
    PROVE  IInv'
  <1>0. TypeOK /\ OptionsFit /\ MadeFollowsPc /\ LocalsFit
    BY DEF IInv
  <1>1. Next_("pusher") = "recorder"
    BY NextPlaces
  <1>2. /\ pc = "pusher"
        /\ UNCHANGED <<opts, nargs, step, gone, stopped, link, fp, limit, ret, crashed>>
        /\ \/ /\ ~(opts.window /\ opts.control) /\ pc' = "recorder" /\ made' = made
              /\ thread' = Run({}) /\ events' = events
           \/ /\ pc' = "recorder" /\ made' = made \cup {"pusher"}
              /\ thread' = Run({}) /\ events' = events
           \/ /\ pc' = "end" /\ made' = made /\ thread' = Run({}) /\ events' = {}
    BY <1>0, <1>1, StartIfIs DEF InitPusher
  <1>3. /\ made \subseteq made' /\ made' \subseteq Parts /\ events' \subseteq Events
        /\ ret' \in {"failure", "success", "disconnected"}
    BY <1>0, <1>2 DEF TypeOK, Parts
  <1>4. MadeFollowsPc'
    BY <1>0, <1>2 DEF MadeFollowsPc, FromSdl,
       FromPusher, FromRecorder, FromRecording, FromController,
       FromAoa, FromControlling, FromScreen, FromV4l2, FromVideo, FromTimeout
  <1>5. LocalsFit'
    BY <1>0, <1>2 DEF LocalsFit
  <1>6. PICK ts \in {{}, {}} :
             /\ thread' = Run(ts)
             /\ ts = {} \/ made' = made \cup {"pusher"}
    BY <1>2
  <1>7. ASSUME NEW t \in ts PROVE Needs(t) \subseteq made'
    BY <1>6
  <1>8. ts \in SUBSET Threads /\ pc \in FromSdl \cup {"server"}
        /\ pc' \in FromSdl \cup {"end"}
    BY <1>2, <1>6 DEF Threads, FromSdl,
       FromPusher, FromRecorder, FromRecording, FromController,
       FromAoa, FromControlling, FromScreen, FromV4l2, FromVideo, FromTimeout
  <1>9. thread' = Run(ts)
    BY <1>6
  <1> QED
    BY <1>2, <1>3, <1>4, <1>5, <1>7, <1>8, <1>9, StartKeeps

\* The recorder is made.
LEMMA InitRecorderStep ==
    ASSUME IInv, InitRecorder
    PROVE  IInv'
  <1>0. TypeOK /\ OptionsFit /\ MadeFollowsPc /\ LocalsFit
    BY DEF IInv
  <1>1. Next_("recorder") = "recording"
    BY NextPlaces
  <1>2. /\ pc = "recorder"
        /\ UNCHANGED <<opts, nargs, step, gone, stopped, link, fp, limit, ret, crashed>>
        /\ \/ /\ ~opts.record /\ pc' = "recording" /\ made' = made
              /\ thread' = Run({}) /\ events' = events
           \/ /\ pc' = "recording" /\ made' = made \cup {"recorder"}
              /\ thread' = Run({}) /\ events' = events
           \/ /\ pc' = "end" /\ made' = made /\ thread' = Run({}) /\ events' = {}
    BY <1>0, <1>1, StartIfIs DEF InitRecorder
  <1>3. /\ made \subseteq made' /\ made' \subseteq Parts /\ events' \subseteq Events
        /\ ret' \in {"failure", "success", "disconnected"}
    BY <1>0, <1>2 DEF TypeOK, Parts
  <1>4. MadeFollowsPc'
    BY <1>0, <1>2 DEF MadeFollowsPc, FromSdl,
       FromPusher, FromRecorder, FromRecording, FromController,
       FromAoa, FromControlling, FromScreen, FromV4l2, FromVideo, FromTimeout
  <1>5. LocalsFit'
    BY <1>0, <1>2 DEF LocalsFit
  <1>6. PICK ts \in {{}, {}} :
             /\ thread' = Run(ts)
             /\ ts = {} \/ made' = made \cup {"recorder"}
    BY <1>2
  <1>7. ASSUME NEW t \in ts PROVE Needs(t) \subseteq made'
    BY <1>6
  <1>8. ts \in SUBSET Threads /\ pc \in FromSdl \cup {"server"}
        /\ pc' \in FromSdl \cup {"end"}
    BY <1>2, <1>6 DEF Threads, FromSdl,
       FromPusher, FromRecorder, FromRecording, FromController,
       FromAoa, FromControlling, FromScreen, FromV4l2, FromVideo, FromTimeout
  <1>9. thread' = Run(ts)
    BY <1>6
  <1> QED
    BY <1>2, <1>3, <1>4, <1>5, <1>7, <1>8, <1>9, StartKeeps

\* The recorder is started.
LEMMA StartRecorderStep ==
    ASSUME IInv, StartRecorder
    PROVE  IInv'
  <1>0. TypeOK /\ OptionsFit /\ MadeFollowsPc /\ LocalsFit
    BY DEF IInv
  <1>1. Next_("recording") = "controller"
    BY NextPlaces
  <1>2. /\ pc = "recording"
        /\ UNCHANGED <<opts, nargs, step, gone, stopped, link, fp, limit, ret, crashed>>
        /\ \/ /\ ~opts.record /\ pc' = "controller" /\ made' = made
              /\ thread' = Run({}) /\ events' = events
           \/ /\ opts.record /\ pc' = "controller" /\ made' = made \cup {}
              /\ thread' = Run({"recorder"}) /\ events' = events
           \/ /\ pc' = "end" /\ made' = made /\ thread' = Run({}) /\ events' = {}
    BY <1>0, <1>1, StartIfIs DEF StartRecorder
  <1>3. /\ made \subseteq made' /\ made' \subseteq Parts /\ events' \subseteq Events
        /\ ret' \in {"failure", "success", "disconnected"}
    BY <1>0, <1>2 DEF TypeOK, Parts
  <1>4. MadeFollowsPc'
    BY <1>0, <1>2 DEF MadeFollowsPc, FromSdl,
       FromPusher, FromRecorder, FromRecording, FromController,
       FromAoa, FromControlling, FromScreen, FromV4l2, FromVideo, FromTimeout
  <1>5. LocalsFit'
    BY <1>0, <1>2 DEF LocalsFit
  <1>6. PICK ts \in {{}, {"recorder"}} :
             /\ thread' = Run(ts)
             /\ ts = {} \/ (opts.record /\ made' = made \cup {})
    BY <1>2
  <1>7. ASSUME NEW t \in ts PROVE Needs(t) \subseteq made'
    BY <1>0, <1>2, <1>6 DEF Needs, MadeFollowsPc, OptionsFit, FromSdl,
       FromPusher, FromRecorder, FromRecording, FromController,
       FromAoa, FromControlling, FromScreen, FromV4l2, FromVideo, FromTimeout
  <1>8. ts \in SUBSET Threads /\ pc \in FromSdl \cup {"server"}
        /\ pc' \in FromSdl \cup {"end"}
    BY <1>2, <1>6 DEF Threads, FromSdl,
       FromPusher, FromRecorder, FromRecording, FromController,
       FromAoa, FromControlling, FromScreen, FromV4l2, FromVideo, FromTimeout
  <1>9. thread' = Run(ts)
    BY <1>0, <1>2, <1>6 DEF Needs, MadeFollowsPc, OptionsFit, FromSdl,
       FromPusher, FromRecorder, FromRecording, FromController,
       FromAoa, FromControlling, FromScreen, FromV4l2, FromVideo, FromTimeout
  <1> QED
    BY <1>2, <1>3, <1>4, <1>5, <1>7, <1>8, <1>9, StartKeeps

\* The controller is made.
LEMMA InitControllerStep ==
    ASSUME IInv, InitController
    PROVE  IInv'
  <1>0. TypeOK /\ OptionsFit /\ MadeFollowsPc /\ LocalsFit
    BY DEF IInv
  <1>1. Next_("controller") = "aoa"
    BY NextPlaces
  <1>2. /\ pc = "controller"
        /\ UNCHANGED <<opts, nargs, step, gone, stopped, link, fp, limit, ret, crashed>>
        /\ \/ /\ ~opts.control /\ pc' = "aoa" /\ made' = made
              /\ thread' = Run({}) /\ events' = events
           \/ /\ pc' = "aoa" /\ made' = made \cup {"controller"}
              /\ thread' = Run({}) /\ events' = events
           \/ /\ pc' = "end" /\ made' = made /\ thread' = Run({}) /\ events' = {}
    BY <1>0, <1>1, StartIfIs DEF InitController
  <1>3. /\ made \subseteq made' /\ made' \subseteq Parts /\ events' \subseteq Events
        /\ ret' \in {"failure", "success", "disconnected"}
    BY <1>0, <1>2 DEF TypeOK, Parts
  <1>4. MadeFollowsPc'
    BY <1>0, <1>2 DEF MadeFollowsPc, FromSdl,
       FromPusher, FromRecorder, FromRecording, FromController,
       FromAoa, FromControlling, FromScreen, FromV4l2, FromVideo, FromTimeout
  <1>5. LocalsFit'
    BY <1>0, <1>2 DEF LocalsFit
  <1>6. PICK ts \in {{}, {}} :
             /\ thread' = Run(ts)
             /\ ts = {} \/ made' = made \cup {"controller"}
    BY <1>2
  <1>7. ASSUME NEW t \in ts PROVE Needs(t) \subseteq made'
    BY <1>6
  <1>8. ts \in SUBSET Threads /\ pc \in FromSdl \cup {"server"}
        /\ pc' \in FromSdl \cup {"end"}
    BY <1>2, <1>6 DEF Threads, FromSdl,
       FromPusher, FromRecorder, FromRecording, FromController,
       FromAoa, FromControlling, FromScreen, FromV4l2, FromVideo, FromTimeout
  <1>9. thread' = Run(ts)
    BY <1>6
  <1> QED
    BY <1>2, <1>3, <1>4, <1>5, <1>7, <1>8, <1>9, StartKeeps

\* The AOA thread is started.
LEMMA StartAoaStep ==
    ASSUME IInv, StartAoa
    PROVE  IInv'
  <1>0. TypeOK /\ OptionsFit /\ MadeFollowsPc /\ LocalsFit
    BY DEF IInv
  <1>1. Next_("aoa") = "controlling"
    BY NextPlaces
  <1>2. /\ pc = "aoa"
        /\ UNCHANGED <<opts, nargs, step, gone, stopped, link, fp, limit, ret, crashed>>
        /\ \/ /\ ~opts.aoa /\ pc' = "controlling" /\ made' = made
              /\ thread' = Run({}) /\ events' = events
           \/ /\ pc' = "controlling" /\ made' = made \cup {"aoa", "acksync"}
              /\ thread' = Run({"aoa"}) /\ events' = events
           \/ /\ pc' = "end" /\ made' \in {made, made \cup {"acksync"}}
              /\ thread' = Run({}) /\ events' = {}
    <2>1. CASE StartIf("aoa", opts.aoa, {"aoa", "acksync"}, {"aoa"})
      BY <1>0, <1>1, <2>1, StartIfIs
    <2>2. CASE ~StartIf("aoa", opts.aoa, {"aoa", "acksync"}, {"aoa"})
      <3>1. Run({}) = thread
        BY <1>0 DEF Run, TypeOK
      <3> QED
        BY <2>2, <3>1 DEF StartAoa, Goto
    <2> QED
      BY <2>1, <2>2
  <1>3. /\ made \subseteq made' /\ made' \subseteq Parts /\ events' \subseteq Events
        /\ ret' \in {"failure", "success", "disconnected"}
    BY <1>0, <1>2 DEF TypeOK, Parts
  <1>4. MadeFollowsPc'
    BY <1>0, <1>2 DEF MadeFollowsPc, FromSdl,
       FromPusher, FromRecorder, FromRecording, FromController,
       FromAoa, FromControlling, FromScreen, FromV4l2, FromVideo, FromTimeout
  <1>5. LocalsFit'
    BY <1>0, <1>2 DEF LocalsFit
  <1>6. PICK ts \in {{}, {"aoa"}} :
             /\ thread' = Run(ts)
             /\ ts = {} \/ made' = made \cup {"aoa", "acksync"}
    BY <1>2
  <1>7. ASSUME NEW t \in ts PROVE Needs(t) \subseteq made'
    BY <1>6 DEF Needs
  <1>8. ts \in SUBSET Threads /\ pc \in FromSdl \cup {"server"}
        /\ pc' \in FromSdl \cup {"end"}
    BY <1>2, <1>6 DEF Threads, FromSdl,
       FromPusher, FromRecorder, FromRecording, FromController,
       FromAoa, FromControlling, FromScreen, FromV4l2, FromVideo, FromTimeout
  <1>9. thread' = Run(ts)
    BY <1>6 DEF Needs
  <1> QED
    BY <1>2, <1>3, <1>4, <1>5, <1>7, <1>8, <1>9, StartKeeps

\* The controller is started.
LEMMA StartControllerStep ==
    ASSUME IInv, StartController
    PROVE  IInv'
  <1>0. TypeOK /\ OptionsFit /\ MadeFollowsPc /\ LocalsFit
    BY DEF IInv
  <1>1. Next_("controlling") = "screen"
    BY NextPlaces
  <1>2. /\ pc = "controlling"
        /\ UNCHANGED <<opts, nargs, step, gone, stopped, link, fp, limit, ret, crashed>>
        /\ \/ /\ ~opts.control /\ pc' = "screen" /\ made' = made
              /\ thread' = Run({}) /\ events' = events
           \/ /\ opts.control /\ pc' = "screen" /\ made' = made \cup {}
              /\ thread' = Run({"controller", "receiver"}) /\ events' = events
           \/ /\ pc' = "end" /\ made' = made /\ thread' = Run({}) /\ events' = {}
    BY <1>0, <1>1, StartIfIs DEF StartController
  <1>3. /\ made \subseteq made' /\ made' \subseteq Parts /\ events' \subseteq Events
        /\ ret' \in {"failure", "success", "disconnected"}
    BY <1>0, <1>2 DEF TypeOK, Parts
  <1>4. MadeFollowsPc'
    BY <1>0, <1>2 DEF MadeFollowsPc, FromSdl,
       FromPusher, FromRecorder, FromRecording, FromController,
       FromAoa, FromControlling, FromScreen, FromV4l2, FromVideo, FromTimeout
  <1>5. LocalsFit'
    BY <1>0, <1>2 DEF LocalsFit
  <1>6. PICK ts \in {{}, {"controller", "receiver"}} :
             /\ thread' = Run(ts)
             /\ ts = {} \/ (opts.control /\ made' = made \cup {})
    BY <1>2
  <1>7. ASSUME NEW t \in ts PROVE Needs(t) \subseteq made'
    BY <1>0, <1>2, <1>6 DEF Needs, MadeFollowsPc, OptionsFit, FromSdl,
       FromPusher, FromRecorder, FromRecording, FromController,
       FromAoa, FromControlling, FromScreen, FromV4l2, FromVideo, FromTimeout
  <1>8. ts \in SUBSET Threads /\ pc \in FromSdl \cup {"server"}
        /\ pc' \in FromSdl \cup {"end"}
    BY <1>2, <1>6 DEF Threads, FromSdl,
       FromPusher, FromRecorder, FromRecording, FromController,
       FromAoa, FromControlling, FromScreen, FromV4l2, FromVideo, FromTimeout
  <1>9. thread' = Run(ts)
    BY <1>0, <1>2, <1>6 DEF Needs, MadeFollowsPc, OptionsFit, FromSdl,
       FromPusher, FromRecorder, FromRecording, FromController,
       FromAoa, FromControlling, FromScreen, FromV4l2, FromVideo, FromTimeout
  <1> QED
    BY <1>2, <1>3, <1>4, <1>5, <1>7, <1>8, <1>9, StartKeeps

\* The window is made.
LEMMA InitScreenStep ==
    ASSUME IInv, InitScreen
    PROVE  IInv'
  <1>0. TypeOK /\ OptionsFit /\ MadeFollowsPc /\ LocalsFit
    BY DEF IInv
  <1>1. Next_("screen") = "v4l2"
    BY NextPlaces
  <1>2. /\ pc = "screen"
        /\ UNCHANGED <<opts, nargs, step, gone, stopped, link, fp, limit, ret, crashed>>
        /\ \/ /\ ~opts.window /\ pc' = "v4l2" /\ made' = made
              /\ thread' = Run({}) /\ events' = events
           \/ /\ pc' = "v4l2" /\ made' = made \cup {"screen"}
              /\ thread' = Run({}) /\ events' = events
           \/ /\ pc' = "end" /\ made' = made /\ thread' = Run({}) /\ events' = {}
    BY <1>0, <1>1, StartIfIs DEF InitScreen
  <1>3. /\ made \subseteq made' /\ made' \subseteq Parts /\ events' \subseteq Events
        /\ ret' \in {"failure", "success", "disconnected"}
    BY <1>0, <1>2 DEF TypeOK, Parts
  <1>4. MadeFollowsPc'
    BY <1>0, <1>2 DEF MadeFollowsPc, FromSdl,
       FromPusher, FromRecorder, FromRecording, FromController,
       FromAoa, FromControlling, FromScreen, FromV4l2, FromVideo, FromTimeout
  <1>5. LocalsFit'
    BY <1>0, <1>2 DEF LocalsFit
  <1>6. PICK ts \in {{}, {}} :
             /\ thread' = Run(ts)
             /\ ts = {} \/ made' = made \cup {"screen"}
    BY <1>2
  <1>7. ASSUME NEW t \in ts PROVE Needs(t) \subseteq made'
    BY <1>6
  <1>8. ts \in SUBSET Threads /\ pc \in FromSdl \cup {"server"}
        /\ pc' \in FromSdl \cup {"end"}
    BY <1>2, <1>6 DEF Threads, FromSdl,
       FromPusher, FromRecorder, FromRecording, FromController,
       FromAoa, FromControlling, FromScreen, FromV4l2, FromVideo, FromTimeout
  <1>9. thread' = Run(ts)
    BY <1>6
  <1> QED
    BY <1>2, <1>3, <1>4, <1>5, <1>7, <1>8, <1>9, StartKeeps

\* The v4l2 sink is made.
LEMMA InitV4l2Step ==
    ASSUME IInv, InitV4l2
    PROVE  IInv'
  <1>0. TypeOK /\ OptionsFit /\ MadeFollowsPc /\ LocalsFit
    BY DEF IInv
  <1>1. Next_("v4l2") = "video"
    BY NextPlaces
  <1>2. /\ pc = "v4l2"
        /\ UNCHANGED <<opts, nargs, step, gone, stopped, link, fp, limit, ret, crashed>>
        /\ \/ /\ ~opts.v4l2 /\ pc' = "video" /\ made' = made
              /\ thread' = Run({}) /\ events' = events
           \/ /\ pc' = "video" /\ made' = made \cup {"v4l2"}
              /\ thread' = Run({}) /\ events' = events
           \/ /\ pc' = "end" /\ made' = made /\ thread' = Run({}) /\ events' = {}
    BY <1>0, <1>1, StartIfIs DEF InitV4l2
  <1>3. /\ made \subseteq made' /\ made' \subseteq Parts /\ events' \subseteq Events
        /\ ret' \in {"failure", "success", "disconnected"}
    BY <1>0, <1>2 DEF TypeOK, Parts
  <1>4. MadeFollowsPc'
    BY <1>0, <1>2 DEF MadeFollowsPc, FromSdl,
       FromPusher, FromRecorder, FromRecording, FromController,
       FromAoa, FromControlling, FromScreen, FromV4l2, FromVideo, FromTimeout
  <1>5. LocalsFit'
    BY <1>0, <1>2 DEF LocalsFit
  <1>6. PICK ts \in {{}, {}} :
             /\ thread' = Run(ts)
             /\ ts = {} \/ made' = made \cup {"v4l2"}
    BY <1>2
  <1>7. ASSUME NEW t \in ts PROVE Needs(t) \subseteq made'
    BY <1>6
  <1>8. ts \in SUBSET Threads /\ pc \in FromSdl \cup {"server"}
        /\ pc' \in FromSdl \cup {"end"}
    BY <1>2, <1>6 DEF Threads, FromSdl,
       FromPusher, FromRecorder, FromRecording, FromController,
       FromAoa, FromControlling, FromScreen, FromV4l2, FromVideo, FromTimeout
  <1>9. thread' = Run(ts)
    BY <1>6
  <1> QED
    BY <1>2, <1>3, <1>4, <1>5, <1>7, <1>8, <1>9, StartKeeps

\* The video demuxer is started.
LEMMA StartVideoStep ==
    ASSUME IInv, StartVideo
    PROVE  IInv'
  <1>0. TypeOK /\ OptionsFit /\ MadeFollowsPc /\ LocalsFit
    BY DEF IInv
  <1>1. Next_("video") = "audio"
    BY NextPlaces
  <1>2. /\ pc = "video"
        /\ UNCHANGED <<opts, nargs, step, gone, stopped, link, fp, limit, ret, crashed>>
        /\ \/ /\ ~opts.video /\ pc' = "audio" /\ made' = made
              /\ thread' = Run({}) /\ events' = events
           \/ /\ opts.video /\ pc' = "audio" /\ made' = made \cup {}
              /\ thread' = Run({"video"}) /\ events' = events
           \/ /\ pc' = "end" /\ made' = made /\ thread' = Run({}) /\ events' = {}
    BY <1>0, <1>1, StartIfIs DEF StartVideo
  <1>3. /\ made \subseteq made' /\ made' \subseteq Parts /\ events' \subseteq Events
        /\ ret' \in {"failure", "success", "disconnected"}
    BY <1>0, <1>2 DEF TypeOK, Parts
  <1>4. MadeFollowsPc'
    BY <1>0, <1>2 DEF MadeFollowsPc, FromSdl,
       FromPusher, FromRecorder, FromRecording, FromController,
       FromAoa, FromControlling, FromScreen, FromV4l2, FromVideo, FromTimeout
  <1>5. LocalsFit'
    BY <1>0, <1>2 DEF LocalsFit
  <1>6. PICK ts \in {{}, {"video"}} :
             /\ thread' = Run(ts)
             /\ ts = {} \/ (opts.video /\ made' = made \cup {})
    BY <1>2
  <1>7. ASSUME NEW t \in ts PROVE Needs(t) \subseteq made'
    BY <1>0, <1>2, <1>6 DEF Needs, MadeFollowsPc, OptionsFit, FromSdl,
       FromPusher, FromRecorder, FromRecording, FromController,
       FromAoa, FromControlling, FromScreen, FromV4l2, FromVideo, FromTimeout
  <1>8. ts \in SUBSET Threads /\ pc \in FromSdl \cup {"server"}
        /\ pc' \in FromSdl \cup {"end"}
    BY <1>2, <1>6 DEF Threads, FromSdl,
       FromPusher, FromRecorder, FromRecording, FromController,
       FromAoa, FromControlling, FromScreen, FromV4l2, FromVideo, FromTimeout
  <1>9. thread' = Run(ts)
    BY <1>0, <1>2, <1>6 DEF Needs, MadeFollowsPc, OptionsFit, FromSdl,
       FromPusher, FromRecorder, FromRecording, FromController,
       FromAoa, FromControlling, FromScreen, FromV4l2, FromVideo, FromTimeout
  <1> QED
    BY <1>2, <1>3, <1>4, <1>5, <1>7, <1>8, <1>9, StartKeeps

\* The audio demuxer is started.
LEMMA StartAudioStep ==
    ASSUME IInv, StartAudio
    PROVE  IInv'
  <1>0. TypeOK /\ OptionsFit /\ MadeFollowsPc /\ LocalsFit
    BY DEF IInv
  <1>1. Next_("audio") = "timeout"
    BY NextPlaces
  <1>2. /\ pc = "audio"
        /\ UNCHANGED <<opts, nargs, step, gone, stopped, link, fp, limit, ret, crashed>>
        /\ \/ /\ ~opts.audio /\ pc' = "timeout" /\ made' = made
              /\ thread' = Run({}) /\ events' = events
           \/ /\ opts.audio /\ pc' = "timeout" /\ made' = made \cup {}
              /\ thread' = Run({"audio"}) /\ events' = events
           \/ /\ pc' = "end" /\ made' = made /\ thread' = Run({}) /\ events' = {}
    BY <1>0, <1>1, StartIfIs DEF StartAudio
  <1>3. /\ made \subseteq made' /\ made' \subseteq Parts /\ events' \subseteq Events
        /\ ret' \in {"failure", "success", "disconnected"}
    BY <1>0, <1>2 DEF TypeOK, Parts
  <1>4. MadeFollowsPc'
    BY <1>0, <1>2 DEF MadeFollowsPc, FromSdl,
       FromPusher, FromRecorder, FromRecording, FromController,
       FromAoa, FromControlling, FromScreen, FromV4l2, FromVideo, FromTimeout
  <1>5. LocalsFit'
    BY <1>0, <1>2 DEF LocalsFit
  <1>6. PICK ts \in {{}, {"audio"}} :
             /\ thread' = Run(ts)
             /\ ts = {} \/ (opts.audio /\ made' = made \cup {})
    BY <1>2
  <1>7. ASSUME NEW t \in ts PROVE Needs(t) \subseteq made'
    BY <1>0, <1>2, <1>6 DEF Needs, MadeFollowsPc, OptionsFit, FromSdl,
       FromPusher, FromRecorder, FromRecording, FromController,
       FromAoa, FromControlling, FromScreen, FromV4l2, FromVideo, FromTimeout
  <1>8. ts \in SUBSET Threads /\ pc \in FromSdl \cup {"server"}
        /\ pc' \in FromSdl \cup {"end"}
    BY <1>2, <1>6 DEF Threads, FromSdl,
       FromPusher, FromRecorder, FromRecording, FromController,
       FromAoa, FromControlling, FromScreen, FromV4l2, FromVideo, FromTimeout
  <1>9. thread' = Run(ts)
    BY <1>0, <1>2, <1>6 DEF Needs, MadeFollowsPc, OptionsFit, FromSdl,
       FromPusher, FromRecorder, FromRecording, FromController,
       FromAoa, FromControlling, FromScreen, FromV4l2, FromVideo, FromTimeout
  <1> QED
    BY <1>2, <1>3, <1>4, <1>5, <1>7, <1>8, <1>9, StartKeeps

\* The first messages are sent.
LEMMA StartAppStep ==
    ASSUME IInv, StartApp
    PROVE  IInv'
  <1>0. TypeOK /\ OptionsFit /\ MadeFollowsPc /\ LocalsFit
    BY DEF IInv
  <1>1. Next_("app") = "loop"
    BY NextPlaces
  <1>2. /\ pc = "app"
        /\ UNCHANGED <<opts, nargs, step, gone, stopped, link, fp, limit, ret, crashed>>
        /\ \/ /\ ~opts.start_app /\ pc' = "loop" /\ made' = made
              /\ thread' = Run({}) /\ events' = events
           \/ /\ pc' = "loop" /\ made' = made \cup {}
              /\ thread' = Run({}) /\ events' = events
           \/ /\ pc' = "end" /\ made' = made /\ thread' = Run({}) /\ events' = {}
    BY <1>0, <1>1, StartIfIs DEF StartApp
  <1>3. /\ made \subseteq made' /\ made' \subseteq Parts /\ events' \subseteq Events
        /\ ret' \in {"failure", "success", "disconnected"}
    BY <1>0, <1>2 DEF TypeOK, Parts
  <1>4. MadeFollowsPc'
    BY <1>0, <1>2 DEF MadeFollowsPc, FromSdl,
       FromPusher, FromRecorder, FromRecording, FromController,
       FromAoa, FromControlling, FromScreen, FromV4l2, FromVideo, FromTimeout
  <1>5. LocalsFit'
    BY <1>0, <1>2 DEF LocalsFit
  <1>6. PICK ts \in {{}, {}} :
             /\ thread' = Run(ts)
             /\ ts = {} \/ made' = made \cup {}
    BY <1>2
  <1>7. ASSUME NEW t \in ts PROVE Needs(t) \subseteq made'
    BY <1>6
  <1>8. ts \in SUBSET Threads /\ pc \in FromSdl \cup {"server"}
        /\ pc' \in FromSdl \cup {"end"}
    BY <1>2, <1>6 DEF Threads, FromSdl,
       FromPusher, FromRecorder, FromRecording, FromController,
       FromAoa, FromControlling, FromScreen, FromV4l2, FromVideo, FromTimeout
  <1>9. thread' = Run(ts)
    BY <1>6
  <1> QED
    BY <1>2, <1>3, <1>4, <1>5, <1>7, <1>8, <1>9, StartKeeps

\* The server is started, or the program ends.
LEMMA StartServerStep ==
    ASSUME IInv, StartServer
    PROVE  IInv'
  <1>0. TypeOK /\ ~crashed /\ OptionsFit /\ MadeFollowsPc /\ NeedsAreMade
        /\ EndFollowsStep /\ LocalsFit
    BY DEF IInv
  <1>1. /\ pc = "server" /\ made = {} /\ \A t \in Threads : thread[t] = "off"
        /\ UNCHANGED <<opts, nargs, step, gone, stopped, link, fp, limit, ret, crashed>>
    BY <1>0 DEF StartServer, MadeFollowsPc
  <1>2. LocalsFit' /\ ret' \in {"failure", "success", "disconnected"}
    BY <1>0, <1>1 DEF LocalsFit, TypeOK
  <1>3. thread = Run({})
    BY <1>0 DEF TypeOK, Run
  <1>4. CASE made' = {"server"} /\ thread' = Run({"server"}) /\ Goto("sdl")
    <2>1. pc' = "sdl" /\ events' = events
      BY <1>4 DEF Goto
    <2>2. MadeFollowsPc'
      BY <1>4, <2>1 DEF MadeFollowsPc, FromSdl,
       FromPusher, FromRecorder, FromRecording, FromController,
       FromAoa, FromControlling, FromScreen, FromV4l2, FromVideo, FromTimeout
    <2>3. /\ made \subseteq made' /\ made' \subseteq Parts /\ events' \subseteq Events
          /\ {"server"} \in SUBSET Threads
      BY <1>0, <1>1, <1>4, <2>1 DEF Parts, Threads, TypeOK
    <2>4. \A t \in {"server"} : Needs(t) \subseteq made'
      BY <1>4 DEF Needs
    <2>5. pc \in FromSdl \cup {"server"} /\ pc' \in FromSdl \cup {"end"}
      BY <1>1, <2>1 DEF FromSdl
    <2>6. thread' = Run({"server"})
      BY <1>4
    <2> QED
      BY <1>1, <1>2, <2>2, <2>3, <2>4, <2>5, <2>6, StartKeeps
  <1>5. CASE made' = {"server"} /\ thread' = thread /\ Goto("end")
    <2>1. pc' = "end" /\ events' = {}
      BY <1>5 DEF Goto
    <2>2. MadeFollowsPc'
      BY <1>5, <2>1 DEF MadeFollowsPc, FromSdl,
       FromPusher, FromRecorder, FromRecording, FromController,
       FromAoa, FromControlling, FromScreen, FromV4l2, FromVideo, FromTimeout
    <2>3. /\ made \subseteq made' /\ made' \subseteq Parts /\ events' \subseteq Events
          /\ {} \in SUBSET Threads /\ thread' = Run({})
      BY <1>0, <1>1, <1>3, <1>5, <2>1 DEF Parts, Threads, TypeOK
    <2>4. pc \in FromSdl \cup {"server"} /\ pc' \in FromSdl \cup {"end"}
      BY <1>1, <2>1
    <2> QED
      BY <1>1, <1>2, <2>2, <2>3, <2>4, StartKeeps
  <1>6. CASE UNCHANGED <<made, thread, events>> /\ pc' = "exit"
    <2>1. TypeOK'
      BY <1>0, <1>1, <1>6 DEF TypeOK
    <2>2. OptionsFit' /\ NeedsAreMade' /\ MadeFollowsPc'
      BY <1>0, <1>1, <1>6 DEF OptionsFit, NeedsAreMade, MadeFollowsPc, FromSdl,
       FromPusher, FromRecorder, FromRecording, FromController,
       FromAoa, FromControlling, FromScreen, FromV4l2, FromVideo, FromTimeout
    <2>3. EndFollowsStep'
      BY <1>0, <1>1, <1>6 DEF EndFollowsStep, MadeFollowsPc, Destroyable, TypeOK
    <2> QED
      BY <1>0, <1>1, <1>2, <2>1, <2>2, <2>3 DEF IInv
  <1> QED
    BY <1>4, <1>5, <1>6 DEF StartServer

\* A step of the start that starts nothing.
LEMMA NothingStarts ==
    ASSUME IInv, pc \in FromSdl, pc' \in FromSdl \cup {"end"},
           UNCHANGED <<opts, nargs, step, made, gone, thread, stopped, link, crashed>>,
           events' \subseteq Events, ret' \in {"failure", "success", "disconnected"},
           MadeFollowsPc', LocalsFit'
    PROVE  IInv'
  <1>0. TypeOK
    BY DEF IInv
  <1>1. /\ {} \in SUBSET Threads /\ made \subseteq made' /\ made' \subseteq Parts
        /\ \A t \in {} : Needs(t) \subseteq made'
    BY <1>0 DEF TypeOK
  <1>2. thread' = Run({})
    BY <1>0 DEF TypeOK, Run
  <1>3. pc \in FromSdl \cup {"server"}
    OBVIOUS
  <1> QED
    BY <1>1, <1>2, <1>3, StartKeeps

\* The server answers, or the user quits before.
LEMMA AwaitStep ==
    ASSUME IInv, await_for_server
    PROVE  IInv'
  <1>0. TypeOK /\ MadeFollowsPc /\ LocalsFit
    BY DEF IInv
  <1>1. /\ pc = "await" /\ pc' \in {"pusher", "end"} /\ events' \subseteq events
        /\ ret' \in {ret, "success"}
        /\ UNCHANGED <<opts, nargs, step, made, gone, thread, stopped, link, fp, limit,
                       crashed>>
    BY DEF await_for_server, Goto
  <1>2. events' \subseteq Events /\ ret' \in {"failure", "success", "disconnected"}
    BY <1>0, <1>1 DEF TypeOK
  <1>3. MadeFollowsPc'
    BY <1>0, <1>1 DEF MadeFollowsPc, FromSdl,
       FromPusher, FromRecorder, FromRecording, FromController,
       FromAoa, FromControlling, FromScreen, FromV4l2, FromVideo, FromTimeout
  <1>4. LocalsFit'
    BY <1>0, <1>1 DEF LocalsFit
  <1>5. pc \in FromSdl /\ pc' \in FromSdl \cup {"end"}
    BY <1>1 DEF FromSdl,
       FromPusher, FromRecorder, FromRecording, FromController,
       FromAoa, FromControlling, FromScreen, FromV4l2, FromVideo, FromTimeout
  <1> QED
    BY <1>1, <1>2, <1>3, <1>4, <1>5, NothingStarts

\* The time limit is started.
LEMMA StartTimeoutStep ==
    ASSUME IInv, StartTimeout
    PROVE  IInv'
  <1>0. TypeOK /\ MadeFollowsPc /\ LocalsFit
    BY DEF IInv
  <1>1. /\ pc = "timeout"
        /\ UNCHANGED <<opts, nargs, step, gone, stopped, link, fp, limit, ret, crashed>>
    BY DEF StartTimeout
  <1>2. PICK ts \in {{}, {"timeout"}} :
             /\ thread' = Run(ts)
             /\ pc' \in {"app", "deadline", "end"} /\ events' \subseteq events
             /\ made' \in {made, made \cup {"timeout"}}
             /\ ts = {} \/ made' = made \cup {"timeout"}
    <2>1. thread = Run({})
      BY <1>0 DEF TypeOK, Run
    <2> QED
      BY <2>1 DEF StartTimeout, Goto
  <1>3. /\ made \subseteq made' /\ made' \subseteq Parts /\ events' \subseteq Events
        /\ ret' \in {"failure", "success", "disconnected"}
    BY <1>0, <1>1, <1>2 DEF TypeOK, Parts
  <1>4. MadeFollowsPc'
    BY <1>0, <1>1, <1>2 DEF MadeFollowsPc, FromSdl,
       FromPusher, FromRecorder, FromRecording, FromController,
       FromAoa, FromControlling, FromScreen, FromV4l2, FromVideo, FromTimeout
  <1>5. LocalsFit'
    BY <1>0, <1>1 DEF LocalsFit
  <1>6. \A t \in ts : Needs(t) \subseteq made'
    BY <1>2 DEF Needs
  <1>7. /\ pc \in FromSdl \cup {"server"} /\ pc' \in FromSdl \cup {"end"}
        /\ ts \in SUBSET Threads /\ thread' = Run(ts)
    BY <1>1, <1>2 DEF Threads, FromSdl,
       FromPusher, FromRecorder, FromRecording, FromController,
       FromAoa, FromControlling, FromScreen, FromV4l2, FromVideo, FromTimeout
  <1> QED
    BY <1>1, <1>3, <1>4, <1>5, <1>6, <1>7, StartKeeps

\* The deadline is set after the thread is started.
LEMMA SetDeadlineStep ==
    ASSUME IInv, SetDeadline
    PROVE  IInv'
  <1>0. TypeOK /\ MadeFollowsPc /\ LocalsFit
    BY DEF IInv
  <1>1. /\ pc = "deadline" /\ pc' = "app" /\ events' = events
        /\ limit' = [limit EXCEPT !.set = TRUE]
        /\ UNCHANGED <<opts, nargs, step, made, gone, thread, stopped, link, fp, ret,
                       crashed>>
    BY DEF SetDeadline, Goto
  <1>2. events' \subseteq Events /\ ret' \in {"failure", "success", "disconnected"}
    BY <1>0, <1>1 DEF TypeOK
  <1>3. MadeFollowsPc'
    BY <1>0, <1>1 DEF MadeFollowsPc, FromSdl,
       FromPusher, FromRecorder, FromRecording, FromController,
       FromAoa, FromControlling, FromScreen, FromV4l2, FromVideo, FromTimeout
  <1>4. LocalsFit'
    BY <1>0, <1>1 DEF LocalsFit
  <1>5. pc \in FromSdl /\ pc' \in FromSdl \cup {"end"}
    BY <1>1 DEF FromSdl,
       FromPusher, FromRecorder, FromRecording, FromController,
       FromAoa, FromControlling, FromScreen, FromV4l2, FromVideo, FromTimeout
  <1> QED
    BY <1>1, <1>2, <1>3, <1>4, <1>5, NothingStarts

\* The event loop ends.
LEMMA EventLoopStep ==
    ASSUME IInv, event_loop
    PROVE  IInv'
  <1>0. TypeOK /\ MadeFollowsPc /\ LocalsFit
    BY DEF IInv
  <1>1. /\ pc = "loop" /\ pc' = "end" /\ events' = {}
        /\ \E e \in events \ {"connected", "failed"} : ret' = Result(e)
        /\ UNCHANGED <<opts, nargs, step, made, gone, thread, stopped, link, fp, limit,
                       crashed>>
    BY DEF event_loop, Goto
  <1>2. events' \subseteq Events /\ ret' \in {"failure", "success", "disconnected"}
    BY <1>1 DEF Result
  <1>3. MadeFollowsPc'
    BY <1>0, <1>1 DEF MadeFollowsPc, FromSdl,
       FromPusher, FromRecorder, FromRecording, FromController,
       FromAoa, FromControlling, FromScreen, FromV4l2, FromVideo, FromTimeout
  <1>4. LocalsFit'
    BY <1>0, <1>1 DEF LocalsFit
  <1>5. pc \in FromSdl /\ pc' \in FromSdl \cup {"end"}
    BY <1>1 DEF FromSdl,
       FromPusher, FromRecorder, FromRecording, FromController,
       FromAoa, FromControlling, FromScreen, FromV4l2, FromVideo, FromTimeout
  <1> QED
    BY <1>1, <1>2, <1>3, <1>4, <1>5, NothingStarts

\* A file is dropped: its thread may be started.
LEMMA ProcessFileStep ==
    ASSUME IInv, process_file
    PROVE  IInv'
  <1>0. TypeOK /\ MadeFollowsPc /\ LocalsFit
    BY DEF IInv
  <1>1. /\ pc = "loop" /\ opts.window /\ opts.control /\ fp.dropped < MaxFiles
        /\ UNCHANGED <<opts, nargs, pc, step, made, gone, stopped, link, events, limit,
                       ret, crashed>>
    BY DEF process_file
  <1>2. PICK ts \in {{}, {"pusher"}} :
             /\ thread' = Run(ts)
             /\ \/ fp' = [fp EXCEPT !.queue = @ + 1, !.dropped = @ + 1]
                \/ fp' = [fp EXCEPT !.dropped = @ + 1]
    <2>1. thread = Run({})
      BY <1>0 DEF TypeOK, Run
    <2> QED
      BY <2>1 DEF process_file, sc_file_pusher_request
  <1>3. /\ made \subseteq made' /\ made' \subseteq Parts /\ events' \subseteq Events
        /\ ret' \in {"failure", "success", "disconnected"}
    BY <1>0, <1>1 DEF TypeOK
  <1>4. MadeFollowsPc'
    BY <1>0, <1>1 DEF MadeFollowsPc, FromSdl,
       FromPusher, FromRecorder, FromRecording, FromController,
       FromAoa, FromControlling, FromScreen, FromV4l2, FromVideo, FromTimeout
  <1>5. LocalsFit'
    <2>1. /\ fp \in [queue : Nat, dropped : 0 .. MaxFiles, busy : {None, "adb", "scan"}]
          /\ fp.queue <= fp.dropped /\ fp.dropped + 1 \in 0 .. MaxFiles
          /\ fp.queue \in Nat /\ fp.dropped \in Nat
      BY <1>0, <1>1, BoundAssumption DEF LocalsFit
    <2>2. /\ fp' \in [queue : Nat, dropped : 0 .. MaxFiles, busy : {None, "adb", "scan"}]
          /\ fp'.queue <= fp'.dropped
      <3>1. CASE fp' = [fp EXCEPT !.queue = @ + 1, !.dropped = @ + 1]
        <4> DEFINE q == fp.queue + 1
                   d == fp.dropped + 1
        <4>1. fp' = [fp EXCEPT !.queue = q, !.dropped = d]
          BY <2>1, <3>1
        <4>2. q \in Nat /\ d \in 0 .. MaxFiles /\ q <= d
          BY <2>1
        <4> HIDE DEF q, d
        <4> QED
          BY ONLY <2>1, <4>1, <4>2
      <3>2. CASE fp' = [fp EXCEPT !.dropped = @ + 1]
        <4>1. fp' = [fp EXCEPT !.dropped = fp.dropped + 1]
          BY <2>1, <3>2
        <4> QED
          BY ONLY <2>1, <4>1
      <3> QED
        BY <1>2, <3>1, <3>2
    <2> QED
      BY <1>0, <1>1, <2>2 DEF LocalsFit
  <1>6. \A t \in ts : Needs(t) \subseteq made'
    BY <1>0, <1>1, <1>2 DEF Needs, MadeFollowsPc, FromSdl,
       FromPusher, FromRecorder, FromRecording, FromController,
       FromAoa, FromControlling, FromScreen, FromV4l2, FromVideo, FromTimeout
  <1>7. /\ pc \in FromSdl \cup {"server"} /\ pc' \in FromSdl \cup {"end"}
        /\ ts \in SUBSET Threads /\ thread' = Run(ts)
    BY <1>1, <1>2 DEF Threads, FromSdl,
       FromPusher, FromRecorder, FromRecording, FromController,
       FromAoa, FromControlling, FromScreen, FromV4l2, FromVideo, FromTimeout
  <1> QED
    BY <1>1, <1>3, <1>4, <1>5, <1>6, <1>7, StartKeeps

-----------------------------------------------------------------------------
(* The steps of the end.                                                    *)

\* A step of the end stops, joins or destroys what the tables say.
LEMMA EndStepStep ==
    ASSUME IInv, EndStep
    PROVE  IInv'
  <1>0. TypeOK /\ ~crashed /\ OptionsFit /\ MadeFollowsPc /\ NeedsAreMade
        /\ EndFollowsStep /\ LocalsFit
    BY DEF IInv
  <1> DEFINE do == EndSteps[step][1]
             x == EndSteps[step][2]
  <1>1. /\ pc = "end" /\ (do = "join" => thread[x] \in {"off", "ended"})
        /\ stopped' = (IF do = "stop" /\ thread[x] # "off" THEN stopped \cup {x}
                       ELSE stopped)
        /\ thread' = (IF do = "join" /\ thread[x] = "ended"
                      THEN [thread EXCEPT ![x] = "joined"] ELSE thread)
        /\ gone' = (IF do = "destroy" /\ x \in Destroyable THEN gone \cup {x} ELSE gone)
        /\ UNCHANGED <<opts, nargs, made, link, events, fp, limit, ret, crashed>>
    BY DEF EndStep
  <1>2. step \in 1 .. 25
    BY <1>0, EndStepsAre DEF TypeOK
  <1>3. \/ step < 25 /\ step' = step + 1 /\ pc' = "end"
        \/ step = 25 /\ step' = 1 /\ pc' = "exit"
    <2>1. Len(EndSteps) = 25
      BY EndStepsAre
    <2> QED
      BY <1>1, <1>2, <2>1 DEF EndStep
  <1>4. /\ do = "stop" => x \in Threads
        /\ do = "join" => x \in Threads
        /\ \A t \in Threads : JoinAt[t] = step <=> do = "join" /\ x = t
        /\ \A p \in Parts : DestroyAt[p] = step <=> do = "destroy" /\ x = p
    BY <1>2, EndStepsAre
  <1> HIDE DEF do, x
  <1>5. /\ gone \subseteq made /\ made \subseteq Parts
        /\ thread \in [Threads -> {"off", "run", "ended", "joined"}]
    BY <1>0 DEF TypeOK
  <1>a. Destroyable \subseteq made /\ Destroyable' = Destroyable
    BY <1>1 DEF Destroyable
  <1>6. \A p \in Destroyable : p \in gone' <=> DestroyAt[p] < step + 1
    <2> SUFFICES ASSUME NEW p \in Destroyable PROVE p \in gone' <=> DestroyAt[p] < step + 1
      OBVIOUS
    <2>1. p \in Parts /\ DestroyAt[p] \in 9 .. 25
      BY <1>5, <1>a, TablesAre
    <2>2. p \in gone <=> DestroyAt[p] < step
      BY <1>0, <1>1 DEF EndFollowsStep
    <2>3. p \in gone' <=> p \in gone \/ DestroyAt[p] = step
      BY <1>1, <1>4, <2>1
    <2> QED
      BY <1>2, <2>1, <2>2, <2>3
  <1>7. \A t \in Threads : JoinAt[t] < step + 1 => thread'[t] \in {"off", "joined"}
    <2> SUFFICES ASSUME NEW t \in Threads, JoinAt[t] < step + 1
                 PROVE  thread'[t] \in {"off", "joined"}
      OBVIOUS
    <2>1. JoinAt[t] \in 8 .. 24
      BY TablesAre
    <2>2. CASE JoinAt[t] = step
      <3>1. do = "join" /\ x = t
        BY <1>4, <2>2
      <3> QED
        BY <1>1, <1>5, <3>1
    <2>3. CASE JoinAt[t] < step
      <3>1. thread[t] \in {"off", "joined"}
        BY <1>0, <1>1, <2>3 DEF EndFollowsStep
      <3> QED
        BY <1>1, <1>5, <3>1
    <2> QED
      BY <1>2, <2>1, <2>2, <2>3
  <1>8. gone' \subseteq Destroyable /\ gone' \subseteq made
    BY <1>0, <1>1, <1>a DEF EndFollowsStep
  <1>9. TypeOK'
    <2>1. stopped' \subseteq Threads
      BY <1>0, <1>1, <1>4 DEF TypeOK
    <2>2. thread' \in [Threads -> {"off", "run", "ended", "joined"}]
      BY <1>1, <1>4, <1>5
    <2>3. step' \in DOMAIN EndSteps
      <3>1. step' \in 1 .. 25
        BY <1>2, <1>3
      <3> QED
        BY <3>1, EndStepsAre
    <2>4. pc' \in {"end", "exit"}
      BY <1>3
    <2> QED
      BY <1>0, <1>1, <1>8, <2>1, <2>2, <2>3, <2>4 DEF TypeOK
  <1>10. OptionsFit' /\ LocalsFit'
    BY <1>0, <1>1, <1>3 DEF OptionsFit, LocalsFit
  <1>11. MadeFollowsPc'
    BY <1>0, <1>1, <1>3 DEF MadeFollowsPc, FromSdl,
       FromPusher, FromRecorder, FromRecording, FromController,
       FromAoa, FromControlling, FromScreen, FromV4l2, FromVideo, FromTimeout
  <1>12. NeedsAreMade'
    <2> SUFFICES ASSUME NEW t \in Threads, thread'[t] = "run"
                 PROVE  Needs(t)' \subseteq made'
      BY DEF NeedsAreMade
    <2>1. thread[t] = "run"
      BY <1>1, <1>5
    <2>2. Needs(t)' = Needs(t)
      BY <1>1 DEF Needs
    <2> QED
      BY <1>0, <1>1, <2>1, <2>2 DEF NeedsAreMade
  <1>13. EndFollowsStep'
    <2>1. CASE step < 25 /\ step' = step + 1 /\ pc' = "end"
      BY <1>1, <1>6, <1>7, <1>8, <1>a, <2>1 DEF EndFollowsStep
    <2>2. CASE step = 25 /\ step' = 1 /\ pc' = "exit"
      <3>1. \A p \in Destroyable : p \in gone'
        <4>1. \A p \in Destroyable : DestroyAt[p] < step + 1
          BY <1>5, <1>a, <2>2, TablesAre
        <4> QED
          BY <1>6, <4>1
      <3>2. \A t \in Threads : thread'[t] \in {"off", "joined"}
        <4>1. \A t \in Threads : JoinAt[t] < step + 1
          BY <2>2, TablesAre
        <4> QED
          BY <1>7, <4>1
      <3>3. gone' = Destroyable'
        BY <1>8, <1>a, <3>1
      <3> QED
        BY <2>2, <3>2, <3>3 DEF EndFollowsStep
    <2> QED
      BY <1>3, <2>1, <2>2
  <1> QED
    BY <1>0, <1>1, <1>9, <1>10, <1>11, <1>12, <1>13 DEF IInv

-----------------------------------------------------------------------------
(* The steps of the threads.                                                *)

\* A step of a thread: it may end, and leave events.
LEMMA ThreadKeeps ==
    ASSUME IInv, UNCHANGED <<opts, nargs, pc, step, made, gone, stopped, ret>>,
           events' \subseteq Events, link' \in {"connecting", "up", "down"},
           ~crashed', crashed' \in BOOLEAN, LocalsFit',
           \/ thread' = thread
           \/ \E t \in Threads : Running(t) /\ thread' = [thread EXCEPT ![t] = "ended"]
    PROVE  IInv'
  <1>0. TypeOK /\ OptionsFit /\ MadeFollowsPc /\ NeedsAreMade /\ EndFollowsStep
    BY DEF IInv
  <1>1. thread \in [Threads -> {"off", "run", "ended", "joined"}]
    BY <1>0 DEF TypeOK
  <1>2. /\ thread' \in [Threads -> {"off", "run", "ended", "joined"}]
        /\ \A t \in Threads : \/ thread'[t] = thread[t]
                              \/ thread[t] = "run" /\ thread'[t] = "ended"
    BY <1>1 DEF Running
  <1>3. TypeOK'
    <2>1. /\ limit'.saw \in {None, "deadline", "garbage"}
          /\ fp'.queue \in 0 .. MaxFiles /\ fp'.busy \in {None, "adb", "scan"}
      BY LocalTypes
    <2> QED
      BY <1>0, <1>2, <2>1 DEF TypeOK
  <1>4. OptionsFit'
    BY <1>0 DEF OptionsFit
  <1>5. MadeFollowsPc'
    <2>1. pc \in {"args", "parsed", "server"} => \A t \in Threads : thread'[t] = "off"
      BY <1>0, <1>2 DEF MadeFollowsPc
    <2> QED
      BY <1>0, <2>1 DEF MadeFollowsPc
  <1>6. NeedsAreMade'
    <2> SUFFICES ASSUME NEW t \in Threads, thread'[t] = "run"
                 PROVE  Needs(t)' \subseteq made'
      BY DEF NeedsAreMade
    <2>1. thread[t] = "run"
      BY <1>2
    <2>2. Needs(t)' = Needs(t)
      BY DEF Needs
    <2> QED
      BY <1>0, <2>1, <2>2 DEF NeedsAreMade
  <1>7. EndFollowsStep'
    <2>1. pc \notin {"end", "exit"} => \A t \in Threads : thread'[t] # "joined"
      BY <1>0, <1>2 DEF EndFollowsStep
    <2>2. pc = "end" => \A t \in Threads :
                          JoinAt[t] < step => thread'[t] \in {"off", "joined"}
      BY <1>0, <1>2 DEF EndFollowsStep
    <2>3. pc = "exit" => \A t \in Threads : thread'[t] \in {"off", "joined"}
      BY <1>0, <1>2 DEF EndFollowsStep
    <2>4. Destroyable' = Destroyable
      BY DEF Destroyable
    <2> QED
      BY <1>0, <2>1, <2>2, <2>3, <2>4 DEF EndFollowsStep
  <1> QED
    BY <1>3, <1>4, <1>5, <1>6, <1>7 DEF IInv

\* A thread ends with an event.
LEMMA EndsKeeps ==
    ASSUME IInv, NEW t \in Threads, NEW e \in SUBSET Events, Ends(t, e),
           link' \in {"connecting", "up", "down"}, ~crashed', crashed' \in BOOLEAN
    PROVE  IInv'
  <1>0. TypeOK /\ LocalsFit
    BY DEF IInv
  <1>1. /\ Running(t) /\ thread' = [thread EXCEPT ![t] = "ended"]
        /\ UNCHANGED <<opts, nargs, pc, step, made, gone, stopped, fp, limit, ret>>
        /\ events' \subseteq events \cup e
    BY DEF Ends, Post
  <1>2. events' \subseteq Events
    BY <1>0, <1>1 DEF TypeOK
  <1>3. LocalsFit'
    BY <1>0, <1>1 DEF LocalsFit
  <1> QED
    BY <1>1, <1>2, <1>3, ThreadKeeps

\* A thread goes on, with an event.
LEMMA PostKeeps ==
    ASSUME IInv, NEW e \in SUBSET Events, Post(e) \/ events' = events,
           UNCHANGED <<opts, nargs, pc, step, made, gone, thread, stopped, fp, limit,
                       ret, crashed>>,
           link' \in {"connecting", "up", "down"}
    PROVE  IInv'
  <1>0. TypeOK /\ LocalsFit /\ ~crashed
    BY DEF IInv
  <1>1. events' \subseteq Events
    BY <1>0 DEF Post, TypeOK
  <1>2. LocalsFit'
    BY <1>0 DEF LocalsFit
  <1>3. crashed' \in BOOLEAN /\ ~crashed'
    BY <1>0 DEF TypeOK
  <1> QED
    BY <1>1, <1>2, <1>3, ThreadKeeps

\* The server, the streams, the device, and the user.
LEMMA DeviceSteps ==
    ASSUME IInv,
           \/ ServerConnects \/ ServerFails \/ ServerEnds \/ DeviceGone
           \/ VideoEnds \/ AudioEnds \/ ReceiverEnds \/ AudioDisabled
           \/ \E t \in Threads : ThreadFails(t) \/ StoppedEnds(t)
           \/ AoaOpenError \/ UserQuits
    PROVE  IInv'
  <1>0. ~crashed /\ crashed \in BOOLEAN /\ link \in {"connecting", "up", "down"}
    BY DEF IInv, TypeOK
  <1>a. /\ {"connected"} \in SUBSET Events /\ {"failed"} \in SUBSET Events
        /\ {"disconnected"} \in SUBSET Events /\ {"error"} \in SUBSET Events
        /\ {"quit"} \in SUBSET Events /\ {} \in SUBSET Events
    BY DEF Events
  <1>b. /\ "server" \in Threads /\ "video" \in Threads /\ "audio" \in Threads
        /\ "receiver" \in Threads
    BY DEF Threads
  <1>1. CASE ServerConnects
    <2>1. CASE opts.list
      <3>1. Ends("server", {"connected"}) /\ link' = "down" /\ crashed' = crashed
        BY <1>1, <2>1 DEF ServerConnects
      <3> QED
        BY <1>0, <1>a, <1>b, <3>1, EndsKeeps
    <2>2. CASE ~opts.list
      <3>1. /\ link' = "up" /\ Post({"connected"})
            /\ UNCHANGED <<opts, nargs, pc, step, made, gone, thread, stopped, fp, limit,
                           ret, crashed>>
        BY <1>1, <2>2 DEF ServerConnects
      <3> QED
        BY <1>a, <3>1, PostKeeps
    <2> QED
      BY <2>1, <2>2
  <1>2. CASE ServerFails
    BY <1>0, <1>2, <1>a, <1>b, EndsKeeps DEF ServerFails
  <1>3. CASE ServerEnds
    BY <1>0, <1>3, <1>a, <1>b, EndsKeeps DEF ServerEnds
  <1>4. CASE DeviceGone
    BY <1>0, <1>4, <1>a, PostKeeps DEF DeviceGone
  <1>5. CASE VideoEnds
    BY <1>0, <1>5, <1>a, <1>b, EndsKeeps DEF VideoEnds
  <1>6. CASE AudioEnds
    BY <1>0, <1>6, <1>a, <1>b, EndsKeeps DEF AudioEnds
  <1>7. CASE ReceiverEnds
    BY <1>0, <1>7, <1>a, <1>b, EndsKeeps DEF ReceiverEnds
  <1>8. CASE AudioDisabled
    <2>1. PICK e \in {{}, {"error"}} : Ends("audio", e) /\ UNCHANGED <<link, crashed>>
      BY <1>8 DEF AudioDisabled
    <2> QED
      BY <1>0, <1>a, <1>b, <2>1, EndsKeeps
  <1>9. ASSUME NEW t \in Threads, ThreadFails(t) PROVE IInv'
    BY <1>0, <1>9, <1>a, EndsKeeps DEF ThreadFails
  <1>10. ASSUME NEW t \in Threads, StoppedEnds(t) PROVE IInv'
    <2>1. PICK e \in {{}, {"disconnected"}} : Ends(t, e) /\ UNCHANGED <<link, crashed>>
      BY <1>10 DEF StoppedEnds
    <2> QED
      BY <1>0, <1>a, <2>1, EndsKeeps
  <1>11. CASE AoaOpenError
    BY <1>0, <1>11, <1>a, PostKeeps DEF AoaOpenError
  <1>12. CASE UserQuits
    BY <1>0, <1>12, <1>a, PostKeeps DEF UserQuits
  <1> QED
    BY <1>1, <1>2, <1>3, <1>4, <1>5, <1>6, <1>7, <1>8, <1>9, <1>10, <1>11, <1>12

\* The thread of the file pusher.
LEMMA PusherSteps ==
    ASSUME IInv, PusherTakes \/ PusherRunsAdb \/ request_scan_file \/ PusherEnds
    PROVE  IInv'
  <1>0. TypeOK /\ LocalsFit /\ ~crashed
    BY DEF IInv
  <1>1. CASE PusherEnds
    <2>1. /\ Ends("pusher", {}) /\ UNCHANGED <<link, crashed>>
          /\ {} \in SUBSET Events /\ "pusher" \in Threads
      BY <1>1 DEF PusherEnds, Threads
    <2>2. ~crashed' /\ crashed' \in BOOLEAN /\ link' \in {"connecting", "up", "down"}
      BY <1>0, <2>1 DEF TypeOK
    <2> QED
      BY <2>1, <2>2, EndsKeeps
  <1>2. CASE PusherTakes \/ PusherRunsAdb \/ request_scan_file
    <2>1. /\ fp \in [queue : Nat, dropped : 0 .. MaxFiles, busy : {None, "adb", "scan"}]
          /\ fp.queue <= fp.dropped /\ fp.queue \in Nat /\ fp.dropped \in Nat
      BY <1>0, BoundAssumption DEF LocalsFit
    <2>2. /\ fp' \in [queue : Nat, dropped : 0 .. MaxFiles, busy : {None, "adb", "scan"}]
          /\ fp'.queue <= fp'.dropped
      <3>1. CASE PusherTakes
        <4> DEFINE q == fp.queue - 1
        <4>1. fp.queue > 0 /\ fp' = [fp EXCEPT !.queue = q, !.busy = "adb"]
          BY <2>1, <3>1 DEF PusherTakes, Pusher
        <4>2. q \in Nat /\ q <= fp.dropped
          BY <2>1, <4>1
        <4> HIDE DEF q
        <4> QED
          BY ONLY <2>1, <4>1, <4>2
      <3>2. CASE PusherRunsAdb \/ request_scan_file
        <4>1. PICK next \in {"scan", None} : fp' = [fp EXCEPT !.busy = next]
          BY <3>2 DEF PusherRunsAdb, request_scan_file, Pusher
        <4> QED
          BY ONLY <2>1, <4>1
      <3> QED
        BY <1>2, <3>1, <3>2
    <2>3. UNCHANGED <<opts, nargs, pc, step, made, gone, thread, stopped, link, events,
                      limit, ret, crashed>>
      BY <1>2 DEF PusherTakes, PusherRunsAdb, request_scan_file, Pusher
    <2>4. LocalsFit'
      BY <1>0, <2>2, <2>3 DEF LocalsFit
    <2>5. /\ events' \subseteq Events /\ link' \in {"connecting", "up", "down"}
          /\ ~crashed' /\ crashed' \in BOOLEAN
      BY <1>0, <2>3 DEF TypeOK
    <2> QED
      BY <2>3, <2>4, <2>5, ThreadKeeps
  <1> QED
    BY <1>1, <1>2

\* The thread of the time limit, if it does not overtake the main thread.
LEMMA TimeoutSteps ==
    ASSUME PromptTimeout, IInv, TimeoutReads \/ TimeoutFires
    PROVE  IInv'
  <1>0. TypeOK /\ LocalsFit /\ ~crashed
    BY DEF IInv
  <1>1. CASE TimeoutReads
    <2>1. /\ limit.set /\ limit' = [limit EXCEPT !.saw = "deadline"]
          /\ UNCHANGED <<opts, nargs, pc, step, made, gone, thread, stopped, link, events,
                         fp, ret, crashed>>
      BY <1>1 DEF TimeoutReads
    <2>2. LocalsFit'
      BY <1>0, <2>1 DEF LocalsFit
    <2>3. /\ events' \subseteq Events /\ link' \in {"connecting", "up", "down"}
          /\ ~crashed' /\ crashed' \in BOOLEAN
      BY <1>0, <2>1 DEF TypeOK
    <2> QED
      BY <2>1, <2>2, <2>3, ThreadKeeps
  <1>2. CASE TimeoutFires
    <2>1. /\ Ends("timeout", {"time"}) /\ crashed' = (crashed \/ ~limit.set)
          /\ link' = link /\ limit.saw # None
      BY <1>2 DEF TimeoutFires
    <2>2. limit.set
      BY <1>0, <2>1 DEF LocalsFit
    <2>3. ~crashed' /\ crashed' \in BOOLEAN
      BY <1>0, <2>1, <2>2
    <2>4. /\ {"time"} \in SUBSET Events /\ "timeout" \in Threads
          /\ link' \in {"connecting", "up", "down"}
      BY <1>0, <2>1 DEF TypeOK, Events, Threads
    <2> QED
      BY <2>1, <2>3, <2>4, EndsKeeps
  <1> QED
    BY <1>1, <1>2

-----------------------------------------------------------------------------
(* The command line: one argument.                                          *)

\* The options have the fields that decide.
LEMMA FieldsAre ==
    /\ "ok" \in Fields /\ Deciding \subseteq Fields
  BY SMT DEF Fields, scrcpy_options_default, Deciding

\* The defaults are typed.
LEMMA DefaultsAreTyped == Typed(scrcpy_options_default)
  BY SMT DEF Typed, scrcpy_options_default, Keyboards, Mice, Gamepads, VideoSources,
     Orientations, RecordFormats, BufferingTime, ScreenOffTimeout, MaxInt31, ShortcutMods,
     KeyInjectModes

\* Only the fields that decide matter.
LEMMA SameFields ==
    ASSUME NEW o, NEW q, Typed(o), \A f \in Deciding : q[f] = o[f]
    PROVE  Typed(q)
  BY DEF Typed, Deciding

\* The cases that only assign set a field that decides to "uhid_or_aoa" only.
LEMMA CasesOnlySelectInputs ==
    /\ \A name \in DOMAIN CasesToStayAwake :
         /\ "ok" \notin DOMAIN CasesToStayAwake[name]
         /\ \A f \in Deciding \cap DOMAIN CasesToStayAwake[name] :
              f \in InputModes /\ CasesToStayAwake[name][f] = "uhid_or_aoa"
    /\ \A name \in DOMAIN CasesToPrintFps :
         /\ "ok" \notin DOMAIN CasesToPrintFps[name]
         /\ Deciding \cap DOMAIN CasesToPrintFps[name] = {}
    /\ \A name \in DOMAIN CasesToTheLast :
         /\ "ok" \notin DOMAIN CasesToTheLast[name]
         /\ \A f \in Deciding \cap DOMAIN CasesToTheLast[name] :
              f \in InputModes /\ CasesToTheLast[name][f] = "uhid_or_aoa"
  <1>1. \A name \in DOMAIN CasesToStayAwake :
         /\ "ok" \notin DOMAIN CasesToStayAwake[name]
         /\ \A f \in Deciding \cap DOMAIN CasesToStayAwake[name] :
              f \in InputModes /\ CasesToStayAwake[name][f] = "uhid_or_aoa"
    BY DEF CasesToStayAwake, Deciding, InputModes
  <1>2. \A name \in DOMAIN CasesToPrintFps :
         /\ "ok" \notin DOMAIN CasesToPrintFps[name]
         /\ Deciding \cap DOMAIN CasesToPrintFps[name] = {}
    BY DEF CasesToPrintFps, Deciding
  <1>3. \A name \in DOMAIN CasesToTheLast :
         /\ "ok" \notin DOMAIN CasesToTheLast[name]
         /\ \A f \in Deciding \cap DOMAIN CasesToTheLast[name] :
              f \in InputModes /\ CasesToTheLast[name][f] = "uhid_or_aoa"
    BY DEF CasesToTheLast, Deciding, InputModes
  <1> QED
    BY <1>1, <1>2, <1>3

\* A case that only assigns keeps the options typed.
LEMMA AssignKeeps ==
    ASSUME NEW o, DOMAIN o = Fields, Typed(o), NEW values,
           \A f \in Deciding \cap DOMAIN values :
              f \in InputModes /\ values[f] = "uhid_or_aoa"
    PROVE  DOMAIN Assign(o, values) = Fields /\ Typed(Assign(o, values))
  <1> DEFINE q == Assign(o, values)
  <1>0. DOMAIN q = Fields
    BY DEF Assign
  <1>1. ASSUME NEW f \in Deciding
        PROVE  q[f] = o[f] \/ (f \in InputModes /\ q[f] = "uhid_or_aoa")
    <2>1. f \in DOMAIN o
      BY FieldsAre
    <2>2. q[f] = IF f \in DOMAIN values THEN values[f] ELSE o[f]
      BY <2>1 DEF Assign
    <2> QED
      BY <2>2
  <1> HIDE DEF q
  <1>2. \A f \in Deciding \ InputModes : q[f] = o[f]
    BY <1>1
  <1>3. /\ q.video_source = o.video_source
        /\ q.record_orientation = o.record_orientation
        /\ q.record_format = o.record_format /\ q.audio_buffer = o.audio_buffer
        /\ q.screen_off_timeout = o.screen_off_timeout
        /\ q.port_range = o.port_range /\ q.mouse_bindings = o.mouse_bindings
        /\ q.shortcut_mods = o.shortcut_mods /\ q.key_inject_mode = o.key_inject_mode
    BY <1>2 DEF Deciding, InputModes
  <1>4. \A f \in InputModes : q[f] = o[f] \/ q[f] = "uhid_or_aoa"
    BY <1>1 DEF Deciding, InputModes
  <1>5. /\ q.keyboard_input_mode \in Keyboards \cup {"auto", "uhid_or_aoa"}
        /\ q.mouse_input_mode \in Mice \cup {"auto", "uhid_or_aoa"}
        /\ q.gamepad_input_mode \in Gamepads \cup {"uhid_or_aoa"}
    BY <1>4 DEF Typed, InputModes
  <1>6. Typed(q)
    BY <1>3, <1>5 DEF Typed
  <1> QED
    BY <1>0, <1>6 DEF q

\* An argument that is accepted and suits its field keeps the options typed.
LEMMA ChangeKeeps ==
    ASSUME NEW o, DOMAIN o = Fields, Typed(o), NEW field \in Fields, NEW value,
           Suits(field, value), NEW q, q = [o EXCEPT ![field] = value]
    PROVE  DOMAIN q = Fields /\ Typed(q)
  <1>1. /\ DOMAIN q = Fields /\ q[field] = value
        /\ \A f \in Fields \ {field} : q[f] = o[f]
    OBVIOUS
  <1>2. CASE field \notin Deciding
    <2>1. \A f \in Deciding : q[f] = o[f]
      BY <1>1, <1>2, FieldsAre
    <2> QED
      BY <1>1, <2>1, SameFields
  <1>3. CASE field \in Deciding
    <2>0. \A f \in Deciding \ {field} : q[f] = o[f]
      BY <1>1, FieldsAre
    <2>1. /\ q.keyboard_input_mode \in Keyboards \cup {"auto", "uhid_or_aoa"}
          /\ q.mouse_input_mode \in Mice \cup {"auto", "uhid_or_aoa"}
          /\ q.gamepad_input_mode \in Gamepads \cup {"uhid_or_aoa"}
          /\ q.video_source \in VideoSources
          /\ q.record_orientation \in Orientations
          /\ q.record_format \in RecordFormats \cup {"auto"}
      BY <1>1, <2>0 DEF Suits, Typed, Deciding, Choices
    <2>2. /\ q.audio_buffer \in -1 .. BufferingTime[2]
          /\ q.screen_off_timeout \in -1 .. ScreenOffTimeout[2]
          /\ q.port_range[1] <= q.port_range[2]
          /\ q.shortcut_mods \subseteq ShortcutMods
          /\ q.key_inject_mode \in KeyInjectModes
      BY <1>1, <2>0 DEF Suits, Typed, Deciding
    <2>3. \/ q.mouse_bindings = [pri |-> AllBound("auto"), sec |-> AllBound("auto")]
          \/ \A b \in BoundButtons : /\ q.mouse_bindings.pri[b] \in Bindings
                                     /\ q.mouse_bindings.sec[b] \in Bindings
      BY <1>1, <2>0 DEF Suits, Typed, Deciding
    <2> QED
      BY <1>1, <2>1, <2>2, <2>3 DEF Typed
  <1> QED
    BY <1>2, <1>3

\* One argument keeps the fields, and the options typed unless it is refused.
LEMMA ArgKeeps ==
    ASSUME NEW o, DOMAIN o = Fields, Typed(o), NEW a \in Args, NEW q, q = parse_arg(o, a)
    PROVE  DOMAIN q = Fields /\ (q.ok => Typed(q))
  <1>0. \/ a[1] \in DOMAIN CasesToStayAwake /\ q = Assign(o, CasesToStayAwake[a[1]])
        \/ a[1] \in DOMAIN CasesToPrintFps /\ q = Assign(o, CasesToPrintFps[a[1]])
        \/ a[1] \in DOMAIN CasesToTheLast /\ q = Assign(o, CasesToTheLast[a[1]])
        \/ q = [o EXCEPT !.ok = FALSE]
        \/ q = [[o EXCEPT !.ok = FALSE] EXCEPT !.ok = FALSE]
        \/ /\ a[1] \in DOMAIN Choices /\ a[2] \in Choices[a[1]]
           /\ q = [o EXCEPT ![a[1]] = a[2]]
        \/ /\ a[1] \in DOMAIN Limits /\ parse_integer_arg(a[2], Limits[a[1]])
           /\ q = [o EXCEPT ![a[1]] = a[2]]
        \/ q = [o EXCEPT !.record_filename = a[2]]
        \/ /\ a[2] \in Orientations
           /\ q = [[o EXCEPT !.display_orientation = a[2]]
                       EXCEPT !.record_orientation = a[2]]
        \/ q = [o EXCEPT !.key_inject_mode = "text"]
        \/ q = [o EXCEPT !.key_inject_mode = "raw"]
        \/ /\ a[1] = "port" /\ q = [o EXCEPT !.port_range = parse_port_range(a[2])]
        \/ /\ a[1] = "mouse_bind"
           /\ \A i \in DOMAIN a[2] : parse_mouse_binding_set(a[2][i])
           /\ q = [o EXCEPT !.mouse_bindings = parse_mouse_bindings(a[2])]
        \/ /\ parse_shortcut_mods(a[2]) \subseteq ShortcutMods
           /\ q = [o EXCEPT !.shortcut_mods = parse_shortcut_mods(a[2])]
    <2>1. \/ a[1] \in DOMAIN CasesToStayAwake /\ q = Assign(o, CasesToStayAwake[a[1]])
          \/ a[1] \in DOMAIN CasesToPrintFps /\ q = Assign(o, CasesToPrintFps[a[1]])
          \/ a[1] \in DOMAIN CasesToTheLast /\ q = Assign(o, CasesToTheLast[a[1]])
          \/ a[1] \in DOMAIN Choices /\ q = Set(o, a[1], a[2], a[2] \in Choices[a[1]])
          \/ /\ a[1] \in DOMAIN Limits
             /\ q = Set(o, a[1], a[2], parse_integer_arg(a[2], Limits[a[1]]))
          \/ a[1] = "record" /\ q = Set(o, "record_filename", a[2], TRUE)
          \/ /\ a[1] = "orientation"
             /\ q = Set(Set(o, "display_orientation", a[2], a[2] \in Orientations),
                        "record_orientation", a[2], a[2] \in Orientations)
          \/ /\ a[1] = "prefer_text"
             /\ q = Set(o, "key_inject_mode", "text", o.key_inject_mode = "mixed")
          \/ /\ a[1] = "raw_key_events"
             /\ q = Set(o, "key_inject_mode", "raw", o.key_inject_mode = "mixed")
          \/ /\ a[1] = "port"
             /\ q = Set(o, "port_range", parse_port_range(a[2]),
                        \A i \in DOMAIN a[2] : parse_integer_arg(a[2][i], Port))
          \/ /\ a[1] = "mouse_bind"
             /\ q = Set(o, "mouse_bindings", parse_mouse_bindings(a[2]),
                        \A i \in DOMAIN a[2] : parse_mouse_binding_set(a[2][i]))
          \/ /\ a[1] = "shortcut_mod"
             /\ q = Set(o, "shortcut_mods", parse_shortcut_mods(a[2]),
                        parse_shortcut_mods(a[2]) \subseteq ShortcutMods)
          \/ q = [o EXCEPT !.ok = FALSE]
      <3>1. q = parse_arg(o, a)
        OBVIOUS
      <3> QED
        BY ONLY <3>1, SMTT(60) DEF parse_arg, Set
    <2>2. CASE q = Set(Set(o, "display_orientation", a[2], a[2] \in Orientations),
                       "record_orientation", a[2], a[2] \in Orientations)
      <3>1. CASE a[2] \in Orientations
        BY <2>2, <3>1 DEF Set
      <3>2. CASE a[2] \notin Orientations
        BY <2>2, <3>2 DEF Set
      <3> QED
        BY <3>1, <3>2
    <2> QED
      BY <2>1, <2>2, SMT DEF Set
  <1>1. CASE a[1] \in DOMAIN CasesToStayAwake /\ q = Assign(o, CasesToStayAwake[a[1]])
    BY <1>1, AssignKeeps, CasesOnlySelectInputs
  <1>2. CASE a[1] \in DOMAIN CasesToPrintFps /\ q = Assign(o, CasesToPrintFps[a[1]])
    BY <1>2, AssignKeeps, CasesOnlySelectInputs
  <1>3. CASE a[1] \in DOMAIN CasesToTheLast /\ q = Assign(o, CasesToTheLast[a[1]])
    BY <1>3, AssignKeeps, CasesOnlySelectInputs
  <1>4. CASE \/ q = [o EXCEPT !.ok = FALSE]
             \/ q = [[o EXCEPT !.ok = FALSE] EXCEPT !.ok = FALSE]
    BY <1>4, FieldsAre
  <1>5. CASE /\ a[1] \in DOMAIN Choices /\ a[2] \in Choices[a[1]]
             /\ q = [o EXCEPT ![a[1]] = a[2]]
    <2>1. a[1] \in Fields
      BY <1>5, SMT DEF Choices, Fields, scrcpy_options_default
    <2>2. a[1] \notin {"audio_buffer", "screen_off_timeout", "port_range", "mouse_bindings",
                      "shortcut_mods", "key_inject_mode"}
      BY <1>5 DEF Choices
    <2>3. Suits(a[1], a[2])
      BY <1>5, <2>2 DEF Suits
    <2> QED
      BY <1>5, <2>1, <2>3, ChangeKeeps
  <1>6. CASE /\ a[1] \in DOMAIN Limits /\ parse_integer_arg(a[2], Limits[a[1]])
             /\ q = [o EXCEPT ![a[1]] = a[2]]
    <2>1. a[1] \in Fields
      BY <1>6, SMT DEF Limits, Fields, scrcpy_options_default
    <2>2. /\ a[1] \notin DOMAIN Choices
          /\ a[1] \notin {"port_range", "mouse_bindings", "shortcut_mods", "key_inject_mode"}
      BY <1>6, SMT DEF Limits, Choices
    <2>3. a[1] = "audio_buffer" => a[2] \in -1 .. BufferingTime[2]
      BY <1>6, ArgsAssumption, SMT DEF Limits, parse_integer_arg, BufferingTime
    <2>4. a[1] = "screen_off_timeout" => a[2] \in -1 .. ScreenOffTimeout[2]
      BY <1>6, ArgsAssumption, SMT DEF Limits, parse_integer_arg, ScreenOffTimeout, MaxInt31
    <2>5. Suits(a[1], a[2])
      BY <2>2, <2>3, <2>4 DEF Suits
    <2> QED
      BY <1>6, <2>1, <2>5, ChangeKeeps
  <1>7. ASSUME NEW f \in {"record_filename", "display_orientation", "key_inject_mode",
                         "shortcut_mods"},
               NEW v, f = "display_orientation" => v \in Orientations,
               f = "key_inject_mode" => v \in KeyInjectModes,
               f = "shortcut_mods" => v \subseteq ShortcutMods,
               NEW r, r = [o EXCEPT ![f] = v]
        PROVE  DOMAIN r = Fields /\ Typed(r)
    <2>1. f \in Fields
      BY SMT DEF Fields, scrcpy_options_default
    <2>2. Suits(f, v)
      BY <1>7 DEF Suits, Choices
    <2> QED
      BY <1>7, <2>1, <2>2, ChangeKeeps
  <1>8. CASE \/ q = [o EXCEPT !.record_filename = a[2]]
             \/ q = [o EXCEPT !.key_inject_mode = "text"]
             \/ q = [o EXCEPT !.key_inject_mode = "raw"]
             \/ /\ parse_shortcut_mods(a[2]) \subseteq ShortcutMods
                /\ q = [o EXCEPT !.shortcut_mods = parse_shortcut_mods(a[2])]
    BY <1>7, <1>8 DEF KeyInjectModes
  <1>9. CASE /\ a[2] \in Orientations
             /\ q = [[o EXCEPT !.display_orientation = a[2]]
                         EXCEPT !.record_orientation = a[2]]
    <2> DEFINE r == [o EXCEPT !.display_orientation = a[2]]
    <2>1. DOMAIN r = Fields /\ Typed(r)
      BY <1>7, <1>9
    <2>2. Suits("record_orientation", a[2])
      BY <1>9 DEF Suits, Choices
    <2>3. "record_orientation" \in Fields
      BY FieldsAre DEF Deciding
    <2>4. q = [r EXCEPT !["record_orientation"] = a[2]]
      BY <1>9
    <2> HIDE DEF r
    <2> QED
      BY <2>1, <2>2, <2>3, <2>4, ChangeKeeps
  <1>10. CASE a[1] = "port" /\ q = [o EXCEPT !.port_range = parse_port_range(a[2])]
    <2>1. {1, Len(a[2])} \subseteq DOMAIN a[2] /\ \A i \in DOMAIN a[2] : a[2][i] \in Int
      BY <1>10, ArgsAssumption
    <2>2. a[2][1] \in Int /\ a[2][Len(a[2])] \in Int
      BY <2>1
    <2>3. parse_port_range(a[2])[1] <= parse_port_range(a[2])[2]
      BY <2>2 DEF parse_port_range
    <2>4. Suits("port_range", parse_port_range(a[2])) /\ "port_range" \in Fields
      BY <2>3, FieldsAre DEF Suits, Choices, Deciding
    <2> QED
      BY <1>10, <2>4, ChangeKeeps
  <1>11. CASE /\ a[1] = "mouse_bind"
              /\ \A i \in DOMAIN a[2] : parse_mouse_binding_set(a[2][i])
              /\ q = [o EXCEPT !.mouse_bindings = parse_mouse_bindings(a[2])]
    <2>1. {1, Len(a[2])} \subseteq DOMAIN a[2]
      BY <1>11, ArgsAssumption
    <2>2. /\ parse_mouse_binding_set(a[2][1])
          /\ parse_mouse_binding_set(a[2][Len(a[2])])
      BY <1>11, <2>1
    <2>3. \A b \in BoundButtons : /\ parse_mouse_bindings(a[2]).pri[b] \in Bindings
                                  /\ parse_mouse_bindings(a[2]).sec[b] \in Bindings
      BY <2>2 DEF parse_mouse_bindings, parse_mouse_binding_set
    <2>4. Suits("mouse_bindings", parse_mouse_bindings(a[2])) /\ "mouse_bindings" \in Fields
      BY <2>3, FieldsAre DEF Suits, Choices, Deciding
    <2> QED
      BY <1>11, <2>4, ChangeKeeps
  <1> QED
    BY <1>0, <1>1, <1>2, <1>3, <1>4, <1>5, <1>6, <1>8, <1>9, <1>10, <1>11

-----------------------------------------------------------------------------
(* The command line: the options are completed.                             *)

\* The fields that this is about, and those of them that never change.
Kept == {"control", "window", "otg", "record_filename", "v4l2_device", "video_source",
         "record_orientation", "screen_off_timeout", "port_range", "flex_display",
         "shortcut_mods", "key_inject_mode"}
Completed == {"video", "audio", "video_playback", "audio_playback", "power_on",
              "require_audio", "audio_buffer", "downsize_on_error", "keyboard_input_mode",
              "mouse_input_mode", "gamepad_input_mode", "mouse_bindings", "render_fit",
              "force_adb_forward", "window_aspect_ratio_lock", "audio_source",
              "record_format", "start_fps_counter", "ok"}

\* They are fields of the options.
LEMMA CompletedAreFields ==
    Kept \subseteq Fields /\ Completed \subseteq Fields
  BY SMT DEF Kept, Completed, Fields, scrcpy_options_default

\* What is neither played nor recorded is not captured.
LEMMA DisableUnused ==
    ASSUME NEW o, DOMAIN o = Fields, NEW q, q = disable_unused(o)
    PROVE  /\ DOMAIN q = Fields
           /\ \A f \in Fields \ {"video_playback", "audio_playback", "power_on", "video", "audio"} :
                 q[f] = o[f]
           /\ q.video_playback <=> o.video_playback /\ o.window /\ o.video
           /\ q.video_playback => q.video
           /\ q.audio_playback => q.audio
  <1>1. {"video_playback", "audio_playback", "power_on", "video", "audio"} \subseteq Fields
    BY CompletedAreFields DEF Completed
  <1>2. DOMAIN q = Fields
    BY DEF disable_unused
  <1>3. \A f \in Fields \ {"video_playback", "audio_playback", "power_on", "video", "audio"} :
           q[f] = o[f]
    BY DEF disable_unused
  <1>4. q.video_playback <=> o.video_playback /\ o.window /\ o.video
    BY <1>1 DEF disable_unused
  <1>5. q.video_playback => q.video
    BY <1>1 DEF disable_unused
  <1>6. q.audio_playback => q.audio
    BY <1>1 DEF disable_unused
  <1> QED
    BY <1>2, <1>3, <1>4, <1>5, <1>6

\* Audio that is alone is required, and it has a buffer.
LEMMA CompleteAudio ==
    ASSUME NEW o, DOMAIN o = Fields, NEW q, q = complete_audio(o)
    PROVE  /\ DOMAIN q = Fields
           /\ \A f \in Fields \ {"require_audio", "audio_buffer", "downsize_on_error"} :
                 q[f] = o[f]
           /\ ~o.video /\ ~o.otg => q.require_audio
           /\ q.audio_buffer = o.audio_buffer \/ q.audio_buffer \in {50, 120}
           /\ o.audio_playback => q.audio_buffer # -1
  <1>1. {"require_audio", "audio_buffer", "downsize_on_error"} \subseteq Fields
    BY CompletedAreFields DEF Completed
  <1>2. DOMAIN q = Fields
    BY DEF complete_audio
  <1>3. \A f \in Fields \ {"require_audio", "audio_buffer", "downsize_on_error"} :
           q[f] = o[f]
    BY DEF complete_audio
  <1>4. ~o.video /\ ~o.otg => q.require_audio
    BY <1>1 DEF complete_audio
  <1>5. q.audio_buffer = o.audio_buffer \/ q.audio_buffer \in {50, 120}
    BY <1>1 DEF complete_audio
  <1>6. o.audio_playback => q.audio_buffer # -1
    BY <1>1 DEF complete_audio
  <1> QED
    BY <1>2, <1>3, <1>4, <1>5, <1>6

\* The input modes that depend on the others are decided for a display.
LEMMA SelectInputs ==
    ASSUME NEW o, DOMAIN o = Fields, NEW q, q = select_inputs(o)
    PROVE  /\ DOMAIN q = Fields
           /\ \A f \in Fields \ {"keyboard_input_mode",
                          "mouse_input_mode",
                          "gamepad_input_mode"} :
                 q[f] = o[f]
           /\ ~(o.control /\ o.video_source = "display") =>
             q.mouse_input_mode = o.mouse_input_mode
           /\ o.control /\ o.video_source = "display" =>
             q.keyboard_input_mode \in {o.keyboard_input_mode, "aoa", "sdk", "uhid"}
               \ {"auto", "uhid_or_aoa"}
           /\ o.control /\ o.video_source = "display" =>
             q.mouse_input_mode \in {o.mouse_input_mode, "aoa", "sdk", "uhid", "disabled"}
               \ {"auto", "uhid_or_aoa"}
           /\ o.control /\ o.video_source = "display" =>
             q.gamepad_input_mode \in {o.gamepad_input_mode, "aoa", "uhid"} \ {"uhid_or_aoa"}
           /\ o.control /\ o.video_source = "display" /\ q.mouse_input_mode = "sdk" =>
             o.mouse_input_mode = "sdk" \/ o.video_playback
  <1>1. {"keyboard_input_mode",
                          "mouse_input_mode",
                          "gamepad_input_mode"} \subseteq Fields
    BY CompletedAreFields DEF Completed
  <1>2. DOMAIN q = Fields
    BY DEF select_inputs
  <1>3. \A f \in Fields \ {"keyboard_input_mode",
                          "mouse_input_mode",
                          "gamepad_input_mode"} :
           q[f] = o[f]
    BY DEF select_inputs
  <1>4. ~(o.control /\ o.video_source = "display") =>
    q.mouse_input_mode = o.mouse_input_mode
    BY <1>1 DEF select_inputs
  <1>5. o.control /\ o.video_source = "display" =>
    q.keyboard_input_mode \in {o.keyboard_input_mode, "aoa", "sdk", "uhid"}
      \ {"auto", "uhid_or_aoa"}
    BY <1>1 DEF select_inputs
  <1>6. o.control /\ o.video_source = "display" =>
    q.mouse_input_mode \in {o.mouse_input_mode, "aoa", "sdk", "uhid", "disabled"}
      \ {"auto", "uhid_or_aoa"}
    BY <1>1 DEF select_inputs
  <1>7. o.control /\ o.video_source = "display" =>
    q.gamepad_input_mode \in {o.gamepad_input_mode, "aoa", "uhid"} \ {"uhid_or_aoa"}
    BY <1>1 DEF select_inputs
  <1>8. o.control /\ o.video_source = "display" /\ q.mouse_input_mode = "sdk" =>
    o.mouse_input_mode = "sdk" \/ o.video_playback
    BY <1>1 DEF select_inputs
  <1> QED
    BY <1>2, <1>3, <1>4, <1>5, <1>6, <1>7, <1>8

\* The bindings are those of the arguments, or the defaults.
LEMMA SelectBindings ==
    ASSUME NEW o, DOMAIN o = Fields, NEW q, q = select_bindings(o)
    PROVE  /\ DOMAIN q = Fields
           /\ \A f \in Fields \ {"mouse_bindings"} :
                 q[f] = o[f]
           /\ o.mouse_bindings.pri.right # "auto" => q.mouse_bindings = o.mouse_bindings
           /\ o.mouse_bindings.pri.right = "auto" =>
             \A b \in BoundButtons : /\ q.mouse_bindings.pri[b] # "auto"
                                     /\ q.mouse_bindings.sec[b] # "auto"
  <1>1. {"mouse_bindings"} \subseteq Fields
    BY CompletedAreFields DEF Completed
  <1>2. DOMAIN q = Fields
    BY DEF select_bindings
  <1>3. \A f \in Fields \ {"mouse_bindings"} :
           q[f] = o[f]
    BY DEF select_bindings
  <1>4. o.mouse_bindings.pri.right # "auto" => q.mouse_bindings = o.mouse_bindings
    BY <1>1 DEF select_bindings
  <1>5. o.mouse_bindings.pri.right = "auto" =>
    \A b \in BoundButtons : /\ q.mouse_bindings.pri[b] # "auto"
                            /\ q.mouse_bindings.sec[b] # "auto"
    BY <1>1 DEF select_bindings, BoundButtons, default_shortcuts, AllBound
  <1> QED
    BY <1>2, <1>3, <1>4, <1>5

\* How the picture is fitted is decided.
LEMMA SelectRendering ==
    ASSUME NEW o, DOMAIN o = Fields, NEW q, q = select_rendering(o)
    PROVE  /\ DOMAIN q = Fields
           /\ \A f \in Fields \ {"render_fit"} :
                 q[f] = o[f]
           /\ q.render_fit # "auto"
  <1>1. {"render_fit"} \subseteq Fields
    BY CompletedAreFields DEF Completed
  <1>2. DOMAIN q = Fields
    BY DEF select_rendering
  <1>3. \A f \in Fields \ {"render_fit"} :
           q[f] = o[f]
    BY DEF select_rendering
  <1>4. q.render_fit # "auto"
    BY <1>1 DEF select_rendering
  <1> QED
    BY <1>2, <1>3, <1>4

\* Only the tunnel depends on its options.
LEMMA ForceTunnel ==
    ASSUME NEW o, DOMAIN o = Fields, NEW q, q = force_tunnel(o)
    PROVE  /\ DOMAIN q = Fields
           /\ \A f \in Fields \ {"force_adb_forward"} :
                 q[f] = o[f]
  <1>2. DOMAIN q = Fields
    BY DEF force_tunnel
  <1>3. \A f \in Fields \ {"force_adb_forward"} :
           q[f] = o[f]
    BY DEF force_tunnel
  <1> QED
    BY <1>2, <1>3

\* A camera that is controlled has no inputs.
LEMMA DisableCameraInputs ==
    ASSUME NEW o, DOMAIN o = Fields, NEW q, q = disable_camera_inputs(o)
    PROVE  /\ DOMAIN q = Fields
           /\ \A f \in Fields \ {"keyboard_input_mode",
                          "mouse_input_mode",
                          "gamepad_input_mode"} :
                 q[f] = o[f]
           /\ ~(o.video_source = "camera" /\ o.control) => q = o
           /\ o.video_source = "camera" /\ o.control =>
             /\ q.keyboard_input_mode = "disabled"
             /\ q.mouse_input_mode = "disabled"
             /\ q.gamepad_input_mode = "disabled"
  <1>1. {"keyboard_input_mode",
                          "mouse_input_mode",
                          "gamepad_input_mode"} \subseteq Fields
    BY CompletedAreFields DEF Completed
  <1>2. DOMAIN q = Fields
    BY DEF disable_camera_inputs
  <1>3. \A f \in Fields \ {"keyboard_input_mode",
                          "mouse_input_mode",
                          "gamepad_input_mode"} :
           q[f] = o[f]
    BY DEF disable_camera_inputs
  <1>4. ~(o.video_source = "camera" /\ o.control) => q = o
    BY <1>1 DEF disable_camera_inputs
  <1>5. o.video_source = "camera" /\ o.control =>
    /\ q.keyboard_input_mode = "disabled"
    /\ q.mouse_input_mode = "disabled"
    /\ q.gamepad_input_mode = "disabled"
    BY <1>1 DEF disable_camera_inputs
  <1> QED
    BY <1>2, <1>3, <1>4, <1>5

\* A display that is flexible has no aspect ratio.
LEMMA FreeResizing ==
    ASSUME NEW o, DOMAIN o = Fields, NEW q, q = free_resizing(o)
    PROVE  /\ DOMAIN q = Fields
           /\ \A f \in Fields \ {"window_aspect_ratio_lock"} :
                 q[f] = o[f]
           /\ o.flex_display => ~q.window_aspect_ratio_lock
  <1>1. {"window_aspect_ratio_lock"} \subseteq Fields
    BY CompletedAreFields DEF Completed
  <1>2. DOMAIN q = Fields
    BY DEF free_resizing
  <1>3. \A f \in Fields \ {"window_aspect_ratio_lock"} :
           q[f] = o[f]
    BY DEF free_resizing
  <1>4. o.flex_display => ~q.window_aspect_ratio_lock
    BY <1>1 DEF free_resizing
  <1> QED
    BY <1>2, <1>3, <1>4

\* The source of the audio is decided.
LEMMA SelectAudioSource ==
    ASSUME NEW o, DOMAIN o = Fields, NEW q, q = select_audio_source(o)
    PROVE  /\ DOMAIN q = Fields
           /\ \A f \in Fields \ {"audio_source"} :
                 q[f] = o[f]
           /\ o.audio => q.audio_source # "auto"
  <1>1. {"audio_source"} \subseteq Fields
    BY CompletedAreFields DEF Completed
  <1>2. DOMAIN q = Fields
    BY DEF select_audio_source
  <1>3. \A f \in Fields \ {"audio_source"} :
           q[f] = o[f]
    BY DEF select_audio_source
  <1>4. o.audio => q.audio_source # "auto"
    BY <1>1 DEF select_audio_source
  <1> QED
    BY <1>2, <1>3, <1>4

\* The format of the record is one that exists.
LEMMA GuessRecordFormat ==
    ASSUME NEW o, DOMAIN o = Fields, NEW q, q = guess_record_format(o)
    PROVE  /\ DOMAIN q = Fields
           /\ \A f \in Fields \ {"record_format"} :
                 q[f] = o[f]
           /\ q.record_format \in RecordFormats \cup {o.record_format}
  <1>1. {"record_format"} \subseteq Fields
    BY CompletedAreFields DEF Completed
  <1>2. DOMAIN q = Fields
    BY DEF guess_record_format
  <1>3. \A f \in Fields \ {"record_format"} :
           q[f] = o[f]
    BY DEF guess_record_format
  <1>4. q.record_format \in RecordFormats \cup {o.record_format}
    BY <1>1 DEF guess_record_format
  <1> QED
    BY <1>2, <1>3, <1>4

\* Only the counter depends on the playback.
LEMMA IgnoreFps ==
    ASSUME NEW o, DOMAIN o = Fields, NEW q, q = ignore_fps(o)
    PROVE  /\ DOMAIN q = Fields
           /\ \A f \in Fields \ {"start_fps_counter"} :
                 q[f] = o[f]
  <1>2. DOMAIN q = Fields
    BY DEF ignore_fps
  <1>3. \A f \in Fields \ {"start_fps_counter"} :
           q[f] = o[f]
    BY DEF ignore_fps
  <1> QED
    BY <1>2, <1>3

\* What is not refused is consistent.
LEMMA AcceptedAreConsistent ==
    ASSUME NEW o, DOMAIN o = Fields, Typed(o),
           NEW a, a = disable_unused(o), NEW b, b = complete_audio(a),
           NEW c, c = select_inputs(b), NEW c1, c1 = select_bindings(c),
           NEW c2, c2 = select_rendering(c1), NEW d, d = force_tunnel(c2),
           NEW d1, d1 = disable_camera_inputs(d), NEW e, e = free_resizing(d1),
           NEW f, f = select_audio_source(e), NEW g, g = guess_record_format(f),
           NEW h, h = ignore_fps(g),
           NEW r, DOMAIN r = Fields, \A x \in Fields \ {"ok"} : r[x] = h[x],
           ~nothing_to_do(a), ~bad_sdk_mouse(b), ~bad_display(e), ~bad_record(g),
           ~bad_otg(d)
    PROVE  Consistent(r)
  <1>a. /\ DOMAIN a = Fields
        /\ \A x \in Fields \ {"video_playback", "audio_playback", "power_on", "video",
                              "audio"} : a[x] = o[x]
        /\ a.video_playback => a.video /\ a.window
        /\ a.audio_playback => a.audio
    BY DisableUnused, CompletedAreFields DEF Kept
  <1>b. /\ DOMAIN b = Fields
        /\ \A x \in Fields \ {"require_audio", "audio_buffer", "downsize_on_error"} :
             b[x] = a[x]
        /\ ~a.video /\ ~a.otg => b.require_audio
        /\ b.audio_buffer = a.audio_buffer \/ b.audio_buffer \in {50, 120}
        /\ a.audio_playback => b.audio_buffer # -1
    BY <1>a, CompleteAudio
  <1>c. /\ DOMAIN c = Fields
        /\ \A x \in Fields \ {"keyboard_input_mode", "mouse_input_mode",
                              "gamepad_input_mode"} : c[x] = b[x]
        /\ b.control /\ b.video_source = "display" =>
             /\ c.keyboard_input_mode \notin {"auto", "uhid_or_aoa"}
             /\ c.mouse_input_mode \notin {"auto", "uhid_or_aoa"}
             /\ c.gamepad_input_mode \in {b.gamepad_input_mode, "aoa", "uhid"}
                                          \ {"uhid_or_aoa"}
             /\ c.mouse_input_mode = "sdk" => b.mouse_input_mode = "sdk" \/ b.video_playback
    BY <1>b, SelectInputs
  <1>d. /\ DOMAIN c1 = Fields
        /\ \A x \in Fields \ {"mouse_bindings"} : c1[x] = c[x]
        /\ c.mouse_bindings.pri.right # "auto" => c1.mouse_bindings = c.mouse_bindings
        /\ c.mouse_bindings.pri.right = "auto" =>
             \A k \in BoundButtons : /\ c1.mouse_bindings.pri[k] # "auto"
                                     /\ c1.mouse_bindings.sec[k] # "auto"
    BY <1>c, SelectBindings
  <1>e. /\ DOMAIN c2 = Fields
        /\ \A x \in Fields \ {"render_fit"} : c2[x] = c1[x]
        /\ c2.render_fit # "auto"
    BY <1>d, SelectRendering
  <1>f. /\ DOMAIN d = Fields
        /\ \A x \in Fields \ {"force_adb_forward"} : d[x] = c2[x]
    BY <1>e, ForceTunnel
  <1>g. /\ DOMAIN d1 = Fields
        /\ \A x \in Fields \ {"keyboard_input_mode", "mouse_input_mode",
                              "gamepad_input_mode"} : d1[x] = d[x]
        /\ ~(d.video_source = "camera" /\ d.control) => d1 = d
        /\ d.video_source = "camera" /\ d.control =>
             /\ d1.keyboard_input_mode = "disabled"
             /\ d1.mouse_input_mode = "disabled"
             /\ d1.gamepad_input_mode = "disabled"
    BY <1>f, DisableCameraInputs
  <1>h. /\ DOMAIN e = Fields
        /\ \A x \in Fields \ {"window_aspect_ratio_lock"} : e[x] = d1[x]
        /\ d1.flex_display => ~e.window_aspect_ratio_lock
    BY <1>g, FreeResizing
  <1>i. /\ DOMAIN f = Fields
        /\ \A x \in Fields \ {"audio_source"} : f[x] = e[x]
        /\ e.audio => f.audio_source # "auto"
    BY <1>h, SelectAudioSource
  <1>j. /\ DOMAIN g = Fields
        /\ \A x \in Fields \ {"record_format"} : g[x] = f[x]
        /\ g.record_format \in RecordFormats \cup {f.record_format}
    BY <1>i, GuessRecordFormat
  <1>k. /\ DOMAIN h = Fields
        /\ \A x \in Fields \ {"start_fps_counter"} : h[x] = g[x]
    BY <1>j, IgnoreFps
  <1>1. \A x \in Kept : /\ a[x] = o[x] /\ b[x] = o[x] /\ c[x] = o[x] /\ d[x] = o[x]
                        /\ d1[x] = o[x] /\ e[x] = o[x] /\ f[x] = o[x] /\ g[x] = o[x]
                        /\ r[x] = o[x]
    BY <1>a, <1>b, <1>c, <1>d, <1>e, <1>f, <1>g, <1>h, <1>i, <1>j, <1>k,
       CompletedAreFields DEF Kept
  <1>2. \A x \in {"video", "audio", "video_playback", "audio_playback"} :
           b[x] = a[x] /\ e[x] = a[x] /\ g[x] = a[x] /\ r[x] = a[x]
    BY <1>b, <1>c, <1>d, <1>e, <1>f, <1>g, <1>h, <1>i, <1>j, <1>k,
       CompletedAreFields DEF Completed
  <1>3. /\ r.require_audio = b.require_audio /\ r.audio_buffer = b.audio_buffer
        /\ a.audio_buffer = o.audio_buffer
    BY <1>a, <1>b, <1>c, <1>d, <1>e, <1>f, <1>g, <1>h, <1>i, <1>j, <1>k,
       CompletedAreFields DEF Completed
  <1>4. /\ r.mouse_bindings = c1.mouse_bindings /\ c.mouse_bindings = o.mouse_bindings
        /\ r.render_fit = c2.render_fit
    BY <1>a, <1>b, <1>c, <1>d, <1>e, <1>f, <1>g, <1>h, <1>i, <1>j, <1>k,
       CompletedAreFields DEF Completed
  <1>5. /\ r.window_aspect_ratio_lock = e.window_aspect_ratio_lock
        /\ r.audio_source = f.audio_source
        /\ r.record_format = g.record_format /\ f.record_format = o.record_format
    BY <1>a, <1>b, <1>c, <1>d, <1>e, <1>f, <1>g, <1>h, <1>i, <1>j, <1>k,
       CompletedAreFields DEF Completed
  <1>6. \A x \in {"keyboard_input_mode", "mouse_input_mode", "gamepad_input_mode"} :
           b[x] = o[x] /\ d[x] = c[x] /\ r[x] = d1[x]
    BY <1>a, <1>b, <1>c, <1>d, <1>e, <1>f, <1>g, <1>h, <1>i, <1>j, <1>k,
       CompletedAreFields DEF Completed
  <1>7. /\ r.control = o.control /\ b.control = o.control /\ d.control = o.control
        /\ b.video_source = o.video_source /\ d.video_source = o.video_source
        /\ r.video_source = o.video_source /\ o.video_source \in {"display", "camera"}
        /\ d1.mouse_input_mode = r.mouse_input_mode
        /\ d1.keyboard_input_mode = r.keyboard_input_mode
        /\ d1.gamepad_input_mode = r.gamepad_input_mode
        /\ b.video_playback = r.video_playback
    BY <1>1, <1>2, <1>6 DEF Kept, Typed, VideoSources
  <1>8. r.control /\ r.video_source = "camera" =>
           /\ r.keyboard_input_mode = "disabled" /\ r.mouse_input_mode = "disabled"
           /\ r.gamepad_input_mode = "disabled"
    BY <1>7, <1>g
  <1>9. r.control /\ r.video_source = "display" =>
           /\ r.keyboard_input_mode \notin {"auto", "uhid_or_aoa"}
           /\ r.mouse_input_mode \notin {"auto", "uhid_or_aoa"}
           /\ r.gamepad_input_mode \notin {"auto", "uhid_or_aoa"}
           /\ r.mouse_input_mode = "sdk" => r.video_playback
    BY <1>7, <1>6, <1>c, <1>g DEF Typed, Gamepads, bad_sdk_mouse
  <1>10. r.video \/ r.audio \/ r.control
    BY <1>1, <1>2 DEF nothing_to_do, bad_otg, Kept
  <1>11. r.video_playback => r.video /\ r.window
    BY <1>1, <1>2, <1>a DEF Kept
  <1>12. r.audio_playback => r.audio /\ r.audio_buffer >= 0
    BY <1>2, <1>3, <1>a, <1>b DEF Typed
  <1>13. r.audio => r.audio_source # "auto"
    BY <1>2, <1>5, <1>i
  <1>14. r.control /\ (r.otg \/ r.video_source # "camera") =>
           {r.keyboard_input_mode, r.mouse_input_mode, r.gamepad_input_mode}
               \cap {"auto", "uhid_or_aoa"} = {}
    BY <1>7, <1>8, <1>9
  <1>15. processors(r).mp = "sdk" => r.video_playback
    BY <1>7, <1>8, <1>9 DEF processors, None
  <1>16. r.video_source = "camera" => processors(r) = [kp |-> None, mp |-> None, gp |-> None]
    BY <1>8 DEF processors
  <1>17. \A k \in BoundButtons : /\ r.mouse_bindings.pri[k] # "auto"
                                 /\ r.mouse_bindings.sec[k] # "auto"
    BY <1>4, <1>d DEF Typed, BoundButtons, Bindings, AllBound
  <1>18. r.render_fit # "auto"
    BY <1>4, <1>e
  <1>19. r.flex_display => r.control /\ r.video_source # "camera" /\ ~r.window_aspect_ratio_lock
    BY <1>1, <1>5, <1>h DEF bad_display, Kept
  <1>20. r.record_filename # None =>
           /\ r.video \/ r.audio
           /\ r.record_orientation < 4 /\ r.record_format # "auto"
           /\ r.video => r.record_format \in {"mp4", "mkv"}
    BY <1>1, <1>2, <1>5, <1>j DEF bad_record, Kept, Typed, Orientations, RecordFormats,
       AudioOnly
  <1>21. ~r.video /\ ~r.otg => r.require_audio
    BY <1>1, <1>2, <1>3, <1>b DEF Kept
  <1>22. r.audio_buffer <= MaxInt31 \div (48 * 8)
    BY <1>3, <1>b, SMT DEF Typed, BufferingTime, MaxInt31
  <1>23. r.screen_off_timeout <= MaxInt31 \div 1000
    BY <1>1, SMT DEF Kept, Typed, ScreenOffTimeout, MaxInt31
  <1>24. r.port_range[1] <= r.port_range[2]
    BY <1>1 DEF Kept, Typed
  <1>25. r.otg => r.control /\ ~r.v4l2_device /\ r.record_filename = None
    BY <1>1 DEF bad_otg, Kept
  <1>26. r.shortcut_mods \subseteq ShortcutMods /\ r.key_inject_mode \in KeyInjectModes
    BY <1>1 DEF Kept, Typed
  <1> QED
    BY <1>10, <1>11, <1>12, <1>13, <1>14, <1>15, <1>16, <1>17, <1>18, <1>19, <1>20, <1>21,
       <1>22, <1>23, <1>24, <1>25, <1>26, Zenon DEF Consistent

\* The options are completed to consistent ones, or refused.
LEMMA CompleteIsConsistent ==
    ASSUME NEW o, DOMAIN o = Fields, Typed(o), NEW r, r = complete(o)
    PROVE  DOMAIN r = Fields /\ (r.ok => Consistent(r))
  <1> DEFINE a == disable_unused(o)
             b == complete_audio(a)
             c == select_inputs(b)
             c1 == select_bindings(c)
             c2 == select_rendering(c1)
             d == force_tunnel(c2)
             d1 == disable_camera_inputs(d)
             e == free_resizing(d1)
             f == select_audio_source(e)
             g == guess_record_format(f)
             h == ignore_fps(g)
             refused ==
                 \/ too_many_selectors(o) \/ nothing_to_do(a) \/ bad_v4l2(b)
                 \/ bad_sdk_mouse(b) \/ bad_new_display(d) \/ bad_keyboard_or_mouse(d)
                 \/ bad_camera(d) \/ bad_display(e) \/ bad_audio_dup(f)
                 \/ bad_record(g) \/ bad_control(g) \/ bad_otg(d)
  <1>1. r = [h EXCEPT !.ok = h.ok /\ ~refused]
    BY DEF complete
  <1>2. DOMAIN h = Fields
    <2>0. /\ a = disable_unused(o)
          /\ b = complete_audio(a)
          /\ c = select_inputs(b)
          /\ c1 = select_bindings(c)
          /\ c2 = select_rendering(c1)
          /\ d = force_tunnel(c2)
          /\ d1 = disable_camera_inputs(d)
          /\ e = free_resizing(d1)
          /\ f = select_audio_source(e)
          /\ g = guess_record_format(f)
          /\ h = ignore_fps(g)
      OBVIOUS
    <2> HIDE DEF a, b, c, c1, c2, d, d1, e, f, g, h, refused
    <2>1. DOMAIN a = Fields
      BY <2>0, DisableUnused
    <2>2. DOMAIN b = Fields
      BY <2>0, <2>1, CompleteAudio
    <2>3. DOMAIN c = Fields
      BY <2>0, <2>2, SelectInputs
    <2>4. DOMAIN c1 = Fields
      BY <2>0, <2>3, SelectBindings
    <2>5. DOMAIN c2 = Fields
      BY <2>0, <2>4, SelectRendering
    <2>6. DOMAIN d = Fields
      BY <2>0, <2>5, ForceTunnel
    <2>7. DOMAIN d1 = Fields
      BY <2>0, <2>6, DisableCameraInputs
    <2>8. DOMAIN e = Fields
      BY <2>0, <2>7, FreeResizing
    <2>9. DOMAIN f = Fields
      BY <2>0, <2>8, SelectAudioSource
    <2>10. DOMAIN g = Fields
      BY <2>0, <2>9, GuessRecordFormat
    <2>11. DOMAIN h = Fields
      BY <2>0, <2>10, IgnoreFps
    <2> QED
      BY <2>11
  <1>3. DOMAIN r = Fields /\ \A x \in Fields \ {"ok"} : r[x] = h[x]
    BY <1>1, <1>2
  <1>4. ASSUME r.ok PROVE ~refused
    <2>1. r.ok = (h.ok /\ ~refused)
      BY <1>1, <1>2, CompletedAreFields DEF Completed
    <2> HIDE DEF refused
    <2> QED
      BY <1>4, <2>1
  <1>5. ASSUME r.ok
        PROVE  /\ ~nothing_to_do(a) /\ ~bad_sdk_mouse(b) /\ ~bad_display(e)
               /\ ~bad_record(g) /\ ~bad_otg(d)
    BY <1>4, <1>5
  <1>6. ASSUME r.ok PROVE Consistent(r)
    BY <1>3, <1>5, <1>6, AcceptedAreConsistent, Zenon
  <1> QED
    BY <1>3, <1>6

\* One argument is read.
LEMMA ParseArgFits ==
    ASSUME ParsedFit, NEW a \in Args, ParseArg(a)
    PROVE  ParsedFit'
  <1>1. /\ pc = "args" /\ pc' = "args" /\ DOMAIN opts = Fields /\ Typed(opts)
        /\ opts' = parse_arg(opts, a)
    BY DEF ParseArg, ParsedFit
  <1>2. DOMAIN opts' = Fields /\ (opts'.ok => Typed(opts'))
    BY <1>1, ArgKeeps
  <1> QED
    BY <1>1, <1>2 DEF ParsedFit

\* The options are completed once every argument is read.
LEMMA ParseArgsFits ==
    ASSUME ParsedFit, scrcpy_parse_args
    PROVE  ParsedFit'
  <1>1. /\ pc = "args" /\ pc' = "parsed" /\ DOMAIN opts = Fields
        /\ opts.ok => Typed(opts)
        /\ opts' = IF opts.ok THEN complete(opts) ELSE opts
    BY DEF scrcpy_parse_args, ParsedFit
  <1>2. DOMAIN opts' = Fields /\ (opts'.ok => Consistent(opts'))
    <2>1. CASE opts.ok
      BY <1>1, <2>1, CompleteIsConsistent
    <2>2. CASE ~opts.ok
      BY <1>1, <2>2
    <2> QED
      BY <2>1, <2>2
  <1> QED
    BY <1>1, <1>2 DEF ParsedFit

\* No other step reads the command line.
LEMMA OthersKeepOptions ==
    ASSUME Next, \A a \in Args : ~ParseArg(a), ~scrcpy_parse_args
    PROVE  pc' \notin {"args", "parsed"} \/ (pc' = pc /\ opts' = opts)
  <1> DEFINE Goal == pc' \notin {"args", "parsed"} \/ (pc' = pc /\ opts' = opts)
  <1>1. CASE main_scrcpy
    BY <1>1 DEF main_scrcpy
  <1>2. ASSUME NEW place, NEW wanted, NEW parts, NEW threads,
               Next_(place) \notin {"args", "parsed"},
               StartIf(place, wanted, parts, threads)
        PROVE  Goal
    BY <1>2 DEF StartIf, Goto
  <1>3. CASE Main
    <2>1. CASE \/ InitSdl \/ InitPusher \/ InitRecorder \/ StartRecorder \/ InitController
               \/ StartAoa \/ StartController \/ InitScreen \/ InitV4l2 \/ StartVideo
               \/ StartAudio \/ StartApp
      BY <1>2, <2>1, NextPlaces DEF InitSdl, InitPusher, InitRecorder, StartRecorder,
         InitController, StartAoa, StartController, InitScreen, InitV4l2, StartVideo,
         StartAudio, StartApp, Goto
    <2>2. CASE StartServer \/ await_for_server \/ StartTimeout \/ SetDeadline \/ event_loop
      BY <2>2 DEF StartServer, await_for_server, StartTimeout, SetDeadline, event_loop, Goto
    <2>3. CASE EndStep
      BY <2>3 DEF EndStep
    <2> QED
      BY <1>3, <2>1, <2>2, <2>3 DEF Main
  <1>4. CASE process_file \/ DeviceGone \/ AoaOpenError \/ UserQuits \/ TimeoutReads
    BY <1>4 DEF process_file, DeviceGone, AoaOpenError, UserQuits, TimeoutReads
  <1>5. ASSUME NEW t, NEW e, Ends(t, e) PROVE Goal
    BY <1>5 DEF Ends
  <1>6. CASE \/ ServerConnects \/ ServerFails \/ ServerEnds \/ VideoEnds \/ AudioEnds
             \/ ReceiverEnds \/ AudioDisabled \/ PusherEnds \/ TimeoutFires
    BY <1>6, <1>5 DEF ServerConnects, ServerFails, ServerEnds, VideoEnds, AudioEnds,
       ReceiverEnds, AudioDisabled, PusherEnds, TimeoutFires
  <1>7. ASSUME NEW t \in Threads, ThreadFails(t) \/ StoppedEnds(t) PROVE Goal
    BY <1>7, <1>5 DEF ThreadFails, StoppedEnds
  <1>8. CASE PusherTakes \/ PusherRunsAdb \/ request_scan_file
    BY <1>8 DEF PusherTakes, PusherRunsAdb, request_scan_file, Pusher
  <1>9. CASE Done
    BY <1>9 DEF Done, vars
  <1> QED
    BY <1>1, <1>3, <1>4, <1>6, <1>7, <1>8, <1>9 DEF Next

\* The options fit while they are parsed, and when they are complete.
LEMMA ParsedFitHolds == Spec => []ParsedFit
  <1>1. Init => ParsedFit
    <2> SUFFICES ASSUME Init PROVE ParsedFit
      OBVIOUS
    <2>1. pc = "args" /\ opts = scrcpy_options_default
      BY DEF Init
    <2> QED
      BY <2>1, DefaultsAreTyped DEF ParsedFit, Fields
  <1>2. ParsedFit /\ [Next]_vars => ParsedFit'
    <2> SUFFICES ASSUME ParsedFit, [Next]_vars PROVE ParsedFit'
      OBVIOUS
    <2>1. CASE \E a \in Args : ParseArg(a)
      BY <2>1, ParseArgFits
    <2>2. CASE scrcpy_parse_args
      BY <2>2, ParseArgsFits
    <2>3. CASE Next /\ (\A a \in Args : ~ParseArg(a)) /\ ~scrcpy_parse_args
      <3>1. pc' \notin {"args", "parsed"} \/ (pc' = pc /\ opts' = opts)
        BY <2>3, OthersKeepOptions
      <3> QED
        BY <3>1 DEF ParsedFit
    <2>4. CASE UNCHANGED vars
      BY <2>4 DEF vars, ParsedFit
    <2> QED
      BY <2>1, <2>2, <2>3, <2>4
  <1> QED
    BY <1>1, <1>2, PTL DEF Spec

\* Whatever the arguments, their number and their order, the options that are
\* accepted are those that the rest of the program relies on (cli.c:3022).
THEOREM OptionsStayConsistent == Spec => []OptionsAreConsistent
  <1>1. ParsedFit => OptionsAreConsistent
    BY DEF ParsedFit, OptionsAreConsistent
  <1> QED
    BY <1>1, ParsedFitHolds, PTL

\* What arguments leave, before the options are completed, is what InputManager
\* assumes of the options of its scenarios (ScenariosAssumption).
THEOREM ArgumentsLeaveScenarios ==
    Spec => [](pc = "args" /\ opts.ok => DOMAIN opts = Fields /\ Typed(opts))
  <1>1. ParsedFit => (pc = "args" /\ opts.ok => DOMAIN opts = Fields /\ Typed(opts))
    BY DEF ParsedFit
  <1> QED
    BY <1>1, ParsedFitHolds, PTL

-----------------------------------------------------------------------------
(* The program from its command line to its exit.                           *)

\* The steps of the command line.
LEMMA CommandLineSteps ==
    ASSUME IInv, (\E a \in Args : ParseArg(a)) \/ scrcpy_parse_args \/ main_scrcpy
    PROVE  IInv'
  <1> USE DEF FromSdl,
       FromPusher, FromRecorder, FromRecording, FromController,
       FromAoa, FromControlling, FromScreen, FromV4l2, FromVideo, FromTimeout
  <1>0. /\ TypeOK /\ ~crashed /\ OptionsFit /\ MadeFollowsPc /\ NeedsAreMade
        /\ EndFollowsStep /\ LocalsFit
    BY DEF IInv
  <1>1. /\ pc \in {"args", "parsed"}
        /\ UNCHANGED <<step, made, gone, thread, stopped, link, events, fp, limit, ret,
                       crashed>>
    BY DEF ParseArg, scrcpy_parse_args, main_scrcpy, life
  <1>2. /\ pc' \in {"args", "parsed", "server", "exit"}
        /\ nargs' \in 0 .. MaxArgs
        /\ OptionsFit'
    <2>0. ParsedFit
      BY <1>0 DEF OptionsFit, ParsedFit
    <2>1. ASSUME NEW a \in Args, ParseArg(a)
          PROVE  /\ pc' = "args" /\ nargs' \in 0 .. MaxArgs /\ ParsedFit'
      <3>1. pc' = "args" /\ nargs' = nargs + 1 /\ nargs < MaxArgs /\ nargs \in 0 .. MaxArgs
        BY <1>0, <2>1 DEF ParseArg, TypeOK
      <3> QED
        BY <2>0, <2>1, <3>1, ParseArgFits, BoundAssumption
    <2>2. CASE scrcpy_parse_args
      <3>1. pc' = "parsed" /\ nargs' = nargs
        BY <2>2 DEF scrcpy_parse_args
      <3>2. ParsedFit' /\ nargs \in 0 .. MaxArgs
        BY <1>0, <2>0, <2>2, ParseArgsFits DEF TypeOK
      <3> QED
        BY <3>1, <3>2 DEF OptionsFit, ParsedFit
    <2>3. CASE main_scrcpy
      <3>1. /\ pc = "parsed" /\ pc' \in {"server", "exit"} /\ nargs' = 0
            /\ \/ opts.ok /\ opts' = Relevant(opts)
               \/ opts' = Relevant(scrcpy_options_default)
        BY <2>3 DEF main_scrcpy
      <3>2. opts'.play => opts'.window
        <4>1. CASE opts.ok /\ opts' = Relevant(opts)
          <5>1. opts.video_playback => opts.window
            BY <1>0, <3>1, <4>1 DEF OptionsFit, Consistent
          <5>2. opts'.play = opts.video_playback /\ opts'.window = opts.window
            BY <4>1 DEF Relevant
          <5> QED
            BY <5>1, <5>2
        <4>2. CASE opts' = Relevant(scrcpy_options_default)
          <5>1. opts'.window = scrcpy_options_default.window
            BY <4>2 DEF Relevant
          <5>2. scrcpy_options_default.window = TRUE
            BY SMT DEF scrcpy_options_default
          <5> QED
            BY <5>1, <5>2
        <4> QED
          BY <3>1, <4>1, <4>2
      <3>3. nargs' \in 0 .. MaxArgs
        BY <3>1, BoundAssumption
      <3> QED
        BY <3>1, <3>2, <3>3 DEF OptionsFit
    <2>4. ASSUME NEW a \in Args, ParseArg(a)
          PROVE  OptionsFit'
      BY <2>1, <2>4 DEF OptionsFit, ParsedFit
    <2> QED
      BY <2>1, <2>2, <2>3, <2>4
  <1>3. /\ made = {} /\ gone = {} /\ step = 1 /\ \A t \in Threads : thread[t] = "off"
    BY <1>0, <1>1 DEF MadeFollowsPc, EndFollowsStep, TypeOK
  <1>4. TypeOK'
    <2>1. pc' \in {"args", "parsed", "end", "exit"} \cup {Starts[i] : i \in DOMAIN Starts}
      BY <1>2, PlacesAre
    <2> QED
      BY <1>0, <1>1, <1>2, <2>1 DEF TypeOK
  <1>5. MadeFollowsPc'
    BY <1>1, <1>2, <1>3 DEF MadeFollowsPc
  <1>6. NeedsAreMade'
    BY <1>1, <1>3 DEF NeedsAreMade
  <1>7. EndFollowsStep'
    BY <1>1, <1>2, <1>3 DEF EndFollowsStep, Destroyable
  <1>8. LocalsFit' /\ ~crashed'
    BY <1>0, <1>1 DEF LocalsFit
  <1> QED
    BY <1>2, <1>4, <1>5, <1>6, <1>7, <1>8 DEF IInv

\* The invariant holds at the start.
LEMMA InitHolds == Init => IInv
  <1> SUFFICES ASSUME Init PROVE IInv
    OBVIOUS
  <1> USE DEF FromSdl,
       FromPusher, FromRecorder, FromRecording, FromController,
       FromAoa, FromControlling, FromScreen, FromV4l2, FromVideo, FromTimeout
  <1>1. /\ pc = "args" /\ opts = scrcpy_options_default
        /\ step = 1 /\ nargs = 0 /\ made = {} /\ gone = {} /\ stopped = {} /\ events = {}
        /\ thread = [t \in Threads |-> "off"] /\ link = "connecting"
        /\ fp = [queue |-> 0, dropped |-> 0, busy |-> None]
        /\ limit = [saw |-> None, set |-> FALSE]
        /\ ret = "failure" /\ crashed = FALSE
    BY DEF Init
  <1>2. OptionsFit
    BY <1>1, DefaultsAreTyped DEF OptionsFit, Fields
  <1>3. LocalsFit
    BY ONLY <1>1, BoundAssumption DEF LocalsFit
  <1>4. TypeOK
    <2>1. fp.queue = 0 /\ fp.busy = None /\ limit.saw = None /\ 0 \in 0 .. MaxFiles
      BY ONLY <1>1, BoundAssumption
    <2>2. step \in DOMAIN EndSteps /\ nargs \in 0 .. MaxArgs
      BY <1>1, BoundAssumption, EndStepsAre
    <2>3. thread \in [Threads -> {"off", "run", "ended", "joined"}]
      BY <1>1
    <2> QED
      BY <1>1, <2>1, <2>2, <2>3 DEF TypeOK
  <1>5. MadeFollowsPc /\ NeedsAreMade /\ EndFollowsStep
    BY <1>1 DEF MadeFollowsPc, NeedsAreMade, EndFollowsStep
  <1> QED
    BY <1>1, <1>2, <1>3, <1>4, <1>5 DEF IInv

\* Every step keeps the invariant, if the thread of the time limit does not
\* overtake the one that starts it.
LEMMA NextHolds ==
    ASSUME PromptTimeout, IInv, [Next]_vars
    PROVE  IInv'
  <1>1. CASE UNCHANGED vars
    <2>1. UNCHANGED <<opts, nargs, pc, step, made, gone, thread, stopped, link, events, fp,
                      limit, ret, crashed>>
      BY <1>1 DEF vars, life
    <2>2. TypeOK' /\ ~crashed' /\ OptionsFit' /\ MadeFollowsPc' /\ EndFollowsStep' /\ LocalsFit'
      BY <2>1 DEF IInv, TypeOK, OptionsFit, MadeFollowsPc, EndFollowsStep, LocalsFit, Destroyable
    <2>3. \A t : Needs(t)' = Needs(t)
      BY <2>1 DEF Needs
    <2>4. NeedsAreMade'
      BY <2>1, <2>3 DEF IInv, NeedsAreMade
    <2> QED
      BY <2>2, <2>4 DEF IInv
  <1>2. CASE (\E a \in Args : ParseArg(a)) \/ scrcpy_parse_args \/ main_scrcpy
    BY <1>2, CommandLineSteps
  <1>3. CASE Main
    BY <1>3, StartServerStep, InitSdlStep, AwaitStep, InitPusherStep, InitRecorderStep,
       StartRecorderStep, InitControllerStep, StartAoaStep, StartControllerStep,
       InitScreenStep, InitV4l2Step, StartVideoStep, StartAudioStep, StartTimeoutStep,
       SetDeadlineStep, StartAppStep, EventLoopStep, EndStepStep DEF Main
  <1>4. CASE process_file
    BY <1>4, ProcessFileStep
  <1>5. CASE \/ ServerConnects \/ ServerFails \/ ServerEnds \/ DeviceGone
             \/ VideoEnds \/ AudioEnds \/ ReceiverEnds \/ AudioDisabled
             \/ \E t \in Threads : ThreadFails(t) \/ StoppedEnds(t)
             \/ AoaOpenError \/ UserQuits
    BY <1>5, DeviceSteps
  <1>6. CASE PusherTakes \/ PusherRunsAdb \/ request_scan_file \/ PusherEnds
    BY <1>6, PusherSteps
  <1>7. CASE TimeoutReads \/ TimeoutFires
    BY <1>7, TimeoutSteps
  <1>8. CASE Done
    BY <1>8, <1>1 DEF Done
  <1> QED
    BY <1>1, <1>2, <1>3, <1>4, <1>5, <1>6, <1>7, <1>8 DEF Next

\* The invariant holds of every behaviour in which the thread of the time limit
\* reads its deadline only once it is set (timeout.c:46).
THEOREM InvariantHolds ==
    ASSUME PromptTimeout
    PROVE  Spec => []IInv
  <1>1. IInv /\ [Next]_vars => IInv'
    BY NextHolds
  <1> QED
    BY <1>1, InitHolds, PTL DEF Spec

\* A thread that runs uses parts that are made and, but for the known races, not
\* yet destroyed.
LEMMA ThreadsHaveParts ==
    ASSUME IInv, NEW t \in Threads, Running(t), NEW p \in Uses(t)
    PROVE  p \in made /\ (p \in gone => <<t, p>> \in KnownRaces)
  <1>0. TypeOK /\ NeedsAreMade /\ EndFollowsStep
    BY DEF IInv
  <1>1. thread[t] = "run"
    BY DEF Running
  <1>2. p \in Needs(t)
    BY DEF Uses, Needs, Threads
  <1>3. p \in made /\ p \in Parts
    BY <1>0, <1>1, <1>2 DEF NeedsAreMade, TypeOK
  <1>4. ASSUME p \in gone PROVE <<t, p>> \in KnownRaces
    <2>1. pc = "end" /\ p \in Destroyable
      BY <1>0, <1>1, <1>4 DEF EndFollowsStep
    <2>2. ~(JoinAt[t] < step) /\ DestroyAt[p] < step
      BY <1>0, <1>1, <1>4, <2>1 DEF EndFollowsStep
    <2>3. JoinAt[t] \in Nat /\ DestroyAt[p] \in Nat /\ step \in Nat
      <3>1. JoinAt[t] \in Nat
        BY DEF JoinAt, Threads
      <3>2. DestroyAt[p] \in Nat
        BY <1>3 DEF DestroyAt, Parts
      <3>3. step \in Nat
        BY <1>0, EndStepsAre DEF TypeOK
      <3> QED
        BY <3>1, <3>2, <3>3
    <2>4. JoinAt[t] <= DestroyAt[p] \/ <<t, p>> \in KnownRaces
      BY <1>2 DEF Needs, Threads, JoinAt, DestroyAt, KnownRaces
    <2> QED
      BY <2>2, <2>3, <2>4
  <1> QED
    BY <1>3, <1>4

\* A thread uses only parts that are initialized; the end of scrcpy() destroys a
\* part only once the threads that use it have ended, but for the two pairs of
\* KnownRaces; at the exit every thread is joined and only the acksync of a start
\* that found no USB device is left (scrcpy.c:631, 914 and after).
THEOREM PartsOutliveTheirThreads ==
    ASSUME PromptTimeout
    PROVE  Spec => []PartsOutliveThreads
  <1>1. IInv => PartsOutliveThreads
    <2> SUFFICES ASSUME IInv PROVE PartsOutliveThreads
      OBVIOUS
    <2>1. TypeOK /\ ~crashed
      BY DEF IInv
    <2>2. \A t \in Threads : Running(t) =>
             \A p \in Uses(t) : p \in made /\ (p \in gone => <<t, p>> \in KnownRaces)
      BY ThreadsHaveParts
    <2>3. pc = "exit" => gone = Destroyable /\ \A t \in Threads : thread[t] \in {"off", "joined"}
      BY DEF IInv, EndFollowsStep
    <2>4. made \ Destroyable = {p \in made : p = "acksync" /\ "aoa" \notin made}
      BY DEF Destroyable
    <2> QED
      BY <2>1, <2>2, <2>3, <2>4 DEF PartsOutliveThreads
  <1> QED
    BY <1>1, InvariantHolds, PTL

-----------------------------------------------------------------------------
(* The input manager.                                                       *)

\* The fields of the state of the input manager.
StateFields ==
    {"vfinger_down", "mouse_buttons_state", "last", "key_repeat", "next_sequence",
     "disconnected", "paused", "slots", "finger", "clips", "waits",
     "whilePaused", "typed", "times", "crashed"}

\* What the completed options decide: there are processors only with control
\* and for a display, and no binding is left undecided.
Decides(c) ==
    /\ c.uses \in Scenarios
    /\ c.kp \in {None, "sdk", "uhid", "aoa"} /\ c.mp \in {None, "sdk", "uhid", "aoa"}
    /\ c.gp \in {None, "sdk", "uhid", "aoa"}
    /\ c.kp # None \/ c.mp # None \/ c.gp # None => c.control /\ ~c.camera
    /\ \A b \in BoundButtons : /\ c.mouse_bindings.pri[b] # "auto"
                               /\ c.mouse_bindings.sec[b] # "auto"
    /\ c.shortcut_mods \subseteq ShortcutMods
    /\ c.key_inject_mode \in KeyInjectModes

Lasts == {<<>>} \cup {<<mods>> : mods \in SUBSET Mods}

\* The second finger, the buttons and the slots.
HandsFit(s) ==
    /\ s.vfinger_down \in BOOLEAN /\ s.finger = s.vfinger_down
    /\ relative_mode => ~s.vfinger_down
    /\ s.mouse_buttons_state \subseteq Buttons
    /\ conf.camera => s.mouse_buttons_state = {}

SlotsFit(s) ==
    /\ s.slots \in [1 .. MaxGamepads -> conf.uses.pads \cup {None}]
    /\ conf.gp = None => \A i \in 1 .. MaxGamepads : s.slots[i] = None

\* The clipboards.
PastesFit(s) ==
    /\ s.next_sequence \in Nat \ {0}
    /\ s.waits \subseteq s.clips /\ s.clips \subseteq Nat
    /\ \A c \in s.clips : c < s.next_sequence

\* The only assertion that can fail: the wheel is turned, and there is a keyboard
\* but no mouse.
WheelCrashes == WheelAnywhere /\ conf.kp # None /\ conf.mp = None

\* A state that a handler may be given, and leaves.
Good(s) ==
    /\ DOMAIN s = StateFields
    /\ s.disconnected \in BOOLEAN /\ s.paused \in BOOLEAN /\ s.last \in Lasts
    /\ HandsFit(s) /\ SlotsFit(s) /\ PastesFit(s)
    /\ s.whilePaused \subseteq {"torch", "gamepad_device", "file"}
    /\ s.crashed => WheelCrashes

\* What the user holds and has plugged is what the state says.
HeldByUser(s, held) == ~relative_mode /\ ~s.disconnected => s.mouse_buttons_state \subseteq held

\* Slots f follow the gamepads plugged and those announced twice, and stay as
\* they are once the device is disconnected.
Follow(f, disconnected, pads, twice) ==
    \A i, j, k \in 1 .. MaxGamepads :
        f[i] # None =>
            /\ disconnected \/ f[i] \in pads \cup twice
            /\ f[i] = f[j] /\ i # j => f[i] \in twice /\ (disconnected \/ f[i] \in pads)
            /\ f[i] = f[j] /\ f[i] = f[k] => i = j \/ i = k \/ j = k

PluggedByUser(s, pads, twice) == Follow(s.slots, s.disconnected, pads, twice)

Users(pads) ==
    [mods : SUBSET Mods, held : SUBSET Buttons, pads : SUBSET pads, twice : SUBSET pads]

USE DEF Users

InputIInv ==
    /\ Decides(conf)
    /\ user \in Users(conf.uses.pads)
    /\ mc \in [active : BOOLEAN, key : Mods \cup {None}]
    /\ Good(st) /\ st.next_sequence <= MaxSequence
    /\ HeldByUser(st, user.held) /\ PluggedByUser(st, user.pads, user.twice)
    /\ EachCharacterOnce

\* A step that leaves the buttons and the slots alone, and the clipboard unless
\* it pastes.
Beside(s, t) ==
    /\ t.disconnected = s.disconnected /\ t.mouse_buttons_state = s.mouse_buttons_state
    /\ t.slots = s.slots /\ (s.typed = None => t.typed = None)

KeyStep(s, t) == Good(t) /\ Beside(s, t) /\ t.next_sequence = s.next_sequence

-----------------------------------------------------------------------------
\* The options of an accepted command line decide.
LEMMA ConfiguredDecides ==
    ASSUME NEW scenario \in Scenarios, NEW c, c = Configured(scenario), c.accepted
    PROVE  Decides(c)
  <1> DEFINE o == complete(scenario.options)
             p == processors(o)
  <1>1. /\ c.accepted = (o.ok /\ o.window /\ ~o.otg) /\ c.control = o.control
        /\ c.kp = p.kp /\ c.mp = p.mp /\ c.gp = p.gp
        /\ c.camera = (o.video_source = "camera")
        /\ c.mouse_bindings = o.mouse_bindings /\ c.shortcut_mods = o.shortcut_mods
        /\ c.key_inject_mode = o.key_inject_mode /\ c.uses = scenario
    BY DEF Configured
  <1>2. Consistent(o)
    <2>1. DOMAIN scenario.options = Fields /\ Typed(scenario.options) /\ o.ok
      BY <1>1, ScenariosAssumption
    <2> QED
      BY <2>1, CompleteIsConsistent
  <1>3. /\ o.video_source = "camera" => p = [kp |-> None, mp |-> None, gp |-> None]
        /\ \A b \in BoundButtons : /\ o.mouse_bindings.pri[b] # "auto"
                                   /\ o.mouse_bindings.sec[b] # "auto"
        /\ o.shortcut_mods \subseteq ShortcutMods /\ o.key_inject_mode \in KeyInjectModes
    BY <1>2 DEF Consistent
  <1>4. /\ p.kp \in {None, "sdk", "uhid", "aoa"} /\ p.mp \in {None, "sdk", "uhid", "aoa"}
        /\ p.gp \in {None, "sdk", "uhid", "aoa"}
        /\ p.kp # None \/ p.mp # None \/ p.gp # None => o.control
    BY DEF processors, None
  <1> HIDE DEF o, p
  <1>5. p.kp # None \/ p.mp # None \/ p.gp # None => o.video_source # "camera"
    BY <1>3
  <1> QED
    BY <1>1, <1>3, <1>4, <1>5 DEF Decides

\* The initial state of the input manager.
LEMMA InitialIsGood ==
    ASSUME Decides(conf)
    PROVE  /\ Good(sc_input_manager_init) /\ sc_input_manager_init.next_sequence = 1
           /\ sc_input_manager_init.mouse_buttons_state = {}
           /\ \A i \in 1 .. MaxGamepads : sc_input_manager_init.slots[i] = None
           /\ sc_input_manager_init.typed = None
  <1> DEFINE s == sc_input_manager_init
  <1>1. DOMAIN s = StateFields
    BY DEF sc_input_manager_init, StateFields
  <1>2. /\ s.vfinger_down = FALSE /\ s.mouse_buttons_state = {} /\ s.last = <<>>
        /\ s.next_sequence = 1 /\ s.disconnected = FALSE /\ s.paused = FALSE
        /\ s.slots = [i \in 1 .. MaxGamepads |-> None] /\ s.finger = FALSE
        /\ s.clips = {} /\ s.waits = {}
        /\ s.whilePaused = {} /\ s.typed = None /\ s.crashed = FALSE
    BY DEF sc_input_manager_init
  <1> HIDE DEF s
  <1>3. HandsFit(s) /\ PastesFit(s)
    <2>1. HandsFit(s)
      BY <1>2, Zenon DEF HandsFit
    <2>2. PastesFit(s)
      BY <1>2 DEF PastesFit
    <2> QED
      BY <2>1, <2>2
  <1>4. SlotsFit(s)
    BY <1>2 DEF SlotsFit
  <1>5. Good(s)
    BY <1>1, <1>2, <1>3, <1>4 DEF Good, Lasts
  <1> QED
    BY <1>2, <1>5 DEF s

\* The invariant holds initially.
LEMMA InputInitHolds == InputInit => InputIInv
  <1> SUFFICES ASSUME InputInit PROVE InputIInv
    OBVIOUS
  <1>1. Decides(conf)
    <2>1. PICK scenario \in Scenarios : conf = Configured(scenario) /\ conf.accepted
      BY DEF InputInit
    <2> QED
      BY <2>1, ConfiguredDecides
  <1>2. /\ st = sc_input_manager_init
        /\ user = [mods |-> {}, held |-> {}, pads |-> {}, twice |-> {}]
        /\ mc = [active |-> conf.mp \in {"uhid", "aoa"}, key |-> None]
    BY DEF InputInit
  <1>3. /\ Good(st) /\ st.next_sequence = 1 /\ st.mouse_buttons_state = {}
        /\ \A i \in 1 .. MaxGamepads : st.slots[i] = None
        /\ st.typed = None
    BY <1>1, <1>2, InitialIsGood
  <1>4. user \in Users(conf.uses.pads)
    BY <1>2
  <1>5. mc \in [active : BOOLEAN, key : Mods \cup {None}]
    BY <1>2
  <1>6. st.next_sequence <= MaxSequence
    BY <1>3, InputBoundAssumption
  <1>7. HeldByUser(st, user.held) /\ PluggedByUser(st, user.pads, user.twice) /\ EachCharacterOnce
    BY <1>3 DEF HeldByUser, PluggedByUser, Follow, EachCharacterOnce
  <1> QED
    BY <1>1, <1>3, <1>4, <1>5, <1>6, <1>7 DEF InputIInv

-----------------------------------------------------------------------------
(* What a handler may change, one field at a time.                          *)

\* The fields that Good relates to each other.
Related == {"vfinger_down", "finger", "mouse_buttons_state", "slots",
            "next_sequence", "waits", "clips", "crashed", "whilePaused"}

\* The other fields only have a type.
LEMMA UnrelatedKeeps ==
    ASSUME NEW s, Good(s), NEW t, DOMAIN t = StateFields, \A f \in Related : t[f] = s[f],
           t.disconnected \in BOOLEAN, t.paused \in BOOLEAN, t.last \in Lasts
    PROVE  Good(t)
  <1>1. /\ t.vfinger_down = s.vfinger_down /\ t.finger = s.finger
        /\ t.mouse_buttons_state = s.mouse_buttons_state /\ t.slots = s.slots
        /\ t.next_sequence = s.next_sequence /\ t.waits = s.waits
        /\ t.clips = s.clips /\ t.crashed = s.crashed /\ t.whilePaused = s.whilePaused
    BY DEF Related
  <1>2. HandsFit(t)
    BY <1>1 DEF Good, HandsFit
  <1>3. SlotsFit(t)
    BY <1>1 DEF Good, SlotsFit
  <1>4. PastesFit(t)
    BY <1>1 DEF Good, PastesFit
  <1> QED
    BY <1>1, <1>2, <1>3, <1>4 DEF Good

\* A step that changes nothing.
LEMMA NoStep ==
    ASSUME NEW s, Good(s)
    PROVE  KeyStep(s, s)
  BY DEF KeyStep, Beside

\* The repeats of N are counted.
LEMMA CountKeyStep ==
    ASSUME NEW s, Good(s), NEW e, e.mods \subseteq Mods, NEW t, t = count_key(s, e)
    PROVE  /\ KeyStep(s, t) /\ t.paused = s.paused
           /\ t.typed = s.typed /\ t.times = s.times
  <1>1. CASE t = s
    BY <1>1, NoStep
  <1>2. CASE t # s
    <2> DEFINE last == IF e.key = "n" THEN <<e.mods>> ELSE <<>>
               again == (e.key = "n" /\ s.last = <<e.mods>>)
               r == [s EXCEPT !.key_repeat = again]
    <2>1. t = [r EXCEPT !.last = last]
      BY <1>2 DEF count_key
    <2>2. last \in Lasts
      BY DEF Lasts
    <2>3. DOMAIN s = StateFields
      BY DEF Good
    <2> HIDE DEF last, again
    <2>4. /\ DOMAIN r = StateFields /\ \A g \in StateFields : g # "key_repeat" => r[g] = s[g]
      BY <2>3
    <2> HIDE DEF r
    <2>5. /\ DOMAIN t = StateFields /\ t.last = last
          /\ \A g \in StateFields : g # "last" => t[g] = r[g]
      BY <2>1, <2>4 DEF StateFields
    <2>6. \A g \in StateFields : g \notin {"last", "key_repeat"} => t[g] = s[g]
      BY <2>4, <2>5
    <2>7. \A g \in Related : t[g] = s[g]
      BY <2>6 DEF Related, StateFields
    <2>8. /\ t.paused = s.paused /\ t.typed = s.typed /\ t.times = s.times
          /\ t.disconnected = s.disconnected
      BY <2>6 DEF StateFields
    <2>9. Good(t)
      BY <2>2, <2>5, <2>7, <2>8, UnrelatedKeeps DEF Good
    <2>10. /\ t.mouse_buttons_state = s.mouse_buttons_state /\ t.slots = s.slots
           /\ t.next_sequence = s.next_sequence
      BY <2>7 DEF Related
    <2> QED
      BY <2>8, <2>9, <2>10 DEF KeyStep, Beside
  <1> QED
    BY <1>1, <1>2

\* A character that is sent is counted.
LEMMA CountStep ==
    ASSUME NEW s, Good(s), NEW t, t = Count(s)
    PROVE  /\ KeyStep(s, t) /\ t.paused = s.paused /\ t.typed = s.typed
           /\ s.typed # None => t.times = s.times + 1
  <1>1. CASE s.typed = None
    BY <1>1, NoStep DEF Count
  <1>2. CASE s.typed # None
    <2>1. t = [s EXCEPT !.times = s.times + 1] /\ DOMAIN s = StateFields
      BY <1>2 DEF Count, Good
    <2>2. /\ DOMAIN t = StateFields /\ t.times = s.times + 1
          /\ \A g \in StateFields : g # "times" => t[g] = s[g]
      BY <2>1 DEF StateFields
    <2>3. \A g \in Related : t[g] = s[g]
      BY <2>2 DEF Related, StateFields
    <2>4. /\ t.paused = s.paused /\ t.typed = s.typed /\ t.last = s.last
          /\ t.disconnected = s.disconnected
      BY <2>2 DEF StateFields
    <2>5. Good(t)
      BY <2>2, <2>3, <2>4, UnrelatedKeeps DEF Good
    <2>6. /\ t.mouse_buttons_state = s.mouse_buttons_state /\ t.slots = s.slots
          /\ t.next_sequence = s.next_sequence
      BY <2>3 DEF Related
    <2> QED
      BY <2>2, <2>4, <2>5, <2>6 DEF KeyStep, Beside
  <1> QED
    BY <1>1, <1>2

\* What is pushed is recorded only while paused.
LEMMA PushIs ==
    ASSUME NEW s, NEW kind, NEW ok, ~s.paused
    PROVE  Push(s, kind, ok) = s
  BY DEF Push

\* The torch, the gamepads and files may be used while paused.
LEMMA PushStep ==
    ASSUME NEW s, Good(s), NEW kind \in {"torch", "gamepad_device", "file"}, NEW ok,
           NEW t, t = Push(s, kind, ok)
    PROVE  /\ KeyStep(s, t)
           /\ \A g \in StateFields : g # "whilePaused" => t[g] = s[g]
  <1>1. CASE t = s
    BY <1>1, NoStep
  <1>2. CASE t = [s EXCEPT !.whilePaused = s.whilePaused \cup {kind}]
    <2>1. /\ DOMAIN t = StateFields /\ t.whilePaused = s.whilePaused \cup {kind}
          /\ \A g \in StateFields : g # "whilePaused" => t[g] = s[g]
      BY <1>2 DEF Good, StateFields
    <2>2. /\ t.vfinger_down = s.vfinger_down /\ t.finger = s.finger
          /\ t.mouse_buttons_state = s.mouse_buttons_state /\ t.slots = s.slots
          /\ t.next_sequence = s.next_sequence /\ t.waits = s.waits
          /\ t.clips = s.clips /\ t.crashed = s.crashed
          /\ t.disconnected = s.disconnected /\ t.paused = s.paused /\ t.last = s.last
          /\ t.typed = s.typed
      BY <2>1 DEF StateFields
    <2>3. HandsFit(t) /\ PastesFit(t)
      BY <2>2 DEF Good, HandsFit, PastesFit
    <2>4. SlotsFit(t)
      BY <2>2 DEF Good, SlotsFit
    <2>5. Good(t)
      BY <2>1, <2>2, <2>3, <2>4 DEF Good
    <2> QED
      BY <2>1, <2>2, <2>5 DEF KeyStep, Beside
  <1> QED
    BY <1>1, <1>2 DEF Push

\* The video is paused, or not.
LEMMA PauseStep ==
    ASSUME NEW s, Good(s), NEW b \in BOOLEAN, NEW t, t = [s EXCEPT !.paused = b]
    PROVE  KeyStep(s, t)
  <1>1. /\ DOMAIN t = StateFields /\ t.paused = b
        /\ \A g \in StateFields : g # "paused" => t[g] = s[g]
    BY DEF Good, StateFields
  <1>2. \A g \in Related : t[g] = s[g]
    BY <1>1 DEF Related, StateFields
  <1>3. t.typed = s.typed /\ t.last = s.last /\ t.disconnected = s.disconnected
    BY <1>1 DEF StateFields
  <1>4. Good(t)
    BY <1>1, <1>2, <1>3, UnrelatedKeeps, ZenonT(60) DEF Good
  <1>5. /\ t.mouse_buttons_state = s.mouse_buttons_state /\ t.slots = s.slots
        /\ t.next_sequence = s.next_sequence
    BY <1>2 DEF Related
  <1> QED
    BY <1>3, <1>4, <1>5 DEF KeyStep, Beside

-----------------------------------------------------------------------------
(* Keys.                                                                    *)

\* A message to the keyboard or to the device finds it.
LEMMA MessagesArrive ==
    ASSUME Decides(conf), NEW s, ~s.paused, NEW kind, NEW ok
    PROVE  /\ conf.kp # None => ToKeyboard(s, kind, ok) = s
           /\ conf.control /\ ~conf.camera => ToDevice(s, kind, ok) = s
  BY PushIs DEF ToKeyboard, ToDevice, Decides

\* While paused, a device gets nothing from a shortcut; else nothing changes.
LEMMA DeviceShortcutIs ==
    ASSUME Decides(conf), NEW s, NEW e, NEW ok, conf.control, ~conf.camera
    PROVE  device_shortcut(s, e, ok) = s
  <1>1. CASE s.paused
    BY <1>1 DEF device_shortcut
  <1>2. CASE ~s.paused
    <2>1. /\ set_display_power(s, ok) = s /\ collapse_panels(s, ok) = s
          /\ expand_settings_panel(s, ok) = s /\ expand_notification_panel(s, ok) = s
          /\ rotate_device(s, ok) = s /\ open_hard_keyboard_settings(s, ok) = s
      BY <1>2, MessagesArrive DEF set_display_power, collapse_panels, expand_settings_panel,
         expand_notification_panel, rotate_device, open_hard_keyboard_settings
    <2>2. conf.kp # None => /\ send_keycode(s, ok) = s /\ get_device_clipboard(s, ok) = s
                            /\ clipboard_paste(s, ok) = s /\ set_device_clipboard(s, 0, ok) = s
      BY <1>2, MessagesArrive DEF send_keycode, get_device_clipboard, clipboard_paste,
         set_device_clipboard
    <2> QED
      BY <2>1, <2>2, Zenon DEF device_shortcut
  <1> QED
    BY <1>1, <1>2

\* The shortcuts: the torch, the pause, or nothing.
LEMMA ShortcutStep ==
    ASSUME Decides(conf), NEW s, Good(s), NEW e, NEW ok, NEW t, t = shortcut(s, e, ok)
    PROVE  KeyStep(s, t)
  <1>1. CASE is_window_shortcut(e)
    <2>1. t = window_shortcut(s, e)
      BY <1>1 DEF shortcut
    <2>2. CASE t = s
      BY <2>2, NoStep
    <2>3. CASE t = [s EXCEPT !.paused = ~shift(e.mods)]
      BY <2>3, PauseStep
    <2> QED
      BY <2>1, <2>2, <2>3 DEF window_shortcut
  <1>2. CASE ~is_window_shortcut(e) /\ (s.disconnected \/ ~conf.control)
    BY <1>2, NoStep DEF shortcut
  <1>3. CASE ~is_window_shortcut(e) /\ ~s.disconnected /\ conf.control
    <2>1. CASE e.key = "r" /\ shift(e.mods)
      <3>1. ~s.paused => reset_video(s, ok) = s
        BY <1>3, PushIs DEF reset_video
      <3>2. t = s
        BY <1>3, <2>1, <3>1 DEF shortcut
      <3> QED
        BY <3>2, NoStep
    <2>2. CASE ~(e.key = "r" /\ shift(e.mods)) /\ conf.camera
      <3>1. t = camera_shortcut(s, e, ok)
        BY <1>3, <2>2 DEF shortcut
      <3>2. camera_set_torch(s, ok) = Push(s, "torch", ok)
        BY <1>3, <2>2 DEF camera_set_torch, ToCamera
      <3>3. ~s.paused => camera_zoom(s, ok) = s
        BY <1>3, <2>2, PushIs DEF camera_zoom, ToCamera
      <3>4. t = s \/ t = Push(s, "torch", ok)
        BY <3>1, <3>2, <3>3, Zenon DEF camera_shortcut
      <3> QED
        BY <3>4, NoStep, PushStep
    <2>3. CASE ~(e.key = "r" /\ shift(e.mods)) /\ ~conf.camera
      <3>1. t = device_shortcut(s, e, ok)
        BY <1>3, <2>3 DEF shortcut
      <3>2. t = s
        BY <1>3, <2>3, <3>1, DeviceShortcutIs
      <3> QED
        BY <3>2, NoStep
    <2> QED
      BY <2>1, <2>2, <2>3
  <1> QED
    BY <1>1, <1>2, <1>3

\* The key of an AOA keyboard waits for clipboards that were sent.
LEMMA WaitStep ==
    ASSUME NEW s, Good(s), NEW w, w \subseteq s.clips, NEW t, t = [s EXCEPT !.waits = w]
    PROVE  KeyStep(s, t) /\ t.paused = s.paused
  <1>1. /\ DOMAIN t = StateFields /\ t.waits = w
        /\ \A g \in StateFields : g # "waits" => t[g] = s[g]
    BY DEF Good, StateFields
  <1>2. /\ t.vfinger_down = s.vfinger_down /\ t.finger = s.finger
        /\ t.mouse_buttons_state = s.mouse_buttons_state /\ t.slots = s.slots
        /\ t.next_sequence = s.next_sequence
        /\ t.whilePaused = s.whilePaused
        /\ t.clips = s.clips /\ t.crashed = s.crashed
        /\ t.disconnected = s.disconnected /\ t.paused = s.paused /\ t.last = s.last
        /\ t.typed = s.typed
    BY <1>1 DEF StateFields
  <1>3. HandsFit(t) /\ PastesFit(t)
    BY <1>1, <1>2 DEF Good, HandsFit, PastesFit
  <1>4. SlotsFit(t)
    BY <1>2 DEF Good, SlotsFit
  <1>5. Good(t)
    BY <1>1, <1>2, <1>3, <1>4 DEF Good
  <1> QED
    BY <1>2, <1>5 DEF KeyStep, Beside

\* A keyboard sends a key, which may wait for a clipboard that was sent.
LEMMA KeyboardStep ==
    ASSUME Decides(conf), conf.kp # None, NEW s, Good(s), ~s.paused, NEW e, NEW n,
           n = 0 \/ n \in s.clips, NEW ok, NEW t, t = process_key_by_kp(s, e, n, ok)
    PROVE  KeyStep(s, t) /\ t.paused = s.paused
  <1>1. CASE t = s
    BY <1>1, NoStep
  <1>2. CASE t = Count(s)
    BY <1>2, CountStep
  <1> DEFINE w == IF n = 0 THEN s.waits ELSE s.waits \cup {n}
  <1>3. CASE t = [s EXCEPT !.waits = w]
    <2>1. w \subseteq s.clips
      BY DEF Good, PastesFit
    <2> HIDE DEF w
    <2> QED
      BY <1>3, <2>1, WaitStep
  <1>4. t = s \/ t = Count(s) \/ t = [s EXCEPT !.waits = w]
    <2>1. CASE conf.kp = "sdk"
      <3>1. t = keyboard_sdk_process_key(s, e, ok)
        BY <2>1 DEF process_key_by_kp
      <3> QED
        BY <3>1, PushIs DEF keyboard_sdk_process_key
    <2>2. CASE conf.kp = "uhid"
      <3>1. t = keyboard_uhid_process_key(s, e, ok)
        BY <2>2 DEF process_key_by_kp
      <3> QED
        BY <3>1, PushIs DEF keyboard_uhid_process_key
    <2>3. CASE conf.kp = "aoa"
      <3>1. t = keyboard_aoa_process_key(s, e, n, ok)
        BY <2>3 DEF process_key_by_kp
      <3> QED
        BY <3>1, PushIs DEF keyboard_aoa_process_key
    <2> QED
      BY <2>1, <2>2, <2>3 DEF Decides
  <1> QED
    BY <1>1, <1>2, <1>3, <1>4

\* What a key that is forwarded does: it may paste.
Forwards(s, t, e) ==
    /\ Good(t) /\ Beside(s, t)
    /\ \/ t.next_sequence = s.next_sequence
       \/ is_ctrl_v(e) /\ t.next_sequence = s.next_sequence + 1

\* A clipboard is sent with the next number.
LEMMA ClipStep ==
    ASSUME NEW s, Good(s), NEW r, r = [s EXCEPT !.clips = s.clips \cup {s.next_sequence}],
           NEW t, t = [r EXCEPT !.next_sequence = s.next_sequence + 1]
    PROVE  /\ Good(t) /\ Beside(s, t) /\ t.next_sequence = s.next_sequence + 1
           /\ s.next_sequence \in t.clips /\ t.paused = s.paused
  <1>1. /\ DOMAIN r = StateFields /\ r.clips = s.clips \cup {s.next_sequence}
        /\ \A g \in StateFields : g # "clips" => r[g] = s[g]
    BY DEF Good, StateFields
  <1>2. /\ DOMAIN t = StateFields /\ t.next_sequence = s.next_sequence + 1
        /\ \A g \in StateFields : g # "next_sequence" => t[g] = r[g]
    BY <1>1 DEF StateFields
  <1>3. /\ t.vfinger_down = s.vfinger_down /\ t.finger = s.finger
        /\ t.mouse_buttons_state = s.mouse_buttons_state /\ t.slots = s.slots
        /\ t.whilePaused = s.whilePaused /\ t.waits = s.waits
        /\ t.clips = s.clips \cup {s.next_sequence} /\ t.crashed = s.crashed
        /\ t.disconnected = s.disconnected /\ t.paused = s.paused /\ t.last = s.last
        /\ t.typed = s.typed
    BY <1>1, <1>2 DEF StateFields
  <1>4. HandsFit(t)
    BY <1>3 DEF Good, HandsFit
  <1>5. SlotsFit(t)
    BY <1>3 DEF Good, SlotsFit
  <1>6. PastesFit(t)
    <2>1. /\ s.next_sequence \in Nat \ {0} /\ s.waits \subseteq s.clips /\ s.clips \subseteq Nat
          /\ \A c \in s.clips : c < s.next_sequence
      BY DEF Good, PastesFit
    <2>2. \A c \in t.clips : c < s.next_sequence + 1
      <3> SUFFICES ASSUME NEW c \in t.clips PROVE c < s.next_sequence + 1
        OBVIOUS
      <3>1. CASE c \in s.clips
        BY <2>1, <3>1
      <3>2. CASE c = s.next_sequence
        BY <2>1, <3>2
      <3> QED
        BY <1>3, <3>1, <3>2
    <2> QED
      BY <1>2, <1>3, <2>1, <2>2 DEF PastesFit
  <1>7. Good(t)
    BY <1>2, <1>3, <1>4, <1>5, <1>6 DEF Good
  <1> QED
    BY <1>2, <1>3, <1>7 DEF Beside

\* Ctrl+v: the clipboard, then the key that waits for it.
LEMMA PasteStep ==
    ASSUME Decides(conf), conf.kp # None, NEW s, Good(s), ~s.paused, NEW e, is_ctrl_v(e),
           NEW ok \in BOOLEAN, NEW ok2 \in BOOLEAN, NEW t, t = paste_key(s, e, ok, ok2)
    PROVE  Forwards(s, t, e)
  <1> DEFINE n == IF async_paste THEN s.next_sequence ELSE 0
             sent == set_device_clipboard(s, n, ok)
             r == [sent EXCEPT !.next_sequence = @ + (IF async_paste THEN 1 ELSE 0)]
  <1>0. s.next_sequence \in Nat \ {0} /\ DOMAIN s = StateFields
    BY DEF Good, PastesFit
  <1>1. ToKeyboard(s, "set_clipboard", ok) = s
    BY MessagesArrive
  <1>2. CASE ~ok
    <2>1. t = s
      BY <1>1, <1>2 DEF paste_key, set_device_clipboard
    <2> QED
      BY <2>1 DEF Forwards, Beside
  <1>3. CASE ok /\ ~async_paste
    <2>1. sent = s /\ n = 0
      BY <1>1, <1>3 DEF set_device_clipboard
    <2>2. r = [s EXCEPT !.next_sequence = s.next_sequence + 0]
      BY <1>3, <2>1
    <2>3. t = process_key_by_kp(r, e, 0, ok2)
      BY <1>3, <2>1 DEF paste_key
    <2> HIDE DEF n, sent, r
    <2>4. DOMAIN r = StateFields /\ \A f \in StateFields : r[f] = s[f]
      BY <1>0, <2>2 DEF StateFields
    <2>5. /\ r.paused = s.paused /\ r.disconnected = s.disconnected /\ r.last = s.last
          /\ r.typed = s.typed /\ \A f \in Related : r[f] = s[f]
      BY <2>4 DEF StateFields, Related
    <2>6. Good(r)
      BY <2>4, <2>5, UnrelatedKeeps DEF Good
    <2>7. KeyStep(r, t)
      BY <2>3, <2>5, <2>6, KeyboardStep
    <2>8. Beside(s, r) /\ r.next_sequence = s.next_sequence
      BY <2>5 DEF Beside, Related
    <2> QED
      BY <2>7, <2>8 DEF Forwards, KeyStep, Beside
  <1>4. CASE ok /\ async_paste
    <2>1. n = s.next_sequence /\ n # 0
      BY <1>0, <1>4
    <2>2. sent = [s EXCEPT !.clips = s.clips \cup {s.next_sequence}]
      BY <1>1, <1>4, <2>1 DEF set_device_clipboard
    <2>3. r = [sent EXCEPT !.next_sequence = sent.next_sequence + 1]
      BY <1>4
    <2>4. t = process_key_by_kp(r, e, n, ok2)
      BY <1>4 DEF paste_key
    <2> HIDE DEF n, sent, r
    <2>5. sent.next_sequence = s.next_sequence
      BY <1>0, <2>2 DEF StateFields
    <2>6. /\ Good(r) /\ Beside(s, r) /\ r.next_sequence = s.next_sequence + 1
          /\ n \in r.clips /\ r.paused = s.paused
      BY <2>1, <2>2, <2>3, <2>5, ClipStep, ZenonT(60)
    <2>7. KeyStep(r, t)
      BY <2>4, <2>6, KeyboardStep
    <2> QED
      BY <2>6, <2>7 DEF Forwards, KeyStep, Beside
  <1> QED
    BY <1>2, <1>3, <1>4

\* A key that is no shortcut.
LEMMA ForwardStep ==
    ASSUME Decides(conf), NEW s, Good(s), NEW e, NEW ok \in BOOLEAN, NEW ok2 \in BOOLEAN,
           NEW t, t = forward_key(s, e, ok, ok2)
    PROVE  Forwards(s, t, e)
  <1>1. CASE conf.kp = None \/ s.paused
    <2>1. t = s
      BY <1>1 DEF forward_key
    <2> QED
      BY <2>1 DEF Forwards, Beside
  <1>2. CASE conf.kp # None /\ ~s.paused
    <2>1. ~conf.camera
      BY <1>2 DEF Decides
    <2>2. CASE ~(conf.clipboard_autosync /\ is_ctrl_v(e))
      <3>1. t = process_key_by_kp(s, e, 0, ok)
        BY <1>2, <2>1, <2>2 DEF forward_key
      <3>2. KeyStep(s, t)
        BY <1>2, <3>1, KeyboardStep
      <3> QED
        BY <3>2 DEF Forwards, KeyStep
    <2>3. CASE is_ctrl_v(e) /\ t = clipboard_paste(s, ok)
      <3>1. t = s
        BY <1>2, <2>3, MessagesArrive DEF clipboard_paste
      <3> QED
        BY <3>1 DEF Forwards, Beside
    <2>4. CASE is_ctrl_v(e) /\ t = paste_key(s, e, ok, ok2)
      BY <1>2, <2>4, PasteStep
    <2> QED
      BY <1>2, <2>1, <2>2, <2>3, <2>4 DEF forward_key
  <1> QED
    BY <1>1, <1>2

\* A key.
LEMMA ProcessKeyStep ==
    ASSUME Decides(conf), NEW s, Good(s), NEW e, e.mods \subseteq Mods,
           NEW ok \in BOOLEAN, NEW ok2 \in BOOLEAN, NEW t, t = process_key(s, e, ok, ok2)
    PROVE  Forwards(s, t, e)
  <1> DEFINE c == count_key(s, e)
  <1>1. KeyStep(s, c)
    BY CountKeyStep
  <1>2. CASE t = c
    BY <1>1, <1>2 DEF Forwards, KeyStep
  <1>3. CASE t = shortcut(c, e, ok)
    <2> HIDE DEF c
    <2>1. KeyStep(c, t)
      BY <1>1, <1>3, ShortcutStep DEF KeyStep
    <2> QED
      BY <1>1, <2>1 DEF Forwards, KeyStep, Beside
  <1>4. CASE t = forward_key(c, e, ok, ok2)
    <2> HIDE DEF c
    <2>1. Forwards(c, t, e)
      BY <1>1, <1>4, ForwardStep DEF KeyStep
    <2> QED
      BY <1>1, <2>1 DEF Forwards, KeyStep, Beside
  <1>5. t = c \/ t = shortcut(c, e, ok) \/ t = forward_key(c, e, ok, ok2)
    <2> HIDE DEF c
    <2>1. c = count_key(s, e)
      BY DEF c
    <2> QED
      BY <2>1, Zenon DEF process_key
  <1> QED
    BY <1>2, <1>3, <1>4, <1>5

\* A text that follows a key.
LEMMA TextStep ==
    ASSUME NEW s, Good(s), NEW key, NEW mods, NEW ok, NEW t,
           t = process_text_input(s, key, mods, ok)
    PROVE  KeyStep(s, t)
  <1>1. t = s \/ t = Count(s)
    BY PushIs DEF process_text_input, keyboard_sdk_process_text
  <1> QED
    BY <1>1, NoStep, CountStep

\* What a key that writes a character is converted to.
LEMMA Conversions ==
    ASSUME Decides(conf), NEW key, NEW mods, WritesText(key, mods)
    PROVE  convert_keycode(key, mods) <=>
             \/ conf.key_inject_mode # "text" /\ key \in alphaspace_keys
             \/ conf.key_inject_mode = "raw" /\ key \in numbers_punct_keys
  <1>1. /\ mods \subseteq {"lshift", "num"}
        /\ key \in alphaspace_keys \cup {"1", "kp1", "eacute"}
        /\ key = "kp1" => mods # {}
    BY FS_EmptySet DEF WritesText
  <1>2. ~ctrl(mods)
    BY <1>1 DEF ctrl
  <1>3. key \notin special_keys
    BY <1>1 DEF special_keys, alphaspace_keys
  <1>4. ~(key \in kp_nav_keys /\ ~shift(mods) /\ "num" \notin mods)
    BY <1>1 DEF kp_nav_keys, shift
  <1> QED
    BY <1>2, <1>3, <1>4 DEF convert_keycode

\* The press of a key, and the text that follows.
Press(key, mods) == [key |-> key, mods |-> mods, down |-> TRUE, repeat |-> FALSE]
PressAndText(s, key, mods, ok, ok2) ==
    process_text_input(process_key(s, Press(key, mods), ok, TRUE), key, mods, ok2)

\* A character that is typed on the keyboard of the SDK is sent once.
LEMMA TypingStep ==
    ASSUME Decides(conf), conf.kp = "sdk", NEW s, Good(s), ~s.paused, ~s.disconnected,
           NEW mods, NEW key, WritesText(key, mods), mods \subseteq Mods,
           s.typed = key, key # None, s.times = 0,
           NEW ok \in BOOLEAN, NEW ok2 \in BOOLEAN,
           NEW t, t = PressAndText(s, key, mods, ok, ok2)
    PROVE  /\ t.typed = key
           /\ \/ t.times = 1
              \/ /\ conf.key_inject_mode = "raw"
                 /\ key \notin alphaspace_keys \cup numbers_punct_keys /\ t.times = 0
  <1> DEFINE e == Press(key, mods)
             p == process_key(s, e, ok, TRUE)
             c == count_key(s, e)
  <1>a. 0 + 1 = 1
    OBVIOUS
  <1>t. t = process_text_input(p, key, mods, ok2)
    BY DEF PressAndText
  <1>0. /\ mods \subseteq {"lshift", "num"}
        /\ key \in alphaspace_keys \cup {"1", "kp1", "eacute"}
    BY DEF WritesText
  <1>1. ~ctrl(mods) /\ ~is_shortcut_mod(mods) /\ ~is_shortcut_key(key) /\ key # "f11"
    BY <1>0 DEF ctrl, is_shortcut_mod, is_shortcut_key, Decides, ShortcutMods, alphaspace_keys
  <1>2. /\ e.key = key /\ e.mods = mods /\ e.repeat = FALSE
    BY DEF Press
  <1>3. p = forward_key(c, e, ok, TRUE)
    BY <1>1, <1>2 DEF process_key
  <1>4. /\ Good(c) /\ ~c.paused /\ ~c.disconnected /\ c.typed = key /\ c.times = 0
    BY <1>2, CountKeyStep DEF KeyStep, Beside
  <1> HIDE DEF c, p, e
  <1>5. ~is_ctrl_v(e) /\ conf.kp # None /\ ~conf.camera
    BY <1>1, <1>2 DEF is_ctrl_v, Decides, None
  <1>6. p = process_key_by_kp(c, e, 0, ok)
    BY <1>3, <1>4, <1>5 DEF forward_key
  <1>7. p = keyboard_sdk_process_key(c, e, ok)
    BY <1>6 DEF process_key_by_kp
  <1>8. p = IF convert_keycode(key, mods) THEN Count(c) ELSE c
    BY <1>2, <1>4, <1>7, PushIs DEF keyboard_sdk_process_key
  <1> DEFINE asKey == \/ conf.key_inject_mode # "text" /\ key \in alphaspace_keys
                      \/ conf.key_inject_mode = "raw" /\ key \in numbers_punct_keys
             asText == ~(\/ conf.key_inject_mode = "raw"
                         \/ conf.key_inject_mode = "mixed" /\ key \in alphaspace_keys)
  <1>9. /\ Good(p) /\ ~p.paused /\ ~p.disconnected /\ p.typed = key
        /\ asKey => p.times = 1
        /\ ~asKey => p.times = 0
    <2>1. convert_keycode(key, mods) <=> asKey
      BY Conversions
    <2> HIDE DEF asKey
    <2>2. CASE asKey
      <3>1. p = Count(c)
        BY <1>8, <2>1, <2>2
      <3>2. KeyStep(c, p) /\ p.paused = c.paused /\ p.typed = c.typed /\ p.times = c.times + 1
        BY <1>4, <3>1, CountStep
      <3>3. p.times = 1
        <4>1. p.times = 0 + 1
          BY <1>4, <3>2, Zenon
        <4> QED
          BY <1>a, <4>1, Zenon
      <3>4. Good(p) /\ ~p.paused /\ ~p.disconnected /\ p.typed = key
        BY <1>4, <3>2, Zenon DEF KeyStep, Beside
      <3> QED
        BY <2>2, <3>3, <3>4
    <2>3. CASE ~asKey
      <3>1. p = c
        BY <1>8, <2>1, <2>3
      <3> QED
        BY <1>4, <2>3, <3>1
    <2> QED
      BY <2>2, <2>3
  <1>10. t = keyboard_sdk_process_text(p, key, ok2)
    BY <1>1, <1>5, <1>9, <1>t DEF process_text_input
  <1>11. /\ t.typed = key
         /\ asText => t.times = p.times + 1
         /\ ~asText => t.times = p.times
    <2>0. Push(p, "text", ok2) = p
      BY <1>9, PushIs
    <2>1. CASE asText
      <3>1. t = Count(p)
        BY <1>10, <2>0, <2>1 DEF keyboard_sdk_process_text
      <3>2. t.typed = p.typed /\ t.times = p.times + 1
        BY <1>9, <3>1, CountStep
      <3> QED
        BY <1>9, <2>1, <3>2
    <2>2. CASE ~asText
      <3>1. t = p
        BY <1>10, <2>2 DEF keyboard_sdk_process_text
      <3> QED
        BY <1>9, <2>2, <3>1
    <2> QED
      BY <2>1, <2>2
  <1>12. conf.key_inject_mode \in {"mixed", "text", "raw"}
    BY DEF Decides, KeyInjectModes
  <1>13. asKey \/ asText => t.times = 1
    <2>1. ~(asKey /\ asText)
      BY <1>12
    <2> HIDE DEF asKey, asText
    <2>2. asText => t.times = 0 + 1
      BY <1>9, <1>11, <2>1, Zenon
    <2>3. asKey => t.times = 1
      BY <1>9, <1>11, <2>1, Zenon
    <2> QED
      BY <1>a, <2>2, <2>3, Zenon
  <1>14. ~asKey /\ ~asText => t.times = 0
    <2> HIDE DEF asKey, asText
    <2> QED
      BY <1>9, <1>11
  <1>15. \/ asKey \/ asText
         \/ /\ conf.key_inject_mode = "raw"
            /\ key \notin alphaspace_keys \cup numbers_punct_keys
    BY <1>12
  <1> HIDE DEF asKey, asText
  <1> QED
    BY <1>11, <1>13, <1>14, <1>15

-----------------------------------------------------------------------------
(* The mouse.                                                               *)

\* What the mouse changes: the buttons and the second finger.
MouseFields == {"vfinger_down", "finger", "mouse_buttons_state"}

\* A state that fits after the mouse changed it.
LEMMA MouseKeeps ==
    ASSUME NEW s, Good(s), NEW t, DOMAIN t = StateFields, HandsFit(t),
           \A f \in StateFields \ MouseFields : t[f] = s[f]
    PROVE  Good(t) /\ t.disconnected = s.disconnected /\ t.slots = s.slots
           /\ t.next_sequence = s.next_sequence /\ t.typed = s.typed /\ t.paused = s.paused
  <1>1. /\ t.slots = s.slots
        /\ t.next_sequence = s.next_sequence /\ t.waits = s.waits
        /\ t.clips = s.clips /\ t.crashed = s.crashed /\ t.whilePaused = s.whilePaused
        /\ t.disconnected = s.disconnected /\ t.paused = s.paused /\ t.last = s.last
        /\ t.typed = s.typed
    BY DEF StateFields, MouseFields
  <1>2. SlotsFit(t) /\ PastesFit(t)
    BY <1>1 DEF Good, SlotsFit, PastesFit
  <1> QED
    BY <1>1, <1>2 DEF Good

\* A motion moves the second finger with the mouse.
LEMMA MotionStep ==
    ASSUME Decides(conf), NEW s, Good(s), NEW ok, NEW ok2, NEW t,
           t = process_mouse_motion(s, ok, ok2)
    PROVE  KeyStep(s, t)
  <1>1. CASE t = s
    BY <1>1, NoStep
  <1>2. CASE t = [s EXCEPT !.finger = TRUE] /\ s.vfinger_down
    <2>1. /\ DOMAIN t = StateFields /\ t.finger = TRUE
          /\ \A f \in StateFields : f # "finger" => t[f] = s[f]
      BY <1>2 DEF Good, StateFields
    <2>2. /\ t.vfinger_down = s.vfinger_down
          /\ t.mouse_buttons_state = s.mouse_buttons_state
          /\ \A f \in StateFields \ MouseFields : t[f] = s[f]
      BY <2>1 DEF StateFields, MouseFields
    <2>3. s.vfinger_down = TRUE
      BY <1>2 DEF Good, HandsFit
    <2>4. HandsFit(t)
      BY <2>1, <2>2, <2>3 DEF Good, HandsFit
    <2> QED
      BY <2>1, <2>2, <2>4, MouseKeeps DEF KeyStep, Beside
  <1>3. CASE ~NoMouse(s)
    <2>1. process_mouse_motion_by_mp(s, ok) = s
      BY <1>3, PushIs DEF process_mouse_motion_by_mp, NoMouse
    <2>2. ~(relative_mode /\ s.vfinger_down)
      BY DEF Good, HandsFit
    <2>3. t = IF s.vfinger_down THEN simulate_virtual_finger(s, TRUE, ok2) ELSE s
      BY <1>3, <2>1, <2>2 DEF process_mouse_motion
    <2>4. simulate_virtual_finger(s, TRUE, ok2) \in {s, [s EXCEPT !.finger = TRUE]}
      BY <1>3, PushIs DEF simulate_virtual_finger, NoMouse
    <2> QED
      BY <1>1, <1>2, <2>3, <2>4
  <1>4. CASE NoMouse(s)
    BY <1>1, <1>4 DEF process_mouse_motion
  <1> QED
    BY <1>3, <1>4

\* A touch changes nothing here.
LEMMA TouchStep ==
    ASSUME NEW s, NEW ok
    PROVE  process_touch(s, ok) = s
  BY PushIs DEF process_touch, NoMouse

\* The wheel is safe with a mouse.
LEMMA WheelStep ==
    ASSUME NEW s, Good(s), NEW ok, NEW t, t = process_mouse_wheel(s, ok),
           WheelAnywhere \/ conf.mp # None
    PROVE  KeyStep(s, t)
  <1>1. CASE t = s
    BY <1>1, NoStep
  <1>2. CASE t = Crash(s) /\ WheelCrashes
    <2>1. /\ DOMAIN t = StateFields /\ t.crashed = TRUE
          /\ \A f \in StateFields : f # "crashed" => t[f] = s[f]
      BY <1>2 DEF Good, StateFields, Crash
    <2>2. /\ t.vfinger_down = s.vfinger_down /\ t.finger = s.finger
          /\ t.mouse_buttons_state = s.mouse_buttons_state /\ t.slots = s.slots
          /\ t.next_sequence = s.next_sequence /\ t.waits = s.waits
          /\ t.clips = s.clips /\ t.whilePaused = s.whilePaused
          /\ t.disconnected = s.disconnected /\ t.paused = s.paused /\ t.last = s.last
          /\ t.typed = s.typed
      BY <2>1 DEF StateFields
    <2>3. HandsFit(t) /\ PastesFit(t)
      BY <2>2 DEF Good, HandsFit, PastesFit
    <2>4. SlotsFit(t)
      BY <2>2 DEF Good, SlotsFit
    <2>5. Good(t)
      BY <1>2, <2>1, <2>2, <2>3, <2>4 DEF Good
    <2> QED
      BY <2>2, <2>5 DEF KeyStep, Beside
  <1>3. t = s \/ (t = Crash(s) /\ WheelCrashes)
    BY PushIs DEF process_mouse_wheel, process_mouse_scroll, WheelCrashes
  <1> QED
    BY <1>1, <1>2, <1>3

\* The state after a button: of the buttons, only this one changes.
Clicks(s, t, button, down) ==
    /\ Good(t) /\ t.disconnected = s.disconnected /\ t.slots = s.slots
    /\ t.next_sequence = s.next_sequence /\ t.typed = s.typed
    /\ ~s.disconnected =>
          t.mouse_buttons_state \subseteq (IF down THEN s.mouse_buttons_state \cup {button}
                                           ELSE s.mouse_buttons_state \ {button})

\* A button that is bound is bound to a message that the device takes.
LEMMA BoundButtonIs ==
    ASSUME Decides(conf), NEW s, ~s.paused, conf.control, ~conf.camera, NEW e,
           e.button \in Buttons, NEW ok
    PROVE  bound_button(s, e, ok) = s
  <1>1. get_binding(e.button, e.mods) # "auto"
    BY DEF get_binding, Decides, Buttons
  <1>2. conf.kp # None => send_keycode(s, ok) = s /\ press_back_or_turn_screen_on(s, ok) = s
    BY MessagesArrive DEF send_keycode, press_back_or_turn_screen_on
  <1>3. expand_settings_panel(s, ok) = s /\ expand_notification_panel(s, ok) = s
    BY MessagesArrive DEF expand_settings_panel, expand_notification_panel
  <1> QED
    BY <1>1, <1>2, <1>3 DEF bound_button

\* The buttons that are pressed.
LEMMA PressStep ==
    ASSUME NEW s, Good(s), ~conf.camera, NEW b, b \subseteq Buttons,
           NEW t, t = [s EXCEPT !.mouse_buttons_state = b]
    PROVE  /\ Good(t) /\ t.disconnected = s.disconnected /\ t.slots = s.slots
           /\ t.next_sequence = s.next_sequence /\ t.typed = s.typed /\ t.paused = s.paused
           /\ t.mouse_buttons_state = b /\ t.vfinger_down = s.vfinger_down
  <1>1. /\ DOMAIN t = StateFields /\ t.mouse_buttons_state = b
        /\ \A f \in StateFields : f # "mouse_buttons_state" => t[f] = s[f]
    BY DEF Good, StateFields
  <1>2. /\ t.vfinger_down = s.vfinger_down /\ t.finger = s.finger
        /\ \A f \in StateFields \ MouseFields : t[f] = s[f]
    BY <1>1 DEF StateFields, MouseFields
  <1>3. HandsFit(t)
    BY <1>1, <1>2 DEF Good, HandsFit
  <1> QED
    BY <1>1, <1>2, <1>3, MouseKeeps

\* The second finger is the one that the input manager remembers.
WithFinger(s, down) == [[s EXCEPT !.finger = down] EXCEPT !.vfinger_down = down]

LEMMA FingerStep ==
    ASSUME NEW s, Good(s), ~relative_mode, NEW down \in BOOLEAN,
           NEW t, t = WithFinger(s, down)
    PROVE  /\ Good(t) /\ t.disconnected = s.disconnected /\ t.slots = s.slots
           /\ t.next_sequence = s.next_sequence /\ t.typed = s.typed
           /\ t.mouse_buttons_state = s.mouse_buttons_state
  <1> DEFINE r == [s EXCEPT !.finger = down]
  <1>0. t = [r EXCEPT !.vfinger_down = down]
    BY DEF WithFinger
  <1>1. /\ DOMAIN r = StateFields /\ r.finger = down
        /\ \A f \in StateFields : f # "finger" => r[f] = s[f]
    BY DEF Good, StateFields
  <1> HIDE DEF r
  <1>2. /\ DOMAIN t = StateFields /\ t.vfinger_down = down
        /\ \A f \in StateFields : f # "vfinger_down" => t[f] = r[f]
    BY <1>0, <1>1 DEF StateFields
  <1>3. /\ t.finger = down /\ t.mouse_buttons_state = s.mouse_buttons_state
        /\ \A f \in StateFields \ MouseFields : t[f] = s[f]
    BY <1>1, <1>2 DEF StateFields, MouseFields
  <1>4. HandsFit(t)
    BY <1>2, <1>3 DEF Good, HandsFit
  <1> HIDE DEF StateFields, MouseFields
  <1> QED
    BY <1>2, <1>3, <1>4, MouseKeeps

\* A click, and the second finger if the event was sent.
LEMMA ClickStep ==
    ASSUME Decides(conf), NEW s, Good(s), NEW e, e.button \in Buttons, e.down \in BOOLEAN,
           ~conf.camera, ~e.down => e.button \notin s.mouse_buttons_state,
           NEW ok, NEW ok2, NEW t, t = click_button(s, e, ok, ok2)
    PROVE  Clicks(s, t, e.button, e.down)
  <1> DEFINE b == IF e.down THEN s.mouse_buttons_state \cup {e.button}
                  ELSE s.mouse_buttons_state
             pressed == [s EXCEPT !.mouse_buttons_state = b]
  <1>0. b \subseteq Buttons
    BY DEF Good, HandsFit
  <1>1. /\ Good(pressed) /\ pressed.disconnected = s.disconnected
        /\ pressed.slots = s.slots /\ pressed.next_sequence = s.next_sequence
        /\ pressed.typed = s.typed /\ pressed.paused = s.paused
        /\ pressed.mouse_buttons_state = b /\ pressed.vfinger_down = s.vfinger_down
    <2> HIDE DEF b
    <2> QED
      BY <1>0, PressStep
  <1>2. CASE conf.mp = None \/ s.paused
    <2>1. t = s
      BY <1>2 DEF click_button
    <2> QED
      BY <2>1 DEF Clicks
  <1>3. CASE conf.mp # None /\ ~s.paused
    <2>0. [s EXCEPT !.mouse_buttons_state = IF e.down THEN @ \cup {e.button} ELSE @] = pressed
      OBVIOUS
    <2> HIDE DEF b, pressed
    <2>1. process_mouse_click(pressed, ok) = pressed
      BY <1>1, <1>3, PushIs DEF process_mouse_click
    <2>2. ~(relative_mode /\ s.vfinger_down)
      BY DEF Good, HandsFit
    <2>3. CASE t = pressed
      BY <1>1, <2>3 DEF Clicks, b
    <2>4. CASE ~relative_mode /\ t = WithFinger(pressed, e.down)
      <3>1. /\ Good(t) /\ t.disconnected = pressed.disconnected /\ t.slots = pressed.slots
            /\ t.next_sequence = pressed.next_sequence /\ t.typed = pressed.typed
            /\ t.mouse_buttons_state = pressed.mouse_buttons_state
        BY <1>1, <2>4, FingerStep
      <3> QED
        BY <1>1, <3>1 DEF Clicks, b
    <2>5. ok2 => simulate_virtual_finger(pressed, e.down, ok2) = [pressed EXCEPT !.finger = e.down]
      BY <1>1, <1>3, PushIs DEF simulate_virtual_finger
    <2>6. t = pressed \/ (~relative_mode /\ t = WithFinger(pressed, e.down))
      BY <1>3, <2>0, <2>1, <2>2, <2>5 DEF click_button, WithFinger
    <2> QED
      BY <2>3, <2>4, <2>6
  <1> QED
    BY <1>2, <1>3

\* A button: released first, then what it is bound to, or a click.
LEMMA ButtonStep ==
    ASSUME Decides(conf), NEW s, Good(s), NEW e, e.button \in Buttons, e.down \in BOOLEAN,
           NEW ok, NEW ok2, NEW t, t = process_mouse_button(s, e, ok, ok2)
    PROVE  Clicks(s, t, e.button, e.down)
  <1> DEFINE b == IF e.down THEN s.mouse_buttons_state
                  ELSE s.mouse_buttons_state \ {e.button}
             u == [s EXCEPT !.mouse_buttons_state = b]
  <1>0. b \subseteq Buttons /\ (conf.camera => s.mouse_buttons_state = {})
    BY DEF Good, HandsFit
  <1>1. CASE conf.camera \/ s.disconnected
    <2>1. t = s
      BY <1>1 DEF process_mouse_button
    <2> QED
      BY <1>0, <1>1, <2>1 DEF Clicks
  <1>2. CASE ~conf.camera /\ ~s.disconnected
    <2>0. [s EXCEPT !.mouse_buttons_state = IF e.down THEN @ ELSE @ \ {e.button}] = u
      OBVIOUS
    <2>1. /\ Good(u) /\ u.disconnected = s.disconnected /\ u.slots = s.slots
          /\ u.next_sequence = s.next_sequence /\ u.typed = s.typed /\ u.paused = s.paused
          /\ u.mouse_buttons_state = b
      <3> HIDE DEF b
      <3> QED
        BY <1>0, <1>2, PressStep
    <2> HIDE DEF u, b
    <2>2. CASE t = u
      BY <2>1, <2>2 DEF Clicks, b
    <2>3. CASE conf.control /\ ~s.paused /\ t = bound_button(u, e, ok)
      <3>1. t = u
        BY <1>2, <2>1, <2>3, BoundButtonIs
      <3> QED
        BY <2>2, <3>1
    <2>4. CASE t = click_button(u, e, ok, ok2)
      <3>1. ~e.down => e.button \notin u.mouse_buttons_state
        BY <2>1 DEF b
      <3>2. Clicks(u, t, e.button, e.down)
        BY <1>2, <2>1, <2>4, <3>1, ClickStep
      <3> QED
        BY <2>1, <3>2 DEF Clicks, b
    <2>5. \/ t = u \/ (conf.control /\ ~s.paused /\ t = bound_button(u, e, ok))
          \/ t = click_button(u, e, ok, ok2)
      BY <1>2, <2>0 DEF process_mouse_button
    <2> QED
      BY <2>2, <2>3, <2>4, <2>5
  <1> QED
    BY <1>1, <1>2

-----------------------------------------------------------------------------
(* Gamepads.                                                                *)

\* The slot that is found is one of those that hold the gamepad.
LEMMA SlotIsFound ==
    ASSUME NEW s, NEW pad, Slot(s, pad) # {}
    PROVE  slot_find(s, pad) \in Slot(s, pad)
  <1> DEFINE T == Slot(s, pad)
  <1>1. T \subseteq Nat /\ T # {}
    BY InputBoundAssumption DEF Slot
  <1> HIDE DEF T
  <1>2. PICK i \in T : \A j \in T : ~ (<<j, i>> \in OpToRel(<, Nat))
    BY <1>1, NatLessThanWellFounded, WFMin
  <1>3. \A j \in T : i <= j
    <2> SUFFICES ASSUME NEW j \in T PROVE i <= j
      OBVIOUS
    <2>1. i \in Nat /\ j \in Nat
      BY <1>1
    <2>2. <<j, i>> \in OpToRel(<, Nat) <=> j < i
      BY <2>1 DEF OpToRel
    <2>3. ~(j < i)
      BY <1>2, <2>2, Zenon
    <2> QED
      BY <2>1, <2>3
  <1>4. \E k \in T : \A j \in T : k <= j
    BY <1>3
  <1> QED
    BY <1>4, Zenon DEF slot_find, T

\* The slots, after one of them changed.
WithSlot(s, i, v) ==
    [Push(s, "gamepad_device", TRUE) EXCEPT !.slots[i] = v]

LEMMA SlotStep ==
    ASSUME Decides(conf), conf.gp # None, NEW s, Good(s), NEW i \in 1 .. MaxGamepads,
           NEW v \in conf.uses.pads \cup {None},
           NEW t, t = WithSlot(s, i, v)
    PROVE  /\ Good(t) /\ t.disconnected = s.disconnected
           /\ t.mouse_buttons_state = s.mouse_buttons_state
           /\ t.next_sequence = s.next_sequence /\ t.typed = s.typed
           /\ t.slots = [s.slots EXCEPT ![i] = v]
  <1> DEFINE p == Push(s, "gamepad_device", TRUE)
  <1>a. t = [p EXCEPT !.slots[i] = v]
    BY DEF WithSlot
  <1>b. "gamepad_device" \in {"torch", "gamepad_device", "file"}
    OBVIOUS
  <1>c. PICK ok : p = Push(s, "gamepad_device", ok)
    OBVIOUS
  <1> HIDE DEF p
  <1>0. KeyStep(s, p) /\ \A g \in StateFields : g # "whilePaused" => p[g] = s[g]
    BY ONLY Good(s), <1>b, <1>c, PushStep
  <1>1. Good(p) /\ \A g \in StateFields : g # "whilePaused" => p[g] = s[g]
    BY <1>0 DEF KeyStep
  <1>2. DOMAIN p = StateFields /\ p.slots = s.slots
    BY <1>1 DEF Good, StateFields
  <1>3. /\ DOMAIN t = StateFields
        /\ t.slots = [s.slots EXCEPT ![i] = v]
        /\ \A g \in StateFields : g # "slots" => t[g] = p[g]
    BY <1>a, <1>2 DEF StateFields
  <1>4. /\ t.vfinger_down = p.vfinger_down /\ t.finger = p.finger
        /\ t.mouse_buttons_state = p.mouse_buttons_state
        /\ t.next_sequence = p.next_sequence /\ t.waits = p.waits
        /\ t.whilePaused = p.whilePaused /\ t.typed = p.typed
        /\ t.clips = p.clips /\ t.crashed = p.crashed
        /\ t.disconnected = p.disconnected /\ t.paused = p.paused /\ t.last = p.last
    BY <1>3 DEF StateFields
  <1>5. HandsFit(t) /\ PastesFit(t)
    BY <1>1, <1>4 DEF Good, HandsFit, PastesFit
  <1>6. SlotsFit(t)
    <2> DEFINE f == s.slots
               g == t.slots
    <2>1. f \in [1 .. MaxGamepads -> conf.uses.pads \cup {None}] /\ g = [f EXCEPT ![i] = v]
      BY <1>3 DEF Good, SlotsFit
    <2> HIDE DEF f, g
    <2>2. g \in [1 .. MaxGamepads -> conf.uses.pads \cup {None}]
      BY <2>1
    <2> QED
      BY <2>2 DEF SlotsFit, g
  <1>7. Good(t)
    BY <1>1, <1>3, <1>4, <1>5, <1>6 DEF Good
  <1>8. /\ p.disconnected = s.disconnected /\ p.mouse_buttons_state = s.mouse_buttons_state
        /\ p.next_sequence = s.next_sequence /\ p.typed = s.typed
    BY <1>1 DEF StateFields
  <1> QED
    BY <1>3, <1>4, <1>7, <1>8

\* A gamepad that comes, or is announced again, takes one slot.
LEMMA FollowAdded ==
    ASSUME NEW f, NEW pads, NEW twice, NEW S, f \in [1 .. MaxGamepads -> S],
           Follow(f, FALSE, pads, twice), NEW i \in 1 .. MaxGamepads, f[i] = None,
           NEW pad \in S, pad # None, pad \notin twice, NEW g, g = [f EXCEPT ![i] = pad]
    PROVE  /\ pad \notin pads => Follow(g, FALSE, pads \cup {pad}, twice)
           /\ pad \in pads => Follow(g, FALSE, pads, twice \cup {pad})
  <1>1. \A j \in 1 .. MaxGamepads : g[j] = IF j = i THEN pad ELSE f[j]
    OBVIOUS
  <1>2. \A j, k \in 1 .. MaxGamepads : f[j] = pad /\ f[k] = pad => j = k
    BY DEF Follow
  <1>3. ASSUME pad \notin pads PROVE Follow(g, FALSE, pads \cup {pad}, twice)
    <2>1. \A j \in 1 .. MaxGamepads : f[j] # pad
      BY <1>3 DEF Follow
    <2> SUFFICES ASSUME NEW a \in 1 .. MaxGamepads, NEW b \in 1 .. MaxGamepads,
                        NEW c \in 1 .. MaxGamepads, g[a] # None
                 PROVE  /\ g[a] \in pads \cup {pad} \cup twice
                        /\ g[a] = g[b] /\ a # b => g[a] \in twice /\ g[a] \in pads \cup {pad}
                        /\ g[a] = g[b] /\ g[a] = g[c] => a = b \/ a = c \/ b = c
      BY Zenon DEF Follow
    <2>2. CASE a = i
      BY <1>1, <2>1, <2>2
    <2>3. CASE a # i
      <3>1. g[a] = f[a] /\ f[a] # pad /\ (g[b] = f[b] \/ g[b] = pad) /\ (g[c] = f[c] \/ g[c] = pad)
        BY <1>1, <2>1, <2>3
      <3> QED
        BY <2>3, <3>1 DEF Follow
    <2> QED
      BY <2>2, <2>3
  <1>4. ASSUME pad \in pads PROVE Follow(g, FALSE, pads, twice \cup {pad})
    <2> SUFFICES ASSUME NEW a \in 1 .. MaxGamepads, NEW b \in 1 .. MaxGamepads,
                        NEW c \in 1 .. MaxGamepads, g[a] # None
                 PROVE  /\ g[a] \in pads \cup (twice \cup {pad})
                        /\ g[a] = g[b] /\ a # b => g[a] \in twice \cup {pad} /\ g[a] \in pads
                        /\ g[a] = g[b] /\ g[a] = g[c] => a = b \/ a = c \/ b = c
      BY Zenon DEF Follow
    <2>2. CASE g[a] = pad
      BY <1>1, <1>2, <1>4, <2>2
    <2>3. CASE g[a] # pad
      <3>1. a # i /\ g[a] = f[a] /\ (g[b] = f[b] \/ g[b] = pad) /\ (g[c] = f[c] \/ g[c] = pad)
        BY <1>1, <2>3
      <3> QED
        BY <2>3, <3>1 DEF Follow
    <2> QED
      BY <2>2, <2>3
  <1> QED
    BY <1>3, <1>4

\* A gamepad that goes leaves one slot.
LEMMA FollowRemoved ==
    ASSUME NEW f, NEW pads, NEW twice, NEW S, f \in [1 .. MaxGamepads -> S], None \in S,
           Follow(f, FALSE, pads, twice), NEW i \in 1 .. MaxGamepads, NEW pad, pad # None,
           f[i] = pad, NEW g, g = [f EXCEPT ![i] = None]
    PROVE  Follow(g, FALSE, pads \ {pad}, twice)
  <1>1. \A j \in 1 .. MaxGamepads : g[j] = IF j = i THEN None ELSE f[j]
    OBVIOUS
  <1>2. \A j, k \in 1 .. MaxGamepads : j # i /\ k # i /\ f[j] = pad /\ f[k] = pad =>
           j = k /\ pad \in twice
    BY DEF Follow
  <1> SUFFICES ASSUME NEW a \in 1 .. MaxGamepads, NEW b \in 1 .. MaxGamepads,
                      NEW c \in 1 .. MaxGamepads, g[a] # None
               PROVE  /\ g[a] \in (pads \ {pad}) \cup twice
                      /\ g[a] = g[b] /\ a # b => g[a] \in twice /\ g[a] \in pads \ {pad}
                      /\ g[a] = g[b] /\ g[a] = g[c] => a = b \/ a = c \/ b = c
    BY Zenon DEF Follow
  <1>3. a # i /\ g[a] = f[a]
    BY <1>1
  <1>4. CASE g[a] = pad
    BY <1>1, <1>2, <1>3, <1>4
  <1>5. CASE g[a] # pad
    <2>1. (g[b] = f[b] \/ g[b] = None) /\ (g[c] = f[c] \/ g[c] = None)
      BY <1>1
    <2> QED
      BY <1>3, <1>5, <2>1 DEF Follow
  <1> QED
    BY <1>4, <1>5

\* What the processor of the gamepads does to the rest of the state: nothing.
SlotsOnly(s, t) ==
    /\ Good(t) /\ t.disconnected = s.disconnected
    /\ t.mouse_buttons_state = s.mouse_buttons_state
    /\ t.next_sequence = s.next_sequence /\ t.typed = s.typed

\* A gamepad that is announced takes a slot, if there is one.
LEMMA GamepadAddedStep ==
    ASSUME Decides(conf), NEW s, Good(s), NEW pads, NEW twice, PluggedByUser(s, pads, twice),
           NEW pad \in conf.uses.pads, pad \notin twice,
           NEW t, t = process_gamepad_device(s, pad, TRUE)
    PROVE  /\ SlotsOnly(s, t)
           /\ pad \notin pads => PluggedByUser(t, pads \cup {pad}, twice)
           /\ pad \in pads => PluggedByUser(t, pads, twice \cup {pad})
  <1>0. pad # None
    BY ScenariosAssumption DEF Decides
  <1>s. s.slots \in [1 .. MaxGamepads -> conf.uses.pads \cup {None}]
    BY DEF Good, SlotsFit
  <1>1. CASE t = s
    BY <1>1 DEF SlotsOnly, PluggedByUser, Follow
  <1>2. CASE t # s
    <2>1. ~s.disconnected /\ ~conf.camera /\ conf.gp # None /\ t = process_gamepad_added(s, pad)
      BY <1>2 DEF process_gamepad_device
    <2>2. Slot(s, None) # {}
      BY <1>2, <2>1 DEF process_gamepad_added
    <2> DEFINE i == slot_find(s, None)
    <2>3. i \in 1 .. MaxGamepads /\ s.slots[i] = None
      BY <2>2, SlotIsFound DEF Slot
    <2>4. t = WithSlot(s, i, pad)
      BY <2>1, <2>2 DEF process_gamepad_added, WithSlot
    <2> HIDE DEF i
    <2>5. SlotsOnly(s, t) /\ t.slots = [s.slots EXCEPT ![i] = pad]
      <3>1. pad \in conf.uses.pads \cup {None}
        OBVIOUS
      <3> QED
        BY ONLY Decides(conf), Good(s), <2>1, <2>3, <2>4, <3>1, SlotStep DEF SlotsOnly
    <2>6. s.disconnected = FALSE /\ t.disconnected = FALSE
      BY <2>1, <2>5, Zenon DEF SlotsOnly, Good
    <2>7. Follow(s.slots, FALSE, pads, twice)
      BY <2>6 DEF PluggedByUser
    <2>8. /\ pad \notin pads => Follow(t.slots, FALSE, pads \cup {pad}, twice)
          /\ pad \in pads => Follow(t.slots, FALSE, pads, twice \cup {pad})
      <3> DEFINE S == conf.uses.pads \cup {None}
                 f == s.slots
                 g == t.slots
      <3>1. /\ f \in [1 .. MaxGamepads -> S] /\ pad \in S /\ f[i] = None
            /\ g = [f EXCEPT ![i] = pad]
        BY <1>s, <2>3, <2>5
      <3>2. Follow(f, FALSE, pads, twice)
        BY <2>7
      <3> HIDE DEF S, f, g
      <3>3. /\ pad \notin pads => Follow(g, FALSE, pads \cup {pad}, twice)
            /\ pad \in pads => Follow(g, FALSE, pads, twice \cup {pad})
        BY ONLY <1>0, <2>3, <3>1, <3>2, pad \notin twice, FollowAdded
      <3> QED
        BY <3>3 DEF g
    <2> QED
      BY <2>5, <2>6, <2>8 DEF PluggedByUser
  <1> QED
    BY <1>1, <1>2

\* A gamepad that goes leaves its slot, the first one if it has two.
LEMMA GamepadRemovedStep ==
    ASSUME Decides(conf), NEW s, Good(s), NEW pads, NEW twice, PluggedByUser(s, pads, twice),
           NEW pad \in conf.uses.pads,
           NEW t, t = process_gamepad_device(s, pad, FALSE)
    PROVE  SlotsOnly(s, t) /\ PluggedByUser(t, pads \ {pad}, twice)
  <1>0. pad # None
    BY ScenariosAssumption DEF Decides
  <1>s. /\ s.slots \in [1 .. MaxGamepads -> conf.uses.pads \cup {None}]
        /\ conf.gp = None => \A j \in 1 .. MaxGamepads : s.slots[j] = None
        /\ conf.camera => conf.gp = None
    BY DEF Good, SlotsFit, Decides
  <1>1. CASE s.disconnected
    <2>1. t = s
      BY <1>1 DEF process_gamepad_device
    <2> QED
      BY <1>1, <2>1 DEF SlotsOnly, PluggedByUser, Follow
  <1>2. CASE conf.camera \/ conf.gp = None
    <2>1. t = s
      BY <1>2 DEF process_gamepad_device
    <2> QED
      BY <1>2, <1>s, <2>1 DEF SlotsOnly, PluggedByUser, Follow
  <1>3. CASE ~s.disconnected /\ ~conf.camera /\ conf.gp # None
    <2>0. t = process_gamepad_removed(s, pad)
      BY <1>3 DEF process_gamepad_device
    <2>1. CASE Slot(s, pad) = {}
      <3>1. t = s
        BY <2>0, <2>1 DEF process_gamepad_removed
      <3>2. \A j \in 1 .. MaxGamepads : s.slots[j] # pad
        BY <2>1 DEF Slot
      <3> QED
        BY <3>1, <3>2 DEF SlotsOnly, PluggedByUser, Follow
    <2>2. CASE Slot(s, pad) # {}
      <3> DEFINE i == slot_find(s, pad)
      <3>1. i \in 1 .. MaxGamepads /\ s.slots[i] = pad
        BY <2>2, SlotIsFound DEF Slot
      <3>2. t = WithSlot(s, i, None)
        BY <2>0, <2>2 DEF process_gamepad_removed, WithSlot
      <3> HIDE DEF i
      <3>3. None \in conf.uses.pads \cup {None}
        OBVIOUS
      <3>4. SlotsOnly(s, t) /\ t.slots = [s.slots EXCEPT ![i] = None]
        BY ONLY Decides(conf), Good(s), <1>3, <3>1, <3>2, <3>3, SlotStep DEF SlotsOnly
      <3>5. s.disconnected = FALSE /\ t.disconnected = FALSE
        BY <1>3, <3>4, Zenon DEF SlotsOnly, Good
      <3>6. Follow(s.slots, FALSE, pads, twice)
        BY <3>5 DEF PluggedByUser
      <3>7. Follow(t.slots, FALSE, pads \ {pad}, twice)
        BY <1>0, <1>s, <3>1, <3>3, <3>4, <3>6, FollowRemoved
      <3> QED
        BY <3>4, <3>5, <3>7 DEF PluggedByUser
    <2> QED
      BY <2>1, <2>2
  <1> QED
    BY <1>1, <1>2, <1>3

\* The report of a gamepad changes nothing here.
LEMMA GamepadInputIs ==
    ASSUME NEW s, NEW pad, NEW ok
    PROVE  process_gamepad_input(s, pad, ok) = s
  BY PushIs DEF process_gamepad_input

-----------------------------------------------------------------------------
(* The steps.                                                               *)

\* What is being typed is another field that no one relates.
LEMMA TypedStep ==
    ASSUME NEW s, Good(s), NEW v, NEW t, t = [s EXCEPT !.typed = v]
    PROVE  /\ Good(t) /\ t.typed = v /\ t.times = s.times /\ t.paused = s.paused
           /\ t.disconnected = s.disconnected /\ t.slots = s.slots
           /\ t.mouse_buttons_state = s.mouse_buttons_state
           /\ t.next_sequence = s.next_sequence
  <1>1. /\ DOMAIN t = StateFields /\ t.typed = v
        /\ \A g \in StateFields : g # "typed" => t[g] = s[g]
    BY DEF Good, StateFields
  <1>2. \A g \in Related : t[g] = s[g]
    BY <1>1 DEF Related, StateFields
  <1>3. /\ t.paused = s.paused /\ t.times = s.times /\ t.last = s.last
        /\ t.disconnected = s.disconnected
    BY <1>1 DEF StateFields
  <1>4. Good(t)
    BY <1>1, <1>2, <1>3, UnrelatedKeeps DEF Good
  <1> QED
    BY <1>1, <1>2, <1>3, <1>4 DEF Related

\* A step begins with nothing typed.
LEMMA FreshStep ==
    ASSUME Good(st)
    PROVE  /\ Good(Fresh) /\ Fresh.typed = None /\ Fresh.times = 0
           /\ Fresh.paused = st.paused /\ Fresh.disconnected = st.disconnected
           /\ Fresh.slots = st.slots /\ Fresh.mouse_buttons_state = st.mouse_buttons_state
           /\ Fresh.next_sequence = st.next_sequence
  <1> DEFINE r == [st EXCEPT !.typed = None]
             t == Fresh
  <1>0. t = [r EXCEPT !.times = 0]
    BY DEF Fresh
  <1>1. /\ Good(r) /\ r.typed = None /\ r.paused = st.paused
        /\ r.disconnected = st.disconnected /\ r.slots = st.slots
        /\ r.mouse_buttons_state = st.mouse_buttons_state
        /\ r.next_sequence = st.next_sequence
    BY TypedStep
  <1> HIDE DEF r, t
  <1>2. /\ DOMAIN t = StateFields /\ t.times = 0
        /\ \A g \in StateFields : g # "times" => t[g] = r[g]
    BY <1>0, <1>1 DEF Good, StateFields
  <1>3. \A g \in Related : t[g] = r[g]
    BY <1>2 DEF Related, StateFields
  <1>4. /\ t.paused = r.paused /\ t.typed = r.typed /\ t.last = r.last
        /\ t.disconnected = r.disconnected
    BY <1>2 DEF StateFields
  <1>5. Good(t)
    BY <1>1, <1>2, <1>3, <1>4, UnrelatedKeeps DEF Good
  <1> QED
    BY <1>1, <1>2, <1>3, <1>4, <1>5 DEF Related, t

\* The options do not change.
LEMMA GoodIsKept ==
    ASSUME conf' = conf, Good(st')
    PROVE  Good(st)'
  <1>1. relative_mode' = relative_mode
    BY DEF relative_mode
  <1>2. HandsFit(st)' /\ SlotsFit(st)' /\ PastesFit(st)'
    <2>1. HandsFit(st)'
      BY <1>1 DEF Good, HandsFit
    <2>2. SlotsFit(st)'
      BY DEF Good, SlotsFit
    <2>3. PastesFit(st)'
      BY DEF Good, PastesFit
    <2> QED
      BY <2>1, <2>2, <2>3
  <1>3. WheelCrashes' = WheelCrashes
    BY DEF WheelCrashes
  <1> QED
    BY <1>2, <1>3 DEF Good

\* What a step has to show.
LEMMA InvariantIsKept ==
    ASSUME InputIInv, conf' = conf,
           user' \in Users(conf.uses.pads),
           mc' \in [active : BOOLEAN, key : Mods \cup {None}],
           Good(st'), st'.next_sequence <= MaxSequence,
           HeldByUser(st', user'.held), PluggedByUser(st', user'.pads, user'.twice),
           st'.typed = None \/ EachCharacterOnce'
    PROVE  InputIInv'
  <1>1. Decides(conf)'
    BY DEF InputIInv, Decides
  <1>2. Good(st)'
    BY GoodIsKept
  <1>3. HeldByUser(st, user.held)'
    BY DEF HeldByUser, relative_mode
  <1>4. PluggedByUser(st, user.pads, user.twice)'
    BY DEF PluggedByUser
  <1>5. EachCharacterOnce'
    BY DEF EachCharacterOnce
  <1> QED
    BY <1>1, <1>2, <1>3, <1>4, <1>5 DEF InputIInv

\* A step that leaves the buttons and the slots alone.
LEMMA BesideIsKept ==
    ASSUME InputIInv, conf' = conf,
           user' \in Users(conf.uses.pads),
           user'.held = user.held, user'.pads = user.pads, user'.twice = user.twice,
           mc' \in [active : BOOLEAN, key : Mods \cup {None}],
           Good(st'), Beside(Fresh, st'), st'.next_sequence <= MaxSequence
    PROVE  InputIInv'
  <1>1. /\ st'.disconnected = st.disconnected /\ st'.slots = st.slots
        /\ st'.mouse_buttons_state = st.mouse_buttons_state /\ st'.typed = None
    BY FreshStep DEF InputIInv, Beside
  <1>2. HeldByUser(st', user'.held)
    BY <1>1 DEF InputIInv, HeldByUser
  <1>3. PluggedByUser(st', user'.pads, user'.twice)
    BY <1>1 DEF InputIInv, PluggedByUser
  <1> QED
    BY <1>1, <1>2, <1>3, InvariantIsKept

\* The state is typed: what the steps need of it.
LEMMA StateIs ==
    ASSUME InputIInv
    PROVE  /\ Decides(conf) /\ Good(Fresh) /\ st.next_sequence <= MaxSequence
           /\ st.next_sequence \in Nat /\ MaxSequence \in Nat
           /\ Fresh.next_sequence = st.next_sequence /\ Fresh.typed = None
           /\ Fresh.times = 0 /\ Fresh.paused = st.paused
           /\ Fresh.disconnected = st.disconnected /\ Fresh.slots = st.slots
           /\ Fresh.mouse_buttons_state = st.mouse_buttons_state
           /\ user \in Users(conf.uses.pads)
           /\ mc \in [active : BOOLEAN, key : Mods \cup {None}]
           /\ conf.uses.mods \subseteq Mods /\ conf.uses.buttons \subseteq Buttons
  <1>1. Good(st)
    BY DEF InputIInv
  <1>2. /\ Good(Fresh) /\ Fresh.next_sequence = st.next_sequence /\ Fresh.typed = None
        /\ Fresh.times = 0 /\ Fresh.paused = st.paused
        /\ Fresh.disconnected = st.disconnected /\ Fresh.slots = st.slots
        /\ Fresh.mouse_buttons_state = st.mouse_buttons_state
    BY <1>1, FreshStep
  <1>3. conf.uses.mods \subseteq Mods /\ conf.uses.buttons \subseteq Buttons
    BY ScenariosAssumption DEF InputIInv, Decides
  <1>4. st.next_sequence \in Nat /\ MaxSequence \in Nat
    BY <1>1, InputBoundAssumption DEF Good, PastesFit
  <1> QED
    BY <1>2, <1>3, <1>4 DEF InputIInv

\* The capture of the mouse keeps one key of the shortcuts.
LEMMA CaptureKeyStep ==
    ASSUME Decides(conf), mc \in [active : BOOLEAN, key : Mods \cup {None}],
           NEW key, NEW ok \in BOOLEAN
    PROVE  /\ capture_key_down(key) \in [active : BOOLEAN, key : Mods \cup {None}]
           /\ capture_key_up(key, ok) \in [active : BOOLEAN, key : Mods \cup {None}]
  <1>1. mc.active \in BOOLEAN /\ mc.key \in Mods \cup {None}
    OBVIOUS
  <1>2. is_shortcut_key(key) => key \in Mods
    BY DEF is_shortcut_key, Decides, ShortcutMods, Mods
  <1>3. capture_key_down(key) \in [active : BOOLEAN, key : Mods \cup {None}]
    <2>1. CASE ~is_shortcut_key(key)
      BY <2>1 DEF capture_key_down
    <2>2. CASE is_shortcut_key(key)
      <3> DEFINE v == IF mc.key = None THEN key ELSE None
      <3>1. v \in Mods \cup {None}
        BY <1>2, <2>2
      <3> HIDE DEF v
      <3>2. [mc EXCEPT !.key = v] \in [active : BOOLEAN, key : Mods \cup {None}]
        BY <3>1
      <3> QED
        BY <2>2, <3>2 DEF capture_key_down, v
    <2> QED
      BY <2>1, <2>2
  <1>4. capture_key_up(key, ok) \in [active : BOOLEAN, key : Mods \cup {None}]
    <2> DEFINE a == IF is_shortcut_key(key) /\ mc.key = key /\ ok THEN ~mc.active ELSE mc.active
    <2>1. a \in BOOLEAN
      BY <1>1
    <2> HIDE DEF a
    <2>2. [active |-> a, key |-> None] \in [active : BOOLEAN, key : Mods \cup {None}]
      BY <2>1
    <2> QED
      BY <2>2, Zenon DEF capture_key_up, a
  <1> QED
    BY <1>3, <1>4

\* A key, of the user or of a modifier.
LEMMA HandleKeyStep ==
    ASSUME InputIInv, NEW e, e.mods \subseteq Mods, NEW ok \in BOOLEAN, NEW ok2 \in BOOLEAN,
           HandleKey(e, ok, ok2), user'.held = user.held,
           user'.pads = user.pads, user'.twice = user.twice,
           user' \in Users(conf.uses.pads)
    PROVE  InputIInv'
  <1>1. conf' = conf /\ (e.key = "v" => st.next_sequence < MaxSequence)
    BY DEF HandleKey
  <1>2. mc' \in [active : BOOLEAN, key : Mods \cup {None}]
    <2>1. mc' \in {mc, capture_key_down(e.key), capture_key_up(e.key, ok)}
      BY DEF HandleKey
    <2> QED
      BY <2>1, StateIs, CaptureKeyStep
  <1>3. Forwards(Fresh, st', e)
    <2>1. CASE st' = Fresh
      BY <2>1, StateIs DEF Forwards, Beside
    <2>2. CASE st' = process_key(Fresh, e, ok, ok2)
      BY <2>2, StateIs, ProcessKeyStep
    <2> QED
      BY <2>1, <2>2 DEF HandleKey
  <1>4. Good(st') /\ Beside(Fresh, st')
    BY <1>3 DEF Forwards
  <1>5. st'.next_sequence <= MaxSequence
    <2>1. CASE st'.next_sequence = Fresh.next_sequence
      BY <2>1, StateIs
    <2>2. CASE is_ctrl_v(e) /\ st'.next_sequence = Fresh.next_sequence + 1
      <3>1. st.next_sequence < MaxSequence
        BY <1>1, <2>2 DEF is_ctrl_v
      <3>2. st'.next_sequence = st.next_sequence + 1
        BY <2>2, StateIs
      <3> QED
        BY <3>1, <3>2, StateIs
    <2> QED
      BY <1>3, <2>1, <2>2 DEF Forwards
  <1> QED
    BY <1>1, <1>2, <1>4, <1>5, BesideIsKept

LEMMA KeyInvStep ==
    ASSUME InputIInv, NEW key, NEW down \in BOOLEAN, NEW repeat \in BOOLEAN,
           NEW ok \in BOOLEAN, NEW ok2 \in BOOLEAN, Key(key, down, repeat, ok, ok2)
    PROVE  InputIInv'
  <1> DEFINE e == [key |-> key, mods |-> user.mods, down |-> down, repeat |-> repeat]
  <1>1. HandleKey(e, ok, ok2) /\ user' = user
    BY DEF Key
  <1>2. e.mods \subseteq Mods
    BY StateIs
  <1> HIDE DEF e
  <1>3. /\ user'.held = user.held /\ user'.pads = user.pads /\ user'.twice = user.twice
        /\ user' \in Users(conf.uses.pads)
    BY <1>1, StateIs
  <1> QED
    BY <1>1, <1>2, <1>3, HandleKeyStep

LEMMA ModifierStep ==
    ASSUME InputIInv, NEW mod \in conf.uses.mods, NEW ok \in BOOLEAN, Modifier(mod, ok)
    PROVE  InputIInv'
  <1> DEFINE down == mod \notin user.mods
             mods == IF down THEN user.mods \cup {mod} ELSE user.mods \ {mod}
             e == [key |-> mod, mods |-> mods, down |-> down, repeat |-> FALSE]
  <1>1. user' = [user EXCEPT !.mods = mods] /\ HandleKey(e, ok, TRUE)
    BY DEF Modifier
  <1>2. mods \subseteq Mods
    BY StateIs
  <1> HIDE DEF mods, down
  <1>3. e.mods \subseteq Mods
    BY <1>2
  <1> HIDE DEF e
  <1>4. /\ user'.held = user.held /\ user'.pads = user.pads /\ user'.twice = user.twice
        /\ user' \in Users(conf.uses.pads)
    BY <1>1, <1>2, StateIs
  <1> QED
    BY <1>1, <1>3, <1>4, HandleKeyStep

\* A character that is typed is sent once.
LEMMA TypeStep ==
    ASSUME InputIInv, NEW key, NEW ok \in BOOLEAN, NEW ok2 \in BOOLEAN, Type(key, ok, ok2)
    PROVE  InputIInv'
  <1> DEFINE e == [key |-> key, mods |-> user.mods, down |-> TRUE, repeat |-> FALSE]
             received == conf.kp = "sdk" /\ ~st.paused /\ ~st.disconnected
             v == IF received THEN key ELSE None
             s == [Fresh EXCEPT !.typed = v]
             p == process_key(s, e, ok, TRUE)
  <1>1. /\ WritesText(key, user.mods) /\ conf' = conf /\ user' = user /\ mc' = mc
        /\ st' = process_text_input(p, key, user.mods, ok2)
    BY DEF Type
  <1>2. /\ Good(s) /\ s.typed = v /\ s.times = 0 /\ s.paused = st.paused
        /\ s.disconnected = st.disconnected /\ s.slots = st.slots
        /\ s.mouse_buttons_state = st.mouse_buttons_state
        /\ s.next_sequence = st.next_sequence
    <2> HIDE DEF v
    <2> QED
      BY StateIs, TypedStep
  <1>3. e.mods = user.mods /\ e.mods \subseteq Mods
    BY StateIs
  <1>4. ~is_ctrl_v(e)
    BY <1>1, <1>3 DEF is_ctrl_v, ctrl, WritesText
  <1>e. e = Press(key, user.mods)
    BY DEF Press
  <1>p. p = process_key(s, e, ok, TRUE)
    OBVIOUS
  <1> HIDE DEF e, s, p
  <1>5. Forwards(s, p, e)
    BY <1>2, <1>3, <1>p, StateIs, ProcessKeyStep
  <1>6. KeyStep(p, st')
    BY <1>1, <1>5, TextStep DEF Forwards
  <1>7. Good(st') /\ Beside(s, st') /\ st'.next_sequence = st.next_sequence
    BY <1>2, <1>4, <1>5, <1>6 DEF Forwards, KeyStep, Beside
  <1>8. HeldByUser(st', user'.held) /\ PluggedByUser(st', user'.pads, user'.twice)
    BY <1>1, <1>2, <1>7 DEF Beside, InputIInv, HeldByUser, PluggedByUser
  <1>9. st'.typed = None \/ EachCharacterOnce'
    <2>1. CASE received
      <3>1. key # None
        BY <1>1 DEF WritesText, alphaspace_keys, None
      <3>2. s.typed = key
        BY <1>2, <2>1
      <3>3. /\ st'.typed = key
            /\ \/ st'.times = 1
               \/ /\ conf.key_inject_mode = "raw"
                  /\ key \notin alphaspace_keys \cup numbers_punct_keys /\ st'.times = 0
        <4>1. /\ Decides(conf) /\ conf.kp = "sdk" /\ Good(s) /\ ~s.paused /\ ~s.disconnected
              /\ WritesText(key, user.mods) /\ user.mods \subseteq Mods
              /\ s.typed = key /\ key # None /\ s.times = 0
          BY <1>1, <1>2, <1>3, <2>1, <3>1, <3>2, StateIs
        <4>2. st' = PressAndText(s, key, user.mods, ok, ok2)
          BY <1>1, <1>e, <1>p DEF PressAndText
        <4> QED
          BY <4>1, <4>2, TypingStep
      <3> QED
        BY <1>1, <3>3 DEF EachCharacterOnce
    <2>2. CASE ~received
      BY <1>2, <1>7, <2>2 DEF Beside
    <2> QED
      BY <2>1, <2>2
  <1> QED
    BY <1>1, <1>7, <1>8, <1>9, StateIs, InvariantIsKept

LEMMA MotionInvStep ==
    ASSUME InputIInv, NEW ok, NEW ok2, MouseMotion(ok, ok2)
    PROVE  InputIInv'
  <1>1. conf' = conf /\ user' = user /\ mc' = mc
    BY DEF MouseMotion
  <1>2. KeyStep(Fresh, st')
    BY StateIs, NoStep, MotionStep DEF MouseMotion
  <1> QED
    BY <1>1, <1>2, StateIs, BesideIsKept DEF KeyStep

LEMMA WheelInvStep ==
    ASSUME InputIInv, NEW ok, MouseWheel(ok)
    PROVE  InputIInv'
  <1>1. conf' = conf /\ user' = user /\ mc' = mc
    BY DEF MouseWheel
  <1>2. KeyStep(Fresh, st')
    BY StateIs, NoStep, WheelStep DEF MouseWheel
  <1> QED
    BY <1>1, <1>2, StateIs, BesideIsKept DEF KeyStep

LEMMA TouchInvStep ==
    ASSUME InputIInv, NEW ok, Touch(ok)
    PROVE  InputIInv'
  <1>1. conf' = conf /\ user' = user /\ mc' = mc /\ st' = Fresh
    BY TouchStep DEF Touch
  <1>2. KeyStep(Fresh, st')
    BY <1>1, StateIs, NoStep
  <1> QED
    BY <1>1, <1>2, StateIs, BesideIsKept DEF KeyStep

LEMMA FocusStep ==
    ASSUME InputIInv, NEW ok \in BOOLEAN, FocusLost(ok)
    PROVE  InputIInv'
  <1>1. /\ conf' = conf /\ user' = user /\ st' = Fresh
        /\ mc' = [mc EXCEPT !.active = mc.active /\ ~ok]
    BY DEF FocusLost
  <1>2. KeyStep(Fresh, st')
    BY <1>1, StateIs, NoStep
  <1>3. mc' \in [active : BOOLEAN, key : Mods \cup {None}]
    <2> DEFINE a == mc.active /\ ~ok
    <2>1. a \in BOOLEAN
      OBVIOUS
    <2> HIDE DEF a
    <2>2. mc \in [active : BOOLEAN, key : Mods \cup {None}]
      BY StateIs
    <2>3. [mc EXCEPT !.active = a] \in [active : BOOLEAN, key : Mods \cup {None}]
      BY <2>1, <2>2
    <2> QED
      BY <1>1, <2>3 DEF a
  <1> QED
    BY <1>1, <1>2, <1>3, StateIs, BesideIsKept DEF KeyStep

\* What is pressed is held by the user.
LEMMA ButtonInvStep ==
    ASSUME InputIInv, NEW button \in conf.uses.buttons, NEW double, NEW outside,
           NEW ok \in BOOLEAN, NEW ok2, MouseButton(button, double, outside, ok, ok2)
    PROVE  InputIInv'
  <1> DEFINE down == button \notin user.held
             held == IF down THEN user.held \cup {button} ELSE user.held \ {button}
             e == [button |-> button, mods |-> user.mods, down |-> down,
                   double |-> double, outside |-> outside]
  <1>1. /\ conf' = conf /\ user' = [user EXCEPT !.held = held]
        /\ mc' = IF Captured /\ ~down /\ ok THEN [mc EXCEPT !.active = TRUE] ELSE mc
        /\ st' = IF Captured THEN Fresh ELSE process_mouse_button(Fresh, e, ok, ok2)
    BY DEF MouseButton
  <1>2. button \in Buttons /\ held \subseteq Buttons
    BY StateIs
  <1>3. e.button = button /\ e.down = down /\ e.down \in BOOLEAN
    OBVIOUS
  <1> HIDE DEF e
  <1>4. mc' \in [active : BOOLEAN, key : Mods \cup {None}]
    BY <1>1, StateIs
  <1>5. CASE Captured
    <2>1. st' = Fresh /\ relative_mode
      BY <1>1, <1>5 DEF Captured, Captures
    <2> HIDE DEF held, down
    <2>2. /\ user' \in Users(conf.uses.pads)
          /\ user'.pads = user.pads /\ user'.twice = user.twice
      BY <1>1, <1>2, StateIs
    <2>3. HeldByUser(st', user'.held)
      BY <2>1 DEF HeldByUser
    <2>4. PluggedByUser(st', user'.pads, user'.twice)
      BY <2>1, <2>2, StateIs DEF InputIInv, PluggedByUser
    <2> QED
      BY <1>1, <1>4, <2>1, <2>2, <2>3, <2>4, StateIs, InvariantIsKept
  <1>6. CASE ~Captured
    <2>1. Clicks(Fresh, st', button, down)
      <3>1. st' = process_mouse_button(Fresh, e, ok, ok2)
        BY <1>1, <1>6
      <3>2. Clicks(Fresh, st', e.button, e.down)
        BY <1>2, <1>3, <3>1, StateIs, ButtonStep
      <3> QED
        BY <1>3, <3>2
    <2>2. /\ Good(st') /\ st'.disconnected = st.disconnected /\ st'.slots = st.slots
          /\ st'.next_sequence = st.next_sequence /\ st'.typed = None
          /\ ~st.disconnected => st'.mouse_buttons_state \subseteq
                 (IF down THEN st.mouse_buttons_state \cup {button}
                  ELSE st.mouse_buttons_state \ {button})
      BY <2>1, StateIs DEF Clicks
    <2>h. user'.held = held
      BY <1>1, StateIs
    <2>3. HeldByUser(st', user'.held)
      BY <2>2, <2>h DEF InputIInv, HeldByUser
    <2> HIDE DEF held, down
    <2>4. /\ user' \in Users(conf.uses.pads)
          /\ user'.pads = user.pads /\ user'.twice = user.twice
      BY <1>1, <1>2, StateIs
    <2>5. PluggedByUser(st', user'.pads, user'.twice)
      BY <2>2, <2>4 DEF InputIInv, PluggedByUser
    <2> QED
      BY <1>1, <1>4, <2>2, <2>3, <2>4, <2>5, StateIs, InvariantIsKept
  <1> QED
    BY <1>5, <1>6

\* A step of a gamepad leaves the rest alone.
LEMMA SlotsAreKept ==
    ASSUME InputIInv, NEW pads, pads \subseteq conf.uses.pads,
           NEW twice, twice \subseteq conf.uses.pads,
           conf' = conf, mc' = mc, user' = [user EXCEPT !.pads = pads, !.twice = twice],
           SlotsOnly(Fresh, st'), PluggedByUser(st', pads, twice)
    PROVE  InputIInv'
  <1>1. /\ user' \in Users(conf.uses.pads)
        /\ user'.held = user.held /\ user'.pads = pads /\ user'.twice = twice
    BY StateIs
  <1>2. /\ Good(st') /\ st'.disconnected = st.disconnected
        /\ st'.mouse_buttons_state = st.mouse_buttons_state
        /\ st'.next_sequence = st.next_sequence /\ st'.typed = None
    BY StateIs DEF SlotsOnly
  <1>3. HeldByUser(st', user'.held)
    BY <1>1, <1>2 DEF InputIInv, HeldByUser
  <1> QED
    BY <1>1, <1>2, <1>3, StateIs, InvariantIsKept

\* A gamepad that comes or goes.
LEMMA GamepadInvStep ==
    ASSUME InputIInv, NEW pad \in conf.uses.pads, Gamepad(pad)
    PROVE  InputIInv'
  <1>1. /\ conf' = conf /\ mc' = mc /\ (pad \notin user.pads => pad \notin user.twice)
        /\ user' = [user EXCEPT !.pads = IF pad \notin user.pads THEN user.pads \cup {pad}
                                         ELSE user.pads \ {pad}]
        /\ st' = process_gamepad_device(Fresh, pad, pad \notin user.pads)
    BY DEF Gamepad
  <1>2. /\ PluggedByUser(Fresh, user.pads, user.twice) /\ Decides(conf) /\ Good(Fresh)
        /\ user \in Users(conf.uses.pads)
        /\ user.pads \subseteq conf.uses.pads /\ user.twice \subseteq conf.uses.pads
    BY StateIs DEF InputIInv, PluggedByUser
  <1>3. CASE pad \notin user.pads
    <2>1. st' = process_gamepad_device(Fresh, pad, TRUE)
      BY <1>1, <1>3
    <2>2. SlotsOnly(Fresh, st') /\ PluggedByUser(st', user.pads \cup {pad}, user.twice)
      BY <1>1, <1>2, <1>3, <2>1, GamepadAddedStep
    <2>3. user' = [user EXCEPT !.pads = user.pads \cup {pad}, !.twice = user.twice]
      BY <1>1, <1>2, <1>3
    <2> QED
      BY <1>1, <1>2, <2>2, <2>3, SlotsAreKept
  <1>4. CASE pad \in user.pads
    <2>1. st' = process_gamepad_device(Fresh, pad, FALSE)
      BY <1>1, <1>4
    <2>2. SlotsOnly(Fresh, st') /\ PluggedByUser(st', user.pads \ {pad}, user.twice)
      BY <1>2, <2>1, GamepadRemovedStep
    <2>3. user' = [user EXCEPT !.pads = user.pads \ {pad}, !.twice = user.twice]
      BY <1>1, <1>2, <1>4
    <2> QED
      BY <1>1, <1>2, <2>2, <2>3, SlotsAreKept
  <1> QED
    BY <1>3, <1>4

\* A gamepad that is announced once more.
LEMMA GamepadAgainStep ==
    ASSUME InputIInv, NEW pad \in conf.uses.pads, GamepadAgain(pad)
    PROVE  InputIInv'
  <1>1. /\ conf' = conf /\ mc' = mc /\ pad \in user.pads /\ pad \notin user.twice
        /\ user' = [user EXCEPT !.twice = user.twice \cup {pad}]
        /\ st' = process_gamepad_device(Fresh, pad, TRUE)
    BY DEF GamepadAgain
  <1>2. /\ PluggedByUser(Fresh, user.pads, user.twice) /\ Decides(conf) /\ Good(Fresh)
        /\ user \in Users(conf.uses.pads)
        /\ user.pads \subseteq conf.uses.pads /\ user.twice \subseteq conf.uses.pads
    BY StateIs DEF InputIInv, PluggedByUser
  <1>3. SlotsOnly(Fresh, st') /\ PluggedByUser(st', user.pads, user.twice \cup {pad})
    BY <1>1, <1>2, GamepadAddedStep
  <1>4. user' = [user EXCEPT !.pads = user.pads, !.twice = user.twice \cup {pad}]
    BY <1>1, <1>2
  <1> QED
    BY <1>1, <1>2, <1>3, <1>4, SlotsAreKept

\* A file dropped on the window.
LEMMA DropFileStep ==
    ASSUME InputIInv, NEW ok, DropFile(ok)
    PROVE  InputIInv'
  <1>1. conf' = conf /\ user' = user /\ mc' = mc /\ st' = push_file(Fresh, ok)
    BY DEF DropFile
  <1>2. KeyStep(Fresh, st')
    <2>1. CASE st' = Fresh
      BY <2>1, StateIs, NoStep
    <2>2. CASE st' = Push(Fresh, "file", ok)
      <3>1. "file" \in {"torch", "gamepad_device", "file"} /\ Good(Fresh)
        BY StateIs
      <3> QED
        BY ONLY <2>2, <3>1, PushStep
    <2> QED
      BY <1>1, <2>1, <2>2 DEF push_file
  <1> QED
    BY <1>1, <1>2, StateIs, BesideIsKept DEF KeyStep

LEMMA GamepadInputStep ==
    ASSUME InputIInv, NEW pad, NEW ok, GamepadInput(pad, ok)
    PROVE  InputIInv'
  <1>1. conf' = conf /\ user' = user /\ mc' = mc /\ st' = Fresh
    BY GamepadInputIs DEF GamepadInput
  <1>2. KeyStep(Fresh, st')
    BY <1>1, StateIs, NoStep
  <1> QED
    BY <1>1, <1>2, StateIs, BesideIsKept DEF KeyStep

\* The device is gone: nothing is held or plugged any more.
LEMMA DisconnectedStep ==
    ASSUME InputIInv, Disconnected
    PROVE  InputIInv'
  <1> DEFINE s == Fresh
  <1>1. conf' = conf /\ user' = user /\ mc' = mc /\ st' = [s EXCEPT !.disconnected = TRUE]
    BY DEF Disconnected
  <1>2. Good(s) /\ s.next_sequence = st.next_sequence /\ s.typed = None
    BY StateIs
  <1> HIDE DEF s
  <1>3. /\ DOMAIN st' = StateFields /\ st'.disconnected = TRUE
        /\ \A g \in StateFields : g # "disconnected" => st'[g] = s[g]
    BY <1>1, <1>2 DEF Good, StateFields
  <1>4. /\ \A g \in Related : st'[g] = s[g]
        /\ st'.paused = s.paused /\ st'.last = s.last /\ st'.typed = s.typed
        /\ st'.next_sequence = s.next_sequence
    BY <1>3 DEF Related, StateFields
  <1>5. Good(st')
    BY <1>2, <1>3, <1>4, UnrelatedKeeps DEF Good
  <1>6. HeldByUser(st', user'.held) /\ PluggedByUser(st', user'.pads, user'.twice)
    <2>1. st'.slots = st.slots
      BY <1>4, StateIs DEF Related, s
    <2>2. Follow(st.slots, st.disconnected, user.pads, user.twice)
      BY DEF InputIInv, PluggedByUser
    <2>3. Follow(st'.slots, TRUE, user'.pads, user'.twice)
      BY <1>1, <2>1, <2>2 DEF Follow
    <2> QED
      BY <1>3, <2>3 DEF HeldByUser, PluggedByUser
  <1> QED
    BY <1>1, <1>2, <1>4, <1>5, <1>6, StateIs, InvariantIsKept

\* The invariant is inductive.
LEMMA InputIInvNext == InputIInv /\ [InputNext]_inputVars => InputIInv'
  <1> SUFFICES ASSUME InputIInv, [InputNext]_inputVars PROVE InputIInv'
    OBVIOUS
  <1>1. ASSUME NEW key \in conf.uses.keys, NEW down \in BOOLEAN, NEW repeat \in BOOLEAN,
               NEW ok \in BOOLEAN, NEW ok2 \in BOOLEAN, Key(key, down, repeat, ok, ok2)
        PROVE  InputIInv'
    BY <1>1, KeyInvStep
  <1>2. ASSUME NEW key \in conf.uses.keys, NEW ok \in BOOLEAN, NEW ok2 \in BOOLEAN,
               Type(key, ok, ok2)
        PROVE  InputIInv'
    BY <1>2, TypeStep
  <1>3. ASSUME NEW mod \in conf.uses.mods, NEW ok \in BOOLEAN, Modifier(mod, ok)
        PROVE  InputIInv'
    BY <1>3, ModifierStep
  <1>4. ASSUME NEW ok \in BOOLEAN, NEW ok2 \in BOOLEAN, MouseMotion(ok, ok2)
        PROVE  InputIInv'
    BY <1>4, MotionInvStep
  <1>5. ASSUME NEW button \in conf.uses.buttons, NEW double \in BOOLEAN,
               NEW outside \in BOOLEAN, NEW ok \in BOOLEAN, NEW ok2 \in BOOLEAN,
               MouseButton(button, double, outside, ok, ok2)
        PROVE  InputIInv'
    BY <1>5, ButtonInvStep
  <1>6. ASSUME NEW ok \in BOOLEAN, MouseWheel(ok) \/ Touch(ok) \/ FocusLost(ok) \/ DropFile(ok)
        PROVE  InputIInv'
    BY <1>6, WheelInvStep, TouchInvStep, FocusStep, DropFileStep
  <1>7. ASSUME NEW pad \in conf.uses.pads, Gamepad(pad) \/ GamepadAgain(pad)
        PROVE  InputIInv'
    BY <1>7, GamepadInvStep, GamepadAgainStep
  <1>8. ASSUME NEW pad \in conf.uses.pads, NEW ok \in BOOLEAN, GamepadInput(pad, ok)
        PROVE  InputIInv'
    BY <1>8, GamepadInputStep
  <1>9. CASE Disconnected
    BY <1>9, DisconnectedStep
  <1>10. CASE UNCHANGED inputVars
    <2>1. conf' = conf /\ user' = user /\ mc' = mc /\ st' = st
      BY <1>10 DEF inputVars
    <2>2. /\ Good(st') /\ HeldByUser(st', user'.held) /\ PluggedByUser(st', user'.pads, user'.twice)
          /\ EachCharacterOnce'
      BY <2>1 DEF InputIInv, EachCharacterOnce
    <2> QED
      BY <2>1, <2>2, StateIs, InvariantIsKept
  <1> QED
    BY <1>1, <1>2, <1>3, <1>4, <1>5, <1>6, <1>7, <1>8, <1>9, <1>10 DEF InputNext

\* The invariant holds in every state that the input manager reaches.
LEMMA InputIInvHolds == InputSpec => []InputIInv
  <1>1. InputInit => InputIInv
    BY InputInitHolds
  <1>2. InputIInv /\ [InputNext]_inputVars => InputIInv'
    BY InputIInvNext
  <1> QED
    BY <1>1, <1>2, PTL DEF InputSpec

\* Whatever the options, the keys and the order of the events, the processors
\* that a handler uses exist and none of its assertions fails (input_manager.c:57),
\* if the wheel of a mouse is turned only where there is a mouse processor.
THEOREM InputNeverCrashes ==
    ASSUME ~WheelAnywhere
    PROVE  InputSpec => []InputIsSafe
  <1>1. InputIInv => InputIsSafe
    BY DEF InputIInv, Good, WheelCrashes, InputIsSafe
  <1> QED
    BY <1>1, InputIInvHolds, PTL

\* Wherever the wheel is turned, an assertion fails only with a keyboard processor
\* and no mouse processor: what process_mouse_wheel tests is the keyboard
\* (input_manager.c:1014).
THEOREM OnlyTheWheelCrashes ==
    InputSpec => [](st.crashed => WheelAnywhere /\ conf.kp # None /\ conf.mp = None)
  <1>1. InputIInv => (st.crashed => WheelAnywhere /\ conf.kp # None /\ conf.mp = None)
    BY DEF InputIInv, Good, WheelCrashes
  <1> QED
    BY <1>1, InputIInvHolds, PTL

\* Nothing stays pressed or plugged for the device that the user has released or
\* unplugged, however the events of modifiers, buttons and gamepads interleave,
\* but for one slot of each gamepad that was announced twice.
THEOREM NothingStaysPressed == InputSpec => []NothingIsPhantom
  <1>1. InputIInv => NothingIsPhantom
    <2> SUFFICES ASSUME InputIInv PROVE NothingIsPhantom
      OBVIOUS
    <2>1. Good(st)
      BY DEF InputIInv
    <2>2. InputTypeOK
      <3>1. st.mouse_buttons_state \subseteq Buttons /\ st.last \in Lasts
        BY <2>1 DEF Good, HandsFit
      <3>2. st.next_sequence \in 1 .. MaxSequence
        BY <2>1, InputBoundAssumption DEF InputIInv, Good, PastesFit
      <3>3. user.mods \subseteq Mods /\ user.held \subseteq Buttons
        BY DEF InputIInv
      <3>4. mc.active \in BOOLEAN /\ mc.key \in Mods \cup {None}
        BY DEF InputIInv
      <3> QED
        BY <3>1, <3>2, <3>3, <3>4 DEF InputTypeOK, Lasts
    <2>3. ~relative_mode /\ ~st.disconnected => st.mouse_buttons_state \subseteq user.held
      BY DEF InputIInv, HeldByUser
    <2>4. st.finger = st.vfinger_down /\ (relative_mode => ~st.vfinger_down)
      BY <2>1 DEF Good, HandsFit
    <2>5. SlotsFollowPads
      BY Zenon DEF InputIInv, PluggedByUser, Follow, SlotsFollowPads
    <2> QED
      BY <2>2, <2>3, <2>4, <2>5 DEF NothingIsPhantom
  <1> QED
    BY <1>1, InputIInvHolds, PTL

\* No input passes while paused: only the torch, gamepads that come and go, and
\* dropped files.
THEOREM PausedStaysSilent == InputSpec => []PausedIsSilent
  <1>1. InputIInv => PausedIsSilent
    BY DEF InputIInv, Good, PausedIsSilent
  <1> QED
    BY <1>1, InputIInvHolds, PTL

\* Each Ctrl+v over AOA waits for a clipboard that was sent before it, whichever
\* messages the full queue refuses.
THEOREM PastesWait == InputSpec => []PasteWaitsForItsClipboard
  <1>1. InputIInv => PasteWaitsForItsClipboard
    BY DEF InputIInv, Good, PastesFit, PasteWaitsForItsClipboard
  <1> QED
    BY <1>1, InputIInvHolds, PTL

\* Each character that is typed is sent once, in every injection mode.
THEOREM CharactersAreSentOnce == InputSpec => []EachCharacterOnce
  <1>1. InputIInv => EachCharacterOnce
    BY DEF InputIInv
  <1> QED
    BY <1>1, InputIInvHolds, PTL

=============================================================================
