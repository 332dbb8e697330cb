------------------------------- MODULE Screen -------------------------------
(***************************************************************************)
(* The window of the client (screen.c): the thread of the decoder pushes   *)
(* frames and events to the main thread, which draws, follows the window   *)
(* and the keys, and ends with the event loop of scrcpy(); the FPS counter *)
(* (fps_counter.c) and the disconnection timer (disconnect.c) are threads  *)
(* that have to be ended.                                                  *)
(*                                                                         *)
(* What the main thread does with an event is one step.  A frame is its    *)
(* serial number; sizes are pairs of numbers, and a rectangle is in units  *)
(* that make the floating-point divisions exact.  Window events are those  *)
(* SDL sends after the state of the window has changed.  With              *)
(* --flex-display the size of the window is also sent to the device, which *)
(* is left to the module Controller.                                       *)
(***************************************************************************)
EXTENDS Integers, Sequences, FiniteSets

CONSTANTS
    Sizes,          \* the sizes of the frames
    FirstSizes,     \* the sizes of the first session
    Display,        \* the preferred bounds of the display
    UserSizes,      \* what the user resizes the window to
    Orientations,   \* --display-orientation
    Fits,           \* --render-fit
    Flex,           \* --flex-display, as a set of choices
    PrintFps,       \* --print-fps
    Keys,           \* the shortcuts in use
    MaxFrames,      \* bound: frames pushed
    MaxInputs,      \* bound: keys pressed and window changes
    LateFps         \* MOD+i is pressed after the device is disconnected

ASSUME SizesAssumption ==
    /\ FirstSizes # {} /\ FirstSizes \subseteq Sizes
    /\ Sizes \cup UserSizes \cup {Display} \subseteq (Nat \ {0}) \X (Nat \ {0})
    /\ Orientations \subseteq 0 .. 7
    /\ Flex \subseteq BOOLEAN /\ PrintFps \in BOOLEAN /\ LateFps \in BOOLEAN
    /\ MaxFrames \in Nat /\ MaxInputs \in Nat

ASSUME KeysAssumption ==
    Keys \subseteq {"pause", "unpause", "right", "left", "fliph", "flipv", "full", "fit",
                    "perfect", "fps"}

VARIABLES
    win,        \* what only the main thread uses
    mpc,        \* event_loop(), then the end of scrcpy()
    events,     \* the queue of SDL
    fb,         \* frame buffer: the pending frame, 0 if consumed, its size
    auto,       \* ~prevent_auto_resize
    dpc, open,              \* the decoder thread in the frame sink
    fps, fpc,               \* FPS counter and its thread
    tpc, timer,             \* disconnection thread, d->interrupted
    pushed, inputs,         \* history: frames and inputs so far
    picture,                \* history: where the user wants each corner
    failed                  \* history: an assertion failed

sinkVars == <<fb, auto, dpc, open, pushed>>
fpsVars == <<fps, fpc>>
timerVars == <<tpc, timer>>
vars == <<win, mpc, events, sinkVars, fpsVars, timerVars, inputs,
          picture, failed>>

Least(a, b) == IF a <= b THEN a ELSE b

NoSize == <<0, 0>>

-----------------------------------------------------------------------------
(* Orientations: 4 is a horizontal flip, followed by 0 to 3 rotations.      *)
IsMirror(o) == o >= 4
IsSwap(o) == o % 2 = 1
Rotation(o) == o % 4

\* Fault: a flip is not commuted with the rotation before it.
sc_orientation_applyPlain(src, transform) ==
    (IF IsMirror(src) # IsMirror(transform) THEN 4 ELSE 0)
        + ((Rotation(transform) + Rotation(src)) % 4)

(* sc_orientation_apply(): a flip after a quarter turn is the other flip    *)
(* before it.                                                              *)
sc_orientation_apply(src, transform) ==
    LET half == IF IsSwap(src) /\ IsMirror(transform) THEN 2 ELSE 0
    IN  (IF IsMirror(src) # IsMirror(transform) THEN 4 ELSE 0)
            + ((Rotation(transform) + Rotation(src) + half) % 4)

get_oriented_size(s, o) == IF IsSwap(o) THEN <<s[2], s[1]>> ELSE s

is_optimal_size(cur, c) ==
    cur[2] = (cur[1] * c[2]) \div c[1] \/ cur[1] = (cur[2] * c[1]) \div c[2]

(* get_optimal_size(): crop the borders, within the display or not.         *)
get_optimal_size(cur, c, within) ==
    LET w == IF within THEN <<Least(cur[1], Display[1]), Least(cur[2], Display[2])>>
             ELSE cur
    IN  IF is_optimal_size(w, c) THEN w
        ELSE IF c[1] * w[2] > c[2] * w[1] THEN <<w[1], (c[2] * w[1]) \div c[1]>>
        ELSE <<(c[1] * w[2]) \div c[2], w[2]>>

(* compute_content_rect(), in units of 1 / (2 * c[1] * c[2]).               *)
compute_content_rect(w, c, icon, fit) ==
    LET unit == 2 * c[1] * c[2]
        Rect(x, y, width, height) ==
            [x |-> x, y |-> y, w |-> width, h |-> height, unit |-> unit]
        full == Rect(0, 0, w[1] * unit, w[2] * unit)
        Margin(i) == ((w[i] - c[i]) * unit) \div 2
        AtLeast0(n) == IF n > 0 THEN n ELSE 0
        high == w[1] * 2 * c[2] * c[2]
        wide == w[2] * 2 * c[1] * c[1]
    IN  IF icon /\ c[1] <= w[1] /\ c[2] <= w[2]
        THEN Rect(Margin(1), Margin(2), c[1] * unit, c[2] * unit)
        ELSE IF ~icon /\ fit = "unscaled"
        THEN Rect(AtLeast0(Margin(1)), AtLeast0(Margin(2)), c[1] * unit, c[2] * unit)
        ELSE IF (~icon /\ fit = "stretched") \/ is_optimal_size(w, c) THEN full
        ELSE IF c[1] * w[2] > c[2] * w[1]
        THEN Rect(0, (w[2] * unit - high) \div 2, w[1] * unit, high)
        ELSE Rect((w[1] * unit - wide) \div 2, 0, wide, w[2] * unit)

(* sc_screen_convert_window_to_frame_coords(), from a point of the window   *)
(* in the units of the rectangle.                                          *)
Convert(px, py) ==
    LET w == win.content[1]
        h == win.content[2]
        x == ((px - win.rect.x) * w) \div win.rect.w
        y == ((py - win.rect.y) * h) \div win.rect.h
    IN  CASE win.orientation = 0 -> <<x, y>>
          [] win.orientation = 1 -> <<y, w - x>>
          [] win.orientation = 2 -> <<w - x, h - y>>
          [] win.orientation = 3 -> <<h - y, x>>
          [] win.orientation = 4 -> <<w - x, y>>
          [] win.orientation = 5 -> <<h - y, w - x>>
          [] win.orientation = 6 -> <<x, h - y>>
          [] win.orientation = 7 -> <<y, x>>

(* What the user expects of a key: where a corner of the picture goes.      *)
Moved(key, p) ==
    CASE key = "right" -> <<1 - p[2], p[1]>>
      [] key = "left" -> <<p[2], 1 - p[1]>>
      [] key = "fliph" -> <<1 - p[1], p[2]>>
      [] key = "flipv" -> <<p[1], 1 - p[2]>>

Corners == (0 .. 1) \X (0 .. 1)

(* The picture drawn by SDL_RenderTextureRotated(): flipped, then turned to  *)
(* the right n times.                                                      *)
Turned(p, n) ==
    CASE n = 0 -> p
      [] n = 1 -> <<1 - p[2], p[1]>>
      [] n = 2 -> <<1 - p[1], 1 - p[2]>>
      [] n = 3 -> <<p[2], 1 - p[1]>>

Drawn(o) ==
    [c \in Corners |-> Turned(IF IsMirror(o) THEN Moved("fliph", c) ELSE c, Rotation(o))]

-----------------------------------------------------------------------------
(* The window is created hidden, with the options.                          *)
NewWindow(flex, o, fit) ==
    [flex |-> flex, fit |-> fit, shown |-> FALSE,
     orientation |-> o, mode |-> "windowed", window |-> <<1, 1>>, saved |-> <<1, 1>>,
     frame |-> 0, frameSize |-> NoSize, content |-> <<1, 1>>,
     resume |-> 0, resumeSize |-> NoSize, paused |-> FALSE,
     pending |-> FALSE, windowed |-> NoSize, tex |-> "none",
     rect |-> compute_content_rect(<<1, 1>>, <<1, 1>>, TRUE, fit),
     disconnected |-> FALSE, started |-> FALSE]

(* sc_frame_buffer_init() and sc_frame_buffer_consume(): no pending frame.  *)
Consumed == [id |-> 0, size |-> NoSize]

FpsInit ==
    /\ fps = [started |-> FALSE, interrupted |-> FALSE, thread |-> FALSE]
    /\ fpc = "none"

(* sc_screen_init(), with a video.                                          *)
Init ==
    /\ \E flex \in Flex : \E o \in Orientations : \E fit \in Fits :
          win = NewWindow(flex, o, fit) /\ picture = Drawn(o)
    /\ dpc = "new" /\ mpc = "loop" /\ events = <<>>
    /\ fb = Consumed /\ auto = TRUE
    /\ open = FALSE
    /\ FpsInit
    /\ tpc = "none" /\ timer = FALSE
    /\ pushed = 0 /\ inputs = 0 /\ failed = FALSE

-----------------------------------------------------------------------------
Event(type) == [type |-> type, size |-> NoSize]

(* sc_push_event_impl(), which fails when the queue is full.                *)
sc_push_event(event) == events' = Append(events, event)

(* sc_screen_frame_sink_open(): the main thread is asked to open the window *)
(* at the size of the session.  A size too large, or no memory, fails.     *)
SinkOpen(size) ==
    /\ dpc = "new"
    /\ \/ /\ sc_push_event([type |-> "open", size |-> size])
          /\ open' = TRUE
          /\ dpc' = "open"
       \/ dpc' = "failed" /\ UNCHANGED <<events, open>>
    /\ UNCHANGED <<win, mpc, fb, auto, pushed, fpsVars, timerVars,
                   inputs, picture, failed>>

(* sc_frame_buffer_push(): the frame replaces the pending one.              *)
sc_frame_buffer_push(id, size) == [id |-> id, size |-> size]

\* Fault: an event is posted for every frame.
SinkPushAll(size, resized) ==
    /\ dpc = "open" /\ pushed < MaxFrames
    /\ pushed' = pushed + 1
    /\ fb' = sc_frame_buffer_push(pushed', size)
    /\ auto' = ~resized
    /\ dpc' = "post"
    /\ UNCHANGED <<win, mpc, events, open, fpsVars, timerVars,
                   inputs, picture, failed>>

(* sc_screen_frame_sink_push(), with the mutex: if a frame was already      *)
(* pending, its event is on its way.  The session that                     *)
(* sc_screen_frame_sink_push_session() kept for this thread tells whether  *)
(* the client asked for this size.                                         *)
SinkPush(size, resized) ==
    /\ dpc = "open" /\ pushed < MaxFrames
    /\ pushed' = pushed + 1
    /\ fb' = sc_frame_buffer_push(pushed', size)
    /\ auto' = ~resized
    /\ dpc' = IF fb.id # 0 THEN "open" ELSE "post"
    /\ UNCHANGED <<win, mpc, events, open, fpsVars, timerVars,
                   inputs, picture, failed>>

(* Without the mutex: the event, or a full queue, on which the push fails.  *)
SinkPost ==
    /\ dpc = "post"
    /\ \/ sc_push_event(Event("frame")) /\ dpc' = "open"
       \/ dpc' = "failed" /\ UNCHANGED events
    /\ UNCHANGED <<win, mpc, fb, auto, open, pushed, fpsVars,
                   timerVars, inputs, picture, failed>>

(* sc_video_demuxer_on_ended(), after the end of the stream or an error.    *)
sc_video_demuxer_on_ended ==
    sc_push_event(Event(IF dpc = "open" THEN "disconnected" ELSE "error"))

(* sc_screen_frame_sink_close(), and the end of the demuxer thread.         *)
SinkClose ==
    /\ dpc \in {"open", "failed"}
    /\ open' = FALSE
    /\ dpc' = "closed"
    /\ sc_video_demuxer_on_ended
    /\ UNCHANGED <<win, mpc, fb, auto, pushed, fpsVars, timerVars,
                   inputs, picture, failed>>

-----------------------------------------------------------------------------
(* The steps of the main thread on the state of the window.  Maximized and  *)
(* minimized windows are like fullscreen ones.                             *)
is_windowed(w) == w.mode = "windowed"

sc_screen_update_content_rect(w) ==
    [w EXCEPT !.rect = compute_content_rect(w.window, w.content,
                                            w.disconnected, w.fit)]

(* sc_sdl_set_window_size(): an empty size is refused.                      *)
sc_sdl_set_window_size(w, size) ==
    IF size[1] > 0 /\ size[2] > 0 THEN [w EXCEPT !.window = size] ELSE w

(* resize_for_content(): the window keeps its scale.                        *)
resize_for_content(w, old, new) ==
    LET scaled == IF w.flex THEN new
                  ELSE <<(w.window[1] * new[1]) \div old[1],
                         (w.window[2] * new[2]) \div old[2]>>
    IN  sc_sdl_set_window_size(w, get_optimal_size(scaled, new, TRUE))

(* set_content_size(): later, if the window is not windowed.                *)
set_content_size(w, new, resize) ==
    LET resized ==
            IF ~resize THEN w
            ELSE IF is_windowed(w) THEN resize_for_content(w, w.content, new)
            ELSE IF w.flex \/ w.pending THEN w
            ELSE [w EXCEPT !.windowed = w.content, !.pending = TRUE]
    IN  [resized EXCEPT !.content = new]

apply_pending_resize(w) ==
    IF ~w.pending THEN w
    ELSE [resize_for_content(w, w.windowed, w.content) EXCEPT !.pending = FALSE]

(* sc_screen_apply_frame(): the size of the frame may have changed.         *)
sc_screen_apply_frame(w, id, size, resize) ==
    LET new == get_oriented_size(size, w.orientation)
        framed == [w EXCEPT !.frame = id, !.frameSize = size, !.tex = "frame"]
    IN  IF w.frameSize = size THEN framed
        ELSE sc_screen_update_content_rect(set_content_size(framed, new, resize))

(* sc_screen_update_frame(): a frame received while paused is kept aside.   *)
sc_screen_update_frame(w) ==
    IF w.paused THEN [w EXCEPT !.resume = fb.id, !.resumeSize = fb.size]
    ELSE sc_screen_apply_frame(w, fb.id, fb.size, auto)

(* sc_screen_set_paused(): the frame kept aside, if any, is shown.          *)
sc_screen_set_paused(w, paused) ==
    [(IF w.paused /\ w.resume # 0
      THEN [sc_screen_apply_frame(w, w.resume, w.resumeSize, TRUE)
                EXCEPT !.resume = 0, !.resumeSize = NoSize]
      ELSE w) EXCEPT !.paused = paused]

sc_screen_set_orientation(w, o) ==
    IF o = w.orientation THEN w
    ELSE sc_screen_update_content_rect(
            [set_content_size(w, get_oriented_size(w.frameSize, o), TRUE)
                EXCEPT !.orientation = o])

(* SDL_SetWindowFullscreen(), and the size of the window in both modes.     *)
sc_screen_toggle_fullscreen(w) ==
    IF w.mode = "fullscreen"
    THEN [w EXCEPT !.mode = "windowed", !.window = w.saved]
    ELSE [w EXCEPT !.mode = "fullscreen", !.window = Display, !.saved = w.window]

sc_screen_resize_to_fit(w) ==
    IF ~is_windowed(w) \/ w.fit = "stretched" THEN w
    ELSE sc_sdl_set_window_size(w, IF w.fit = "unscaled" THEN w.content
                                   ELSE get_optimal_size(w.window, w.content, FALSE))

sc_screen_resize_to_pixel_perfect(w) ==
    IF is_windowed(w) THEN sc_sdl_set_window_size(w, w.content) ELSE w

(* sc_screen_show_initial_window().                                         *)
sc_screen_show_initial_window(w) ==
    LET size == get_optimal_size(w.content, w.content, TRUE)
    IN  sc_screen_update_content_rect([sc_sdl_set_window_size(w, size) EXCEPT !.shown = TRUE])

(* sc_screen_on_resize(): events that come before the window is shown are   *)
(* ignored.                                                                *)
sc_screen_on_resize(w) ==
    IF w.shown THEN sc_screen_update_content_rect(w) ELSE w

(* A change of the window comes back as events.                             *)
WindowEvents(w) ==
    (IF w.window # win.window THEN <<Event("resized")>> ELSE <<>>)
    \o (IF w.mode # win.mode /\ w.mode = "windowed" THEN <<Event("windowed")>>
        ELSE <<>>)

-----------------------------------------------------------------------------
(* A signal is lost while the thread has decided to wait, but holds the     *)
(* mutex: the counter is started and stopped without it.                   *)
FpsWoken == IF fpc = "sleep" THEN "check" ELSE fpc

(* sc_fps_counter_start(), in the main thread.                              *)
sc_fps_counter_start ==
    /\ fps' = [started |-> TRUE, interrupted |-> FALSE, thread |-> TRUE]
    /\ fpc' = IF fps.thread THEN FpsWoken ELSE "check"

sc_fps_counter_stop ==
    /\ fps' = [fps EXCEPT !.started = FALSE]
    /\ fpc' = FpsWoken

switch_fps_counter_state ==
    IF fps.started THEN sc_fps_counter_stop ELSE sc_fps_counter_start

(* run_fps_counter(): the tests.  A counter that is started waits with a    *)
(* deadline, after which they are made again.                              *)
FpsChecks ==
    /\ fpc = "check" /\ (fps.interrupted \/ ~fps.started)
    /\ fpc' = IF fps.interrupted THEN "ended" ELSE "locked"
    /\ UNCHANGED <<win, mpc, events, sinkVars, fps, timerVars, inputs, picture, failed>>

(* The wait that has no deadline releases the mutex.                        *)
FpsWaits ==
    /\ fpc = "locked"
    /\ fpc' = "sleep"
    /\ UNCHANGED <<win, mpc, events, sinkVars, fps, timerVars, inputs, picture, failed>>

-----------------------------------------------------------------------------
(* The main thread takes an event: what it does to the window.              *)
Shows(w) ==
    /\ win' = w
    /\ events' = Tail(events) \o WindowEvents(w)

Takes(type) == events # <<>> /\ Head(events).type = type

(* SC_EVENT_OPEN_WINDOW.                                                    *)
OpenWindow ==
    LET size == Head(events).size
    IN  /\ mpc = "loop" /\ Takes("open")
        /\ Shows(sc_screen_show_initial_window(
                    [win EXCEPT !.frameSize = size,
                                !.content = get_oriented_size(size, win.orientation)]))
        /\ IF PrintFps THEN sc_fps_counter_start ELSE UNCHANGED fpsVars
        /\ UNCHANGED <<mpc, sinkVars, timerVars, inputs, picture, failed>>

(* SC_EVENT_NEW_FRAME: the frame buffer holds a frame, and the window is    *)
(* shown.                                                                  *)
NewFrame ==
    /\ mpc = "loop" /\ Takes("frame")
    /\ failed' = (failed \/ fb.id = 0 \/ ~win.shown)
    /\ Shows(sc_screen_update_frame(win))
    /\ fb' = Consumed
    /\ UNCHANGED <<mpc, auto, dpc, open, pushed, fpsVars, timerVars,
                   inputs, picture>>

(* SDL_EVENT_WINDOW_RESIZED and SDL_EVENT_WINDOW_PIXEL_SIZE_CHANGED.        *)
Resized ==
    /\ mpc = "loop" /\ Takes("resized")
    /\ Shows(sc_screen_on_resize(win))
    /\ UNCHANGED <<mpc, sinkVars, fpsVars, timerVars, inputs,
                   picture, failed>>

(* SDL_EVENT_WINDOW_LEAVE_FULLSCREEN and SDL_EVENT_WINDOW_RESTORED.         *)
Windowed ==
    /\ mpc = "loop" /\ Takes("windowed")
    /\ Shows(IF is_windowed(win)
             THEN sc_screen_update_content_rect(apply_pending_resize(win)) ELSE win)
    /\ UNCHANGED <<mpc, sinkVars, fpsVars, timerVars, inputs,
                   picture, failed>>

(* sc_disconnect_start(): its thread, or a failure.                         *)
sc_disconnect_start(w) ==
    \/ Shows([w EXCEPT !.started = TRUE]) /\ tpc' = "icon"
    \/ Shows(w) /\ UNCHANGED tpc

(* SC_EVENT_DEVICE_DISCONNECTED: the event loop ends.  The icon is loaded   *)
(* by a thread, if there is a window to show it in.                        *)
DeviceDisconnected ==
    LET alone == sc_screen_update_content_rect(
                    [win EXCEPT !.disconnected = TRUE, !.tex = "none"])
    IN  /\ mpc = "loop" /\ Takes("disconnected")
        /\ mpc' = "interrupt"
        /\ failed' = (failed \/ win.disconnected)
        /\ IF ~win.shown
             THEN /\ Shows([win EXCEPT !.disconnected = TRUE])
                  /\ UNCHANGED <<fpsVars, tpc>>
             ELSE /\ IF fps.started THEN sc_fps_counter_stop ELSE UNCHANGED fpsVars
                  /\ sc_disconnect_start(alone)
        /\ UNCHANGED <<sinkVars, timer, inputs, picture>>

(* SDL_EVENT_QUIT, or the error of another component.                       *)
QuitLoop ==
    /\ mpc = "loop" /\ (Takes("quit") \/ Takes("error"))
    /\ mpc' = "interrupt"
    /\ Shows(win)
    /\ UNCHANGED <<sinkVars, fpsVars, timerVars, inputs, picture, failed>>

-----------------------------------------------------------------------------
(* The shortcuts that do not need the device, which are handled before and  *)
(* after it is disconnected.                                               *)
Reaction(key) ==
    CASE key = "pause" -> sc_screen_set_paused(win, TRUE)
      [] key = "unpause" -> sc_screen_set_paused(win, FALSE)
      [] key = "right" -> sc_screen_set_orientation(win, sc_orientation_apply(win.orientation, 1))
      [] key = "left" -> sc_screen_set_orientation(win, sc_orientation_apply(win.orientation, 3))
      [] key = "fliph" -> sc_screen_set_orientation(win, sc_orientation_apply(win.orientation, 4))
      [] key = "flipv" -> sc_screen_set_orientation(win, sc_orientation_apply(win.orientation, 6))
      [] key = "full" -> sc_screen_toggle_fullscreen(win)
      [] key = "fit" -> sc_screen_resize_to_fit(win)
      [] key = "perfect" -> sc_screen_resize_to_pixel_perfect(win)
      [] key = "fps" -> win

InputEnabled == mpc \in {"loop", "wait"} /\ win.shown /\ inputs < MaxInputs

Key(key) ==
    /\ InputEnabled
    /\ key = "fps" => mpc = "loop" \/ LateFps
    /\ inputs' = inputs + 1
    /\ win' = Reaction(key)
    /\ events' = events \o WindowEvents(win')
    /\ picture' = IF key \in {"right", "left", "fliph", "flipv"}
                    THEN [c \in Corners |-> Moved(key, picture[c])] ELSE picture
    /\ IF key = "fps" THEN switch_fps_counter_state ELSE UNCHANGED fpsVars
    /\ UNCHANGED <<mpc, sinkVars, timerVars, failed>>

(* The user resizes the window.                                             *)
WindowChanges(size) ==
    /\ InputEnabled /\ is_windowed(win)
    /\ inputs' = inputs + 1
    /\ win' = [win EXCEPT !.window = size]
    /\ events' = events \o WindowEvents(win')
    /\ UNCHANGED <<mpc, sinkVars, fpsVars, timerVars, picture, failed>>

(* SDL_EVENT_QUIT: the window is closed, or the process gets a signal, which *)
(* may be before there is a window.                                        *)
Quit ==
    /\ mpc \in {"loop", "wait"} /\ inputs < MaxInputs
    /\ inputs' = MaxInputs
    /\ events' = Append(events, Event("quit"))
    /\ UNCHANGED <<win, mpc, sinkVars, fpsVars, timerVars, picture,
                   failed>>

(* SDL_EVENT_WINDOW_EXPOSED.                                                *)
Exposed ==
    /\ InputEnabled
    /\ win' = sc_screen_update_content_rect(win)
    /\ UNCHANGED <<mpc, events, sinkVars, fpsVars, timerVars, inputs, picture,
                   failed>>

-----------------------------------------------------------------------------
\* Fault: the thread of the counter is not woken.
sc_fps_counter_interruptQuietly ==
    /\ fpc # "locked"
    /\ fps' = IF fps.thread THEN [fps EXCEPT !.interrupted = TRUE] ELSE fps
    /\ UNCHANGED fpc

(* sc_fps_counter_interrupt(), with the mutex.                              *)
sc_fps_counter_interrupt ==
    /\ fpc # "locked"
    /\ IF fps.thread
         THEN /\ fps' = [fps EXCEPT !.interrupted = TRUE]
              /\ fpc' = FpsWoken
         ELSE UNCHANGED fpsVars

(* The end of scrcpy(): sc_screen_interrupt(), then sc_server_stop().       *)
Interrupt ==
    /\ mpc = "interrupt"
    /\ sc_fps_counter_interrupt
    /\ mpc' = IF win.started THEN "wait" ELSE "hide"
    /\ UNCHANGED <<win, events, sinkVars, timerVars, inputs,
                   picture, failed>>

(* sc_disconnect_interrupt(), on a request to quit.                         *)
sc_disconnect_interrupt == timer' = (timer \/ Takes("quit"))

(* sc_screen_handle_disconnection(): until the timeout or a request to      *)
(* quit, which interrupts the timer.  Other events are for the keyboard.   *)
HandleDisconnection ==
    LET icon == sc_screen_update_content_rect(
                    [win EXCEPT !.tex = "icon", !.content = <<1, 1>>])
    IN  /\ mpc = "wait" /\ events # <<>>
        /\ mpc' = IF Takes("timeout") \/ Takes("quit") THEN "hide" ELSE "wait"
        /\ sc_disconnect_interrupt
        /\ Shows(IF Takes("icon") THEN icon ELSE win)
        /\ IF Takes("disconnected") /\ fps.started THEN sc_fps_counter_stop
           ELSE UNCHANGED fpsVars
        /\ UNCHANGED <<sinkVars, tpc, inputs, picture, failed>>

(* run() of disconnect.c: the icon, which may not be found, then the wait.  *)
LoadIcon ==
    /\ tpc = "icon"
    /\ tpc' = "timer"
    /\ events' \in {events, Append(events, Event("icon"))}
    /\ UNCHANGED <<win, mpc, sinkVars, fpsVars, timer, inputs,
                   picture, failed>>

TimerEnds ==
    /\ tpc = "timer"
    /\ tpc' = "ended"
    /\ events' = IF timer THEN events ELSE Append(events, Event("timeout"))
    /\ UNCHANGED <<win, mpc, sinkVars, fpsVars, timer, inputs,
                   picture, failed>>

(* sc_screen_hide_window().                                                 *)
HideWindow ==
    /\ mpc = "hide"
    /\ win' = [win EXCEPT !.shown = FALSE]
    /\ mpc' = "join"
    /\ UNCHANGED <<events, sinkVars, fpsVars, timerVars, inputs,
                   picture, failed>>

(* sc_fps_counter_join() asserts that its thread was interrupted.           *)
FpsJoinFails == fps.thread /\ ~fps.interrupted

(* The demuxer is joined, and sc_screen_join() begins.                      *)
JoinDemuxer ==
    /\ mpc = "join" /\ dpc = "closed"
    /\ failed' = (failed \/ FpsJoinFails)
    /\ mpc' = "joinScreen"
    /\ UNCHANGED <<win, events, sinkVars, fpsVars, timerVars, inputs, picture>>

(* sc_screen_join(): the threads of the counter and of the disconnection.   *)
JoinScreen ==
    /\ mpc = "joinScreen"
    /\ fps.thread => fpc = "ended"
    /\ win.started => tpc = "ended"
    /\ mpc' = "destroy"
    /\ UNCHANGED <<win, events, sinkVars, fpsVars, timerVars, inputs, picture,
                   failed>>

(* sc_dequeue_event(): the first event of the type, if there is one.        *)
sc_dequeue_event(s, type) ==
    LET first == {i \in DOMAIN s : s[i].type = type /\ \A j \in 1 .. i - 1 : s[j].type # type}
        at == CHOOSE i \in first : TRUE
    IN  IF first = {} THEN s
        ELSE [i \in 1 .. Len(s) - 1 |-> IF i < at THEN s[i] ELSE s[i + 1]]

\* Fault: the icon of an event that was not handled is not freed.
DestroyKept ==
    /\ mpc = "destroy"
    /\ failed' = (failed \/ open)
    /\ events' = sc_dequeue_event(events, "open")
    /\ mpc' = "ended"
    /\ UNCHANGED <<win, sinkVars, fpsVars, timerVars, inputs, picture>>

(* sc_screen_destroy() asserts that the sink is closed, and frees what the  *)
(* events that nobody handled hold.                                        *)
Destroy ==
    /\ mpc = "destroy"
    /\ failed' = (failed \/ open)
    /\ events' = sc_dequeue_event(sc_dequeue_event(events, "icon"), "open")
    /\ mpc' = "ended"
    /\ UNCHANGED <<win, sinkVars, fpsVars, timerVars, inputs, picture>>

-----------------------------------------------------------------------------
Main ==
    \/ OpenWindow \/ NewFrame \/ Resized
    \/ Windowed \/ DeviceDisconnected \/ QuitLoop
    \/ Interrupt \/ HandleDisconnection
    \/ HideWindow \/ JoinDemuxer \/ JoinScreen \/ Destroy

User == (\E key \in Keys : Key(key)) \/ (\E size \in UserSizes : WindowChanges(size)) \/ Quit \/ Exposed

Decoder ==
    \/ \E size \in FirstSizes : SinkOpen(size)
    \/ \E size \in Sizes : \E resized \in BOOLEAN : SinkPush(size, resized)
    \/ SinkPost \/ SinkClose

Fps == FpsChecks \/ FpsWaits

Timer == LoadIcon \/ TimerEnds

Next == Main \/ User \/ Decoder \/ Fps \/ Timer

Spec == Init /\ [][Next]_vars

(* The threads are scheduled and deadlines pass.  Sockets that are shut     *)
(* down end the stream: sc_server_stop() comes after Interrupt.            *)
FairSpec ==
    /\ Spec /\ WF_vars(Main) /\ WF_vars(Timer)
    /\ WF_vars(Fps)
    /\ WF_vars(mpc = "join" /\ (SinkPost \/ SinkClose \/ \E size \in FirstSizes : SinkOpen(size)))

-----------------------------------------------------------------------------
Events == [type : {"open", "frame", "resized", "windowed", "disconnected",
                   "quit", "error", "icon", "timeout"}, size : Nat \X Nat]

(* Every variable stays within the values the code can give it.            *)
TypeOK ==
    /\ win.orientation \in 0 .. 7 /\ win.mode \in {"windowed", "fullscreen"}
    /\ win.window \in Nat \X Nat /\ win.content \in Nat \X Nat
    /\ win.content[1] > 0 /\ win.content[2] > 0
    /\ win.tex \in {"none", "frame", "icon"}
    /\ mpc \in {"loop", "interrupt", "wait", "hide", "join", "joinScreen",
                "destroy", "ended"}
    /\ events \in Seq(Events)
    /\ fb \in [id : Nat, size : Nat \X Nat] /\ auto \in BOOLEAN
    /\ dpc \in {"new", "open", "post", "failed", "closed"}
    /\ open \in BOOLEAN
    /\ fps \in [started : BOOLEAN, interrupted : BOOLEAN, thread : BOOLEAN]
    /\ fpc \in {"none", "check", "locked", "sleep", "ended"}
    /\ tpc \in {"none", "icon", "timer", "ended"} /\ timer \in BOOLEAN
    /\ pushed \in 0 .. MaxFrames
    /\ inputs \in 0 .. MaxInputs /\ failed \in BOOLEAN
    /\ picture \in [Corners -> Corners]

Count(type) == Cardinality({i \in DOMAIN events : events[i].type = type})

(* A frame that is pending has one event on its way and an event has its    *)
(* frame, whatever was skipped, so that the newest frame is shown and      *)
(* nothing is consumed twice; and what is shown, what a pause keeps aside  *)
(* and what is pending are in this order.                                  *)
FramesAreShown ==
    /\ TypeOK
    /\ mpc = "loop" /\ dpc = "open" => (fb.id # 0) = (Count("frame") = 1)
    /\ mpc = "loop" /\ Count("frame") > 0 => fb.id # 0 /\ Count("frame") = 1
    /\ win.resume # 0 => win.frame < win.resume
    /\ fb.id # 0 => win.frame < fb.id /\ win.resume < fb.id

(* A click lands where the user sees it: after any sequence of rotations    *)
(* and flips, and whatever the sizes of the frames and of the window, the  *)
(* corner of the frame that was turned to a corner of the drawn rectangle  *)
(* is the one that a click there is sent to; and the rectangle is the one  *)
(* of the present window and frame, once the window events are handled.    *)
ClicksFollowPicture ==
    mpc = "loop" /\ win.shown =>
        /\ \A c \in Corners :
              Convert(win.rect.x + picture[c][1] * win.rect.w,
                      win.rect.y + picture[c][2] * win.rect.h)
                  = <<c[1] * win.frameSize[1], c[2] * win.frameSize[2]>>
        /\ Count("resized") = 0 => win = sc_screen_update_content_rect(win)

(* The assertions hold to the end: frames come to a window that is shown,   *)
(* the disconnection is handled once, threads are joined after they were   *)
(* interrupted, the screen is destroyed after its producer is done, and    *)
(* nothing that an event holds is left behind.                             *)
ScreenIsSafe ==
    /\ ~failed
    /\ mpc = "ended" => Count("open") = 0 /\ Count("icon") = 0

(* Once the event loop has ended, scrcpy() gets to its end: the window does *)
(* not wait for ever after a disconnection and every thread can be joined. *)
ScreenEnds == (mpc # "loop") ~> (mpc = "ended")

=============================================================================
