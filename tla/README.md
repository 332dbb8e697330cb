# Verification of DroidCtl and its scrcpy base

DroidCtl is an Android app (Kotlin) that mirrors and controls another Android
device, built in the tree of scrcpy: the C client (`app/`), the Java server that
runs on the mirrored device (`server/`) and the app itself (`droidctl/`). This
directory holds TLA+ modules translated from that code, TLC configurations that
check them on small instances, and TLAPS proofs of the main results for every
value of the parameters.

Contents: [the system](#the-system) · [hard behaviours](#what-is-hard) ·
[modules](#modules-and-how-they-follow-the-code) · [runs](#runs) ·
[bounds](#bounds) · [fairness](#fairness) · [proofs](#proofs) ·
[findings](#findings) · [observations](#observations) ·
[not modelled](#not-modelled) · [plan](#plan).

## The system

Paths below are relative to the repository; Kotlin paths to
`droidctl/src/main/kotlin/dev/alexdev404/droidctl`, Java paths to
`server/src/main/java/com/genymobile/scrcpy`.

| Component | State it keeps | Operations | What makes it correct |
|---|---|---|---|
| **MirrorSession** (`session/`, `ui/DroidCtlApp.kt`, `scrcpy/ScrcpyLauncher.kt`) | session state, `stopping`, `sessionGeneration`, reconnect count, six nullable resources, `startJob`, `lifecycleMutex` | `start`, `requestStop`/`stop`, `onStreamFailure`, `teardownLocked`, `connectTarget`, `pair` | no half-built session; a late report hits only its own session; nothing leaks; every call returns |
| **Connection handshake** (`scrcpy/ScrcpyConnection.kt`, `device/DesktopConnection.java`) | up to three sockets, retry deadline | open in order, dummy byte, device name, retries | sockets are not swapped; a partial connection is closed |
| **adb forwards** (`transport/AdbTransport.kt`, `data/DroidCtlPreferences.kt`) | the stored list of forwards | open, close, clear those of a dead process | every forward is recorded before it exists or removed |
| **Control channel** (`scrcpy/ControlChannel.kt`) | a channel of 256 messages, writer and drain jobs | `send`, `close` | order, bounded memory, close ends |
| **Video decoder and pump** (`video/`) | codec, input-slot queue, pending packets (16) | packets, codec callbacks, release | no packet used after release; key frame first |
| **SSH transport and relay** (`transport/`, `relay/`) | tunnel processes, proxied sockets | open, copy, close | both directions end together |
| **Quality and bandwidth** (`session/ConnectionQuality.kt`, …) | sliding windows of samples | sample, classify | arithmetic at zero and at the edges |
| **Control queue of the client** (`app/src/controller.c`, `receiver.c`) | `queue`, `resize_display`, `stopped`, two threads | push, resize, start, stop, join, destroy | FIFO, no lost wakeup, latest size wins, both threads end |
| **AOA HID and acknowledgements** (`app/src/usb/aoa_hid.c`, `util/acksync.c`) | event queue, list of open devices, `ack` | push input/open/close, wait for an answer, stop | a paste never precedes its clipboard; devices are unregistered |
| **Recorder** (`app/src/recorder.c`) | two packet queues, `stopped`, `video`/`audio` flags, `pts_origin` | sinks' open/push/close/disable, header, packets, stop | complete, ordered, increasing time stamps; always ends |
| **Demuxer, packet sources, decoder** (`app/src/demuxer.c`, `packet_merger.c`, `trait/`, `decoder.c`) | sinks, pending config, frames in the codec | receive, merge config, forward, close | sinks opened are closed, once; the decoder sees the newest config |
| **Video regulator, clock** (`video_regulator.c`, `clock.c`) | delayed frames, buffering thread | push, wait until due, stop | order; both threads end |
| **Audio regulator, player** (`audio_regulator.c`, `util/audiobuf.c`, `audio_player.c`) | ring buffer, compensation, `played` | push, pull | no torn sample; order; bounded delay |
| **Window** (`screen.c`, `frame_buffer.c`, `fps_counter.c`, `disconnect.c`, orientations of `options.c`) | one pending frame, sizes, orientation, pause, two threads | frames, window events, shortcuts, disconnection | the newest frame is shown; clicks follow the picture; threads end |
| **Input manager** (`input_manager.c`, `keyboard_sdk.c`, `mouse_sdk.c`, `mouse_capture.c`, slots of `hid_gamepad.c`) | buttons, virtual finger, capture, sequence numbers, slots | keys, text, mouse, touch, wheel, gamepads, clipboard | no failed assertion; nothing stuck; each character once |
| **Command line** (`cli.c`) | the options | one argument; completion and refusal | what is accepted is what the rest relies on |
| **scrcpy()** (`scrcpy.c`, `main.c`) | parts, threads, events | start steps, loop, stop/join/destroy | nothing destroyed in use; the program ends |
| **Server start, tunnel, interruption** (`server.c`, `adb/adb_tunnel.c`, `util/intr.c`) | server thread, sockets, `stopped`, interruptible | start, connect with retries, stop | a stop interrupts whatever is under way |
| **File pusher, time limit** (`file_pusher.c`, `util/timeout.c`) | request queue, running process; deadline | request, stop; fire, stop | no lost wakeup; stop ends a running push |
| **Server side** (`control/`, `video/`, `audio/`, `Server.java`, `CleanUp.java`) | encoders, capture resets, answers, UHID devices, pointers | messages, resets, clean-up | a reset is not lost; clean-up happens once |
| **HID tables, adb wrappers, Android wrappers, UI** | – | translation, drawing, parsing | covered by unit tests |

How they interact: in the app the UI calls MirrorSession, which owns a transport
(adb or SSH), the launcher, the connection, the control channel and the pump and
decoder threads; those threads call back with the end of a stream. In the client
`scrcpy()` starts the server thread, waits for the sockets, starts demuxers, the
controller, recorder and optional AOA, runs the SDL loop, and at its end stops,
interrupts, joins and destroys everything in a fixed order. Client and server
exchange control messages and device messages over one socket and media over two
others.

### What is hard

Everything runs in several threads or coroutines. Wakeups are sent only under
conditions ("the queue was empty"), flags are set before locks are taken or read
without them, a report may outlive the session it is about, answers may be
dropped, waits have timeouts that race the answer, and the shutdown order decides
whether an object is destroyed under a thread that still uses it. `PROJECT.json`
("hazards") lists each place with the property that watches it.

## Modules and how they follow the code

| Module | Models | Composes |
|---|---|---|
| `MirrorSession` | `session/MirrorSession.kt` with its UI and threads | – |
| `ControlPort` | what `controller.h` promises (abstract) | – |
| `Controller` | `controller.c`, the ends of `receiver.c` and `scrcpy.c` | implements `ControlPort` |
| `AoaHid` | `aoa_hid.c`, `acksync.c`, the clipboard part of the device, the end of `scrcpy.c` | relies on the FIFO of `ControlPort` |
| `Recorder` | `recorder.c`, the demuxers as far as they call it | – |
| `Server` | `server.c`, `adb_tunnel.c`, `intr.c`, the adb commands, `scrcpy()` around them | – |
| `AudioRegulator` | `audio_regulator.c`, `audiobuf.c`, the callback of `audio_player.c` | – |
| `VideoPipeline` | `demuxer.c`, `packet_merger.c`, the packet and frame sources, `decoder.c`, `video_regulator.c`, `clock.c` | – |
| `Screen` | `screen.c`, `frame_buffer.c`, `fps_counter.c`, `disconnect.c`, the event loop and end of `scrcpy.c` | – |
| `Options` | `cli.c`: what an argument does, what is completed and refused (pure operators) | – |
| `Client` | `main.c`, `scrcpy.c` from the start to the exit, `file_pusher.c`, `timeout.c` | `Options`: the options of the parts it starts |
| `InputManager` | `input_manager.c`, `keyboard_sdk.c`, `mouse_sdk.c`, `mouse_capture.c`, gamepad slots | `Options`: the processors that exist |
| `MC*` | the instances TLC explores | |
| `*Proofs` | the theorems | |

Definitions named "Fault: …" are plausible mistakes in the code. No
specification uses them; each is the substitute that a property must notice
(`PROJECT.json`, "mutants").

**MirrorSession.** Coroutines are elements of `Starts`, `Stops`, `Reports`; `pc`
says how far each is outside the lock. Code under `lifecycleMutex` is sequential,
so one counter `step` serves the holder: `check` → teardown → `open`, `deliver`,
`forward`, `exec`, `sockets`, `surface` is `start()`; `begin`, `drain`, `close`,
`join`, `process`, `tunnel`, `after` is `teardownLocked()`, and `cont` is what its
caller does next. One step reaches from one suspension point to the next. `res`
maps each nullable field to the generation that filled it, `alive` is what exists
outside the process (forwards, server processes, sockets). Every suspending call
can fail, and in a cancelled coroutine throws whatever it had achieved. A call that
fails may have had its effect: a forward that adb made while `adb.forward()` or
`recordForward()` failed, or kept when it was to be removed, is a `stray`, a server
process that the kill did not reach is `unkilled`. An adb command may never return
(`AdbHangs`). `streamed` says whether the session has lasted `STABLE_SESSION_MS`, and
`retries` is a history of the reconnects, apart from the code's counter. The mutex
is FIFO and skips cancelled waiters, like kotlinx.coroutines'. `peerUp` matters
for `ControlChannel.close()`, which joins a reader blocked on the socket.

**Controller.** A step is what one thread does between locking and unlocking. The
condition variable has one waiter: a signal moves the sender from `wait` to
`lock`, where it looks again; it may also wake for no reason. A size is the number
of its request, so "newer" is `>`. The socket's end is `open`, `stopping` (asked
for) and `interrupted` (done by the server thread). The file pusher's thread
(`pusher`) pushes `ScanFile` at any time until it ends, which may be after the
controller is destroyed: from that push on nothing is known of it (`"undefined"`).
`ControlPort` sees `accepted`,
`wire`, `requested`, `display` and `closed <- sender = "ended"`.

**AoaHid.** The main thread pushes keys, gamepads and Ctrl+v; a Ctrl+v is a
`SET_CLIPBOARD` on the control socket (`control`) followed by an input event that
carries the sequence to wait for. The device handles `control`, offers an answer
to a bounded queue, and a sender forwards it; the receiver thread takes it in two
steps, because the socket read and `sc_acksync_ack()` are not atomic. The AOA
thread waits for an event, then possibly for an answer (`acked`), with a timeout.
USB requests succeed or fail, and one that fails may have been done. `vec_open`
counts how often the exit list holds a device: a device whose close failed can be
opened again. `strays` is a history of the devices that are registered without the
thread being able to know: an opened one that `sc_vector_push()` could not add to the
list, and those of failed requests.

**Recorder.** `wants`, `init`, `expects`, `queue`, `pkt`, `last` are functions of
the stream, so the two pairs of sinks are one set of actions, with their difference
(only the video sink refuses to open when stopped) written out. `pc` follows
`run_recorder()`: `file`, `header`/`hwait`, `config`, then the loop `lock`/`wait`,
`taken`, `write`, and `last`, `clear`, `ended`. `Origin` reads `wants` and
`stopped` in a step of its own because the code reads them after unlocking.
Rescaling rounds to nearest like `av_packet_rescale_ts()`, and `Fixed` is the
repair of time stamps that do not increase.

**Server.** `at` is the call of `run_server()` under way and `phase` how far it is:
an adb command is executed, registered in `server->intr`, waited for,
unregistered and reaped, a socket call registered, waited for and unregistered,
each in a step of its own, because a stop or the observer of the server process
can interrupt between any two. `target` is what is registered. `local` holds the
sockets of `sc_server_connect_to()`, `fields` those published in `struct
sc_server`, `open` what is really open. What adb reports is a choice: a command
has its effect (`took`) or not, whether or not it is waited for. `left` is a
history of the tunnels adb knows. The main thread follows `scrcpy()` from
`await_for_server()` through `sc_server_stop()` and the joins.

**AudioRegulator.** A sample is its serial number, silence is 0. The decoder
thread writes to the ring without the lock, so a write is two steps (choosing the
slots, publishing the cursor) with the callback of SDL in between; reading and
making room take the lock. `job` holds the locals of `sc_audio_regulator_push()`.
The resampler returns any number of samples near what it was given, which covers
every value of the compensation.

**VideoPipeline.** `pc` follows `run_demuxer()` through the sinks in the order of
the code, `bpc` is `run_buffering()`. Each sink counts as opened, used and closed
by whoever calls it; every open, push and allocation may fail. The codec may hold
a frame back. `merge`, `regulated` and `video` are chosen at the start, so the
audio stream is the same module.

**Screen.** The decoder thread offers a frame to the frame buffer and, in a later
step, posts its event. `win` is what only the main thread uses: window, content and
rectangle sizes, orientation, pause, pending resize. `picture` is a history of
where the user has turned each corner of the frame, moved by the shortcuts and
never by the code's formula; `Convert` is the code's mapping of a click. The FPS
counter and the disconnection timer are threads with their condition variables. A
request to quit may come before there is a window.
After the loop `mpc` follows `scrcpy()` to the destruction of the screen.

**Options** and **Client.** An argument is a pair of option and value; `Options`
has one case per kind of option and, in the order of `parse_args_with_getopt()`,
every later completion and refusal. `Client` reads arguments, then runs
`scrcpy()`: the start makes parts (`made`) and threads one after the other, each of
which may fail (once with a part that is forgotten), and `EndSteps` lists what the end stops, joins and destroys (`gone`). Threads of
other modules only end; the file pusher and the time limit are complete.

**InputManager.** A behaviour starts with one accepted command line (the options its
arguments left, completed by `Options`), which decides the processors. Handlers are operators from state to state in the order of the
code, with their guards; `ok` says whether a pushed message was accepted. `st`
holds the input manager's fields and histories of what was sent; an assertion that
fails or a NULL processor that is used sets `crashed`. What the user really holds
is `user`, so that it can be compared with what the device was told; `user.twice` are
the gamepads that SDL and `init_sdl_gamepads()` both announced. A dropped file is an
event like the others; what the file pusher does with it is in `Client`.

## Runs

| Run | Shows |
|---|---|
| `session_safety` | Two starts, a stop and two reports in every order, every call failing or cancelled: with the lock free the session is whole or gone, Streaming means all resources of this attempt, reports tear down their own session only, a stream that keeps dying is reconnected as often as the budget allows and no more, and without a cancellation a failed start leaves nothing behind but what the failing adb call itself left |
| `session_liveness` | Every coroutine ends, unless an adb command hangs or `ControlChannel.close()` does not return while its caller holds the lock; `stop()` never cancels the start of the screen on display, with a dispatcher that is not starved |
| `controller` | Pushes at and above the limit, sizes, failing sends, a dying peer, threads that cannot be created, a stop, the file pusher: no lost wakeup, FIFO, bound, sizes, the controller's own threads are over before it is destroyed, refinement of `ControlPort`, and that what is accepted is sent and the program ends |
| `aoa` | Pastes with dropped and late answers, keys, a gamepad plugged twice, failing USB requests and allocations, a quit: order of paste and clipboard, monotonic answers, no lost wakeup, no device left registered but those the thread cannot know of; the end is reached whatever the AOA thread waits for, and a missing answer blocks the keyboard for a while only |
| `recorder` | Both streams opening, pushing, ending and failing in every order, audio disabled at any time, a stop anywhere: time stamps increase, a success is complete, assertions hold, the recorder and the program end |
| `server` | All options, every call failing, hanging or interrupted, the server dying and the user quitting at any time: an interruption always reaches the thread, never kills a reaped process, every way out cleans up, no tunnel is left once connected, a stop ends, a dead server is noticed |
| `audio` | Frames smaller and larger than the ring, callbacks at every moment, drops, compensation and close: no slot is written while it is read, samples keep their order, the delay stays within its limit |
| `video` | Both streams, with and without regulator and recorder, every step failing: each sink is closed once, configurations reach the decoder, frames stay in order, both threads end |
| `screen` | Frames of two sizes, rotation, flip, pause, fullscreen, resizing, the FPS counter, disconnection and quit: the newest frame is announced once, clicks follow the picture, assertions hold, the end is reached |
| `input` | 29 command lines, each with the keys, modifiers, buttons or gamepads that matter to it: no assertion fails, nothing is held for the device that the user released and no slot for a gamepad that is gone (but one of a gamepad announced twice), while paused nothing is sent but the torch, gamepads that come and go and dropped files, each character arrives once, a paste waits for its own clipboard |
| `input_wheel` (violation) | The wheel over a window without a mouse processor dereferences NULL |
| `client` | Every command line of up to three of about fifty arguments, and `scrcpy()` for those of up to two, with failing starts, dying threads, a dropped file, a time limit, a lost device: the options are consistent, no part is destroyed in use but for two known pairs, nothing is left at the exit but an acksync without a USB device, the program ends |

A property that is a conjunction (`QueueIsFaithful`, `PastesAreOrdered`,
`NothingIsMissed`, `FileIsCorrect`, `StreamsAreAligned`, `InterruptIsExact`,
`NothingLeaks`, `EndsAreNoticed`, …) has its parts as named definitions before it,
each with its own comment; the type invariant of a module is one of the parts.

Runs whose system ends say `CHECK_DEADLOCK FALSE`: the last state has no
successor. That nobody waits for ever is what the liveness properties say.

### Bounds

* `MirrorSession`: two starts are what it takes for one to replace another while
  a stop is between them; two reports because pump and decoder can both report one
  attempt; one reconnect is enough to have a second generation inside one start
  and to exhaust the budget. Symmetry is used in the safety run only.
* `Controller`: a limit of 2 is reached and passed with 4 accepted messages of
  three kinds (non-droppable, droppable, without encoding); two sizes are enough
  for one to be requested while another is being sent. `ScanFile` is the droppable
  kind, as in the code.
* `AoaHid`: a queue of 1 and an answer queue of 1 make both overflow with two
  pastes and a key; two plugs of one slot put a device on the list twice. Three
  inputs in all (`MaxInputs`) allow each of these. `AoaRoom`, how many events the
  queue holds before it has to grow (and may fail to), is 2, so that it is reached. `Video` says whether a demuxer
  must be joined before the acknowledgement object is destroyed.
* `Recorder`: three packets per stream are one taken, one kept back and one
  queued; the time stamps 0 and 3 with a unit of 2 give packets that collide after
  rounding, repeat and go backwards. All four values of (`video`, `audio`) except
  neither are initial states.
* `Server`: two ports and two attempts are one that fails and one that follows it;
  two sockets without video take both branches of the forward tunnel (the first
  socket, with its byte, and the next one). All combinations of `--list-*`, TCP/IP
  mode, `--force-adb-forward` and `--kill-adb-on-close` are initial states.
* `AudioRegulator`: sizes of a few samples keep the proportions of the code; a
  frame of 6 is larger than what is free, so all three ways to write it occur.
* `VideoPipeline`: six items are a session, configurations in a row, media and a
  second session; the codec holds one frame.
* `Screen`: two frames of two sizes and two inputs: any two of rotation, flip,
  pause, unpause, fullscreen, FPS and resize, in any order with the frames; the
  first orientation is the one that is both mirrored and turned. `LateFps = FALSE`
  leaves out MOD+i after a disconnection (see Observations).
* `Client`: three arguments are what the longest dependency in `cli.c` needs;
  two decide which parts exist. `PromptTimeout = TRUE` leaves out the race of
  `sc_timeout_start()` (see Observations).
* `InputManager`: three slots for the three gamepads of a scenario let one have
  two slots, and fill them; three sequence
  numbers are two pastes; events are unbounded otherwise. `WheelAnywhere = FALSE`
  leaves out what `input_wheel` shows, so that `input` can look for anything else.

### Fairness

Weak fairness only, and only for what the program itself runs: threads and
dispatched coroutines that can take a step, waits that carry a timeout of their
own, a main loop that reads events posted to it, and a receiver or demuxer whose
socket was shut down. Users, devices, adb and peers owe nothing (but for the
server that prints a list, which is assumed to exit); neither does a
condition variable (spurious wakeups are not relied on).
In `VideoPipeline` the device sends a bounded stream; in `Screen` and `Client`
the threads of the other modules end when they are interrupted, which is what
those modules check. Two calls of the app are not assumed to return: an adb command, whose timeout cannot
end the blocking `Shell.exec()` (`RootShellSession.kt:58-60`), and
`ControlChannel.close()`, which has none. A coroutine that stays in one of them while
it holds the lock blocks all the others; these are the two exceptions in
`EveryCoroutineEnds`, and `StopReturns` shows the second. `PromptDispatch` restricts the UI of `session_liveness` to call `start()`
only after earlier launched coroutines have reached their first suspension point,
since a round trip to the device lies between them; `session_safety` does not
assume it.

## Proofs

Every theorem is `Spec => []P` (or an action property, or the refinement), for
all values of the constants under the modules' named assumptions, which the runs
evaluate: disjoint sets of coroutines, positive limits (with a limit of 0 a push
above the limit would signal nobody), natural time stamps, a positive unit of time, a
ring with a positive rate, a clock that averages at least two values, arguments
whose numeric values have been read as numbers, frames and displays that are not
empty, shortcuts that exist, and, of the command lines of `InputManager`, options
that arguments can leave. That last one is not taken on trust: it is what
`ArgumentsLeaveScenarios` proves of `Client`. Bounds such as `MaxFrames`
are arbitrary numbers in a proof.

Four theorems have a hypothesis on a constant, because without it the property is
false, as TLC shows ([observations](#observations), [findings](#findings)):
`PartsOutliveTheirThreads` assumes `PromptTimeout`, `NewestStartIsNotCancelled`
assumes `PromptDispatch`, `AssertionsHold` assumes `~LateFps` and
`InputNeverCrashes` assumes `~WheelAnywhere`. The runs set the constants accordingly.

Each proof shows an inductive `IInv`: that it holds in `Init`, that each action keeps
it (one step or lemma per action), and that it implies the property.

* `MirrorSessionProofs` – `FieldsAndStateAgree` (from `TypeCorrect` and
  `SessionIsWhole`), `ReportsAreOwn`, `BudgetHolds`, `FailedStartsLeaveNothing`,
  `NewestStartIsNotCancelled`. `BudgetHolds` rests on `BudgetInv`: the history of
  reconnects and the code's counter agree except between a report and its reconnect,
  and after a session has lasted. `WholeOrGone` speaks only of
  a free lock; `ResInv` adds which fields are set at each step of a start and of a
  teardown, `TagInv` that a pump, a report or a decoder carries a generation not
  newer than the current one which, if it equals it, belongs to a complete session,
  `PhaseInv` where Streaming is possible, `LockInv` who can be at which step.
  `FailedStartLeavesNothing` also speaks of a free lock only; `AliveInv` accounts, at
  every step, for what exists outside the process: it belongs to a field, or to the
  step that is about to store or to close it, or else is a `stray` or `unkilled`.
  `NewestStartSurvives` needs `KnownInv`
  (a coroutine that was never launched is known to nobody) and `PromptInv` (a
  stop has read `startJob` and cancelled it before the next mirror screen is opened).
* `ControlPathProofs`, for `Controller` – `TypeCorrect`, `WakeupsAreKept`, `LimitIsKept`,
  `QueueIsFifo`, `SizesAreOrdered`, `DestroyIsSafe`, together `FaithfulQueue`, and
  `RefinesPort`. The
  invariants are inductive together with `Holding`: what the sender holds at each
  point. Refinement: a completed send maps to `Send` or `SendSize`, the sender's
  end to `Close`, everything else to a stutter or to accepting a request.
* `ControlPathProofs`, for `AoaHid` (`AoaIInv`) – `PasteProtocol` (from
  `PasteIsNeverEarly` and `AcksAreInOrder`), `ThreadIsReliable` (from
  `AoaWakeupsAreKept` and `NothingIsLeft`). `Pipeline` orders the sequence numbers
  from the device back to the client: `ack` ≤ received ≤ on the wire ≤ queued ≤ `clipboard` < waiting,
  each part increasing, although answers are dropped. `Answered` says that an event
  past its wait has its answer. `Listed` says that what is registered is on the
  exit list or a stray.
* `RecorderProofs` – `WakeupsAreKept`, `CorrectFile` (from `TypesAreKept`,
  `TimesIncrease`, `NothingIsLost`), `AlignedStreams` (from `UnwantedStaysEmpty`,
  `StartsAreOnTime`). `LastIsLast` relates
  `last_pts` to the file; `Complete` numbers the packets written, kept back, held
  and queued without a gap; `Origins` says that once there is an origin, a stream
  that has written nothing has its first packet at hand, not before the origin;
  `Shape`, `Unstarted` and `Quiet` say what the locals hold at each point.
* `ServerProofs` – `InterruptionIsExact` (from `InterruptionIsNeverLost` and
  `NothingReapedIsKilled`), `NoLeak` (from `PublishedSocketsAreOpen` and
  `EveryWayOutCleansUp`), `NoTunnelStays`. `SlotIsExact` says that what is
  registered is what the thread is blocked in; `TunnelInv`, `SocketsInv`,
  `PlacesInv` and `ProcessInv` say at which places of `run_server()` the tunnel, the
  sockets, the process and its observer may exist; `EventsInv` what the main thread
  may conclude from an event. For the tunnels at adb, `LeftIs` says at each place
  which of them adb must know. It does not hold for ever: an interruption makes a
  command fail that has had its effect. `Doomed` says why that is harmless to a
  connected client: from then on no call on a socket succeeds, so "connected" is
  never reached; `RemovedInv` is `LeftIs` or `Doomed` or a failure of adb (`kept`).
* `AudioRegulatorProofs` – `NoSampleIsTorn`, `SoundStaysInOrder`,
  `LatencyStaysBounded`. The ring is a modulus, so the first lemmas (`Wrapped`,
  `SlotsDiffer`, `Level`, `Moved`, …) say how positions between the two cursors map to
  slots. `JobFits` says that what the decoder thread has decided to write still has
  room when it writes it, although the callback has moved the other cursor since;
  `RingIsInOrder` numbers what can be read between the last sample played and the newest
  one written; `LevelFollowsPc` bounds the level at each point of a push.
* `VideoPipelineProofs` – `SinksBalance`, `ConfigIsDecoded`, `FramesStayInOrder` (an
  action property). `SinksFollowPc` and `ThreadFollowsPc` give the state of the sinks
  and of the buffering thread at each point of the demuxer; `ConfigIsKept` says where
  the newest configuration is: in the merger, in front of the packet, or in the codec.
  The queue of the regulator mixes sessions and frames, so `QueueInOrder` says that some
  numbering (`Leads`) leads through it from what the sink has to what left the decoder;
  `RunTail`, `RunAppendFrame` and `RunAppendSession` are the lemmas on that numbering.
* `ClientProofs`, for `Client` – `OptionsStayConsistent`, `ArgumentsLeaveScenarios`,
  `PartsOutliveTheirThreads`. The first
  follows `parse_args_with_getopt()`: an argument keeps the fields that decide within
  their values (`Typed`), then there is a lemma for each stage of completion and
  refusal, in their order. For the third, `MadeFollowsPc` and
  `NeedsAreMade` say that a thread runs only with the parts it uses, and
  `EndFollowsStep`, with a table of the step at which each thread is joined and each
  part destroyed, that the order of the end respects this but for `KnownRaces`, and
  that what is not destroyed at the exit is not `Destroyable`.
* `ClientProofs`, for `InputManager` (`InputIInv`) – `InputNeverCrashes`,
  `OnlyTheWheelCrashes`, `NothingStaysPressed`, `PausedStaysSilent`, `PastesWait`,
  `CharactersAreSentOnce`. `Decides` is what the completed options guarantee: a
  processor only with a control channel and without a camera, no binding left
  undecided; `ConfiguredDecides` has it from `CompleteIsConsistent`, the lemma behind
  `OptionsStayConsistent`. `Good` is what a handler may be given and must leave, with
  one lemma per handler (`CountKeyStep` to `GamepadStep`): the second finger is the
  remembered one, no button counts as pressed with a camera, the slots hold known gamepads,
  the clipboards sent are older than the next number. `HeldByUser` and `PluggedByUser`
  relate that to the user, and need each handler to change no button and no slot but its
  own (`Follow`: at most one slot each, two for a gamepad announced twice).
  `OnlyTheWheelCrashes` has no hypothesis: it locates the finding `input_wheel` as the
  one assertion or NULL processor that any sequence of events can reach.
* `ScreenProofs` – `TypeCorrect`, `NewestFrameIsShown`, `ClicksLand`, `AssertionsHold`.
  `AnnouncedInv` says where the event of the pending frame is (in the queue, or about to
  be posted by the decoder thread) and that an event that opens the window, or a request
  to quit, is in front of any frame of a hidden window: this is why `NewFrame` finds its
  frame and a shown window. `PictureInv` ties the history, the drawing and the content to
  one orientation, and the rectangle to the window unless a window event is still to
  come; `DrawnFollows` shows that the code's composition of a turn or a flip does to the
  drawn corners what the user asked for, `ClickLands` that the conversion inverts the drawing,
  and one lemma per window operation (`RectUpdated` to `Reacted`) that no size becomes
  empty. `QueueInv` bounds the events that hold memory to one of each type, so that
  removing one (`Dequeued`) is enough; `EndInv` says who has ended at each step of the end.

Only model-checked: all liveness properties (`EveryCoroutineEnds`,
`NothingIsForgotten`, `NobodyWaitsForEver`, `QuitCompletes`, `EndsAreNoticed`,
`StreamEnds`, `ScreenEnds`, `ClientEnds`), which are out of the prover's reach. Every
safety property of a passing run has a theorem.

## Findings

`input_wheel`: `sc_input_manager_process_mouse_wheel()` tests `im->kp` where the
other mouse handlers test `im->mp`; with `--mouse=disabled`, or without video
playback, the first turn of the wheel over the window uses a NULL processor. The
quotation is in `PROJECT.json`.

## Observations

Claims of comments that the code does not keep. The first five are stated at the
end of their modules; TLC refutes each when its name replaces the properties of the
module's configuration.

* `MirrorSession`, `StopReturns` (with `FairSpec` and `PromptDispatch = FALSE`):
  `ControlChannel.close()` joins its reader (`ControlChannel.kt:64`), which is
  blocked on a socket that `teardownLocked()` closes only afterwards
  (`MirrorSession.kt:821-825`); `stop()`, "Safe to call from any state", never
  returns and keeps the lock while the server stays up.
* `MirrorSession`, `NothingSurvives`: the teardown of a cancelled start runs in the
  cancelled coroutine (`MirrorSession.kt:433`), where suspending calls throw; a
  forward that adb had made stays, although "a failed start never leaves a forward
  or a server process behind" (lines 325-326).
* `MirrorSession`, `MirrorShowsItsTarget`: `stop()` stands aside for a newer
  `start()` (`MirrorSession.kt:775`), which returns because the session it meets is
  already Streaming; the new screen shows the old Target.
* `AoaHid`, `AcksyncIsNotUsedDestroyed` (with `Video = TRUE`): `scrcpy()` destroys
  the acknowledgement object (`scrcpy.c:998`) before it joins the receiver thread
  that calls it (1011). `Client` has it in `KnownRaces`, with the controller that is
  destroyed (1014) before the file pusher is joined (1025).
* `Recorder`, `StopFinishesRecording`: `stopped` is read without the lock
  (`recorder.c:375`) after the packets were taken, so a stop in between fails a
  recording that has video packets queued. `VideoPipeline`, `SinkHasOneThread`: with
  a video buffer the first frame is pushed to the sink by the decoder's thread
  (`video_regulator.c:216`) while the buffering thread may push a session.
* `Screen` with `LateFps = TRUE` violates `ScreenIsSafe`: MOD+i after a disconnection
  is handled before the test of `im->disconnected` (`input_manager.c:523`) and starts
  the FPS counter again after it was interrupted; `sc_fps_counter_join()` asserts, or
  in a release build waits for ever.
* `Client` with `PromptTimeout = FALSE` violates `PartsOutliveThreads`:
  `sc_timeout_start()` creates the thread before it sets the deadline and the
  callbacks (`util/timeout.c:46`).

Met while modelling:

* An adb command that never returns keeps `lifecycleMutex` for ever: the timeout around
  the blocking `Shell.exec()` fires only when it returns, so that "the user gets told,
  instead of watching a spinner forever" (`RootShellSession.kt:58-60`) is not kept.
* A forward is lost without a cancellation when `recordForward()` throws after adb made
  it (`AdbTransport.kt:51-53`) or when the command took effect but was reported as timed
  out; a server process when its number is not known yet or the kill fails unnoticed
  (`RootShellSession.kt:180-199`).
* When the old Target stays on the new screen, `stopping` stays set, so the end of the
  surviving stream is ignored too.
* `requestStop()` reads `startJob` when it is dispatched, not when it is called
  (`MirrorSession.kt:766-769`): with a starved dispatcher it cancels a newer start.
* The device answers a clipboard request even when setting the clipboard failed
  (`Controller.java:709-724`); "handled" is all an answer means, and
  `PasteFollowsClipboard` says no more.
* `scrcpy.c:216` says mirroring goes on if only the audio fails; an error status
  quits.
* A comment in `recorder.h` says only the recorder thread resets `audio`; the
  demuxer thread does (`recorder.c:745`). `UnwantedIsEmpty` shows that the
  assertions hold all the same.
* The sinks use `recorder->ctx` without waiting for the recorder thread to have
  created it, and the audio sink does not test `stopped` (`recorder.c:658`). The
  context is not modelled yet.
* A failed audio write leaks the previous video packet (`recorder.c`).
* An interruption while `adb reverse` runs makes `sc_adb_tunnel_open()` fall back to
  `adb forward`, which is executed and then neither awaited nor killed, since it
  cannot be registered any more (`adb.c:186`): quitting during the start can leave a
  tunnel and an unreaped process. `TunnelsAreRemoved` is therefore about
  connections that succeed. With `--list-*` the wait for the server is not
  interruptible (`server.c:1067`).
* Options: `--shortcut-mod=,lctrl` fails an assertion of `parse_shortcut_mods()`;
  `--otg --video-source=camera` with AOA inputs is accepted and then all inputs are
  disabled (`cli.c:3243`, after the tests at 3145-3178). The acknowledgement object
  is leaked when no USB device can be selected (`scrcpy.c:631-634`, after 617);
  `PartsOutliveThreads` has this as the one part that is left.
* The file pusher pushes `SCAN_FILE` to the controller (`file_pusher.c:125`) from a
  thread that is joined after `sc_controller_destroy()` (`scrcpy.c:1014`, 1025):
  `PushesToDestroyed` of `Controller`. `QueueIsFaithful` is about the sender and the
  receiver, which are joined before.
* AOA: a device that cannot be added to the exit list "will just not be explicitly
  unregistered" (`aoa_hid.c:368-373`), nor is one whose failed request was done;
  `NoDeviceLeft` is about all others.
* Gamepads: `init_sdl_gamepads()` announces the gamepads that are plugged
  (`scrcpy.c:285-304`, 884) although the event of SDL may still be queued;
  `hid_gamepad.c:239-249` then gives the pad a second slot, which stays when it goes.
* A file dropped while paused is pushed and announced to the device
  (`input_manager.c:1133` does not test `paused`).
* Window: after a disconnection MOD+z shows a frame kept from before it; the window
  is scaled twice when a new size and a pending resize meet (`screen.c:872-891`).
* Input: keys are still forwarded after the disconnection (`input_manager.c:674`). A
  key or button released while paused, or while MOD is held, is not released on the
  device; a double-click dragged to the black border is not forwarded on release
  (917-929); if the virtual finger's message is dropped, the press that follows keeps
  its pointer. In relative mode a button released while the mouse is not captured
  stays in `mouse_buttons_state`; `NothingIsPhantom` is therefore about absolute
  mice. `keyboard_sdk.c:110` sends a full stop for the percent key, and the mixed
  injection mode asserts that a text event holds one byte.
* A size always goes before queued messages, so an unbounded stream of sizes would
  starve them; user input bounds it.

## Not modelled

* Of `MirrorSession`: the SSH transport, the debug fake server and the optional
  `adb disconnect`.
* Of the client's control path: message encoding (`control_msg.c`) beyond "has
  none"; no caller builds a message without encoding, so that branch is kept only
  for its control flow. Failure of `SDL_PushEvent()`. Of the receiver only its end
  and, in `AoaHid`, the acknowledgements.
* Of AOA: the mouse (it behaves like the keyboard without pastes); report bytes.
* Of the server start: which device is selected, addresses, command lines, and
  running out of memory.
* Of the recorder: `AVFormatContext` and `AVPacket` memory, metadata, orientation.
* Of the options: the table and its help, numbers and names as text, options that
  nothing else depends on (titles, encoders, sizes).
* Of the window: drawing, textures, cursors, windows without video, the sizes sent
  to the device with `--flex-display`.
* Of the input: positions, report bytes, held-key sets of the HID keyboards.
* Of the pipeline: time stamps, codec parameters; a failed allocation is the failure
  of the whole operation, so the entry without a frame that
  `sc_video_regulator_frame_sink_push()` leaves in the queue when no memory is left
  is not there.
* OTG mode (`usb/scrcpy_otg.c`), `v4l2_sink.c`, `usb.c`: device I/O.
* HID tables, adb text parsing, Android API wrappers, Compose UI: translation,
  drawing and parsing without state to interleave, covered by unit tests.
* The Java server: its threads block in Android services whose behaviour is not in
  the repository; the other modules have it as their environment. Of DroidCtl,
  everything around MirrorSession (handshake, stored forwards, decoder, control
  channel, SSH relay, bandwidth) is a step, a resource or a report of that module.

## Plan

Done: the session; of the C client the control queue with its abstract port, AOA
with acknowledgements, the recorder, the server start, both media pipelines, the
window, the input manager, the command line and the whole of `scrcpy()`. Next:

1. **DroidCtl**: forwards kept across restarts (crash between forward and record),
   handshake, control channel, decoder with its pending queue, SSH relay.
2. **Composition** of `AoaHid` over `ControlPort` in place of its inlined FIFO, and
   the `AVFormatContext` of the recorder shared with `VideoPipeline`.
