------------------------------- MODULE AoaHid -------------------------------
(***************************************************************************)
(* Keyboard and gamepads simulated over USB (usb/aoa_hid.c) and the paste  *)
(* protocol that ties them to the control socket: Ctrl+v goes over USB,    *)
(* the clipboard it pastes over the control socket, and util/acksync.c     *)
(* makes the first wait for the second.                                    *)
(*                                                                         *)
(* The threads: main (input_manager.c, keyboard_aoa.c, gamepad_aoa.c and   *)
(* the end of scrcpy.c), the AOA thread, the receiver thread (receiver.c), *)
(* the server thread that shuts the sockets down (server.c) and, on the    *)
(* device, the control thread and the sender of its answers                *)
(* (Controller.java, DeviceMessageSender.java).  The client's way to the   *)
(* device is the FIFO Controller is proved to implement (ControlPort).     *)
(***************************************************************************)
EXTENDS Naturals, Sequences, FiniteSets

CONSTANTS
    Keyboard,       \* the HID id of the keyboard
    Gamepads,       \* the HID ids of the gamepad slots
    AoaLimit,          \* SC_AOA_EVENT_QUEUE_LIMIT
    AoaRoom,        \* the events the queue holds without growing (AoaLimit + 4)
    AckLimit,       \* the capacity of DeviceMessageSender's queue
    Video,          \* a demuxer runs until its socket is shut down (else there
                    \* is none, or it ended on its own)
    MaxPastes,      \* bound: Ctrl+v pressed
    MaxKeys,        \* bound: other keys and gamepad inputs
    MaxPlugs,       \* bound: gamepads plugged in
    MaxInputs       \* bound: the three of them together

ASSUME IdAssumption == Keyboard \notin Gamepads

ASSUME AoaLimitAssumption ==
    /\ AoaLimit \in Nat \ {0} /\ AckLimit \in Nat \ {0} /\ Video \in BOOLEAN
    /\ AoaRoom \in Nat /\ AoaLimit <= AoaRoom

ASSUME AoaBoundAssumption ==
    MaxPastes \in Nat /\ MaxKeys \in Nat /\ MaxPlugs \in Nat /\ MaxInputs \in Nat

Ids == Gamepads \cup {Keyboard}

SC_SEQUENCE_INVALID == 0

VARIABLES
    aoaMain, keys, plugs,
    next_sequence,      \* of the input manager
    ack_to_wait,        \* its local between the two pushes of a Ctrl+v
    plugged,            \* the gamepad slots in use (hid_gamepad.c)
    control,            \* SET_CLIPBOARD messages on their way to the device
    clipboard,          \* on the device: the last sequence handled
    answers,            \* on the device: the queue of DeviceMessageSender
    acks,               \* ACK_CLIPBOARD messages on their way to the client
    aoaSocket,             \* "open", "stopping", then "video" and "all" interrupted
    aoaReceiver, received, \* run_receiver(), and the ack it is processing
    ack, interrupted,   \* sc_acksync: ack and stopped
    acksync,            \* "alive" or "destroyed"
    aoaQueue, aoaStopped,     \* sc_aoa
    aoa, event,         \* run_aoa_thread() and its local
    vec_open,           \* its local list of devices to unregister on exit: how
                        \* many times it holds each (a device that could not be
                        \* closed may be opened again)
    open_error,         \* SC_EVENT_AOA_OPEN_ERROR was pushed
    registered,         \* on the device: the HID devices registered
    injected,           \* on the device: the sequences whose Ctrl+v arrived
    strays              \* history: registered devices the thread cannot know of, as
                        \* a request for them failed or no memory was left to list them

mainVars == <<aoaMain, keys, plugs, next_sequence, ack_to_wait, plugged>>
deviceVars == <<control, clipboard, answers, acks>>
receiverVars == <<aoaReceiver, received>>
syncVars == <<ack, interrupted, acksync>>
threadVars == <<aoaQueue, aoaStopped, aoa, event, vec_open, open_error>>
usbVars == <<registered, injected, strays>>
aoaVars == <<mainVars, deviceVars, aoaSocket, receiverVars, syncVars, threadVars, usbVars>>

INPUT(id, a) == [type |-> "INPUT", id |-> id, ack |-> a]
OPEN(id) == [type |-> "OPEN", id |-> id, ack |-> SC_SEQUENCE_INVALID]
CLOSE(id) == [type |-> "CLOSE", id |-> id, ack |-> SC_SEQUENCE_INVALID]

\* The keyboard was opened by sc_keyboard_aoa_init() before the thread started.
AoaInit ==
    /\ aoaMain = "loop" /\ keys = 0 /\ plugs = 0
    /\ next_sequence = 1 /\ ack_to_wait = SC_SEQUENCE_INVALID /\ plugged = {}
    /\ control = <<>> /\ clipboard = 0 /\ answers = <<>> /\ acks = <<>>
    /\ aoaSocket = "open" /\ aoaReceiver = "recv" /\ received = 0
    /\ ack = SC_SEQUENCE_INVALID /\ interrupted = FALSE /\ acksync = "alive"
    /\ aoaQueue = <<OPEN(Keyboard)>> /\ aoaStopped = FALSE
    /\ aoa = "lock" /\ event = OPEN(Keyboard)
    /\ vec_open = [id \in Ids |-> 0] /\ open_error = FALSE
    /\ registered = {} /\ injected = {} /\ strays = {}

\* sc_cond_signal(&aoa->event_cond), on the first event of the queue.
SignalIfEmpty == aoa' = IF aoaQueue = <<>> /\ aoa = "wait" THEN "lock" ELSE aoa

\* sc_aoa_push_input(): an input is discarded when the queue is full.
PushInput(e) ==
    IF Len(aoaQueue) < AoaLimit
    THEN aoaQueue' = Append(aoaQueue, e) /\ SignalIfEmpty
    ELSE UNCHANGED <<aoaQueue, aoa>>

\* sc_aoa_push_open() and sc_aoa_push_close(): pushed even above the limit, but
\* for want of memory where the queue must grow.
PushAlways(e) ==
    \/ aoaQueue' = Append(aoaQueue, e) /\ SignalIfEmpty
    \/ Len(aoaQueue) >= AoaRoom /\ UNCHANGED <<aoaQueue, aoa>>

-----------------------------------------------------------------------------
(* The main thread: the user types, pastes, plugs and quits.                *)

MoreInput == next_sequence - 1 + keys + plugs < MaxInputs

\* A key or a gamepad input.  The first key is preceded by the state of the
\* lock keys, when they are on: before a Ctrl+v too.
Key(id) ==
    /\ aoaMain = "loop" \/ (aoaMain = "paste" /\ id = Keyboard)
    /\ keys < MaxKeys /\ MoreInput /\ keys' = keys + 1
    /\ id \in plugged \cup {Keyboard}
    /\ PushInput(INPUT(id, SC_SEQUENCE_INVALID))
    /\ UNCHANGED <<aoaMain, plugs, next_sequence, ack_to_wait, plugged, deviceVars, aoaSocket,
                   receiverVars, syncVars, aoaStopped, event, vec_open, open_error, usbVars>>

\* set_device_clipboard() was accepted by the controller.  (Refused, Ctrl+v is
\* not injected and nothing changes.)
PasteRequested ==
    /\ aoaMain = "loop" /\ next_sequence <= MaxPastes /\ MoreInput
    /\ aoaMain' = "paste"
    /\ control' = Append(control, next_sequence)
    /\ ack_to_wait' = next_sequence /\ next_sequence' = next_sequence + 1
    /\ UNCHANGED <<keys, plugs, plugged, clipboard, answers, acks, aoaSocket, receiverVars,
                   syncVars, threadVars, usbVars>>

\* sc_key_processor_process_key() pushes Ctrl+v with the sequence to wait for.
PasteKey ==
    /\ aoaMain = "paste" /\ aoaMain' = "loop"
    /\ PushInput(INPUT(Keyboard, ack_to_wait))
    /\ ack_to_wait' = SC_SEQUENCE_INVALID
    /\ UNCHANGED <<keys, plugs, next_sequence, plugged, deviceVars, aoaSocket, receiverVars,
                   syncVars, aoaStopped, event, vec_open, open_error, usbVars>>

\* A slot is free for the gamepad (else it is ignored).
GamepadAdded(id) ==
    /\ aoaMain = "loop" /\ plugs < MaxPlugs /\ MoreInput /\ plugs' = plugs + 1
    /\ id \in Gamepads \ plugged
    /\ plugged' = plugged \cup {id}
    /\ PushAlways(OPEN(id))
    /\ UNCHANGED <<aoaMain, keys, next_sequence, ack_to_wait, deviceVars, aoaSocket, receiverVars,
                   syncVars, aoaStopped, event, vec_open, open_error, usbVars>>

GamepadRemoved(id) ==
    /\ aoaMain = "loop" /\ id \in Gamepads \cap plugged
    /\ plugged' = plugged \ {id}
    /\ PushAlways(CLOSE(id))
    /\ UNCHANGED <<aoaMain, keys, plugs, next_sequence, ack_to_wait, deviceVars, aoaSocket,
                   receiverVars, syncVars, aoaStopped, event, vec_open, open_error, usbVars>>

\* The user quits, the device is gone or the keyboard could not be opened:
\* scrcpy() goes to its end, where sc_aoa_stop() comes first.
sc_aoa_stop ==
    /\ aoaMain = "loop" /\ aoaMain' = "interrupt"
    /\ aoaStopped' = TRUE
    /\ aoa' = IF aoa = "wait" THEN "lock" ELSE aoa
    /\ UNCHANGED <<keys, plugs, next_sequence, ack_to_wait, plugged, deviceVars, aoaSocket,
                   receiverVars, syncVars, aoaQueue, event, vec_open, open_error, usbVars>>

sc_acksync_interrupt ==
    /\ aoaMain = "interrupt" /\ aoaMain' = "stop"
    /\ interrupted' = TRUE
    /\ UNCHANGED <<keys, plugs, next_sequence, ack_to_wait, plugged, deviceVars, aoaSocket,
                   receiverVars, ack, acksync, threadVars, usbVars>>

\* sc_server_stop() asks the server thread to shut the sockets down.
StopServer ==
    /\ aoaMain = "stop" /\ aoaMain' = "join"
    /\ aoaSocket' = "stopping"
    /\ UNCHANGED <<keys, plugs, next_sequence, ack_to_wait, plugged, deviceVars,
                   receiverVars, syncVars, threadVars, usbVars>>

\* sc_demuxer_join(), then sc_aoa_join(), then
\* sc_acksync_destroy().
sc_acksync_destroy ==
    /\ aoaMain = "join" /\ aoa = "ended"
    /\ Video => aoaSocket \in {"video", "all"}
    /\ aoaMain' = "controller" /\ acksync' = "destroyed"
    /\ UNCHANGED <<keys, plugs, next_sequence, ack_to_wait, plugged, deviceVars, aoaSocket,
                   receiverVars, ack, interrupted, threadVars, usbVars>>

\* sc_controller_join() joins the receiver.
JoinReceiver ==
    /\ aoaMain = "controller" /\ aoaReceiver = "ended"
    /\ aoaMain' = "done"
    /\ UNCHANGED <<keys, plugs, next_sequence, ack_to_wait, plugged, deviceVars, aoaSocket,
                   receiverVars, syncVars, threadVars, usbVars>>

\* run_server() shuts the video socket down, then the control socket.
InterruptSockets ==
    /\ \/ aoaSocket = "stopping" /\ aoaSocket' = "video"
       \/ aoaSocket = "video" /\ aoaSocket' = "all"
    /\ UNCHANGED <<mainVars, deviceVars, receiverVars, syncVars, threadVars, usbVars>>

-----------------------------------------------------------------------------
(* The device.                                                              *)

\* setClipboard(): the clipboard is set and the answer offered to the sender,
\* which drops it when its queue is full.
setClipboard ==
    /\ control # <<>> /\ aoaSocket # "all"
    /\ control' = Tail(control)
    /\ clipboard' = Head(control)
    /\ answers' = IF Len(answers) < AckLimit THEN Append(answers, Head(control)) ELSE answers
    /\ UNCHANGED <<mainVars, acks, aoaSocket, receiverVars, syncVars, threadVars, usbVars>>

\* DeviceMessageSender.loop()
SendAnswer ==
    /\ answers # <<>> /\ aoaSocket # "all"
    /\ answers' = Tail(answers) /\ acks' = Append(acks, Head(answers))
    /\ UNCHANGED <<mainVars, control, clipboard, aoaSocket, receiverVars, syncVars, threadVars,
                   usbVars>>

-----------------------------------------------------------------------------
(* The receiver thread.                                                     *)

ReceiveAck ==
    /\ aoaReceiver = "recv" /\ acks # <<>>
    /\ aoaReceiver' = "ack" /\ received' = Head(acks) /\ acks' = Tail(acks)
    /\ UNCHANGED <<mainVars, control, clipboard, answers, aoaSocket, syncVars, threadVars, usbVars>>

sc_acksync_ack ==
    /\ aoaReceiver = "ack" /\ aoaReceiver' = "recv" /\ received' = 0
    /\ ack' = received
    /\ UNCHANGED <<mainVars, deviceVars, aoaSocket, interrupted, acksync, threadVars, usbVars>>

\* At the end of the stream: the socket is shut down, or the device is gone.
AckReceiverEnds ==
    /\ aoaReceiver = "recv"
    /\ aoaReceiver' = "ended"
    /\ UNCHANGED <<mainVars, deviceVars, aoaSocket, received, syncVars, threadVars, usbVars>>

-----------------------------------------------------------------------------
(* The AOA thread.                                                          *)

AoaWaits ==
    /\ aoa = "lock" /\ ~aoaStopped /\ aoaQueue = <<>>
    /\ aoa' = "wait"
    /\ UNCHANGED <<mainVars, deviceVars, aoaSocket, receiverVars, syncVars, aoaQueue, aoaStopped,
                   event, vec_open, open_error, usbVars>>

\* The next event is popped; an input with a sequence waits for its answer.
AoaTakes ==
    /\ aoa = "lock" /\ ~aoaStopped /\ aoaQueue # <<>>
    /\ event' = Head(aoaQueue) /\ aoaQueue' = Tail(aoaQueue)
    /\ aoa' = IF Head(aoaQueue).ack # SC_SEQUENCE_INVALID THEN "acked" ELSE "process"
    /\ UNCHANGED <<mainVars, deviceVars, aoaSocket, receiverVars, syncVars, aoaStopped, vec_open,
                   open_error, usbVars>>

\* Fault: any answer will do.
AckArrivesAny ==
    /\ aoa = "acked" /\ ~interrupted /\ ack # SC_SEQUENCE_INVALID
    /\ aoa' = "process"
    /\ UNCHANGED <<mainVars, deviceVars, aoaSocket, receiverVars, syncVars, aoaQueue, aoaStopped,
                   event, vec_open, open_error, usbVars>>

\* sc_acksync_wait() returns OK: this sequence, or a later one, is answered.
AckArrives ==
    /\ aoa = "acked" /\ ~interrupted /\ ack >= event.ack
    /\ aoa' = "process"
    /\ UNCHANGED <<mainVars, deviceVars, aoaSocket, receiverVars, syncVars, aoaQueue, aoaStopped,
                   event, vec_open, open_error, usbVars>>

\* Fault: the wait has no deadline.
AckTimesOutNever ==
    /\ aoa = "acked" /\ ~interrupted /\ ack < event.ack /\ event.ack = SC_SEQUENCE_INVALID
    /\ aoa' = "lock"
    /\ UNCHANGED <<mainVars, deviceVars, aoaSocket, receiverVars, syncVars, aoaQueue, aoaStopped,
                   event, vec_open, open_error, usbVars>>

\* It returns TIMEOUT after 500 ms: the event is discarded.
AckTimesOut ==
    /\ aoa = "acked" /\ ~interrupted /\ ack < event.ack
    /\ aoa' = "lock"
    /\ UNCHANGED <<mainVars, deviceVars, aoaSocket, receiverVars, syncVars, aoaQueue, aoaStopped,
                   event, vec_open, open_error, usbVars>>

\* It returns INTR, or the thread finds itself stopped.
AoaStops ==
    /\ \/ aoa = "acked" /\ interrupted
       \/ aoa = "lock" /\ aoaStopped
    /\ aoa' = "closing"
    /\ UNCHANGED <<mainVars, deviceVars, aoaSocket, receiverVars, syncVars, aoaQueue, aoaStopped,
                   event, vec_open, open_error, usbVars>>

\* SEND_HID_EVENT; its failure is only logged.
ProcessInput ==
    /\ aoa = "process" /\ event.type = "INPUT" /\ aoa' = "lock"
    /\ \/ event.ack # SC_SEQUENCE_INVALID /\ injected' = injected \cup {event.ack}
       \/ UNCHANGED injected
    /\ UNCHANGED <<mainVars, deviceVars, aoaSocket, receiverVars, syncVars, aoaQueue, aoaStopped,
                   event, vec_open, open_error, registered, strays>>

\* sc_aoa_setup_hid() succeeds and the device is put on the list for the exit,
\* if there is memory for it ("the HID device will just not be explicitly
\* unregistered").
Opened ==
    /\ registered' = registered \cup {event.id}
    /\ \/ /\ vec_open' = [vec_open EXCEPT ![event.id] = @ + 1]
          /\ strays' = strays \ {event.id}
       \/ strays' = strays \cup {event.id} /\ UNCHANGED vec_open
    /\ UNCHANGED open_error

\* It fails: at REGISTER_HID, which may have been done all the same, or at
\* SET_HID_REPORT_DESC, after which the device is unregistered, if that does
\* not fail too.  Without its keyboard scrcpy exits.
OpenFails ==
    /\ \/ UNCHANGED <<registered, strays>>
       \/ registered' = registered \ {event.id} /\ strays' = strays \ {event.id}
       \/ registered' = registered \cup {event.id} /\ strays' = strays \cup {event.id}
    /\ open_error' = (open_error \/ event.id = Keyboard)
    /\ UNCHANGED vec_open

ProcessOpen ==
    /\ aoa = "process" /\ event.type = "OPEN" /\ aoa' = "lock"
    /\ Opened \/ OpenFails
    /\ UNCHANGED <<mainVars, deviceVars, aoaSocket, receiverVars, syncVars, aoaQueue, aoaStopped,
                   event, injected>>

\* Removed once, if it is there.
StruckOff(id) == [vec_open EXCEPT ![id] = IF @ = 0 THEN 0 ELSE @ - 1]

\* Fault: the device is struck off the list whether or not it was closed.
ProcessCloseForgets ==
    /\ aoa = "process" /\ event.type = "CLOSE" /\ aoa' = "lock"
    /\ registered' \in {registered, registered \ {event.id}}
    /\ vec_open' = StruckOff(event.id)
    /\ strays' = strays \cap registered'
    /\ UNCHANGED <<mainVars, deviceVars, aoaSocket, receiverVars, syncVars, aoaQueue, aoaStopped,
                   event, open_error, injected>>

\* UNREGISTER_HID; on failure, which may have been done all the same, the device
\* stays on the list for the exit.
ProcessClose ==
    /\ aoa = "process" /\ event.type = "CLOSE" /\ aoa' = "lock"
    /\ registered' \in {registered, registered \ {event.id}}
    /\ \/ event.id \notin registered' /\ vec_open' = StruckOff(event.id)
       \/ UNCHANGED vec_open
    /\ strays' = strays \cap registered'
    /\ UNCHANGED <<mainVars, deviceVars, aoaSocket, receiverVars, syncVars, aoaQueue, aoaStopped,
                   event, open_error, injected>>

\* Every device still open is unregistered before the thread ends.
Unregister(id) ==
    /\ aoa = "closing" /\ vec_open[id] > 0
    /\ vec_open' = StruckOff(id)
    /\ \/ registered' = registered \ {id} /\ strays' = strays \ {id}
       \/ UNCHANGED registered /\ strays' = strays \cup (registered \cap {id})
    /\ UNCHANGED <<mainVars, deviceVars, aoaSocket, receiverVars, syncVars, aoaQueue, aoaStopped,
                   aoa, event, open_error, injected>>

AoaEnds ==
    /\ aoa = "closing" /\ \A id \in Ids : vec_open[id] = 0
    /\ aoa' = "ended"
    /\ UNCHANGED <<mainVars, deviceVars, aoaSocket, receiverVars, syncVars, aoaQueue, aoaStopped,
                   event, vec_open, open_error, usbVars>>

-----------------------------------------------------------------------------
User ==
    \/ \E id \in Ids : Key(id) \/ GamepadAdded(id) \/ GamepadRemoved(id)
    \/ PasteRequested \/ sc_aoa_stop

Main == PasteKey \/ sc_acksync_interrupt \/ StopServer \/ sc_acksync_destroy \/ JoinReceiver

Receiver == ReceiveAck \/ sc_acksync_ack \/ AckReceiverEnds

Aoa ==
    \/ AoaWaits \/ AoaTakes \/ AckArrives \/ AckTimesOut \/ AoaStops
    \/ ProcessInput \/ ProcessOpen \/ ProcessClose
    \/ (\E id \in Ids : Unregister(id)) \/ AoaEnds

AoaNext == User \/ Main \/ InterruptSockets \/ setClipboard \/ SendAnswer \/ Receiver \/ Aoa

AoaSpec == AoaInit /\ [][AoaNext]_aoaVars

\* The threads are scheduled, the main thread reads its events, USB transfers
\* and the wait for an answer end (both have a timeout), and the receiver sees
\* the end of an interrupted socket.  The user and the device owe nothing.
AoaFairness ==
    /\ WF_aoaVars(Main) /\ WF_aoaVars(InterruptSockets) /\ WF_aoaVars(Aoa)
    /\ WF_aoaVars(open_error /\ sc_aoa_stop) /\ WF_aoaVars(sc_acksync_ack)
    /\ WF_aoaVars(aoaSocket = "all" /\ AckReceiverEnds)

AoaFairSpec == AoaSpec /\ AoaFairness

-----------------------------------------------------------------------------
(* Properties.                                                              *)

Events == [type : {"INPUT", "OPEN", "CLOSE"}, id : Ids, ack : Nat]

\* Every variable stays within the values the code can give it.
AoaTypeOK ==
    /\ aoaMain \in {"loop", "paste", "interrupt", "stop", "join", "controller", "done"}
    /\ keys \in Nat /\ plugs \in Nat /\ next_sequence \in Nat /\ ack_to_wait \in Nat
    /\ plugged \subseteq Gamepads
    /\ control \in Seq(Nat) /\ clipboard \in Nat /\ answers \in Seq(Nat) /\ acks \in Seq(Nat)
    /\ aoaSocket \in {"open", "stopping", "video", "all"}
    /\ aoaReceiver \in {"recv", "ack", "ended"} /\ received \in Nat
    /\ ack \in Nat /\ interrupted \in BOOLEAN /\ acksync \in {"alive", "destroyed"}
    /\ aoaQueue \in Seq(Events) /\ aoaStopped \in BOOLEAN
    /\ aoa \in {"lock", "wait", "acked", "process", "closing", "ended"} /\ event \in Events
    /\ vec_open \in [Ids -> Nat] /\ open_error \in BOOLEAN
    /\ registered \subseteq Ids /\ injected \subseteq Nat
    /\ strays \subseteq Ids

\* acksync.c: "Acknowledgements must be monotonic".  The assertion holds
\* although answers may be dropped on the device.
AcksAreMonotonic == aoaReceiver = "ack" => received >= ack

\* Ctrl+v reaches the device only after the device handled the clipboard it was
\* pressed for: "otherwise it could paste the old clipboard content"
\* (keyboard_aoa.c).  Two channels, a bounded queue of answers and a timeout
\* lie between the two.
PasteFollowsClipboard == \A n \in injected : n <= clipboard

\* The AOA thread sleeps only while it has nothing to do.
NoEventMissed == aoa = "wait" => aoaQueue = <<>> /\ ~aoaStopped

\* When the AOA thread has ended the simulated devices left on the phone are
\* those it failed to register or unregister cleanly and those there was no
\* memory to remember: no order of plugging, unplugging, failed requests and
\* stop leaves another one behind.
NoDeviceLeft == aoa = "ended" => registered \subseteq strays

\* scrcpy() ends once it has begun to, and when the keyboard it was asked for
\* cannot be opened: an AOA thread that waits for an answer is interrupted, one
\* that sleeps is woken, and the receiver is released.
EndIsReached == (aoaMain = "interrupt" \/ open_error) ~> (aoaMain = "done")

\* A Ctrl+v whose answer was dropped or never sent blocks the keyboard for a
\* while only: the thread always comes back to its queue, or ends.
KeyboardNeverStuck == (aoa = "acked") ~> (aoa \in {"lock", "ended"})

\* The paste protocol is right whatever is lost, late or dropped: no Ctrl+v
\* overtakes its clipboard, and answers reach sc_acksync_ack() in order.
PastesAreOrdered == AoaTypeOK /\ AcksAreMonotonic /\ PasteFollowsClipboard

\* The AOA thread misses neither an event nor a stop, and what it opened on the
\* phone it takes back before it ends, but for what failed on the phone or found
\* no memory.
NothingIsMissed == NoEventMissed /\ NoDeviceLeft

\* Nobody waits for ever on an answer, on the queue or on a socket.
NobodyWaitsForEver == EndIsReached /\ KeyboardNeverStuck

-----------------------------------------------------------------------------
(* A comment the code does not keep up with (see the README).               *)

\* The acknowledgement object is not used after sc_acksync_destroy(), which
\* scrcpy.c calls "now that the sockets are shutdown".
AcksyncIsNotUsedDestroyed == aoaReceiver = "ack" => acksync = "alive"
=============================================================================
