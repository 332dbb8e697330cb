----------------------------- MODULE Controller -----------------------------
(***************************************************************************)
(* The control message queue of the desktop client (controller.c) with its *)
(* sender thread, the receiver thread as far as it ends (receiver.c) and   *)
(* the main thread that starts, feeds, stops, joins and destroys them      *)
(* (scrcpy.c), and the file pusher's thread, which feeds it too and is     *)
(* joined after the controller is destroyed (file_pusher.c).               *)
(*                                                                         *)
(* What a thread does between locking and unlocking controller->mutex is   *)
(* one step.  The condition variable has one waiter: signalling it moves   *)
(* the sender from "wait" back to "lock", where it must take the mutex and *)
(* look again.                                                             *)
(***************************************************************************)
EXTENDS Naturals, Sequences

CONSTANTS
    Msgs,               \* the control messages other than RESIZE_DISPLAY
    NonDroppable,       \* those sc_control_msg_is_droppable() says must be kept
    Unserializable,     \* those sc_control_msg_serialize() gives length 0
    ScanFile,           \* SC_CONTROL_MSG_TYPE_SCAN_FILE, which the file pusher sends
    Limit,              \* SC_CONTROL_MSG_QUEUE_LIMIT
    MayOOM,             \* whether an allocation may fail
    MaxAccepted,        \* bound: messages accepted
    MaxRequests         \* bound: display sizes requested

ASSUME MsgAssumption ==
    /\ NonDroppable \subseteq Msgs /\ Unserializable \subseteq Msgs
    /\ ScanFile \in Msgs \ (NonDroppable \cup Unserializable)

\* A push above the limit signals nobody: with a limit of 0 the sender would
\* sleep on the messages that cannot be dropped.
ASSUME LimitAssumption == Limit \in Nat \ {0} /\ MayOOM \in BOOLEAN

ASSUME BoundAssumption == MaxAccepted \in Nat /\ MaxRequests \in Nat

VARIABLES
    queue,              \* controller->queue
    resize_display,     \* the requested size, by the number of its request; 0: width = 0
    stopped,            \* controller->stopped
    sender,             \* where run_controller() is
    msg,                \* its local: <<m>>, <<>> when it holds a size or nothing
    size,               \* its local: the size taken from resize_display, or 0
    receiver,           \* where run_receiver() is
    peer,               \* the device still serves its end of the socket
    socket,             \* "open", "stopping" (sc_server_stop() called), "interrupted"
    main,               \* where scrcpy() is
    pusher,             \* run_file_pusher(): "none" before the first dropped file and after its end
    events,             \* on_ended(): the SDL events it pushed to the main loop
    \* history
    accepted, wire, requested, display

locals == <<sender, msg, size>>
io == <<receiver, peer, socket, main, pusher, events>>
history == <<accepted, wire, requested, display>>
vars == <<queue, resize_display, stopped, locals, io, history>>

Init ==
    /\ queue = <<>> /\ resize_display = 0 /\ stopped = FALSE
    /\ sender = "none" /\ msg = <<>> /\ size = 0
    /\ receiver = "none" /\ peer = TRUE /\ socket = "open"
    /\ main = "init" /\ pusher = "none" /\ events = {}
    /\ accepted = <<>> /\ wire = <<>> /\ requested = 0 /\ display = 0

\* sc_cond_signal(&controller->msg_cond)
Signal == sender' = IF sender = "wait" THEN "lock" ELSE sender

\* Who may push a message now.  The handlers and processors run in the main
\* thread, which pushes from sc_controller_init() on (the HID keyboard pushes
\* UHID_CREATE before the threads are started) and until the main loop ends.
\* The file pusher asks for a scan of what it has pushed from a thread of its
\* own, whatever the main thread is doing.
Feeding(m) ==
    \/ main \in {"init", "loop"}
    \/ pusher = "running" /\ main # "destroyed" /\ m = ScanFile

\* sc_vecdeque_push_noresize() and, on the first message, a wakeup.
PushedBelowLimit(m) ==
    /\ Len(queue) < Limit
    /\ queue' = Append(queue, m)
    /\ IF queue = <<>> THEN Signal ELSE UNCHANGED sender

\* A message that must not be dropped is pushed even to a full queue.
PushedAboveLimit(m) ==
    /\ Len(queue) >= Limit /\ m \in NonDroppable
    /\ queue' = Append(queue, m)
    /\ UNCHANGED sender

\* Fault: every message is pushed to a full queue.
sc_controller_push_msg_unbounded(m) ==
    /\ Feeding(m) /\ Len(accepted) < MaxAccepted
    /\ \/ PushedBelowLimit(m)
       \/ Len(queue) >= Limit /\ queue' = Append(queue, m) /\ UNCHANGED sender
    /\ accepted' = Append(accepted, m)
    /\ UNCHANGED <<resize_display, stopped, msg, size, io, wire, requested, display>>

\* The message is accepted (the function returns true).
sc_controller_push_msg(m) ==
    /\ Feeding(m) /\ Len(accepted) < MaxAccepted
    /\ PushedBelowLimit(m) \/ PushedAboveLimit(m)
    /\ accepted' = Append(accepted, m)
    /\ UNCHANGED <<resize_display, stopped, msg, size, io, wire, requested, display>>

\* The message is discarded: droppable, or out of memory.
Discarded(m) ==
    /\ Feeding(m)
    /\ Len(queue) >= Limit
    /\ m \in NonDroppable => MayOOM
    /\ UNCHANGED vars

\* Fault: no wakeup when messages are queued too, or a size is pending.
sc_controller_resize_display_quiet ==
    /\ main = "loop" /\ requested < MaxRequests
    /\ requested' = requested + 1
    /\ resize_display' = requested + 1
    /\ UNCHANGED <<queue, stopped, locals, io, accepted, wire, display>>

\* Only the screen asks for sizes, so only the main loop does.
sc_controller_resize_display ==
    /\ main = "loop" /\ requested < MaxRequests
    /\ requested' = requested + 1
    /\ resize_display' = requested + 1
    /\ IF resize_display = 0 THEN Signal ELSE UNCHANGED sender
    /\ UNCHANGED <<queue, stopped, msg, size, io, accepted, wire, display>>

-----------------------------------------------------------------------------
(* run_controller().                                                        *)

NothingToDo == ~stopped /\ resize_display = 0 /\ queue = <<>>

SenderWaits ==
    /\ sender = "lock" /\ NothingToDo
    /\ sender' = "wait"
    /\ UNCHANGED <<queue, resize_display, stopped, msg, size, io, history>>

\* sc_cond_wait() may return without a signal.
SpuriousWakeup ==
    /\ sender = "wait" /\ sender' = "lock"
    /\ UNCHANGED <<queue, resize_display, stopped, msg, size, io, history>>

\* A requested size goes before every queued message.
TakesSize ==
    /\ sender = "lock" /\ ~stopped /\ resize_display # 0
    /\ size' = resize_display /\ resize_display' = 0
    /\ sender' = "send"
    /\ UNCHANGED <<queue, stopped, msg, io, history>>

\* With no size to send, the head of the queue is taken.
TakesMsg ==
    /\ sender = "lock" /\ ~stopped /\ resize_display = 0 /\ queue # <<>>
    /\ msg' = <<Head(queue)>> /\ queue' = Tail(queue)
    /\ sender' = "send"
    /\ UNCHANGED <<resize_display, stopped, size, io, history>>

\* sc_control_msg_serialize() returns 0 for a message of unknown type.
HasNoEncoding == \E i \in DOMAIN msg : msg[i] \in Unserializable

\* Fault: the slot is cleared once the size is sent, not when it is taken.
SentClearsSlot ==
    /\ sender = "send" /\ socket # "interrupted"
    /\ ~HasNoEncoding
    /\ wire' = wire \o msg
    /\ display' = IF size # 0 THEN size ELSE display
    /\ resize_display' = IF size # 0 THEN 0 ELSE resize_display
    /\ msg' = <<>> /\ size' = 0
    /\ sender' = "lock"
    /\ UNCHANGED <<queue, stopped, io, accepted, requested>>

\* process_msg() wrote the whole message; it is destroyed and the loop goes on.
\* A socket whose peer is gone may still take it.
Sent ==
    /\ sender = "send" /\ socket # "interrupted"
    /\ ~HasNoEncoding
    /\ wire' = wire \o msg
    /\ display' = IF size # 0 THEN size ELSE display
    /\ msg' = <<>> /\ size' = 0
    /\ sender' = "lock"
    /\ UNCHANGED <<queue, resize_display, stopped, io, accepted, requested>>

\* sc_controller_on_ended(), for the sender and for the receiver.
on_ended(error) ==
    events' = events \cup {IF error THEN "CONTROLLER_ERROR" ELSE "DEVICE_DISCONNECTED"}

\* process_msg() failed: the message has no encoding (error), or the socket
\* took less than the message (end of stream).
SendFails ==
    /\ sender = "send"
    /\ \/ HasNoEncoding /\ on_ended(TRUE)
       \/ (~peer \/ socket = "interrupted")
            /\ ~HasNoEncoding /\ on_ended(FALSE)
    /\ sender' = "ended"
    /\ UNCHANGED <<queue, resize_display, stopped, msg, size, receiver, peer, socket, main,
                   pusher, history>>

\* Fault: what is queued is flushed on the way out.
SenderStopsFlushing ==
    /\ sender = "lock" /\ stopped
    /\ sender' = "ended"
    /\ on_ended(FALSE)
    /\ wire' = wire \o queue /\ queue' = <<>>
    /\ UNCHANGED <<resize_display, stopped, msg, size, receiver, peer, socket, main, pusher,
                   accepted, requested, display>>

\* "stop immediately, do not process further msgs"
SenderStops ==
    /\ sender = "lock" /\ stopped
    /\ sender' = "ended"
    /\ on_ended(FALSE)
    /\ UNCHANGED <<queue, resize_display, stopped, msg, size, receiver, peer, socket, main,
                   pusher, history>>

-----------------------------------------------------------------------------
(* run_receiver() ends at the end of the stream, or on a malformed message. *)

ReceiverEnds ==
    /\ receiver = "recv"
    /\ \/ (~peer \/ socket = "interrupted") /\ on_ended(FALSE)
       \/ peer /\ on_ended(TRUE)
    /\ receiver' = "ended"
    /\ UNCHANGED <<queue, resize_display, stopped, locals, peer, socket, main, pusher, history>>

\* The device goes away, or the server on it ends.
PeerCloses ==
    /\ peer /\ peer' = FALSE
    /\ UNCHANGED <<queue, resize_display, stopped, locals, receiver, socket, main, pusher,
                   events, history>>

\* run_server() noticed the stop and shut the control socket down.
net_interrupt ==
    /\ socket = "stopping" /\ socket' = "interrupted"
    /\ UNCHANGED <<queue, resize_display, stopped, locals, receiver, peer, main, pusher,
                   events, history>>

-----------------------------------------------------------------------------
(* The main thread.                                                         *)

\* sc_controller_start() creates the sender thread ...
StartsSender ==
    /\ main = "init"
    /\ main' = "starting" /\ sender' = "lock"
    /\ UNCHANGED <<queue, resize_display, stopped, msg, size, receiver, peer, socket,
                   pusher, events, history>>

\* ... and then the receiver thread.
StartsReceiver ==
    /\ main = "starting"
    /\ main' = "loop" /\ receiver' = "recv"
    /\ UNCHANGED <<queue, resize_display, stopped, locals, peer, socket, pusher, events, history>>

\* The first thread could not be created: scrcpy() goes to its end.
StartFails ==
    /\ main = "init"
    /\ main' = "destroy" /\ socket' = "stopping"
    /\ UNCHANGED <<queue, resize_display, stopped, locals, receiver, peer, pusher, events, history>>

sc_controller_stop == stopped' = TRUE /\ Signal

\* The receiver thread could not be created: the sender is stopped and joined
\* before scrcpy() goes to its end and stops the server.
StartAborts ==
    /\ main = "starting"
    /\ sc_controller_stop
    /\ main' = "abort"
    /\ UNCHANGED <<queue, resize_display, msg, size, receiver, peer, socket, pusher,
                   events, history>>

AbortJoins ==
    /\ main = "abort" /\ sender = "ended"
    /\ main' = "destroy" /\ socket' = "stopping"
    /\ UNCHANGED <<queue, resize_display, stopped, locals, receiver, peer, pusher, events, history>>

\* event_loop() returns: the user quits, or an event of on_ended() arrived.
\* Then sc_controller_stop(), and later sc_server_stop().
LoopEnds ==
    /\ main = "loop"
    /\ sc_controller_stop
    /\ main' = "stop"
    /\ UNCHANGED <<queue, resize_display, msg, size, receiver, peer, socket, pusher,
                   events, history>>

sc_server_stop ==
    /\ main = "stop"
    /\ main' = "join" /\ socket' = "stopping"
    /\ UNCHANGED <<queue, resize_display, stopped, locals, receiver, peer, pusher, events, history>>

\* Both threads are joined.
sc_controller_join ==
    /\ main = "join" /\ sender = "ended" /\ receiver = "ended"
    /\ main' = "destroy"
    /\ UNCHANGED <<queue, resize_display, stopped, locals, receiver, peer, socket, pusher,
                   events, history>>

\* The messages left in the queue are destroyed with it.
sc_controller_destroy ==
    /\ main = "destroy" /\ main' = "destroyed"
    /\ queue' = <<>>
    /\ UNCHANGED <<resize_display, stopped, locals, receiver, peer, socket, pusher, events,
                   history>>

-----------------------------------------------------------------------------
(* The file pusher's thread.                                                *)

\* The first file dropped on the window starts the thread.
sc_file_pusher_start ==
    /\ main = "loop" /\ pusher = "none"
    /\ pusher' = "running"
    /\ UNCHANGED <<queue, resize_display, stopped, locals, receiver, peer, socket, main,
                   events, history>>

\* sc_file_pusher_stop() follows sc_controller_stop(): the thread ends, once
\* its adb command has.
PusherEnds ==
    /\ pusher = "running" /\ main \in {"stop", "join", "destroy", "destroyed"}
    /\ pusher' = "none"
    /\ UNCHANGED <<queue, resize_display, stopped, locals, receiver, peer, socket, main,
                   events, history>>

\* sc_file_pusher_join() follows sc_controller_destroy(): a file whose push
\* ended just before the stop may be announced to a controller that is no
\* more.  What the program does from there on is undefined.
PushesToDestroyed ==
    /\ pusher = "running" /\ main = "destroyed"
    /\ pusher' = "undefined"
    /\ UNCHANGED <<queue, resize_display, stopped, locals, receiver, peer, socket, main,
                   events, history>>

-----------------------------------------------------------------------------
SenderActs == SenderWaits \/ TakesSize \/ TakesMsg \/ Sent \/ SendFails \/ SenderStops

MainStarts == StartsSender \/ StartsReceiver \/ StartFails \/ StartAborts

MainEnds == AbortJoins \/ sc_server_stop \/ sc_controller_join \/ sc_controller_destroy

PusherActs == sc_file_pusher_start \/ PusherEnds \/ PushesToDestroyed

Next ==
    \/ \E m \in Msgs : sc_controller_push_msg(m) \/ Discarded(m)
    \/ sc_controller_resize_display
    \/ SenderActs \/ SpuriousWakeup
    \/ ReceiverEnds \/ PeerCloses \/ net_interrupt
    \/ MainStarts \/ LoopEnds \/ MainEnds
    \/ PusherActs

Spec == Init /\ [][Next]_vars

\* The threads are scheduled, a send returns (the device reads its socket, or
\* the socket is shut down), and the main loop handles the events posted to it.
\* The user, the device and the condition variable owe nothing.
Fairness ==
    /\ WF_vars(SenderActs)
    /\ WF_vars(ReceiverEnds /\ (~peer \/ socket = "interrupted"))
    /\ WF_vars(net_interrupt)
    /\ WF_vars(StartsReceiver)
    /\ WF_vars(events # {} /\ LoopEnds)
    /\ WF_vars(MainEnds)

FairSpec == Spec /\ Fairness

-----------------------------------------------------------------------------
(* Properties.                                                              *)

\* Every variable stays within the values the code can give it.
TypeOK ==
    /\ queue \in Seq(Msgs) /\ accepted \in Seq(Msgs) /\ wire \in Seq(Msgs)
    /\ msg \in Seq(Msgs) /\ Len(msg) <= 1
    /\ resize_display \in Nat /\ size \in Nat /\ requested \in Nat /\ display \in Nat
    /\ stopped \in BOOLEAN /\ peer \in BOOLEAN
    /\ sender \in {"none", "lock", "wait", "send", "ended"}
    /\ receiver \in {"none", "recv", "ended"}
    /\ socket \in {"open", "stopping", "interrupted"}
    /\ main \in {"init", "starting", "abort", "loop", "stop", "join", "destroy", "destroyed"}
    /\ pusher \in {"none", "running", "undefined"}
    /\ events \subseteq {"CONTROLLER_ERROR", "DEVICE_DISCONNECTED"}

\* The sender never sleeps on work: although a push signals only when the queue
\* was empty and a resize only when none was set, the thread is in
\* sc_cond_wait() only while there is nothing to do and nobody stopped it.
NoLostWakeup == sender = "wait" => NothingToDo

\* Past SC_CONTROL_MSG_QUEUE_LIMIT the queue holds messages that cannot be
\* dropped, whatever was pushed and sent since they were accepted.
OnlyNonDroppableAboveLimit ==
    \A i \in 1 .. Len(queue) : i > Limit => queue[i] \in NonDroppable

\* What was accepted is what was written, what the sender holds and what is
\* queued, in this order: nothing is lost, repeated or overtaken until
\* sc_controller_destroy() frees the rest.
NothingLostOrReordered ==
    main # "destroyed" => accepted = wire \o msg \o queue

\* The sizes live in one place at a time and only get newer: on the wire, in
\* the sender's hands, in the slot.
SizesAdvance ==
    /\ display <= requested
    /\ size # 0 => display < size /\ size <= requested
    /\ resize_display # 0 => resize_display = requested /\ size < requested /\ display < requested

\* sc_controller_destroy() frees the queue, the mutex and the condition when
\* the two threads that work on them, whatever made them end and in whichever
\* state of the start they were, are over.  It does not say so of the file
\* pusher, which scrcpy() joins too late (PushesToDestroyed).
OwnThreadsAreOver ==
    main \in {"destroy", "destroyed"} =>
        sender \in {"none", "ended"} /\ receiver \in {"none", "ended"}

\* What the threads share stays whole, in every order of the pushes of the main
\* thread and of the file pusher, of sizes, failures and stops: the queue is a
\* FIFO within its limit, a size is never overtaken by an older one, and the
\* queue is freed only once the sender and the receiver are over.
QueueIsFaithful ==
    /\ TypeOK
    /\ OnlyNonDroppableAboveLimit
    /\ NothingLostOrReordered
    /\ SizesAdvance
    /\ OwnThreadsAreOver

\* The controller implements the port its users see: accepted messages in
\* order, ever newer sizes, nothing after the end.
Port == INSTANCE ControlPort WITH closed <- sender = "ended"
ImplementsPort == Port!Spec

\* Every accepted message is written, unless the sender has ended.
AcceptedIsSent ==
    \A n \in 1 .. MaxAccepted :
        (Len(accepted) >= n /\ sender # "none") ~> (Len(wire) >= n \/ sender = "ended")

\* The last size requested is written, unless a newer one is requested or the
\* sender has ended: a request is not swallowed by the sending of another.
LastSizeIsSent ==
    \A n \in 1 .. MaxRequests :
        (requested = n) ~> (display = n \/ requested > n \/ sender = "ended")

\* When the sender or the receiver ends, for whatever reason, the program
\* notices, stops the other one and joins both, and so it does after
\* sc_controller_stop(): nobody waits for ever.
StopCompletes ==
    (stopped \/ sender = "ended" \/ receiver = "ended") ~> (main = "destroyed")

\* Nothing the controller took on is left undone: a message and the last size
\* reach the socket, and a stop or the end of one thread reaches the end of all.
NothingIsForgotten == AcceptedIsSent /\ LastSizeIsSent /\ StopCompletes
=============================================================================
