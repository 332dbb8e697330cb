------------------------------- MODULE Server -------------------------------
(***************************************************************************)
(* How the client starts the server on the device, connects to it and ends *)
(* (server.c with adb/adb_tunnel.c, the adb commands of adb/adb.c, and     *)
(* scrcpy() around them).  The server thread makes one blocking call after *)
(* the other; util/intr.c lets the main thread, and the thread that        *)
(* observes the server process, interrupt the one under way.               *)
(*                                                                         *)
(* A blocking call is registered in server->intr, waited for and           *)
(* unregistered in steps of their own (`phase'), and `at' tells which call *)
(* it is.  A device property or an address is read or is not; a socket     *)
(* that cannot be created is one that cannot be connected or listened on.  *)
(* A command whose output is read is registered twice in the code, for the *)
(* pipe and for the exit code, and once here.                              *)
(***************************************************************************)
EXTENDS Naturals, Sequences, FiniteSets

CONSTANTS
    WantedSets,     \* the sets of sockets the options may ask for
    LastPort,       \* port_range is 1 .. LastPort
    Attempts        \* how often a connection, or the TCP/IP mode, is tried

Order == <<"video", "audio", "control">>
AllSockets == {Order[i] : i \in 1 .. 3}

ASSUME WantedAssumption == WantedSets \subseteq (SUBSET AllSockets) \ {{}}

ASSUME RangeAssumption == LastPort \in Nat \ {0} /\ Attempts \in Nat \ {0}

Ports == 1 .. LastPort

\* The blocking calls: adb processes, and calls on sockets.
RemoveCommands == {"reverse --remove", "forward --remove", "retry --remove"}
Commands ==
    RemoveCommands \cup
    {"start-server", "devices", "ip route", "getprop", "tcpip", "getprop again", "disconnect",
     "connect", "push", "reverse", "forward", "kill-server"}
SocketCalls == {"listen", "accept", "first", "byte", "next", "info"}

\* The other places of run_server().
Places ==
    {"list", "listing", "execute", "observe", "unobserved", "nap", "pause", "fail", "connected",
     "wait", "interrupt", "watchdog", "join", "close", "abort", "reap", "abort join", "failed",
     "ended"}

VARIABLES
    opt,                \* params: list, tcpip, forward, kill and wanted
    at, phase, result,  \* run_server(): the call, how far it is, what it returned
    took,               \* the adb command under way has had, or will have, its effect
    call,               \* the process or socket waited for: "none", "running",
                        \* "interrupted", "over", "closed"
    then,               \* what follows the closing of the tunnel
    port, tries,        \* the loops' counters
    interrupted, target,\* server->intr: the flag, and "none", "process" or "socket"
    tunnel,             \* "off", "reverse" or "forward"
    local,              \* connect_to()'s sockets that are not SC_SOCKET_NONE
    fields,             \* those of struct sc_server
    open, shut,         \* the sockets open, with "listening", and those interrupted
    process, observer,  \* the server process, and the thread that waits for it
    stopped, main, events,
    started,            \* the threads that use the sockets were started
    left, kept          \* history: the tunnels adb knows; one was not removed

callVars == <<at, phase, result, took, call, then, port, tries>>
intrVars == <<interrupted, target>>
socketVars == <<tunnel, local, fields, open, shut>>
processVars == <<process, observer>>
mainVars == <<stopped, main, started>>
historyVars == <<left, kept>>
vars == <<opt, callVars, intrVars, socketVars, processVars, mainVars, events, historyVars>>

\* sc_server_init() and sc_server_start().
Init ==
    /\ opt \in [list : BOOLEAN, tcpip : {"no", "known", "unknown"}, forward : BOOLEAN,
                kill : BOOLEAN, wanted : WantedSets]
    /\ at = "start-server" /\ phase = "ready" /\ result = FALSE /\ took = FALSE
    /\ call = "none" /\ then = "failed" /\ port = 1 /\ tries = Attempts
    /\ interrupted = FALSE /\ target = "none"
    /\ tunnel = "off" /\ local = {} /\ fields = {} /\ open = {} /\ shut = {}
    /\ process = "none" /\ observer = "none"
    /\ stopped = FALSE /\ main = "await" /\ events = {} /\ started = FALSE
    /\ left = {} /\ kept = FALSE

-----------------------------------------------------------------------------
(* sc_intr, and a blocking call around it.                                  *)

\* sc_intr_interrupt(): what is registered is killed, or shut down.
sc_intr_interrupt ==
    /\ interrupted' = TRUE /\ target' = "none"
    /\ call' = IF target # "none" /\ call = "running" THEN "interrupted" ELSE call

\* The tunnels adb knows once the command under way has had its effect.
Tunnels ==
    CASE at = "reverse" -> {t \in left : t[1] # "reverse"} \cup {<<"reverse", port>>}
      [] at = "forward" -> left \cup {<<"forward", port>>}
      [] at \in {"reverse --remove", "retry --remove"} -> {t \in left : t[1] # "reverse"}
      [] at = "forward --remove" -> left \ {<<"forward", port>>}
      [] OTHER -> left

\* The adb process is started; or cannot be.
Executes ==
    /\ at \in Commands /\ phase = "ready"
    /\ \/ /\ phase' = "executed" /\ call' = "running" /\ took' \in BOOLEAN
          /\ UNCHANGED result
       \/ /\ phase' = "done" /\ call' = "none" /\ took' = FALSE /\ result' = FALSE
    /\ left' = IF took' THEN Tunnels ELSE left
    /\ kept' = (kept \/ (~took' /\ at \in RemoveCommands))
    /\ UNCHANGED <<opt, at, then, port, tries, intrVars, socketVars, processVars, mainVars, events>>

\* sc_intr_set_process(), sc_intr_set_socket(): "already interrupted" fails the
\* call; an adb process is then left to itself.
Registers ==
    /\ \/ at \in Commands /\ phase = "executed"
       \/ at \in SocketCalls /\ phase = "ready"
    /\ IF interrupted
       THEN phase' = "done" /\ result' = FALSE /\ UNCHANGED <<call, target>>
       ELSE /\ phase' = "blocked" /\ call' = "running" /\ UNCHANGED result
            /\ target' = IF at \in Commands THEN "process" ELSE "socket"
    /\ UNCHANGED <<opt, at, took, then, port, tries, interrupted, socketVars, processVars,
                   mainVars, events, historyVars>>

\* The call returns by itself ...
Returns ==
    /\ phase = "blocked" /\ call = "running"
    /\ call' = "over" /\ phase' = "returned"
    /\ result' \in IF at \in Commands THEN {took} ELSE BOOLEAN
    /\ UNCHANGED <<opt, at, took, then, port, tries, intrVars, socketVars, processVars, mainVars,
                   events, historyVars>>

\* ... or because it was interrupted.
IsInterrupted ==
    /\ phase = "blocked" /\ call = "interrupted"
    /\ call' = "over" /\ phase' = "returned" /\ result' = FALSE
    /\ UNCHANGED <<opt, at, took, then, port, tries, intrVars, socketVars, processVars, mainVars,
                   events, historyVars>>

\* Fault: the process is reaped by the wait itself.
UnregistersReaped ==
    /\ phase = "returned"
    /\ IF call = "over" /\ at \in Commands
       THEN call' = "closed" /\ UNCHANGED <<target, phase>>
       ELSE target' = "none" /\ phase' = "done" /\ UNCHANGED call
    /\ UNCHANGED <<opt, at, result, took, then, port, tries, interrupted, socketVars, processVars,
                   mainVars, events, historyVars>>

\* "Always pass close=false, interrupting would be racy otherwise"
Unregisters ==
    /\ phase = "returned"
    /\ target' = "none" /\ phase' = IF at \in Commands THEN "unregistered" ELSE "done"
    /\ UNCHANGED <<opt, at, result, took, call, then, port, tries, interrupted, socketVars,
                   processVars, mainVars, events, historyVars>>

\* sc_process_close()
Closes ==
    /\ phase = "unregistered"
    /\ call' = "closed" /\ phase' = "done"
    /\ UNCHANGED <<opt, at, result, took, then, port, tries, intrVars, socketVars, processVars,
                   mainVars, events, historyVars>>

BlockingCall == Executes \/ Registers \/ IsInterrupted \/ Unregisters \/ Closes

-----------------------------------------------------------------------------
(* run_server(), from call to call.                                         *)

Done(c) == at = c /\ phase = "done"

GoTo(p) == at' = p /\ phase' = "ready"

\* A call that only leads to another one.
Goes(S) ==
    /\ at' \in S /\ phase' = "ready"
    /\ UNCHANGED <<opt, result, took, call, then, port, tries, intrVars, socketVars, processVars,
                   mainVars, events, historyVars>>

\* run_server() up to push_server().  A device may be connected over TCP/IP
\* already, and "+" asks for a disconnection first.
ServerStarted ==
    /\ Done("start-server")
    /\ Goes(IF ~result THEN {"failed"}
            ELSE IF opt.tcpip = "known" THEN {"disconnect", "connect"} ELSE {"devices"})

\* sc_adb_select_device(): the selection itself can fail.
DeviceSelected ==
    /\ Done("devices")
    /\ Goes(IF ~result THEN {"failed"}
            ELSE {"failed"} \cup IF opt.tcpip = "no" THEN {"push"} ELSE {"push", "ip route"})

\* sc_server_switch_to_tcpip()
AddressFound == Done("ip route") /\ Goes(IF result THEN {"getprop", "failed"} ELSE {"failed"})

PortRead == Done("getprop") /\ Goes(IF result THEN {"connect", "tcpip"} ELSE {"tcpip"})

TcpipEnabled == Done("tcpip") /\ Goes(IF result THEN {"getprop again"} ELSE {"failed"})

\* wait_tcpip_mode_enabled()
PortReadAgain ==
    /\ Done("getprop again")
    /\ Goes((IF result THEN {"connect"} ELSE {}) \cup IF tries > 0 THEN {"nap"} ELSE {"failed"})

\* sc_server_sleep() in wait_tcpip_mode_enabled()
Naps ==
    /\ at = "nap"
    /\ IF stopped THEN GoTo("failed") /\ UNCHANGED tries
                  ELSE GoTo("getprop again") /\ tries' = tries - 1
    /\ UNCHANGED <<opt, result, took, call, then, port, intrVars, socketVars, processVars,
                   mainVars, events, historyVars>>

Disconnected == Done("disconnect") /\ Goes({"connect"})

DeviceConnected == Done("connect") /\ Goes(IF result THEN {"push", "failed"} ELSE {"failed"})

ServerPushed ==
    /\ Done("push")
    /\ Goes(IF ~result THEN {"failed"}
            ELSE IF opt.list THEN {"list"}
            ELSE IF opt.forward THEN {"forward"} ELSE {"reverse"})

\* --list-...: the server prints what is asked for and exits.
ListExecutes ==
    /\ at = "list"
    /\ \/ GoTo("listing") /\ process' = "running"
       \/ GoTo("failed") /\ UNCHANGED process
    /\ UNCHANGED <<opt, result, took, call, then, port, tries, intrVars, socketVars, observer,
                   mainVars, events, historyVars>>

ListEnds ==
    /\ at = "listing" /\ process = "dead"
    /\ GoTo("ended") /\ process' = "reaped" /\ events' = events \cup {"connected"}
    /\ UNCHANGED <<opt, result, took, call, then, port, tries, intrVars, socketVars, observer,
                   mainVars, historyVars>>

-----------------------------------------------------------------------------
(* sc_adb_tunnel_open() and sc_adb_tunnel_close().                          *)

\* enable_tunnel_reverse_any_port(): adb reverse, then listen on its port.
ReverseMade ==
    /\ Done("reverse")
    /\ \/ result /\ GoTo("listen") /\ open' = open \cup {"listening"} /\ UNCHANGED port
       \/ ~result /\ GoTo("forward") /\ port' = 1 /\ UNCHANGED open
    /\ UNCHANGED <<opt, result, took, call, then, tries, intrVars, tunnel, local, fields, shut,
                   processVars, mainVars, events, historyVars>>

\* Fault: a port that is taken is given up without "adb reverse --remove".
ListensKeeping ==
    /\ Done("listen")
    /\ IF result
       THEN GoTo("execute") /\ tunnel' = "reverse" /\ UNCHANGED <<open, port>>
       ELSE /\ open' = open \ {"listening"} /\ UNCHANGED tunnel
            /\ IF ~interrupted /\ port < LastPort THEN GoTo("reverse") /\ port' = port + 1
                                                 ELSE GoTo("forward") /\ port' = 1
    /\ UNCHANGED <<opt, result, took, call, then, tries, intrVars, local, fields, shut,
                   processVars, mainVars, events, historyVars>>

\* An interruption ends the attempt at once, and adb forward is tried.
Listens ==
    /\ Done("listen")
    /\ IF result
       THEN GoTo("execute") /\ tunnel' = "reverse" /\ UNCHANGED <<open, port>>
       ELSE /\ open' = open \ {"listening"} /\ UNCHANGED tunnel
            /\ GoTo(IF interrupted THEN "forward" ELSE "retry --remove")
            /\ port' = IF interrupted THEN 1 ELSE port
    /\ UNCHANGED <<opt, result, took, call, then, tries, intrVars, local, fields, shut,
                   processVars, mainVars, events, historyVars>>

\* "check before incrementing to avoid overflow"
ReverseRetries ==
    /\ Done("retry --remove")
    /\ IF port < LastPort THEN GoTo("reverse") /\ port' = port + 1
                          ELSE GoTo("forward") /\ port' = 1
    /\ UNCHANGED <<opt, result, took, call, then, tries, intrVars, socketVars, processVars,
                   mainVars, events, historyVars>>

\* enable_tunnel_forward_any_port()
ForwardMade ==
    /\ Done("forward")
    /\ \/ result /\ GoTo("execute") /\ tunnel' = "forward" /\ UNCHANGED port
       \/ /\ ~result /\ ~interrupted /\ port < LastPort
          /\ GoTo("forward") /\ port' = port + 1 /\ UNCHANGED tunnel
       \/ /\ ~result /\ (interrupted \/ port = LastPort)
          /\ GoTo("failed") /\ UNCHANGED <<port, tunnel>>
    /\ UNCHANGED <<opt, result, took, call, then, tries, intrVars, local, fields, open, shut,
                   processVars, mainVars, events, historyVars>>

\* sc_adb_tunnel_close() is called, and p follows it.
ClosesTunnelThen(p) ==
    /\ GoTo(IF tunnel = "forward" THEN "forward --remove" ELSE "reverse --remove")
    /\ then' = p

\* "Consider tunnel disabled even if the command failed"
TunnelClosed ==
    /\ Done("reverse --remove") \/ Done("forward --remove")
    /\ GoTo(then) /\ tunnel' = "off" /\ open' = open \ {"listening"}
    /\ UNCHANGED <<opt, result, took, call, then, port, tries, intrVars, local, fields, shut,
                   processVars, mainVars, events, historyVars>>

-----------------------------------------------------------------------------
(* The server process and its observer.                                     *)

execute_server ==
    /\ at = "execute"
    /\ \/ GoTo("observe") /\ process' = "running" /\ UNCHANGED then
       \/ ClosesTunnelThen("failed") /\ UNCHANGED process
    /\ UNCHANGED <<opt, result, took, call, port, tries, intrVars, socketVars, observer, mainVars,
                   events, historyVars>>

sc_process_observer_init ==
    /\ at = "observe"
    /\ \/ /\ GoTo(IF tunnel = "forward" THEN "first" ELSE "accept")
          /\ observer' = "waiting" /\ tries' = Attempts
          /\ IF tunnel = "forward" THEN open' = open \cup {"first"} ELSE UNCHANGED open
       \/ GoTo("unobserved") /\ UNCHANGED <<observer, open, tries>>
    /\ UNCHANGED <<opt, result, took, call, then, port, intrVars, tunnel, local, fields, shut,
                   process, mainVars, events, historyVars>>

\* sc_process_terminate() and sc_process_wait().
Unobserved ==
    /\ at = "unobserved"
    /\ process' = "reaped" /\ ClosesTunnelThen("failed")
    /\ UNCHANGED <<opt, result, took, call, port, tries, intrVars, socketVars, observer, mainVars,
                   events, historyVars>>

\* The server on the device ends, or adb does.
ServerDies ==
    /\ process = "running" /\ process' = "dead"
    /\ UNCHANGED <<opt, callVars, intrVars, socketVars, observer, mainVars, events, historyVars>>

\* run_observer(): terminated = true, then sc_server_on_terminated().
Terminated ==
    /\ observer = "waiting" /\ process \in {"dead", "reaped"}
    /\ observer' = "terminated"
    /\ UNCHANGED <<opt, callVars, intrVars, socketVars, process, mainVars, events, historyVars>>

\* Fault: "wake up the accept() call (or any other) when the server dies" is
\* forgotten.
sc_server_on_terminated_quiet ==
    /\ observer = "terminated" /\ observer' = "ended"
    /\ UNCHANGED <<opt, callVars, intrVars, socketVars, process, mainVars, events, historyVars>>

sc_server_on_terminated ==
    /\ observer = "terminated" /\ observer' = "ended"
    /\ sc_intr_interrupt
    /\ UNCHANGED <<opt, at, phase, result, took, then, port, tries, socketVars, process, mainVars,
                   events, historyVars>>

-----------------------------------------------------------------------------
(* sc_server_connect_to().                                                  *)

\* The socket to be connected next.
Turn(s) ==
    \E i \in 1 .. 3 :
        /\ s = Order[i] /\ s \in opt.wanted \ local
        /\ \A j \in 1 .. i - 1 : Order[j] \notin opt.wanted \ local

\* Where connect_to() goes with the sockets L.
Onwards(L, p) ==
    IF L = opt.wanted THEN ClosesTunnelThen("info") ELSE GoTo(p) /\ UNCHANGED then

\* With a reverse tunnel the server connects to the client.
Accepted ==
    /\ Done("accept")
    /\ \/ /\ result
          /\ \E s \in opt.wanted :
                Turn(s) /\ local' = local \cup {s} /\ open' = open \cup {s}
          /\ Onwards(local', "accept")
       \/ ~result /\ GoTo("fail") /\ UNCHANGED <<local, open, then>>
    /\ UNCHANGED <<opt, result, took, call, port, tries, intrVars, tunnel, fields, shut,
                   processVars, mainVars, events, historyVars>>

\* connect_to_server(): an attempt that fails is repeated after a pause, unless
\* it was interrupted.
AttemptFails ==
    /\ open' = open \ {"first"} /\ UNCHANGED <<local, then>>
    /\ GoTo(IF interrupted THEN "fail" ELSE "pause")

FirstConnected ==
    /\ Done("first")
    /\ \/ result /\ GoTo("byte") /\ UNCHANGED <<open, local, then>>
       \/ ~result /\ AttemptFails
    /\ UNCHANGED <<opt, result, took, call, port, tries, intrVars, tunnel, fields, shut,
                   processVars, mainVars, events, historyVars>>

\* "read one byte to detect a working connection"
ByteRead ==
    /\ Done("byte")
    /\ \/ /\ result
          /\ \E s \in opt.wanted :
                Turn(s) /\ local' = {s} /\ open' = (open \ {"first"}) \cup {s}
          /\ Onwards(local', "next")
       \/ ~result /\ AttemptFails
    /\ UNCHANGED <<opt, result, took, call, port, tries, intrVars, tunnel, fields, shut,
                   processVars, mainVars, events, historyVars>>

\* sc_server_sleep() in connect_to_server()
Pauses ==
    /\ at = "pause" /\ tries' = tries - 1
    /\ IF stopped \/ tries = 1
       THEN GoTo("fail") /\ UNCHANGED open
       ELSE GoTo("first") /\ open' = open \cup {"first"}
    /\ UNCHANGED <<opt, result, took, call, then, port, intrVars, tunnel, local, fields, shut,
                   processVars, mainVars, events, historyVars>>

\* The audio and control sockets of a forward tunnel: created, then connected.
NextConnected ==
    /\ Done("next")
    /\ \E s \in opt.wanted :
          Turn(s) /\ local' = local \cup {s} /\ open' = open \cup {s}
    /\ IF result THEN Onwards(local', "next") ELSE GoTo("fail") /\ UNCHANGED then
    /\ UNCHANGED <<opt, result, took, call, port, tries, intrVars, tunnel, fields, shut,
                   processVars, mainVars, events, historyVars>>

\* device_read_info(); only then are the sockets published.
InfoRead ==
    /\ Done("info")
    /\ IF result THEN GoTo("connected") /\ fields' = local
                 ELSE GoTo("fail") /\ UNCHANGED fields
    /\ UNCHANGED <<opt, result, took, call, then, port, tries, intrVars, tunnel, local, open, shut,
                   processVars, mainVars, events, historyVars>>

\* fail: the sockets are closed and the tunnel, if it is still there.
ConnectFails ==
    /\ at = "fail"
    /\ open' = open \ local /\ local' = {}
    /\ IF tunnel # "off" THEN ClosesTunnelThen("abort") ELSE GoTo("abort") /\ UNCHANGED then
    /\ UNCHANGED <<opt, result, took, call, port, tries, intrVars, tunnel, fields, shut,
                   processVars, mainVars, events, historyVars>>

-----------------------------------------------------------------------------
(* The end of run_server().                                                 *)

\* The calls of the end that only move on.
Moves(p) ==
    /\ GoTo(p)
    /\ UNCHANGED <<opt, result, took, call, then, port, tries, intrVars, socketVars, mainVars,
                   historyVars>>

\* sc_process_terminate()
Killed == IF process = "running" THEN "dead" ELSE process

Aborts ==
    /\ at = "abort" /\ Moves("reap")
    /\ process' = Killed /\ UNCHANGED <<observer, events>>

Reaps ==
    /\ at = "reap" /\ process = "dead" /\ Moves("abort join")
    /\ process' = "reaped" /\ UNCHANGED <<observer, events>>

\* Fault: the observer, whose object is on the stack, is not joined.
AbortForgets ==
    /\ at = "abort join" /\ Moves("failed")
    /\ UNCHANGED <<processVars, events>>

AbortJoins ==
    /\ at = "abort join" /\ observer = "ended" /\ Moves("failed")
    /\ UNCHANGED <<processVars, events>>

on_connected ==
    /\ at = "connected" /\ Moves("wait")
    /\ events' = events \cup {"connected"} /\ UNCHANGED processVars

WaitEnds ==
    /\ at = "wait" /\ stopped /\ Moves("interrupt")
    /\ UNCHANGED <<processVars, events>>

\* net_interrupt() of the sockets.
Interrupts ==
    /\ at = "interrupt" /\ GoTo("watchdog")
    /\ shut' = fields
    /\ UNCHANGED <<opt, result, took, call, then, port, tries, intrVars, tunnel, local, fields,
                   open, processVars, mainVars, events, historyVars>>

\* A server that has not ended after WATCHDOG_DELAY is killed.
Watchdog ==
    /\ at = "watchdog" /\ Moves("join")
    /\ process' = Killed /\ UNCHANGED <<observer, events>>

ObserverJoined ==
    /\ at = "join" /\ observer = "ended" /\ Moves("close")
    /\ UNCHANGED <<processVars, events>>

ServerClosed ==
    /\ at = "close" /\ process = "dead"
    /\ Moves(IF opt.kill THEN "kill-server" ELSE "ended")
    /\ process' = "reaped" /\ UNCHANGED <<observer, events>>

\* error_connection_failed: with sc_server_kill_adb_if_requested() ...
Failed ==
    /\ at = "failed"
    /\ IF opt.kill THEN Moves("kill-server") /\ UNCHANGED events
       ELSE Moves("ended") /\ events' = events \cup {"failed"}
    /\ UNCHANGED processVars

\* ... which both ends have in common.
AdbKilled ==
    /\ Done("kill-server") /\ Moves("ended")
    /\ events' = IF "connected" \in events THEN events ELSE events \cup {"failed"}
    /\ UNCHANGED processVars

-----------------------------------------------------------------------------
(* The main thread.                                                         *)

\* await_for_server(): the user quits, or an initialization fails; the
\* connection failed; or it is there.
AwaitEnds ==
    /\ main = "await"
    /\ \/ main' = "end" /\ UNCHANGED started
       \/ /\ "connected" \in events
          /\ main' = IF opt.list THEN "end" ELSE "loop"
          /\ started' = ~opt.list
    /\ UNCHANGED <<opt, callVars, intrVars, socketVars, processVars, stopped, events, historyVars>>

\* event_loop() returns, whatever the reason.
LoopEnds ==
    /\ main = "loop" /\ main' = "end"
    /\ UNCHANGED <<opt, callVars, intrVars, socketVars, processVars, stopped, started, events,
                   historyVars>>

sc_server_stop ==
    /\ main = "end" /\ main' = "join users"
    /\ stopped' = TRUE
    /\ sc_intr_interrupt
    /\ UNCHANGED <<opt, at, phase, result, took, then, port, tries, socketVars, processVars,
                   started, events, historyVars>>

\* The demuxers and the controller end with their sockets.
UsersJoined ==
    /\ main = "join users" /\ main' = "join"
    /\ started => fields \subseteq shut \/ process # "running"
    /\ UNCHANGED <<opt, callVars, intrVars, socketVars, processVars, stopped, started, events,
                   historyVars>>

sc_server_join ==
    /\ main = "join" /\ at = "ended" /\ main' = "destroy"
    /\ UNCHANGED <<opt, callVars, intrVars, socketVars, processVars, stopped, started, events,
                   historyVars>>

sc_server_destroy ==
    /\ main = "destroy" /\ main' = "destroyed"
    /\ open' = open \ fields
    /\ UNCHANGED <<opt, callVars, intrVars, tunnel, local, fields, shut, processVars, stopped,
                   started, events, historyVars>>

-----------------------------------------------------------------------------
Choosing ==
    \/ ServerStarted \/ DeviceSelected \/ AddressFound \/ PortRead \/ TcpipEnabled
    \/ PortReadAgain \/ Naps \/ Disconnected \/ DeviceConnected \/ ServerPushed
    \/ ListExecutes \/ ListEnds

Tunnelling == ReverseMade \/ Listens \/ ReverseRetries \/ ForwardMade \/ TunnelClosed

Connecting ==
    \/ execute_server \/ sc_process_observer_init \/ Unobserved
    \/ Accepted \/ FirstConnected \/ ByteRead \/ Pauses \/ NextConnected \/ InfoRead
    \/ ConnectFails

Ending ==
    \/ Aborts \/ Reaps \/ AbortJoins \/ on_connected \/ WaitEnds \/ Interrupts \/ Watchdog
    \/ ObserverJoined \/ ServerClosed \/ Failed \/ AdbKilled

\* What the server thread does without the help of others.
Thread == BlockingCall \/ Choosing \/ Tunnelling \/ Connecting \/ Ending

Observer == Terminated \/ sc_server_on_terminated

MainEnds == sc_server_stop \/ UsersJoined \/ sc_server_join \/ sc_server_destroy

Next == Thread \/ Returns \/ ServerDies \/ Observer \/ AwaitEnds \/ LoopEnds \/ MainEnds

Spec == Init /\ [][Next]_vars

\* The threads are scheduled, and a server asked for a list exits.  Neither adb
\* nor the device owes an answer.
Fairness ==
    /\ WF_vars(Thread) /\ WF_vars(Observer) /\ WF_vars(MainEnds)
    /\ WF_vars(at = "listing" /\ ServerDies)

FairSpec == Spec /\ Fairness

-----------------------------------------------------------------------------
(* Properties.                                                              *)

\* Every variable stays within the values the code can give it.
TypeOK ==
    /\ at \in Commands \cup SocketCalls \cup Places
    /\ phase \in {"ready", "executed", "blocked", "returned", "unregistered", "done"}
    /\ result \in BOOLEAN /\ took \in BOOLEAN /\ interrupted \in BOOLEAN /\ stopped \in BOOLEAN
    /\ call \in {"none", "running", "interrupted", "over", "closed"}
    /\ target \in {"none", "process", "socket"}
    /\ then \in {"info", "abort", "failed"}
    /\ port \in Ports /\ tries \in 0 .. Attempts
    /\ tunnel \in {"off", "reverse", "forward"}
    /\ local \subseteq opt.wanted /\ fields \subseteq opt.wanted /\ shut \subseteq opt.wanted
    /\ open \subseteq opt.wanted \cup {"listening", "first"}
    /\ process \in {"none", "running", "dead", "reaped"}
    /\ observer \in {"none", "waiting", "terminated", "ended"}
    /\ main \in {"await", "loop", "end", "join users", "join", "destroy", "destroyed"}
    /\ events \subseteq {"connected", "failed"} /\ started \in BOOLEAN
    /\ left \subseteq {"reverse", "forward"} \X Ports /\ kept \in BOOLEAN

\* An interruption reaches the call under way and every later one: the server
\* thread is never in a blocking call that nobody interrupts any more.
InterruptionReaches == interrupted /\ phase = "blocked" => call # "running"

\* What sc_intr_interrupt() would kill has not been reaped: another process may
\* have its number by now.
TargetIsAlive == target = "process" => call # "closed"

\* The sockets published to the rest of the program are open until it has
\* ended, and all of them are there when its threads are started.
FieldsAreOpen ==
    /\ main # "destroyed" => fields \subseteq open
    /\ started => fields = opt.wanted

\* When run_server() returns it leaves behind neither the tunnel, nor a socket
\* that is not published, nor the server process, nor the observer, whose
\* object was on its stack.
ThreadLeavesNothing ==
    at = "ended" =>
        /\ tunnel = "off" /\ (main # "destroyed" => open = fields)
        /\ process \in {"none", "reaped"} /\ observer \in {"none", "ended"}

\* Once connected, no tunnel is left at adb, on whatever port it was made and
\* however many were tried before ("we don't need the adb tunnel anymore"),
\* unless adb failed to remove one.
TunnelsAreRemoved == TypeOK /\ ("connected" \in events /\ ~kept => left = {})

\* sc_intr in every interleaving: an interruption is never missed, and never
\* kills a process that has been reaped.
InterruptIsExact == InterruptionReaches /\ TargetIsAlive

\* What was opened belongs to somebody: the published sockets to the rest of
\* the program until it ends, everything else to run_server(), which closes it
\* on every way out.
NothingLeaks == FieldsAreOpen /\ ThreadLeavesNothing

\* A stop ends the client whatever the server thread waits for.
StopCompletes == (main = "end") ~> (main = "destroyed")

\* A server that dies before it is connected fails the connection: nobody waits
\* in accept() for ever.
DeadServerIsNoticed ==
    (process = "dead" /\ at \in SocketCalls) ~> (events # {})

\* Neither a stop nor a server that died leaves a thread waiting for ever.
EndsAreNoticed == StopCompletes /\ DeadServerIsNoticed
=============================================================================
