---------------------------- MODULE ServerProofs ----------------------------
(***************************************************************************)
(* Proofs about Server, for every set of sockets, range of ports and       *)
(* number of attempts.                                                     *)
(***************************************************************************)
EXTENDS Server, TLAPS

\* The places where one of the two tunnels is being removed.
Removing == at \in {"reverse --remove", "forward --remove"}

\* sc_server_connect_to(), while the tunnel is there.
Attempting == {"accept", "first", "byte", "next", "pause", "fail"}

\* run_server() with the server connected.
Serving == {"connected", "wait", "interrupt", "watchdog", "join", "close"}

\* What is registered in server->intr is what the thread is blocked in.
SlotIsExact ==
    /\ phase = "blocked" /\ ~interrupted => target # "none"
    /\ target # "none" => phase \in {"blocked", "returned"}
    /\ phase \in {"executed", "blocked", "returned"} => call # "closed"
    /\ phase # "ready" => at \in Commands \cup SocketCalls

\* The tunnel is there from sc_adb_tunnel_open() to sc_adb_tunnel_close().
TunnelInv ==
    /\ tunnel # "off" => at \in {"execute", "observe", "unobserved"} \cup Attempting \/ Removing
    /\ then \in {"info", "abort", "failed"}

\* The sockets open are those of connect_to(), that listening and the one tried.
SocketsInv ==
    /\ opt.wanted \in WantedSets /\ local \subseteq opt.wanted
    /\ main # "destroyed" => local \subseteq open
    /\ open \subseteq local \cup {"listening", "first"}
    /\ fields = {} \/ fields = local

\* They are closed or passed on at the places where they exist.
PlacesInv ==
    /\ "listening" \in open => at = "listen" \/ tunnel = "reverse"
    /\ "first" \in open => at \in {"first", "byte"}
    /\ local # {} /\ fields = {} =>
          at \in {"accept", "next", "fail", "info"} \/ (Removing /\ then = "info")
    /\ fields # {} => at \in Serving \cup {"kill-server", "ended"}
    /\ at = "info" \/ (Removing /\ then = "info") => local = opt.wanted

\* The server is killed and reaped, and its observer joined, on every way out.
ProcessInv ==
    /\ process \in {"none", "running", "dead", "reaped"}
    /\ observer \in {"none", "waiting", "terminated", "ended"}
    /\ process \in {"running", "dead"} =>
          \/ at \in {"listing", "observe", "unobserved", "info", "abort", "reap"}
                    \cup Attempting \cup Serving
          \/ Removing /\ then \in {"info", "abort"}
    /\ observer \in {"waiting", "terminated"} =>
          \/ at \in {"info", "abort", "reap", "abort join"} \cup Attempting
                    \cup (Serving \ {"close"})
          \/ Removing /\ then \in {"info", "abort"}

\* What the main thread knows of the server thread.
EventsInv ==
    /\ at \in {"list", "listing"} => opt.list
    /\ at \in Serving => fields = opt.wanted
    /\ "connected" \in events => opt.list \/ fields = opt.wanted
    /\ started => "connected" \in events /\ ~opt.list
    /\ main \in {"destroy", "destroyed"} => at = "ended"

IInv ==
    /\ SlotIsExact /\ InterruptionReaches /\ TunnelInv /\ SocketsInv /\ PlacesInv
    /\ ProcessInv /\ EventsInv

-----------------------------------------------------------------------------
\* The invariant holds when sc_server_start() has created the thread.
LEMMA InvariantInit ==
    ASSUME Init
    PROVE  IInv
  BY DEF Init, IInv, SlotIsExact, InterruptionReaches, TunnelInv, SocketsInv, PlacesInv,
         ProcessInv, EventsInv, Removing, Attempting, Serving

\* The sockets have names of their own.
LEMMA NamesDiffer ==
    ASSUME SocketsInv
    PROVE  "listening" \notin opt.wanted /\ "first" \notin opt.wanted
  BY WantedAssumption DEF SocketsInv, AllSockets, Order

\* A step of an action that leaves tunnel, sockets, process and events alone.
LEMMA InsideACall ==
    ASSUME TunnelInv, SocketsInv, PlacesInv, ProcessInv, EventsInv,
           UNCHANGED <<opt, at, then, socketVars, processVars, mainVars, events>>
    PROVE  TunnelInv' /\ SocketsInv' /\ PlacesInv' /\ ProcessInv' /\ EventsInv'
  <1> USE DEF socketVars, processVars, mainVars
  <1>1. TunnelInv'
    BY DEF TunnelInv, Removing
  <1>2. SocketsInv' /\ PlacesInv'
    BY DEF SocketsInv, PlacesInv, Removing
  <1>3. ProcessInv'
    BY DEF ProcessInv, Removing
  <1>4. EventsInv'
    BY DEF EventsInv
  <1> QED
    BY <1>1, <1>2, <1>3, <1>4

\* The steps of a blocking call: it is registered before it blocks, and
\* unregistered before the process is reaped.
LEMMA CallStep ==
    ASSUME IInv, BlockingCall \/ Returns
    PROVE  IInv'
  <1> USE DEF intrVars
  <1>1. SlotIsExact /\ InterruptionReaches
    BY DEF IInv
  <1>2. UNCHANGED <<opt, at, then, socketVars, processVars, mainVars, events>>
    BY DEF BlockingCall, Executes, Registers, IsInterrupted, Unregisters, Closes, Returns
  <1>3. SlotIsExact' /\ InterruptionReaches'
    <2> USE <1>1 DEF SlotIsExact, InterruptionReaches, Commands, RemoveCommands, SocketCalls
    <2>1. CASE Executes
      BY <2>1 DEF Executes
    <2>2. CASE Registers
      BY <2>2 DEF Registers
    <2>3. CASE IsInterrupted
      BY <2>3 DEF IsInterrupted
    <2>4. CASE Unregisters
      BY <2>4 DEF Unregisters
    <2>5. CASE Closes
      BY <2>5 DEF Closes
    <2>6. CASE Returns
      BY <2>6 DEF Returns
    <2> QED
      BY <2>1, <2>2, <2>3, <2>4, <2>5, <2>6 DEF BlockingCall
  <1> QED
    BY <1>2, <1>3, InsideACall DEF IInv

\* From `adb start-server' to `adb push'.
LEMMA ChoosingStep ==
    ASSUME IInv, Choosing
    PROVE  IInv'
  <1> USE NamesDiffer
          DEF IInv, SlotIsExact, InterruptionReaches, TunnelInv, SocketsInv, PlacesInv, ProcessInv,
              EventsInv, Removing, Attempting, Serving, Commands, RemoveCommands, SocketCalls,
              intrVars, socketVars, processVars, mainVars, Done, GoTo, Goes, Moves,
              ClosesTunnelThen, Killed
  <1>1. CASE ServerStarted
    BY <1>1 DEF ServerStarted
  <1>2. CASE DeviceSelected
    BY <1>2 DEF DeviceSelected
  <1>3. CASE AddressFound
    BY <1>3 DEF AddressFound
  <1>4. CASE PortRead
    BY <1>4 DEF PortRead
  <1>5. CASE TcpipEnabled
    BY <1>5 DEF TcpipEnabled
  <1>6. CASE PortReadAgain
    BY <1>6, ZenonT(40) DEF PortReadAgain
  <1>7. CASE Naps
    BY <1>7 DEF Naps
  <1>8. CASE Disconnected
    BY <1>8 DEF Disconnected
  <1>9. CASE DeviceConnected
    BY <1>9 DEF DeviceConnected
  <1>10. CASE ServerPushed
    BY <1>10 DEF ServerPushed
  <1>11. CASE ListExecutes
    BY <1>11 DEF ListExecutes
  <1>12. CASE ListEnds
    BY <1>12 DEF ListEnds
  <1> QED
    BY <1>1, <1>2, <1>3, <1>4, <1>5, <1>6, <1>7, <1>8, <1>9, <1>10, <1>11, <1>12 DEF Choosing

\* sc_adb_tunnel_open() and sc_adb_tunnel_close().
LEMMA TunnellingStep ==
    ASSUME IInv, Tunnelling
    PROVE  IInv'
  <1> USE NamesDiffer
          DEF IInv, SlotIsExact, InterruptionReaches, TunnelInv, SocketsInv, PlacesInv, ProcessInv,
              EventsInv, Removing, Attempting, Serving, Commands, RemoveCommands, SocketCalls,
              intrVars, socketVars, processVars, mainVars, Done, GoTo, Goes, Moves,
              ClosesTunnelThen, Killed
  <1>1. CASE ReverseMade
    BY <1>1 DEF ReverseMade
  <1>2. CASE Listens
    BY <1>2 DEF Listens
  <1>3. CASE ReverseRetries
    BY <1>3 DEF ReverseRetries
  <1>4. CASE ForwardMade
    BY <1>4, ZenonT(40) DEF ForwardMade
  <1>5. CASE TunnelClosed
    BY <1>5, ZenonT(40) DEF TunnelClosed
  <1> QED
    BY <1>1, <1>2, <1>3, <1>4, <1>5 DEF Tunnelling

\* The server process is executed, and sc_server_connect_to() connects to it.
LEMMA ConnectingStep ==
    ASSUME IInv, Connecting
    PROVE  IInv'
  <1> USE NamesDiffer
          DEF intrVars, socketVars, processVars, mainVars, Done, GoTo, ClosesTunnelThen, Onwards,
              AttemptFails, sc_intr_interrupt
  <1>0. /\ SlotIsExact /\ InterruptionReaches /\ TunnelInv /\ SocketsInv /\ PlacesInv
        /\ ProcessInv /\ EventsInv
    BY DEF IInv
  <1>1. CASE execute_server
    <2>1. SlotIsExact' /\ InterruptionReaches'
      BY <1>0, <1>1 DEF execute_server, SlotIsExact, InterruptionReaches, Commands,
                        RemoveCommands, SocketCalls
    <2>2. TunnelInv'
      BY <1>0, <1>1 DEF execute_server, TunnelInv, Removing, Attempting
    <2>3. SocketsInv'
      BY <1>0, <1>1 DEF execute_server, SocketsInv, PlacesInv, EventsInv, Removing, Serving
    <2>4. PlacesInv'
      BY <1>0, <1>1 DEF execute_server, SocketsInv, PlacesInv, TunnelInv, Removing, Attempting,
                        Serving
    <2>5. ProcessInv'
      BY <1>0, <1>1 DEF execute_server, ProcessInv, Removing, Attempting, Serving
    <2>6. EventsInv'
      BY <1>0, <1>1 DEF execute_server, EventsInv, PlacesInv, TunnelInv, Removing, Serving
    <2> QED
      BY <2>1, <2>2, <2>3, <2>4, <2>5, <2>6 DEF IInv
  <1>2. CASE sc_process_observer_init
    <2>0. fields = {} /\ fields' = {} /\ main # "destroyed" /\ main' = main /\ opt' = opt
      BY <1>0, <1>2 DEF sc_process_observer_init, PlacesInv, EventsInv, Serving
    <2>a. local = {} /\ local' = {} /\ tunnel' = tunnel /\ open' \subseteq open \cup {"first"}
      BY <1>0, <1>2, <2>0 DEF sc_process_observer_init, PlacesInv, Removing
    <2>b. ("first" \in open' => at' = "first") /\ at' \in {"first", "accept", "unobserved"}
      BY <1>0, <1>2 DEF sc_process_observer_init, PlacesInv
    <2>c. "listening" \in open => tunnel = "reverse"
      BY <1>0, <1>2 DEF sc_process_observer_init, PlacesInv
    <2>1. SlotIsExact' /\ InterruptionReaches'
      BY <1>0, <1>2 DEF sc_process_observer_init, SlotIsExact, InterruptionReaches, Commands,
                        RemoveCommands, SocketCalls
    <2>2. TunnelInv'
      BY <1>0, <1>2 DEF sc_process_observer_init, TunnelInv, Removing, Attempting
    <2>3. SocketsInv'
      BY <1>0, <1>2, <2>0, <2>a, <2>b, <2>c DEF sc_process_observer_init, SocketsInv, PlacesInv,
                                                EventsInv, Removing, Serving
    <2>4. PlacesInv'
      BY <1>0, <1>2, <2>0, <2>a, <2>b, <2>c DEF sc_process_observer_init, SocketsInv, PlacesInv,
                                                TunnelInv, Removing, Attempting, Serving
    <2>5. ProcessInv'
      BY <1>0, <1>2 DEF sc_process_observer_init, ProcessInv, Removing, Attempting, Serving
    <2>6. EventsInv'
      BY <1>0, <1>2 DEF sc_process_observer_init, EventsInv, PlacesInv, TunnelInv, Removing,
                        Serving
    <2> QED
      BY <2>1, <2>2, <2>3, <2>4, <2>5, <2>6 DEF IInv
  <1>3. CASE Unobserved
    <2>1. SlotIsExact' /\ InterruptionReaches'
      BY <1>0, <1>3 DEF Unobserved, SlotIsExact, InterruptionReaches, Commands, RemoveCommands,
                        SocketCalls
    <2>2. TunnelInv'
      BY <1>0, <1>3 DEF Unobserved, TunnelInv, Removing, Attempting
    <2>3. SocketsInv'
      BY <1>0, <1>3 DEF Unobserved, SocketsInv, PlacesInv, EventsInv, Removing, Serving
    <2>4. PlacesInv'
      BY <1>0, <1>3 DEF Unobserved, SocketsInv, PlacesInv, TunnelInv, Removing, Attempting,
                        Serving
    <2>5. ProcessInv'
      BY <1>0, <1>3 DEF Unobserved, ProcessInv, Removing, Attempting, Serving
    <2>6. EventsInv'
      BY <1>0, <1>3 DEF Unobserved, EventsInv, PlacesInv, TunnelInv, Removing, Serving
    <2> QED
      BY <2>1, <2>2, <2>3, <2>4, <2>5, <2>6 DEF IInv
  <1>4. CASE Accepted
    <2>0. fields = {} /\ fields' = {} /\ main # "destroyed" /\ main' = main /\ opt' = opt
      BY <1>0, <1>4 DEF Accepted, PlacesInv, EventsInv, Serving
    <2>1. SlotIsExact' /\ InterruptionReaches'
      BY <1>0, <1>4 DEF Accepted, SlotIsExact, InterruptionReaches, Commands, RemoveCommands,
                        SocketCalls
    <2>2. TunnelInv'
      BY <1>0, <1>4 DEF Accepted, TunnelInv, Removing, Attempting
    <2>3. SocketsInv'
      BY <1>0, <1>4, <2>0 DEF Accepted, SocketsInv, PlacesInv, EventsInv, Removing, Serving
    <2>4. PlacesInv'
      BY <1>0, <1>4, <2>0 DEF Accepted, SocketsInv, PlacesInv, TunnelInv, Removing, Attempting,
                              Serving
    <2>5. ProcessInv'
      BY <1>0, <1>4 DEF Accepted, ProcessInv, Removing, Attempting, Serving
    <2>6. EventsInv'
      BY <1>0, <1>4 DEF Accepted, EventsInv, PlacesInv, TunnelInv, Removing, Serving
    <2> QED
      BY <2>1, <2>2, <2>3, <2>4, <2>5, <2>6 DEF IInv
  <1>5. CASE FirstConnected
    <2>1. SlotIsExact' /\ InterruptionReaches'
      BY <1>0, <1>5 DEF FirstConnected, SlotIsExact, InterruptionReaches, Commands,
                        RemoveCommands, SocketCalls
    <2>2. TunnelInv'
      BY <1>0, <1>5 DEF FirstConnected, TunnelInv, Removing, Attempting
    <2>3. SocketsInv'
      BY <1>0, <1>5 DEF FirstConnected, SocketsInv, PlacesInv, EventsInv, Removing, Serving
    <2>4. PlacesInv'
      BY <1>0, <1>5 DEF FirstConnected, SocketsInv, PlacesInv, TunnelInv, Removing, Attempting,
                        Serving
    <2>5. ProcessInv'
      BY <1>0, <1>5 DEF FirstConnected, ProcessInv, Removing, Attempting, Serving
    <2>6. EventsInv'
      BY <1>0, <1>5 DEF FirstConnected, EventsInv, PlacesInv, TunnelInv, Removing, Serving
    <2> QED
      BY <2>1, <2>2, <2>3, <2>4, <2>5, <2>6 DEF IInv
  <1>6. CASE ByteRead
    <2>0. fields = {} /\ fields' = {} /\ main # "destroyed" /\ main' = main /\ opt' = opt
      BY <1>0, <1>6 DEF ByteRead, PlacesInv, EventsInv, Serving
    <2>1. SlotIsExact' /\ InterruptionReaches'
      BY <1>0, <1>6 DEF ByteRead, SlotIsExact, InterruptionReaches, Commands, RemoveCommands,
                        SocketCalls
    <2>2. TunnelInv'
      BY <1>0, <1>6 DEF ByteRead, TunnelInv, Removing, Attempting
    <2>3. SocketsInv'
      BY <1>0, <1>6, <2>0 DEF ByteRead, SocketsInv, PlacesInv, EventsInv, Removing, Serving
    <2>4. PlacesInv'
      BY <1>0, <1>6, <2>0 DEF ByteRead, SocketsInv, PlacesInv, TunnelInv, Removing, Attempting,
                              Serving
    <2>5. ProcessInv'
      BY <1>0, <1>6 DEF ByteRead, ProcessInv, Removing, Attempting, Serving
    <2>6. EventsInv'
      BY <1>0, <1>6 DEF ByteRead, EventsInv, PlacesInv, TunnelInv, Removing, Serving
    <2> QED
      BY <2>1, <2>2, <2>3, <2>4, <2>5, <2>6 DEF IInv
  <1>7. CASE Pauses
    <2>0. fields = {} /\ fields' = {} /\ main # "destroyed" /\ main' = main /\ opt' = opt
      BY <1>0, <1>7 DEF Pauses, PlacesInv, EventsInv, Serving
    <2>a. local = {} /\ local' = {} /\ tunnel' = tunnel /\ open' \subseteq open \cup {"first"}
      BY <1>0, <1>7, <2>0 DEF Pauses, PlacesInv, Removing
    <2>b. ("first" \in open' => at' = "first") /\ at' \in {"first", "fail"}
      BY <1>0, <1>7 DEF Pauses, PlacesInv
    <2>c. "listening" \in open => tunnel = "reverse"
      BY <1>0, <1>7 DEF Pauses, PlacesInv
    <2>1. SlotIsExact' /\ InterruptionReaches'
      BY <1>0, <1>7 DEF Pauses, SlotIsExact, InterruptionReaches, Commands, RemoveCommands,
                        SocketCalls
    <2>2. TunnelInv'
      BY <1>0, <1>7 DEF Pauses, TunnelInv, Removing, Attempting
    <2>3. SocketsInv'
      BY <1>0, <1>7, <2>0, <2>a, <2>b, <2>c DEF Pauses, SocketsInv, PlacesInv, EventsInv,
                                                Removing, Serving
    <2>4. PlacesInv'
      BY <1>0, <1>7, <2>0, <2>a, <2>b, <2>c DEF Pauses, SocketsInv, PlacesInv, TunnelInv,
                                                Removing, Attempting, Serving
    <2>5. ProcessInv'
      BY <1>0, <1>7 DEF Pauses, ProcessInv, Removing, Attempting, Serving
    <2>6. EventsInv'
      BY <1>0, <1>7 DEF Pauses, EventsInv, PlacesInv, TunnelInv, Removing, Serving
    <2> QED
      BY <2>1, <2>2, <2>3, <2>4, <2>5, <2>6 DEF IInv
  <1>8. CASE NextConnected
    <2>0. fields = {} /\ fields' = {} /\ main # "destroyed" /\ main' = main /\ opt' = opt
      BY <1>0, <1>8 DEF NextConnected, PlacesInv, EventsInv, Serving
    <2>1. SlotIsExact' /\ InterruptionReaches'
      BY <1>0, <1>8 DEF NextConnected, SlotIsExact, InterruptionReaches, Commands,
                        RemoveCommands, SocketCalls
    <2>2. TunnelInv'
      BY <1>0, <1>8 DEF NextConnected, TunnelInv, Removing, Attempting
    <2>3. SocketsInv'
      BY <1>0, <1>8, <2>0 DEF NextConnected, SocketsInv, PlacesInv, EventsInv, Removing, Serving
    <2>4. PlacesInv'
      BY <1>0, <1>8, <2>0 DEF NextConnected, SocketsInv, PlacesInv, TunnelInv, Removing,
                              Attempting, Serving
    <2>5. ProcessInv'
      BY <1>0, <1>8 DEF NextConnected, ProcessInv, Removing, Attempting, Serving
    <2>6. EventsInv'
      BY <1>0, <1>8 DEF NextConnected, EventsInv, PlacesInv, TunnelInv, Removing, Serving
    <2> QED
      BY <2>1, <2>2, <2>3, <2>4, <2>5, <2>6 DEF IInv
  <1>9. CASE InfoRead
    <2>1. SlotIsExact' /\ InterruptionReaches'
      BY <1>0, <1>9 DEF InfoRead, SlotIsExact, InterruptionReaches, Commands, RemoveCommands,
                        SocketCalls
    <2>2. TunnelInv'
      BY <1>0, <1>9 DEF InfoRead, TunnelInv, Removing, Attempting
    <2>3. SocketsInv'
      BY <1>0, <1>9 DEF InfoRead, SocketsInv, PlacesInv, EventsInv, Removing, Serving
    <2>4. PlacesInv'
      BY <1>0, <1>9 DEF InfoRead, SocketsInv, PlacesInv, TunnelInv, Removing, Attempting,
                        Serving
    <2>5. ProcessInv'
      BY <1>0, <1>9 DEF InfoRead, ProcessInv, Removing, Attempting, Serving
    <2>6. EventsInv'
      BY <1>0, <1>9 DEF InfoRead, EventsInv, PlacesInv, TunnelInv, Removing, Serving
    <2> QED
      BY <2>1, <2>2, <2>3, <2>4, <2>5, <2>6 DEF IInv
  <1>10. CASE ConnectFails
    <2>1. SlotIsExact' /\ InterruptionReaches'
      BY <1>0, <1>10 DEF ConnectFails, SlotIsExact, InterruptionReaches, Commands,
                         RemoveCommands, SocketCalls
    <2>2. TunnelInv'
      BY <1>0, <1>10 DEF ConnectFails, TunnelInv, Removing, Attempting
    <2>3. SocketsInv'
      BY <1>0, <1>10 DEF ConnectFails, SocketsInv, PlacesInv, EventsInv, Removing, Serving
    <2>4. PlacesInv'
      BY <1>0, <1>10 DEF ConnectFails, SocketsInv, PlacesInv, TunnelInv, Removing, Attempting,
                         Serving
    <2>5. ProcessInv'
      BY <1>0, <1>10 DEF ConnectFails, ProcessInv, Removing, Attempting, Serving
    <2>6. EventsInv'
      BY <1>0, <1>10 DEF ConnectFails, EventsInv, PlacesInv, TunnelInv, Removing, Serving
    <2> QED
      BY <2>1, <2>2, <2>3, <2>4, <2>5, <2>6 DEF IInv
  <1> QED
    BY <1>1, <1>2, <1>3, <1>4, <1>5, <1>6, <1>7, <1>8, <1>9, <1>10 DEF Connecting

\* Every way out of run_server().
LEMMA EndingStep ==
    ASSUME IInv, Ending
    PROVE  IInv'
  <1> USE NamesDiffer
          DEF IInv, SlotIsExact, InterruptionReaches, TunnelInv, SocketsInv, PlacesInv, ProcessInv,
              EventsInv, Removing, Attempting, Serving, Commands, RemoveCommands, SocketCalls,
              intrVars, socketVars, processVars, mainVars, Done, GoTo, Goes, Moves,
              ClosesTunnelThen, Killed
  <1>1. CASE Aborts
    BY <1>1 DEF Aborts
  <1>2. CASE Reaps
    BY <1>2 DEF Reaps
  <1>3. CASE AbortJoins
    BY <1>3 DEF AbortJoins
  <1>4. CASE on_connected
    BY <1>4 DEF on_connected
  <1>5. CASE WaitEnds
    BY <1>5 DEF WaitEnds
  <1>6. CASE Interrupts
    BY <1>6 DEF Interrupts
  <1>7. CASE Watchdog
    BY <1>7 DEF Watchdog
  <1>8. CASE ObserverJoined
    BY <1>8 DEF ObserverJoined
  <1>9. CASE ServerClosed
    BY <1>9 DEF ServerClosed
  <1>10. CASE Failed
    BY <1>10 DEF Failed
  <1>11. CASE AdbKilled
    BY <1>11 DEF AdbKilled
  <1> QED
    BY <1>1, <1>2, <1>3, <1>4, <1>5, <1>6, <1>7, <1>8, <1>9, <1>10, <1>11 DEF Ending

\* The server process, its observer and the main thread.
LEMMA OthersStep ==
    ASSUME IInv, ServerDies \/ Observer \/ AwaitEnds \/ LoopEnds \/ MainEnds
    PROVE  IInv'
  <1> USE NamesDiffer
          DEF callVars, intrVars, socketVars, processVars, mainVars, sc_intr_interrupt
  <1>0. /\ SlotIsExact /\ InterruptionReaches /\ TunnelInv /\ SocketsInv /\ PlacesInv
        /\ ProcessInv /\ EventsInv
    BY DEF IInv
  <1>1. CASE ServerDies
    <2>1. SlotIsExact' /\ InterruptionReaches'
      BY <1>0, <1>1 DEF ServerDies, SlotIsExact, InterruptionReaches, Commands, RemoveCommands,
                        SocketCalls
    <2>2. TunnelInv'
      BY <1>0, <1>1 DEF ServerDies, TunnelInv, Removing, Attempting
    <2>3. SocketsInv'
      BY <1>0, <1>1 DEF ServerDies, SocketsInv, PlacesInv, EventsInv, Removing, Serving
    <2>4. PlacesInv'
      BY <1>0, <1>1 DEF ServerDies, SocketsInv, PlacesInv, TunnelInv, Removing, Attempting,
                        Serving
    <2>5. ProcessInv'
      BY <1>0, <1>1 DEF ServerDies, ProcessInv, Removing, Attempting, Serving
    <2>6. EventsInv'
      BY <1>0, <1>1 DEF ServerDies, EventsInv, PlacesInv, TunnelInv, Removing, Serving
    <2> QED
      BY <2>1, <2>2, <2>3, <2>4, <2>5, <2>6 DEF IInv
  <1>2. CASE Terminated
    <2>1. SlotIsExact' /\ InterruptionReaches'
      BY <1>0, <1>2 DEF Terminated, SlotIsExact, InterruptionReaches, Commands, RemoveCommands,
                        SocketCalls
    <2>2. TunnelInv'
      BY <1>0, <1>2 DEF Terminated, TunnelInv, Removing, Attempting
    <2>3. SocketsInv'
      BY <1>0, <1>2 DEF Terminated, SocketsInv, PlacesInv, EventsInv, Removing, Serving
    <2>4. PlacesInv'
      BY <1>0, <1>2 DEF Terminated, SocketsInv, PlacesInv, TunnelInv, Removing, Attempting,
                        Serving
    <2>5. ProcessInv'
      BY <1>0, <1>2 DEF Terminated, ProcessInv, Removing, Attempting, Serving
    <2>6. EventsInv'
      BY <1>0, <1>2 DEF Terminated, EventsInv, PlacesInv, TunnelInv, Removing, Serving
    <2> QED
      BY <2>1, <2>2, <2>3, <2>4, <2>5, <2>6 DEF IInv
  <1>3. CASE sc_server_on_terminated
    <2>1. SlotIsExact' /\ InterruptionReaches'
      BY <1>0, <1>3 DEF sc_server_on_terminated, SlotIsExact, InterruptionReaches, Commands,
                        RemoveCommands, SocketCalls
    <2>2. TunnelInv'
      BY <1>0, <1>3 DEF sc_server_on_terminated, TunnelInv, Removing, Attempting
    <2>3. SocketsInv'
      BY <1>0, <1>3 DEF sc_server_on_terminated, SocketsInv, PlacesInv, EventsInv, Removing,
                        Serving
    <2>4. PlacesInv'
      BY <1>0, <1>3 DEF sc_server_on_terminated, SocketsInv, PlacesInv, TunnelInv, Removing,
                        Attempting, Serving
    <2>5. ProcessInv'
      BY <1>0, <1>3 DEF sc_server_on_terminated, ProcessInv, Removing, Attempting, Serving
    <2>6. EventsInv'
      BY <1>0, <1>3 DEF sc_server_on_terminated, EventsInv, PlacesInv, TunnelInv, Removing,
                        Serving
    <2> QED
      BY <2>1, <2>2, <2>3, <2>4, <2>5, <2>6 DEF IInv
  <1>4. CASE AwaitEnds
    <2>1. /\ UNCHANGED <<opt, callVars, intrVars, socketVars, processVars, events>>
          /\ main = "await" /\ main' \in {"end", "loop"}
      BY <1>4 DEF AwaitEnds
    <2>2. SlotIsExact' /\ InterruptionReaches' /\ TunnelInv'
      BY <1>0, <2>1 DEF SlotIsExact, InterruptionReaches, TunnelInv, Removing
    <2>3. SocketsInv' /\ PlacesInv'
      BY <1>0, <2>1 DEF SocketsInv, PlacesInv, Removing
    <2>4. ProcessInv'
      BY <1>0, <2>1 DEF ProcessInv, Removing
    <2>5. started' => "connected" \in events /\ ~opt.list
      <3>1. CASE started' = started
        BY <1>0, <3>1 DEF EventsInv
      <3>2. CASE "connected" \in events /\ started' = ~opt.list
        BY <3>2
      <3> QED
        BY <1>4, <3>1, <3>2 DEF AwaitEnds
    <2>6. EventsInv'
      BY <1>0, <2>1, <2>5 DEF EventsInv
    <2> QED
      BY <2>2, <2>3, <2>4, <2>6 DEF IInv
  <1>5. CASE LoopEnds
    <2>1. SlotIsExact' /\ InterruptionReaches'
      BY <1>0, <1>5 DEF LoopEnds, SlotIsExact, InterruptionReaches, Commands, RemoveCommands,
                        SocketCalls
    <2>2. TunnelInv'
      BY <1>0, <1>5 DEF LoopEnds, TunnelInv, Removing, Attempting
    <2>3. SocketsInv'
      BY <1>0, <1>5 DEF LoopEnds, SocketsInv, PlacesInv, EventsInv, Removing, Serving
    <2>4. PlacesInv'
      BY <1>0, <1>5 DEF LoopEnds, SocketsInv, PlacesInv, TunnelInv, Removing, Attempting,
                        Serving
    <2>5. ProcessInv'
      BY <1>0, <1>5 DEF LoopEnds, ProcessInv, Removing, Attempting, Serving
    <2>6. EventsInv'
      BY <1>0, <1>5 DEF LoopEnds, EventsInv, PlacesInv, TunnelInv, Removing, Serving
    <2> QED
      BY <2>1, <2>2, <2>3, <2>4, <2>5, <2>6 DEF IInv
  <1>6. CASE sc_server_stop
    <2>1. SlotIsExact' /\ InterruptionReaches'
      BY <1>0, <1>6 DEF sc_server_stop, SlotIsExact, InterruptionReaches, Commands,
                        RemoveCommands, SocketCalls
    <2>2. TunnelInv'
      BY <1>0, <1>6 DEF sc_server_stop, TunnelInv, Removing, Attempting
    <2>3. SocketsInv'
      BY <1>0, <1>6 DEF sc_server_stop, SocketsInv, PlacesInv, EventsInv, Removing, Serving
    <2>4. PlacesInv'
      BY <1>0, <1>6 DEF sc_server_stop, SocketsInv, PlacesInv, TunnelInv, Removing, Attempting,
                        Serving
    <2>5. ProcessInv'
      BY <1>0, <1>6 DEF sc_server_stop, ProcessInv, Removing, Attempting, Serving
    <2>6. EventsInv'
      BY <1>0, <1>6 DEF sc_server_stop, EventsInv, PlacesInv, TunnelInv, Removing, Serving
    <2> QED
      BY <2>1, <2>2, <2>3, <2>4, <2>5, <2>6 DEF IInv
  <1>7. CASE UsersJoined
    <2>1. SlotIsExact' /\ InterruptionReaches'
      BY <1>0, <1>7 DEF UsersJoined, SlotIsExact, InterruptionReaches, Commands, RemoveCommands,
                        SocketCalls
    <2>2. TunnelInv'
      BY <1>0, <1>7 DEF UsersJoined, TunnelInv, Removing, Attempting
    <2>3. SocketsInv'
      BY <1>0, <1>7 DEF UsersJoined, SocketsInv, PlacesInv, EventsInv, Removing, Serving
    <2>4. PlacesInv'
      BY <1>0, <1>7 DEF UsersJoined, SocketsInv, PlacesInv, TunnelInv, Removing, Attempting,
                        Serving
    <2>5. ProcessInv'
      BY <1>0, <1>7 DEF UsersJoined, ProcessInv, Removing, Attempting, Serving
    <2>6. EventsInv'
      BY <1>0, <1>7 DEF UsersJoined, EventsInv, PlacesInv, TunnelInv, Removing, Serving
    <2> QED
      BY <2>1, <2>2, <2>3, <2>4, <2>5, <2>6 DEF IInv
  <1>8. CASE sc_server_join
    <2>1. SlotIsExact' /\ InterruptionReaches'
      BY <1>0, <1>8 DEF sc_server_join, SlotIsExact, InterruptionReaches, Commands,
                        RemoveCommands, SocketCalls
    <2>2. TunnelInv'
      BY <1>0, <1>8 DEF sc_server_join, TunnelInv, Removing, Attempting
    <2>3. SocketsInv'
      BY <1>0, <1>8 DEF sc_server_join, SocketsInv, PlacesInv, EventsInv, Removing, Serving
    <2>4. PlacesInv'
      BY <1>0, <1>8 DEF sc_server_join, SocketsInv, PlacesInv, TunnelInv, Removing, Attempting,
                        Serving
    <2>5. ProcessInv'
      BY <1>0, <1>8 DEF sc_server_join, ProcessInv, Removing, Attempting, Serving
    <2>6. EventsInv'
      BY <1>0, <1>8 DEF sc_server_join, EventsInv, PlacesInv, TunnelInv, Removing, Serving
    <2> QED
      BY <2>1, <2>2, <2>3, <2>4, <2>5, <2>6 DEF IInv
  <1>9. CASE sc_server_destroy
    <2>1. SlotIsExact' /\ InterruptionReaches'
      BY <1>0, <1>9 DEF sc_server_destroy, SlotIsExact, InterruptionReaches, Commands,
                        RemoveCommands, SocketCalls
    <2>2. TunnelInv'
      BY <1>0, <1>9 DEF sc_server_destroy, TunnelInv, Removing, Attempting
    <2>3. SocketsInv'
      BY <1>0, <1>9 DEF sc_server_destroy, SocketsInv, PlacesInv, EventsInv, Removing, Serving
    <2>4. PlacesInv'
      BY <1>0, <1>9 DEF sc_server_destroy, SocketsInv, PlacesInv, TunnelInv, Removing,
                        Attempting, Serving
    <2>5. ProcessInv'
      BY <1>0, <1>9 DEF sc_server_destroy, ProcessInv, Removing, Attempting, Serving
    <2>6. EventsInv'
      BY <1>0, <1>9 DEF sc_server_destroy, EventsInv, PlacesInv, TunnelInv, Removing, Serving
    <2> QED
      BY <2>1, <2>2, <2>3, <2>4, <2>5, <2>6 DEF IInv
  <1> QED
    BY <1>1, <1>2, <1>3, <1>4, <1>5, <1>6, <1>7, <1>8, <1>9 DEF Observer, MainEnds

-----------------------------------------------------------------------------
\* What the runs check follows from the invariant.
LEMMA InvariantImplies ==
    ASSUME IInv
    PROVE  InterruptionReaches /\ TargetIsAlive /\ FieldsAreOpen /\ ThreadLeavesNothing
  <1>1. InterruptionReaches /\ TargetIsAlive
    BY DEF IInv, SlotIsExact, TargetIsAlive
  <1>2. FieldsAreOpen
    BY DEF IInv, SocketsInv, EventsInv, FieldsAreOpen
  <1>3. ASSUME at = "ended"
        PROVE  tunnel = "off" /\ (main # "destroyed" => open = fields)
    BY <1>3 DEF IInv, TunnelInv, SocketsInv, PlacesInv, Removing, Attempting, Serving
  <1>4. ASSUME at = "ended"
        PROVE  process \in {"none", "reaped"} /\ observer \in {"none", "ended"}
    BY <1>4 DEF IInv, ProcessInv, Removing, Attempting, Serving
  <1> QED
    BY <1>1, <1>2, <1>3, <1>4 DEF ThreadLeavesNothing

\* The invariant holds in every state of every behaviour.
THEOREM Invariance == Spec => []IInv
  <1>1. Init => IInv
    BY InvariantInit
  <1>2. IInv /\ [Next]_vars => IInv'
    <2> SUFFICES ASSUME IInv, [Next]_vars
                 PROVE  IInv'
      OBVIOUS
    <2>1. CASE UNCHANGED vars
      <3> USE <2>1 DEF vars, callVars, intrVars
      <3>1. SlotIsExact' /\ InterruptionReaches'
        BY DEF IInv, SlotIsExact, InterruptionReaches
      <3> QED
        BY <3>1, InsideACall DEF IInv
    <2>2. CASE Next
      BY <2>2, CallStep, ChoosingStep, TunnellingStep, ConnectingStep, EndingStep, OthersStep
         DEF Next, Thread
    <2> QED
      BY <2>1, <2>2
  <1> QED
    BY <1>1, <1>2, PTL DEF Spec

\* sc_intr: an interruption reaches the call under way, or the next one.
THEOREM InterruptionIsNeverLost == Spec => []InterruptionReaches
  BY Invariance, InvariantImplies, PTL

\* adb.c: what an interruption would kill has not been reaped.
THEOREM NothingReapedIsKilled == Spec => []TargetIsAlive
  BY Invariance, InvariantImplies, PTL

\* server.c: the sockets the rest of the client uses are open, and complete.
THEOREM PublishedSocketsAreOpen == Spec => []FieldsAreOpen
  BY Invariance, InvariantImplies, PTL

\* run_server(): every way out closes the tunnel and the sockets, reaps the
\* server and joins its observer.
THEOREM EveryWayOutCleansUp == Spec => []ThreadLeavesNothing
  BY Invariance, InvariantImplies, PTL

\* sc_intr: an interruption is neither missed nor aimed at a reaped process.
THEOREM InterruptionIsExact == Spec => []InterruptIsExact
  BY InterruptionIsNeverLost, NothingReapedIsKilled, PTL DEF InterruptIsExact

\* Whatever fails, whenever the stop comes: published sockets stay open until
\* the end, and run_server() leaves nothing else behind.
THEOREM NoLeak == Spec => []NothingLeaks
  BY PublishedSocketsAreOpen, EveryWayOutCleansUp, PTL DEF NothingLeaks

-----------------------------------------------------------------------------
(* Types, and the tunnels at adb.                                           *)

\* The values of the flags.
FlagsOK ==
    /\ result \in BOOLEAN /\ took \in BOOLEAN /\ interrupted \in BOOLEAN /\ stopped \in BOOLEAN
    /\ started \in BOOLEAN /\ kept \in BOOLEAN

\* The values of what the threads and the calls are at.
StatesOK ==
    /\ at \in Commands \cup SocketCalls \cup Places
    /\ phase \in {"ready", "executed", "blocked", "returned", "unregistered", "done"}
    /\ call \in {"none", "running", "interrupted", "over", "closed"}
    /\ target \in {"none", "process", "socket"}
    /\ tunnel \in {"off", "reverse", "forward"}
    /\ main \in {"await", "loop", "end", "join users", "join", "destroy", "destroyed"}
    /\ events \subseteq {"connected", "failed"}
    /\ shut \subseteq opt.wanted

\* The counters: a pause and a nap have an attempt left.
CountersOK ==
    /\ port \in Ports /\ tries \in 0 .. Attempts
    /\ at \in {"first", "byte", "pause", "nap"} => tries >= 1
    /\ left \subseteq {"reverse", "forward"} \X Ports

\* A command that failed although it had its effect was interrupted.
EffectInv ==
    /\ call = "interrupted" => interrupted
    /\ at \in Commands /\ phase \in {"returned", "unregistered", "done"} =>
         (result => took) /\ (took /\ ~interrupted => result)

\* The places before a tunnel is opened, and after the client is connected.
Early == {"start-server", "devices", "ip route", "getprop", "tcpip", "getprop again",
          "disconnect", "connect", "push", "nap", "list", "listing"}
After == {"wait", "interrupt", "watchdog", "join", "close", "kill-server", "ended"}

\* The tunnel that sc_adb_tunnel_close() would remove.
Held == IF tunnel = "off" THEN {} ELSE {<<tunnel, port>>}

\* The tunnels that adb should know, by where the thread is.
LeftIs ==
    /\ at \in {"reverse", "forward"} =>
         left = IF phase # "ready" /\ took THEN {<<at, port>>} ELSE {}
    /\ at = "listen" => left = {<<"reverse", port>>}
    /\ at = "retry --remove" => left = IF phase = "ready" THEN {<<"reverse", port>>} ELSE {}
    /\ Removing => left = IF phase = "ready" THEN Held ELSE {}
    /\ at \in {"execute", "observe", "unobserved", "info", "connected"} \cup Attempting =>
         left = Held

\* An interruption that left a tunnel behind also prevents the connection: no
\* call on a socket succeeds any more.
Doomed ==
    /\ interrupted /\ at # "connected"
    /\ at \in SocketCalls => phase = "ready" \/ (phase = "done" /\ ~result)

RemovedInv ==
    /\ at = "forward --remove" => tunnel = "forward"
    /\ at = "reverse --remove" => tunnel # "forward"
    /\ at \in Early => left = {}
    /\ "connected" \in events => at \in After /\ (kept \/ left = {})
    /\ kept \/ LeftIs \/ Doomed

TInv == FlagsOK /\ StatesOK /\ CountersOK /\ EffectInv /\ RemovedInv

\* The effect of an adb command on the tunnels.
LEMMA TunnelsAre ==
    /\ at = "reverse" => Tunnels = {t \in left : t[1] # "reverse"} \cup {<<"reverse", port>>}
    /\ at = "forward" => Tunnels = left \cup {<<"forward", port>>}
    /\ at \in {"reverse --remove", "retry --remove"} =>
         Tunnels = {t \in left : t[1] # "reverse"}
    /\ at = "forward --remove" => Tunnels = left \ {<<"forward", port>>}
    /\ at \notin RemoveCommands \cup {"reverse", "forward"} => Tunnels = left
  BY DEF Tunnels, RemoveCommands

\* From `adb start-server' to `adb push'.
LEMMA ChoosingKeepsTypes ==
    ASSUME IInv, TInv, Choosing
    PROVE  TInv'
  <1> USE DEF intrVars, socketVars, processVars, mainVars, historyVars, Done, GoTo, Goes, Moves
  <1>0. /\ FlagsOK /\ StatesOK /\ CountersOK /\ EffectInv /\ RemovedInv /\ TunnelInv /\ SocketsInv
        /\ EventsInv
    BY DEF TInv, IInv
  <1>1. CASE ServerStarted
    <2>1. FlagsOK'
      BY <1>0, <1>1 DEF ServerStarted, FlagsOK
    <2>2. StatesOK'
      <3>1. at' \in Commands \cup SocketCalls \cup Places
        BY <1>0, <1>1 DEF ServerStarted, TunnelInv, ClosesTunnelThen, Onwards, AttemptFails,
           Commands, RemoveCommands, SocketCalls, Places
      <3>2. phase' \in {"ready", "executed", "blocked", "returned", "unregistered", "done"}
        BY <1>0, <1>1 DEF ServerStarted, StatesOK, ClosesTunnelThen, Onwards, AttemptFails
      <3>3. tunnel' \in {"off", "reverse", "forward"} /\ events' \subseteq {"connected", "failed"}
        BY <1>0, <1>1 DEF ServerStarted, StatesOK
      <3>4. UNCHANGED <<call, target, main, opt>> /\ shut' \subseteq opt.wanted
        BY <1>0, <1>1 DEF ServerStarted, StatesOK, SocketsInv
      <3> QED
        BY <1>0, <3>1, <3>2, <3>3, <3>4 DEF StatesOK
    <2>3. CountersOK'
      <3>1. port' \in Ports
        BY <1>0, <1>1, RangeAssumption DEF ServerStarted, CountersOK, Ports
      <3>2. tries' \in 0 .. Attempts
        BY <1>0, <1>1, RangeAssumption DEF ServerStarted, CountersOK
      <3>3. at' \in {"first", "byte", "pause", "nap"} => tries' >= 1
        BY <1>0, <1>1, RangeAssumption DEF ServerStarted, CountersOK, TunnelInv, ClosesTunnelThen,
           AttemptFails, Onwards
      <3>4. left' = left
        BY <1>1 DEF ServerStarted
      <3> QED
        BY <1>0, <3>1, <3>2, <3>3, <3>4 DEF CountersOK
    <2>4. EffectInv'
      BY <1>0, <1>1 DEF ServerStarted, EffectInv, ClosesTunnelThen, Onwards, AttemptFails
    <2>5. RemovedInv'
      BY <1>0, <1>1 DEF ServerStarted, EffectInv, StatesOK, RemovedInv, LeftIs, Held,
         Doomed, Removing, Attempting, Early, After, TunnelInv, ClosesTunnelThen, Commands,
         RemoveCommands, SocketCalls, AttemptFails, Onwards
    <2> QED
      BY <2>1, <2>2, <2>3, <2>4, <2>5 DEF TInv
  <1>2. CASE DeviceSelected
    <2>1. FlagsOK'
      BY <1>0, <1>2 DEF DeviceSelected, FlagsOK
    <2>2. StatesOK'
      <3>1. at' \in Commands \cup SocketCalls \cup Places
        BY <1>0, <1>2 DEF DeviceSelected, TunnelInv, ClosesTunnelThen, Onwards, AttemptFails,
           Commands, RemoveCommands, SocketCalls, Places
      <3>2. phase' \in {"ready", "executed", "blocked", "returned", "unregistered", "done"}
        BY <1>0, <1>2 DEF DeviceSelected, StatesOK, ClosesTunnelThen, Onwards, AttemptFails
      <3>3. tunnel' \in {"off", "reverse", "forward"} /\ events' \subseteq {"connected", "failed"}
        BY <1>0, <1>2 DEF DeviceSelected, StatesOK
      <3>4. UNCHANGED <<call, target, main, opt>> /\ shut' \subseteq opt.wanted
        BY <1>0, <1>2 DEF DeviceSelected, StatesOK, SocketsInv
      <3> QED
        BY <1>0, <3>1, <3>2, <3>3, <3>4 DEF StatesOK
    <2>3. CountersOK'
      <3>1. port' \in Ports
        BY <1>0, <1>2, RangeAssumption DEF DeviceSelected, CountersOK, Ports
      <3>2. tries' \in 0 .. Attempts
        BY <1>0, <1>2, RangeAssumption DEF DeviceSelected, CountersOK
      <3>3. at' \in {"first", "byte", "pause", "nap"} => tries' >= 1
        BY <1>0, <1>2, RangeAssumption DEF DeviceSelected, CountersOK, TunnelInv, ClosesTunnelThen,
           AttemptFails, Onwards
      <3>4. left' = left
        BY <1>2 DEF DeviceSelected
      <3> QED
        BY <1>0, <3>1, <3>2, <3>3, <3>4 DEF CountersOK
    <2>4. EffectInv'
      BY <1>0, <1>2 DEF DeviceSelected, EffectInv, ClosesTunnelThen, Onwards, AttemptFails
    <2>5. RemovedInv'
      BY <1>0, <1>2 DEF DeviceSelected, EffectInv, StatesOK, RemovedInv, LeftIs, Held,
         Doomed, Removing, Attempting, Early, After, TunnelInv, ClosesTunnelThen, Commands,
         RemoveCommands, SocketCalls, AttemptFails, Onwards
    <2> QED
      BY <2>1, <2>2, <2>3, <2>4, <2>5 DEF TInv
  <1>3. CASE AddressFound
    <2>1. FlagsOK'
      BY <1>0, <1>3 DEF AddressFound, FlagsOK
    <2>2. StatesOK'
      <3>1. at' \in Commands \cup SocketCalls \cup Places
        BY <1>0, <1>3 DEF AddressFound, TunnelInv, ClosesTunnelThen, Onwards, AttemptFails,
           Commands, RemoveCommands, SocketCalls, Places
      <3>2. phase' \in {"ready", "executed", "blocked", "returned", "unregistered", "done"}
        BY <1>0, <1>3 DEF AddressFound, StatesOK, ClosesTunnelThen, Onwards, AttemptFails
      <3>3. tunnel' \in {"off", "reverse", "forward"} /\ events' \subseteq {"connected", "failed"}
        BY <1>0, <1>3 DEF AddressFound, StatesOK
      <3>4. UNCHANGED <<call, target, main, opt>> /\ shut' \subseteq opt.wanted
        BY <1>0, <1>3 DEF AddressFound, StatesOK, SocketsInv
      <3> QED
        BY <1>0, <3>1, <3>2, <3>3, <3>4 DEF StatesOK
    <2>3. CountersOK'
      <3>1. port' \in Ports
        BY <1>0, <1>3, RangeAssumption DEF AddressFound, CountersOK, Ports
      <3>2. tries' \in 0 .. Attempts
        BY <1>0, <1>3, RangeAssumption DEF AddressFound, CountersOK
      <3>3. at' \in {"first", "byte", "pause", "nap"} => tries' >= 1
        BY <1>0, <1>3, RangeAssumption DEF AddressFound, CountersOK, TunnelInv, ClosesTunnelThen,
           AttemptFails, Onwards
      <3>4. left' = left
        BY <1>3 DEF AddressFound
      <3> QED
        BY <1>0, <3>1, <3>2, <3>3, <3>4 DEF CountersOK
    <2>4. EffectInv'
      BY <1>0, <1>3 DEF AddressFound, EffectInv, ClosesTunnelThen, Onwards, AttemptFails
    <2>5. RemovedInv'
      BY <1>0, <1>3 DEF AddressFound, EffectInv, StatesOK, RemovedInv, LeftIs, Held,
         Doomed, Removing, Attempting, Early, After, TunnelInv, ClosesTunnelThen, Commands,
         RemoveCommands, SocketCalls, AttemptFails, Onwards
    <2> QED
      BY <2>1, <2>2, <2>3, <2>4, <2>5 DEF TInv
  <1>4. CASE PortRead
    <2>1. FlagsOK'
      BY <1>0, <1>4 DEF PortRead, FlagsOK
    <2>2. StatesOK'
      <3>1. at' \in Commands \cup SocketCalls \cup Places
        BY <1>0, <1>4 DEF PortRead, TunnelInv, ClosesTunnelThen, Onwards, AttemptFails,
           Commands, RemoveCommands, SocketCalls, Places
      <3>2. phase' \in {"ready", "executed", "blocked", "returned", "unregistered", "done"}
        BY <1>0, <1>4 DEF PortRead, StatesOK, ClosesTunnelThen, Onwards, AttemptFails
      <3>3. tunnel' \in {"off", "reverse", "forward"} /\ events' \subseteq {"connected", "failed"}
        BY <1>0, <1>4 DEF PortRead, StatesOK
      <3>4. UNCHANGED <<call, target, main, opt>> /\ shut' \subseteq opt.wanted
        BY <1>0, <1>4 DEF PortRead, StatesOK, SocketsInv
      <3> QED
        BY <1>0, <3>1, <3>2, <3>3, <3>4 DEF StatesOK
    <2>3. CountersOK'
      <3>1. port' \in Ports
        BY <1>0, <1>4, RangeAssumption DEF PortRead, CountersOK, Ports
      <3>2. tries' \in 0 .. Attempts
        BY <1>0, <1>4, RangeAssumption DEF PortRead, CountersOK
      <3>3. at' \in {"first", "byte", "pause", "nap"} => tries' >= 1
        BY <1>0, <1>4, RangeAssumption DEF PortRead, CountersOK, TunnelInv, ClosesTunnelThen,
           AttemptFails, Onwards
      <3>4. left' = left
        BY <1>4 DEF PortRead
      <3> QED
        BY <1>0, <3>1, <3>2, <3>3, <3>4 DEF CountersOK
    <2>4. EffectInv'
      BY <1>0, <1>4 DEF PortRead, EffectInv, ClosesTunnelThen, Onwards, AttemptFails
    <2>5. RemovedInv'
      BY <1>0, <1>4 DEF PortRead, EffectInv, StatesOK, RemovedInv, LeftIs, Held,
         Doomed, Removing, Attempting, Early, After, TunnelInv, ClosesTunnelThen, Commands,
         RemoveCommands, SocketCalls, AttemptFails, Onwards
    <2> QED
      BY <2>1, <2>2, <2>3, <2>4, <2>5 DEF TInv
  <1>5. CASE TcpipEnabled
    <2>1. FlagsOK'
      BY <1>0, <1>5 DEF TcpipEnabled, FlagsOK
    <2>2. StatesOK'
      <3>1. at' \in Commands \cup SocketCalls \cup Places
        BY <1>0, <1>5 DEF TcpipEnabled, TunnelInv, ClosesTunnelThen, Onwards, AttemptFails,
           Commands, RemoveCommands, SocketCalls, Places
      <3>2. phase' \in {"ready", "executed", "blocked", "returned", "unregistered", "done"}
        BY <1>0, <1>5 DEF TcpipEnabled, StatesOK, ClosesTunnelThen, Onwards, AttemptFails
      <3>3. tunnel' \in {"off", "reverse", "forward"} /\ events' \subseteq {"connected", "failed"}
        BY <1>0, <1>5 DEF TcpipEnabled, StatesOK
      <3>4. UNCHANGED <<call, target, main, opt>> /\ shut' \subseteq opt.wanted
        BY <1>0, <1>5 DEF TcpipEnabled, StatesOK, SocketsInv
      <3> QED
        BY <1>0, <3>1, <3>2, <3>3, <3>4 DEF StatesOK
    <2>3. CountersOK'
      <3>1. port' \in Ports
        BY <1>0, <1>5, RangeAssumption DEF TcpipEnabled, CountersOK, Ports
      <3>2. tries' \in 0 .. Attempts
        BY <1>0, <1>5, RangeAssumption DEF TcpipEnabled, CountersOK
      <3>3. at' \in {"first", "byte", "pause", "nap"} => tries' >= 1
        BY <1>0, <1>5, RangeAssumption DEF TcpipEnabled, CountersOK, TunnelInv, ClosesTunnelThen,
           AttemptFails, Onwards
      <3>4. left' = left
        BY <1>5 DEF TcpipEnabled
      <3> QED
        BY <1>0, <3>1, <3>2, <3>3, <3>4 DEF CountersOK
    <2>4. EffectInv'
      BY <1>0, <1>5 DEF TcpipEnabled, EffectInv, ClosesTunnelThen, Onwards, AttemptFails
    <2>5. RemovedInv'
      BY <1>0, <1>5 DEF TcpipEnabled, EffectInv, StatesOK, RemovedInv, LeftIs, Held,
         Doomed, Removing, Attempting, Early, After, TunnelInv, ClosesTunnelThen, Commands,
         RemoveCommands, SocketCalls, AttemptFails, Onwards
    <2> QED
      BY <2>1, <2>2, <2>3, <2>4, <2>5 DEF TInv
  <1>6. CASE PortReadAgain
    <2>1. FlagsOK'
      BY <1>0, <1>6 DEF PortReadAgain, FlagsOK
    <2>2. StatesOK'
      <3>1. at' \in Commands \cup SocketCalls \cup Places
        BY <1>0, <1>6 DEF PortReadAgain, TunnelInv, ClosesTunnelThen, Onwards, AttemptFails,
           Commands, RemoveCommands, SocketCalls, Places
      <3>2. phase' \in {"ready", "executed", "blocked", "returned", "unregistered", "done"}
        BY <1>0, <1>6 DEF PortReadAgain, StatesOK, ClosesTunnelThen, Onwards, AttemptFails
      <3>3. tunnel' \in {"off", "reverse", "forward"} /\ events' \subseteq {"connected", "failed"}
        BY <1>0, <1>6 DEF PortReadAgain, StatesOK
      <3>4. UNCHANGED <<call, target, main, opt>> /\ shut' \subseteq opt.wanted
        BY <1>0, <1>6 DEF PortReadAgain, StatesOK, SocketsInv
      <3> QED
        BY <1>0, <3>1, <3>2, <3>3, <3>4 DEF StatesOK
    <2>3. CountersOK'
      <3>0. port \in Nat /\ port >= 1 /\ port <= LastPort /\ tries \in Nat /\ tries <= Attempts
            /\ LastPort \in Nat \ {0} /\ Attempts \in Nat \ {0}
        BY <1>0, RangeAssumption DEF CountersOK, Ports
      <3>1. port' \in Ports
        BY <1>0, <1>6, RangeAssumption DEF PortReadAgain, CountersOK, Ports
      <3>2. tries' \in 0 .. Attempts
        BY <1>0, <1>6, RangeAssumption DEF PortReadAgain, CountersOK
      <3>3. at' \in {"first", "byte", "pause", "nap"} => tries' >= 1
        <4>1. at' \in {"first", "byte", "pause", "nap"} => tries > 0
          BY <1>6 DEF PortReadAgain
        <4>2. tries' = tries
          BY <1>6 DEF PortReadAgain
        <4> QED
          BY <3>0, <4>1, <4>2
      <3>4. left' = left
        BY <1>6 DEF PortReadAgain
      <3> QED
        BY <1>0, <3>1, <3>2, <3>3, <3>4 DEF CountersOK
    <2>4. EffectInv'
      BY <1>0, <1>6 DEF PortReadAgain, EffectInv, ClosesTunnelThen, Onwards, AttemptFails
    <2>5. RemovedInv'
      BY <1>0, <1>6 DEF PortReadAgain, EffectInv, StatesOK, RemovedInv, LeftIs, Held,
         Doomed, Removing, Attempting, Early, After, TunnelInv, ClosesTunnelThen, Commands,
         RemoveCommands, SocketCalls, AttemptFails, Onwards
    <2> QED
      BY <2>1, <2>2, <2>3, <2>4, <2>5 DEF TInv
  <1>7. CASE Naps
    <2>1. FlagsOK'
      BY <1>0, <1>7 DEF Naps, FlagsOK
    <2>2. StatesOK'
      <3>1. at' \in Commands \cup SocketCalls \cup Places
        BY <1>0, <1>7 DEF Naps, TunnelInv, ClosesTunnelThen, Onwards, AttemptFails,
           Commands, RemoveCommands, SocketCalls, Places
      <3>2. phase' \in {"ready", "executed", "blocked", "returned", "unregistered", "done"}
        BY <1>0, <1>7 DEF Naps, StatesOK, ClosesTunnelThen, Onwards, AttemptFails
      <3>3. tunnel' \in {"off", "reverse", "forward"} /\ events' \subseteq {"connected", "failed"}
        BY <1>0, <1>7 DEF Naps, StatesOK
      <3>4. UNCHANGED <<call, target, main, opt>> /\ shut' \subseteq opt.wanted
        BY <1>0, <1>7 DEF Naps, StatesOK, SocketsInv
      <3> QED
        BY <1>0, <3>1, <3>2, <3>3, <3>4 DEF StatesOK
    <2>3. CountersOK'
      <3>0. port \in Nat /\ port >= 1 /\ port <= LastPort /\ tries \in Nat /\ tries <= Attempts
            /\ LastPort \in Nat \ {0} /\ Attempts \in Nat \ {0}
        BY <1>0, RangeAssumption DEF CountersOK, Ports
      <3>1. port' \in Ports
        BY <1>0, <1>7, RangeAssumption DEF Naps, CountersOK, Ports
      <3>2. tries' \in 0 .. Attempts
        <4>1. tries >= 1
          BY <1>0, <1>7 DEF Naps, CountersOK
        <4>2. tries' = tries \/ tries' = tries - 1
          BY <1>7 DEF Naps
        <4> QED
          BY <3>0, <4>1, <4>2
      <3>3. at' \in {"first", "byte", "pause", "nap"} => tries' >= 1
        BY <1>0, <1>7, RangeAssumption DEF Naps, CountersOK, TunnelInv, ClosesTunnelThen,
           AttemptFails, Onwards
      <3>4. left' = left
        BY <1>7 DEF Naps
      <3> QED
        BY <1>0, <3>1, <3>2, <3>3, <3>4 DEF CountersOK
    <2>4. EffectInv'
      BY <1>0, <1>7 DEF Naps, EffectInv, ClosesTunnelThen, Onwards, AttemptFails
    <2>5. RemovedInv'
      BY <1>0, <1>7 DEF Naps, EffectInv, StatesOK, RemovedInv, LeftIs, Held,
         Doomed, Removing, Attempting, Early, After, TunnelInv, ClosesTunnelThen, Commands,
         RemoveCommands, SocketCalls, AttemptFails, Onwards
    <2> QED
      BY <2>1, <2>2, <2>3, <2>4, <2>5 DEF TInv
  <1>8. CASE Disconnected
    <2>1. FlagsOK'
      BY <1>0, <1>8 DEF Disconnected, FlagsOK
    <2>2. StatesOK'
      <3>1. at' \in Commands \cup SocketCalls \cup Places
        BY <1>0, <1>8 DEF Disconnected, TunnelInv, ClosesTunnelThen, Onwards, AttemptFails,
           Commands, RemoveCommands, SocketCalls, Places
      <3>2. phase' \in {"ready", "executed", "blocked", "returned", "unregistered", "done"}
        BY <1>0, <1>8 DEF Disconnected, StatesOK, ClosesTunnelThen, Onwards, AttemptFails
      <3>3. tunnel' \in {"off", "reverse", "forward"} /\ events' \subseteq {"connected", "failed"}
        BY <1>0, <1>8 DEF Disconnected, StatesOK
      <3>4. UNCHANGED <<call, target, main, opt>> /\ shut' \subseteq opt.wanted
        BY <1>0, <1>8 DEF Disconnected, StatesOK, SocketsInv
      <3> QED
        BY <1>0, <3>1, <3>2, <3>3, <3>4 DEF StatesOK
    <2>3. CountersOK'
      <3>1. port' \in Ports
        BY <1>0, <1>8, RangeAssumption DEF Disconnected, CountersOK, Ports
      <3>2. tries' \in 0 .. Attempts
        BY <1>0, <1>8, RangeAssumption DEF Disconnected, CountersOK
      <3>3. at' \in {"first", "byte", "pause", "nap"} => tries' >= 1
        BY <1>0, <1>8, RangeAssumption DEF Disconnected, CountersOK, TunnelInv, ClosesTunnelThen,
           AttemptFails, Onwards
      <3>4. left' = left
        BY <1>8 DEF Disconnected
      <3> QED
        BY <1>0, <3>1, <3>2, <3>3, <3>4 DEF CountersOK
    <2>4. EffectInv'
      BY <1>0, <1>8 DEF Disconnected, EffectInv, ClosesTunnelThen, Onwards, AttemptFails
    <2>5. RemovedInv'
      BY <1>0, <1>8 DEF Disconnected, EffectInv, StatesOK, RemovedInv, LeftIs, Held,
         Doomed, Removing, Attempting, Early, After, TunnelInv, ClosesTunnelThen, Commands,
         RemoveCommands, SocketCalls, AttemptFails, Onwards
    <2> QED
      BY <2>1, <2>2, <2>3, <2>4, <2>5 DEF TInv
  <1>9. CASE DeviceConnected
    <2>1. FlagsOK'
      BY <1>0, <1>9 DEF DeviceConnected, FlagsOK
    <2>2. StatesOK'
      <3>1. at' \in Commands \cup SocketCalls \cup Places
        BY <1>0, <1>9 DEF DeviceConnected, TunnelInv, ClosesTunnelThen, Onwards, AttemptFails,
           Commands, RemoveCommands, SocketCalls, Places
      <3>2. phase' \in {"ready", "executed", "blocked", "returned", "unregistered", "done"}
        BY <1>0, <1>9 DEF DeviceConnected, StatesOK, ClosesTunnelThen, Onwards, AttemptFails
      <3>3. tunnel' \in {"off", "reverse", "forward"} /\ events' \subseteq {"connected", "failed"}
        BY <1>0, <1>9 DEF DeviceConnected, StatesOK
      <3>4. UNCHANGED <<call, target, main, opt>> /\ shut' \subseteq opt.wanted
        BY <1>0, <1>9 DEF DeviceConnected, StatesOK, SocketsInv
      <3> QED
        BY <1>0, <3>1, <3>2, <3>3, <3>4 DEF StatesOK
    <2>3. CountersOK'
      <3>1. port' \in Ports
        BY <1>0, <1>9, RangeAssumption DEF DeviceConnected, CountersOK, Ports
      <3>2. tries' \in 0 .. Attempts
        BY <1>0, <1>9, RangeAssumption DEF DeviceConnected, CountersOK
      <3>3. at' \in {"first", "byte", "pause", "nap"} => tries' >= 1
        BY <1>0, <1>9, RangeAssumption DEF DeviceConnected, CountersOK, TunnelInv, ClosesTunnelThen,
           AttemptFails, Onwards
      <3>4. left' = left
        BY <1>9 DEF DeviceConnected
      <3> QED
        BY <1>0, <3>1, <3>2, <3>3, <3>4 DEF CountersOK
    <2>4. EffectInv'
      BY <1>0, <1>9 DEF DeviceConnected, EffectInv, ClosesTunnelThen, Onwards, AttemptFails
    <2>5. RemovedInv'
      BY <1>0, <1>9 DEF DeviceConnected, EffectInv, StatesOK, RemovedInv, LeftIs, Held,
         Doomed, Removing, Attempting, Early, After, TunnelInv, ClosesTunnelThen, Commands,
         RemoveCommands, SocketCalls, AttemptFails, Onwards
    <2> QED
      BY <2>1, <2>2, <2>3, <2>4, <2>5 DEF TInv
  <1>10. CASE ServerPushed
    <2>1. FlagsOK'
      BY <1>0, <1>10 DEF ServerPushed, FlagsOK
    <2>2. StatesOK'
      <3>1. at' \in Commands \cup SocketCalls \cup Places
        BY <1>0, <1>10 DEF ServerPushed, TunnelInv, ClosesTunnelThen, Onwards, AttemptFails,
           Commands, RemoveCommands, SocketCalls, Places
      <3>2. phase' \in {"ready", "executed", "blocked", "returned", "unregistered", "done"}
        BY <1>0, <1>10 DEF ServerPushed, StatesOK, ClosesTunnelThen, Onwards, AttemptFails
      <3>3. tunnel' \in {"off", "reverse", "forward"} /\ events' \subseteq {"connected", "failed"}
        BY <1>0, <1>10 DEF ServerPushed, StatesOK
      <3>4. UNCHANGED <<call, target, main, opt>> /\ shut' \subseteq opt.wanted
        BY <1>0, <1>10 DEF ServerPushed, StatesOK, SocketsInv
      <3> QED
        BY <1>0, <3>1, <3>2, <3>3, <3>4 DEF StatesOK
    <2>3. CountersOK'
      <3>1. port' \in Ports
        BY <1>0, <1>10, RangeAssumption DEF ServerPushed, CountersOK, Ports
      <3>2. tries' \in 0 .. Attempts
        BY <1>0, <1>10, RangeAssumption DEF ServerPushed, CountersOK
      <3>3. at' \in {"first", "byte", "pause", "nap"} => tries' >= 1
        BY <1>0, <1>10, RangeAssumption DEF ServerPushed, CountersOK, TunnelInv, ClosesTunnelThen,
           AttemptFails, Onwards
      <3>4. left' = left
        BY <1>10 DEF ServerPushed
      <3> QED
        BY <1>0, <3>1, <3>2, <3>3, <3>4 DEF CountersOK
    <2>4. EffectInv'
      BY <1>0, <1>10 DEF ServerPushed, EffectInv, ClosesTunnelThen, Onwards, AttemptFails
    <2>5. RemovedInv'
      BY <1>0, <1>10 DEF ServerPushed, EffectInv, StatesOK, RemovedInv, LeftIs, Held,
         Doomed, Removing, Attempting, Early, After, TunnelInv, ClosesTunnelThen, Commands,
         RemoveCommands, SocketCalls, AttemptFails, Onwards
    <2> QED
      BY <2>1, <2>2, <2>3, <2>4, <2>5 DEF TInv
  <1>11. CASE ListExecutes
    <2>1. FlagsOK'
      BY <1>0, <1>11 DEF ListExecutes, FlagsOK
    <2>2. StatesOK'
      <3>1. at' \in Commands \cup SocketCalls \cup Places
        BY <1>0, <1>11 DEF ListExecutes, TunnelInv, ClosesTunnelThen, Onwards, AttemptFails,
           Commands, RemoveCommands, SocketCalls, Places
      <3>2. phase' \in {"ready", "executed", "blocked", "returned", "unregistered", "done"}
        BY <1>0, <1>11 DEF ListExecutes, StatesOK, ClosesTunnelThen, Onwards, AttemptFails
      <3>3. tunnel' \in {"off", "reverse", "forward"} /\ events' \subseteq {"connected", "failed"}
        BY <1>0, <1>11 DEF ListExecutes, StatesOK
      <3>4. UNCHANGED <<call, target, main, opt>> /\ shut' \subseteq opt.wanted
        BY <1>0, <1>11 DEF ListExecutes, StatesOK, SocketsInv
      <3> QED
        BY <1>0, <3>1, <3>2, <3>3, <3>4 DEF StatesOK
    <2>3. CountersOK'
      <3>1. port' \in Ports
        BY <1>0, <1>11, RangeAssumption DEF ListExecutes, CountersOK, Ports
      <3>2. tries' \in 0 .. Attempts
        BY <1>0, <1>11, RangeAssumption DEF ListExecutes, CountersOK
      <3>3. at' \in {"first", "byte", "pause", "nap"} => tries' >= 1
        BY <1>0, <1>11, RangeAssumption DEF ListExecutes, CountersOK, TunnelInv, ClosesTunnelThen,
           AttemptFails, Onwards
      <3>4. left' = left
        BY <1>11 DEF ListExecutes
      <3> QED
        BY <1>0, <3>1, <3>2, <3>3, <3>4 DEF CountersOK
    <2>4. EffectInv'
      BY <1>0, <1>11 DEF ListExecutes, EffectInv, ClosesTunnelThen, Onwards, AttemptFails
    <2>5. RemovedInv'
      BY <1>0, <1>11 DEF ListExecutes, EffectInv, StatesOK, RemovedInv, LeftIs, Held,
         Doomed, Removing, Attempting, Early, After, TunnelInv, ClosesTunnelThen, Commands,
         RemoveCommands, SocketCalls, AttemptFails, Onwards
    <2> QED
      BY <2>1, <2>2, <2>3, <2>4, <2>5 DEF TInv
  <1>12. CASE ListEnds
    <2>1. FlagsOK'
      BY <1>0, <1>12 DEF ListEnds, FlagsOK
    <2>2. StatesOK'
      <3>1. at' \in Commands \cup SocketCalls \cup Places
        BY <1>0, <1>12 DEF ListEnds, TunnelInv, ClosesTunnelThen, Onwards, AttemptFails,
           Commands, RemoveCommands, SocketCalls, Places
      <3>2. phase' \in {"ready", "executed", "blocked", "returned", "unregistered", "done"}
        BY <1>0, <1>12 DEF ListEnds, StatesOK, ClosesTunnelThen, Onwards, AttemptFails
      <3>3. tunnel' \in {"off", "reverse", "forward"} /\ events' \subseteq {"connected", "failed"}
        BY <1>0, <1>12 DEF ListEnds, StatesOK
      <3>4. UNCHANGED <<call, target, main, opt>> /\ shut' \subseteq opt.wanted
        BY <1>0, <1>12 DEF ListEnds, StatesOK, SocketsInv
      <3> QED
        BY <1>0, <3>1, <3>2, <3>3, <3>4 DEF StatesOK
    <2>3. CountersOK'
      <3>1. port' \in Ports
        BY <1>0, <1>12, RangeAssumption DEF ListEnds, CountersOK, Ports
      <3>2. tries' \in 0 .. Attempts
        BY <1>0, <1>12, RangeAssumption DEF ListEnds, CountersOK
      <3>3. at' \in {"first", "byte", "pause", "nap"} => tries' >= 1
        BY <1>0, <1>12, RangeAssumption DEF ListEnds, CountersOK, TunnelInv, ClosesTunnelThen,
           AttemptFails, Onwards
      <3>4. left' = left
        BY <1>12 DEF ListEnds
      <3> QED
        BY <1>0, <3>1, <3>2, <3>3, <3>4 DEF CountersOK
    <2>4. EffectInv'
      BY <1>0, <1>12 DEF ListEnds, EffectInv, ClosesTunnelThen, Onwards, AttemptFails
    <2>5. RemovedInv'
      BY <1>0, <1>12 DEF ListEnds, EffectInv, StatesOK, RemovedInv, LeftIs, Held,
         Doomed, Removing, Attempting, Early, After, TunnelInv, ClosesTunnelThen, Commands,
         RemoveCommands, SocketCalls, AttemptFails, Onwards
    <2> QED
      BY <2>1, <2>2, <2>3, <2>4, <2>5 DEF TInv
  <1> QED
    BY <1>1, <1>2, <1>3, <1>4, <1>5, <1>6, <1>7, <1>8, <1>9, <1>10, <1>11, <1>12 DEF Choosing

\* The tunnel is opened and closed.
LEMMA TunnellingKeepsTypes ==
    ASSUME IInv, TInv, Tunnelling
    PROVE  TInv'
  <1> USE DEF intrVars, socketVars, processVars, mainVars, historyVars, Done, GoTo, Goes, Moves
  <1>0. /\ FlagsOK /\ StatesOK /\ CountersOK /\ EffectInv /\ RemovedInv /\ TunnelInv /\ SocketsInv
        /\ EventsInv
    BY DEF TInv, IInv
  <1>1. CASE ReverseMade
    <2>1. FlagsOK'
      BY <1>0, <1>1 DEF ReverseMade, FlagsOK
    <2>2. StatesOK'
      <3>1. at' \in Commands \cup SocketCalls \cup Places
        BY <1>0, <1>1 DEF ReverseMade, TunnelInv, ClosesTunnelThen, Onwards, AttemptFails,
           Commands, RemoveCommands, SocketCalls, Places
      <3>2. phase' \in {"ready", "executed", "blocked", "returned", "unregistered", "done"}
        BY <1>0, <1>1 DEF ReverseMade, StatesOK, ClosesTunnelThen, Onwards, AttemptFails
      <3>3. tunnel' \in {"off", "reverse", "forward"} /\ events' \subseteq {"connected", "failed"}
        BY <1>0, <1>1 DEF ReverseMade, StatesOK
      <3>4. UNCHANGED <<call, target, main, opt>> /\ shut' \subseteq opt.wanted
        BY <1>0, <1>1 DEF ReverseMade, StatesOK, SocketsInv
      <3> QED
        BY <1>0, <3>1, <3>2, <3>3, <3>4 DEF StatesOK
    <2>3. CountersOK'
      <3>1. port' \in Ports
        BY <1>0, <1>1, RangeAssumption DEF ReverseMade, CountersOK, Ports
      <3>2. tries' \in 0 .. Attempts
        BY <1>0, <1>1, RangeAssumption DEF ReverseMade, CountersOK
      <3>3. at' \in {"first", "byte", "pause", "nap"} => tries' >= 1
        BY <1>0, <1>1, RangeAssumption DEF ReverseMade, CountersOK, TunnelInv, ClosesTunnelThen,
           AttemptFails, Onwards
      <3>4. left' = left
        BY <1>1 DEF ReverseMade
      <3> QED
        BY <1>0, <3>1, <3>2, <3>3, <3>4 DEF CountersOK
    <2>4. EffectInv'
      BY <1>0, <1>1 DEF ReverseMade, EffectInv, ClosesTunnelThen, Onwards, AttemptFails
    <2>5. RemovedInv'
      BY <1>0, <1>1 DEF ReverseMade, EffectInv, StatesOK, RemovedInv, LeftIs, Held,
         Doomed, Removing, Attempting, Early, After, TunnelInv, ClosesTunnelThen, Commands,
         RemoveCommands, SocketCalls, AttemptFails, Onwards
    <2> QED
      BY <2>1, <2>2, <2>3, <2>4, <2>5 DEF TInv
  <1>2. CASE Listens
    <2>1. FlagsOK'
      BY <1>0, <1>2 DEF Listens, FlagsOK
    <2>2. StatesOK'
      <3>1. at' \in Commands \cup SocketCalls \cup Places
        BY <1>0, <1>2 DEF Listens, TunnelInv, ClosesTunnelThen, Onwards, AttemptFails,
           Commands, RemoveCommands, SocketCalls, Places
      <3>2. phase' \in {"ready", "executed", "blocked", "returned", "unregistered", "done"}
        BY <1>0, <1>2 DEF Listens, StatesOK, ClosesTunnelThen, Onwards, AttemptFails
      <3>3. tunnel' \in {"off", "reverse", "forward"} /\ events' \subseteq {"connected", "failed"}
        BY <1>0, <1>2 DEF Listens, StatesOK
      <3>4. UNCHANGED <<call, target, main, opt>> /\ shut' \subseteq opt.wanted
        BY <1>0, <1>2 DEF Listens, StatesOK, SocketsInv
      <3> QED
        BY <1>0, <3>1, <3>2, <3>3, <3>4 DEF StatesOK
    <2>3. CountersOK'
      <3>0. port \in Nat /\ port >= 1 /\ port <= LastPort /\ tries \in Nat /\ tries <= Attempts
            /\ LastPort \in Nat \ {0} /\ Attempts \in Nat \ {0}
        BY <1>0, RangeAssumption DEF CountersOK, Ports
      <3>1. port' \in Ports
        <4>1. port' = port \/ port' = 1 \/ (port < LastPort /\ port' = port + 1)
          BY <1>2 DEF Listens
        <4> QED
          BY <3>0, <4>1 DEF Ports
      <3>2. tries' \in 0 .. Attempts
        BY <1>0, <1>2, RangeAssumption DEF Listens, CountersOK
      <3>3. at' \in {"first", "byte", "pause", "nap"} => tries' >= 1
        BY <1>0, <1>2, RangeAssumption DEF Listens, CountersOK, TunnelInv, ClosesTunnelThen,
           AttemptFails, Onwards
      <3>4. left' = left
        BY <1>2 DEF Listens
      <3> QED
        BY <1>0, <3>1, <3>2, <3>3, <3>4 DEF CountersOK
    <2>4. EffectInv'
      BY <1>0, <1>2 DEF Listens, EffectInv, ClosesTunnelThen, Onwards, AttemptFails
    <2>5. RemovedInv'
      BY <1>0, <1>2 DEF Listens, EffectInv, StatesOK, RemovedInv, LeftIs, Held,
         Doomed, Removing, Attempting, Early, After, TunnelInv, ClosesTunnelThen, Commands,
         RemoveCommands, SocketCalls, AttemptFails, Onwards
    <2> QED
      BY <2>1, <2>2, <2>3, <2>4, <2>5 DEF TInv
  <1>3. CASE ReverseRetries
    <2>1. FlagsOK'
      BY <1>0, <1>3 DEF ReverseRetries, FlagsOK
    <2>2. StatesOK'
      <3>1. at' \in Commands \cup SocketCalls \cup Places
        BY <1>0, <1>3 DEF ReverseRetries, TunnelInv, ClosesTunnelThen, Onwards, AttemptFails,
           Commands, RemoveCommands, SocketCalls, Places
      <3>2. phase' \in {"ready", "executed", "blocked", "returned", "unregistered", "done"}
        BY <1>0, <1>3 DEF ReverseRetries, StatesOK, ClosesTunnelThen, Onwards, AttemptFails
      <3>3. tunnel' \in {"off", "reverse", "forward"} /\ events' \subseteq {"connected", "failed"}
        BY <1>0, <1>3 DEF ReverseRetries, StatesOK
      <3>4. UNCHANGED <<call, target, main, opt>> /\ shut' \subseteq opt.wanted
        BY <1>0, <1>3 DEF ReverseRetries, StatesOK, SocketsInv
      <3> QED
        BY <1>0, <3>1, <3>2, <3>3, <3>4 DEF StatesOK
    <2>3. CountersOK'
      <3>0. port \in Nat /\ port >= 1 /\ port <= LastPort /\ tries \in Nat /\ tries <= Attempts
            /\ LastPort \in Nat \ {0} /\ Attempts \in Nat \ {0}
        BY <1>0, RangeAssumption DEF CountersOK, Ports
      <3>1. port' \in Ports
        <4>1. port' = port \/ port' = 1 \/ (port < LastPort /\ port' = port + 1)
          BY <1>3 DEF ReverseRetries
        <4> QED
          BY <3>0, <4>1 DEF Ports
      <3>2. tries' \in 0 .. Attempts
        BY <1>0, <1>3, RangeAssumption DEF ReverseRetries, CountersOK
      <3>3. at' \in {"first", "byte", "pause", "nap"} => tries' >= 1
        BY <1>0, <1>3, RangeAssumption DEF ReverseRetries, CountersOK, TunnelInv, ClosesTunnelThen,
           AttemptFails, Onwards
      <3>4. left' = left
        BY <1>3 DEF ReverseRetries
      <3> QED
        BY <1>0, <3>1, <3>2, <3>3, <3>4 DEF CountersOK
    <2>4. EffectInv'
      BY <1>0, <1>3 DEF ReverseRetries, EffectInv, ClosesTunnelThen, Onwards, AttemptFails
    <2>5. RemovedInv'
      BY <1>0, <1>3 DEF ReverseRetries, EffectInv, StatesOK, RemovedInv, LeftIs, Held,
         Doomed, Removing, Attempting, Early, After, TunnelInv, ClosesTunnelThen, Commands,
         RemoveCommands, SocketCalls, AttemptFails, Onwards
    <2> QED
      BY <2>1, <2>2, <2>3, <2>4, <2>5 DEF TInv
  <1>4. CASE ForwardMade
    <2>1. FlagsOK'
      BY <1>0, <1>4 DEF ForwardMade, FlagsOK
    <2>2. StatesOK'
      <3>1. at' \in Commands \cup SocketCalls \cup Places
        BY <1>0, <1>4 DEF ForwardMade, TunnelInv, ClosesTunnelThen, Onwards, AttemptFails,
           Commands, RemoveCommands, SocketCalls, Places
      <3>2. phase' \in {"ready", "executed", "blocked", "returned", "unregistered", "done"}
        BY <1>0, <1>4 DEF ForwardMade, StatesOK, ClosesTunnelThen, Onwards, AttemptFails
      <3>3. tunnel' \in {"off", "reverse", "forward"} /\ events' \subseteq {"connected", "failed"}
        BY <1>0, <1>4 DEF ForwardMade, StatesOK
      <3>4. UNCHANGED <<call, target, main, opt>> /\ shut' \subseteq opt.wanted
        BY <1>0, <1>4 DEF ForwardMade, StatesOK, SocketsInv
      <3> QED
        BY <1>0, <3>1, <3>2, <3>3, <3>4 DEF StatesOK
    <2>3. CountersOK'
      <3>1. port' \in Ports
        BY <1>0, <1>4, RangeAssumption DEF ForwardMade, CountersOK, Ports
      <3>2. tries' \in 0 .. Attempts
        BY <1>0, <1>4, RangeAssumption DEF ForwardMade, CountersOK
      <3>3. at' \in {"first", "byte", "pause", "nap"} => tries' >= 1
        BY <1>0, <1>4, RangeAssumption DEF ForwardMade, CountersOK, TunnelInv, ClosesTunnelThen,
           AttemptFails, Onwards
      <3>4. left' = left
        BY <1>4 DEF ForwardMade
      <3> QED
        BY <1>0, <3>1, <3>2, <3>3, <3>4 DEF CountersOK
    <2>4. EffectInv'
      BY <1>0, <1>4 DEF ForwardMade, EffectInv, ClosesTunnelThen, Onwards, AttemptFails
    <2>5. RemovedInv'
      BY <1>0, <1>4 DEF ForwardMade, EffectInv, StatesOK, RemovedInv, LeftIs, Held,
         Doomed, Removing, Attempting, Early, After, TunnelInv, ClosesTunnelThen, Commands,
         RemoveCommands, SocketCalls, AttemptFails, Onwards
    <2> QED
      BY <2>1, <2>2, <2>3, <2>4, <2>5 DEF TInv
  <1>5. CASE TunnelClosed
    <2>1. FlagsOK'
      BY <1>0, <1>5 DEF TunnelClosed, FlagsOK
    <2>2. StatesOK'
      <3>1. at' \in Commands \cup SocketCalls \cup Places
        BY <1>0, <1>5 DEF TunnelClosed, TunnelInv, ClosesTunnelThen, Onwards, AttemptFails,
           Commands, RemoveCommands, SocketCalls, Places
      <3>2. phase' \in {"ready", "executed", "blocked", "returned", "unregistered", "done"}
        BY <1>0, <1>5 DEF TunnelClosed, StatesOK, ClosesTunnelThen, Onwards, AttemptFails
      <3>3. tunnel' \in {"off", "reverse", "forward"} /\ events' \subseteq {"connected", "failed"}
        BY <1>0, <1>5 DEF TunnelClosed, StatesOK
      <3>4. UNCHANGED <<call, target, main, opt>> /\ shut' \subseteq opt.wanted
        BY <1>0, <1>5 DEF TunnelClosed, StatesOK, SocketsInv
      <3> QED
        BY <1>0, <3>1, <3>2, <3>3, <3>4 DEF StatesOK
    <2>3. CountersOK'
      <3>1. port' \in Ports
        BY <1>0, <1>5, RangeAssumption DEF TunnelClosed, CountersOK, Ports
      <3>2. tries' \in 0 .. Attempts
        BY <1>0, <1>5, RangeAssumption DEF TunnelClosed, CountersOK
      <3>3. at' \in {"first", "byte", "pause", "nap"} => tries' >= 1
        BY <1>0, <1>5, RangeAssumption DEF TunnelClosed, CountersOK, TunnelInv, ClosesTunnelThen,
           AttemptFails, Onwards
      <3>4. left' = left
        BY <1>5 DEF TunnelClosed
      <3> QED
        BY <1>0, <3>1, <3>2, <3>3, <3>4 DEF CountersOK
    <2>4. EffectInv'
      BY <1>0, <1>5 DEF TunnelClosed, EffectInv, ClosesTunnelThen, Onwards, AttemptFails
    <2>5. RemovedInv'
      BY <1>0, <1>5 DEF TunnelClosed, EffectInv, StatesOK, RemovedInv, LeftIs, Held,
         Doomed, Removing, Attempting, Early, After, TunnelInv, ClosesTunnelThen, Commands,
         RemoveCommands, SocketCalls, AttemptFails, Onwards
    <2> QED
      BY <2>1, <2>2, <2>3, <2>4, <2>5 DEF TInv
  <1> QED
    BY <1>1, <1>2, <1>3, <1>4, <1>5 DEF Tunnelling

\* The server is executed and connected to.
LEMMA ConnectingKeepsTypes ==
    ASSUME IInv, TInv, Connecting
    PROVE  TInv'
  <1> USE DEF intrVars, socketVars, processVars, mainVars, historyVars, Done, GoTo, Goes, Moves
  <1>0. /\ FlagsOK /\ StatesOK /\ CountersOK /\ EffectInv /\ RemovedInv /\ TunnelInv /\ SocketsInv
        /\ EventsInv
    BY DEF TInv, IInv
  <1>1. CASE execute_server
    <2>1. FlagsOK'
      BY <1>0, <1>1 DEF execute_server, FlagsOK
    <2>2. StatesOK'
      <3>1. at' \in Commands \cup SocketCalls \cup Places
        BY <1>0, <1>1 DEF execute_server, TunnelInv, ClosesTunnelThen, Onwards, AttemptFails,
           Commands, RemoveCommands, SocketCalls, Places
      <3>2. phase' \in {"ready", "executed", "blocked", "returned", "unregistered", "done"}
        BY <1>0, <1>1 DEF execute_server, StatesOK, ClosesTunnelThen, Onwards, AttemptFails
      <3>3. tunnel' \in {"off", "reverse", "forward"} /\ events' \subseteq {"connected", "failed"}
        BY <1>0, <1>1 DEF execute_server, StatesOK
      <3>4. UNCHANGED <<call, target, main, opt>> /\ shut' \subseteq opt.wanted
        BY <1>0, <1>1 DEF execute_server, StatesOK, SocketsInv
      <3> QED
        BY <1>0, <3>1, <3>2, <3>3, <3>4 DEF StatesOK
    <2>3. CountersOK'
      <3>1. port' \in Ports
        BY <1>0, <1>1, RangeAssumption DEF execute_server, CountersOK, Ports
      <3>2. tries' \in 0 .. Attempts
        BY <1>0, <1>1, RangeAssumption DEF execute_server, CountersOK
      <3>3. at' \in {"first", "byte", "pause", "nap"} => tries' >= 1
        BY <1>0, <1>1, RangeAssumption DEF execute_server, CountersOK, TunnelInv, ClosesTunnelThen,
           AttemptFails, Onwards
      <3>4. left' = left
        BY <1>1 DEF execute_server
      <3> QED
        BY <1>0, <3>1, <3>2, <3>3, <3>4 DEF CountersOK
    <2>4. EffectInv'
      BY <1>0, <1>1 DEF execute_server, EffectInv, ClosesTunnelThen, Onwards, AttemptFails
    <2>5. RemovedInv'
      BY <1>0, <1>1 DEF execute_server, EffectInv, StatesOK, RemovedInv, LeftIs, Held,
         Doomed, Removing, Attempting, Early, After, TunnelInv, ClosesTunnelThen, Commands,
         RemoveCommands, SocketCalls, AttemptFails, Onwards
    <2> QED
      BY <2>1, <2>2, <2>3, <2>4, <2>5 DEF TInv
  <1>2. CASE sc_process_observer_init
    <2>1. FlagsOK'
      BY <1>0, <1>2 DEF sc_process_observer_init, FlagsOK
    <2>2. StatesOK'
      <3>1. at' \in Commands \cup SocketCalls \cup Places
        BY <1>0, <1>2 DEF sc_process_observer_init, TunnelInv, ClosesTunnelThen, Onwards, AttemptFails,
           Commands, RemoveCommands, SocketCalls, Places
      <3>2. phase' \in {"ready", "executed", "blocked", "returned", "unregistered", "done"}
        BY <1>0, <1>2 DEF sc_process_observer_init, StatesOK, ClosesTunnelThen, Onwards, AttemptFails
      <3>3. tunnel' \in {"off", "reverse", "forward"} /\ events' \subseteq {"connected", "failed"}
        BY <1>0, <1>2 DEF sc_process_observer_init, StatesOK
      <3>4. UNCHANGED <<call, target, main, opt>> /\ shut' \subseteq opt.wanted
        BY <1>0, <1>2 DEF sc_process_observer_init, StatesOK, SocketsInv
      <3> QED
        BY <1>0, <3>1, <3>2, <3>3, <3>4 DEF StatesOK
    <2>3. CountersOK'
      <3>1. port' \in Ports
        BY <1>0, <1>2, RangeAssumption DEF sc_process_observer_init, CountersOK, Ports
      <3>2. tries' \in 0 .. Attempts
        BY <1>0, <1>2, RangeAssumption DEF sc_process_observer_init, CountersOK
      <3>3. at' \in {"first", "byte", "pause", "nap"} => tries' >= 1
        BY <1>0, <1>2, RangeAssumption DEF sc_process_observer_init, CountersOK, TunnelInv, ClosesTunnelThen,
           AttemptFails, Onwards
      <3>4. left' = left
        BY <1>2 DEF sc_process_observer_init
      <3> QED
        BY <1>0, <3>1, <3>2, <3>3, <3>4 DEF CountersOK
    <2>4. EffectInv'
      BY <1>0, <1>2 DEF sc_process_observer_init, EffectInv, ClosesTunnelThen, Onwards, AttemptFails
    <2>5. RemovedInv'
      BY <1>0, <1>2 DEF sc_process_observer_init, EffectInv, StatesOK, RemovedInv, LeftIs, Held,
         Doomed, Removing, Attempting, Early, After, TunnelInv, ClosesTunnelThen, Commands,
         RemoveCommands, SocketCalls, AttemptFails, Onwards
    <2> QED
      BY <2>1, <2>2, <2>3, <2>4, <2>5 DEF TInv
  <1>3. CASE Unobserved
    <2>1. FlagsOK'
      BY <1>0, <1>3 DEF Unobserved, FlagsOK
    <2>2. StatesOK'
      <3>1. at' \in Commands \cup SocketCalls \cup Places
        BY <1>0, <1>3 DEF Unobserved, TunnelInv, ClosesTunnelThen, Onwards, AttemptFails,
           Commands, RemoveCommands, SocketCalls, Places
      <3>2. phase' \in {"ready", "executed", "blocked", "returned", "unregistered", "done"}
        BY <1>0, <1>3 DEF Unobserved, StatesOK, ClosesTunnelThen, Onwards, AttemptFails
      <3>3. tunnel' \in {"off", "reverse", "forward"} /\ events' \subseteq {"connected", "failed"}
        BY <1>0, <1>3 DEF Unobserved, StatesOK
      <3>4. UNCHANGED <<call, target, main, opt>> /\ shut' \subseteq opt.wanted
        BY <1>0, <1>3 DEF Unobserved, StatesOK, SocketsInv
      <3> QED
        BY <1>0, <3>1, <3>2, <3>3, <3>4 DEF StatesOK
    <2>3. CountersOK'
      <3>1. port' \in Ports
        BY <1>0, <1>3, RangeAssumption DEF Unobserved, CountersOK, Ports
      <3>2. tries' \in 0 .. Attempts
        BY <1>0, <1>3, RangeAssumption DEF Unobserved, CountersOK
      <3>3. at' \in {"first", "byte", "pause", "nap"} => tries' >= 1
        BY <1>0, <1>3, RangeAssumption DEF Unobserved, CountersOK, TunnelInv, ClosesTunnelThen,
           AttemptFails, Onwards
      <3>4. left' = left
        BY <1>3 DEF Unobserved
      <3> QED
        BY <1>0, <3>1, <3>2, <3>3, <3>4 DEF CountersOK
    <2>4. EffectInv'
      BY <1>0, <1>3 DEF Unobserved, EffectInv, ClosesTunnelThen, Onwards, AttemptFails
    <2>5. RemovedInv'
      BY <1>0, <1>3 DEF Unobserved, EffectInv, StatesOK, RemovedInv, LeftIs, Held,
         Doomed, Removing, Attempting, Early, After, TunnelInv, ClosesTunnelThen, Commands,
         RemoveCommands, SocketCalls, AttemptFails, Onwards
    <2> QED
      BY <2>1, <2>2, <2>3, <2>4, <2>5 DEF TInv
  <1>4. CASE Accepted
    <2>1. FlagsOK'
      BY <1>0, <1>4 DEF Accepted, FlagsOK
    <2>2. StatesOK'
      <3>1. at' \in Commands \cup SocketCalls \cup Places
        BY <1>0, <1>4 DEF Accepted, TunnelInv, ClosesTunnelThen, Onwards, AttemptFails,
           Commands, RemoveCommands, SocketCalls, Places
      <3>2. phase' \in {"ready", "executed", "blocked", "returned", "unregistered", "done"}
        BY <1>0, <1>4 DEF Accepted, StatesOK, ClosesTunnelThen, Onwards, AttemptFails
      <3>3. tunnel' \in {"off", "reverse", "forward"} /\ events' \subseteq {"connected", "failed"}
        BY <1>0, <1>4 DEF Accepted, StatesOK
      <3>4. UNCHANGED <<call, target, main, opt>> /\ shut' \subseteq opt.wanted
        BY <1>0, <1>4 DEF Accepted, StatesOK, SocketsInv
      <3> QED
        BY <1>0, <3>1, <3>2, <3>3, <3>4 DEF StatesOK
    <2>3. CountersOK'
      <3>1. port' \in Ports
        BY <1>0, <1>4, RangeAssumption DEF Accepted, CountersOK, Ports
      <3>2. tries' \in 0 .. Attempts
        BY <1>0, <1>4, RangeAssumption DEF Accepted, CountersOK
      <3>3. at' \in {"first", "byte", "pause", "nap"} => tries' >= 1
        BY <1>0, <1>4, RangeAssumption DEF Accepted, CountersOK, TunnelInv, ClosesTunnelThen,
           AttemptFails, Onwards
      <3>4. left' = left
        BY <1>4 DEF Accepted
      <3> QED
        BY <1>0, <3>1, <3>2, <3>3, <3>4 DEF CountersOK
    <2>4. EffectInv'
      BY <1>0, <1>4 DEF Accepted, EffectInv, ClosesTunnelThen, Onwards, AttemptFails
    <2>5. RemovedInv'
      BY <1>0, <1>4 DEF Accepted, EffectInv, StatesOK, RemovedInv, LeftIs, Held,
         Doomed, Removing, Attempting, Early, After, TunnelInv, ClosesTunnelThen, Commands,
         RemoveCommands, SocketCalls, AttemptFails, Onwards
    <2> QED
      BY <2>1, <2>2, <2>3, <2>4, <2>5 DEF TInv
  <1>5. CASE FirstConnected
    <2>1. FlagsOK'
      BY <1>0, <1>5 DEF FirstConnected, FlagsOK
    <2>2. StatesOK'
      <3>1. at' \in Commands \cup SocketCalls \cup Places
        BY <1>0, <1>5 DEF FirstConnected, TunnelInv, ClosesTunnelThen, Onwards, AttemptFails,
           Commands, RemoveCommands, SocketCalls, Places
      <3>2. phase' \in {"ready", "executed", "blocked", "returned", "unregistered", "done"}
        BY <1>0, <1>5 DEF FirstConnected, StatesOK, ClosesTunnelThen, Onwards, AttemptFails
      <3>3. tunnel' \in {"off", "reverse", "forward"} /\ events' \subseteq {"connected", "failed"}
        BY <1>0, <1>5 DEF FirstConnected, StatesOK
      <3>4. UNCHANGED <<call, target, main, opt>> /\ shut' \subseteq opt.wanted
        BY <1>0, <1>5 DEF FirstConnected, StatesOK, SocketsInv
      <3> QED
        BY <1>0, <3>1, <3>2, <3>3, <3>4 DEF StatesOK
    <2>3. CountersOK'
      <3>1. port' \in Ports
        BY <1>0, <1>5, RangeAssumption DEF FirstConnected, CountersOK, Ports
      <3>2. tries' \in 0 .. Attempts
        BY <1>0, <1>5, RangeAssumption DEF FirstConnected, CountersOK
      <3>3. at' \in {"first", "byte", "pause", "nap"} => tries' >= 1
        BY <1>0, <1>5, RangeAssumption DEF FirstConnected, CountersOK, TunnelInv, ClosesTunnelThen,
           AttemptFails, Onwards
      <3>4. left' = left
        BY <1>5 DEF FirstConnected
      <3> QED
        BY <1>0, <3>1, <3>2, <3>3, <3>4 DEF CountersOK
    <2>4. EffectInv'
      BY <1>0, <1>5 DEF FirstConnected, EffectInv, ClosesTunnelThen, Onwards, AttemptFails
    <2>5. RemovedInv'
      BY <1>0, <1>5 DEF FirstConnected, EffectInv, StatesOK, RemovedInv, LeftIs, Held,
         Doomed, Removing, Attempting, Early, After, TunnelInv, ClosesTunnelThen, Commands,
         RemoveCommands, SocketCalls, AttemptFails, Onwards
    <2> QED
      BY <2>1, <2>2, <2>3, <2>4, <2>5 DEF TInv
  <1>6. CASE ByteRead
    <2>1. FlagsOK'
      BY <1>0, <1>6 DEF ByteRead, FlagsOK
    <2>2. StatesOK'
      <3>1. at' \in Commands \cup SocketCalls \cup Places
        BY <1>0, <1>6 DEF ByteRead, TunnelInv, ClosesTunnelThen, Onwards, AttemptFails,
           Commands, RemoveCommands, SocketCalls, Places
      <3>2. phase' \in {"ready", "executed", "blocked", "returned", "unregistered", "done"}
        BY <1>0, <1>6 DEF ByteRead, StatesOK, ClosesTunnelThen, Onwards, AttemptFails
      <3>3. tunnel' \in {"off", "reverse", "forward"} /\ events' \subseteq {"connected", "failed"}
        BY <1>0, <1>6 DEF ByteRead, StatesOK
      <3>4. UNCHANGED <<call, target, main, opt>> /\ shut' \subseteq opt.wanted
        BY <1>0, <1>6 DEF ByteRead, StatesOK, SocketsInv
      <3> QED
        BY <1>0, <3>1, <3>2, <3>3, <3>4 DEF StatesOK
    <2>3. CountersOK'
      <3>1. port' \in Ports
        BY <1>0, <1>6, RangeAssumption DEF ByteRead, CountersOK, Ports
      <3>2. tries' \in 0 .. Attempts
        BY <1>0, <1>6, RangeAssumption DEF ByteRead, CountersOK
      <3>3. at' \in {"first", "byte", "pause", "nap"} => tries' >= 1
        BY <1>0, <1>6, RangeAssumption DEF ByteRead, CountersOK, TunnelInv, ClosesTunnelThen,
           AttemptFails, Onwards
      <3>4. left' = left
        BY <1>6 DEF ByteRead
      <3> QED
        BY <1>0, <3>1, <3>2, <3>3, <3>4 DEF CountersOK
    <2>4. EffectInv'
      BY <1>0, <1>6 DEF ByteRead, EffectInv, ClosesTunnelThen, Onwards, AttemptFails
    <2>5. RemovedInv'
      BY <1>0, <1>6 DEF ByteRead, EffectInv, StatesOK, RemovedInv, LeftIs, Held,
         Doomed, Removing, Attempting, Early, After, TunnelInv, ClosesTunnelThen, Commands,
         RemoveCommands, SocketCalls, AttemptFails, Onwards
    <2> QED
      BY <2>1, <2>2, <2>3, <2>4, <2>5 DEF TInv
  <1>7. CASE Pauses
    <2>1. FlagsOK'
      BY <1>0, <1>7 DEF Pauses, FlagsOK
    <2>2. StatesOK'
      <3>1. at' \in Commands \cup SocketCalls \cup Places
        BY <1>0, <1>7 DEF Pauses, TunnelInv, ClosesTunnelThen, Onwards, AttemptFails,
           Commands, RemoveCommands, SocketCalls, Places
      <3>2. phase' \in {"ready", "executed", "blocked", "returned", "unregistered", "done"}
        BY <1>0, <1>7 DEF Pauses, StatesOK, ClosesTunnelThen, Onwards, AttemptFails
      <3>3. tunnel' \in {"off", "reverse", "forward"} /\ events' \subseteq {"connected", "failed"}
        BY <1>0, <1>7 DEF Pauses, StatesOK
      <3>4. UNCHANGED <<call, target, main, opt>> /\ shut' \subseteq opt.wanted
        BY <1>0, <1>7 DEF Pauses, StatesOK, SocketsInv
      <3> QED
        BY <1>0, <3>1, <3>2, <3>3, <3>4 DEF StatesOK
    <2>3. CountersOK'
      <3>1. port' \in Ports
        BY <1>0, <1>7, RangeAssumption DEF Pauses, CountersOK, Ports
      <3>2. tries' \in 0 .. Attempts
        BY <1>0, <1>7, RangeAssumption DEF Pauses, CountersOK
      <3>3. at' \in {"first", "byte", "pause", "nap"} => tries' >= 1
        BY <1>0, <1>7, RangeAssumption DEF Pauses, CountersOK, TunnelInv, ClosesTunnelThen,
           AttemptFails, Onwards
      <3>4. left' = left
        BY <1>7 DEF Pauses
      <3> QED
        BY <1>0, <3>1, <3>2, <3>3, <3>4 DEF CountersOK
    <2>4. EffectInv'
      BY <1>0, <1>7 DEF Pauses, EffectInv, ClosesTunnelThen, Onwards, AttemptFails
    <2>5. RemovedInv'
      BY <1>0, <1>7 DEF Pauses, EffectInv, StatesOK, RemovedInv, LeftIs, Held,
         Doomed, Removing, Attempting, Early, After, TunnelInv, ClosesTunnelThen, Commands,
         RemoveCommands, SocketCalls, AttemptFails, Onwards
    <2> QED
      BY <2>1, <2>2, <2>3, <2>4, <2>5 DEF TInv
  <1>8. CASE NextConnected
    <2>1. FlagsOK'
      BY <1>0, <1>8 DEF NextConnected, FlagsOK
    <2>2. StatesOK'
      <3>1. at' \in Commands \cup SocketCalls \cup Places
        BY <1>0, <1>8 DEF NextConnected, TunnelInv, ClosesTunnelThen, Onwards, AttemptFails,
           Commands, RemoveCommands, SocketCalls, Places
      <3>2. phase' \in {"ready", "executed", "blocked", "returned", "unregistered", "done"}
        BY <1>0, <1>8 DEF NextConnected, StatesOK, ClosesTunnelThen, Onwards, AttemptFails
      <3>3. tunnel' \in {"off", "reverse", "forward"} /\ events' \subseteq {"connected", "failed"}
        BY <1>0, <1>8 DEF NextConnected, StatesOK
      <3>4. UNCHANGED <<call, target, main, opt>> /\ shut' \subseteq opt.wanted
        BY <1>0, <1>8 DEF NextConnected, StatesOK, SocketsInv
      <3> QED
        BY <1>0, <3>1, <3>2, <3>3, <3>4 DEF StatesOK
    <2>3. CountersOK'
      <3>1. port' \in Ports
        BY <1>0, <1>8, RangeAssumption DEF NextConnected, CountersOK, Ports
      <3>2. tries' \in 0 .. Attempts
        BY <1>0, <1>8, RangeAssumption DEF NextConnected, CountersOK
      <3>3. at' \in {"first", "byte", "pause", "nap"} => tries' >= 1
        BY <1>0, <1>8, RangeAssumption DEF NextConnected, CountersOK, TunnelInv, ClosesTunnelThen,
           AttemptFails, Onwards
      <3>4. left' = left
        BY <1>8 DEF NextConnected
      <3> QED
        BY <1>0, <3>1, <3>2, <3>3, <3>4 DEF CountersOK
    <2>4. EffectInv'
      BY <1>0, <1>8 DEF NextConnected, EffectInv, ClosesTunnelThen, Onwards, AttemptFails
    <2>5. RemovedInv'
      BY <1>0, <1>8 DEF NextConnected, EffectInv, StatesOK, RemovedInv, LeftIs, Held,
         Doomed, Removing, Attempting, Early, After, TunnelInv, ClosesTunnelThen, Commands,
         RemoveCommands, SocketCalls, AttemptFails, Onwards
    <2> QED
      BY <2>1, <2>2, <2>3, <2>4, <2>5 DEF TInv
  <1>9. CASE InfoRead
    <2>1. FlagsOK'
      BY <1>0, <1>9 DEF InfoRead, FlagsOK
    <2>2. StatesOK'
      <3>1. at' \in Commands \cup SocketCalls \cup Places
        BY <1>0, <1>9 DEF InfoRead, TunnelInv, ClosesTunnelThen, Onwards, AttemptFails,
           Commands, RemoveCommands, SocketCalls, Places
      <3>2. phase' \in {"ready", "executed", "blocked", "returned", "unregistered", "done"}
        BY <1>0, <1>9 DEF InfoRead, StatesOK, ClosesTunnelThen, Onwards, AttemptFails
      <3>3. tunnel' \in {"off", "reverse", "forward"} /\ events' \subseteq {"connected", "failed"}
        BY <1>0, <1>9 DEF InfoRead, StatesOK
      <3>4. UNCHANGED <<call, target, main, opt>> /\ shut' \subseteq opt.wanted
        BY <1>0, <1>9 DEF InfoRead, StatesOK, SocketsInv
      <3> QED
        BY <1>0, <3>1, <3>2, <3>3, <3>4 DEF StatesOK
    <2>3. CountersOK'
      <3>1. port' \in Ports
        BY <1>0, <1>9, RangeAssumption DEF InfoRead, CountersOK, Ports
      <3>2. tries' \in 0 .. Attempts
        BY <1>0, <1>9, RangeAssumption DEF InfoRead, CountersOK
      <3>3. at' \in {"first", "byte", "pause", "nap"} => tries' >= 1
        BY <1>0, <1>9, RangeAssumption DEF InfoRead, CountersOK, TunnelInv, ClosesTunnelThen,
           AttemptFails, Onwards
      <3>4. left' = left
        BY <1>9 DEF InfoRead
      <3> QED
        BY <1>0, <3>1, <3>2, <3>3, <3>4 DEF CountersOK
    <2>4. EffectInv'
      BY <1>0, <1>9 DEF InfoRead, EffectInv, ClosesTunnelThen, Onwards, AttemptFails
    <2>5. RemovedInv'
      BY <1>0, <1>9 DEF InfoRead, EffectInv, StatesOK, RemovedInv, LeftIs, Held,
         Doomed, Removing, Attempting, Early, After, TunnelInv, ClosesTunnelThen, Commands,
         RemoveCommands, SocketCalls, AttemptFails, Onwards
    <2> QED
      BY <2>1, <2>2, <2>3, <2>4, <2>5 DEF TInv
  <1>10. CASE ConnectFails
    <2>1. FlagsOK'
      BY <1>0, <1>10 DEF ConnectFails, FlagsOK
    <2>2. StatesOK'
      <3>1. at' \in Commands \cup SocketCalls \cup Places
        BY <1>0, <1>10 DEF ConnectFails, TunnelInv, ClosesTunnelThen, Onwards, AttemptFails,
           Commands, RemoveCommands, SocketCalls, Places
      <3>2. phase' \in {"ready", "executed", "blocked", "returned", "unregistered", "done"}
        BY <1>0, <1>10 DEF ConnectFails, StatesOK, ClosesTunnelThen, Onwards, AttemptFails
      <3>3. tunnel' \in {"off", "reverse", "forward"} /\ events' \subseteq {"connected", "failed"}
        BY <1>0, <1>10 DEF ConnectFails, StatesOK
      <3>4. UNCHANGED <<call, target, main, opt>> /\ shut' \subseteq opt.wanted
        BY <1>0, <1>10 DEF ConnectFails, StatesOK, SocketsInv
      <3> QED
        BY <1>0, <3>1, <3>2, <3>3, <3>4 DEF StatesOK
    <2>3. CountersOK'
      <3>1. port' \in Ports
        BY <1>0, <1>10, RangeAssumption DEF ConnectFails, CountersOK, Ports
      <3>2. tries' \in 0 .. Attempts
        BY <1>0, <1>10, RangeAssumption DEF ConnectFails, CountersOK
      <3>3. at' \in {"first", "byte", "pause", "nap"} => tries' >= 1
        BY <1>0, <1>10, RangeAssumption DEF ConnectFails, CountersOK, TunnelInv, ClosesTunnelThen,
           AttemptFails, Onwards
      <3>4. left' = left
        BY <1>10 DEF ConnectFails
      <3> QED
        BY <1>0, <3>1, <3>2, <3>3, <3>4 DEF CountersOK
    <2>4. EffectInv'
      BY <1>0, <1>10 DEF ConnectFails, EffectInv, ClosesTunnelThen, Onwards, AttemptFails
    <2>5. RemovedInv'
      BY <1>0, <1>10 DEF ConnectFails, EffectInv, StatesOK, RemovedInv, LeftIs, Held,
         Doomed, Removing, Attempting, Early, After, TunnelInv, ClosesTunnelThen, Commands,
         RemoveCommands, SocketCalls, AttemptFails, Onwards
    <2> QED
      BY <2>1, <2>2, <2>3, <2>4, <2>5 DEF TInv
  <1> QED
    BY <1>1, <1>2, <1>3, <1>4, <1>5, <1>6, <1>7, <1>8, <1>9, <1>10 DEF Connecting

\* The end of run_server().
LEMMA EndingKeepsTypes ==
    ASSUME IInv, TInv, Ending
    PROVE  TInv'
  <1> USE DEF intrVars, socketVars, processVars, mainVars, historyVars, Done, GoTo, Goes, Moves
  <1>0. /\ FlagsOK /\ StatesOK /\ CountersOK /\ EffectInv /\ RemovedInv /\ TunnelInv /\ SocketsInv
        /\ EventsInv
    BY DEF TInv, IInv
  <1>1. CASE Aborts
    <2>1. FlagsOK'
      BY <1>0, <1>1 DEF Aborts, FlagsOK
    <2>2. StatesOK'
      <3>1. at' \in Commands \cup SocketCalls \cup Places
        BY <1>0, <1>1 DEF Aborts, TunnelInv, ClosesTunnelThen, Onwards, AttemptFails,
           Commands, RemoveCommands, SocketCalls, Places
      <3>2. phase' \in {"ready", "executed", "blocked", "returned", "unregistered", "done"}
        BY <1>0, <1>1 DEF Aborts, StatesOK, ClosesTunnelThen, Onwards, AttemptFails
      <3>3. tunnel' \in {"off", "reverse", "forward"} /\ events' \subseteq {"connected", "failed"}
        BY <1>0, <1>1 DEF Aborts, StatesOK
      <3>4. UNCHANGED <<call, target, main, opt>> /\ shut' \subseteq opt.wanted
        BY <1>0, <1>1 DEF Aborts, StatesOK, SocketsInv
      <3> QED
        BY <1>0, <3>1, <3>2, <3>3, <3>4 DEF StatesOK
    <2>3. CountersOK'
      <3>1. port' \in Ports
        BY <1>0, <1>1, RangeAssumption DEF Aborts, CountersOK, Ports
      <3>2. tries' \in 0 .. Attempts
        BY <1>0, <1>1, RangeAssumption DEF Aborts, CountersOK
      <3>3. at' \in {"first", "byte", "pause", "nap"} => tries' >= 1
        BY <1>0, <1>1, RangeAssumption DEF Aborts, CountersOK, TunnelInv, ClosesTunnelThen,
           AttemptFails, Onwards
      <3>4. left' = left
        BY <1>1 DEF Aborts
      <3> QED
        BY <1>0, <3>1, <3>2, <3>3, <3>4 DEF CountersOK
    <2>4. EffectInv'
      BY <1>0, <1>1 DEF Aborts, EffectInv, ClosesTunnelThen, Onwards, AttemptFails
    <2>5. RemovedInv'
      BY <1>0, <1>1 DEF Aborts, EffectInv, StatesOK, RemovedInv, LeftIs, Held,
         Doomed, Removing, Attempting, Early, After, TunnelInv, ClosesTunnelThen, Commands,
         RemoveCommands, SocketCalls, AttemptFails, Onwards
    <2> QED
      BY <2>1, <2>2, <2>3, <2>4, <2>5 DEF TInv
  <1>2. CASE Reaps
    <2>1. FlagsOK'
      BY <1>0, <1>2 DEF Reaps, FlagsOK
    <2>2. StatesOK'
      <3>1. at' \in Commands \cup SocketCalls \cup Places
        BY <1>0, <1>2 DEF Reaps, TunnelInv, ClosesTunnelThen, Onwards, AttemptFails,
           Commands, RemoveCommands, SocketCalls, Places
      <3>2. phase' \in {"ready", "executed", "blocked", "returned", "unregistered", "done"}
        BY <1>0, <1>2 DEF Reaps, StatesOK, ClosesTunnelThen, Onwards, AttemptFails
      <3>3. tunnel' \in {"off", "reverse", "forward"} /\ events' \subseteq {"connected", "failed"}
        BY <1>0, <1>2 DEF Reaps, StatesOK
      <3>4. UNCHANGED <<call, target, main, opt>> /\ shut' \subseteq opt.wanted
        BY <1>0, <1>2 DEF Reaps, StatesOK, SocketsInv
      <3> QED
        BY <1>0, <3>1, <3>2, <3>3, <3>4 DEF StatesOK
    <2>3. CountersOK'
      <3>1. port' \in Ports
        BY <1>0, <1>2, RangeAssumption DEF Reaps, CountersOK, Ports
      <3>2. tries' \in 0 .. Attempts
        BY <1>0, <1>2, RangeAssumption DEF Reaps, CountersOK
      <3>3. at' \in {"first", "byte", "pause", "nap"} => tries' >= 1
        BY <1>0, <1>2, RangeAssumption DEF Reaps, CountersOK, TunnelInv, ClosesTunnelThen,
           AttemptFails, Onwards
      <3>4. left' = left
        BY <1>2 DEF Reaps
      <3> QED
        BY <1>0, <3>1, <3>2, <3>3, <3>4 DEF CountersOK
    <2>4. EffectInv'
      BY <1>0, <1>2 DEF Reaps, EffectInv, ClosesTunnelThen, Onwards, AttemptFails
    <2>5. RemovedInv'
      BY <1>0, <1>2 DEF Reaps, EffectInv, StatesOK, RemovedInv, LeftIs, Held,
         Doomed, Removing, Attempting, Early, After, TunnelInv, ClosesTunnelThen, Commands,
         RemoveCommands, SocketCalls, AttemptFails, Onwards
    <2> QED
      BY <2>1, <2>2, <2>3, <2>4, <2>5 DEF TInv
  <1>3. CASE AbortJoins
    <2>1. FlagsOK'
      BY <1>0, <1>3 DEF AbortJoins, FlagsOK
    <2>2. StatesOK'
      <3>1. at' \in Commands \cup SocketCalls \cup Places
        BY <1>0, <1>3 DEF AbortJoins, TunnelInv, ClosesTunnelThen, Onwards, AttemptFails,
           Commands, RemoveCommands, SocketCalls, Places
      <3>2. phase' \in {"ready", "executed", "blocked", "returned", "unregistered", "done"}
        BY <1>0, <1>3 DEF AbortJoins, StatesOK, ClosesTunnelThen, Onwards, AttemptFails
      <3>3. tunnel' \in {"off", "reverse", "forward"} /\ events' \subseteq {"connected", "failed"}
        BY <1>0, <1>3 DEF AbortJoins, StatesOK
      <3>4. UNCHANGED <<call, target, main, opt>> /\ shut' \subseteq opt.wanted
        BY <1>0, <1>3 DEF AbortJoins, StatesOK, SocketsInv
      <3> QED
        BY <1>0, <3>1, <3>2, <3>3, <3>4 DEF StatesOK
    <2>3. CountersOK'
      <3>1. port' \in Ports
        BY <1>0, <1>3, RangeAssumption DEF AbortJoins, CountersOK, Ports
      <3>2. tries' \in 0 .. Attempts
        BY <1>0, <1>3, RangeAssumption DEF AbortJoins, CountersOK
      <3>3. at' \in {"first", "byte", "pause", "nap"} => tries' >= 1
        BY <1>0, <1>3, RangeAssumption DEF AbortJoins, CountersOK, TunnelInv, ClosesTunnelThen,
           AttemptFails, Onwards
      <3>4. left' = left
        BY <1>3 DEF AbortJoins
      <3> QED
        BY <1>0, <3>1, <3>2, <3>3, <3>4 DEF CountersOK
    <2>4. EffectInv'
      BY <1>0, <1>3 DEF AbortJoins, EffectInv, ClosesTunnelThen, Onwards, AttemptFails
    <2>5. RemovedInv'
      BY <1>0, <1>3 DEF AbortJoins, EffectInv, StatesOK, RemovedInv, LeftIs, Held,
         Doomed, Removing, Attempting, Early, After, TunnelInv, ClosesTunnelThen, Commands,
         RemoveCommands, SocketCalls, AttemptFails, Onwards
    <2> QED
      BY <2>1, <2>2, <2>3, <2>4, <2>5 DEF TInv
  <1>4. CASE on_connected
    <2>1. FlagsOK'
      BY <1>0, <1>4 DEF on_connected, FlagsOK
    <2>2. StatesOK'
      <3>1. at' \in Commands \cup SocketCalls \cup Places
        BY <1>0, <1>4 DEF on_connected, TunnelInv, ClosesTunnelThen, Onwards, AttemptFails,
           Commands, RemoveCommands, SocketCalls, Places
      <3>2. phase' \in {"ready", "executed", "blocked", "returned", "unregistered", "done"}
        BY <1>0, <1>4 DEF on_connected, StatesOK, ClosesTunnelThen, Onwards, AttemptFails
      <3>3. tunnel' \in {"off", "reverse", "forward"} /\ events' \subseteq {"connected", "failed"}
        BY <1>0, <1>4 DEF on_connected, StatesOK
      <3>4. UNCHANGED <<call, target, main, opt>> /\ shut' \subseteq opt.wanted
        BY <1>0, <1>4 DEF on_connected, StatesOK, SocketsInv
      <3> QED
        BY <1>0, <3>1, <3>2, <3>3, <3>4 DEF StatesOK
    <2>3. CountersOK'
      <3>1. port' \in Ports
        BY <1>0, <1>4, RangeAssumption DEF on_connected, CountersOK, Ports
      <3>2. tries' \in 0 .. Attempts
        BY <1>0, <1>4, RangeAssumption DEF on_connected, CountersOK
      <3>3. at' \in {"first", "byte", "pause", "nap"} => tries' >= 1
        BY <1>0, <1>4, RangeAssumption DEF on_connected, CountersOK, TunnelInv, ClosesTunnelThen,
           AttemptFails, Onwards
      <3>4. left' = left
        BY <1>4 DEF on_connected
      <3> QED
        BY <1>0, <3>1, <3>2, <3>3, <3>4 DEF CountersOK
    <2>4. EffectInv'
      BY <1>0, <1>4 DEF on_connected, EffectInv, ClosesTunnelThen, Onwards, AttemptFails
    <2>5. RemovedInv'
      BY <1>0, <1>4 DEF on_connected, EffectInv, StatesOK, RemovedInv, LeftIs, Held,
         Doomed, Removing, Attempting, Early, After, TunnelInv, ClosesTunnelThen, Commands,
         RemoveCommands, SocketCalls, AttemptFails, Onwards
    <2> QED
      BY <2>1, <2>2, <2>3, <2>4, <2>5 DEF TInv
  <1>5. CASE WaitEnds
    <2>1. FlagsOK'
      BY <1>0, <1>5 DEF WaitEnds, FlagsOK
    <2>2. StatesOK'
      <3>1. at' \in Commands \cup SocketCalls \cup Places
        BY <1>0, <1>5 DEF WaitEnds, TunnelInv, ClosesTunnelThen, Onwards, AttemptFails,
           Commands, RemoveCommands, SocketCalls, Places
      <3>2. phase' \in {"ready", "executed", "blocked", "returned", "unregistered", "done"}
        BY <1>0, <1>5 DEF WaitEnds, StatesOK, ClosesTunnelThen, Onwards, AttemptFails
      <3>3. tunnel' \in {"off", "reverse", "forward"} /\ events' \subseteq {"connected", "failed"}
        BY <1>0, <1>5 DEF WaitEnds, StatesOK
      <3>4. UNCHANGED <<call, target, main, opt>> /\ shut' \subseteq opt.wanted
        BY <1>0, <1>5 DEF WaitEnds, StatesOK, SocketsInv
      <3> QED
        BY <1>0, <3>1, <3>2, <3>3, <3>4 DEF StatesOK
    <2>3. CountersOK'
      <3>1. port' \in Ports
        BY <1>0, <1>5, RangeAssumption DEF WaitEnds, CountersOK, Ports
      <3>2. tries' \in 0 .. Attempts
        BY <1>0, <1>5, RangeAssumption DEF WaitEnds, CountersOK
      <3>3. at' \in {"first", "byte", "pause", "nap"} => tries' >= 1
        BY <1>0, <1>5, RangeAssumption DEF WaitEnds, CountersOK, TunnelInv, ClosesTunnelThen,
           AttemptFails, Onwards
      <3>4. left' = left
        BY <1>5 DEF WaitEnds
      <3> QED
        BY <1>0, <3>1, <3>2, <3>3, <3>4 DEF CountersOK
    <2>4. EffectInv'
      BY <1>0, <1>5 DEF WaitEnds, EffectInv, ClosesTunnelThen, Onwards, AttemptFails
    <2>5. RemovedInv'
      BY <1>0, <1>5 DEF WaitEnds, EffectInv, StatesOK, RemovedInv, LeftIs, Held,
         Doomed, Removing, Attempting, Early, After, TunnelInv, ClosesTunnelThen, Commands,
         RemoveCommands, SocketCalls, AttemptFails, Onwards
    <2> QED
      BY <2>1, <2>2, <2>3, <2>4, <2>5 DEF TInv
  <1>6. CASE Interrupts
    <2>1. FlagsOK'
      BY <1>0, <1>6 DEF Interrupts, FlagsOK
    <2>2. StatesOK'
      <3>1. at' \in Commands \cup SocketCalls \cup Places
        BY <1>0, <1>6 DEF Interrupts, TunnelInv, ClosesTunnelThen, Onwards, AttemptFails,
           Commands, RemoveCommands, SocketCalls, Places
      <3>2. phase' \in {"ready", "executed", "blocked", "returned", "unregistered", "done"}
        BY <1>0, <1>6 DEF Interrupts, StatesOK, ClosesTunnelThen, Onwards, AttemptFails
      <3>3. tunnel' \in {"off", "reverse", "forward"} /\ events' \subseteq {"connected", "failed"}
        BY <1>0, <1>6 DEF Interrupts, StatesOK
      <3>4. UNCHANGED <<call, target, main, opt>> /\ shut' \subseteq opt.wanted
        BY <1>0, <1>6 DEF Interrupts, StatesOK, SocketsInv
      <3> QED
        BY <1>0, <3>1, <3>2, <3>3, <3>4 DEF StatesOK
    <2>3. CountersOK'
      <3>1. port' \in Ports
        BY <1>0, <1>6, RangeAssumption DEF Interrupts, CountersOK, Ports
      <3>2. tries' \in 0 .. Attempts
        BY <1>0, <1>6, RangeAssumption DEF Interrupts, CountersOK
      <3>3. at' \in {"first", "byte", "pause", "nap"} => tries' >= 1
        BY <1>0, <1>6, RangeAssumption DEF Interrupts, CountersOK, TunnelInv, ClosesTunnelThen,
           AttemptFails, Onwards
      <3>4. left' = left
        BY <1>6 DEF Interrupts
      <3> QED
        BY <1>0, <3>1, <3>2, <3>3, <3>4 DEF CountersOK
    <2>4. EffectInv'
      BY <1>0, <1>6 DEF Interrupts, EffectInv, ClosesTunnelThen, Onwards, AttemptFails
    <2>5. RemovedInv'
      BY <1>0, <1>6 DEF Interrupts, EffectInv, StatesOK, RemovedInv, LeftIs, Held,
         Doomed, Removing, Attempting, Early, After, TunnelInv, ClosesTunnelThen, Commands,
         RemoveCommands, SocketCalls, AttemptFails, Onwards
    <2> QED
      BY <2>1, <2>2, <2>3, <2>4, <2>5 DEF TInv
  <1>7. CASE Watchdog
    <2>1. FlagsOK'
      BY <1>0, <1>7 DEF Watchdog, FlagsOK
    <2>2. StatesOK'
      <3>1. at' \in Commands \cup SocketCalls \cup Places
        BY <1>0, <1>7 DEF Watchdog, TunnelInv, ClosesTunnelThen, Onwards, AttemptFails,
           Commands, RemoveCommands, SocketCalls, Places
      <3>2. phase' \in {"ready", "executed", "blocked", "returned", "unregistered", "done"}
        BY <1>0, <1>7 DEF Watchdog, StatesOK, ClosesTunnelThen, Onwards, AttemptFails
      <3>3. tunnel' \in {"off", "reverse", "forward"} /\ events' \subseteq {"connected", "failed"}
        BY <1>0, <1>7 DEF Watchdog, StatesOK
      <3>4. UNCHANGED <<call, target, main, opt>> /\ shut' \subseteq opt.wanted
        BY <1>0, <1>7 DEF Watchdog, StatesOK, SocketsInv
      <3> QED
        BY <1>0, <3>1, <3>2, <3>3, <3>4 DEF StatesOK
    <2>3. CountersOK'
      <3>1. port' \in Ports
        BY <1>0, <1>7, RangeAssumption DEF Watchdog, CountersOK, Ports
      <3>2. tries' \in 0 .. Attempts
        BY <1>0, <1>7, RangeAssumption DEF Watchdog, CountersOK
      <3>3. at' \in {"first", "byte", "pause", "nap"} => tries' >= 1
        BY <1>0, <1>7, RangeAssumption DEF Watchdog, CountersOK, TunnelInv, ClosesTunnelThen,
           AttemptFails, Onwards
      <3>4. left' = left
        BY <1>7 DEF Watchdog
      <3> QED
        BY <1>0, <3>1, <3>2, <3>3, <3>4 DEF CountersOK
    <2>4. EffectInv'
      BY <1>0, <1>7 DEF Watchdog, EffectInv, ClosesTunnelThen, Onwards, AttemptFails
    <2>5. RemovedInv'
      BY <1>0, <1>7 DEF Watchdog, EffectInv, StatesOK, RemovedInv, LeftIs, Held,
         Doomed, Removing, Attempting, Early, After, TunnelInv, ClosesTunnelThen, Commands,
         RemoveCommands, SocketCalls, AttemptFails, Onwards
    <2> QED
      BY <2>1, <2>2, <2>3, <2>4, <2>5 DEF TInv
  <1>8. CASE ObserverJoined
    <2>1. FlagsOK'
      BY <1>0, <1>8 DEF ObserverJoined, FlagsOK
    <2>2. StatesOK'
      <3>1. at' \in Commands \cup SocketCalls \cup Places
        BY <1>0, <1>8 DEF ObserverJoined, TunnelInv, ClosesTunnelThen, Onwards, AttemptFails,
           Commands, RemoveCommands, SocketCalls, Places
      <3>2. phase' \in {"ready", "executed", "blocked", "returned", "unregistered", "done"}
        BY <1>0, <1>8 DEF ObserverJoined, StatesOK, ClosesTunnelThen, Onwards, AttemptFails
      <3>3. tunnel' \in {"off", "reverse", "forward"} /\ events' \subseteq {"connected", "failed"}
        BY <1>0, <1>8 DEF ObserverJoined, StatesOK
      <3>4. UNCHANGED <<call, target, main, opt>> /\ shut' \subseteq opt.wanted
        BY <1>0, <1>8 DEF ObserverJoined, StatesOK, SocketsInv
      <3> QED
        BY <1>0, <3>1, <3>2, <3>3, <3>4 DEF StatesOK
    <2>3. CountersOK'
      <3>1. port' \in Ports
        BY <1>0, <1>8, RangeAssumption DEF ObserverJoined, CountersOK, Ports
      <3>2. tries' \in 0 .. Attempts
        BY <1>0, <1>8, RangeAssumption DEF ObserverJoined, CountersOK
      <3>3. at' \in {"first", "byte", "pause", "nap"} => tries' >= 1
        BY <1>0, <1>8, RangeAssumption DEF ObserverJoined, CountersOK, TunnelInv, ClosesTunnelThen,
           AttemptFails, Onwards
      <3>4. left' = left
        BY <1>8 DEF ObserverJoined
      <3> QED
        BY <1>0, <3>1, <3>2, <3>3, <3>4 DEF CountersOK
    <2>4. EffectInv'
      BY <1>0, <1>8 DEF ObserverJoined, EffectInv, ClosesTunnelThen, Onwards, AttemptFails
    <2>5. RemovedInv'
      BY <1>0, <1>8 DEF ObserverJoined, EffectInv, StatesOK, RemovedInv, LeftIs, Held,
         Doomed, Removing, Attempting, Early, After, TunnelInv, ClosesTunnelThen, Commands,
         RemoveCommands, SocketCalls, AttemptFails, Onwards
    <2> QED
      BY <2>1, <2>2, <2>3, <2>4, <2>5 DEF TInv
  <1>9. CASE ServerClosed
    <2>1. FlagsOK'
      BY <1>0, <1>9 DEF ServerClosed, FlagsOK
    <2>2. StatesOK'
      <3>1. at' \in Commands \cup SocketCalls \cup Places
        BY <1>0, <1>9 DEF ServerClosed, TunnelInv, ClosesTunnelThen, Onwards, AttemptFails,
           Commands, RemoveCommands, SocketCalls, Places
      <3>2. phase' \in {"ready", "executed", "blocked", "returned", "unregistered", "done"}
        BY <1>0, <1>9 DEF ServerClosed, StatesOK, ClosesTunnelThen, Onwards, AttemptFails
      <3>3. tunnel' \in {"off", "reverse", "forward"} /\ events' \subseteq {"connected", "failed"}
        BY <1>0, <1>9 DEF ServerClosed, StatesOK
      <3>4. UNCHANGED <<call, target, main, opt>> /\ shut' \subseteq opt.wanted
        BY <1>0, <1>9 DEF ServerClosed, StatesOK, SocketsInv
      <3> QED
        BY <1>0, <3>1, <3>2, <3>3, <3>4 DEF StatesOK
    <2>3. CountersOK'
      <3>1. port' \in Ports
        BY <1>0, <1>9, RangeAssumption DEF ServerClosed, CountersOK, Ports
      <3>2. tries' \in 0 .. Attempts
        BY <1>0, <1>9, RangeAssumption DEF ServerClosed, CountersOK
      <3>3. at' \in {"first", "byte", "pause", "nap"} => tries' >= 1
        BY <1>0, <1>9, RangeAssumption DEF ServerClosed, CountersOK, TunnelInv, ClosesTunnelThen,
           AttemptFails, Onwards
      <3>4. left' = left
        BY <1>9 DEF ServerClosed
      <3> QED
        BY <1>0, <3>1, <3>2, <3>3, <3>4 DEF CountersOK
    <2>4. EffectInv'
      BY <1>0, <1>9 DEF ServerClosed, EffectInv, ClosesTunnelThen, Onwards, AttemptFails
    <2>5. RemovedInv'
      BY <1>0, <1>9 DEF ServerClosed, EffectInv, StatesOK, RemovedInv, LeftIs, Held,
         Doomed, Removing, Attempting, Early, After, TunnelInv, ClosesTunnelThen, Commands,
         RemoveCommands, SocketCalls, AttemptFails, Onwards
    <2> QED
      BY <2>1, <2>2, <2>3, <2>4, <2>5 DEF TInv
  <1>10. CASE Failed
    <2>1. FlagsOK'
      BY <1>0, <1>10 DEF Failed, FlagsOK
    <2>2. StatesOK'
      <3>1. at' \in Commands \cup SocketCalls \cup Places
        BY <1>0, <1>10 DEF Failed, TunnelInv, ClosesTunnelThen, Onwards, AttemptFails,
           Commands, RemoveCommands, SocketCalls, Places
      <3>2. phase' \in {"ready", "executed", "blocked", "returned", "unregistered", "done"}
        BY <1>0, <1>10 DEF Failed, StatesOK, ClosesTunnelThen, Onwards, AttemptFails
      <3>3. tunnel' \in {"off", "reverse", "forward"} /\ events' \subseteq {"connected", "failed"}
        BY <1>0, <1>10 DEF Failed, StatesOK
      <3>4. UNCHANGED <<call, target, main, opt>> /\ shut' \subseteq opt.wanted
        BY <1>0, <1>10 DEF Failed, StatesOK, SocketsInv
      <3> QED
        BY <1>0, <3>1, <3>2, <3>3, <3>4 DEF StatesOK
    <2>3. CountersOK'
      <3>1. port' \in Ports
        BY <1>0, <1>10, RangeAssumption DEF Failed, CountersOK, Ports
      <3>2. tries' \in 0 .. Attempts
        BY <1>0, <1>10, RangeAssumption DEF Failed, CountersOK
      <3>3. at' \in {"first", "byte", "pause", "nap"} => tries' >= 1
        BY <1>0, <1>10, RangeAssumption DEF Failed, CountersOK, TunnelInv, ClosesTunnelThen,
           AttemptFails, Onwards
      <3>4. left' = left
        BY <1>10 DEF Failed
      <3> QED
        BY <1>0, <3>1, <3>2, <3>3, <3>4 DEF CountersOK
    <2>4. EffectInv'
      BY <1>0, <1>10 DEF Failed, EffectInv, ClosesTunnelThen, Onwards, AttemptFails
    <2>5. RemovedInv'
      BY <1>0, <1>10 DEF Failed, EffectInv, StatesOK, RemovedInv, LeftIs, Held,
         Doomed, Removing, Attempting, Early, After, TunnelInv, ClosesTunnelThen, Commands,
         RemoveCommands, SocketCalls, AttemptFails, Onwards
    <2> QED
      BY <2>1, <2>2, <2>3, <2>4, <2>5 DEF TInv
  <1>11. CASE AdbKilled
    <2>1. FlagsOK'
      BY <1>0, <1>11 DEF AdbKilled, FlagsOK
    <2>2. StatesOK'
      <3>1. at' \in Commands \cup SocketCalls \cup Places
        BY <1>0, <1>11 DEF AdbKilled, TunnelInv, ClosesTunnelThen, Onwards, AttemptFails,
           Commands, RemoveCommands, SocketCalls, Places
      <3>2. phase' \in {"ready", "executed", "blocked", "returned", "unregistered", "done"}
        BY <1>0, <1>11 DEF AdbKilled, StatesOK, ClosesTunnelThen, Onwards, AttemptFails
      <3>3. tunnel' \in {"off", "reverse", "forward"} /\ events' \subseteq {"connected", "failed"}
        BY <1>0, <1>11 DEF AdbKilled, StatesOK
      <3>4. UNCHANGED <<call, target, main, opt>> /\ shut' \subseteq opt.wanted
        BY <1>0, <1>11 DEF AdbKilled, StatesOK, SocketsInv
      <3> QED
        BY <1>0, <3>1, <3>2, <3>3, <3>4 DEF StatesOK
    <2>3. CountersOK'
      <3>1. port' \in Ports
        BY <1>0, <1>11, RangeAssumption DEF AdbKilled, CountersOK, Ports
      <3>2. tries' \in 0 .. Attempts
        BY <1>0, <1>11, RangeAssumption DEF AdbKilled, CountersOK
      <3>3. at' \in {"first", "byte", "pause", "nap"} => tries' >= 1
        BY <1>0, <1>11, RangeAssumption DEF AdbKilled, CountersOK, TunnelInv, ClosesTunnelThen,
           AttemptFails, Onwards
      <3>4. left' = left
        BY <1>11 DEF AdbKilled
      <3> QED
        BY <1>0, <3>1, <3>2, <3>3, <3>4 DEF CountersOK
    <2>4. EffectInv'
      BY <1>0, <1>11 DEF AdbKilled, EffectInv, ClosesTunnelThen, Onwards, AttemptFails
    <2>5. RemovedInv'
      BY <1>0, <1>11 DEF AdbKilled, EffectInv, StatesOK, RemovedInv, LeftIs, Held,
         Doomed, Removing, Attempting, Early, After, TunnelInv, ClosesTunnelThen, Commands,
         RemoveCommands, SocketCalls, AttemptFails, Onwards
    <2> QED
      BY <2>1, <2>2, <2>3, <2>4, <2>5 DEF TInv
  <1> QED
    BY <1>1, <1>2, <1>3, <1>4, <1>5, <1>6, <1>7, <1>8, <1>9, <1>10, <1>11 DEF Ending

\* A blocking call: a command has its effect on the tunnels when it is started,
\* and returns what it did unless it was interrupted.
LEMMA CallKeepsTypes ==
    ASSUME IInv, TInv, BlockingCall \/ Returns
    PROVE  TInv'
  <1> USE DEF intrVars, socketVars, processVars, mainVars, historyVars
  <1>0. /\ FlagsOK /\ StatesOK /\ CountersOK /\ EffectInv /\ RemovedInv /\ TunnelInv /\ SlotIsExact
        /\ InterruptionReaches
    BY DEF TInv, IInv
  <1>1. CASE Executes
    <2>0. at \in Commands /\ phase = "ready"
      BY <1>1 DEF Executes
    <2>1. FlagsOK'
      BY <1>0, <1>1 DEF Executes, FlagsOK
    <2>2. StatesOK'
      BY <1>0, <1>1 DEF Executes, StatesOK
    <2>3. left' = IF took' THEN Tunnels ELSE left
      BY <1>1 DEF Executes
    <2>4. CountersOK'
      <3>1. port \in Ports /\ tries \in 0 .. Attempts /\ left \subseteq {"reverse", "forward"} \X Ports
        BY <1>0 DEF CountersOK
      <3>2. at \notin {"first", "byte", "pause", "nap"}
        BY <2>0 DEF Commands, RemoveCommands
      <3>3. UNCHANGED <<port, tries, at>>
        BY <1>1 DEF Executes
      <3>4. Tunnels \subseteq left \cup {<<"reverse", port>>, <<"forward", port>>}
        BY TunnelsAre DEF RemoveCommands
      <3>5. left' \subseteq {"reverse", "forward"} \X Ports
        BY <2>3, <3>1, <3>4
      <3> QED
        BY <3>1, <3>2, <3>3, <3>5 DEF CountersOK
    <2>5. EffectInv'
      BY <1>0, <1>1 DEF Executes, EffectInv, FlagsOK
    <2>6. RemovedInv'
      <3>1. UNCHANGED <<at, port, tunnel, then, events, interrupted>> /\ phase' # "ready"
        BY <1>1 DEF Executes
      <3>2. took' \in BOOLEAN /\ kept' = (kept \/ (~took' /\ at \in RemoveCommands))
        BY <1>1 DEF Executes
      <3>3. at \in Early => left' = {}
        BY <1>0, <2>0, <2>3, TunnelsAre DEF Early, RemovedInv, RemoveCommands
      <3>4. "connected" \in events => at \in After /\ (kept' \/ left' = {})
        BY <1>0, <2>0, <2>3, <3>2, TunnelsAre DEF After, RemovedInv, RemoveCommands
      <3>5. at = "forward --remove" => tunnel = "forward"
        BY <1>0 DEF RemovedInv
      <3>6. at = "reverse --remove" => tunnel # "forward"
        BY <1>0 DEF RemovedInv
      <3>7. Doomed => Doomed'
        BY <2>0, <3>1 DEF Doomed, Commands, RemoveCommands, SocketCalls
      <3>8. ASSUME ~kept', ~Doomed
            PROVE  LeftIs'
        <4>1. LeftIs /\ ~kept /\ (at \in RemoveCommands => took')
          BY <1>0, <3>2, <3>8 DEF RemovedInv
        <4>2. at \in {"reverse", "forward"} => left' = IF took' THEN {<<at, port>>} ELSE {}
          BY <2>0, <2>3, <4>1, TunnelsAre DEF LeftIs
        <4>3. at \in RemoveCommands => left' = {}
          <5>1. CASE at = "retry --remove"
            <6>1. left = {<<"reverse", port>>}
              BY <2>0, <4>1, <5>1 DEF LeftIs
            <6>2. left' = {t \in left : t[1] # "reverse"}
              BY <2>3, <4>1, <5>1, TunnelsAre DEF RemoveCommands
            <6> QED
              BY <6>1, <6>2
          <5>2. CASE at = "reverse --remove"
            <6>1. left = Held
              BY <2>0, <4>1, <5>2 DEF LeftIs, Removing
            <6>2. left = {} \/ left = {<<"reverse", port>>}
              BY <1>0, <3>6, <5>2, <6>1 DEF Held, StatesOK
            <6>3. left' = {t \in left : t[1] # "reverse"}
              BY <2>3, <4>1, <5>2, TunnelsAre DEF RemoveCommands
            <6> QED
              BY <6>2, <6>3
          <5>3. CASE at = "forward --remove"
            <6>1. left = {<<"forward", port>>}
              BY <2>0, <3>5, <4>1, <5>3 DEF LeftIs, Removing, Held
            <6>2. left' = left \ {<<"forward", port>>}
              BY <2>3, <4>1, <5>3, TunnelsAre DEF RemoveCommands
            <6> QED
              BY <6>1, <6>2
          <5> QED
            BY <5>1, <5>2, <5>3 DEF RemoveCommands
        <4> QED
          BY <2>0, <3>1, <4>2, <4>3 DEF LeftIs, Removing, RemoveCommands, Attempting, Commands
      <3> QED
        BY <3>1, <3>3, <3>4, <3>5, <3>6, <3>7, <3>8, <1>0 DEF RemovedInv
    <2> QED
      BY <2>1, <2>2, <2>4, <2>5, <2>6 DEF TInv
  <1>2. ASSUME Registers \/ Returns \/ IsInterrupted \/ Unregisters \/ Closes
        PROVE  TInv'
    <2>0. /\ UNCHANGED <<opt, at, took, port, tries, interrupted, then, socketVars, mainVars, events,
                         historyVars>>
          /\ phase # "ready" \/ at \in SocketCalls
          /\ phase' # "ready"
      BY <1>2 DEF Registers, Returns, IsInterrupted, Unregisters, Closes, Commands, RemoveCommands,
                  SocketCalls
    <2>1. FlagsOK'
      BY <1>0, <1>2 DEF FlagsOK, Registers, Returns, IsInterrupted, Unregisters, Closes
    <2>2. StatesOK'
      BY <1>0, <1>2, ZenonT(40) DEF StatesOK, Registers, Returns, IsInterrupted, Unregisters, Closes
    <2>3. CountersOK'
      BY <1>0, <2>0 DEF CountersOK
    <2>4. EffectInv'
      <3> USE <1>0 DEF EffectInv, FlagsOK
      <3>1. CASE Registers
        BY <3>1 DEF Registers
      <3>2. CASE Returns
        BY <3>2 DEF Returns
      <3>3. CASE IsInterrupted
        BY <3>3 DEF IsInterrupted
      <3>4. CASE Unregisters
        BY <3>4 DEF Unregisters
      <3>5. CASE Closes
        BY <3>5 DEF Closes
      <3> QED
        BY <1>2, <3>1, <3>2, <3>3, <3>4, <3>5
    <2>5. Doomed => Doomed'
      <3>1. CASE Registers
        <4>1. interrupted => phase' = "done" /\ result' = FALSE
          BY <3>1 DEF Registers
        <4> QED
          BY <2>0, <4>1 DEF Doomed
      <3>2. CASE ~Registers
        BY <1>0, <1>2, <2>0, <3>2
           DEF Doomed, SlotIsExact, InterruptionReaches, Returns, IsInterrupted, Unregisters, Closes
      <3> QED
        BY <3>1, <3>2
    <2>6. LeftIs => LeftIs'
      BY <2>0 DEF LeftIs, Removing, Held, Attempting, SocketCalls
    <2>7. RemovedInv'
      BY <1>0, <2>0, <2>5, <2>6 DEF RemovedInv
    <2> QED
      BY <2>1, <2>2, <2>3, <2>4, <2>7 DEF TInv
  <1> QED
    BY <1>1, <1>2 DEF BlockingCall

\* The server process, its observer and the main thread: an interruption dooms
\* nothing by itself.
LEMMA OthersKeepTypes ==
    ASSUME IInv, TInv, ServerDies \/ Observer \/ AwaitEnds \/ LoopEnds \/ MainEnds
    PROVE  TInv'
  <1> USE DEF intrVars, socketVars, processVars, mainVars, historyVars, callVars
  <1>0. /\ FlagsOK /\ StatesOK /\ CountersOK /\ EffectInv /\ RemovedInv /\ SlotIsExact
    BY DEF TInv, IInv
  <1> DEFINE A == \/ ServerDies \/ Terminated \/ sc_server_on_terminated \/ AwaitEnds \/ LoopEnds
                  \/ sc_server_stop \/ UsersJoined \/ sc_server_join \/ sc_server_destroy
  <1>1. A
    BY DEF Observer, MainEnds
  <1> HIDE DEF A
  <1> USE DEF ServerDies, Terminated, sc_server_on_terminated, AwaitEnds, LoopEnds, sc_server_stop,
              UsersJoined, sc_server_join, sc_server_destroy, sc_intr_interrupt
  <1>2. UNCHANGED <<opt, at, phase, result, took, then, port, tries, tunnel, shut, events, left, kept>>
    BY <1>1 DEF A
  <1>3. FlagsOK'
    BY <1>0, <1>1 DEF A, FlagsOK
  <1>4. StatesOK'
    BY <1>0, <1>1, ZenonT(40) DEF A, StatesOK
  <1>5. CountersOK'
    BY <1>0, <1>2 DEF CountersOK
  <1>6. interrupted => interrupted'
    BY <1>1 DEF A
  <1>7. call' = "interrupted" => interrupted'
    BY <1>0, <1>1 DEF A, EffectInv
  <1>8. EffectInv'
    BY <1>0, <1>2, <1>6, <1>7 DEF EffectInv
  <1>9. LeftIs' = LeftIs /\ (Doomed => Doomed')
    BY <1>2, <1>6 DEF LeftIs, Removing, Held, Doomed
  <1>10. RemovedInv'
    BY <1>0, <1>2, <1>9 DEF RemovedInv
  <1> QED
    BY <1>3, <1>4, <1>5, <1>8, <1>10 DEF TInv

\* The types and the tunnels hold when sc_server_start() has created the thread.
LEMMA TypesInit ==
    ASSUME Init
    PROVE  TInv
  <1> USE DEF Init
  <1>1. FlagsOK /\ EffectInv
    BY DEF FlagsOK, EffectInv
  <1>2. StatesOK
    BY DEF StatesOK, Commands, RemoveCommands
  <1>3. CountersOK
    BY RangeAssumption DEF CountersOK, Ports
  <1>4. RemovedInv
    BY DEF RemovedInv, LeftIs, Removing, Attempting, Held, Early
  <1> QED
    BY <1>1, <1>2, <1>3, <1>4 DEF TInv

\* Every step keeps them.
LEMMA TypesStep ==
    ASSUME IInv, TInv, [Next]_vars
    PROVE  TInv'
  <1>1. CASE UNCHANGED vars
    <2> USE DEF vars, callVars, intrVars, socketVars, processVars, mainVars, historyVars
    <2>1. FlagsOK' /\ StatesOK' /\ CountersOK' /\ EffectInv'
      <3>1. FlagsOK'
        BY <1>1 DEF TInv, FlagsOK
      <3>2. StatesOK'
        BY <1>1, ZenonT(40) DEF TInv, StatesOK
      <3>3. CountersOK'
        BY <1>1 DEF TInv, CountersOK
      <3>4. EffectInv'
        BY <1>1 DEF TInv, EffectInv
      <3> QED
        BY <3>1, <3>2, <3>3, <3>4
    <2>2. LeftIs' = LeftIs /\ Doomed' = Doomed
      BY <1>1 DEF LeftIs, Removing, Held, Doomed
    <2>3. RemovedInv'
      BY <1>1, <2>2 DEF TInv, RemovedInv
    <2> QED
      BY <2>1, <2>3 DEF TInv
  <1>2. CASE BlockingCall \/ Returns
    BY <1>2, CallKeepsTypes
  <1>3. CASE Choosing
    BY <1>3, ChoosingKeepsTypes
  <1>4. CASE Tunnelling
    BY <1>4, TunnellingKeepsTypes
  <1>5. CASE Connecting
    BY <1>5, ConnectingKeepsTypes
  <1>6. CASE Ending
    BY <1>6, EndingKeepsTypes
  <1>7. CASE ServerDies \/ Observer \/ AwaitEnds \/ LoopEnds \/ MainEnds
    BY <1>7, OthersKeepTypes
  <1> QED
    BY <1>1, <1>2, <1>3, <1>4, <1>5, <1>6, <1>7 DEF Next, Thread

\* With what the other invariant says of the sockets and the processes, that is
\* what the run checks.
LEMMA TypesImplyRemoved ==
    ASSUME IInv, TInv
    PROVE  TunnelsAreRemoved
  <1>1. local \subseteq opt.wanted /\ fields \subseteq opt.wanted
        /\ open \subseteq opt.wanted \cup {"listening", "first"}
    BY DEF IInv, SocketsInv
  <1>2. TypeOK
    BY <1>1 DEF IInv, TInv, FlagsOK, StatesOK, CountersOK, TunnelInv, ProcessInv, TypeOK
  <1> QED
    BY <1>2 DEF TunnelsAreRemoved, TInv, RemovedInv

\* adb_tunnel.c: once the client is connected adb knows none of the tunnels that
\* were made, on whatever ports they were tried, unless it failed to remove one.
THEOREM NoTunnelStays == Spec => []TunnelsAreRemoved
  <1>1. Spec => []TInv
    BY TypesInit, TypesStep, Invariance, PTL DEF Spec
  <1> QED
    BY <1>1, Invariance, TypesImplyRemoved, PTL
=============================================================================
