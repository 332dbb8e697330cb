------------------------ MODULE MirrorSessionProofs ------------------------
(***************************************************************************)
(* Proofs about MirrorSession, for any number of coroutines and any        *)
(* reconnect budget.                                                       *)
(***************************************************************************)
EXTENDS MirrorSession, TLAPS

\* Who holds lifecycleMutex, and where in the code it can be.
LockInv ==
    /\ owner = None <=> step = "none"
    /\ step = "check" => owner \in Starts
    /\ step = "decide" => owner \in Stops
    /\ step = "react" => owner \in Reports
    /\ step \in TeardownSteps => cont # "none"
    /\ step \in {"none"} \cup EntrySteps => cont = "none"
    /\ step \in TeardownSteps /\ cont = "start" => owner \in Starts

\* Which resource fields are set at each point of a start and of a teardown.
ResInv ==
    /\ step \in {"none"} \cup EntrySteps => res = Null \/ Live
    /\ step \in {"open", "delay", "after"} => res = Null
    /\ step \in BuildSteps =>
          res["controlChannel"] = 0 /\ res["pump"] = 0 /\ res["decoder"] = 0
    /\ step \in BuildSteps \ {"open"} => res["transport"] = generation
    /\ step \in {"sockets", "surface"} => res["serverHandle"] = generation
    /\ step \in BuildSteps \ {"sockets", "surface"} => res["serverHandle"] = 0
    /\ step = "surface" => res["connection"] = generation
    /\ step \in BuildSteps \ {"surface"} => res["connection"] = 0
    /\ step \in {"close", "join", "process", "tunnel"} => res["controlChannel"] = 0
    /\ step \in {"join", "process", "tunnel"} => res["connection"] = 0
    /\ step \in {"process", "tunnel"} => res["pump"] = 0 /\ res["decoder"] = 0

\* A generation is at most the current one, and only a complete session that
\* nobody has begun to tear down carries the current one in its pump, its
\* decoder or a report about them.
Tag(g) ==
    /\ g <= generation
    /\ g = generation => Live /\ step \in {"none", "begin"} \cup EntrySteps

TagInv ==
    /\ \A g \in pumps : Tag(g)
    /\ \A r \in Reports : Tag(reported[r])
    /\ res["decoder"] # 0 => Tag(res["decoder"])

\* Where the state can be Streaming.
PhaseInv ==
    phase = "Streaming" =>
        /\ step \in {"none"} \cup EntrySteps => Live
        /\ step \notin BuildSteps \cup {"delay"}
        /\ step \in TeardownSteps => cont \in {"fail", "stop"}

\* The code's counter follows the history: they agree from the beginning of an
\* attempt to its end or until it is stable, and the counter is one ahead while
\* the next attempt is prepared.
BudgetInv ==
    /\ retries <= MaxReconnectAttempts
    /\ generation = 0 => activeTarget = None
    /\ streamed # "no" => step \in {"none", "begin"} \cup EntrySteps
    /\ step \in {"none"} \cup EntrySteps /\ res["pump"] # 0 => streamed # "no"
    /\ step \in BuildSteps => reconnectAttempt = retries
    /\ step \in {"none"} \cup EntrySteps /\ streamed = "briefly" => reconnectAttempt = retries
    /\ streamed = "stable" => retries = 0
    /\ step = "delay" \/ (step \in TeardownSteps /\ cont = "reconnect") =>
          reconnectAttempt = retries + 1 /\ reconnectAttempt <= MaxReconnectAttempts

IInv == TypeOK /\ LockInv /\ ResInv /\ TagInv /\ PhaseInv /\ BudgetInv

-----------------------------------------------------------------------------
(* Each action keeps the invariant; one lemma per action.  In all of them   *)
(* the Boolean flags and the wait queue are typed first, on their own.      *)

USE CoroutineAssumption, BudgetAssumption DEF Coroutines, attempts, session, resources, uiVars, jobs, lock,
    Fields, Null, Live, Phases, EntrySteps, BuildSteps, TeardownSteps, Steps, Continuations, Kinds

\* ConnectTarget() sets Connecting, outside the lock.
LEMMA ConnectBeginsKeeps ==
    ASSUME IInv, ConnectBegins
    PROVE  IInv'
<1>1. FlagsOK' BY DEF IInv, TypeOK, FlagsOK, ConnectBegins
<1>2. QueueOK' BY DEF IInv, TypeOK, QueueOK, ConnectBegins
<1>3. TypeOK' BY <1>1, <1>2 DEF IInv, TypeOK, LockInv, ConnectBegins
<1>4. LockInv' BY DEF IInv, TypeOK, LockInv, ConnectBegins
<1>7. BudgetInv' BY DEF IInv, TypeOK, LockInv, ResInv, BudgetInv, ConnectBegins
<1>5. ResInv' /\ PhaseInv' BY DEF IInv, TypeOK, LockInv, ResInv, PhaseInv, ConnectBegins
<1>6. TagInv' BY DEF IInv, TypeOK, LockInv, ResInv, TagInv, Tag, ConnectBegins
<1> QED BY <1>3, <1>4, <1>5, <1>6, <1>7 DEF IInv

\* ConnectTarget() sets Idle, outside the lock.
LEMMA ConnectSucceedsKeeps ==
    ASSUME IInv, ConnectSucceeds
    PROVE  IInv'
<1>1. FlagsOK' BY DEF IInv, TypeOK, FlagsOK, ConnectSucceeds
<1>2. QueueOK' BY DEF IInv, TypeOK, QueueOK, ConnectSucceeds
<1>3. TypeOK' BY <1>1, <1>2 DEF IInv, TypeOK, LockInv, ConnectSucceeds
<1>4. LockInv' BY DEF IInv, TypeOK, LockInv, ConnectSucceeds
<1>7. BudgetInv' BY DEF IInv, TypeOK, LockInv, ResInv, BudgetInv, ConnectSucceeds
<1>5. ResInv' /\ PhaseInv' BY DEF IInv, TypeOK, LockInv, ResInv, PhaseInv, ConnectSucceeds
<1>6. TagInv' BY DEF IInv, TypeOK, LockInv, ResInv, TagInv, Tag, ConnectSucceeds
<1> QED BY <1>3, <1>4, <1>5, <1>6, <1>7 DEF IInv

\* ConnectTarget() sets Failed, outside the lock.
LEMMA ConnectFailsKeeps ==
    ASSUME IInv, ConnectFails
    PROVE  IInv'
<1>1. FlagsOK' BY DEF IInv, TypeOK, FlagsOK, ConnectFails
<1>2. QueueOK' BY DEF IInv, TypeOK, QueueOK, ConnectFails
<1>3. TypeOK' BY <1>1, <1>2 DEF IInv, TypeOK, LockInv, ConnectFails
<1>4. LockInv' BY DEF IInv, TypeOK, LockInv, ConnectFails
<1>7. BudgetInv' BY DEF IInv, TypeOK, LockInv, ResInv, BudgetInv, ConnectFails
<1>5. ResInv' /\ PhaseInv' BY DEF IInv, TypeOK, LockInv, ResInv, PhaseInv, ConnectFails
<1>6. TagInv' BY DEF IInv, TypeOK, LockInv, ResInv, TagInv, Tag, ConnectFails
<1> QED BY <1>3, <1>4, <1>5, <1>6, <1>7 DEF IInv

\* ConnectTarget() is cancelled with its screen.
LEMMA ConnectAbandonedKeeps ==
    ASSUME IInv, ConnectAbandoned
    PROVE  IInv'
<1>1. FlagsOK' BY DEF IInv, TypeOK, FlagsOK, ConnectAbandoned
<1>2. QueueOK' BY DEF IInv, TypeOK, QueueOK, ConnectAbandoned
<1>3. TypeOK' BY <1>1, <1>2 DEF IInv, TypeOK, LockInv, ConnectAbandoned
<1>4. LockInv' BY DEF IInv, TypeOK, LockInv, ConnectAbandoned
<1>7. BudgetInv' BY DEF IInv, TypeOK, LockInv, ResInv, BudgetInv, ConnectAbandoned
<1>5. ResInv' /\ PhaseInv' BY DEF IInv, TypeOK, LockInv, ResInv, PhaseInv, ConnectAbandoned
<1>6. TagInv' BY DEF IInv, TypeOK, LockInv, ResInv, TagInv, Tag, ConnectAbandoned
<1> QED BY <1>3, <1>4, <1>5, <1>6, <1>7 DEF IInv

\* Start() stores the job it launched.
LEMMA StoreStartJobKeeps ==
    ASSUME IInv, StoreStartJob
    PROVE  IInv'
<1>1. FlagsOK' BY DEF IInv, TypeOK, FlagsOK, StoreStartJob
<1>2. QueueOK' BY DEF IInv, TypeOK, QueueOK, StoreStartJob
<1>3. TypeOK' BY <1>1, <1>2 DEF IInv, TypeOK, LockInv, StoreStartJob
<1>4. LockInv' BY DEF IInv, TypeOK, LockInv, StoreStartJob
<1>7. BudgetInv' BY DEF IInv, TypeOK, LockInv, ResInv, BudgetInv, StoreStartJob
<1>5. ResInv' /\ PhaseInv' BY DEF IInv, TypeOK, LockInv, ResInv, PhaseInv, StoreStartJob
<1>6. TagInv' BY DEF IInv, TypeOK, LockInv, ResInv, TagInv, Tag, StoreStartJob
<1> QED BY <1>3, <1>4, <1>5, <1>6, <1>7 DEF IInv

\* LifecycleMutex is handed to the next waiter.
LEMMA GrantKeeps ==
    ASSUME IInv, Grant
    PROVE  IInv'
<1>1. FlagsOK' BY DEF IInv, TypeOK, FlagsOK, Grant, Own, FirstStep
<1>2. QueueOK' BY DEF IInv, TypeOK, QueueOK, Grant, Own, FirstStep
<1>3. TypeOK'
  <2>1. Head(waitq) \in Coroutines BY DEF IInv, TypeOK, QueueOK, Grant
  <2>2. pc' \in [Coroutines -> {"idle", "launched", "captured", "joining", "waiting",
                                 "holding", "done"}]
    BY <2>1 DEF IInv, TypeOK, Grant, Own
  <2>3. owner' \in Coroutines \cup {None} /\ step' \in Steps /\ cont' \in Continuations
    BY <2>1 DEF IInv, TypeOK, LockInv, Grant, Own, FirstStep
  <2>4. UNCHANGED <<session, resources, uiVars, cancelled, jobToCancel, reported>>
    BY DEF Grant
  <2> QED BY <1>1, <1>2, <2>2, <2>3, <2>4 DEF IInv, TypeOK
<1>4. LockInv' BY DEF IInv, TypeOK, LockInv, QueueOK, Grant, Own,
    FirstStep
<1>7. BudgetInv' BY DEF IInv, TypeOK, LockInv, ResInv, BudgetInv, QueueOK, Grant, Own,
  FirstStep
<1>5. ResInv' /\ PhaseInv' BY DEF IInv, TypeOK, LockInv, ResInv, PhaseInv, QueueOK, Grant,
    Own, FirstStep
<1>6. TagInv' BY DEF IInv, TypeOK, LockInv, ResInv, TagInv, Tag, QueueOK, Grant, Own, FirstStep
<1> QED BY <1>3, <1>4, <1>5, <1>6, <1>7 DEF IInv

\* Start() finds a busy or streaming session.
LEMMA StartIgnoredKeeps ==
    ASSUME IInv, StartIgnored
    PROVE  IInv'
<1>1. FlagsOK' BY DEF IInv, TypeOK, FlagsOK, StartIgnored, Release, isBusy
<1>2. QueueOK' BY DEF IInv, TypeOK, QueueOK, StartIgnored, Release, isBusy
<1>3. TypeOK' BY <1>1, <1>2 DEF IInv, TypeOK, LockInv, StartIgnored, Release, isBusy
<1>4. LockInv' BY DEF IInv, TypeOK, LockInv, StartIgnored, Release,
    isBusy
<1>7. BudgetInv' BY DEF IInv, TypeOK, LockInv, ResInv, BudgetInv, StartIgnored, Release,
  isBusy
<1>5. ResInv' /\ PhaseInv' BY DEF IInv, TypeOK, LockInv, ResInv, PhaseInv, StartIgnored,
    Release, isBusy
<1>6. TagInv' BY DEF IInv, TypeOK, LockInv, ResInv, TagInv, Tag, StartIgnored, Release, isBusy
<1> QED BY <1>3, <1>4, <1>5, <1>6, <1>7 DEF IInv

\* Start() goes on to clean up after the last session.
LEMMA StartAcceptedKeeps ==
    ASSUME IInv, StartAccepted
    PROVE  IInv'
<1>1. FlagsOK' BY DEF IInv, TypeOK, FlagsOK, StartAccepted, TearDownThen, isBusy
<1>2. QueueOK' BY DEF IInv, TypeOK, QueueOK, StartAccepted, TearDownThen, isBusy
<1>3. TypeOK' BY <1>1, <1>2 DEF IInv, TypeOK, LockInv, StartAccepted, TearDownThen, isBusy
<1>4. LockInv' BY DEF IInv, TypeOK, LockInv, StartAccepted,
    TearDownThen, isBusy
<1>7. BudgetInv' BY DEF IInv, TypeOK, LockInv, ResInv, BudgetInv, StartAccepted,
  TearDownThen, isBusy
<1>5. ResInv' /\ PhaseInv' BY DEF IInv, TypeOK, LockInv, ResInv, PhaseInv, StartAccepted,
    TearDownThen, isBusy
<1>6. TagInv' BY DEF IInv, TypeOK, LockInv, ResInv, TagInv, Tag, StartAccepted, TearDownThen,
    isBusy
<1> QED BY <1>3, <1>4, <1>5, <1>6, <1>7 DEF IInv

\* StartLocked() opens the transport.
LEMMA OpenTransportKeeps ==
    ASSUME IInv, OpenTransport
    PROVE  IInv'
<1>1. FlagsOK' BY DEF IInv, TypeOK, FlagsOK, OpenTransport, GoTo, failLocked, Abort,
    TearDownThen
<1>2. QueueOK' BY DEF IInv, TypeOK, QueueOK, OpenTransport, GoTo, failLocked, Abort,
    TearDownThen
<1>3. TypeOK' BY <1>1, <1>2 DEF IInv, TypeOK, LockInv, OpenTransport, GoTo, failLocked, Abort,
    TearDownThen
<1>4. LockInv' BY DEF IInv, TypeOK, LockInv, OpenTransport, GoTo,
    failLocked, Abort, TearDownThen
<1>7. BudgetInv' BY DEF IInv, TypeOK, LockInv, ResInv, BudgetInv, OpenTransport, GoTo,
  failLocked, Abort, TearDownThen
<1>5. ResInv' /\ PhaseInv' BY DEF IInv, TypeOK, LockInv, ResInv, PhaseInv, OpenTransport,
    GoTo, failLocked, Abort, TearDownThen
<1>6. TagInv' BY DEF IInv, TypeOK, LockInv, ResInv, TagInv, Tag, OpenTransport, GoTo,
    failLocked, Abort, TearDownThen
<1> QED BY <1>3, <1>4, <1>5, <1>6, <1>7 DEF IInv

\* StartLocked() delivers the server.
LEMMA DeliverServerKeeps ==
    ASSUME IInv, DeliverServer
    PROVE  IInv'
<1>1. FlagsOK' BY DEF IInv, TypeOK, FlagsOK, DeliverServer, GoTo, failLocked, Abort,
    TearDownThen
<1>2. QueueOK' BY DEF IInv, TypeOK, QueueOK, DeliverServer, GoTo, failLocked, Abort,
    TearDownThen
<1>3. TypeOK' BY <1>1, <1>2 DEF IInv, TypeOK, LockInv, DeliverServer, GoTo, failLocked, Abort,
    TearDownThen
<1>4. LockInv' BY DEF IInv, TypeOK, LockInv, DeliverServer, GoTo,
    failLocked, Abort, TearDownThen
<1>7. BudgetInv' BY DEF IInv, TypeOK, LockInv, ResInv, BudgetInv, DeliverServer, GoTo,
  failLocked, Abort, TearDownThen
<1>5. ResInv' /\ PhaseInv' BY DEF IInv, TypeOK, LockInv, ResInv, PhaseInv, DeliverServer,
    GoTo, failLocked, Abort, TearDownThen
<1>6. TagInv' BY DEF IInv, TypeOK, LockInv, ResInv, TagInv, Tag, DeliverServer, GoTo,
    failLocked, Abort, TearDownThen
<1> QED BY <1>3, <1>4, <1>5, <1>6, <1>7 DEF IInv

\* Launch() opens the tunnel.
LEMMA OpenTunnelKeeps ==
    ASSUME IInv, OpenTunnel
    PROVE  IInv'
<1>1. FlagsOK' BY DEF IInv, TypeOK, FlagsOK, OpenTunnel, GoTo, failLocked, Abort, TearDownThen
<1>2. QueueOK' BY DEF IInv, TypeOK, QueueOK, OpenTunnel, GoTo, failLocked, Abort, TearDownThen
<1>3. TypeOK' BY <1>1, <1>2 DEF IInv, TypeOK, LockInv, OpenTunnel, GoTo, failLocked, Abort,
    TearDownThen
<1>4. LockInv' BY DEF IInv, TypeOK, LockInv, OpenTunnel, GoTo,
    failLocked, Abort, TearDownThen
<1>7. BudgetInv' BY DEF IInv, TypeOK, LockInv, ResInv, BudgetInv, OpenTunnel, GoTo,
  failLocked, Abort, TearDownThen
<1>5. ResInv' /\ PhaseInv' BY DEF IInv, TypeOK, LockInv, ResInv, PhaseInv, OpenTunnel, GoTo,
    failLocked, Abort, TearDownThen
<1>6. TagInv' BY DEF IInv, TypeOK, LockInv, ResInv, TagInv, Tag, OpenTunnel, GoTo, failLocked,
    Abort, TearDownThen
<1> QED BY <1>3, <1>4, <1>5, <1>6, <1>7 DEF IInv

\* Launch() starts the server.
LEMMA ExecServerKeeps ==
    ASSUME IInv, ExecServer
    PROVE  IInv'
<1>1. FlagsOK' BY DEF IInv, TypeOK, FlagsOK, ExecServer, GoTo, failLocked, TearDownThen,
    LaunchCleanup, closeTunnel
<1>2. QueueOK' BY DEF IInv, TypeOK, QueueOK, ExecServer, GoTo, failLocked, TearDownThen,
    LaunchCleanup, closeTunnel
<1>3. TypeOK' BY <1>1, <1>2 DEF IInv, TypeOK, LockInv, ExecServer, GoTo, failLocked,
    TearDownThen, LaunchCleanup, closeTunnel
<1>4. LockInv' BY DEF IInv, TypeOK, LockInv, ExecServer, GoTo,
    failLocked, TearDownThen, LaunchCleanup, closeTunnel
<1>7. BudgetInv' BY DEF IInv, TypeOK, LockInv, ResInv, BudgetInv, ExecServer, GoTo,
  failLocked, TearDownThen, LaunchCleanup, closeTunnel
<1>5. ResInv' /\ PhaseInv' BY DEF IInv, TypeOK, LockInv, ResInv, PhaseInv, ExecServer, GoTo,
    failLocked, TearDownThen, LaunchCleanup, closeTunnel
<1>6. TagInv' BY DEF IInv, TypeOK, LockInv, ResInv, TagInv, Tag, ExecServer, GoTo, failLocked,
    TearDownThen, LaunchCleanup, closeTunnel
<1> QED BY <1>3, <1>4, <1>5, <1>6, <1>7 DEF IInv

\* OpenStream() connects the sockets.
LEMMA OpenSocketsKeeps ==
    ASSUME IInv, OpenSockets
    PROVE  IInv'
<1>1. FlagsOK' BY DEF IInv, TypeOK, FlagsOK, OpenSockets, GoTo, failLocked, Abort, TearDownThen
<1>2. QueueOK' BY DEF IInv, TypeOK, QueueOK, OpenSockets, GoTo, failLocked, Abort, TearDownThen
<1>3. TypeOK' BY <1>1, <1>2 DEF IInv, TypeOK, LockInv, OpenSockets, GoTo, failLocked, Abort,
    TearDownThen
<1>4. LockInv' BY DEF IInv, TypeOK, LockInv, OpenSockets, GoTo,
    failLocked, Abort, TearDownThen
<1>7. BudgetInv' BY DEF IInv, TypeOK, LockInv, ResInv, BudgetInv, OpenSockets, GoTo,
  failLocked, Abort, TearDownThen
<1>5. ResInv' /\ PhaseInv' BY DEF IInv, TypeOK, LockInv, ResInv, PhaseInv, OpenSockets, GoTo,
    failLocked, Abort, TearDownThen
<1>6. TagInv' BY DEF IInv, TypeOK, LockInv, ResInv, TagInv, Tag, OpenSockets, GoTo,
    failLocked, Abort, TearDownThen
<1> QED BY <1>3, <1>4, <1>5, <1>6, <1>7 DEF IInv

\* BuildSink() gets no surface.
LEMMA NoSurfaceKeeps ==
    ASSUME IInv, NoSurface
    PROVE  IInv'
<1>1. FlagsOK' BY DEF IInv, TypeOK, FlagsOK, NoSurface, failLocked, Abort, TearDownThen
<1>2. QueueOK' BY DEF IInv, TypeOK, QueueOK, NoSurface, failLocked, Abort, TearDownThen
<1>3. TypeOK' BY <1>1, <1>2 DEF IInv, TypeOK, LockInv, NoSurface, failLocked, Abort,
    TearDownThen
<1>4. LockInv' BY DEF IInv, TypeOK, LockInv, NoSurface, failLocked,
    Abort, TearDownThen
<1>7. BudgetInv' BY DEF IInv, TypeOK, LockInv, ResInv, BudgetInv, NoSurface, failLocked,
  Abort, TearDownThen
<1>5. ResInv' /\ PhaseInv' BY DEF IInv, TypeOK, LockInv, ResInv, PhaseInv, NoSurface,
    failLocked, Abort, TearDownThen
<1>6. TagInv' BY DEF IInv, TypeOK, LockInv, ResInv, TagInv, Tag, NoSurface, failLocked, Abort,
    TearDownThen
<1> QED BY <1>3, <1>4, <1>5, <1>6, <1>7 DEF IInv

\* OpenStream() completes the session.
LEMMA BeginStreamingKeeps ==
    ASSUME IInv, BeginStreaming
    PROVE  IInv'
<1>1. FlagsOK' BY DEF IInv, TypeOK, FlagsOK, BeginStreaming, Release
<1>2. QueueOK' BY DEF IInv, TypeOK, QueueOK, BeginStreaming, Release
<1>3. TypeOK'
  <2>1. res' \in [Fields -> Nat] BY DEF IInv, TypeOK, BeginStreaming
  <2> QED BY <1>1, <1>2, <2>1 DEF IInv, TypeOK, LockInv, BeginStreaming, Release
<1>4. LockInv' BY DEF IInv, TypeOK, LockInv, BeginStreaming, Release
<1>7. BudgetInv' BY DEF IInv, TypeOK, LockInv, ResInv, BudgetInv, BeginStreaming, Release
<1>5. ResInv' /\ PhaseInv' BY DEF IInv, TypeOK, LockInv, ResInv, PhaseInv, BeginStreaming,
    Release
<1>6. TagInv'
  <2>1. Live' BY DEF IInv, TypeOK, ResInv, BeginStreaming
  <2>2. \A g \in Nat : g <= generation => Tag(g)' BY <2>1 DEF IInv, TypeOK, Tag,
      BeginStreaming, Release
  <2>3. \A g \in pumps' : g \in Nat /\ g <= generation BY DEF IInv, TypeOK, TagInv, Tag,
      BeginStreaming
  <2>4. \A r \in Reports : reported'[r] \in Nat /\ reported'[r] <= generation
    BY DEF IInv, TypeOK, TagInv, Tag, BeginStreaming, Release
  <2>5. res'["decoder"] = generation /\ generation \in Nat BY DEF IInv, TypeOK, BeginStreaming
  <2> QED BY <2>2, <2>3, <2>4, <2>5 DEF TagInv
<1> QED BY <1>3, <1>4, <1>5, <1>6, <1>7 DEF IInv

\* TeardownLocked() makes the attempt stale.
LEMMA TeardownBeginsKeeps ==
    ASSUME IInv, TeardownBegins
    PROVE  IInv'
<1>1. FlagsOK' BY DEF IInv, TypeOK, FlagsOK, TeardownBegins, GoTo
<1>2. QueueOK' BY DEF IInv, TypeOK, QueueOK, TeardownBegins, GoTo
<1>3. TypeOK' BY <1>1, <1>2 DEF IInv, TypeOK, LockInv, TeardownBegins, GoTo
<1>4. LockInv' BY DEF IInv, TypeOK, LockInv, TeardownBegins, GoTo
<1>7. BudgetInv' BY DEF IInv, TypeOK, LockInv, ResInv, BudgetInv, TeardownBegins, GoTo
<1>5. ResInv' /\ PhaseInv' BY DEF IInv, TypeOK, LockInv, ResInv, PhaseInv, TeardownBegins, GoTo
<1>6. TagInv' BY DEF IInv, TypeOK, LockInv, ResInv, TagInv, Tag, TeardownBegins, GoTo
<1> QED BY <1>3, <1>4, <1>5, <1>6, <1>7 DEF IInv

\* TeardownLocked() closes the control channel.
LEMMA CloseControlChannelKeeps ==
    ASSUME IInv, CloseControlChannel
    PROVE  IInv'
<1>1. FlagsOK' BY DEF IInv, TypeOK, FlagsOK, CloseControlChannel, GoTo
<1>2. QueueOK' BY DEF IInv, TypeOK, QueueOK, CloseControlChannel, GoTo
<1>3. TypeOK' BY <1>1, <1>2 DEF IInv, TypeOK, LockInv, CloseControlChannel, GoTo
<1>4. LockInv' BY DEF IInv, TypeOK, LockInv, CloseControlChannel, GoTo
<1>7. BudgetInv' BY DEF IInv, TypeOK, LockInv, ResInv, BudgetInv, CloseControlChannel, GoTo
<1>5. ResInv' /\ PhaseInv' BY DEF IInv, TypeOK, LockInv, ResInv, PhaseInv,
    CloseControlChannel, GoTo
<1>6. TagInv' BY DEF IInv, TypeOK, LockInv, ResInv, TagInv, Tag, CloseControlChannel, GoTo
<1> QED BY <1>3, <1>4, <1>5, <1>6, <1>7 DEF IInv

\* TeardownLocked() closes the sockets.
LEMMA CloseConnectionKeeps ==
    ASSUME IInv, CloseConnection
    PROVE  IInv'
<1>1. FlagsOK' BY DEF IInv, TypeOK, FlagsOK, CloseConnection, GoTo
<1>2. QueueOK' BY DEF IInv, TypeOK, QueueOK, CloseConnection, GoTo
<1>3. TypeOK' BY <1>1, <1>2 DEF IInv, TypeOK, LockInv, CloseConnection, GoTo
<1>4. LockInv' BY DEF IInv, TypeOK, LockInv, CloseConnection, GoTo
<1>7. BudgetInv' BY DEF IInv, TypeOK, LockInv, ResInv, BudgetInv, CloseConnection, GoTo
<1>5. ResInv' /\ PhaseInv' BY DEF IInv, TypeOK, LockInv, ResInv, PhaseInv, CloseConnection, GoTo
<1>6. TagInv' BY DEF IInv, TypeOK, LockInv, ResInv, TagInv, Tag, CloseConnection, GoTo
<1> QED BY <1>3, <1>4, <1>5, <1>6, <1>7 DEF IInv

\* TeardownLocked() joins the pump and releases the decoder.
LEMMA JoinPumpKeeps ==
    ASSUME IInv, JoinPump
    PROVE  IInv'
<1>1. FlagsOK' BY DEF IInv, TypeOK, FlagsOK, JoinPump, GoTo
<1>2. QueueOK' BY DEF IInv, TypeOK, QueueOK, JoinPump, GoTo
<1>3. TypeOK' BY <1>1, <1>2 DEF IInv, TypeOK, LockInv, JoinPump, GoTo
<1>4. LockInv' BY DEF IInv, TypeOK, LockInv, JoinPump, GoTo
<1>7. BudgetInv' BY DEF IInv, TypeOK, LockInv, ResInv, BudgetInv, JoinPump, GoTo
<1>5. ResInv' /\ PhaseInv' BY DEF IInv, TypeOK, LockInv, ResInv, PhaseInv, JoinPump, GoTo
<1>6. TagInv' BY DEF IInv, TypeOK, LockInv, ResInv, TagInv, Tag, JoinPump, GoTo
<1> QED BY <1>3, <1>4, <1>5, <1>6, <1>7 DEF IInv

\* TeardownLocked() closes the server process.
LEMMA CloseProcessKeeps ==
    ASSUME IInv, CloseProcess
    PROVE  IInv'
<1>1. FlagsOK' BY DEF IInv, TypeOK, FlagsOK, CloseProcess, GoTo
<1>2. QueueOK' BY DEF IInv, TypeOK, QueueOK, CloseProcess, GoTo
<1>3. TypeOK' BY <1>1, <1>2 DEF IInv, TypeOK, LockInv, CloseProcess, GoTo
<1>4. LockInv' BY DEF IInv, TypeOK, LockInv, CloseProcess, GoTo
<1>7. BudgetInv' BY DEF IInv, TypeOK, LockInv, ResInv, BudgetInv, CloseProcess, GoTo
<1>5. ResInv' /\ PhaseInv' BY DEF IInv, TypeOK, LockInv, ResInv, PhaseInv, CloseProcess, GoTo
<1>6. TagInv' BY DEF IInv, TypeOK, LockInv, ResInv, TagInv, Tag, CloseProcess, GoTo
<1> QED BY <1>3, <1>4, <1>5, <1>6, <1>7 DEF IInv

\* TeardownLocked() closes the tunnel and the transport.
LEMMA CloseTunnelKeeps ==
    ASSUME IInv, CloseTunnel
    PROVE  IInv'
<1>1. FlagsOK' BY DEF IInv, TypeOK, FlagsOK, CloseTunnel, GoTo, closeTunnel
<1>2. QueueOK' BY DEF IInv, TypeOK, QueueOK, CloseTunnel, GoTo, closeTunnel
<1>3. TypeOK' BY <1>1, <1>2 DEF IInv, TypeOK, LockInv, CloseTunnel, GoTo, closeTunnel
<1>4. LockInv' BY DEF IInv, TypeOK, LockInv, CloseTunnel, GoTo,
    closeTunnel
<1>7. BudgetInv' BY DEF IInv, TypeOK, LockInv, ResInv, BudgetInv, CloseTunnel, GoTo,
  closeTunnel
<1>5. ResInv' /\ PhaseInv' BY DEF IInv, TypeOK, LockInv, ResInv, PhaseInv, CloseTunnel, GoTo,
    closeTunnel
<1>6. TagInv' BY DEF IInv, TypeOK, LockInv, ResInv, TagInv, Tag, CloseTunnel, GoTo, closeTunnel
<1> QED BY <1>3, <1>4, <1>5, <1>6, <1>7 DEF IInv

\* The caller of teardownLocked() goes on.
LEMMA AfterTeardownKeeps ==
    ASSUME IInv, AfterTeardown
    PROVE  IInv'
<1>1. FlagsOK' BY DEF IInv, TypeOK, FlagsOK, AfterTeardown, GoTo, Release, BeginAttempt
<1>2. QueueOK' BY DEF IInv, TypeOK, QueueOK, AfterTeardown, GoTo, Release, BeginAttempt
<1>3. TypeOK' BY <1>1, <1>2 DEF IInv, TypeOK, LockInv, AfterTeardown, GoTo, Release,
    BeginAttempt
<1>4. LockInv' BY DEF IInv, TypeOK, LockInv, AfterTeardown, GoTo,
    Release, BeginAttempt
<1>7. BudgetInv' BY DEF IInv, TypeOK, LockInv, ResInv, BudgetInv, AfterTeardown, GoTo,
  Release, BeginAttempt
<1>5. ResInv' /\ PhaseInv' BY DEF IInv, TypeOK, LockInv, ResInv, PhaseInv, AfterTeardown,
    GoTo, Release, BeginAttempt
<1>6. TagInv' BY DEF IInv, TypeOK, LockInv, ResInv, TagInv, Tag, AfterTeardown, GoTo, Release,
    BeginAttempt
<1> QED BY <1>3, <1>4, <1>5, <1>6, <1>7 DEF IInv

\* Stop() finds a newer start job.
LEMMA StopStandsAsideKeeps ==
    ASSUME IInv, StopStandsAside
    PROVE  IInv'
<1>1. FlagsOK' BY DEF IInv, TypeOK, FlagsOK, StopStandsAside, Release
<1>2. QueueOK' BY DEF IInv, TypeOK, QueueOK, StopStandsAside, Release
<1>3. TypeOK' BY <1>1, <1>2 DEF IInv, TypeOK, LockInv, StopStandsAside, Release
<1>4. LockInv' BY DEF IInv, TypeOK, LockInv, StopStandsAside, Release
<1>7. BudgetInv' BY DEF IInv, TypeOK, LockInv, ResInv, BudgetInv, StopStandsAside, Release
<1>5. ResInv' /\ PhaseInv' BY DEF IInv, TypeOK, LockInv, ResInv, PhaseInv, StopStandsAside,
    Release
<1>6. TagInv' BY DEF IInv, TypeOK, LockInv, ResInv, TagInv, Tag, StopStandsAside, Release
<1> QED BY <1>3, <1>4, <1>5, <1>6, <1>7 DEF IInv

\* Stop() finds nothing to stop.
LEMMA StopNothingToDoKeeps ==
    ASSUME IInv, StopNothingToDo
    PROVE  IInv'
<1>1. FlagsOK' BY DEF IInv, TypeOK, FlagsOK, StopNothingToDo, Release
<1>2. QueueOK' BY DEF IInv, TypeOK, QueueOK, StopNothingToDo, Release
<1>3. TypeOK' BY <1>1, <1>2 DEF IInv, TypeOK, LockInv, StopNothingToDo, Release
<1>4. LockInv' BY DEF IInv, TypeOK, LockInv, StopNothingToDo, Release
<1>7. BudgetInv' BY DEF IInv, TypeOK, LockInv, ResInv, BudgetInv, StopNothingToDo, Release
<1>5. ResInv' /\ PhaseInv' BY DEF IInv, TypeOK, LockInv, ResInv, PhaseInv, StopNothingToDo,
    Release
<1>6. TagInv' BY DEF IInv, TypeOK, LockInv, ResInv, TagInv, Tag, StopNothingToDo, Release
<1> QED BY <1>3, <1>4, <1>5, <1>6, <1>7 DEF IInv

\* Stop() goes on to tear the session down.
LEMMA StopTearsDownKeeps ==
    ASSUME IInv, StopTearsDown
    PROVE  IInv'
<1>1. FlagsOK' BY DEF IInv, TypeOK, FlagsOK, StopTearsDown, TearDownThen
<1>2. QueueOK' BY DEF IInv, TypeOK, QueueOK, StopTearsDown, TearDownThen
<1>3. TypeOK' BY <1>1, <1>2 DEF IInv, TypeOK, LockInv, StopTearsDown, TearDownThen
<1>4. LockInv' BY DEF IInv, TypeOK, LockInv, StopTearsDown,
    TearDownThen
<1>7. BudgetInv' BY DEF IInv, TypeOK, LockInv, ResInv, BudgetInv, StopTearsDown,
  TearDownThen
<1>5. ResInv' /\ PhaseInv' BY DEF IInv, TypeOK, LockInv, ResInv, PhaseInv, StopTearsDown,
    TearDownThen
<1>6. TagInv' BY DEF IInv, TypeOK, LockInv, ResInv, TagInv, Tag, StopTearsDown, TearDownThen
<1> QED BY <1>3, <1>4, <1>5, <1>6, <1>7 DEF IInv

\* OnStreamFailure() finds its report stale.
LEMMA ReportDroppedKeeps ==
    ASSUME IInv, ReportDropped
    PROVE  IInv'
<1>1. FlagsOK' BY DEF IInv, TypeOK, FlagsOK, ReportDropped, Release
<1>2. QueueOK' BY DEF IInv, TypeOK, QueueOK, ReportDropped, Release
<1>3. TypeOK' BY <1>1, <1>2 DEF IInv, TypeOK, LockInv, ReportDropped, Release
<1>4. LockInv' BY DEF IInv, TypeOK, LockInv, ReportDropped, Release
<1>7. BudgetInv' BY DEF IInv, TypeOK, LockInv, ResInv, BudgetInv, ReportDropped, Release
<1>5. ResInv' /\ PhaseInv' BY DEF IInv, TypeOK, LockInv, ResInv, PhaseInv, ReportDropped,
    Release
<1>6. TagInv' BY DEF IInv, TypeOK, LockInv, ResInv, TagInv, Tag, ReportDropped, Release
<1> QED BY <1>3, <1>4, <1>5, <1>6, <1>7 DEF IInv

\* OnStreamFailure() gives up or reconnects.
LEMMA ReportActsKeeps ==
    ASSUME IInv, ReportActs
    PROVE  IInv'
<1>1. FlagsOK' BY DEF IInv, TypeOK, FlagsOK, ReportActs, ReportStale, AttemptsUsed,
    BudgetSpent, failLocked, TearDownThen
<1>2. QueueOK' BY DEF IInv, TypeOK, QueueOK, ReportActs, ReportStale, AttemptsUsed,
    BudgetSpent, failLocked, TearDownThen
<1>3. TypeOK' BY <1>1, <1>2 DEF IInv, TypeOK, LockInv, ReportActs, ReportStale, AttemptsUsed,
    BudgetSpent, failLocked, TearDownThen
<1>4. LockInv' BY DEF IInv, TypeOK, LockInv, ReportActs, ReportStale,
    AttemptsUsed, BudgetSpent, failLocked, TearDownThen
<1>7. BudgetInv'
  <2>1. /\ step = "react" /\ step' = "begin" /\ cont' \in {"fail", "reconnect"}
        /\ UNCHANGED <<generation, retries, streamed, activeTarget, res>>
    BY DEF ReportActs, failLocked, TearDownThen
  <2>2. cont' = "reconnect" =>
          /\ activeTarget # None /\ ~(AttemptsUsed >= MaxReconnectAttempts)
          /\ reconnectAttempt' = AttemptsUsed + 1
    BY DEF ReportActs, failLocked, TearDownThen, BudgetSpent
  <2>3. cont' = "reconnect" => res["pump"] = generation /\ generation # 0
    BY <2>1, <2>2 DEF IInv, TypeOK, LockInv, TagInv, Tag, BudgetInv, ReportActs, ReportStale
  <2>4. cont' = "reconnect" => AttemptsUsed = retries
    BY <2>1, <2>3 DEF IInv, TypeOK, BudgetInv, AttemptsUsed
  <2> QED BY <2>1, <2>2, <2>4 DEF IInv, TypeOK, BudgetInv
<1>5. ResInv' /\ PhaseInv' BY DEF IInv, TypeOK, LockInv, ResInv, PhaseInv, ReportActs,
    ReportStale, AttemptsUsed, BudgetSpent, failLocked, TearDownThen
<1>6. TagInv' BY DEF IInv, TypeOK, LockInv, ResInv, TagInv, Tag, ReportActs, ReportStale,
    AttemptsUsed, BudgetSpent, failLocked, TearDownThen
<1> QED BY <1>3, <1>4, <1>5, <1>6, <1>7 DEF IInv

\* OnStreamFailure() starts the next attempt.
LEMMA ReconnectKeeps ==
    ASSUME IInv, Reconnect
    PROVE  IInv'
<1>1. FlagsOK' BY DEF IInv, TypeOK, FlagsOK, Reconnect, GoTo, BeginAttempt
<1>2. QueueOK' BY DEF IInv, TypeOK, QueueOK, Reconnect, GoTo, BeginAttempt
<1>3. TypeOK' BY <1>1, <1>2 DEF IInv, TypeOK, LockInv, Reconnect, GoTo, BeginAttempt
<1>4. LockInv' BY DEF IInv, TypeOK, LockInv, Reconnect, GoTo,
    BeginAttempt
<1>7. BudgetInv' BY DEF IInv, TypeOK, LockInv, ResInv, BudgetInv, Reconnect, GoTo,
  BeginAttempt
<1>5. ResInv' /\ PhaseInv' BY DEF IInv, TypeOK, LockInv, ResInv, PhaseInv, Reconnect, GoTo,
    BeginAttempt
<1>6. TagInv'
  <2>1. /\ generation \in Nat /\ generation' = generation + 1
        /\ pumps' = pumps /\ reported' = reported /\ res' = res /\ res["decoder"] = 0
    BY DEF IInv, TypeOK, ResInv, Reconnect, GoTo, BeginAttempt
  <2>2. pumps \subseteq Nat /\ reported \in [Reports -> Nat]
    BY DEF IInv, TypeOK
  <2>3. ASSUME NEW g \in Nat, Tag(g) PROVE Tag(g)'
    BY <2>1, <2>3 DEF Tag
  <2>4. (\A g \in pumps : Tag(g)) /\ (\A r \in Reports : Tag(reported[r]))
    BY DEF IInv, TagInv
  <2> QED
    BY <2>1, <2>2, <2>3, <2>4 DEF TagInv
<1> QED BY <1>3, <1>4, <1>5, <1>6, <1>7 DEF IInv

\* The server on the Target goes away.
LEMMA ServerExitsKeeps ==
    ASSUME IInv, ServerExits
    PROVE  IInv'
<1>1. FlagsOK' BY DEF IInv, TypeOK, FlagsOK, ServerExits
<1>2. QueueOK' BY DEF IInv, TypeOK, QueueOK, ServerExits
<1>3. TypeOK' BY <1>1, <1>2 DEF IInv, TypeOK, LockInv, ServerExits
<1>4. LockInv' BY DEF IInv, TypeOK, LockInv, ServerExits
<1>7. BudgetInv' BY DEF IInv, TypeOK, LockInv, ResInv, BudgetInv, ServerExits
<1>5. ResInv' /\ PhaseInv' BY DEF IInv, TypeOK, LockInv, ResInv, PhaseInv, ServerExits
<1>6. TagInv' BY DEF IInv, TypeOK, LockInv, ResInv, TagInv, Tag, ServerExits
<1> QED BY <1>3, <1>4, <1>5, <1>6, <1>7 DEF IInv

\* The stream has lasted for STABLE_SESSION_MS.
LEMMA StreamLastsKeeps ==
    ASSUME IInv, StreamLasts
    PROVE  IInv'
<1>1. FlagsOK' BY DEF IInv, TypeOK, FlagsOK, StreamLasts
<1>2. QueueOK' BY DEF IInv, TypeOK, QueueOK, StreamLasts
<1>3. TypeOK' BY <1>1, <1>2 DEF IInv, TypeOK, LockInv, StreamLasts
<1>4. LockInv' BY DEF IInv, TypeOK, LockInv, StreamLasts
<1>5. ResInv' /\ PhaseInv' BY DEF IInv, TypeOK, LockInv, ResInv, PhaseInv, StreamLasts
<1>6. TagInv' BY DEF IInv, TypeOK, LockInv, ResInv, TagInv, Tag, StreamLasts
<1>7. BudgetInv' BY DEF IInv, TypeOK, LockInv, BudgetInv, StreamLasts
<1> QED BY <1>3, <1>4, <1>5, <1>6, <1>7 DEF IInv

\* An adb command of the holder never returns.
LEMMA AdbHangsKeeps ==
    ASSUME IInv, AdbHangs
    PROVE  IInv'
<1>1. FlagsOK' BY DEF IInv, TypeOK, FlagsOK, AdbHangs
<1>2. QueueOK' BY DEF IInv, TypeOK, QueueOK, AdbHangs
<1>3. TypeOK' BY <1>1, <1>2 DEF IInv, TypeOK, LockInv, AdbHangs
<1>4. LockInv' BY DEF IInv, TypeOK, LockInv, AdbHangs
<1>5. ResInv' /\ PhaseInv' BY DEF IInv, TypeOK, LockInv, ResInv, PhaseInv, AdbHangs
<1>6. TagInv' BY DEF IInv, TypeOK, LockInv, ResInv, TagInv, Tag, AdbHangs
<1>7. BudgetInv' BY DEF IInv, TypeOK, LockInv, BudgetInv, AdbHangs
<1> QED BY <1>3, <1>4, <1>5, <1>6, <1>7 DEF IInv

\* The decoder reports a fatal error.
LEMMA DecoderFailsKeeps ==
    ASSUME IInv, DecoderFails
    PROVE  IInv'
<1>1. FlagsOK' BY DEF IInv, TypeOK, FlagsOK, DecoderFails, Launch
<1>2. QueueOK' BY DEF IInv, TypeOK, QueueOK, DecoderFails, Launch
<1>3. TypeOK' BY <1>1, <1>2 DEF IInv, TypeOK, LockInv, DecoderFails, Launch
<1>4. LockInv' BY DEF IInv, TypeOK, LockInv, DecoderFails, Launch
<1>7. BudgetInv' BY DEF IInv, TypeOK, LockInv, ResInv, BudgetInv, DecoderFails, Launch
<1>5. ResInv' /\ PhaseInv' BY DEF IInv, TypeOK, LockInv, ResInv, PhaseInv, DecoderFails, Launch
<1>6. TagInv' BY DEF IInv, TypeOK, LockInv, ResInv, TagInv, Tag, DecoderFails, Launch
<1> QED BY <1>3, <1>4, <1>5, <1>6, <1>7 DEF IInv

\* Start() launches its coroutine.
LEMMA startKeeps ==
    ASSUME IInv, NEW j \in Starts, start(j)
    PROVE  IInv'
<1>1. FlagsOK' BY DEF IInv, TypeOK, FlagsOK, start
<1>2. QueueOK' BY DEF IInv, TypeOK, QueueOK, start
<1>3. TypeOK' BY <1>1, <1>2 DEF IInv, TypeOK, LockInv, start
<1>4. LockInv' BY DEF IInv, TypeOK, LockInv, start
<1>7. BudgetInv' BY DEF IInv, TypeOK, LockInv, ResInv, BudgetInv, start
<1>5. ResInv' /\ PhaseInv' BY DEF IInv, TypeOK, LockInv, ResInv, PhaseInv, start
<1>6. TagInv' BY DEF IInv, TypeOK, LockInv, ResInv, TagInv, Tag, start
<1> QED BY <1>3, <1>4, <1>5, <1>6, <1>7 DEF IInv

\* Start()'s coroutine asks for the lock.
LEMMA StartLocksKeeps ==
    ASSUME IInv, NEW j \in Starts, StartLocks(j)
    PROVE  IInv'
<1>1. FlagsOK' BY DEF IInv, TypeOK, FlagsOK, StartLocks, Enqueue, Own, FirstStep
<1>2. QueueOK'
  <2>1. CASE Enqueue(j) BY <2>1 DEF IInv, TypeOK, QueueOK, Enqueue
  <2>2. CASE UNCHANGED waitq BY <2>2 DEF IInv, TypeOK, QueueOK
  <2> QED BY <2>1, <2>2 DEF StartLocks
<1>3. TypeOK'
  <2>1. CASE Enqueue(j) BY <1>1, <1>2, <2>1 DEF IInv, TypeOK, LockInv, StartLocks, Enqueue
  <2>2. CASE Own(j) BY <1>1, <1>2, <2>2 DEF IInv, TypeOK, LockInv, StartLocks, Own, FirstStep
  <2> QED BY <2>1, <2>2 DEF StartLocks
<1>4. LockInv' BY DEF IInv, TypeOK, LockInv, StartLocks, Enqueue,
    Own, FirstStep
<1>7. BudgetInv' BY DEF IInv, TypeOK, LockInv, ResInv, BudgetInv, StartLocks, Enqueue,
  Own, FirstStep
<1>5. ResInv' /\ PhaseInv' BY DEF IInv, TypeOK, LockInv, ResInv, PhaseInv, StartLocks,
    Enqueue, Own, FirstStep
<1>6. TagInv' BY DEF IInv, TypeOK, LockInv, ResInv, TagInv, Tag, StartLocks, Enqueue, Own,
    FirstStep
<1> QED BY <1>3, <1>4, <1>5, <1>6, <1>7 DEF IInv

\* Start()'s coroutine is cancelled before it has the lock.
LEMMA StartCancelledBeforeLockKeeps ==
    ASSUME IInv, NEW j \in Starts, StartCancelledBeforeLock(j)
    PROVE  IInv'
<1>1. FlagsOK' BY DEF IInv, TypeOK, FlagsOK, StartCancelledBeforeLock
<1>2. QueueOK' BY DEF IInv, TypeOK, QueueOK, StartCancelledBeforeLock
<1>3. TypeOK' BY <1>1, <1>2 DEF IInv, TypeOK, LockInv, StartCancelledBeforeLock
<1>4. LockInv' BY DEF IInv, TypeOK, LockInv, StartCancelledBeforeLock
<1>7. BudgetInv' BY DEF IInv, TypeOK, LockInv, ResInv, BudgetInv, StartCancelledBeforeLock
<1>5. ResInv' /\ PhaseInv' BY DEF IInv, TypeOK, LockInv, ResInv, PhaseInv,
    StartCancelledBeforeLock
<1>6. TagInv' BY DEF IInv, TypeOK, LockInv, ResInv, TagInv, Tag, StartCancelledBeforeLock
<1> QED BY <1>3, <1>4, <1>5, <1>6, <1>7 DEF IInv

\* RequestStop() launches its coroutine.
LEMMA requestStopKeeps ==
    ASSUME IInv, NEW s \in Stops, requestStop(s)
    PROVE  IInv'
<1>1. FlagsOK' BY DEF IInv, TypeOK, FlagsOK, requestStop
<1>2. QueueOK' BY DEF IInv, TypeOK, QueueOK, requestStop
<1>3. TypeOK' BY <1>1, <1>2 DEF IInv, TypeOK, LockInv, requestStop
<1>4. LockInv' BY DEF IInv, TypeOK, LockInv, requestStop
<1>7. BudgetInv' BY DEF IInv, TypeOK, LockInv, ResInv, BudgetInv, requestStop
<1>5. ResInv' /\ PhaseInv' BY DEF IInv, TypeOK, LockInv, ResInv, PhaseInv, requestStop
<1>6. TagInv' BY DEF IInv, TypeOK, LockInv, ResInv, TagInv, Tag, requestStop
<1> QED BY <1>3, <1>4, <1>5, <1>6, <1>7 DEF IInv

\* Stop() reads startJob.
LEMMA StopCapturesKeeps ==
    ASSUME IInv, NEW s \in Stops, StopCaptures(s)
    PROVE  IInv'
<1>1. FlagsOK' BY DEF IInv, TypeOK, FlagsOK, StopCaptures
<1>2. QueueOK' BY DEF IInv, TypeOK, QueueOK, StopCaptures
<1>3. TypeOK' BY <1>1, <1>2 DEF IInv, TypeOK, LockInv, StopCaptures
<1>4. LockInv' BY DEF IInv, TypeOK, LockInv, StopCaptures
<1>7. BudgetInv' BY DEF IInv, TypeOK, LockInv, ResInv, BudgetInv, StopCaptures
<1>5. ResInv' /\ PhaseInv' BY DEF IInv, TypeOK, LockInv, ResInv, PhaseInv, StopCaptures
<1>6. TagInv' BY DEF IInv, TypeOK, LockInv, ResInv, TagInv, Tag, StopCaptures
<1> QED BY <1>3, <1>4, <1>5, <1>6, <1>7 DEF IInv

\* Stop() raises the flag and cancels the job.
LEMMA StopCancelsKeeps ==
    ASSUME IInv, NEW s \in Stops, StopCancels(s)
    PROVE  IInv'
<1>1. FlagsOK' BY DEF IInv, TypeOK, FlagsOK, StopCancels
<1>2. QueueOK' BY DEF IInv, TypeOK, QueueOK, StopCancels
<1>3. TypeOK' BY <1>1, <1>2 DEF IInv, TypeOK, LockInv, StopCancels
<1>4. LockInv' BY DEF IInv, TypeOK, LockInv, StopCancels
<1>7. BudgetInv' BY DEF IInv, TypeOK, LockInv, ResInv, BudgetInv, StopCancels
<1>5. ResInv' /\ PhaseInv' BY DEF IInv, TypeOK, LockInv, ResInv, PhaseInv, StopCancels
<1>6. TagInv' BY DEF IInv, TypeOK, LockInv, ResInv, TagInv, Tag, StopCancels
<1> QED BY <1>3, <1>4, <1>5, <1>6, <1>7 DEF IInv

\* Stop() has joined the job and asks for the lock.
LEMMA StopLocksKeeps ==
    ASSUME IInv, NEW s \in Stops, StopLocks(s)
    PROVE  IInv'
<1>1. FlagsOK' BY DEF IInv, TypeOK, FlagsOK, StopLocks, Enqueue
<1>2. QueueOK' BY DEF IInv, TypeOK, QueueOK, StopLocks, Enqueue
<1>3. TypeOK' BY <1>1, <1>2 DEF IInv, TypeOK, LockInv, StopLocks, Enqueue
<1>4. LockInv' BY DEF IInv, TypeOK, LockInv, StopLocks, Enqueue
<1>7. BudgetInv' BY DEF IInv, TypeOK, LockInv, ResInv, BudgetInv, StopLocks, Enqueue
<1>5. ResInv' /\ PhaseInv' BY DEF IInv, TypeOK, LockInv, ResInv, PhaseInv, StopLocks, Enqueue
<1>6. TagInv' BY DEF IInv, TypeOK, LockInv, ResInv, TagInv, Tag, StopLocks, Enqueue
<1> QED BY <1>3, <1>4, <1>5, <1>6, <1>7 DEF IInv

\* OnStreamFailure() asks for the lock.
LEMMA ReportLocksKeeps ==
    ASSUME IInv, NEW r \in Reports, ReportLocks(r)
    PROVE  IInv'
<1>1. FlagsOK' BY DEF IInv, TypeOK, FlagsOK, ReportLocks, Enqueue
<1>2. QueueOK'
  <2>1. CASE stopping /\ UNCHANGED lock BY <2>1 DEF IInv, TypeOK, QueueOK
  <2>2. CASE Enqueue(r) BY <2>2 DEF IInv, TypeOK, QueueOK, Enqueue
  <2> QED BY <2>1, <2>2 DEF ReportLocks
<1>3. TypeOK' BY <1>1, <1>2, SMTT(30) DEF IInv, TypeOK, LockInv, ReportLocks, Enqueue
<1>4. LockInv' BY DEF IInv, TypeOK, LockInv, ReportLocks, Enqueue
<1>7. BudgetInv' BY DEF IInv, TypeOK, LockInv, ResInv, BudgetInv, ReportLocks, Enqueue
<1>5. ResInv' /\ PhaseInv' BY DEF IInv, TypeOK, LockInv, ResInv, PhaseInv, ReportLocks, Enqueue
<1>6. TagInv' BY DEF IInv, TypeOK, LockInv, ResInv, TagInv, Tag, ReportLocks, Enqueue
<1> QED BY <1>3, <1>4, <1>5, <1>6, <1>7 DEF IInv

\* A pump thread ends, with or without a report.
LEMMA PumpEndsKeeps ==
    ASSUME IInv, NEW g \in pumps, PumpEnds(g)
    PROVE  IInv'
<1>1. FlagsOK' BY DEF IInv, TypeOK, FlagsOK, PumpEnds, Launch
<1>2. QueueOK' BY DEF IInv, TypeOK, QueueOK, PumpEnds, Launch
<1>3. TypeOK' BY <1>1, <1>2 DEF IInv, TypeOK, LockInv, PumpEnds, Launch
<1>4. LockInv' BY DEF IInv, TypeOK, LockInv, PumpEnds, Launch
<1>7. BudgetInv' BY DEF IInv, TypeOK, LockInv, ResInv, BudgetInv, PumpEnds, Launch
<1>5. ResInv' /\ PhaseInv' BY DEF IInv, TypeOK, LockInv, ResInv, PhaseInv, PumpEnds, Launch
<1>6. TagInv' BY DEF IInv, TypeOK, LockInv, ResInv, TagInv, Tag, PumpEnds, Launch
<1> QED BY <1>3, <1>4, <1>5, <1>6, <1>7 DEF IInv

-----------------------------------------------------------------------------
(* The theorems.                                                            *)

\* The invariant holds when the app has just started.
LEMMA InitEstablishes == Init => IInv
<1> SUFFICES ASSUME Init PROVE IInv
  OBVIOUS
<1>1. FlagsOK BY Zenon DEF Init, FlagsOK
<1>2. QueueOK BY DEF Init, QueueOK
<1>3. TypeOK BY <1>1, <1>2 DEF Init, TypeOK
<1>4. LockInv /\ BudgetInv BY DEF Init, LockInv, BudgetInv
<1>5. ResInv /\ TagInv /\ PhaseInv BY DEF Init, ResInv, TagInv, Tag, PhaseInv
<1> QED BY <1>3, <1>4, <1>5 DEF IInv

\* Every step keeps the invariant.
LEMMA NextKeeps == IInv /\ [Next]_vars => IInv'
<1> SUFFICES ASSUME IInv, [Next]_vars PROVE IInv'
  OBVIOUS
<1>1. CASE UserActs
  BY <1>1, ConnectBeginsKeeps, ConnectSucceedsKeeps, ConnectFailsKeeps, ConnectAbandonedKeeps,
     requestStopKeeps DEF UserActs
<1>2. CASE HolderActs
  <2>1. CASE StartIgnored \/ StartAccepted \/ OpenTransport \/ DeliverServer \/ OpenTunnel
             \/ ExecServer \/ OpenSockets \/ NoSurface \/ BeginStreaming
    BY <2>1, StartIgnoredKeeps, StartAcceptedKeeps, OpenTransportKeeps, DeliverServerKeeps,
       OpenTunnelKeeps, ExecServerKeeps, OpenSocketsKeeps, NoSurfaceKeeps, BeginStreamingKeeps
  <2>2. CASE TeardownBegins \/ CloseControlChannel \/ CloseConnection \/ JoinPump
             \/ CloseProcess \/ CloseTunnel \/ AfterTeardown
    BY <2>2, TeardownBeginsKeeps, CloseControlChannelKeeps, CloseConnectionKeeps,
       JoinPumpKeeps, CloseProcessKeeps, CloseTunnelKeeps, AfterTeardownKeeps
  <2>3. CASE StopStandsAside \/ StopNothingToDo \/ StopTearsDown
             \/ ReportDropped \/ ReportActs \/ Reconnect
    BY <2>3, StopStandsAsideKeeps, StopNothingToDoKeeps, StopTearsDownKeeps,
       ReportDroppedKeeps, ReportActsKeeps, ReconnectKeeps
  <2> QED BY <1>2, <2>1, <2>2, <2>3 DEF HolderActs
<1>3. CASE EnvironmentActs
  BY <1>3, ServerExitsKeeps, StreamLastsKeeps, AdbHangsKeeps, DecoderFailsKeeps, PumpEndsKeeps
     DEF EnvironmentActs
<1>4. CASE StoreStartJob \/ Grant
  BY <1>4, StoreStartJobKeeps, GrantKeeps
<1>5. CASE \E j \in Starts : start(j) \/ StartActs(j)
  BY <1>5, startKeeps, StartLocksKeeps, StartCancelledBeforeLockKeeps DEF StartActs
<1>6. CASE \E s \in Stops : StopActs(s)
  BY <1>6, StopCapturesKeeps, StopCancelsKeeps, StopLocksKeeps DEF StopActs
<1>7. CASE \E r \in Reports : ReportLocks(r)
  BY <1>7, ReportLocksKeeps
<1>8. CASE UNCHANGED vars
  BY <1>8 DEF vars, IInv, TypeOK, FlagsOK, QueueOK, LockInv, ResInv, TagInv, Tag, PhaseInv, BudgetInv
<1> QED BY <1>1, <1>2, <1>3, <1>4, <1>5, <1>6, <1>7, <1>8 DEF Next

\* The invariant holds throughout.
THEOREM Invariance == Spec => []IInv
BY InitEstablishes, NextKeeps, PTL DEF Spec

\* Every variable keeps its type, whatever start, stop and failure race.
THEOREM TypeCorrect == Spec => []TypeOK
<1>1. IInv => TypeOK BY DEF IInv
<1> QED BY <1>1, Invariance, PTL

\* The lock is never free over a half-built session, and a session that shows
\* Streaming owns every resource of the current attempt.
THEOREM SessionIsWhole == Spec => [](WholeOrGone /\ StreamingIsLive)
<1>1. IInv => WholeOrGone /\ StreamingIsLive
  BY DEF IInv, TypeOK, LockInv, ResInv, PhaseInv, WholeOrGone, StreamingIsLive
<1> QED BY <1>1, Invariance, PTL

\* The same with the types: fields and state agree, for any number of
\* concurrent starts, stops and failure reports.
THEOREM FieldsAndStateAgree == Spec => []SessionAgrees
BY TypeCorrect, SessionIsWhole, PTL DEF SessionAgrees

\* A failure report tears down no session but its own.
THEOREM ReportsAreOwn == Spec => ReportsHitTheirOwnSession
<1>1. ASSUME IInv, [Next]_vars, step = "react", step' = "begin"
      PROVE  Live /\ reported[owner] = res["pump"]
  <2>1. ReportActs
    BY <1>1 DEF IInv, TypeOK, LockInv, Next, UserActs, HolderActs, EnvironmentActs, StartActs, StopActs,
       vars, ConnectBegins, ConnectSucceeds, ConnectFails, ConnectAbandoned, requestStop,
       StoreStartJob, Grant, Own, FirstStep, StartIgnored, StartAccepted, OpenTransport, DeliverServer,
       OpenTunnel, ExecServer, OpenSockets, NoSurface, BeginStreaming, TeardownBegins,
       CloseControlChannel, CloseConnection, JoinPump, CloseProcess, CloseTunnel, AfterTeardown,
       StopStandsAside, StopNothingToDo, StopTearsDown, ReportDropped, Reconnect, Release,
       ServerExits, StreamLasts, AdbHangs, DecoderFails, PumpEnds, start, StartLocks, StartCancelledBeforeLock,
       StopCaptures, StopCancels, StopLocks, ReportLocks, Enqueue
  <2>2. owner \in Reports /\ reported[owner] = generation
    BY <1>1, <2>1 DEF IInv, LockInv, ReportActs, ReportStale
  <2> QED BY <1>1, <2>2 DEF IInv, TypeOK, TagInv, Tag
<1>2. IInv /\ [Next]_vars =>
        [step = "react" /\ step' = "begin" => Live /\ reported[owner] = res["pump"]]_vars
  BY <1>1
<1> QED BY <1>2, Invariance, PTL DEF Spec, ReportsHitTheirOwnSession

\* A session that never gets stable reconnects MAX_RECONNECT_ATTEMPTS times and no
\* more, and a dead stream is given up only after that many, whoever reports it,
\* and although the counter of the code is left as it is by a stop and by a
\* failing start.
THEOREM BudgetHolds == Spec => ReconnectBudget
<1>1. IInv => retries <= MaxReconnectAttempts
  BY DEF IInv, BudgetInv
<1>2. ASSUME IInv, [Next]_vars, step = "react", cont' = "fail", activeTarget # None
      PROVE  retries = MaxReconnectAttempts
  <2>1. cont = "none" /\ owner \in Reports
    BY <1>2 DEF IInv, LockInv
  <2>2. ReportActs
    BY <1>2, <2>1 DEF IInv, TypeOK, LockInv, Next, UserActs, HolderActs, EnvironmentActs, StartActs,
       StopActs, vars, ConnectBegins, ConnectSucceeds, ConnectFails, ConnectAbandoned, requestStop,
       StoreStartJob, Grant, Own, FirstStep, StartIgnored, StartAccepted, OpenTransport, DeliverServer,
       OpenTunnel, ExecServer, OpenSockets, NoSurface, BeginStreaming, TeardownBegins,
       CloseControlChannel, CloseConnection, JoinPump, CloseProcess, CloseTunnel, AfterTeardown,
       StopStandsAside, StopNothingToDo, StopTearsDown, ReportDropped, Reconnect, Release,
       ServerExits, StreamLasts, AdbHangs, DecoderFails, PumpEnds, start, StartLocks,
       StartCancelledBeforeLock, StopCaptures, StopCancels, StopLocks, ReportLocks, Enqueue
  <2>3. reported[owner] = generation /\ AttemptsUsed >= MaxReconnectAttempts
    BY <1>2, <2>2 DEF ReportActs, ReportStale, BudgetSpent, TearDownThen
  <2>4. res["pump"] = generation /\ generation # 0
    BY <1>2, <2>1, <2>3 DEF IInv, TypeOK, TagInv, Tag, BudgetInv
  <2>5. streamed \in {"briefly", "stable"}
    BY <1>2, <2>4 DEF IInv, TypeOK, BudgetInv
  <2> QED BY <1>2, <2>3, <2>5 DEF IInv, TypeOK, BudgetInv, AttemptsUsed
<1>3. IInv /\ [Next]_vars => [step = "react" /\ cont' = "fail" /\ activeTarget # None =>
                                  retries = MaxReconnectAttempts]_vars
  BY <1>2
<1> QED BY <1>1, <1>3, Invariance, PTL DEF Spec, ReconnectBudget

-----------------------------------------------------------------------------
(* What exists outside the process.                                         *)

\* Unless a start was cancelled, a forward, a process and the sockets of an
\* attempt exist exactly while the holder of the lock, or a field, accounts for
\* them.
AliveInv ==
    /\ step \in BuildSteps => generation # 0
    /\ cancelled = {} /\ step # "hung" => \A g \in Nat :
         /\ <<"sockets", g>> \in alive <=> g # 0 /\ g = res["connection"]
         /\ <<"process", g>> \in alive <=> g # 0 /\ step # "tunnel" /\ g = res["serverHandle"]
         /\ <<"forward", g>> \in alive <=> \/ step = "exec" /\ g = generation
                                           \/ g # 0 /\ g = res["serverHandle"]

\* A step that neither makes nor removes anything.
LEMMA NothingIsMade ==
    ASSUME AliveInv, UNCHANGED <<alive, generation>>, cancelled \subseteq cancelled',
           UNCHANGED <<res["connection"], res["serverHandle"]>>,
           step' = step \/ {step, step'} \cap {"exec", "tunnel", "hung"} = {},
           step' \in BuildSteps => step \in BuildSteps
    PROVE  AliveInv'
<1>1. cancelled' = {} => cancelled = {}
  OBVIOUS
<1>2. /\ step' = "exec" <=> step = "exec"
      /\ step' = "tunnel" <=> step = "tunnel"
      /\ step' = "hung" <=> step = "hung"
  OBVIOUS
<1> QED BY <1>1, <1>2 DEF AliveInv

\* The steps outside the lock make and remove nothing.
LEMMA OutsideKeepsAlive ==
    ASSUME IInv, AliveInv,
           \/ UserActs \/ StoreStartJob \/ (EnvironmentActs /\ ~AdbHangs)
           \/ \E j \in Starts : start(j) \/ StartCancelledBeforeLock(j)
           \/ \E s \in Stops : StopActs(s)
           \/ \E r \in Reports : ReportLocks(r)
           \/ UNCHANGED vars
    PROVE  AliveInv'
<1>1. UNCHANGED <<alive, generation, res, step>> /\ cancelled \subseteq cancelled'
  <2>1. CASE UserActs \/ StoreStartJob
    BY <2>1 DEF UserActs, ConnectBegins, ConnectSucceeds, ConnectFails, ConnectAbandoned,
       requestStop, StoreStartJob
  <2>2. CASE EnvironmentActs /\ ~AdbHangs
    BY <2>2 DEF EnvironmentActs, ServerExits, StreamLasts, DecoderFails, PumpEnds
  <2>3. ASSUME NEW j \in Starts, start(j) \/ StartCancelledBeforeLock(j)
        PROVE  UNCHANGED <<alive, generation, res, step>> /\ cancelled \subseteq cancelled'
    BY <2>3 DEF start, StartCancelledBeforeLock
  <2>4. ASSUME NEW s \in Stops, StopActs(s)
        PROVE  UNCHANGED <<alive, generation, res, step>> /\ cancelled \subseteq cancelled'
    BY <2>4 DEF StopActs, StopCaptures, StopCancels, StopLocks, Enqueue
  <2>5. ASSUME NEW r \in Reports, ReportLocks(r)
        PROVE  UNCHANGED <<alive, generation, res, step>> /\ cancelled \subseteq cancelled'
    BY <2>5 DEF ReportLocks, Enqueue
  <2>6. CASE UNCHANGED vars
    BY <2>6 DEF vars
  <2> QED BY <2>1, <2>2, <2>3, <2>4, <2>5, <2>6
<1> QED BY <1>1, NothingIsMade

\* The lock is taken, and given back.
LEMMA LockKeepsAlive ==
    ASSUME IInv, AliveInv,
           \/ Grant \/ (\E j \in Starts : StartLocks(j)) \/ StartIgnored \/ StartAccepted
           \/ StopStandsAside \/ StopNothingToDo \/ StopTearsDown
           \/ ReportDropped \/ ReportActs
    PROVE  AliveInv'
<1>1. UNCHANGED <<alive, generation, res>> /\ cancelled' = cancelled
  BY DEF Grant, Own, StartLocks, Enqueue, StartIgnored, StartAccepted, Release, TearDownThen,
     StopStandsAside, StopNothingToDo, StopTearsDown, ReportDropped, ReportActs, failLocked
<1>2. step' = step \/ ({step, step'} \subseteq {"none", "begin"} \cup EntrySteps)
  <2>1. CASE Grant \/ \E j \in Starts : StartLocks(j)
    BY <2>1 DEF IInv, LockInv, Grant, Own, FirstStep, StartLocks, Enqueue
  <2>2. CASE \/ StartIgnored \/ StartAccepted \/ StopStandsAside \/ StopNothingToDo
             \/ StopTearsDown \/ ReportDropped \/ ReportActs
    BY <2>2 DEF StartIgnored, StartAccepted, Release, TearDownThen,
       StopStandsAside, StopNothingToDo, StopTearsDown, ReportDropped, ReportActs, failLocked
  <2> QED BY <2>1, <2>2
<1>3. step' = step \/ {step, step'} \cap {"exec", "tunnel", "hung"} = {}
  BY <1>2
<1>4. step' \in BuildSteps => step \in BuildSteps
  BY <1>2
<1> QED BY <1>1, <1>3, <1>4, NothingIsMade

\* The steps of a start.
LEMMA BuildKeepsAlive ==
    ASSUME IInv, AliveInv,
           \/ OpenTransport \/ DeliverServer \/ OpenTunnel \/ ExecServer \/ OpenSockets
           \/ NoSurface \/ BeginStreaming
    PROVE  AliveInv'
<1>0. /\ generation \in Nat /\ res \in [Fields -> Nat]
      /\ step \in BuildSteps /\ generation # 0 /\ cancelled' = cancelled
  BY DEF IInv, TypeOK, AliveInv, OpenTransport, DeliverServer, OpenTunnel, ExecServer,
     OpenSockets, NoSurface, BeginStreaming, GoTo, Release, failLocked, Abort, TearDownThen
<1>1. CASE \/ OpenTransport \/ DeliverServer \/ NoSurface \/ BeginStreaming
  <2>1. /\ UNCHANGED <<alive, generation, res["connection"], res["serverHandle"]>>
        /\ {step, step'} \cap {"exec", "tunnel", "hung"} = {}
    BY <1>0, <1>1 DEF OpenTransport, DeliverServer, NoSurface, BeginStreaming, GoTo, Release,
       failLocked, Abort, TearDownThen
  <2> QED BY <1>0, <2>1, NothingIsMade
<1>2. CASE OpenTunnel
  <2>1. res' = res /\ generation' = generation /\ step = "forward"
    BY <1>2 DEF OpenTunnel
  <2>2. res["serverHandle"] = 0
    BY <2>1 DEF IInv, ResInv
  <2>3. CASE cancelled # {}
    BY <1>0, <2>1, <2>3 DEF AliveInv
  <2>4. CASE cancelled = {}
    <3>1. \E stray \in SUBSET {<<"stray", 0>>} :
            \/ step' = "exec" /\ alive' = alive \cup stray \cup {<<"forward", generation>>}
            \/ step' = "begin" /\ alive' = alive \cup stray
      BY <1>2, <2>4 DEF OpenTunnel, Active, Abort, GoTo, failLocked, TearDownThen
    <3> QED BY <1>0, <2>1, <2>2, <2>4, <3>1 DEF AliveInv
  <2> QED BY <2>3, <2>4
<1>3. CASE ExecServer
  <2>1. generation' = generation /\ step = "exec"
    BY <1>3 DEF ExecServer
  <2>2. res["serverHandle"] = 0
    BY <2>1 DEF IInv, ResInv
  <2>3. CASE cancelled # {}
    BY <1>0, <2>1, <2>3 DEF AliveInv
  <2>4. CASE cancelled = {}
    <3>1. \/ /\ step' = "sockets" /\ alive' = alive \cup {<<"process", generation>>}
             /\ res' = [res EXCEPT !["serverHandle"] = generation]
          \/ /\ step' = "begin" /\ res' = res
             /\ \/ alive' = alive \ {<<"forward", generation>>}
                \/ alive' = (alive \ {<<"forward", generation>>})
                               \cup {<<"stray", 0>>}
      BY <1>3, <2>4 DEF ExecServer, Active, GoTo, failLocked, TearDownThen, LaunchCleanup,
         closeTunnel
    <3> QED BY <1>0, <2>1, <2>2, <2>4, <3>1 DEF AliveInv
  <2> QED BY <2>3, <2>4
<1>4. CASE OpenSockets
  <2>1. generation' = generation /\ step = "sockets"
    BY <1>4 DEF OpenSockets
  <2>2. res["connection"] = 0
    BY <2>1 DEF IInv, ResInv
  <2>3. CASE cancelled # {}
    BY <1>0, <2>1, <2>3 DEF AliveInv
  <2>4. CASE cancelled = {}
    <3>1. \/ /\ step' = "surface" /\ alive' = alive \cup {<<"sockets", generation>>}
             /\ res' = [res EXCEPT !["connection"] = generation]
          \/ step' = "begin" /\ res' = res /\ alive' = alive
      BY <1>4, <2>4 DEF OpenSockets, Active, Abort, GoTo, failLocked, TearDownThen
    <3> QED BY <1>0, <2>1, <2>2, <2>4, <3>1 DEF AliveInv
  <2> QED BY <2>3, <2>4
<1> QED BY <1>1, <1>2, <1>3, <1>4

\* The steps of a teardown, and what follows it.
LEMMA TeardownKeepsAlive ==
    ASSUME IInv, AliveInv,
           \/ TeardownBegins \/ CloseControlChannel \/ CloseConnection \/ JoinPump
           \/ CloseProcess \/ CloseTunnel \/ AfterTeardown \/ Reconnect
    PROVE  AliveInv'
<1>0. /\ generation \in Nat /\ res \in [Fields -> Nat] /\ cancelled' = cancelled
  BY DEF IInv, TypeOK, TeardownBegins, CloseControlChannel, CloseConnection, JoinPump,
     CloseProcess, CloseTunnel, AfterTeardown, Reconnect, GoTo, Release
<1>1. CASE TeardownBegins
  <2>1. UNCHANGED <<alive, res>> /\ step = "begin" /\ step' = "drain"
    BY <1>1 DEF TeardownBegins, GoTo
  <2> QED BY <1>0, <2>1 DEF AliveInv
<1>2. CASE CloseControlChannel
  <2>1. /\ UNCHANGED <<alive, generation>> /\ step = "drain" /\ step' = "close"
        /\ res' = [res EXCEPT !["controlChannel"] = 0]
    BY <1>2 DEF CloseControlChannel, GoTo
  <2> QED BY <1>0, <2>1 DEF AliveInv
<1>3. CASE CloseConnection
  <2>1. /\ generation' = generation /\ step = "close" /\ step' = "join"
        /\ res' = [res EXCEPT !["connection"] = 0]
        /\ alive' = alive \ {<<"sockets", res["connection"]>>}
    BY <1>3 DEF CloseConnection, GoTo
  <2> QED BY <1>0, <2>1 DEF AliveInv
<1>4. CASE JoinPump
  <2>1. /\ UNCHANGED <<alive, generation>> /\ step = "join" /\ step' = "process"
        /\ res' = [res EXCEPT !["pump"] = 0, !["decoder"] = 0]
    BY <1>4 DEF JoinPump, GoTo
  <2> QED BY <1>0, <2>1 DEF AliveInv
<1>5. CASE CloseProcess
  <2>1. UNCHANGED <<res, generation>> /\ step = "process" /\ step' = "tunnel"
    BY <1>5 DEF CloseProcess, GoTo
  <2>2. cancelled = {} =>
          \/ alive' = alive \ {<<"process", res["serverHandle"]>>}
          \/ alive' = (alive \ {<<"process", res["serverHandle"]>>}) \cup {<<"unkilled", 0>>}
    BY <1>5 DEF CloseProcess, Active
  <2> QED BY <1>0, <2>1, <2>2 DEF AliveInv
<1>6. CASE CloseTunnel
  <2>1. /\ generation' = generation /\ step = "tunnel" /\ step' = "after"
        /\ res' = [res EXCEPT !["serverHandle"] = 0, !["transport"] = 0]
    BY <1>6 DEF CloseTunnel, GoTo
  <2>2. cancelled = {} =>
          \/ res["serverHandle"] = 0 /\ alive' = alive
          \/ alive' = alive \ {<<"forward", res["serverHandle"]>>}
          \/ alive' = (alive \ {<<"forward", res["serverHandle"]>>})
                         \cup {<<"stray", 0>>}
    BY <1>6 DEF CloseTunnel, closeTunnel, Active
  <2> QED BY <1>0, <2>1, <2>2 DEF AliveInv
<1>7. CASE AfterTeardown
  <2>1. UNCHANGED <<alive, res>> /\ step = "after"
    BY <1>7 DEF AfterTeardown
  <2>2. \/ step' = "open" /\ generation' = generation + 1
        \/ step' \in {"none", "delay"} /\ generation' = generation
    BY <1>7 DEF AfterTeardown, BeginAttempt, GoTo, Release
  <2> QED BY <1>0, <2>1, <2>2 DEF AliveInv
<1>8. CASE Reconnect
  <2>1. /\ UNCHANGED <<alive, res>> /\ step = "delay" /\ step' = "open"
        /\ generation' = generation + 1
    BY <1>8 DEF Reconnect, BeginAttempt, GoTo
  <2> QED BY <1>0, <2>1 DEF AliveInv
<1> QED BY <1>1, <1>2, <1>3, <1>4, <1>5, <1>6, <1>7, <1>8

\* A start that fails at any stage leaves no forward, no server process and no
\* socket behind, unless a start was cancelled, except a forward made or kept by
\* an adb that failed and a process that the kill did not reach: whenever the lock
\* is free, all else that exists is what the fields hold.
THEOREM FailedStartsLeaveNothing == Spec => []FailedStartLeavesNothing
<1>1. Init => AliveInv
  BY DEF Init, AliveInv
<1>2. IInv /\ AliveInv /\ [Next]_vars => AliveInv'
  <2> SUFFICES ASSUME IInv, AliveInv, [Next]_vars PROVE AliveInv'
    OBVIOUS
  <2>1. CASE HolderActs
    BY <2>1, LockKeepsAlive, BuildKeepsAlive, TeardownKeepsAlive DEF HolderActs
  <2>2. CASE Grant \/ \E j \in Starts : StartLocks(j)
    BY <2>2, LockKeepsAlive
  <2>3. CASE AdbHangs
    BY <2>3 DEF AliveInv, AdbHangs
  <2>4. CASE \/ UserActs \/ StoreStartJob \/ (EnvironmentActs /\ ~AdbHangs)
             \/ \E j \in Starts : start(j) \/ StartCancelledBeforeLock(j)
             \/ \E s \in Stops : StopActs(s)
             \/ \E r \in Reports : ReportLocks(r)
             \/ UNCHANGED vars
    BY <2>4, OutsideKeepsAlive
  <2> QED BY <2>1, <2>2, <2>3, <2>4 DEF Next, StartActs
<1>3. IInv /\ AliveInv => FailedStartLeavesNothing
  <2> SUFFICES ASSUME IInv, AliveInv, owner = None, cancelled = {}
               PROVE  {a \in alive : a[1] \notin {"stray", "unkilled"}} = Accounted
    BY DEF FailedStartLeavesNothing
  <2>1. step = "none" /\ alive \subseteq Kinds \X Nat /\ res \in [Fields -> Nat]
    BY DEF IInv, LockInv, TypeOK
  <2>2. ASSUME NEW a \in alive, a[1] \notin {"stray", "unkilled"} PROVE a \in Accounted
    <3>1. PICK k \in Kinds, g \in Nat : a = <<k, g>>
      BY <2>1, <2>2
    <3>2. k \in {"forward", "process", "sockets"}
      BY <2>2, <3>1
    <3> QED BY <2>1, <2>2, <3>1, <3>2 DEF AliveInv, Accounted
  <2>3. ASSUME NEW a \in Accounted PROVE a \in alive /\ a[1] \notin {"stray", "unkilled"}
    <3>1. \/ \E k \in {"forward", "process"} :
               a = <<k, res["serverHandle"]>> /\ res["serverHandle"] # 0
          \/ a = <<"sockets", res["connection"]>> /\ res["connection"] # 0
      BY <2>3 DEF Accounted
    <3>2. res["serverHandle"] \in Nat /\ res["connection"] \in Nat
      BY <2>1
    <3>3. CASE \E k \in {"forward", "process"} :
                 a = <<k, res["serverHandle"]>> /\ res["serverHandle"] # 0
      <4>1. res["serverHandle"] # 0 => <<"forward", res["serverHandle"]>> \in alive
        BY <2>1, <3>2 DEF AliveInv
      <4>2. res["serverHandle"] # 0 => <<"process", res["serverHandle"]>> \in alive
        BY <2>1, <3>2 DEF AliveInv
      <4> QED BY <3>3, <4>1, <4>2
    <3>4. CASE a = <<"sockets", res["connection"]>> /\ res["connection"] # 0
      BY <2>1, <3>2, <3>4 DEF AliveInv
    <3> QED BY <3>1, <3>3, <3>4
  <2> QED BY <2>2, <2>3
<1> QED BY <1>1, <1>2, <1>3, Invariance, PTL DEF Spec

-----------------------------------------------------------------------------
(* Which starts are cancelled.                                              *)

\* A start that was not launched is neither cancelled nor about to be.
KnownInv ==
    /\ \A j \in cancelled : pc[j] # "idle"
    /\ \A s \in Stops : jobToCancel[s] # None => pc[jobToCancel[s]] # "idle"
    /\ startJob # None => pc[startJob] # "idle"
    /\ pending # None => pc[pending] # "idle"

\* A stop() has captured its job and cancelled it before the next mirror screen
\* is opened.
PromptInv ==
    /\ ui \in {"entering", "mirror"} => \A s \in Stops : pc[s] \notin {"launched", "captured"}
    /\ ui = "mirror" => shown \notin cancelled

\* No coroutine is launched twice.
LEMMA LaunchedOnce ==
    ASSUME IInv, [Next]_vars, NEW c \in Coroutines, pc[c] # "idle"
    PROVE  pc'[c] # "idle"
<1>0. pc \in [Coroutines -> {"idle", "launched", "captured", "joining", "waiting",
                             "holding", "done"}]
  BY DEF IInv, TypeOK
<1>1. CASE pc' = pc
  BY <1>1
<1>2. CASE \E d \in Coroutines, v \in {"launched", "captured", "joining", "waiting",
                                       "holding", "done"} : pc' = [pc EXCEPT ![d] = v]
  BY <1>0, <1>2
<1>3. pc' = pc \/ \E d \in Coroutines, v \in {"launched", "captured", "joining", "waiting",
                                              "holding", "done"} : pc' = [pc EXCEPT ![d] = v]
  <2> DEFINE Goal == pc' = pc \/ \E d \in Coroutines, v \in {"launched", "captured", "joining",
                                    "waiting", "holding", "done"} : pc' = [pc EXCEPT ![d] = v]
  <2>1. CASE UserActs \/ StoreStartJob
    BY <2>1 DEF UserActs, ConnectBegins, ConnectSucceeds, ConnectFails, ConnectAbandoned,
       requestStop, StoreStartJob
  <2>2. CASE HolderActs
    <3>1. step # "none"
      BY <2>2 DEF HolderActs, StartIgnored, StartAccepted, OpenTransport, DeliverServer,
         OpenTunnel, ExecServer, OpenSockets, NoSurface, BeginStreaming, TeardownBegins,
         CloseControlChannel, CloseConnection, JoinPump, CloseProcess, CloseTunnel,
         AfterTeardown, StopStandsAside, StopNothingToDo, StopTearsDown, ReportDropped,
         ReportActs, Reconnect
    <3>2. owner \in Coroutines
      BY <3>1 DEF IInv, LockInv, TypeOK
    <3>3. pc' = pc \/ pc' = [pc EXCEPT ![owner] = "done"]
      BY <2>2 DEF HolderActs, StartIgnored, StartAccepted, OpenTransport, DeliverServer,
         OpenTunnel, ExecServer, OpenSockets, NoSurface, BeginStreaming, TeardownBegins,
         CloseControlChannel, CloseConnection, JoinPump, CloseProcess, CloseTunnel,
         AfterTeardown, StopStandsAside, StopNothingToDo, StopTearsDown, ReportDropped,
         ReportActs, Reconnect, GoTo, Release, failLocked, Abort, TearDownThen
    <3> QED BY <3>2, <3>3
  <2>3. CASE Grant
    <3>1. Head(waitq) \in Coroutines
      BY <2>3 DEF IInv, TypeOK, QueueOK, Grant
    <3> QED BY <2>3, <3>1 DEF Grant, Own
  <2>4. CASE EnvironmentActs
    BY <2>4 DEF EnvironmentActs, ServerExits, StreamLasts, AdbHangs, DecoderFails, PumpEnds, Launch
  <2>5. ASSUME NEW j \in Starts, start(j) \/ StartActs(j) PROVE Goal
    BY <2>5 DEF start, StartActs, StartLocks, StartCancelledBeforeLock, Enqueue, Own
  <2>6. ASSUME NEW s \in Stops, StopActs(s) PROVE Goal
    BY <2>6 DEF StopActs, StopCaptures, StopCancels, StopLocks, Enqueue
  <2>7. ASSUME NEW r \in Reports, ReportLocks(r) PROVE Goal
    BY <2>7 DEF ReportLocks, Enqueue
  <2>8. CASE UNCHANGED vars
    BY <2>8 DEF vars
  <2> QED BY <2>1, <2>2, <2>3, <2>4, <2>5, <2>6, <2>7, <2>8 DEF Next
<1> QED BY <1>1, <1>2, <1>3

\* What a step does to the jobs that are known and to the screen: only a stop()
\* cancels, and only what it captured.
LEMMA JobsStep ==
    ASSUME IInv, [Next]_vars
    PROVE  \/ /\ UNCHANGED <<cancelled, jobToCancel, shown>>
              /\ startJob' \in {startJob, pending, None} /\ pending' \in {pending, None}
              /\ \/ ui' \in {ui, "connect", "probing"}
                 \/ ui' = "entering" /\ pc' = pc /\ (PromptDispatch => Dispatched)
              /\ \A s \in Stops : pc[s] \notin {"launched", "captured"} =>
                    pc'[s] \notin {"launched", "captured"} \/ ui' = "connect"
           \/ \E j \in Starts : start(j)
           \/ \E s \in Stops : StopCaptures(s) \/ StopCancels(s)
<1> DEFINE Goal == /\ UNCHANGED <<cancelled, jobToCancel, shown>>
                   /\ startJob' \in {startJob, pending, None} /\ pending' \in {pending, None}
                   /\ \/ ui' \in {ui, "connect", "probing"}
                      \/ ui' = "entering" /\ pc' = pc /\ (PromptDispatch => Dispatched)
                   /\ \A s \in Stops : pc[s] \notin {"launched", "captured"} =>
                         pc'[s] \notin {"launched", "captured"} \/ ui' = "connect"
<1>0. pc \in [Coroutines -> {"idle", "launched", "captured", "joining", "waiting",
                             "holding", "done"}]
  BY DEF IInv, TypeOK
<1>1. CASE UserActs \/ StoreStartJob
  <2>1. CASE ConnectBegins \/ ConnectFails \/ ConnectAbandoned \/ StoreStartJob
    BY <2>1 DEF ConnectBegins, ConnectFails, ConnectAbandoned, StoreStartJob
  <2>2. CASE ConnectSucceeds
    BY <2>2 DEF ConnectSucceeds
  <2>3. ASSUME NEW s \in Stops, requestStop(s) PROVE Goal
    BY <2>3 DEF requestStop
  <2> QED BY <1>1, <2>1, <2>2, <2>3 DEF UserActs
<1>2. CASE HolderActs
  <2>1. /\ UNCHANGED <<cancelled, jobToCancel, shown, ui, pending>>
        /\ startJob' \in {startJob, None}
    BY <1>2 DEF HolderActs, StartIgnored, StartAccepted, OpenTransport, DeliverServer,
       OpenTunnel, ExecServer, OpenSockets, NoSurface, BeginStreaming, TeardownBegins,
       CloseControlChannel, CloseConnection, JoinPump, CloseProcess, CloseTunnel,
       AfterTeardown, StopStandsAside, StopNothingToDo, StopTearsDown, ReportDropped,
       ReportActs, Reconnect, GoTo, Release, failLocked, Abort, TearDownThen
  <2>2. pc' = pc \/ pc' = [pc EXCEPT ![owner] = "done"]
    BY <1>2 DEF HolderActs, StartIgnored, StartAccepted, OpenTransport, DeliverServer,
       OpenTunnel, ExecServer, OpenSockets, NoSurface, BeginStreaming, TeardownBegins,
       CloseControlChannel, CloseConnection, JoinPump, CloseProcess, CloseTunnel,
       AfterTeardown, StopStandsAside, StopNothingToDo, StopTearsDown, ReportDropped,
       ReportActs, Reconnect, GoTo, Release, failLocked, Abort, TearDownThen
  <2>3. \A s \in Stops : pc[s] \notin {"launched", "captured"} =>
           pc'[s] \notin {"launched", "captured"}
    BY <1>0, <2>2
  <2> QED BY <2>1, <2>3
<1>3. CASE Grant
  <2>1. UNCHANGED <<cancelled, jobToCancel, uiVars>>
    BY <1>3 DEF Grant
  <2>2. \E v \in {"holding", "done"} : pc' = [pc EXCEPT ![Head(waitq)] = v]
    BY <1>3 DEF Grant, Own
  <2> QED BY <1>0, <2>1, <2>2
<1>4. CASE EnvironmentActs
  <2>1. UNCHANGED <<cancelled, jobToCancel, uiVars>>
    BY <1>4 DEF EnvironmentActs, ServerExits, StreamLasts, AdbHangs, DecoderFails, PumpEnds
  <2>2. pc' = pc \/ \E r \in Reports : pc' = [pc EXCEPT ![r] = "launched"]
    BY <1>4 DEF EnvironmentActs, ServerExits, StreamLasts, AdbHangs, DecoderFails, PumpEnds, Launch
  <2> QED BY <1>0, <2>1, <2>2
<1>5. ASSUME NEW j \in Starts, StartActs(j) PROVE Goal
  BY <1>0, <1>5 DEF StartActs, StartLocks, StartCancelledBeforeLock, Enqueue, Own
<1>6. ASSUME NEW s \in Stops, StopLocks(s) PROVE Goal
  BY <1>0, <1>6 DEF StopLocks, Enqueue
<1>7. ASSUME NEW r \in Reports, ReportLocks(r) PROVE Goal
  BY <1>0, <1>7 DEF ReportLocks, Enqueue
<1>8. CASE UNCHANGED vars
  BY <1>8 DEF vars
<1> QED BY <1>1, <1>2, <1>3, <1>4, <1>5, <1>6, <1>7, <1>8 DEF Next, StopActs

\* What is known to be cancelled stays launched.
LEMMA KnownKeeps ==
    ASSUME IInv, KnownInv, [Next]_vars
    PROVE  KnownInv'
<1>0. /\ cancelled \subseteq Starts /\ jobToCancel \in [Stops -> Starts \cup {None}]
      /\ startJob \in Starts \cup {None} /\ pending \in Starts \cup {None}
      /\ pc \in [Coroutines -> {"idle", "launched", "captured", "joining", "waiting",
                                "holding", "done"}]
  BY DEF IInv, TypeOK
<1>1. \A j \in Starts : pc[j] # "idle" => pc'[j] # "idle"
  BY LaunchedOnce
<1>2. CASE /\ UNCHANGED <<cancelled, jobToCancel>>
           /\ startJob' \in {startJob, pending, None} /\ pending' \in {pending, None}
  BY <1>0, <1>1, <1>2 DEF KnownInv
<1>3. ASSUME NEW j \in Starts, start(j) PROVE KnownInv'
  <2>1. /\ UNCHANGED <<cancelled, jobToCancel, startJob>> /\ pending' = j
        /\ pc'[j] = "launched"
    BY <1>0, <1>3 DEF start
  <2> QED BY <1>0, <1>1, <2>1 DEF KnownInv
<1>4. ASSUME NEW s \in Stops, StopCaptures(s) PROVE KnownInv'
  <2>1. /\ UNCHANGED <<cancelled, startJob, pending>>
        /\ jobToCancel' = [jobToCancel EXCEPT ![s] = startJob]
    BY <1>4 DEF StopCaptures
  <2> QED BY <1>0, <1>1, <2>1 DEF KnownInv
<1>5. ASSUME NEW s \in Stops, StopCancels(s) PROVE KnownInv'
  <2>1. /\ UNCHANGED <<jobToCancel, startJob, pending>>
        /\ cancelled' = cancelled \cup ({jobToCancel[s]} \ {None})
    BY <1>5 DEF StopCancels
  <2> QED BY <1>0, <1>1, <2>1 DEF KnownInv
<1> QED BY <1>2, <1>3, <1>4, <1>5, JobsStep

\* A stop() that was launched has cancelled what it captured before the next
\* start() is possible, if the dispatcher is never starved.
LEMMA PromptKeeps ==
    ASSUME PromptDispatch, IInv, KnownInv, PromptInv, [Next]_vars
    PROVE  PromptInv'
<1>0. pc \in [Coroutines -> {"idle", "launched", "captured", "joining", "waiting",
                             "holding", "done"}]
  BY DEF IInv, TypeOK
<1>1. CASE /\ UNCHANGED <<cancelled, shown>>
           /\ \/ ui' \in {ui, "connect", "probing"}
              \/ ui' = "entering" /\ pc' = pc /\ (PromptDispatch => Dispatched)
           /\ \A s \in Stops : pc[s] \notin {"launched", "captured"} =>
                 pc'[s] \notin {"launched", "captured"} \/ ui' = "connect"
  <2>1. CASE ui' \in {ui, "connect", "probing"}
    BY <1>1, <2>1 DEF PromptInv
  <2>2. CASE ui' = "entering" /\ pc' = pc /\ Dispatched
    BY <2>2 DEF PromptInv, Dispatched
  <2> QED BY <1>1, <2>1, <2>2
<1>2. ASSUME NEW j \in Starts, start(j) PROVE PromptInv'
  <2>1. /\ ui = "entering" /\ ui' = "mirror" /\ shown' = j /\ pc[j] = "idle"
        /\ cancelled' = cancelled /\ pc' = [pc EXCEPT ![j] = "launched"]
    BY <1>2 DEF start
  <2>2. j \notin cancelled
    BY <2>1 DEF KnownInv
  <2>3. \A s \in Stops : pc'[s] = pc[s]
    BY <1>0, <2>1
  <2> QED BY <2>1, <2>2, <2>3 DEF PromptInv
<1>3. ASSUME NEW s \in Stops, StopCaptures(s) \/ StopCancels(s) PROVE PromptInv'
  <2>1. pc[s] \in {"launched", "captured"} /\ ui' = ui
    BY <1>3 DEF StopCaptures, StopCancels
  <2> QED BY <2>1 DEF PromptInv
<1> QED BY <1>1, <1>2, <1>3, JobsStep

\* The start() of the mirror screen on display is never cancelled by an earlier
\* stop(), as long as the dispatcher is not starved for the whole round trip to
\* the Target that precedes a start() (MirrorSession.kt, stop()).
THEOREM NewestStartIsNotCancelled ==
    ASSUME PromptDispatch
    PROVE  Spec => []NewestStartSurvives
<1>1. Init => KnownInv /\ PromptInv
  BY DEF Init, KnownInv, PromptInv
<1>2. IInv /\ KnownInv /\ PromptInv /\ [Next]_vars => KnownInv' /\ PromptInv'
  BY KnownKeeps, PromptKeeps
<1>3. PromptInv => NewestStartSurvives
  BY DEF PromptInv, NewestStartSurvives
<1> QED BY <1>1, <1>2, <1>3, Invariance, PTL DEF Spec
=============================================================================
