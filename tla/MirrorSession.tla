--------------------------- MODULE MirrorSession ---------------------------
(***************************************************************************)
(* The lifecycle of DroidCtl's mirroring session (session/MirrorSession.kt)*)
(* with the UI that drives it (ui/DroidCtlApp.kt, ui/mirror, ui/discovery),*)
(* the launcher (scrcpy/ScrcpyLauncher.kt) and the threads that report a   *)
(* dead stream (video/VideoSink.kt, video/VideoDecoder.kt).                *)
(*                                                                         *)
(* start(), requestStop() and onStreamFailure() each run in a coroutine of *)
(* the application scope (Dispatchers.Default, so truly concurrent) and    *)
(* meet in lifecycleMutex.  A coroutine is an element of Starts, Stops or  *)
(* Reports; each is used once.  What the code does while it holds the lock *)
(* is sequential, so one program counter `step' serves whoever owns it;    *)
(* one step reaches from one suspension point to the next.                 *)
(***************************************************************************)
EXTENDS Naturals, Sequences, FiniteSets

CONSTANTS
    Starts,                 \* coroutines launched by start()
    Stops,                  \* coroutines launched by requestStop()
    Reports,                \* coroutines launched to run onStreamFailure()
    None,                   \* null
    MaxReconnectAttempts,   \* MAX_RECONNECT_ATTEMPTS
    PromptDispatch          \* TRUE: the dispatcher is never starved (see Dispatched)

Coroutines == Starts \cup Stops \cup Reports

ASSUME CoroutineAssumption ==
    /\ Starts \cap Stops = {} /\ Starts \cap Reports = {} /\ Stops \cap Reports = {}
    /\ None \notin Coroutines

ASSUME BudgetAssumption == MaxReconnectAttempts \in Nat /\ PromptDispatch \in BOOLEAN

\* The nullable fields teardown releases; the value is the generation of the
\* attempt that filled the field, 0 when it is null.
Fields == {"transport", "serverHandle", "connection", "controlChannel", "pump", "decoder"}

Null == [f \in Fields |-> 0]

VARIABLES
    phase,              \* the kind of _state
    stopping, generation, reconnectAttempt,
    streamed,           \* how long since streamingSinceMillis: see StreamLasts
    activeTarget,       \* the start() whose target the session serves
    res,                \* the resource fields
    alive,              \* <<kind, generation>>: what exists outside this object
    peerUp,             \* the Target still holds its end of the control socket
    pumps,              \* generations whose VideoStreamPump thread still runs
    startJob, pending,  \* pending: launched by start(), not yet stored in startJob
    ui, shown,          \* the screen, and the start() the mirror screen belongs to
    pc, cancelled,      \* of every coroutine; the start jobs cancelled
    jobToCancel,        \* stop()'s local
    reported,           \* onStreamFailure's reportedGeneration
    waitq, owner,       \* lifecycleMutex: FIFO waiters and the holder
    step, cont,         \* where the holder is; what follows its teardown
    retries             \* history: reconnects since start() or a stable session

attempts == <<reconnectAttempt, retries>>
session == <<phase, stopping, generation, attempts, streamed, activeTarget>>
resources == <<res, alive, peerUp, pumps>>
uiVars == <<startJob, pending, ui, shown>>
jobs == <<pc, cancelled, jobToCancel, reported>>
lock == <<waitq, owner, step, cont>>
vars == <<session, resources, uiVars, jobs, lock>>

Phases == {"Idle", "Connecting", "Preparing", "AwaitingSockets", "Streaming",
           "Reconnecting", "Stopped", "Failed"}

\* SessionState.isBusy (Pairing and Connecting are one phase here, and so are
\* StartingServer and AwaitingSockets, which are assigned back to back).
isBusy == phase \in {"Connecting", "Preparing", "AwaitingSockets", "Reconnecting"}

EntrySteps == {"check", "decide", "react"}
BuildSteps == {"open", "deliver", "forward", "exec", "sockets", "surface"}
TeardownSteps == {"begin", "drain", "close", "join", "process", "tunnel", "after"}
Steps == {"none", "delay", "hung"} \cup EntrySteps \cup BuildSteps \cup TeardownSteps

Continuations == {"none", "start", "fail", "cancelled", "reconnect", "stop"}

\* "stray" is a forward that adb made or kept although the call failed, and
\* "unkilled" a server process whose kill did not reach it (of attempt 0: nobody
\* looks after them any more).
Kinds == {"forward", "process", "sockets", "stray", "unkilled"}

Init ==
    /\ phase = "Idle" /\ stopping = FALSE /\ generation = 0
    /\ reconnectAttempt = 0 /\ retries = 0 /\ streamed = "no" /\ activeTarget = None
    /\ res = Null /\ alive = {} /\ peerUp = FALSE /\ pumps = {}
    /\ startJob = None /\ pending = None /\ ui = "connect" /\ shown = None
    /\ pc = [c \in Coroutines |-> "idle"] /\ cancelled = {}
    /\ jobToCancel = [s \in Stops |-> None]
    /\ reported = [r \in Reports |-> 0]
    /\ waitq = <<>> /\ owner = None /\ step = "none" /\ cont = "none"

-----------------------------------------------------------------------------
(* The UI, on the main thread.  The mirror screen is entered only after     *)
(* connectTarget()/connectSshTarget() succeeded; these and pair() write     *)
(* _state without the lock.                                                 *)

ConnectBegins ==
    /\ ui = "connect"
    /\ ui' = "probing" /\ phase' = "Connecting"
    /\ UNCHANGED <<stopping, generation, attempts, streamed, activeTarget,
                   resources, startJob, pending, shown, jobs, lock>>

\* The round trip to the Target that precedes a start() takes longer than it
\* takes a launched coroutine to run up to its first suspension point.
Dispatched == pending = None /\ \A c \in Coroutines : pc[c] \notin {"launched", "captured"}

ConnectSucceeds ==
    /\ ui = "probing"
    /\ PromptDispatch => Dispatched
    /\ \E j \in Starts : pc[j] = "idle"     \* bound: another start() is left
    /\ ui' = "entering" /\ phase' = "Idle"
    /\ UNCHANGED <<stopping, generation, attempts, streamed, activeTarget,
                   resources, startJob, pending, shown, jobs, lock>>

ConnectFails ==
    /\ ui = "probing"
    /\ ui' = "connect" /\ phase' = "Failed"
    /\ UNCHANGED <<stopping, generation, attempts, streamed, activeTarget,
                   resources, startJob, pending, shown, jobs, lock>>

\* The screen is left while the probe runs: its scope is cancelled, the
\* CancellationException passes connectTarget() by, and _state stays Connecting.
ConnectAbandoned ==
    /\ ui = "probing"
    /\ ui' = "connect"
    /\ UNCHANGED <<session, resources, startJob, pending, shown, jobs, lock>>

\* MirrorScreen's LaunchedEffect calls start(): scope.launch, and only then
\* startJob = job.
start(j) ==
    /\ ui = "entering" /\ pc[j] = "idle"
    /\ ui' = "mirror" /\ shown' = j /\ pending' = j
    /\ pc' = [pc EXCEPT ![j] = "launched"]
    /\ UNCHANGED <<session, resources, startJob, cancelled, jobToCancel, reported, lock>>

StoreStartJob ==
    /\ pending # None
    /\ startJob' = pending /\ pending' = None
    /\ UNCHANGED <<session, resources, ui, shown, jobs, lock>>

\* MirrorScreen's onDispose.
requestStop(s) ==
    /\ ui = "mirror" /\ pending = None /\ pc[s] = "idle"
    /\ ui' = "connect"
    /\ pc' = [pc EXCEPT ![s] = "launched"]
    /\ UNCHANGED <<session, resources, startJob, pending, shown,
                   cancelled, jobToCancel, reported, lock>>

-----------------------------------------------------------------------------
(* lifecycleMutex (kotlinx.coroutines.sync.Mutex): fair; a cancelled waiter *)
(* is skipped when its turn comes; an uncontended lock() does not look at   *)
(* cancellation.                                                            *)

FirstStep(c) == IF c \in Starts THEN "check" ELSE IF c \in Stops THEN "decide" ELSE "react"

Enqueue(c) ==
    /\ waitq' = Append(waitq, c)
    /\ pc' = [pc EXCEPT ![c] = "waiting"]
    /\ UNCHANGED <<owner, step, cont>>

Own(c) ==
    /\ owner' = c /\ step' = FirstStep(c)
    /\ pc' = [pc EXCEPT ![c] = "holding"]
    /\ UNCHANGED cont

Grant ==
    /\ owner = None /\ waitq # <<>>
    /\ waitq' = Tail(waitq)
    /\ IF pc[Head(waitq)] = "waiting" /\ Head(waitq) \notin cancelled
       THEN Own(Head(waitq))
       ELSE pc' = [pc EXCEPT ![Head(waitq)] = "done"] /\ UNCHANGED <<owner, step, cont>>
    /\ UNCHANGED <<session, resources, uiVars, cancelled, jobToCancel, reported>>

\* withLock's finally, when the owner's coroutine ends.
Release ==
    /\ owner' = None /\ step' = "none" /\ cont' = "none"
    /\ pc' = [pc EXCEPT ![owner] = "done"]
    /\ UNCHANGED <<waitq, cancelled, jobToCancel, reported>>

GoTo(s) ==
    /\ step' = s
    /\ UNCHANGED <<waitq, owner, cont, jobs>>

TearDownThen(k) ==
    /\ step' = "begin" /\ cont' = k
    /\ UNCHANGED <<waitq, owner, jobs>>

-----------------------------------------------------------------------------
(* start(): the coroutine up to the lock, and the check under it.           *)

StartLocks(j) ==
    /\ pc[j] = "launched"
    /\ \/ j \notin cancelled /\ Enqueue(j)
       \/ owner = None /\ waitq = <<>> /\ Own(j) /\ UNCHANGED waitq
    /\ UNCHANGED <<session, resources, uiVars, cancelled, jobToCancel, reported>>

StartCancelledBeforeLock(j) ==
    /\ pc[j] \in {"launched", "waiting"} /\ j \in cancelled
    /\ pc' = [pc EXCEPT ![j] = "done"]
    /\ UNCHANGED <<session, resources, uiVars, cancelled, jobToCancel, reported, lock>>

StartIgnored ==
    /\ step = "check" /\ (isBusy \/ phase = "Streaming")
    /\ Release
    /\ UNCHANGED <<session, resources, uiVars>>

StartAccepted ==
    /\ step = "check" /\ ~isBusy /\ phase # "Streaming"
    /\ TearDownThen("start")
    /\ UNCHANGED <<session, resources, uiVars>>

-----------------------------------------------------------------------------
(* startLocked() and openStream().  A suspending call of a cancelled job    *)
(* throws CancellationException, whatever it had achieved by then.          *)

Active == owner \notin cancelled

\* failLocked(): teardown first, then the Failed state.
failLocked == TearDownThen("fail")

\* catch (e: CancellationException): teardown, then rethrow.
Abort == ~Active /\ TearDownThen("cancelled")

BeginAttempt ==
    /\ generation' = generation + 1
    /\ stopping' = FALSE
    /\ phase' = "Preparing"

\* transports.open(): for adb, no suspension point.
OpenTransport ==
    /\ step = "open"
    /\ \/ /\ res' = [res EXCEPT !["transport"] = generation]
          /\ phase' = "Preparing" /\ GoTo("deliver")
       \/ (failLocked \/ Abort) /\ UNCHANGED <<res, phase>>
    /\ UNCHANGED <<stopping, generation, attempts, streamed, activeTarget,
                   alive, peerUp, pumps, uiVars>>

\* ensureServerOnTarget(), rememberBandwidth(), readDisplaySize().
DeliverServer ==
    /\ step = "deliver"
    /\ \/ Active /\ GoTo("forward") /\ phase' = "Preparing"
       \/ ((Active /\ failLocked) \/ Abort) /\ UNCHANGED phase
    /\ UNCHANGED <<stopping, generation, attempts, streamed, activeTarget,
                   resources, uiVars>>

\* ScrcpyLauncher.launch(), up to the tunnel.  A forward of which adb.forward()
\* said that it failed may exist all the same (RootShellSession.runRaw() says so of
\* any command that takes too long), and one that it made is lost when
\* recordForward() throws.  There are three tries, so the success of one does
\* not exclude such a failure.  A cancellation can be noticed before adb made
\* the forward or after it.
OpenTunnel ==
    /\ step = "forward"
    /\ \/ /\ Active
          /\ \E stray \in SUBSET {<<"stray", 0>>} :
                \/ GoTo("exec") /\ alive' = alive \cup stray \cup {<<"forward", generation>>}
                \/ failLocked /\ alive' = alive \cup stray
       \/ /\ Abort
          /\ \/ UNCHANGED alive
             \/ alive' = alive \cup {<<"forward", generation>>}
    /\ UNCHANGED <<session, res, peerUp, pumps, uiVars>>

\* AdbTransport.closeTunnel(): an adb that refuses is logged and tolerated.
closeTunnel(g) ==
    \/ alive' = alive \ {<<"forward", g>>}
    \/ /\ <<"forward", g>> \in alive
       /\ alive' = (alive \ {<<"forward", g>>}) \cup {<<"stray", 0>>}

\* Fault: a server that does not start leaves its tunnel open.
LaunchCleanupForgotten == UNCHANGED alive

\* "Do not leak the tunnel we just opened."
LaunchCleanup == closeTunnel(generation)

\* ScrcpyLauncher.launch(), from execStreaming() on, and openStream()'s first
\* states.  execStreaming() turns a cancellation into a failure, and the
\* closeTunnel() that answers it is then cancelled itself.
ExecServer ==
    /\ step = "exec"
    /\ \/ /\ Active /\ GoTo("sockets")
          /\ alive' = alive \cup {<<"process", generation>>}
          /\ res' = [res EXCEPT !["serverHandle"] = generation]
          /\ phase' = "AwaitingSockets"
       \/ /\ Active /\ failLocked
          /\ LaunchCleanup
          /\ UNCHANGED <<res, phase>>
       \/ /\ ~Active /\ failLocked
          /\ \/ UNCHANGED alive
             \/ alive' = alive \cup {<<"process", generation>>}
          /\ UNCHANGED <<res, phase>>
    /\ UNCHANGED <<stopping, generation, attempts, streamed, activeTarget,
                   peerUp, pumps, uiVars>>

\* ScrcpyConnection.open().
OpenSockets ==
    /\ step = "sockets"
    /\ \/ /\ Active /\ GoTo("surface")
          /\ res' = [res EXCEPT !["connection"] = generation]
          /\ alive' = alive \cup {<<"sockets", generation>>}
          /\ peerUp' = TRUE
       \/ Active /\ failLocked /\ UNCHANGED <<res, alive, peerUp>>
       \/ /\ Abort
          /\ \/ UNCHANGED alive
             \/ alive' = alive \cup {<<"sockets", generation>>}
          /\ UNCHANGED <<res, peerUp>>
    /\ UNCHANGED <<session, pumps, uiVars>>

\* buildSink(): no surface within SURFACE_TIMEOUT_MS is an IOException.
NoSurface ==
    /\ step = "surface"
    /\ (Active /\ failLocked) \/ Abort
    /\ UNCHANGED <<session, resources, uiVars>>

\* buildSink() and the rest of openStream(): nothing suspends once the surface
\* is there (and in raw-dump mode nothing waits for one).
BeginStreaming ==
    /\ step = "surface"
    /\ res' = [f \in Fields |-> IF f \in {"controlChannel", "pump", "decoder"}
                                THEN generation ELSE res[f]]
    /\ pumps' = pumps \cup {generation}
    /\ streamed' = "briefly" /\ phase' = "Streaming"
    /\ Release
    /\ UNCHANGED <<stopping, generation, attempts, activeTarget, alive, peerUp, uiVars>>

-----------------------------------------------------------------------------
(* teardownLocked().                                                        *)

TeardownBegins ==
    /\ step = "begin"
    /\ stopping' = TRUE /\ generation' = generation + 1 /\ streamed' = "no"
    /\ GoTo("drain")
    /\ UNCHANGED <<phase, attempts, activeTarget, resources, uiVars>>

\* ControlChannel.close() joins a reader that is blocked in a socket read: it
\* returns once the Target closed its end, or at once in a cancelled coroutine.
DrainBlocked == step = "drain" /\ res["controlChannel"] # 0 /\ peerUp /\ Active

CloseControlChannel ==
    /\ step = "drain" /\ ~DrainBlocked
    /\ res' = [res EXCEPT !["controlChannel"] = 0]
    /\ GoTo("close")
    /\ UNCHANGED <<session, alive, peerUp, pumps, uiVars>>

CloseConnection ==
    /\ step = "close"
    /\ alive' = alive \ {<<"sockets", res["connection"]>>}
    /\ res' = [res EXCEPT !["connection"] = 0]
    /\ peerUp' = FALSE
    /\ GoTo("join")
    /\ UNCHANGED <<session, pumps, uiVars>>

\* Fault: a join() without its timeout.
JoinPumpForever ==
    /\ step = "join" /\ res["pump"] \notin pumps
    /\ res' = [res EXCEPT !["pump"] = 0, !["decoder"] = 0]
    /\ GoTo("process")
    /\ UNCHANGED <<session, alive, peerUp, pumps, uiVars>>

\* pump.join() gives up after two seconds, so the thread may outlive it.
JoinPump ==
    /\ step = "join"
    /\ res' = [res EXCEPT !["pump"] = 0, !["decoder"] = 0]
    /\ GoTo("process")
    /\ UNCHANGED <<session, alive, peerUp, pumps, uiVars>>

\* RootProcess.close(): the kill is sent only if the process has reported its
\* pid, and nobody looks at its result; in a cancelled coroutine it is not sent.
\* The shell around the process is closed in any case.
CloseProcess ==
    /\ step = "process"
    /\ LET process == <<"process", res["serverHandle"]>>
       IN \/ alive' = alive \ {process}
          \/ /\ Active /\ process \in alive
             /\ alive' = (alive \ {process}) \cup {<<"unkilled", 0>>}
          \/ ~Active /\ UNCHANGED alive
    /\ GoTo("tunnel")
    /\ UNCHANGED <<session, res, peerUp, pumps, uiVars>>

\* Fault: activeTransport is not cleared.
CloseTunnelKeepsTransport ==
    /\ step = "tunnel"
    /\ res["serverHandle"] # 0 => closeTunnel(res["serverHandle"])
    /\ res["serverHandle"] = 0 => UNCHANGED alive
    /\ res' = [res EXCEPT !["serverHandle"] = 0]
    /\ GoTo("after")
    /\ UNCHANGED <<session, peerUp, pumps, uiVars>>

CloseTunnel ==
    /\ step = "tunnel"
    /\ \/ res["serverHandle"] = 0 /\ UNCHANGED alive
       \/ res["serverHandle"] # 0 /\ Active /\ closeTunnel(res["serverHandle"])
       \/ ~Active /\ UNCHANGED alive
    /\ res' = [res EXCEPT !["serverHandle"] = 0, !["transport"] = 0]
    /\ GoTo("after")
    /\ UNCHANGED <<session, peerUp, pumps, uiVars>>

\* RootShellSession.runRaw(): "a timeout cannot unblock libsu's thread", and the
\* coroutine that waits for it is not resumed either: whoever runs, or waits for,
\* an adb command that never returns keeps lifecycleMutex.
AdbHangs ==
    /\ \/ step \in {"deliver", "forward", "exec"}
       \/ step \in {"process", "tunnel"} /\ res["serverHandle"] # 0
    /\ step' = "hung"
    /\ UNCHANGED <<session, resources, uiVars, jobs, waitq, owner, cont>>

\* What the caller of teardownLocked() does next.
AfterTeardown ==
    /\ step = "after"
    /\ \/ /\ cont = "start"
          /\ BeginAttempt /\ activeTarget' = owner /\ reconnectAttempt' = 0 /\ retries' = 0
          /\ GoTo("open")
       \/ /\ cont = "fail" /\ phase' = "Failed" /\ Release
          /\ UNCHANGED <<stopping, generation, activeTarget, attempts>>
       \/ /\ cont = "cancelled" /\ Release
          /\ UNCHANGED <<phase, stopping, generation, activeTarget, attempts>>
       \/ /\ cont = "reconnect" /\ GoTo("delay")
          /\ UNCHANGED <<phase, stopping, generation, activeTarget, attempts>>
       \/ /\ cont = "stop" /\ phase' = "Stopped" /\ Release
          /\ UNCHANGED <<stopping, generation, activeTarget, attempts>>
    /\ UNCHANGED <<streamed, resources, uiVars>>

-----------------------------------------------------------------------------
(* stop(), up to the lock and under it.                                     *)

StopCaptures(s) ==
    /\ pc[s] = "launched"
    /\ jobToCancel' = [jobToCancel EXCEPT ![s] = startJob]
    /\ pc' = [pc EXCEPT ![s] = "captured"]
    /\ UNCHANGED <<session, resources, uiVars, cancelled, reported, lock>>

StopCancels(s) ==
    /\ pc[s] = "captured"
    /\ stopping' = TRUE
    /\ cancelled' = cancelled \cup ({jobToCancel[s]} \ {None})
    /\ pc' = [pc EXCEPT ![s] = "joining"]
    /\ UNCHANGED <<phase, generation, attempts, streamed, activeTarget,
                   resources, uiVars, jobToCancel, reported, lock>>

\* Fault: startJob is read again once the join is over.
StopLocksRereading(s) ==
    /\ pc[s] = "joining"
    /\ jobToCancel[s] = None \/ pc[jobToCancel[s]] = "done"
    /\ Enqueue(s)
    /\ cancelled' = cancelled \cup ({startJob} \ {None})
    /\ UNCHANGED <<session, resources, uiVars, jobToCancel, reported>>

StopLocks(s) ==
    /\ pc[s] = "joining"
    /\ jobToCancel[s] = None \/ pc[jobToCancel[s]] = "done"
    /\ Enqueue(s)
    /\ UNCHANGED <<session, resources, uiVars, cancelled, jobToCancel, reported>>

StopStandsAside ==
    /\ step = "decide" /\ startJob # jobToCancel[owner]
    /\ Release
    /\ UNCHANGED <<session, resources, uiVars>>

StopNothingToDo ==
    /\ step = "decide" /\ startJob = jobToCancel[owner]
    /\ phase = "Idle" /\ res["serverHandle"] = 0 /\ res["connection"] = 0
    /\ startJob' = None /\ Release
    /\ UNCHANGED <<session, resources, pending, ui, shown>>

StopTearsDown ==
    /\ step = "decide" /\ startJob = jobToCancel[owner]
    /\ phase # "Idle" \/ res["serverHandle"] # 0 \/ res["connection"] # 0
    /\ startJob' = None /\ TearDownThen("stop")
    /\ UNCHANGED <<session, resources, pending, ui, shown>>

-----------------------------------------------------------------------------
(* The stream's threads, and onStreamFailure().                             *)

\* The Target's server exits, or the link is lost for good.
ServerExits ==
    /\ peerUp /\ peerUp' = FALSE
    /\ UNCHANGED <<session, res, alive, pumps, uiVars, jobs, lock>>

Launch(r, g) ==
    /\ pc[r] = "idle"                       \* bound: another report is left
    /\ pc' = [pc EXCEPT ![r] = "launched"]
    /\ reported' = [reported EXCEPT ![r] = g]

\* STABLE_SESSION_MS pass.
StreamLasts ==
    /\ streamed = "briefly" /\ step \in {"none"} \cup EntrySteps
    /\ streamed' = "stable" /\ retries' = 0
    /\ UNCHANGED <<phase, stopping, generation, reconnectAttempt, activeTarget,
                   resources, uiVars, jobs, lock>>

\* SessionVideoSink.onEndOfStream(), the last thing a pump thread does.
PumpEnds(g) ==
    /\ pumps' = pumps \ {g}
    /\ \/ stopping /\ UNCHANGED <<pc, reported>>
       \/ ~stopping /\ \E r \in Reports : Launch(r, g)
    /\ UNCHANGED <<session, res, alive, peerUp, uiVars, cancelled, jobToCancel, lock>>

\* VideoDecoder's onFatalError.
DecoderFails ==
    /\ res["decoder"] # 0
    /\ \E r \in Reports : Launch(r, res["decoder"])
    /\ UNCHANGED <<session, resources, uiVars, cancelled, jobToCancel, lock>>

ReportLocks(r) ==
    /\ pc[r] = "launched"
    /\ \/ stopping /\ pc' = [pc EXCEPT ![r] = "done"] /\ UNCHANGED lock
       \/ ~stopping /\ Enqueue(r)
    /\ UNCHANGED <<session, resources, uiVars, cancelled, jobToCancel, reported>>

\* Fault: the generation is not compared.
ReportStaleByFlag == stopping

ReportStale == stopping \/ reported[owner] # generation

ReportDropped ==
    /\ step = "react" /\ ReportStale
    /\ Release
    /\ UNCHANGED <<session, resources, uiVars>>

\* Fault: any session that streamed starts over.
AttemptsUsedOnce == IF streamed # "no" THEN 0 ELSE reconnectAttempt

\* The attempts used up so far: a session that streamed for STABLE_SESSION_MS
\* starts over.
AttemptsUsed == IF streamed = "stable" THEN 0 ELSE reconnectAttempt

BudgetSpent == activeTarget = None \/ AttemptsUsed >= MaxReconnectAttempts

ReportActs ==
    /\ step = "react" /\ ~ReportStale
    /\ \/ /\ BudgetSpent
          /\ reconnectAttempt' = AttemptsUsed
          /\ failLocked
          /\ UNCHANGED phase
       \/ /\ ~BudgetSpent
          /\ reconnectAttempt' = AttemptsUsed + 1
          /\ phase' = "Reconnecting"
          /\ TearDownThen("reconnect")
    /\ UNCHANGED <<stopping, generation, retries, streamed, activeTarget, resources, uiVars>>

\* delay(), stopping = false, startLocked(target).
Reconnect ==
    /\ step = "delay"
    /\ BeginAttempt
    /\ GoTo("open")
    /\ retries' = retries + 1
    /\ UNCHANGED <<reconnectAttempt, streamed, activeTarget, resources, uiVars>>

-----------------------------------------------------------------------------
UserActs ==
    \/ ConnectBegins \/ ConnectSucceeds \/ ConnectFails \/ ConnectAbandoned
    \/ \E s \in Stops : requestStop(s)

\* One action of whichever coroutine holds the lock.
HolderActs ==
    \/ StartIgnored \/ StartAccepted
    \/ OpenTransport \/ DeliverServer \/ OpenTunnel \/ ExecServer \/ OpenSockets
    \/ NoSurface \/ BeginStreaming
    \/ TeardownBegins \/ CloseControlChannel \/ CloseConnection \/ JoinPump
    \/ CloseProcess \/ CloseTunnel \/ AfterTeardown
    \/ StopStandsAside \/ StopNothingToDo \/ StopTearsDown
    \/ ReportDropped \/ ReportActs \/ Reconnect

\* One action of coroutine c outside the lock.
StartActs(j) == StartLocks(j) \/ StartCancelledBeforeLock(j)
StopActs(s) == StopCaptures(s) \/ StopCancels(s) \/ StopLocks(s)

EnvironmentActs ==
    ServerExits \/ StreamLasts \/ AdbHangs \/ DecoderFails \/ \E g \in pumps : PumpEnds(g)

Next ==
    \/ UserActs \/ StoreStartJob \/ Grant \/ HolderActs \/ EnvironmentActs
    \/ \E j \in Starts : start(j) \/ StartActs(j)
    \/ \E s \in Stops : StopActs(s)
    \/ \E r \in Reports : ReportLocks(r)

Spec == Init /\ [][Next]_vars

\* Every dispatched coroutine runs, the mutex is handed over, and the holder goes
\* on unless it is in one of the two calls that need not return: a wedged root
\* shell (AdbHangs), or ControlChannel.close() (DrainBlocked).  The user, the
\* Target and the stream owe nothing.
Fairness ==
    /\ WF_vars(StoreStartJob) /\ WF_vars(Grant) /\ WF_vars(HolderActs)
    /\ \A j \in Starts : WF_vars(StartActs(j))
    /\ \A s \in Stops : WF_vars(StopActs(s))
    /\ \A r \in Reports : WF_vars(ReportLocks(r))

FairSpec == Spec /\ Fairness

-----------------------------------------------------------------------------
(* Properties.                                                              *)

FlagsOK == stopping \in BOOLEAN /\ peerUp \in BOOLEAN

QueueOK == waitq \in Seq(Coroutines)

\* Every variable stays within the values the code can give it.
TypeOK ==
    /\ FlagsOK /\ QueueOK
    /\ phase \in Phases /\ generation \in Nat /\ reconnectAttempt \in Nat
    /\ retries \in Nat /\ streamed \in {"no", "briefly", "stable"}
    /\ activeTarget \in Starts \cup {None}
    /\ res \in [Fields -> Nat] /\ alive \subseteq Kinds \X Nat /\ pumps \subseteq Nat
    /\ startJob \in Starts \cup {None} /\ pending \in Starts \cup {None}
    /\ ui \in {"connect", "probing", "entering", "mirror"} /\ shown \in Starts \cup {None}
    /\ pc \in [Coroutines -> {"idle", "launched", "captured", "joining", "waiting",
                              "holding", "done"}]
    /\ cancelled \subseteq Starts
    /\ jobToCancel \in [Stops -> Starts \cup {None}]
    /\ reported \in [Reports -> Nat]
    /\ owner \in Coroutines \cup {None} /\ step \in Steps /\ cont \in Continuations

Live == \A f \in Fields : res[f] = generation

\* When nobody holds lifecycleMutex the session is whole or gone: either every
\* resource field is null or every one belongs to the current attempt.  No
\* order of start, stop, cancellation and failure leaves a half-built session
\* behind (teardownLocked(): "Releases every resource").
WholeOrGone == owner = None => res = Null \/ Live

\* A session that shows Streaming, and is not being torn down, has every
\* resource of the current attempt: the state never outlives what it describes.
StreamingIsLive ==
    phase = "Streaming" /\ step \notin TeardownSteps \cup {"hung"} => Live

\* The fields and the state agree in every step of every coroutine: the lock is
\* never free over a half-built session, and Streaming never describes one.
SessionAgrees == TypeOK /\ WholeOrGone /\ StreamingIsLive

\* A failure report only ever tears down the session its own pump or decoder
\* belonged to ("a dead attempt's end-of-stream tears down the *live* session
\* that replaced it" is what the generation is for).
ReportsHitTheirOwnSession ==
    [][ step = "react" /\ step' = "begin" => /\ Live
                                            /\ reported[owner] = res["pump"] ]_vars

\* "One that fails immediately, over and over, must not reconnect forever", and
\* a session that streamed for a while "gets a fresh budget": between a start(),
\* or a stable session, and the next there are at most MAX_RECONNECT_ATTEMPTS
\* reconnects, counted apart from the code's own counter, and the session is
\* given up for a dead stream only once there were that many.
ReconnectBudget ==
    /\ [](retries <= MaxReconnectAttempts)
    /\ [][ step = "react" /\ cont' = "fail" /\ activeTarget # None =>
              retries = MaxReconnectAttempts ]_vars

\* The forwards, server processes and sockets the fields account for.
Accounted ==
    ({"forward", "process"} \X ({res["serverHandle"]} \ {0}))
        \cup ({"sockets"} \X ({res["connection"]} \ {0}))

Quiet == owner = None /\ \A c \in Coroutines : pc[c] \in {"idle", "done"}

\* Unless a start was cancelled, what exists outside the process is what the
\* fields account for, at whatever stage a start failed and however often it was
\* retried: it "never leaves a forward or a server process behind", except the
\* very one of which a call failed (a forward made or kept by a failing adb, a
\* process that the kill did not reach).
FailedStartLeavesNothing ==
    owner = None /\ cancelled = {} =>
        {a \in alive : a[1] \notin {"stray", "unkilled"}} = Accounted

\* Every coroutine the session launched comes to its end: the lock is not kept and
\* nobody waits on a job that waits on him, or else the holder stays for ever in
\* one of two calls, an adb command that hangs or ControlChannel.close() with a
\* Target that keeps its end of the socket.
EveryCoroutineEnds ==
    \/ <>[](step = "hung") \/ <>[]DrainBlocked
    \/ \A c \in Coroutines : (pc[c] = "launched") ~> (pc[c] = "done")

\* stop() captures startJob first because cancelling a newer start() "would
\* abort the session the user just asked for": the start() of the mirror screen
\* on display is not cancelled.
NewestStartSurvives == ui = "mirror" => shown \notin cancelled

-----------------------------------------------------------------------------
(* Comments the code does not keep up with (see the README).                *)

\* The documented claim without the exception for cancelled starts: nothing
\* survives a session (start(): "a failed start never leaves a forward or a
\* server process behind").
NothingSurvives ==
    Quiet /\ res = Null => \A a \in alive : a[1] \in {"stray", "unkilled"}

\* stop(), "safe to call from any state", comes to its end.
StopReturns ==
    \A s \in Stops : (pc[s] = "launched") ~> (pc[s] = "done")

\* stop() "stood aside for a newer start()" because "that session is the user's
\* current intent": once everything has settled, a mirror screen whose session
\* streams shows the Target it was opened for.
MirrorShowsItsTarget ==
    Quiet /\ ui = "mirror" /\ phase = "Streaming" => activeTarget = shown
=============================================================================
