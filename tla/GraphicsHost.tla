---------------------------- MODULE GraphicsHost ----------------------------
(***************************************************************************)
(* The graphics broker and its virgl host (graphics_broker.cpp and the     *)
(* request handler of virgl_child.cpp).  The broker starts the host as a   *)
(* child process that reports through a callback, or, on a phone, as a     *)
(* thread of the application.  Launch threads call EnsureStarted and       *)
(* SetRequestedBackend, the user's stop calls Stop.                        *)
(*                                                                         *)
(* mutex_ is held for the whole of a launch thread's call, including its   *)
(* waits of 5 s for the callback and 30 s for the socket.  virglIpcMutex_  *)
(* only guards short sections, which are single steps; Stop's work after   *)
(* it has released mutex_ is in steps of its own.                          *)
(***************************************************************************)
EXTENDS Naturals

CONSTANTS
  Host,      \* virgl hosts that may be created: child processes or threads
  Launcher,  \* threads that prepare the graphics of a launch
  None       \* no host, no launcher

ASSUME NoneIsNobody == None \notin Host \cup Launcher

VARIABLES
  phone,     \* PhoneAdapter_IsPhoneMode(), fixed at start
  broker,    \* the flags of GraphicsBroker
  proxy,     \* virglRemoteProxy_
  mutex,     \* holder of mutex_ across steps
  launcher,  \* per launch thread: the call it makes (1..3), where it is in it
  stopper,   \* Stop after its locked section: what is left to do
  host,      \* life of each host
  called,    \* child processes whose callback has been delivered
  socket,    \* the host that bound the socket file, None when there is no file
  upset,     \* history: what disturbed the launches in progress
  lost       \* history: children given up because a request failed or a rival reported

vars == <<phone, broker, proxy, mutex, launcher, stopper, host, called, socket, upset, lost>>

Alive == {"spawned", "configured", "listening"}

Init ==
  /\ phone \in BOOLEAN
  /\ broker = [requested |-> FALSE, active |-> FALSE, started |-> FALSE, running |-> FALSE,
               usesIpc |-> FALSE, inProcess |-> FALSE, socketReady |-> FALSE,
               accept |-> FALSE, complete |-> FALSE, configured |-> FALSE]
  /\ proxy = None /\ mutex = None /\ socket = None
  /\ launcher = [l \in Launcher |-> [call |-> 0, at |-> "out"]]
  /\ stopper = {}
  /\ host = [h \in Host |-> "unborn"]
  /\ called = {} /\ upset = {} /\ lost = {}

\* A host listens where clients will connect.
Served == socket # None /\ host[socket] = "listening"

\* Whether virglRemoteProxy_ answers the query: a dead child never does, and
\* the request to a living one may fail as well.
Responsive == IF proxy # None /\ host[proxy] \in Alive THEN BOOLEAN ELSE {FALSE}

\* The verdicts IsVirglServerProcessAliveLocked may come to.
ServerAlive == IF broker.inProcess THEN {broker.running}
               ELSE IF broker.usesIpc THEN Responsive ELSE {FALSE}

\* Seeded fault: a child that died stays configured.
ForgottenDeadUnreset ==
  IF broker.inProcess
  THEN [broker EXCEPT !.inProcess = FALSE, !.socketReady = FALSE]
  ELSE [broker EXCEPT !.complete = FALSE, !.usesIpc = FALSE, !.running = FALSE, !.socketReady = FALSE]
\* What it leaves behind when the server is found dead.
ForgottenDead ==
  IF broker.inProcess
  THEN [broker EXCEPT !.inProcess = FALSE, !.socketReady = FALSE]
  ELSE [broker EXCEPT !.configured = FALSE, !.complete = FALSE, !.usesIpc = FALSE,
                      !.running = FALSE, !.socketReady = FALSE]
ProxyAfterDeath == IF broker.usesIpc THEN None ELSE proxy
\* The child of the current proxy, dead or not, is left to itself.
LeftAlone == lost \cup ({proxy} \ {None})
LostAfterDeath == IF broker.usesIpc THEN LeftAlone ELSE lost

\* ShutdownVirglIpc: the child of the current proxy, if it lives and the request
\* gets through, is told to exit; the proxy is destroyed in any case.
ShutDown(b) == [b EXCEPT !.accept = FALSE, !.complete = FALSE, !.configured = FALSE]
\* Seeded fault: the child is not told.
HostsAfterSilence(sent) == host
HostsAfterShutdown(sent) ==
  [h \in Host |-> IF sent /\ h = proxy /\ host[h] \in Alive THEN "leaving" ELSE host[h]]
SendShutdown ==
  /\ \E sent \in BOOLEAN : /\ host' = HostsAfterShutdown(sent)
                         /\ lost' = IF sent THEN lost ELSE LeftAlone
  /\ proxy' = None

Busy == {l \in Launcher : launcher[l].call # 0}

\* What an earlier launch may leave behind: the socket file of a dead host.
Clean == broker.running /\ socket # None => Served

\* Recorded only while some launch is in progress.
Disturb(what) == upset' = IF Busy = {} THEN upset ELSE upset \cup {what}

-----------------------------------------------------------------------------
(***************************************************************************)
(* LaunchThreadFunc: EnsureStarted, then SetRequestedBackend(Virgl) and    *)
(* EnsureStarted again, then GetState.                                     *)
(***************************************************************************)
Launch(l) ==
  /\ launcher[l].call = 0
  /\ launcher' = [launcher EXCEPT ![l].call = 1]
  /\ upset' = (IF Busy = {} THEN {} ELSE upset) \cup (IF stopper = {} THEN {} ELSE {"stop"})
                \cup (IF Clean THEN {} ELSE {"file"})
  /\ UNCHANGED <<phone, broker, proxy, mutex, stopper, host, called, socket, lost>>

\* The call returns: UpdateActiveBackendLocked, mutex_ is released.
Return(l, b) ==
  /\ broker' = [b EXCEPT !.active = b.requested /\ b.started /\ b.socketReady]
  /\ launcher' = [launcher EXCEPT ![l] = [call |-> @.call + 1, at |-> "out"]]
  /\ mutex' = None

\* The flags on entry: the second call sets the backend, the others set started_.
Entered(l) ==
  IF launcher[l].call = 2 THEN [broker EXCEPT !.requested = TRUE]
                          ELSE [broker EXCEPT !.started = TRUE]

\* StartVirglSocketServerLocked up to the creation of a host.
CallBroker(l) ==
  LET b == Entered(l) IN
  /\ launcher[l].call \in 1..3 /\ launcher[l].at = "out" /\ mutex = None
  /\ \/ /\ ~b.requested \/ ~b.started
        /\ Return(l, b)
        /\ UNCHANGED <<proxy, socket, lost>>
     \/ /\ b.requested /\ b.started /\ b.running /\ TRUE \in ServerAlive
        /\ Return(l, [b EXCEPT !.socketReady = socket # None])
        /\ UNCHANGED <<proxy, socket, lost>>
     \/ /\ b.requested /\ b.started /\ (b.running => FALSE \in ServerAlive)
        /\ LET d == IF b.running THEN ForgottenDead ELSE broker IN
           broker' = [d EXCEPT !.requested = b.requested, !.started = b.started,
                        !.accept = ~phone, !.complete = FALSE, !.configured = FALSE]
        /\ proxy' = IF b.running THEN ProxyAfterDeath ELSE proxy
        /\ lost' = IF b.running THEN LostAfterDeath ELSE lost
        /\ socket' = None
        /\ mutex' = l
        /\ launcher' = [launcher EXCEPT ![l].at = "create"]
  /\ UNCHANGED <<phone, stopper, host, called, upset>>

CreateThread(l) ==
  /\ launcher[l].at = "create" /\ phone
  /\ \/ \E h \in Host :
          /\ host[h] = "unborn"
          /\ host' = [host EXCEPT ![h] = "configured"]
          /\ broker' = [broker EXCEPT !.usesIpc = FALSE, !.inProcess = TRUE, !.running = TRUE,
                          !.configured = TRUE, !.complete = TRUE, !.socketReady = FALSE]
          /\ launcher' = [launcher EXCEPT ![l].at = "socket"]
          /\ UNCHANGED mutex
     \/ /\ Return(l, [broker EXCEPT !.running = FALSE, !.socketReady = FALSE])
        /\ UNCHANGED host
  /\ UNCHANGED <<phone, proxy, stopper, called, socket, upset, lost>>

CreateChild(l) ==
  /\ launcher[l].at = "create" /\ ~phone
  /\ \/ \E h \in Host :
          /\ host[h] = "unborn"
          /\ host' = [host EXCEPT ![h] = "spawned"]
          /\ launcher' = [launcher EXCEPT ![l].at = "callback"]
          /\ UNCHANGED <<broker, mutex>>
     \/ /\ Return(l, [broker EXCEPT !.accept = FALSE, !.running = FALSE, !.socketReady = FALSE])
        /\ UNCHANGED host
  /\ UNCHANGED <<phone, proxy, stopper, called, socket, upset, lost>>

\* The wait for the callback ends with a configured child.
ChildReported(l) ==
  /\ launcher[l].at = "callback" /\ broker.complete /\ broker.configured
  /\ broker' = [broker EXCEPT !.usesIpc = TRUE, !.inProcess = FALSE, !.running = TRUE,
                              !.socketReady = FALSE]
  /\ launcher' = [launcher EXCEPT ![l].at = "socket"]
  /\ UNCHANGED <<phone, proxy, mutex, stopper, host, called, socket, upset, lost>>

\* Seeded fault: the wait for the callback has no limit.
CallbackOnlyFails(l) ==
  /\ launcher[l].at = "callback" /\ broker.complete /\ ~broker.configured
  /\ Return(l, [ShutDown(broker) EXCEPT !.running = FALSE, !.socketReady = FALSE])
  /\ SendShutdown
  /\ UNCHANGED <<phone, stopper, called, socket, upset>>
\* It ends with a rejected child or, after 5 s, without one.
CallbackFails(l) ==
  /\ launcher[l].at = "callback" /\ ~(broker.complete /\ broker.configured)
  /\ Return(l, [ShutDown(broker) EXCEPT !.running = FALSE, !.socketReady = FALSE])
  /\ SendShutdown
  /\ UNCHANGED <<phone, stopper, called, socket, upset>>

\* Seeded fault: the socket is announced without being looked for.
SocketFound(l) ==
  /\ launcher[l].at = "socket" /\ TRUE \in ServerAlive
  /\ Return(l, [broker EXCEPT !.socketReady = TRUE])
  /\ UNCHANGED <<phone, proxy, stopper, host, called, socket, upset, lost>>
\* The wait for the socket: it is there, or 30 s have passed and the host is kept.
SocketAnswered(l) ==
  /\ launcher[l].at = "socket" /\ TRUE \in ServerAlive
  /\ Return(l, [broker EXCEPT !.socketReady = socket # None])
  /\ UNCHANGED <<phone, proxy, stopper, host, called, socket, upset, lost>>

\* The host is found dead while its socket is awaited.
SocketLost(l) ==
  /\ launcher[l].at = "socket" /\ FALSE \in ServerAlive
  /\ Return(l, [ForgottenDead EXCEPT !.usesIpc = FALSE, !.inProcess = FALSE,
                                     !.running = FALSE, !.socketReady = FALSE])
  /\ proxy' = ProxyAfterDeath /\ lost' = LostAfterDeath
  /\ UNCHANGED <<phone, stopper, host, called, socket, upset>>

\* GetState before the engine is launched: refused unless Virgl is active.
CheckState(l) ==
  /\ launcher[l].call = 4 /\ mutex = None
  /\ launcher' = [launcher EXCEPT ![l].call = 0]
  /\ UNCHANGED <<phone, broker, proxy, mutex, stopper, host, called, socket, upset, lost>>

-----------------------------------------------------------------------------
\* OnVirglIpcProcessStarted, at any time after the creation: the start may have
\* failed; the child may have given up, the request or its answer be lost.  The
\* proxy of an earlier child is destroyed, and that child is not told.
ChildCallsBack(h) ==
  /\ ~phone /\ host[h] # "unborn" /\ h \notin called
  /\ called' = called \cup {h}
  /\ \/ /\ broker' = [broker EXCEPT !.configured = FALSE, !.complete = TRUE]
        /\ UNCHANGED <<proxy, host, lost>>
     \/ /\ broker.accept
        /\ proxy' = h /\ lost' = LeftAlone
        /\ \E received, answered \in BOOLEAN :
             /\ received => host[h] = "spawned"
             /\ host' = IF received THEN [host EXCEPT ![h] = "configured"] ELSE host
             /\ broker' = [broker EXCEPT !.configured = received /\ answered, !.complete = TRUE]
  /\ UNCHANGED <<phone, mutex, launcher, stopper, socket, upset>>

\* NativeChildProcess_MainProc: not configured within 5 s.
ChildGivesUp(h) ==
  /\ ~phone /\ host[h] = "spawned"
  /\ host' = [host EXCEPT ![h] = "dead"]
  /\ UNCHANGED <<phone, broker, proxy, mutex, launcher, stopper, called, socket, upset, lost>>

\* RunConfiguredVtestServer binds the socket path anew.
Listen(h) ==
  /\ host[h] = "configured"
  /\ host' = [host EXCEPT ![h] = "listening"]
  /\ socket' = h
  /\ UNCHANGED <<phone, broker, proxy, mutex, launcher, stopper, called, upset, lost>>

\* The 20 ms after kShutdownRequest are over.
ChildExits(h) ==
  /\ ~phone /\ host[h] = "leaving"
  /\ host' = [host EXCEPT ![h] = "dead"]
  /\ UNCHANGED <<phone, broker, proxy, mutex, launcher, stopper, called, socket, upset, lost>>

\* A child dies; its socket file stays.
ChildCrashes(h) ==
  /\ ~phone /\ host[h] \in {"configured", "listening"}
  /\ host' = [host EXCEPT ![h] = "dead"]
  /\ Disturb("death")
  /\ UNCHANGED <<phone, broker, proxy, mutex, launcher, stopper, called, socket, lost>>

\* The host thread's function returns: the flags are cleared, whoever they are for.
ThreadReturns(h) ==
  /\ phone /\ host[h] \in {"configured", "listening"}
  /\ host' = [host EXCEPT ![h] = "leaving"]
  /\ broker' = [broker EXCEPT !.running = FALSE]
  /\ Disturb("death")
  /\ UNCHANGED <<phone, proxy, mutex, launcher, stopper, called, socket, lost>>
ThreadUnconfigures(h) ==
  /\ phone /\ host[h] = "leaving"
  /\ host' = [host EXCEPT ![h] = "dead"]
  /\ broker' = [broker EXCEPT !.configured = FALSE]
  /\ UNCHANGED <<phone, proxy, mutex, launcher, stopper, called, socket, upset, lost>>

-----------------------------------------------------------------------------
\* Stop, its section under mutex_.  What is left is done without it.
Stop ==
  /\ stopper = {} /\ mutex = None
  /\ stopper' = IF broker.inProcess THEN {"unlink"}
                ELSE (IF broker.usesIpc THEN {"shutdown"} ELSE {}) \cup {"unlink"}
  /\ broker' = [broker EXCEPT !.running = FALSE, !.inProcess = FALSE, !.usesIpc = FALSE,
                              !.socketReady = FALSE, !.active = FALSE, !.started = FALSE]
  /\ Disturb("stop")
  /\ UNCHANGED <<phone, proxy, mutex, launcher, host, called, socket, lost>>

StopShutsDown ==
  /\ "shutdown" \in stopper
  /\ stopper' = stopper \ {"shutdown"}
  /\ broker' = ShutDown(broker)
  /\ SendShutdown
  /\ UNCHANGED <<phone, mutex, launcher, called, socket, upset>>

StopUnlinks ==
  /\ stopper = {"unlink"}
  /\ stopper' = {}
  /\ socket' = None
  /\ UNCHANGED <<phone, broker, proxy, mutex, launcher, host, called, upset, lost>>

-----------------------------------------------------------------------------
LauncherStep(l) ==
  CallBroker(l) \/ CreateThread(l) \/ CreateChild(l) \/ ChildReported(l) \/ CallbackFails(l)
    \/ SocketAnswered(l) \/ SocketLost(l) \/ CheckState(l)

HostStep(h) ==
  ChildCallsBack(h) \/ ChildGivesUp(h) \/ Listen(h) \/ ChildExits(h) \/ ChildCrashes(h)
    \/ ThreadReturns(h) \/ ThreadUnconfigures(h)

StopStep == Stop \/ StopShutsDown \/ StopUnlinks

Next ==
  \/ \E l \in Launcher : Launch(l) \/ LauncherStep(l)
  \/ \E h \in Host : HostStep(h)
  \/ StopStep

Spec == Init /\ [][Next]_vars

(***************************************************************************)
(* A launch thread runs on, and gets mutex_ again and again free in the    *)
(* end; a Stop that has begun is finished.                                 *)
(***************************************************************************)
FairSpec ==
  /\ Spec
  /\ \A l \in Launcher : SF_vars(LauncherStep(l))
  /\ WF_vars(StopShutsDown \/ StopUnlinks)

-----------------------------------------------------------------------------
Broker == [requested : BOOLEAN, active : BOOLEAN, started : BOOLEAN, running : BOOLEAN,
           usesIpc : BOOLEAN, inProcess : BOOLEAN, socketReady : BOOLEAN,
           accept : BOOLEAN, complete : BOOLEAN, configured : BOOLEAN]
Progress == [call : 0..4, at : {"out", "create", "callback", "socket"}]
TypeOK ==
  /\ phone \in BOOLEAN
  /\ broker \in Broker
  /\ {proxy, socket} \subseteq Host \cup {None}
  /\ mutex \in Launcher \cup {None}
  /\ launcher \in [Launcher -> Progress]
  /\ stopper \subseteq {"shutdown", "unlink"}
  /\ host \in [Host -> Alive \cup {"unborn", "leaving", "dead"}]
  /\ called \subseteq Host
  /\ upset \subseteq {"stop", "file", "death"}
  /\ lost \subseteq Host

(***************************************************************************)
(* mutex_ covers the waits of StartVirglSocketServerLocked: one thread at  *)
(* a time is between the choice to create a host and its verdict.  And     *)
(* virglIpcConfigured_ without a proxy would let every surface be told it  *)
(* is attached to nobody: it is set and reset by callbacks, Stop, failed   *)
(* starts and the liveness query, in any order.  A thread has no proxy:    *)
(* what its end does to the flags of a thread started since is left out.   *)
(***************************************************************************)
OnlyHolderIsInside == \A l \in Launcher : launcher[l].at # "out" <=> mutex = l
ConfiguredHasProxy == ~phone /\ broker.configured => proxy # None /\ host[proxy] # "spawned"
HostIsSound == TypeOK /\ OnlyHolderIsInside /\ ConfiguredHasProxy

(***************************************************************************)
(* A child that runs with its configuration can be reached: as long as no  *)
(* request to it failed (a query, the shutdown) and no rival reported in   *)
(* its place, no start, failed start, late report or Stop leaves it        *)
(* running without a proxy to shut it down with.  Where one of these did   *)
(* happen the code destroys the proxy and the child runs on.  A thread has *)
(* no proxy, and Stop does not end it.                                     *)
(***************************************************************************)
ConfiguredIsReachable ==
  ~phone => \A h \in Host : host[h] \in {"configured", "listening"} => h = proxy \/ h \in lost

(***************************************************************************)
(* The comment before the launch's GetState: EnsureStarted has waited for  *)
(* the socket, so what GetState says is the truth, Virgl means ready.  It  *)
(* is, unless a host died or a Stop ran meanwhile, or the file of a dead   *)
(* host was there before: failed starts and late children do no harm.      *)
(***************************************************************************)
LaunchSeesTruth ==
  [][\A l \in Launcher : CheckState(l) /\ broker.active /\ upset = {} => Served]_vars

(***************************************************************************)
(* The same claim, if the only thing that happened meanwhile is a Stop.    *)
(***************************************************************************)
LaunchSeesTruthAfterStop ==
  [][\A l \in Launcher : CheckState(l) /\ broker.active /\ upset \subseteq {"stop"} => Served]_vars

(***************************************************************************)
(* A launch is not held up for ever, whatever its hosts do: the waits for  *)
(* callback and socket have limits, and mutex_ is given back.              *)
(***************************************************************************)
LaunchIsChecked == \A l \in Launcher : launcher[l].call = 1 ~> launcher[l].call = 0
=============================================================================
