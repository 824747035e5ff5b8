---------------------------- MODULE GraphicsProofs ----------------------------
(***************************************************************************)
(* Proofs about GraphicsHost, for every number of hosts and launches, of   *)
(* child processes and of threads, whatever the hosts do and whenever the  *)
(* user stops; and about ZeroCopy, for every number of surfaces, every     *)
(* failure limit and every number of commits a recreated surface may lag   *)
(* behind.  The two modules share no name.                                 *)
(***************************************************************************)
EXTENDS GraphicsHost, ZeroCopy, TLAPS

USE NoneIsNobody

(***************************************************************************)
(* The inductive invariant.  A host is a thread on a phone and a child     *)
(* process elsewhere, and the flags of the two never mix; the proxy is of  *)
(* a child that was created; a launch thread that is inside makes a call.  *)
(***************************************************************************)
InsideCalls ==
  \A l \in Launcher : /\ launcher[l].at # "out" => launcher[l].call \in 1..3
                      /\ launcher[l].at = "callback" => ~phone
KindsApart ==
  /\ phone => ~broker.usesIpc /\ proxy = None
  /\ ~phone => ~broker.inProcess
ProxyIsChild == proxy # None => host[proxy] # "unborn"

IInv == HostIsSound /\ InsideCalls /\ KindsApart /\ ProxyIsChild

LEMMA InitIInv == Init => IInv
<1> SUFFICES ASSUME Init PROVE IInv
  OBVIOUS
<1>1. broker \in Broker
  BY DEF Init, Broker
<1>2. launcher \in [Launcher -> Progress]
  BY DEF Init, Progress
<1>3. TypeOK
  BY <1>1, <1>2 DEF Init, TypeOK, Alive
<1> QED
  BY <1>3 DEF Init, IInv, HostIsSound, OnlyHolderIsInside, ConfiguredHasProxy, InsideCalls, KindsApart,
     ProxyIsChild

\* What the end of a call does to the flags, the mutex and the thread.
LEMMA ReturnEffect ==
  ASSUME IInv, NEW l \in Launcher, launcher[l].call \in 1..3, mutex \in {None, l},
         NEW b \in Broker, Return(l, b)
  PROVE  /\ broker' \in Broker
         /\ broker'.usesIpc = b.usesIpc /\ broker'.inProcess = b.inProcess
         /\ broker'.configured = b.configured
         /\ launcher' \in [Launcher -> Progress]
         /\ mutex' = None
         /\ \A k \in Launcher : launcher'[k].at = "out"
<1> USE DEF IInv, HostIsSound, TypeOK, Broker
<1>1. PICK v \in BOOLEAN : v = (b.requested /\ b.started /\ b.socketReady)
  OBVIOUS
<1>2. broker' = [b EXCEPT !.active = v]
  BY <1>1 DEF Return
<1>3. launcher[l] \in Progress /\ launcher' = [launcher EXCEPT ![l] =
        [call |-> launcher[l].call + 1, at |-> "out"]]
  BY DEF Return
<1>4. launcher[l].call + 1 \in 0..4
  OBVIOUS
<1>5. launcher' \in [Launcher -> Progress] /\ launcher'[l].at = "out"
  BY <1>3, <1>4 DEF Progress
<1>6. \A k \in Launcher \ {l} : launcher'[k].at = "out"
  BY <1>3 DEF OnlyHolderIsInside
<1> QED
  BY <1>2, <1>5, <1>6 DEF Return

\* What is left alone is a child.
LEMMA LostEffect == ASSUME IInv PROVE LeftAlone \subseteq Host /\ LostAfterDeath \subseteq Host
BY DEF IInv, HostIsSound, TypeOK, LeftAlone, LostAfterDeath

\* What is forgotten with a dead host.
LEMMA ForgottenDeadEffect ==
  ASSUME IInv
  PROVE  /\ ForgottenDead \in Broker
         /\ ~ForgottenDead.inProcess
         /\ ~phone => ~ForgottenDead.usesIpc /\ ~ForgottenDead.configured
         /\ phone => ~ForgottenDead.usesIpc
         /\ ProxyAfterDeath \in {proxy, None}
BY DEF IInv, HostIsSound, TypeOK, Broker, KindsApart, ForgottenDead, ProxyAfterDeath

LEMMA ShutDownEffect ==
  ASSUME NEW b \in Broker
  PROVE  /\ ShutDown(b) \in Broker
         /\ ShutDown(b).usesIpc = b.usesIpc /\ ShutDown(b).inProcess = b.inProcess
         /\ ~ShutDown(b).configured
BY DEF ShutDown, Broker

USE DEF vars


LEMMA LaunchStep == ASSUME IInv, NEW l \in Launcher, Launch(l) PROVE IInv'
<1> USE DEF IInv, HostIsSound, TypeOK, Launch, Alive
<1>1. launcher' \in [Launcher -> Progress] /\ \A k \in Launcher : launcher'[k].at = launcher[k].at
  BY DEF Progress
<1>2. upset' \subseteq {"stop", "file", "death"}
  <2> DEFINE before == IF Busy = {} THEN {} ELSE upset
             stop == IF stopper = {} THEN {} ELSE {"stop"}
             file == IF Clean THEN {} ELSE {"file"}
  <2>1. before \subseteq upset /\ stop \subseteq {"stop"} /\ file \subseteq {"file"}
    OBVIOUS
  <2>2. upset' = before \cup stop \cup file
    OBVIOUS
  <2> HIDE DEF before, stop, file
  <2> QED
    BY <2>1, <2>2
<1>3. TypeOK'
  BY <1>1, <1>2
<1>4. InsideCalls'
  BY DEF InsideCalls, Progress
<1> QED
  BY <1>1, <1>3, <1>4 DEF OnlyHolderIsInside, ConfiguredHasProxy, KindsApart, ProxyIsChild

LEMMA CallBrokerStep == ASSUME IInv, NEW l \in Launcher, CallBroker(l) PROVE IInv'
<1> DEFINE b == Entered(l)
<1>1. /\ b \in Broker /\ b.usesIpc = broker.usesIpc /\ b.inProcess = broker.inProcess
      /\ b.configured = broker.configured
  BY DEF IInv, HostIsSound, TypeOK, Entered, Broker
<1>2. launcher[l].call \in 1..3 /\ mutex \in {None, l}
  BY DEF CallBroker
<1> HIDE DEF b
<1> USE DEF IInv, HostIsSound, TypeOK, Alive
<1>3. CASE Return(l, b) /\ UNCHANGED <<proxy, socket, lost>>
  <2>1. UNCHANGED <<phone, proxy, socket, stopper, host, called, upset, lost>>
    BY <1>3 DEF CallBroker
  <2> QED
    BY <1>1, <1>2, <1>3, <2>1, ReturnEffect DEF OnlyHolderIsInside, ConfiguredHasProxy, InsideCalls,
       KindsApart, ProxyIsChild
<1>4. CASE Return(l, [b EXCEPT !.socketReady = socket # None]) /\ UNCHANGED <<proxy, socket, lost>>
  <2>1. UNCHANGED <<phone, proxy, socket, stopper, host, called, upset, lost>>
    BY <1>4 DEF CallBroker
  <2> DEFINE c == [b EXCEPT !.socketReady = socket # None]
  <2>2. /\ c \in Broker /\ c.usesIpc = broker.usesIpc /\ c.inProcess = broker.inProcess
        /\ c.configured = broker.configured
    BY <1>1 DEF Broker
  <2>3. Return(l, c)
    BY <1>4
  <2> HIDE DEF c
  <2> QED
    BY <1>1, <1>2, <2>1, <2>2, <2>3, ReturnEffect DEF OnlyHolderIsInside, ConfiguredHasProxy, InsideCalls,
       KindsApart, ProxyIsChild
<1>5. CASE launcher' = [launcher EXCEPT ![l].at = "create"]
  <2> SUFFICES ASSUME mutex' = l, socket' = None,
                      proxy' = IF b.running THEN ProxyAfterDeath ELSE proxy,
                      lost' = IF b.running THEN LostAfterDeath ELSE lost,
                      LET d == IF b.running THEN ForgottenDead ELSE broker IN
                        broker' = [d EXCEPT !.requested = b.requested, !.started = b.started,
                                            !.accept = ~phone, !.complete = FALSE, !.configured = FALSE]
               PROVE  IInv'
    BY <1>3, <1>4 DEF CallBroker, b
  <2>1. UNCHANGED <<phone, stopper, host, called, upset>>
    BY DEF CallBroker
  <2>2. mutex = None
    BY DEF CallBroker
  <2>3. /\ broker' \in Broker /\ ~broker'.configured
        /\ phone => ~broker'.usesIpc
        /\ ~phone => ~broker'.inProcess
    <3> DEFINE d == IF b.running THEN ForgottenDead ELSE broker
    <3>1. d \in Broker /\ (phone => ~d.usesIpc) /\ (~phone => ~d.inProcess)
      BY ForgottenDeadEffect DEF KindsApart
    <3>2. PICK v \in BOOLEAN : v = ~phone
      OBVIOUS
    <3>3. broker' = [d EXCEPT !.requested = b.requested, !.started = b.started,
                              !.accept = v, !.complete = FALSE, !.configured = FALSE]
      BY <3>2
    <3> HIDE DEF d
    <3> QED
      BY <1>1, <3>1, <3>3 DEF Broker
  <2>4. proxy' \in {proxy, None} /\ lost' \subseteq Host
    BY ForgottenDeadEffect, LostEffect
  <2>5. launcher' \in [Launcher -> Progress] /\ launcher'[l].at = "create" /\ launcher'[l].call \in 1..3
    BY <1>2, <1>5 DEF Progress
  <2>6. \A k \in Launcher \ {l} : launcher'[k] = launcher[k] /\ launcher'[k].at = "out"
    BY <1>5, <2>2 DEF OnlyHolderIsInside
  <2> QED
    BY <2>1, <2>3, <2>4, <2>5, <2>6 DEF OnlyHolderIsInside, ConfiguredHasProxy, InsideCalls, KindsApart,
       ProxyIsChild
<1> QED
  BY <1>3, <1>4, <1>5 DEF CallBroker, b

\* A call that returns keeps the invariant, if what it leaves is in order.
LEMMA ReturnStep ==
  ASSUME IInv, NEW l \in Launcher, launcher[l].call \in 1..3, mutex \in {None, l},
         NEW b \in Broker, Return(l, b),
         phone => ~b.usesIpc,
         ~phone => ~b.inProcess /\ (b.configured => proxy' # None /\ host'[proxy'] # "spawned"),
         UNCHANGED <<phone, stopper, called, socket, upset>>,
         host' \in [Host -> Alive \cup {"unborn", "leaving", "dead"}],
         proxy' \in {proxy, None}, proxy' # None => host'[proxy'] # "unborn", lost' \subseteq Host
  PROVE  IInv'
<1>1. TypeOK'
  BY ReturnEffect DEF IInv, HostIsSound, TypeOK, Alive
<1>2. OnlyHolderIsInside' /\ InsideCalls'
  BY ReturnEffect DEF IInv, OnlyHolderIsInside, InsideCalls
<1>3. ConfiguredHasProxy' /\ KindsApart' /\ ProxyIsChild'
  BY ReturnEffect DEF IInv, ConfiguredHasProxy, KindsApart, ProxyIsChild
<1> QED
  BY <1>1, <1>2, <1>3 DEF IInv, HostIsSound

\* A thread that is inside makes a call and holds the mutex.
LEMMA InsideIsIn ==
  ASSUME IInv, NEW l \in Launcher, launcher[l].at # "out"
  PROVE  launcher[l].call \in 1..3 /\ mutex = l
BY DEF IInv, HostIsSound, OnlyHolderIsInside, InsideCalls

\* It goes on from one wait to the next.
LEMMA MoveEffect ==
  ASSUME IInv, NEW l \in Launcher, launcher[l].at # "out", UNCHANGED <<phone, mutex>>,
         launcher' \in [Launcher -> Progress], launcher'[l].call = launcher[l].call,
         launcher'[l].at # "out", launcher'[l].at = "callback" => ~phone,
         \A k \in Launcher \ {l} : launcher'[k] = launcher[k]
  PROVE  OnlyHolderIsInside' /\ InsideCalls'
BY DEF IInv, HostIsSound, OnlyHolderIsInside, InsideCalls

LEMMA CreateThreadStep == ASSUME IInv, NEW l \in Launcher, CreateThread(l) PROVE IInv'
<1> USE DEF IInv, HostIsSound, TypeOK, Alive, CreateThread
<1>1. launcher[l].call \in 1..3 /\ mutex = l
  BY InsideIsIn
<1>2. ASSUME NEW h \in Host, host[h] = "unborn", host' = [host EXCEPT ![h] = "configured"],
             broker' = [broker EXCEPT !.usesIpc = FALSE, !.inProcess = TRUE, !.running = TRUE,
                          !.configured = TRUE, !.complete = TRUE, !.socketReady = FALSE],
             launcher' = [launcher EXCEPT ![l].at = "socket"], mutex' = mutex
      PROVE  IInv'
  <2>1. /\ launcher' \in [Launcher -> Progress] /\ launcher'[l].at = "socket"
        /\ launcher'[l].call = launcher[l].call
        /\ \A k \in Launcher \ {l} : launcher'[k] = launcher[k]
    BY <1>2 DEF Progress
  <2>2. launcher' \in [Launcher -> Progress] /\ OnlyHolderIsInside' /\ InsideCalls'
    BY <1>2, <2>1, MoveEffect
  <2>3. broker' \in Broker /\ ~broker'.usesIpc
    BY <1>2 DEF Broker
  <2> QED
    BY <1>2, <2>2, <2>3 DEF ConfiguredHasProxy, KindsApart, ProxyIsChild
<1>3. ASSUME Return(l, [broker EXCEPT !.running = FALSE, !.socketReady = FALSE]), UNCHANGED host
      PROVE  IInv'
  <2> DEFINE c == [broker EXCEPT !.running = FALSE, !.socketReady = FALSE]
  <2>1. /\ c \in Broker /\ c.usesIpc = broker.usesIpc /\ c.inProcess = broker.inProcess
        /\ c.configured = broker.configured
    BY DEF Broker
  <2>2. Return(l, c)
    BY <1>3
  <2> HIDE DEF c
  <2> QED
    BY <1>1, <1>3, <2>1, <2>2, ReturnStep DEF ConfiguredHasProxy, KindsApart, ProxyIsChild
<1> QED
  BY <1>2, <1>3

LEMMA CreateChildStep == ASSUME IInv, NEW l \in Launcher, CreateChild(l) PROVE IInv'
<1> USE DEF IInv, HostIsSound, TypeOK, Alive, CreateChild
<1>1. launcher[l].call \in 1..3 /\ mutex = l
  BY InsideIsIn
<1>2. ASSUME NEW h \in Host, host[h] = "unborn", host' = [host EXCEPT ![h] = "spawned"],
             launcher' = [launcher EXCEPT ![l].at = "callback"],
             UNCHANGED <<broker, mutex>>
      PROVE  IInv'
  <2> DEFINE p == [launcher[l] EXCEPT !.at = "callback"]
  <2>1. p \in Progress /\ p.at = "callback" /\ p.call = launcher[l].call
    BY DEF Progress
  <2>2. launcher' = [launcher EXCEPT ![l] = p]
    BY <1>2
  <2>3. /\ launcher' \in [Launcher -> Progress] /\ launcher'[l] = p
        /\ \A k \in Launcher \ {l} : launcher'[k] = launcher[k]
    BY <2>1, <2>2
  <2>4. launcher' \in [Launcher -> Progress] /\ OnlyHolderIsInside' /\ InsideCalls'
    BY <1>2, <2>1, <2>3, MoveEffect
  <2>5. proxy # h
    BY <1>2 DEF ProxyIsChild
  <2> QED
    BY <1>2, <2>4, <2>5 DEF ConfiguredHasProxy, KindsApart, ProxyIsChild
<1>3. ASSUME Return(l, [broker EXCEPT !.accept = FALSE, !.running = FALSE, !.socketReady = FALSE]),
             UNCHANGED host
      PROVE  IInv'
  <2> DEFINE c == [broker EXCEPT !.accept = FALSE, !.running = FALSE, !.socketReady = FALSE]
  <2>1. /\ c \in Broker /\ c.usesIpc = broker.usesIpc /\ c.inProcess = broker.inProcess
        /\ c.configured = broker.configured
    BY DEF Broker
  <2>2. Return(l, c)
    BY <1>3
  <2> HIDE DEF c
  <2> QED
    BY <1>1, <1>3, <2>1, <2>2, ReturnStep DEF ConfiguredHasProxy, KindsApart, ProxyIsChild
<1> QED
  BY <1>2, <1>3

LEMMA ChildReportedStep == ASSUME IInv, NEW l \in Launcher, ChildReported(l) PROVE IInv'
<1> USE DEF IInv, HostIsSound, TypeOK, ChildReported
<1>1. /\ launcher' \in [Launcher -> Progress] /\ launcher'[l].at = "socket"
      /\ launcher'[l].call = launcher[l].call
      /\ \A k \in Launcher \ {l} : launcher'[k] = launcher[k]
  BY DEF Progress
<1>2. launcher' \in [Launcher -> Progress] /\ OnlyHolderIsInside' /\ InsideCalls'
  BY <1>1, MoveEffect
<1>3. broker' \in Broker /\ broker'.configured = broker.configured /\ ~broker'.inProcess
  BY DEF Broker
<1> QED
  BY <1>2, <1>3 DEF ConfiguredHasProxy, KindsApart, ProxyIsChild, InsideCalls

LEMMA ShutdownKeepsHosts ==
  ASSUME IInv, SendShutdown
  PROVE  /\ host' \in [Host -> Alive \cup {"unborn", "leaving", "dead"}]
         /\ proxy' = None /\ lost' \subseteq Host
<1>1. PICK sent \in BOOLEAN : host' = HostsAfterShutdown(sent) /\ lost' \in {lost, LeftAlone}
  BY DEF SendShutdown
<1> QED
  BY <1>1, LostEffect DEF SendShutdown, IInv, HostIsSound, TypeOK, HostsAfterShutdown, Alive

LEMMA CallbackFailsStep == ASSUME IInv, NEW l \in Launcher, CallbackFails(l) PROVE IInv'
<1> USE DEF CallbackFails
<1>1. launcher[l].call \in 1..3 /\ mutex = l /\ ~phone
  BY InsideIsIn DEF IInv, InsideCalls
<1> DEFINE c == [ShutDown(broker) EXCEPT !.running = FALSE, !.socketReady = FALSE]
<1>2. broker \in Broker
  BY DEF IInv, HostIsSound, TypeOK
<1>3. /\ ShutDown(broker) \in Broker /\ ShutDown(broker).inProcess = broker.inProcess
      /\ ~ShutDown(broker).configured
  BY <1>2, ShutDownEffect
<1>4. c \in Broker /\ c.inProcess = broker.inProcess /\ ~c.configured
  BY <1>3 DEF Broker
<1>5. Return(l, c)
  OBVIOUS
<1> HIDE DEF c
<1> QED
  BY <1>1, <1>4, <1>5, ReturnStep, ShutdownKeepsHosts DEF IInv, KindsApart

LEMMA SocketAnsweredStep == ASSUME IInv, NEW l \in Launcher, SocketAnswered(l) PROVE IInv'
<1> USE DEF SocketAnswered, IInv, HostIsSound, TypeOK
<1>1. launcher[l].call \in 1..3 /\ mutex = l
  BY InsideIsIn
<1> DEFINE c == [broker EXCEPT !.socketReady = socket # None]
<1>2. /\ c \in Broker /\ c.usesIpc = broker.usesIpc /\ c.inProcess = broker.inProcess
      /\ c.configured = broker.configured
  BY DEF Broker
<1>3. Return(l, c)
  OBVIOUS
<1> HIDE DEF c
<1> QED
  BY <1>1, <1>2, <1>3, ReturnStep DEF ConfiguredHasProxy, KindsApart, ProxyIsChild

LEMMA SocketLostStep == ASSUME IInv, NEW l \in Launcher, SocketLost(l) PROVE IInv'
<1> USE DEF SocketLost
<1>1. launcher[l].call \in 1..3 /\ mutex = l
  BY InsideIsIn
<1> DEFINE c == [ForgottenDead EXCEPT !.usesIpc = FALSE, !.inProcess = FALSE,
                                      !.running = FALSE, !.socketReady = FALSE]
<1>2. c \in Broker /\ ~c.usesIpc /\ ~c.inProcess /\ (~phone => ~c.configured)
  BY ForgottenDeadEffect DEF Broker
<1>3. Return(l, c)
  OBVIOUS
<1> HIDE DEF c
<1> QED
  BY <1>1, <1>2, <1>3, ReturnStep, ForgottenDeadEffect, LostEffect DEF IInv, HostIsSound, TypeOK, ProxyIsChild

LEMMA CheckStateStep == ASSUME IInv, NEW l \in Launcher, CheckState(l) PROVE IInv'
<1> USE DEF CheckState, IInv, HostIsSound, TypeOK
<1>1. launcher' \in [Launcher -> Progress] /\ \A k \in Launcher : launcher'[k].at = launcher[k].at
  BY DEF Progress
<1>2. launcher[l].at = "out"
  BY DEF InsideCalls
<1>3. InsideCalls'
  BY <1>1, <1>2 DEF InsideCalls, Progress
<1> QED
  BY <1>1, <1>3 DEF OnlyHolderIsInside, ConfiguredHasProxy, KindsApart, ProxyIsChild


\* A host changes its life; a child that becomes configured is the proxy's.
LEMMA HostMoves ==
  ASSUME IInv, NEW h \in Host, NEW to \in {"configured", "listening", "leaving", "dead"},
         host' = [host EXCEPT ![h] = to], UNCHANGED <<phone, mutex, launcher>>,
         broker' \in Broker, broker'.usesIpc = broker.usesIpc, broker'.inProcess = broker.inProcess,
         broker'.configured => broker.configured \/ (proxy' # None /\ proxy' = h),
         proxy' = proxy \/ (~phone /\ proxy' = h),
         socket' \in Host \cup {None}, called' \subseteq Host,
         stopper' \subseteq {"shutdown", "unlink"}, upset' \subseteq {"stop", "file", "death"},
         lost' \subseteq Host
  PROVE  IInv'
<1>1. /\ host' \in [Host -> Alive \cup {"unborn", "leaving", "dead"}] /\ host'[h] = to
      /\ \A g \in Host \ {h} : host'[g] = host[g]
  BY DEF IInv, HostIsSound, TypeOK, Alive
<1>2. TypeOK'
  BY <1>1 DEF IInv, HostIsSound, TypeOK
<1>3. OnlyHolderIsInside' /\ InsideCalls'
  BY DEF IInv, HostIsSound, OnlyHolderIsInside, InsideCalls
<1>4. ConfiguredHasProxy' /\ KindsApart' /\ ProxyIsChild'
  BY <1>1 DEF IInv, HostIsSound, TypeOK, ConfiguredHasProxy, KindsApart, ProxyIsChild
<1> QED
  BY <1>2, <1>3, <1>4 DEF IInv, HostIsSound

LEMMA DisturbEffect ==
  ASSUME IInv, NEW what \in {"stop", "file", "death"}, Disturb(what)
  PROVE  upset' \subseteq {"stop", "file", "death"}
BY DEF IInv, HostIsSound, TypeOK, Disturb

LEMMA ChildCallsBackStep == ASSUME IInv, NEW h \in Host, ChildCallsBack(h) PROVE IInv'
<1>1. UNCHANGED <<phone, mutex, launcher, stopper, socket>> /\ ~phone /\ host[h] # "unborn"
  BY DEF ChildCallsBack
<1>2. called' \subseteq Host
  BY DEF ChildCallsBack, IInv, HostIsSound, TypeOK
<1>3. upset' \subseteq {"stop", "file", "death"}
  BY DisturbEffect DEF ChildCallsBack, IInv, HostIsSound, TypeOK
<1> DEFINE Flags(v) == [broker EXCEPT !.configured = v, !.complete = TRUE]
<1>6. \A v \in BOOLEAN : /\ Flags(v) \in Broker /\ Flags(v).configured = v
                         /\ Flags(v).inProcess = broker.inProcess /\ Flags(v).usesIpc = broker.usesIpc
  BY DEF IInv, HostIsSound, TypeOK, Broker
<1>7. lost' \subseteq Host
  BY LostEffect DEF ChildCallsBack, IInv, HostIsSound, TypeOK
<1>4. CASE host' = host /\ proxy' \in {proxy, h}
           /\ broker' = [broker EXCEPT !.configured = FALSE, !.complete = TRUE]
  <2>1. broker' \in Broker /\ broker'.inProcess = broker.inProcess /\ ~broker'.configured
    BY <1>4 DEF IInv, HostIsSound, TypeOK, Broker
  <2>2. TypeOK' /\ OnlyHolderIsInside' /\ InsideCalls'
    BY <1>1, <1>2, <1>3, <1>4, <1>7, <2>1 DEF IInv, HostIsSound, TypeOK, OnlyHolderIsInside, InsideCalls
  <2> QED
    BY <1>1, <1>4, <2>1, <2>2 DEF IInv, HostIsSound, ConfiguredHasProxy, KindsApart, ProxyIsChild
<1>5. ASSUME proxy' = h, host' = [host EXCEPT ![h] = "configured"],
             NEW answered \in BOOLEAN, broker' = Flags(answered)
      PROVE  IInv'
  <2>1. /\ broker' \in Broker /\ broker'.inProcess = broker.inProcess
        /\ broker'.usesIpc = broker.usesIpc
    BY <1>5, <1>6
  <2>2. proxy' # None /\ socket' \in Host \cup {None} /\ stopper' \subseteq {"shutdown", "unlink"}
    BY <1>1, <1>5 DEF IInv, HostIsSound, TypeOK
  <2>3. proxy' = proxy \/ (~phone /\ proxy' = h)
    BY <1>1, <1>5
  <2>4. UNCHANGED <<phone, mutex, launcher>>
    BY <1>1
  <2>5. broker'.configured => broker.configured \/ (proxy' # None /\ proxy' = h)
    BY <1>5, <2>2
  <2>6. host' = [host EXCEPT ![h] = "configured"]
    BY <1>5
  <2> HIDE DEF Flags
  <2> QED
    BY <1>2, <1>3, <1>7, <2>1, <2>2, <2>3, <2>4, <2>5, <2>6, HostMoves
<1>8. ASSUME broker.accept, proxy' = h, NEW received \in BOOLEAN, NEW answered \in BOOLEAN,
             host' = IF received THEN [host EXCEPT ![h] = "configured"] ELSE host,
             broker' = [broker EXCEPT !.configured = received /\ answered, !.complete = TRUE]
      PROVE  IInv'
  BY <1>4, <1>5, <1>8
<1> QED
  BY <1>4, <1>8 DEF ChildCallsBack

LEMMA HostLifeStep ==
  ASSUME IInv, NEW h \in Host, ChildGivesUp(h) \/ Listen(h) \/ ChildExits(h) \/ ChildCrashes(h)
  PROVE  IInv'
<1>1. PICK to \in {"listening", "dead"} : host' = [host EXCEPT ![h] = to]
  BY DEF ChildGivesUp, Listen, ChildExits, ChildCrashes
<1>2. UNCHANGED <<phone, mutex, launcher, broker, proxy, stopper, called>> /\ socket' \in {socket, h}
  BY DEF ChildGivesUp, Listen, ChildExits, ChildCrashes
<1>3. upset' \subseteq {"stop", "file", "death"}
  BY DisturbEffect DEF ChildGivesUp, Listen, ChildExits, ChildCrashes, IInv, HostIsSound, TypeOK
<1>4. /\ broker \in Broker /\ socket' \in Host \cup {None} /\ called \subseteq Host
      /\ stopper \subseteq {"shutdown", "unlink"} /\ lost' \subseteq Host
  BY <1>2 DEF IInv, HostIsSound, TypeOK, ChildGivesUp, Listen, ChildExits, ChildCrashes
<1> QED
  BY <1>1, <1>2, <1>3, <1>4, HostMoves

LEMMA ThreadReturnsStep == ASSUME IInv, NEW h \in Host, ThreadReturns(h) PROVE IInv'
<1> USE DEF ThreadReturns
<1>1. /\ broker' \in Broker /\ broker'.inProcess = broker.inProcess
      /\ broker'.usesIpc = broker.usesIpc /\ broker'.configured = broker.configured
  BY DEF IInv, HostIsSound, TypeOK, Broker
<1>2. /\ socket \in Host \cup {None} /\ called \subseteq Host /\ stopper \subseteq {"shutdown", "unlink"}
      /\ lost' \subseteq Host
  BY DEF IInv, HostIsSound, TypeOK
<1>3. upset' \subseteq {"stop", "file", "death"}
  BY DisturbEffect
<1> QED
  BY <1>1, <1>2, <1>3, HostMoves

LEMMA ThreadUnconfiguresStep == ASSUME IInv, NEW h \in Host, ThreadUnconfigures(h) PROVE IInv'
<1> USE DEF ThreadUnconfigures
<1>1. /\ broker' \in Broker /\ broker'.inProcess = broker.inProcess
      /\ broker'.usesIpc = broker.usesIpc /\ ~broker'.configured
  BY DEF IInv, HostIsSound, TypeOK, Broker
<1>2. /\ socket \in Host \cup {None} /\ called \subseteq Host /\ stopper \subseteq {"shutdown", "unlink"}
      /\ upset \subseteq {"stop", "file", "death"} /\ lost' \subseteq Host
  BY DEF IInv, HostIsSound, TypeOK
<1> QED
  BY <1>1, <1>2, HostMoves

LEMMA StopSteps == ASSUME IInv, StopStep PROVE IInv'
<1>1. CASE Stop
  <2> USE <1>1 DEF Stop
  <2>1. /\ broker' \in Broker /\ ~broker'.inProcess /\ ~broker'.usesIpc
        /\ broker'.configured = broker.configured
    BY DEF IInv, HostIsSound, TypeOK, Broker
  <2>2. upset' \subseteq {"stop", "file", "death"}
    BY DisturbEffect
  <2>3. stopper' \subseteq {"shutdown", "unlink"}
    OBVIOUS
  <2>4. TypeOK'
    BY <2>1, <2>2, <2>3 DEF IInv, HostIsSound, TypeOK
  <2> QED
    BY <2>1, <2>4 DEF IInv, HostIsSound, OnlyHolderIsInside, InsideCalls, ConfiguredHasProxy,
       KindsApart, ProxyIsChild
<1>2. CASE StopShutsDown
  <2> USE <1>2 DEF StopShutsDown
  <2>1. broker \in Broker
    BY DEF IInv, HostIsSound, TypeOK
  <2>2. /\ broker' \in Broker /\ broker'.usesIpc = broker.usesIpc
        /\ broker'.inProcess = broker.inProcess /\ ~broker'.configured
    BY <2>1, ShutDownEffect
  <2>3. TypeOK' /\ proxy' = None
    BY <2>2, ShutdownKeepsHosts DEF IInv, HostIsSound, TypeOK
  <2> QED
    BY <2>2, <2>3 DEF IInv, HostIsSound, OnlyHolderIsInside, InsideCalls, ConfiguredHasProxy,
       KindsApart, ProxyIsChild
<1>3. CASE StopUnlinks
  <2>1. TypeOK'
    BY <1>3 DEF StopUnlinks, IInv, HostIsSound, TypeOK
  <2> QED
    BY <1>3, <2>1 DEF StopUnlinks, IInv, HostIsSound, OnlyHolderIsInside, InsideCalls,
       ConfiguredHasProxy, KindsApart, ProxyIsChild
<1> QED
  BY <1>1, <1>2, <1>3 DEF StopStep

LEMMA StutterStep == ASSUME IInv, UNCHANGED vars PROVE IInv'
<1>1. TypeOK'
  BY DEF IInv, HostIsSound, TypeOK
<1> QED
  BY <1>1 DEF IInv, HostIsSound, OnlyHolderIsInside, InsideCalls, ConfiguredHasProxy, KindsApart,
     ProxyIsChild

-----------------------------------------------------------------------------
LEMMA Invariance == IInv /\ [Next]_vars => IInv'
<1> SUFFICES ASSUME IInv, [Next]_vars PROVE IInv'
  OBVIOUS
<1>1. CASE \E l \in Launcher : Launch(l) \/ LauncherStep(l)
  BY <1>1, LaunchStep, CallBrokerStep, CreateThreadStep, CreateChildStep, ChildReportedStep,
     CallbackFailsStep, SocketAnsweredStep, SocketLostStep, CheckStateStep DEF LauncherStep
<1>2. CASE \E h \in Host : HostStep(h)
  BY <1>2, ChildCallsBackStep, HostLifeStep, ThreadReturnsStep, ThreadUnconfiguresStep DEF HostStep
<1> QED
  BY <1>1, <1>2, StopSteps, StutterStep DEF Next

(***************************************************************************)
(* Whatever the hosts do and whenever Stop runs, one launch thread at a    *)
(* time is in the broker's start path, and the broker never holds a        *)
(* configured server without the proxy of a child to reach it by.          *)
(***************************************************************************)
THEOREM HostStaysSound == Spec => []HostIsSound
<1>1. IInv => HostIsSound
  BY DEF IInv
<1> QED
  BY <1>1, InitIInv, Invariance, PTL DEF Spec

\* Reachability survives what a step may do: nobody becomes configured, a proxy
\* is dropped only with its child told or given up, or a new child becomes proxy.
LEMMA ReachKept ==
  ASSUME ConfiguredIsReachable, phone' = phone,
         \A g \in Host : host'[g] \in {"configured", "listening"}
                          => host[g] \in {"configured", "listening"} \/ g = proxy',
         \A g \in lost : g \in lost',
         \A g \in Host : g = proxy => \/ g = proxy' \/ g \in lost'
                                     \/ host'[g] \notin {"configured", "listening"}
  PROVE  ConfiguredIsReachable'
BY DEF ConfiguredIsReachable

LEMMA ReachShutdown ==
  ASSUME IInv, ConfiguredIsReachable, SendShutdown, phone' = phone PROVE ConfiguredIsReachable'
<1>1. PICK sent \in BOOLEAN : /\ host' = HostsAfterShutdown(sent)
                             /\ lost' = IF sent THEN lost ELSE LeftAlone
  BY DEF SendShutdown
<1>2. host \in [Host -> Alive \cup {"unborn", "leaving", "dead"}]
  BY DEF IInv, HostIsSound, TypeOK
<1>3. \A g \in Host : host'[g] \in {host[g], "leaving"}
                       /\ (sent /\ g = proxy => host'[g] \notin {"configured", "listening"})
  BY <1>1, <1>2 DEF HostsAfterShutdown, Alive
<1>4. ~sent => \A g \in Host : g = proxy => g \in lost'
  BY <1>1, NoneIsNobody DEF LeftAlone
<1>5. \A g \in lost : g \in lost'
  BY <1>1 DEF LeftAlone
<1> QED
  BY <1>3, <1>4, <1>5, ReachKept

\* The query has failed: the proxy is dropped, and its child given up.
LEMMA ReachDeath ==
  ASSUME ConfiguredIsReachable, UNCHANGED <<phone, host>>,
         \/ UNCHANGED <<proxy, lost>>
         \/ proxy' = ProxyAfterDeath /\ lost' = LostAfterDeath
  PROVE  ConfiguredIsReachable'
BY NoneIsNobody DEF ConfiguredIsReachable, ProxyAfterDeath, LostAfterDeath, LeftAlone

LEMMA ReachLaunch ==
  ASSUME IInv, ConfiguredIsReachable, NEW l \in Launcher, Launch(l) \/ LauncherStep(l)
  PROVE  ConfiguredIsReachable'
<1>1. CASE Launch(l) \/ ChildReported(l) \/ SocketAnswered(l) \/ CheckState(l)
  BY <1>1, ReachDeath DEF Launch, ChildReported, SocketAnswered, CheckState
<1>2. CASE CallBroker(l)
  <2>1. UNCHANGED <<phone, host>>
    BY <1>2 DEF CallBroker
  <2>2. UNCHANGED <<proxy, lost>> \/ (proxy' = ProxyAfterDeath /\ lost' = LostAfterDeath)
    BY <1>2 DEF CallBroker
  <2> QED
    BY <2>1, <2>2, ReachDeath
<1>3. CASE SocketLost(l)
  BY <1>3, ReachDeath DEF SocketLost
<1>4. CASE CallbackFails(l)
  BY <1>4, ReachShutdown DEF CallbackFails
<1>5. CASE CreateThread(l)
  BY <1>5 DEF CreateThread, ConfiguredIsReachable
<1>6. CASE CreateChild(l)
  <2>1. host' = host \/ \E h \in Host : host' = [host EXCEPT ![h] = "spawned"]
    BY <1>6 DEF CreateChild
  <2>2. \A g \in Host : host'[g] \in {host[g], "spawned"}
    BY <2>1 DEF IInv, HostIsSound, TypeOK
  <2>3. UNCHANGED <<phone, proxy, lost>>
    BY <1>6 DEF CreateChild
  <2> QED
    BY <2>2, <2>3 DEF ConfiguredIsReachable
<1> QED
  BY <1>1, <1>2, <1>3, <1>4, <1>5, <1>6 DEF LauncherStep

LEMMA ReachHost ==
  ASSUME IInv, ConfiguredIsReachable, NEW h \in Host, HostStep(h) PROVE ConfiguredIsReachable'
<1>1. host \in [Host -> Alive \cup {"unborn", "leaving", "dead"}] /\ phone' = phone
  BY DEF IInv, HostIsSound, TypeOK, HostStep, ChildCallsBack, ChildGivesUp, Listen, ChildExits,
     ChildCrashes, ThreadReturns, ThreadUnconfigures
<1>2. CASE ChildCallsBack(h)
  <2>1. CASE UNCHANGED <<proxy, host, lost>>
    BY <1>1, <2>1 DEF ConfiguredIsReachable
  <2>2. CASE proxy' = h /\ lost' = LeftAlone
             /\ \E received \in BOOLEAN : host' = IF received THEN [host EXCEPT ![h] = "configured"] ELSE host
    <3>1. \A g \in Host : g # h => host'[g] = host[g]
      BY <1>1, <2>2
    <3>2. \A g \in lost : g \in lost'
      BY <2>2 DEF LeftAlone
    <3>3. \A g \in Host : g = proxy => g \in lost'
      BY <2>2, NoneIsNobody DEF LeftAlone
    <3> QED
      BY <1>1, <2>2, <3>1, <3>2, <3>3, ReachKept
  <2> QED
    BY <1>2, <2>1, <2>2 DEF ChildCallsBack
<1>3. CASE ChildGivesUp(h) \/ ChildExits(h) \/ ChildCrashes(h) \/ Listen(h)
  <2>1. UNCHANGED <<proxy, lost>>
    BY <1>3 DEF ChildGivesUp, ChildExits, ChildCrashes, Listen
  <2>2. \A g \in Host : \/ host'[g] \in {host[g], "dead"}
                          \/ (host[g] = "configured" /\ host'[g] = "listening")
    BY <1>1, <1>3 DEF ChildGivesUp, ChildExits, ChildCrashes, Listen
  <2> QED
    BY <1>1, <2>1, <2>2 DEF ConfiguredIsReachable
<1>4. CASE ThreadReturns(h) \/ ThreadUnconfigures(h)
  BY <1>4 DEF ThreadReturns, ThreadUnconfigures, ConfiguredIsReachable
<1> QED
  BY <1>2, <1>3, <1>4 DEF HostStep

(***************************************************************************)
(* Whatever starts, fails to start, reports late or is stopped, and in     *)
(* whatever order: a child that runs with its configuration is the one the *)
(* broker has a proxy of, unless it was given up because a request to it   *)
(* failed or another child reported.                                       *)
(***************************************************************************)
THEOREM ChildStaysReachable == Spec => []ConfiguredIsReachable
<1>1. Init => ConfiguredIsReachable
  BY DEF Init, ConfiguredIsReachable
<1>2. IInv /\ ConfiguredIsReachable /\ [Next]_vars => ConfiguredIsReachable'
  <2> SUFFICES ASSUME IInv, ConfiguredIsReachable, [Next]_vars PROVE ConfiguredIsReachable'
    OBVIOUS
  <2>1. CASE StopStep
    <3>1. CASE StopShutsDown
      BY <3>1, ReachShutdown DEF StopShutsDown
    <3>2. CASE Stop \/ StopUnlinks
      BY <3>2, ReachDeath DEF Stop, StopUnlinks
    <3> QED
      BY <2>1, <3>1, <3>2 DEF StopStep
  <2>2. CASE UNCHANGED vars
    BY <2>2, ReachDeath
  <2> QED
    BY <2>1, <2>2, ReachLaunch, ReachHost DEF Next
<1> QED
  BY <1>1, <1>2, InitIInv, Invariance, PTL DEF Spec
-----------------------------------------------------------------------------
(***************************************************************************)
(* What a launch may believe, as long as nothing has disturbed it: no Stop *)
(* is in progress, a socket file is the file of a host that listens, and   *)
(* the active flag, set by each return, says no more than that.            *)
(***************************************************************************)
TruthInv ==
  Busy # {} /\ upset = {} =>
    /\ stopper = {}
    /\ broker.running \/ mutex # None => (socket # None => Served)
    /\ \A l \in Launcher : launcher[l].at = "socket" => broker.running
    /\ mutex = None /\ (\E l \in Launcher : launcher[l].call >= 2) /\ broker.active => Served

LEMMA InitTruth == Init => TruthInv
BY DEF Init, TruthInv, Busy

\* While launches are in progress, what disturbs them is recorded.
LEMMA DisturbIsSeen == ASSUME NEW what, Disturb(what), Busy # {} PROVE upset' # {}
BY DEF Disturb

\* A call returns: the flag it sets is true, and so is the socket file.
LEMMA ReturnIsTrue ==
  ASSUME IInv, TruthInv, NEW l \in Launcher, launcher[l].call \in 1..3, mutex \in {None, l},
         NEW b \in Broker, Return(l, b), UNCHANGED <<stopper, upset>>,
         Busy # {} /\ upset = {} => /\ b.running /\ socket' # None => Served'
                                    /\ b.requested /\ b.started /\ b.socketReady => Served'
  PROVE  TruthInv'
<1>1. mutex' = None /\ \A k \in Launcher : launcher'[k].at = "out"
  BY ReturnEffect
<1>2. PICK v \in BOOLEAN : v = (b.requested /\ b.started /\ b.socketReady)
  OBVIOUS
<1>3. broker' = [b EXCEPT !.active = v]
  BY <1>2 DEF Return
<1>4. broker'.running = b.running /\ broker'.active = v
  BY <1>3 DEF Broker
<1>5. Busy # {}
  BY DEF Busy
<1> QED
  BY <1>1, <1>2, <1>4, <1>5 DEF TruthInv

LEMMA LaunchTruth == ASSUME IInv, TruthInv, NEW l \in Launcher, Launch(l) PROVE TruthInv'
<1> USE DEF Launch
<1>1. SUFFICES ASSUME upset' = {} PROVE TruthInv'
  BY DEF TruthInv
<1>2. stopper = {} /\ Clean /\ (Busy # {} => upset = {})
  BY <1>1
<1>3. launcher \in [Launcher -> Progress] /\ \A k \in Launcher : launcher'[k].at = launcher[k].at
      /\ (launcher'[k].call >= 2 => launcher[k].call >= 2)
  BY DEF IInv, HostIsSound, TypeOK, Progress
<1>4. CASE Busy # {}
  BY <1>2, <1>3, <1>4 DEF TruthInv, Served
<1>5. CASE Busy = {}
  <2>1. \A k \in Launcher : launcher[k].call = 0
    BY <1>5 DEF Busy
  <2>2. \A k \in Launcher : launcher[k].at = "out"
    BY <2>1 DEF IInv, InsideCalls
  <2>3. mutex = None
    BY <2>2 DEF IInv, HostIsSound, OnlyHolderIsInside, TypeOK
  <2> QED
    BY <1>2, <1>3, <2>1, <2>2, <2>3 DEF TruthInv, Served, Clean
<1> QED
  BY <1>4, <1>5

LEMMA CallBrokerTruth == ASSUME IInv, TruthInv, NEW l \in Launcher, CallBroker(l) PROVE TruthInv'
<1> DEFINE b == Entered(l)
<1>1. b \in Broker /\ b.running = broker.running
  BY DEF Entered, IInv, HostIsSound, TypeOK, Broker
<1>2. /\ launcher[l].call \in 1..3 /\ mutex = None /\ UNCHANGED <<stopper, host, upset>>
      /\ launcher \in [Launcher -> Progress]
  BY DEF CallBroker, IInv, HostIsSound, TypeOK
<1>3. Busy # {}
  BY <1>2 DEF Busy
<1>4. CASE (~b.requested \/ ~b.started) /\ Return(l, b) /\ UNCHANGED socket
  <2> HIDE DEF b
  <2>1. Busy # {} /\ upset = {} => (b.running /\ socket' # None => Served')
    BY <1>1, <1>2, <1>4 DEF TruthInv, Served
  <2> QED
    BY <1>1, <1>2, <1>4, <2>1, ReturnIsTrue
<1>5. CASE b.running /\ Return(l, [b EXCEPT !.socketReady = socket # None]) /\ UNCHANGED socket
  <2> HIDE DEF b
  <2>1. PICK found \in BOOLEAN : found = (socket # None)
    OBVIOUS
  <2> DEFINE c == [b EXCEPT !.socketReady = found]
  <2>2. c \in Broker /\ c.running = b.running /\ c.socketReady = found
    BY <1>1 DEF Broker
  <2>3. Return(l, c)
    BY <1>5, <2>1
  <2>4. Busy # {} /\ upset = {} => (socket' # None => Served')
    BY <1>1, <1>2, <1>5 DEF TruthInv, Served
  <2> HIDE DEF c
  <2> QED
    BY <1>2, <1>5, <2>1, <2>2, <2>3, <2>4, ReturnIsTrue
<1>6. CASE socket' = None /\ mutex' = l /\ launcher' = [launcher EXCEPT ![l].at = "create"]
  <2>1. \A k \in Launcher : launcher'[k].at # "socket"
    BY <1>2, <1>6 DEF IInv, HostIsSound, OnlyHolderIsInside, TypeOK, Progress
  <2> QED
    BY <1>2, <1>3, <1>6, <2>1 DEF TruthInv
<1> QED
  BY <1>4, <1>5, <1>6 DEF CallBroker

\* A host that was not created yet is not the one that listens.
LEMMA CreateTruth ==
  ASSUME IInv, TruthInv, NEW l \in Launcher, CreateThread(l) \/ CreateChild(l) PROVE TruthInv'
<1>1. /\ mutex = l /\ launcher[l].call \in 1..3 /\ broker \in Broker
      /\ launcher \in [Launcher -> Progress] /\ UNCHANGED <<stopper, socket, upset>>
  BY DEF CreateThread, CreateChild, IInv, HostIsSound, OnlyHolderIsInside, TypeOK, InsideCalls
<1>2. mutex # None /\ Busy # {}
  BY <1>1 DEF Busy
<1>3. ASSUME NEW b \in Broker, Return(l, b), ~b.running, ~b.socketReady PROVE TruthInv'
  BY <1>1, <1>3, ReturnIsTrue
<1>4. CASE Return(l, [broker EXCEPT !.running = FALSE, !.socketReady = FALSE])
  <2> DEFINE b == [broker EXCEPT !.running = FALSE, !.socketReady = FALSE]
  <2>1. b \in Broker /\ ~b.running /\ ~b.socketReady
    BY <1>1 DEF Broker
  <2> HIDE DEF b
  <2> QED
    BY <1>3, <1>4, <2>1 DEF b
<1>5. CASE Return(l, [broker EXCEPT !.accept = FALSE, !.running = FALSE, !.socketReady = FALSE])
  <2> DEFINE b == [broker EXCEPT !.accept = FALSE, !.running = FALSE, !.socketReady = FALSE]
  <2>1. b \in Broker /\ ~b.running /\ ~b.socketReady
    BY <1>1 DEF Broker
  <2> HIDE DEF b
  <2> QED
    BY <1>3, <1>5, <2>1 DEF b
<1>6. ASSUME NEW h \in Host, host[h] = "unborn", NEW to, host' = [host EXCEPT ![h] = to],
             NEW place, launcher' = [launcher EXCEPT ![l].at = place], mutex' = mutex,
             place = "socket" => broker'.running
      PROVE  TruthInv'
  <2>1. Served => Served'
    BY <1>1, <1>6 DEF Served, IInv, HostIsSound, TypeOK
  <2>2. \A k \in Launcher : launcher'[k].at = "socket" => k = l /\ place = "socket"
    BY <1>1, <1>6 DEF IInv, HostIsSound, OnlyHolderIsInside, Progress
  <2> QED
    BY <1>1, <1>2, <1>6, <2>1, <2>2 DEF TruthInv
<1>7. CASE CreateThread(l)
  <2>1. ASSUME NEW h \in Host, host[h] = "unborn", host' = [host EXCEPT ![h] = "configured"],
               broker' = [broker EXCEPT !.usesIpc = FALSE, !.inProcess = TRUE, !.running = TRUE,
                            !.configured = TRUE, !.complete = TRUE, !.socketReady = FALSE],
               launcher' = [launcher EXCEPT ![l].at = "socket"], mutex' = mutex
        PROVE  TruthInv'
    <3>1. broker'.running
      BY <1>1, <2>1 DEF Broker
    <3> QED
      BY <1>6, <2>1, <3>1
  <2> QED
    BY <1>4, <1>7, <2>1 DEF CreateThread
<1>8. CASE CreateChild(l)
  BY <1>5, <1>6, <1>8 DEF CreateChild
<1> QED
  BY <1>7, <1>8

LEMMA ChildReportedTruth == ASSUME IInv, TruthInv, NEW l \in Launcher, ChildReported(l) PROVE TruthInv'
<1>1. /\ mutex = l /\ mutex' = l /\ mutex # None /\ launcher[l].call \in 1..3 /\ broker \in Broker
      /\ UNCHANGED <<stopper, socket, host, upset>>
  BY DEF ChildReported, IInv, HostIsSound, OnlyHolderIsInside, TypeOK, InsideCalls
<1>2. Busy # {}
  BY <1>1 DEF Busy
<1>3. broker'.running
  BY <1>1 DEF ChildReported, Broker
<1> QED
  BY <1>1, <1>2, <1>3 DEF TruthInv, Served

LEMMA CallFailsTruth ==
  ASSUME IInv, TruthInv, NEW l \in Launcher, CallbackFails(l) \/ SocketLost(l) PROVE TruthInv'
<1>1. /\ mutex = l /\ launcher[l].call \in 1..3 /\ broker \in Broker /\ UNCHANGED <<stopper, upset>>
  BY DEF CallbackFails, SocketLost, IInv, HostIsSound, OnlyHolderIsInside, TypeOK, InsideCalls
<1>2. CASE CallbackFails(l)
  <2> DEFINE b == [ShutDown(broker) EXCEPT !.running = FALSE, !.socketReady = FALSE]
  <2>1. b \in Broker /\ ~b.running /\ ~b.socketReady
    BY <1>1 DEF ShutDown, Broker
  <2>2. Return(l, b)
    BY <1>2 DEF CallbackFails
  <2> HIDE DEF b
  <2> QED
    BY <1>1, <2>1, <2>2, ReturnIsTrue
<1>3. CASE SocketLost(l)
  <2> DEFINE b == [ForgottenDead EXCEPT !.usesIpc = FALSE, !.inProcess = FALSE,
                                        !.running = FALSE, !.socketReady = FALSE]
  <2>1. b \in Broker /\ ~b.running /\ ~b.socketReady
    BY <1>1 DEF ForgottenDead, Broker
  <2>2. Return(l, b)
    BY <1>3 DEF SocketLost
  <2> HIDE DEF b
  <2> QED
    BY <1>1, <2>1, <2>2, ReturnIsTrue
<1> QED
  BY <1>2, <1>3

LEMMA SocketAnsweredTruth == ASSUME IInv, TruthInv, NEW l \in Launcher, SocketAnswered(l) PROVE TruthInv'
<1>1. /\ mutex = l /\ mutex # None /\ launcher[l].call \in 1..3 /\ broker \in Broker
      /\ UNCHANGED <<stopper, upset, host, socket>>
  BY DEF SocketAnswered, IInv, HostIsSound, OnlyHolderIsInside, TypeOK, InsideCalls
<1>2. PICK found \in BOOLEAN : found = (socket # None)
  OBVIOUS
<1> DEFINE b == [broker EXCEPT !.socketReady = found]
<1>3. b \in Broker /\ b.socketReady = found
  BY <1>1 DEF Broker
<1>4. Return(l, b)
  BY <1>2 DEF SocketAnswered
<1>5. Busy # {} /\ upset = {} => (socket' # None => Served')
  BY <1>1 DEF TruthInv, Served
<1> HIDE DEF b
<1> QED
  BY <1>1, <1>2, <1>3, <1>4, <1>5, ReturnIsTrue

LEMMA CheckStateTruth == ASSUME IInv, TruthInv, NEW l \in Launcher, CheckState(l) PROVE TruthInv'
<1>1. launcher \in [Launcher -> Progress] /\ \A k \in Launcher : launcher'[k].at = launcher[k].at
      /\ launcher'[k].call \in {launcher[k].call, 0}
  BY DEF CheckState, IInv, HostIsSound, TypeOK, Progress
<1>2. Busy' \subseteq Busy /\ \A k \in Launcher : launcher'[k].call >= 2 => launcher[k].call >= 2
  BY <1>1 DEF Busy
<1> QED
  BY <1>1, <1>2 DEF TruthInv, CheckState, Served

LEMMA HostTruth == ASSUME IInv, TruthInv, NEW h \in Host, HostStep(h) PROVE TruthInv'
<1>1. UNCHANGED <<mutex, launcher, stopper>> /\ Busy' = Busy
  BY DEF HostStep, ChildCallsBack, ChildGivesUp, Listen, ChildExits, ChildCrashes, ThreadReturns,
     ThreadUnconfigures, Busy
<1>2. broker' \in Broker /\ host \in [Host -> Alive \cup {"unborn", "leaving", "dead"}]
  BY ChildCallsBackStep, HostLifeStep, ThreadReturnsStep, ThreadUnconfiguresStep
     DEF HostStep, IInv, HostIsSound, TypeOK
<1>3. CASE ChildCrashes(h) \/ ThreadReturns(h)
  <2>1. Busy # {} => upset' # {}
    BY <1>3, DisturbIsSeen DEF ChildCrashes, ThreadReturns
  <2> QED
    BY <1>1, <2>1 DEF TruthInv
<1>4. CASE ChildCallsBack(h) \/ ChildGivesUp(h) \/ ChildExits(h) \/ ThreadUnconfigures(h)
  <2>1. UNCHANGED <<socket, upset>> /\ broker'.running = broker.running /\ broker'.active = broker.active
    BY <1>4 DEF ChildCallsBack, ChildGivesUp, ChildExits, ThreadUnconfigures, IInv, HostIsSound, TypeOK, Broker
  <2>2. host' = host \/ (host[h] # "listening" /\ \E to \in {"configured", "dead"} : host' = [host EXCEPT ![h] = to])
    BY <1>4 DEF ChildCallsBack, ChildGivesUp, ChildExits, ThreadUnconfigures
  <2>3. Served => Served'
    BY <1>2, <2>1, <2>2 DEF Served, IInv, HostIsSound, TypeOK
  <2> QED
    BY <1>1, <2>1, <2>3 DEF TruthInv
<1>5. CASE Listen(h)
  <2>1. Served' /\ UNCHANGED <<upset, broker>>
    BY <1>2, <1>5, NoneIsNobody DEF Listen, Served
  <2> QED
    BY <1>1, <2>1 DEF TruthInv
<1> QED
  BY <1>3, <1>4, <1>5 DEF HostStep

LEMMA StopTruth == ASSUME IInv, TruthInv, StopStep PROVE TruthInv'
<1>1. Busy' = Busy
  BY DEF StopStep, Stop, StopShutsDown, StopUnlinks, Busy
<1>2. CASE Stop
  BY <1>1, <1>2, DisturbIsSeen DEF Stop, TruthInv
<1>3. CASE StopShutsDown \/ StopUnlinks
  <2>1. stopper # {} /\ upset' = upset
    BY <1>3 DEF StopShutsDown, StopUnlinks
  <2> QED
    BY <1>1, <2>1 DEF TruthInv
<1> QED
  BY <1>2, <1>3 DEF StopStep

LEMMA TruthStep == ASSUME IInv, TruthInv, [Next]_vars PROVE TruthInv'
<1>1. CASE \E l \in Launcher : Launch(l) \/ LauncherStep(l)
  BY <1>1, LaunchTruth, CallBrokerTruth, CreateTruth, ChildReportedTruth, CallFailsTruth,
     SocketAnsweredTruth, CheckStateTruth DEF LauncherStep
<1>2. CASE \E h \in Host : HostStep(h)
  BY <1>2, HostTruth
<1>3. CASE UNCHANGED vars
  BY <1>3 DEF vars, TruthInv, Busy, Served
<1> QED
  BY <1>1, <1>2, <1>3, StopTruth DEF Next

(***************************************************************************)
(* A launch that is told "Virgl" by GetState finds a host listening on the *)
(* socket, whatever other launches failed before or beside it, as long as  *)
(* no host has died and no Stop has run since, and no dead host's file was *)
(* there at the beginning.                                                 *)
(***************************************************************************)
THEOREM LaunchesSeeTruth == Spec => LaunchSeesTruth
<1>1. ASSUME IInv, TruthInv, NEW l \in Launcher, CheckState(l), broker.active, upset = {}
      PROVE  Served
  <2>1. launcher[l].call = 4 /\ mutex = None
    BY <1>1 DEF CheckState
  <2>2. Busy # {} /\ launcher[l].call >= 2
    BY <2>1 DEF Busy
  <2> QED
    BY <1>1, <2>1, <2>2 DEF TruthInv
<1>2. IInv /\ TruthInv /\ [Next]_vars =>
        [\A l \in Launcher : CheckState(l) /\ broker.active /\ upset = {} => Served]_vars
  BY <1>1
<1>3. IInv /\ TruthInv /\ [Next]_vars => TruthInv'
  BY TruthStep
<1> QED
  BY <1>2, <1>3, InitIInv, InitTruth, Invariance, PTL DEF Spec, LaunchSeesTruth

-----------------------------------------------------------------------------
(***************************************************************************)
(* The zero-copy path.                                                     *)
(***************************************************************************)
LEMMA ZeroLimits == FailureLimit \in Nat \ {0} /\ MaxBaseline \in Nat \ {0}
BY ZeroCopyAssumption DEF ZeroCopyAssumption

LEMMA ZeroKinds == NoSurface \notin Surface /\ Direct \subseteq Surface /\ Vulkan \subseteq Surface
BY ZeroCopyAssumption DEF ZeroCopyAssumption

USE ZeroLimits, ZeroKinds

(***************************************************************************)
(* What makes the bindings sound inductive: the host has a target for the  *)
(* bound surface, unless it was lost since, the marker is gone before      *)
(* anything else is taken back, and it comes after everything else has     *)
(* been given.                                                             *)
(***************************************************************************)
TargetIsKept ==
  /\ bound # NoSurface => hosted[bound] = "attached" \/ bound \in orphan
  /\ image.avail => bound # NoSurface

MarkerIsLast ==
  /\ at = "release" => marker = {}
  /\ image.pending => marker = {}
  /\ at = "announce" => /\ bound # NoSurface /\ ~image.pending
                        /\ bound \notin alive \/ bound \in renewed \/ bound \in keys

\* A fallback that has met its baseline has seen the copy of a commit since,
\* or the serial was read ahead of the copy that is to come.
BaselineIsNew ==
  (image.pending \/ at = "revoke") /\ ~blind /\ lag = 0 /\ bound \in stale
    => bound \in Direct /\ guest[bound].at = "store"

BindingIsKept == SilentGuestIsShown /\ TargetIsKept /\ MarkerIsLast
ZeroSoundInv == BindingIsSound /\ TargetIsKept /\ MarkerIsLast
ZeroInv == ZeroSoundInv /\ BaselineIsNew

LEMMA InitZeroInv == ZeroInit => ZeroInv
<1> SUFFICES ASSUME ZeroInit PROVE ZeroInv
  OBVIOUS
<1>1. Unbound \in Image /\ ~Unbound.avail /\ ~Unbound.pending
  BY DEF Unbound, Image
<1>2. lag \in 0..MaxBaseline
  BY DEF ZeroInit
<1>3. ZeroTypeOK
  BY <1>1, <1>2 DEF ZeroInit, ZeroTypeOK
<1> QED
  BY <1>1, <1>3 DEF ZeroInit, ZeroInv, ZeroSoundInv, BindingIsSound, SilentGuestIsShown, TargetIsKept,
     MarkerIsLast, BaselineIsNew

USE DEF zeroVars, others, history

\* What a failed update and a new image do to the image.
LEMMA FailedImage == image \in Image => Failed \in Image /\ Failed.pending = image.pending
                                        /\ Failed.ready = image.ready /\ ~Failed.avail
<1> SUFFICES ASSUME image \in Image PROVE Failed \in Image /\ Failed.pending = image.pending
                                        /\ Failed.ready = image.ready /\ ~Failed.avail
  OBVIOUS
<1>1. image.failures \in 0..FailureLimit
  BY DEF Image
<1>2. PICK n \in 0..FailureLimit :
        n = IF image.ready /\ image.failures < FailureLimit THEN image.failures + 1 ELSE image.failures
  BY <1>1
<1>3. Failed = [image EXCEPT !.avail = FALSE, !.failures = n]
  BY <1>2 DEF Failed, Image
<1> QED
  BY <1>3 DEF Image

LEMMA NoFailures ==
  ASSUME image \in Image
  PROVE  [image EXCEPT !.failures = 0] \in Image
<1>1. 0 \in 0..FailureLimit
  OBVIOUS
<1>2. ASSUME NEW n \in 0..FailureLimit PROVE [image EXCEPT !.failures = n] \in Image
  BY DEF Image
<1> QED
  BY <1>1, <1>2

LEMMA ShownImage == ASSUME image \in Image, NEW s, Shown(s) \/ UNCHANGED image PROVE image' \in Image
<1>1. image' = image \/ image' = [image EXCEPT !.avail = TRUE]
  BY Zenon DEF Shown
<1> QED
  BY <1>1 DEF Image

LEMMA ImageStep == image \in Image /\ [ZeroNext]_zeroVars => image' \in Image
<1> SUFFICES ASSUME image \in Image, [ZeroNext]_zeroVars PROVE image' \in Image
  OBVIOUS
<1>1. CASE EndRelease
  BY <1>1 DEF EndRelease, Unbound, Image
<1>2. CASE CheckBinding
  BY <1>2 DEF CheckBinding, BeginRelease, MayFind, MayMiss, Image
<1>3. CASE Keep
  BY <1>3 DEF Keep
<1>4. CASE Promote
  BY <1>4 DEF Promote, BeginRelease, Candidate, Image
<1>5. CASE NoFrame
  BY <1>5 DEF NoFrame
<1>6. CASE UpdateFails
  BY <1>6, FailedImage DEF UpdateFails
<1>7. CASE Revoke
  <2>1. [image EXCEPT !.failures = 0] \in Image
    BY NoFailures
  <2>2. image' = [[image EXCEPT !.failures = 0] EXCEPT !.ready = FALSE, !.pending = TRUE]
    BY <1>7, <2>1 DEF Revoke, Image
  <2> QED
    BY <2>1, <2>2 DEF Image
<1>8. CASE UpdateSucceeds
  <2>1. CASE image' = [image EXCEPT !.avail = FALSE, !.produced = TRUE, !.pending = FALSE, !.failures = 0]
    <3>1. [image EXCEPT !.failures = 0] \in Image
      BY NoFailures
    <3>2. image' = [[image EXCEPT !.failures = 0] EXCEPT !.avail = FALSE, !.produced = TRUE, !.pending = FALSE]
      BY <2>1, <3>1 DEF Image
    <3> QED
      BY <3>1, <3>2 DEF Image
  <2>2. CASE BeginRelease
    BY <2>2 DEF BeginRelease, Image
  <2> QED
    BY <1>8, <2>1, <2>2 DEF UpdateSucceeds
<1>9. CASE Announce
  BY <1>9 DEF Announce, Image
<1>10. ASSUME NEW s \in Surface, Attach(s) PROVE image' \in Image
  <2>1. PICK v \in BOOLEAN : image' = [Unbound EXCEPT !.vulkan = v, !.attached = TRUE] \/ image' = image
    BY <1>10 DEF Attach
  <2>2. [Unbound EXCEPT !.vulkan = v, !.attached = TRUE] \in Image
    <3>1. 0 \in 0..FailureLimit
      OBVIOUS
    <3>2. Unbound \in Image
      BY <3>1 DEF Unbound, Image
    <3> QED
      BY <3>2 DEF Image
  <2> QED
    BY <2>1, <2>2
<1>11. ASSUME NEW s \in Surface, BeginFrame(s) PROVE image' \in Image
  BY <1>11 DEF BeginFrame
<1>12. ASSUME NEW s \in Surface, Present(s) PROVE image' \in Image
  <2>1. Shown(s) \/ UNCHANGED image
    BY <1>12, Zenon DEF Present
  <2> QED
    BY <2>1, ShownImage
<1>13. ASSUME NEW s \in Surface, PresentVenus(s) PROVE image' \in Image
  <2>1. Shown(s) \/ UNCHANGED image
    BY <1>13, Zenon DEF PresentVenus
  <2> QED
    BY <2>1, ShownImage
<1>14. ASSUME NEW s \in Surface, VenusWaitEnds(s) PROVE image' \in Image
  <2>1. Shown(s) \/ UNCHANGED image
    BY <1>14, Zenon DEF VenusWaitEnds
  <2> QED
    BY <2>1, ShownImage
<1>15. ASSUME NEW s \in Surface, CountCommit(s) PROVE image' \in Image
  BY <1>15 DEF CountCommit
<1>16. ASSUME NEW s \in Surface, StoreCommit(s) PROVE image' \in Image
  BY <1>16 DEF StoreCommit
<1>17. ASSUME NEW s \in Surface, Destroy(s) PROVE image' \in Image
  BY <1>17 DEF Destroy
<1>18. ASSUME NEW s \in Surface, Recreate(s) PROVE image' \in Image
  BY <1>18 DEF Recreate
<1>19. CASE HostDies
  BY <1>19 DEF HostDies
<1>20. CASE StopResets
  BY <1>20 DEF StopResets, Image
<1>21. CASE StartClears
  BY <1>21 DEF StartClears
<1>22. CASE UNCHANGED zeroVars
  BY <1>22
<1> QED
  BY <1>1, <1>2, <1>3, <1>4, <1>5, <1>6, <1>7, <1>8, <1>9, <1>10, <1>11,
     <1>12, <1>13, <1>14, <1>15, <1>16, <1>17, <1>18, <1>19, <1>20, <1>21, <1>22
     DEF ZeroNext, RenderStep, GuestStep, CommitStep, HostStops

\* The guest goes on to one of its steps.
GuestAt == {"idle", "present", "wait", "commit", "store"}
LEMMA EndsType ==
  ASSUME guest \in [Surface -> [at : GuestAt, skip : BOOLEAN]], NEW s \in Surface,
         NEW steps, steps \subseteq GuestAt, Ends(s, steps)
  PROVE  guest' \in [Surface -> [at : GuestAt, skip : BOOLEAN]]
BY DEF Ends, GuestAt

LEMMA AfterType == ASSUME NEW s PROVE AfterGl(s) \subseteq GuestAt /\ AfterVulkan(s) \subseteq GuestAt
BY DEF AfterGl, AfterVulkan, GuestAt

LEMMA GuestStepType ==
  ASSUME ZeroTypeOK, NEW s \in Surface, GuestStep(s)
  PROVE  guest' \in [Surface -> [at : GuestAt, skip : BOOLEAN]]
<1>0. guest \in [Surface -> [at : GuestAt, skip : BOOLEAN]] /\ {"wait"} \subseteq GuestAt
  BY DEF ZeroTypeOK, GuestAt
<1>1. CASE BeginFrame(s)
  BY <1>0, <1>1 DEF BeginFrame, GuestAt
<1>2. CASE Present(s)
  BY <1>0, <1>2, EndsType, AfterType DEF Present
<1>3. CASE PresentVenus(s)
  <2>1. Ends(s, AfterVulkan(s)) \/ Ends(s, {"wait"})
    BY <1>3 DEF PresentVenus
  <2> QED
    BY <1>0, <2>1, EndsType, AfterType
<1>4. CASE VenusWaitEnds(s)
  BY <1>0, <1>4, EndsType, AfterType DEF VenusWaitEnds
<1> QED
  BY <1>1, <1>2, <1>3, <1>4 DEF GuestStep

\* Only the bound surface's frames show, and the host keeps what it has.
LEMMA ShownEffect ==
  ASSUME ZeroTypeOK, NEW s \in Surface, Shown(s)
  PROVE  /\ behind' \subseteq Surface
         /\ image'.pending = image.pending /\ (image'.avail => image.avail \/ bound = s)
BY DEF Shown, ZeroTypeOK, Image

LEMMA NotedEffect ==
  ASSUME ZeroTypeOK, NEW s \in Surface, Noted(s)
  PROVE  /\ hosted' \in [Surface -> {"unknown", "known", "attached"}]
         /\ \A t \in Surface : hosted[t] = "attached" => hosted'[t] = "attached"
         /\ Overtakes(s) \subseteq Surface
<1>1. Overtakes(s) \subseteq Surface
  BY DEF Overtakes, ZeroTypeOK
<1> QED
  BY <1>1 DEF Noted, ZeroTypeOK

LEMMA LossEffect == ZeroTypeOK => /\ NoEntries \in [Surface -> {"unknown", "known", "attached"}]
                                  /\ Orphans \subseteq Surface /\ orphan \subseteq Orphans
                                  /\ (bound # NoSurface => bound \in Orphans)
BY DEF NoEntries, Orphans, ZeroTypeOK

LEMMA PassedType == ZeroTypeOK => \A s : Passed(s) \in 0..MaxBaseline
BY DEF ZeroTypeOK, Passed

\* Every variable keeps its type.
LEMMA ZeroTypeStep == ZeroTypeOK /\ MarkerIsLast /\ [ZeroNext]_zeroVars => ZeroTypeOK'
<1> SUFFICES ASSUME ZeroTypeOK, MarkerIsLast, [ZeroNext]_zeroVars PROVE ZeroTypeOK'
  OBVIOUS
<1>0. image' \in Image
  BY ImageStep DEF ZeroTypeOK
<1>1. CASE EndRelease
  <2>1. lag' \in 0..MaxBaseline /\ bound' = NoSurface
    BY <1>1 DEF EndRelease
  <2>2. hosted' \in [Surface -> {"unknown", "known", "attached"}]
    BY <1>1 DEF EndRelease, ZeroTypeOK
  <2>3. ahead' \cup alive' \cup keys' \cup marker' \cup vulkan' \subseteq Surface
    BY <1>1 DEF EndRelease, ZeroTypeOK
  <2> QED
    BY <1>0, <1>1, <2>1, <2>2, <2>3 DEF EndRelease, ZeroTypeOK
<1>2. CASE CheckBinding
  BY <1>0, <1>2 DEF CheckBinding, BeginRelease, MayFind, MayMiss, ZeroTypeOK
<1>3. CASE Keep
  BY <1>0, <1>3 DEF Keep, ZeroTypeOK
<1>4. CASE Promote
  BY <1>0, <1>4 DEF Promote, BeginRelease, Candidate, ZeroTypeOK
<1>5. CASE NoFrame
  BY <1>0, <1>5 DEF NoFrame, ZeroTypeOK
<1>6. CASE UpdateFails
  <2>1. lag' \in 0..MaxBaseline
    BY <1>6, SMT DEF UpdateFails, ZeroTypeOK
  <2>2. blind' \in {TRUE, FALSE, blind}
    BY <1>6, Zenon DEF UpdateFails
  <2> QED
    BY <1>0, <1>6, <2>1, <2>2 DEF UpdateFails, ZeroTypeOK
<1>7. CASE Revoke
  BY <1>0, <1>7 DEF Revoke, ZeroTypeOK
<1>8. CASE UpdateSucceeds
  <2>1. lag' \in 0..MaxBaseline
    BY <1>8 DEF UpdateSucceeds, BeginRelease, ZeroTypeOK
  <2>2. keys' \cup marker' \cup stale' \cup ahead' \subseteq Surface
    BY <1>8 DEF UpdateSucceeds, BeginRelease, MayFind, ZeroTypeOK
  <2> QED
    BY <1>0, <1>8, <2>1, <2>2 DEF UpdateSucceeds, BeginRelease, ZeroTypeOK
<1>9. CASE Announce
  BY <1>0, <1>9 DEF Announce, MarkerIsLast, ZeroTypeOK
<1>10. ASSUME NEW s \in Surface, Attach(s) PROVE ZeroTypeOK'
  BY <1>0, <1>10 DEF Attach, Unbound, Candidate, ZeroTypeOK
<1>11. ASSUME NEW s \in Surface, BeginFrame(s) PROVE ZeroTypeOK'
  BY <1>0, <1>11, GuestStepType DEF BeginFrame, ZeroTypeOK, GuestStep, GuestAt
<1>12. ASSUME NEW s \in Surface, Present(s) PROVE ZeroTypeOK'
  <2>1. behind' \subseteq Surface /\ ahead' \subseteq Surface
    BY <1>12, ShownEffect, NotedEffect DEF Present, ZeroTypeOK
  <2>2. hosted' \in [Surface -> {"unknown", "known", "attached"}]
    BY <1>12, NotedEffect DEF Present, ZeroTypeOK
  <2> QED
    BY <1>0, <1>12, <2>1, <2>2, GuestStepType DEF Present, ZeroTypeOK, GuestStep, GuestAt
<1>13. ASSUME NEW s \in Surface, PresentVenus(s) PROVE ZeroTypeOK'
  <2>1. behind' \subseteq Surface /\ ahead' \subseteq Surface /\ vulkan' \subseteq Surface
    BY <1>13, ShownEffect, NotedEffect DEF PresentVenus, ZeroTypeOK
  <2>2. hosted' \in [Surface -> {"unknown", "known", "attached"}]
    BY <1>13, NotedEffect DEF PresentVenus, ZeroTypeOK
  <2> QED
    BY <1>0, <1>13, <2>1, <2>2, GuestStepType DEF PresentVenus, ZeroTypeOK, GuestStep, GuestAt
<1>14. ASSUME NEW s \in Surface, VenusWaitEnds(s) PROVE ZeroTypeOK'
  <2>1. behind' \subseteq Surface
    BY <1>14, ShownEffect DEF VenusWaitEnds, ZeroTypeOK
  <2> QED
    BY <1>0, <1>14, <2>1, GuestStepType DEF VenusWaitEnds, ZeroTypeOK, GuestStep, GuestAt
<1>15. ASSUME NEW s \in Surface, CountCommit(s) PROVE ZeroTypeOK'
  BY <1>0, <1>15, PassedType DEF CountCommit, ZeroTypeOK
<1>16. ASSUME NEW s \in Surface, StoreCommit(s) PROVE ZeroTypeOK'
  BY <1>0, <1>16, PassedType DEF StoreCommit, ZeroTypeOK
<1>17. ASSUME NEW s \in Surface, Destroy(s) PROVE ZeroTypeOK'
  BY <1>0, <1>17 DEF Destroy, ZeroTypeOK
<1>18. ASSUME NEW s \in Surface, Recreate(s) PROVE ZeroTypeOK'
  BY <1>0, <1>18 DEF Recreate, ZeroTypeOK
<1>19. CASE HostDies
  BY <1>0, <1>19, LossEffect DEF HostDies, ZeroTypeOK
<1>20. CASE StopResets
  BY <1>0, <1>20, LossEffect DEF StopResets, ZeroTypeOK
<1>21. CASE StartClears
  BY <1>0, <1>21 DEF StartClears, ZeroTypeOK
<1>22. CASE UNCHANGED zeroVars
  BY <1>22 DEF ZeroTypeOK
<1> QED
  BY <1>1, <1>2, <1>3, <1>4, <1>5, <1>6, <1>7, <1>8, <1>9, <1>10, <1>11,
     <1>12, <1>13, <1>14, <1>15, <1>16, <1>17, <1>18, <1>19, <1>20, <1>21, <1>22
     DEF ZeroNext, RenderStep, GuestStep, CommitStep, HostStops

LEMMA ZeroSoundStep == ZeroSoundInv /\ [ZeroNext]_zeroVars => BindingIsKept'
<1> SUFFICES ASSUME ZeroSoundInv, [ZeroNext]_zeroVars PROVE BindingIsKept'
  OBVIOUS
<1>0. ZeroTypeOK
  BY DEF ZeroSoundInv, BindingIsSound
<1> USE DEF BindingIsKept, ZeroSoundInv, BindingIsSound, ZeroTypeOK, SilentGuestIsShown, TargetIsKept, MarkerIsLast
<1>1. CASE EndRelease
  BY <1>1 DEF EndRelease, Unbound, Image
<1>2. CASE CheckBinding
  BY <1>2 DEF CheckBinding, BeginRelease, MayFind, MayMiss, Image
<1>3. CASE Keep
  BY <1>3 DEF Keep
<1>4. CASE Promote
  BY <1>4 DEF Promote, BeginRelease, Candidate, Image
<1>5. CASE NoFrame
  BY <1>5 DEF NoFrame
<1>6. CASE UpdateFails
  BY <1>6, FailedImage DEF UpdateFails
<1>7. CASE Revoke
  BY <1>7 DEF Revoke, Image
<1>8. CASE UpdateSucceeds
  BY <1>8 DEF UpdateSucceeds, BeginRelease, MayFind, MayMiss, Image
<1>9. CASE Announce
  BY <1>9 DEF Announce, Image
<1>10. ASSUME NEW s \in Surface, Attach(s) PROVE BindingIsKept'
  BY <1>10 DEF Attach, Unbound, Candidate, Image
<1>11. ASSUME NEW s \in Surface, BeginFrame(s) PROVE BindingIsKept'
  BY <1>11 DEF BeginFrame
<1>12. ASSUME NEW s \in Surface, Present(s) PROVE BindingIsKept'
  <2>1. image'.pending = image.pending /\ (image'.avail => image.avail \/ bound = s)
    BY <1>0, <1>12, ShownEffect DEF Present
  <2>2. \A t \in Surface : hosted[t] = "attached" => hosted'[t] = "attached"
    BY <1>0, <1>12, NotedEffect DEF Present
  <2> QED
    BY <1>12, <2>1, <2>2 DEF Present
<1>13. ASSUME NEW s \in Surface, PresentVenus(s) PROVE BindingIsKept'
  <2>1. image'.pending = image.pending /\ (image'.avail => image.avail \/ bound = s)
    BY <1>0, <1>13, ShownEffect DEF PresentVenus
  <2>2. \A t \in Surface : hosted[t] = "attached" => hosted'[t] = "attached"
    BY <1>0, <1>13, NotedEffect DEF PresentVenus
  <2> QED
    BY <1>13, <2>1, <2>2 DEF PresentVenus
<1>14. ASSUME NEW s \in Surface, VenusWaitEnds(s) PROVE BindingIsKept'
  BY <1>14 DEF VenusWaitEnds, Shown, Image
<1>15. ASSUME NEW s \in Surface, CountCommit(s) PROVE BindingIsKept'
  BY <1>15 DEF CountCommit
<1>16. ASSUME NEW s \in Surface, StoreCommit(s) PROVE BindingIsKept'
  BY <1>16 DEF StoreCommit
<1>17. ASSUME NEW s \in Surface, Destroy(s) PROVE BindingIsKept'
  BY <1>17 DEF Destroy
<1>18. ASSUME NEW s \in Surface, Recreate(s) PROVE BindingIsKept'
  BY <1>18 DEF Recreate
<1>19. CASE HostDies
  BY <1>0, <1>19, LossEffect DEF HostDies
<1>20. CASE StopResets
  BY <1>0, <1>20, LossEffect DEF StopResets, Image
<1>21. CASE StartClears
  BY <1>21 DEF StartClears
<1>22. CASE UNCHANGED zeroVars
  BY <1>22
<1> QED
  BY <1>1, <1>2, <1>3, <1>4, <1>5, <1>6, <1>7, <1>8, <1>9, <1>10, <1>11,
     <1>12, <1>13, <1>14, <1>15, <1>16, <1>17, <1>18, <1>19, <1>20, <1>21, <1>22
     DEF ZeroNext, RenderStep, GuestStep, CommitStep, HostStops

\* Only a commit of the bound surface brings its lag down, and its copy renews
\* what is seen of it; only a new image makes it stale, and ends the fallback.
LEMMA BaselineStep == ZeroInv /\ [ZeroNext]_zeroVars => BaselineIsNew'
<1> SUFFICES ASSUME ZeroInv, [ZeroNext]_zeroVars PROVE BaselineIsNew'
  OBVIOUS
<1>0. ZeroTypeOK
  BY DEF ZeroInv, ZeroSoundInv, BindingIsSound
<1> USE DEF ZeroInv, ZeroSoundInv, BindingIsSound, ZeroTypeOK, BaselineIsNew
<1>1. CASE EndRelease
  BY <1>1 DEF EndRelease, Unbound, Image
<1>2. CASE CheckBinding
  BY <1>2 DEF CheckBinding, BeginRelease, MayFind, MayMiss, Image
<1>3. CASE Keep
  BY <1>3 DEF Keep
<1>4. CASE Promote
  BY <1>4 DEF Promote, BeginRelease, Candidate, Image
<1>5. CASE NoFrame
  BY <1>5 DEF NoFrame
<1>6. CASE UpdateFails
  BY <1>6, FailedImage DEF UpdateFails
<1>7. CASE Revoke
  BY <1>7 DEF Revoke, Image
<1>8. CASE UpdateSucceeds
  <2>1. CASE /\ image' = [image EXCEPT !.avail = FALSE, !.produced = TRUE, !.pending = FALSE, !.failures = 0]
             /\ at' # "revoke"
    BY <2>1 DEF Image
  <2>2. CASE BeginRelease /\ UNCHANGED guest
    BY <2>2 DEF BeginRelease, Image
  <2>3. (image' = [image EXCEPT !.avail = FALSE, !.produced = TRUE, !.pending = FALSE, !.failures = 0]
           /\ at' # "revoke") \/ (BeginRelease /\ UNCHANGED guest)
    BY <1>8, Zenon DEF UpdateSucceeds
  <2> QED
    BY <2>1, <2>2, <2>3
<1>9. CASE Announce
  BY <1>9 DEF Announce, Image
<1>10. ASSUME NEW s \in Surface, Attach(s) PROVE BaselineIsNew'
  BY <1>10 DEF Attach, Unbound, Candidate, Image
<1>11. ASSUME NEW s \in Surface, BeginFrame(s) PROVE BaselineIsNew'
  BY <1>11 DEF BeginFrame
<1>12. ASSUME NEW s \in Surface, Present(s) PROVE BaselineIsNew'
  BY <1>0, <1>12, ShownEffect DEF Present, Ends
<1>13. ASSUME NEW s \in Surface, PresentVenus(s) PROVE BaselineIsNew'
  BY <1>0, <1>13, ShownEffect DEF PresentVenus, Ends
<1>14. ASSUME NEW s \in Surface, VenusWaitEnds(s) PROVE BaselineIsNew'
  BY <1>0, <1>14, ShownEffect DEF VenusWaitEnds, Ends
<1>15. ASSUME NEW s \in Surface, CountCommit(s) PROVE BaselineIsNew'
  BY <1>15 DEF CountCommit, Passed
<1>16. ASSUME NEW s \in Surface, StoreCommit(s) PROVE BaselineIsNew'
  BY <1>16 DEF StoreCommit, Passed
<1>17. ASSUME NEW s \in Surface, Destroy(s) PROVE BaselineIsNew'
  BY <1>17 DEF Destroy
<1>18. ASSUME NEW s \in Surface, Recreate(s) PROVE BaselineIsNew'
  BY <1>18 DEF Recreate
<1>19. CASE HostDies
  BY <1>19 DEF HostDies
<1>20. CASE StopResets
  BY <1>20 DEF StopResets, Image
<1>21. CASE StartClears
  BY <1>21 DEF StartClears
<1>22. CASE UNCHANGED zeroVars
  BY <1>22
<1> QED
  BY <1>1, <1>2, <1>3, <1>4, <1>5, <1>6, <1>7, <1>8, <1>9, <1>10, <1>11,
     <1>12, <1>13, <1>14, <1>15, <1>16, <1>17, <1>18, <1>19, <1>20, <1>21, <1>22
     DEF ZeroNext, RenderStep, GuestStep, CommitStep, HostStops

LEMMA ZeroInvariance == ZeroSpec => []ZeroInv
<1>1. ZeroInv /\ [ZeroNext]_zeroVars => ZeroInv'
  BY ZeroTypeStep, ZeroSoundStep, BaselineStep DEF ZeroInv, ZeroSoundInv, BindingIsKept, BindingIsSound
<1> QED
  BY InitZeroInv, <1>1, PTL DEF ZeroSpec

(***************************************************************************)
(* A guest that is told to send no SHM frames is shown by the GPU, its     *)
(* host was lost, or its surface was recreated (egl_renderer.cpp,          *)
(* PublishZeroCopyActive and ReleaseZeroCopyBinding), through failed       *)
(* requests, the host's death and Stop.                                    *)
(***************************************************************************)
THEOREM BindingStaysSound == ZeroSpec => []BindingIsSound
<1>1. ZeroInv => BindingIsSound
  BY DEF ZeroInv, ZeroSoundInv
<1> QED
  BY ZeroInvariance, <1>1, PTL

(***************************************************************************)
(* A fallback that knows its baseline brings no frame back that is older   *)
(* than those the GPU has shown (TryAttachZeroCopySurface), but for the    *)
(* moment between the count and the copy of a commit where the serial is   *)
(* the surface's own.                                                      *)
(***************************************************************************)
THEOREM FallbackNeverGoesBack == ZeroSpec => FallbackShowsNewFrame
<1> DEFINE Fresh == Uncovers /\ ~blind /\ bound \in stale => bound \in Direct /\ guest[bound].at = "store"
<1>1. ZeroInv /\ [ZeroNext]_zeroVars => [Fresh]_zeroVars
  <2> SUFFICES ASSUME ZeroInv, [ZeroNext]_zeroVars PROVE Fresh
    OBVIOUS
  <2> USE DEF ZeroInv, ZeroSoundInv, BindingIsSound, ZeroTypeOK, BaselineIsNew, Uncovers
  <2>1. CASE EndRelease
    BY <2>1 DEF EndRelease, Unbound
  <2>2. CASE CheckBinding
    BY <2>2 DEF CheckBinding, BeginRelease, MayFind, MayMiss
  <2>3. CASE Keep
    BY <2>3 DEF Keep
  <2>4. CASE Promote
    BY <2>4 DEF Promote, BeginRelease, Candidate
  <2>5. CASE NoFrame
    BY <2>5 DEF NoFrame
  <2>6. CASE UpdateFails
    BY <2>6 DEF UpdateFails, MayFind, MayMiss
  <2>7. CASE Revoke
    BY <2>7 DEF Revoke
  <2>8. CASE UpdateSucceeds
    <3>1. keys \subseteq keys'
      BY <2>8, Zenon DEF UpdateSucceeds, BeginRelease
    <3> QED
      BY <3>1
  <2>9. CASE Announce
    BY <2>9 DEF Announce
  <2>10. ASSUME NEW s \in Surface, Attach(s) PROVE Fresh
    BY <2>10 DEF Attach, Unbound, Candidate
  <2>11. ASSUME NEW s \in Surface, BeginFrame(s) PROVE Fresh
    BY <2>11 DEF BeginFrame
  <2>12. ASSUME NEW s \in Surface, Present(s) PROVE Fresh
    BY <2>12 DEF Present
  <2>13. ASSUME NEW s \in Surface, PresentVenus(s) PROVE Fresh
    BY <2>13 DEF PresentVenus
  <2>14. ASSUME NEW s \in Surface, VenusWaitEnds(s) PROVE Fresh
    BY <2>14 DEF VenusWaitEnds
  <2>15. ASSUME NEW s \in Surface, CountCommit(s) PROVE Fresh
    BY <2>15 DEF CountCommit
  <2>16. ASSUME NEW s \in Surface, StoreCommit(s) PROVE Fresh
    BY <2>16 DEF StoreCommit
  <2>17. ASSUME NEW s \in Surface, Destroy(s) PROVE Fresh
    BY <2>17 DEF Destroy
  <2>18. ASSUME NEW s \in Surface, Recreate(s) PROVE Fresh
    BY <2>18 DEF Recreate
  <2>19. CASE HostDies
    BY <2>19 DEF HostDies
  <2>20. CASE StopResets
    BY <2>20 DEF StopResets
  <2>21. CASE StartClears
    BY <2>21 DEF StartClears
  <2>22. CASE UNCHANGED zeroVars
    BY <2>22
  <2> QED
    BY <2>1, <2>2, <2>3, <2>4, <2>5, <2>6, <2>7, <2>8, <2>9, <2>10, <2>11,
       <2>12, <2>13, <2>14, <2>15, <2>16, <2>17, <2>18, <2>19, <2>20, <2>21, <2>22
       DEF ZeroNext, RenderStep, GuestStep, CommitStep, HostStops
<1> QED
  BY ZeroInvariance, <1>1, PTL DEF ZeroSpec, FallbackShowsNewFrame
=============================================================================
