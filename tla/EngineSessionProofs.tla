-------------------------- MODULE EngineSessionProofs --------------------------
(***************************************************************************)
(* Proofs about EngineSession, for any number of callers, configurations,  *)
(* launch threads and phases, however long the event queue may grow.       *)
(***************************************************************************)
EXTENDS EngineSession, TLAPS

USE ConstantsDiffer, BoundsArePositive

(***************************************************************************)
(* The inductive invariant, in three parts: the engine's state and the     *)
(* waits on it; the callers and the restart they share, whose performer is *)
(* always on its way; the native side.                                     *)
(***************************************************************************)
EngineInv ==
  /\ state \in {"STOPPED", "READY", "ERROR"} \cup Busy
  /\ mode \in Config \cup {NoConfig}
  /\ armed \in BOOLEAN /\ (armed => state \in Busy)
  /\ processes \in {"none", "live", "killed"}
  /\ NobodyWaitsWhenReady

CallRecord ==
  [pc : {"idle", "draining", "settling", "installing", "waiting", "sharing", "rebuilding"},
   next : {"return", "prepare", "start", "wipe"},
   config : Config \cup {NoConfig}]

CallerInv ==
  /\ task \in [Task -> CallRecord]
  /\ restarting \in Task \cup {Nobody}
  /\ \A t \in Task : task[t].next = "start" => t = restarting
  /\ At("sharing") # {} => restarting # Nobody
  /\ restarting # Nobody => task[restarting].pc \notin {"idle", "sharing"}

Event == {"phase", "ready", "fail", "running", "unstarted", "exited"}

NativeInv ==
  /\ launch \in [Launch -> 0 .. LastPhase]
  /\ events \in Seq(Event) /\ Len(events) <= MaxEvents

IInv == EngineInv /\ CallerInv /\ NativeInv

LEMMA InitIInv == Init => IInv
<1> SUFFICES ASSUME Init PROVE IInv
  OBVIOUS
<1>1. Idle \in CallRecord /\ Idle.pc = "idle" /\ Idle.next = "return"
  BY DEF Idle, CallRecord
<1>2. EngineInv
  BY <1>1 DEF Init, EngineInv, NobodyWaitsWhenReady, Busy, At
<1>3. CallerInv
  BY <1>1 DEF Init, CallerInv, At
<1>4. NativeInv
  BY DEF Init, NativeInv, Event
<1> QED
  BY <1>2, <1>3, <1>4 DEF IInv

LEMMA IInvImplies == IInv => SessionIsSound /\ RestartsAreShared
<1> SUFFICES ASSUME IInv PROVE SessionIsSound /\ RestartsAreShared
  OBVIOUS
<1>1. TypeOK
  BY DEF IInv, EngineInv, CallerInv, NativeInv, TypeOK, CallRecord, Event
<1>2. RestartsAreShared
  BY DEF IInv, CallerInv, RestartsAreShared
<1> QED
  BY <1>1, <1>2 DEF IInv, EngineInv, SessionIsSound

-----------------------------------------------------------------------------
(***************************************************************************)
(* What the helpers do to the callers.                                     *)
(***************************************************************************)
LEMMA IdleCall == Idle \in CallRecord /\ Idle.pc = "idle" /\ Idle.next = "return" /\ Idle.config = NoConfig
BY DEF Idle, CallRecord

LEMMA SetStateEffect ==
  ASSUME EngineInv, NEW to \in {"STOPPED", "READY", "ERROR"} \cup Busy, SetState(to)
  PROVE  /\ state' = to /\ armed' \in BOOLEAN /\ (armed' => state' \in Busy)
BY DEF SetState, EngineInv

\* Callers that return are idle, the others where they were.
LEMMA ReturnedEffect ==
  ASSUME CallerInv, NEW S \in SUBSET Task
  PROVE  /\ Returned(S) \in [Task -> CallRecord]
         /\ \A t \in S : Returned(S)[t] = Idle
         /\ \A t \in Task : Returned(S)[t] \in {Idle, task[t]}
         /\ \A t \in Task \ S : task[t].pc # "sharing" => Returned(S)[t] = task[t]
         /\ restarting \in S => \A t \in Task : Returned(S)[t].pc # "sharing"
<1> DEFINE back == S \cup (IF restarting \in S THEN At("sharing") ELSE {})
<1>1. Returned(S) = [t \in Task |-> IF t \in back THEN Idle ELSE task[t]]
  BY DEF Returned
<1>2. S \subseteq back /\ \A t \in back \ S : task[t].pc = "sharing"
  BY DEF At
<1>3. restarting \in S => \A t \in Task : task[t].pc = "sharing" => t \in back
  BY DEF At
<1> HIDE DEF back
<1> QED
  BY <1>1, <1>2, <1>3, IdleCall DEF CallerInv

LEMMA ReturnEffect ==
  ASSUME CallerInv, NEW S \in SUBSET Task, Return(S)
  PROVE  /\ CallerInv'
         /\ \A t \in Task : task'[t].pc = "waiting" => task[t].pc = "waiting" /\ t \notin S
<1>1. task' = Returned(S) /\ restarting' = IF restarting \in S THEN Nobody ELSE restarting
  BY DEF Return
<1>2. CASE restarting \in S
  BY <1>1, <1>2, ReturnedEffect, IdleCall DEF CallerInv, At
<1>3. CASE restarting \notin S
  BY <1>1, <1>3, ReturnedEffect, IdleCall DEF CallerInv, At
<1> QED
  BY <1>2, <1>3

\* One caller moves on; it shares nothing and its restart, if any, goes on.
LEMMA MoveEffect ==
  ASSUME CallerInv, NEW t \in Task, NEW r \in CallRecord,
         task[t].pc # "sharing", r.pc \notin {"idle", "sharing"},
         r.next = "start" => t = restarting,
         task' = [task EXCEPT ![t] = r], restarting' = restarting
  PROVE  /\ CallerInv'
         /\ \A u \in Task : task'[u].pc = "waiting" => task[u].pc = "waiting" \/ (u = t /\ r.pc = "waiting")
<1>1. /\ task' \in [Task -> CallRecord] /\ task'[t] = r
      /\ \A u \in Task \ {t} : task'[u] = task[u]
  BY DEF CallerInv
<1>2. \A u \in Task : /\ task'[u].next = "start" => u = restarting
                      /\ task'[u].pc = "sharing" => task[u].pc = "sharing"
  BY <1>1 DEF CallerInv
<1>3. restarting # Nobody => task'[restarting].pc \notin {"idle", "sharing"}
  BY <1>1 DEF CallerInv
<1>4. CallerInv'
  BY <1>1, <1>2, <1>3 DEF CallerInv, At
<1>5. \A u \in Task : task'[u].pc = "waiting" => task[u].pc = "waiting" \/ (u = t /\ r.pc = "waiting")
  BY <1>1
<1> QED
  BY <1>4, <1>5

LEMMA WaitForReadyEffect ==
  ASSUME EngineInv, CallerInv, NEW t \in Task, task[t].pc # "sharing",
         NEW to \in {"STOPPED", "READY", "ERROR"} \cup Busy,
         to = "READY" => state = "READY",
         WaitForReady(t, to)
  PROVE  /\ CallerInv'
         /\ state' = to /\ armed' \in BOOLEAN /\ (armed' => state' \in Busy)
         /\ NobodyWaitsWhenReady'
<1>1. state' = to /\ armed' \in BOOLEAN /\ (armed' => state' \in Busy)
  <2>1. state' = to /\ armed' = (to \in Busy) /\ (to \in Busy) \in BOOLEAN
    BY DEF WaitForReady
  <2> QED
    BY <2>1
<1>2. CASE to \in {"READY", "ERROR"}
  <2>1. Return({t})
    BY <1>2 DEF WaitForReady
  <2> QED
    BY <1>1, <2>1, ReturnEffect DEF NobodyWaitsWhenReady, At, EngineInv
<1>3. CASE to \notin {"READY", "ERROR"}
  <2>1. /\ task' = [task EXCEPT ![t] = [Idle EXCEPT !.pc = "waiting"]] /\ restarting' = restarting
        /\ [Idle EXCEPT !.pc = "waiting"] \in CallRecord
        /\ [Idle EXCEPT !.pc = "waiting"].pc = "waiting" /\ [Idle EXCEPT !.pc = "waiting"].next = "return"
    BY <1>3 DEF WaitForReady, Idle, CallRecord
  <2> QED
    BY <1>1, <1>3, <2>1, MoveEffect DEF NobodyWaitsWhenReady
<1> QED
  BY <1>1, <1>2, <1>3

LEMMA PrepareEffect ==
  ASSUME EngineInv, CallerInv, NEW t \in Task, task[t].pc # "sharing", NEW c \in Config \cup {NoConfig},
         Prepare(t, c)
  PROVE  EngineInv' /\ CallerInv'
<1>1. /\ [Idle EXCEPT !.pc = "installing"] \in CallRecord
      /\ [Idle EXCEPT !.pc = "installing"].pc = "installing"
      /\ [Idle EXCEPT !.pc = "installing"].next = "return"
  BY DEF Idle, CallRecord
<1>2. CallerInv'
  BY <1>1, MoveEffect DEF Prepare
<1>3. state' = "PREPARING" /\ armed' \in BOOLEAN
  BY DEF Prepare, SetState, EngineInv, Busy
<1> QED
  BY <1>2, <1>3 DEF Prepare, EngineInv, NobodyWaitsWhenReady, Busy

\* The waiters return, with whoever shares a restart among them; t goes on.
LEMMA StopSessionEffect ==
  ASSUME EngineInv, CallerInv, NEW t \in Task, task[t].pc \notin {"sharing", "waiting"},
         NEW c \in Config \cup {NoConfig}, NEW next \in {"return", "prepare", "start", "wipe"},
         NEW to \in {"STOPPED", "READY", "ERROR"} \cup Busy,
         StopSession(t, next, c, to),
         \/ next # "start" /\ restarting' = IF restarting \in At("waiting") THEN Nobody ELSE restarting
         \/ next = "start" /\ restarting = Nobody /\ restarting' = t
  PROVE  EngineInv' /\ CallerInv'
<1>1. PICK r \in CallRecord : /\ r.pc \in {"settling", "draining"} /\ r.next = next
                              /\ task' = [Returned(At("waiting")) EXCEPT ![t] = r]
  <2> DEFINE q == [pc |-> IF processes = "none" THEN "settling" ELSE "draining", next |-> next, config |-> c]
  <2>1. q \in CallRecord /\ q.pc \in {"settling", "draining"} /\ q.next = next
    BY DEF CallRecord
  <2>2. task' = [Returned(At("waiting")) EXCEPT ![t] = q]
    BY DEF StopSession
  <2> HIDE DEF q
  <2> QED BY <2>1, <2>2
<1>2. At("waiting") \in SUBSET Task
  BY DEF At
<1>3. /\ task' \in [Task -> CallRecord] /\ task'[t] = r
      /\ \A u \in Task \ {t} : task'[u] \in {Idle, task[u]}
      /\ \A u \in At("waiting") : task'[u] = Idle
      /\ \A u \in Task \ {t} : task[u].pc \notin {"sharing", "waiting"} => task'[u] = task[u]
      /\ restarting \in At("waiting") => \A u \in Task \ {t} : task'[u].pc # "sharing"
  BY <1>1, <1>2, ReturnedEffect DEF At
<1>4. \A u \in Task : task'[u].pc # "waiting"
  BY <1>1, <1>3, IdleCall DEF At
<1>5. CallerInv'
  <2>1. CASE restarting \in At("waiting")
    BY <1>1, <1>3, <2>1, IdleCall DEF CallerInv, At
  <2>2. CASE restarting \notin At("waiting")
    <3>1. \A u \in Task : task'[u].next = "start" => u = restarting'
      BY <1>1, <1>3, <2>2, IdleCall DEF CallerInv
    <3>2. restarting' \in Task \cup {Nobody}
      BY <2>2 DEF CallerInv
    <3>3. \A u \in Task : task'[u].pc = "sharing" => task[u].pc = "sharing"
      BY <1>1, <1>3, IdleCall
    <3>4. restarting' # Nobody => task'[restarting'].pc \notin {"idle", "sharing"}
      BY <1>1, <1>3, <2>2 DEF CallerInv, At
    <3>5. At("sharing")' # {} => restarting' # Nobody
      BY <2>2, <3>3 DEF CallerInv, At
    <3> QED
      BY <1>3, <3>1, <3>2, <3>4, <3>5 DEF CallerInv
  <2> QED
    BY <2>1, <2>2
<1>6. NobodyWaitsWhenReady'
  BY <1>4 DEF NobodyWaitsWhenReady, At
<1>7. /\ state' \in {"STOPPED", "READY", "ERROR"} \cup Busy /\ mode' \in Config \cup {NoConfig}
      /\ armed' \in BOOLEAN /\ (armed' => state' \in Busy)
      /\ processes' \in {"none", "live", "killed"}
  BY DEF StopSession, SetState, EngineInv
<1> QED
  BY <1>5, <1>6, <1>7 DEF EngineInv

LEMMA StartSessionEffect ==
  ASSUME EngineInv, CallerInv, NEW t \in Task, task[t].pc \notin {"sharing", "waiting"},
         NEW c \in Config \cup {NoConfig}, StartSession(t, c)
  PROVE  EngineInv' /\ CallerInv'
<1>1. CASE state = "READY" /\ Return({t}) /\ UNCHANGED <<state, mode, armed, processes>>
  BY <1>1, ReturnEffect DEF EngineInv, NobodyWaitsWhenReady, At
<1>2. CASE WaitForReady(t, "PREPARING") /\ UNCHANGED <<mode, processes>>
  BY <1>2, WaitForReadyEffect DEF EngineInv, Busy
<1>3. CASE /\ StopSession(t, "prepare", c, "SWITCHING")
           /\ restarting' = IF restarting \in At("waiting") THEN Nobody ELSE restarting
  BY <1>3, StopSessionEffect DEF Busy
<1>4. CASE Prepare(t, c)
  BY <1>4, PrepareEffect
<1> QED
  BY <1>1, <1>2, <1>3, <1>4 DEF StartSession

-----------------------------------------------------------------------------
(***************************************************************************)
(* The calls and what follows an await.                                    *)
(***************************************************************************)
LEMMA NativeKept == NativeInv /\ UNCHANGED native => NativeInv'
BY DEF NativeInv, native

LEMMA CallStep == ASSUME IInv, NEW t \in Task, Call(t) PROVE IInv'
<1> USE DEF IInv
<1>1. CASE Stop(t)
  <2>1. task[t].pc \notin {"sharing", "waiting"} /\ state \in {"STOPPED", "READY", "ERROR"} \cup Busy
        /\ "SWITCHING" \in Busy
    BY <1>1 DEF Stop, EngineInv, Busy
  <2> QED
    BY <1>1, <2>1, StopSessionEffect, NativeKept DEF Stop
<1>2. ASSUME NEW c \in Config, Start(t, c) PROVE IInv'
  <2>1. task[t].pc \notin {"sharing", "waiting"}
    BY <1>2 DEF Start
  <2> QED
    BY <1>2, <2>1, StartSessionEffect, NativeKept DEF Start
<1>3. ASSUME NEW c \in Config, Restart(t, c) PROVE IInv'
  <2>1. task[t].pc = "idle" /\ UNCHANGED native
    BY <1>3 DEF Restart
  <2>2. CASE restarting = Nobody /\ PerformRestart(t, c)
    <3>1. PICK to \in {"STOPPED", "READY", "ERROR"} \cup Busy : StopSession(t, "start", c, to)
      BY <2>2 DEF PerformRestart, EngineInv, Busy
    <3> QED
      BY <2>1, <2>2, <3>1, StopSessionEffect, NativeKept DEF PerformRestart
  <2>3. CASE /\ restarting # Nobody
             /\ task' = [task EXCEPT ![t] = [Idle EXCEPT !.pc = "sharing"]]
             /\ UNCHANGED <<state, mode, armed, processes, restarting>>
    <3>1. [Idle EXCEPT !.pc = "sharing"] \in CallRecord
          /\ [Idle EXCEPT !.pc = "sharing"].pc = "sharing" /\ [Idle EXCEPT !.pc = "sharing"].next = "return"
      BY DEF Idle, CallRecord
    <3>2. CallerInv'
      BY <2>1, <2>3, <3>1 DEF CallerInv, At
    <3>3. EngineInv'
      BY <2>1, <2>3, <3>1 DEF EngineInv, CallerInv, NobodyWaitsWhenReady, At
    <3> QED
      BY <2>1, <3>2, <3>3, NativeKept
  <2> QED
    BY <1>3, <2>2, <2>3 DEF Restart
<1>4. ASSUME NEW c \in Config, ResetPrefix(t, c) PROVE IInv'
  <2>1. task[t].pc \notin {"sharing", "waiting"} /\ state \in {"STOPPED", "READY", "ERROR"} \cup Busy
    BY <1>4 DEF ResetPrefix, EngineInv
  <2> QED
    BY <1>4, <2>1, StopSessionEffect, NativeKept DEF ResetPrefix
<1> QED
  BY <1>1, <1>2, <1>3, <1>4 DEF Call

LEMMA ResumeStep == ASSUME IInv, NEW t \in Task, Resume(t) PROVE IInv'
<1> USE DEF IInv
<1>1. CASE Drained(t)
  <2>1. /\ task' = [task EXCEPT ![t].pc = "settling"] /\ task[t].pc = "draining"
        /\ mode' = NoConfig /\ UNCHANGED <<restarting, processes, native>> /\ SetState("STOPPED")
    BY <1>1 DEF Drained
  <2>2. PICK r \in CallRecord : r.pc = "settling" /\ r.next = task[t].next /\ task' = [task EXCEPT ![t] = r]
    <3>1. [task[t] EXCEPT !.pc = "settling"] \in CallRecord
      BY DEF CallerInv, CallRecord
    <3>2. [task[t] EXCEPT !.pc = "settling"].pc = "settling"
          /\ [task[t] EXCEPT !.pc = "settling"].next = task[t].next
      BY DEF CallerInv, CallRecord
    <3> QED
      BY <2>1, <3>1, <3>2
  <2>3. CallerInv'
    BY <2>1, <2>2, MoveEffect DEF CallerInv
  <2>4. EngineInv'
    BY <2>1, SetStateEffect DEF EngineInv, NobodyWaitsWhenReady
  <2> QED
    BY <2>1, <2>3, <2>4, NativeKept
<1>2. CASE Settled(t)
  <2>1. task[t].pc = "settling" /\ UNCHANGED native /\ task[t].config \in Config \cup {NoConfig}
    BY <1>2 DEF Settled, CallerInv, CallRecord
  <2>2. CASE Return({t}) /\ UNCHANGED <<state, mode, armed, processes>>
    BY <2>1, <2>2, ReturnEffect, NativeKept DEF EngineInv, NobodyWaitsWhenReady, At
  <2>3. CASE Prepare(t, task[t].config)
    BY <2>1, <2>3, PrepareEffect, NativeKept
  <2>4. CASE StartSession(t, task[t].config)
    BY <2>1, <2>4, StartSessionEffect, NativeKept
  <2> QED
    BY <1>2, <2>2, <2>3, <2>4 DEF Settled
<1>3. CASE Wipe(t)
  <2>1. task[t].pc = "settling" /\ task[t].next = "wipe" /\ UNCHANGED <<mode, processes, native>>
    BY <1>3 DEF Wipe
  <2>2. CASE Return({t}) /\ SetState("ERROR")
    BY <2>1, <2>2, ReturnEffect, SetStateEffect, NativeKept DEF EngineInv, NobodyWaitsWhenReady
  <2>3. CASE task' = [task EXCEPT ![t].pc = "rebuilding"] /\ UNCHANGED <<state, armed, restarting>>
    <3>1. [task[t] EXCEPT !.pc = "rebuilding"] \in CallRecord
          /\ [task[t] EXCEPT !.pc = "rebuilding"].pc = "rebuilding"
          /\ [task[t] EXCEPT !.pc = "rebuilding"].next = "wipe"
      BY <2>1 DEF CallerInv, CallRecord
    <3>2. PICK r \in CallRecord : r.pc = "rebuilding" /\ r.next = "wipe" /\ task' = [task EXCEPT ![t] = r]
      BY <2>3, <3>1
    <3>3. CallerInv' /\ \A u \in Task : task'[u].pc = "waiting" => task[u].pc = "waiting"
      <4>1. task[t].pc # "sharing" /\ r.pc \notin {"idle", "sharing", "waiting"} /\ r.next # "start"
        BY <2>1, <3>2
      <4>2. task' = [task EXCEPT ![t] = r] /\ restarting' = restarting
        BY <2>3, <3>2
      <4> QED
        BY <4>1, <4>2, MoveEffect
    <3> QED
      BY <2>1, <2>3, <3>3, NativeKept DEF EngineInv, NobodyWaitsWhenReady, At
  <2> QED
    BY <1>3, <2>2, <2>3 DEF Wipe
<1>4. CASE Rebuilt(t)
  <2>1. task[t].pc = "rebuilding" /\ UNCHANGED native /\ task[t].config \in Config \cup {NoConfig}
    BY <1>4 DEF Rebuilt, CallerInv, CallRecord
  <2>2. CASE Return({t}) /\ UNCHANGED <<state, armed, mode, processes>>
    BY <2>1, <2>2, ReturnEffect, NativeKept DEF EngineInv, NobodyWaitsWhenReady, At
  <2>3. CASE \E to \in {"ERROR", "STOPPED"} : Return({t}) /\ SetState(to) /\ UNCHANGED <<mode, processes>>
    BY <2>1, <2>3, ReturnEffect, SetStateEffect, NativeKept DEF EngineInv, NobodyWaitsWhenReady
  <2>4. CASE StartSession(t, task[t].config)
    BY <2>1, <2>4, StartSessionEffect, NativeKept
  <2> QED
    BY <1>4, <2>2, <2>3, <2>4 DEF Rebuilt
<1>5. CASE InstallFails(t)
  <2>1. At("waiting") \cup {t} \in SUBSET Task
    BY DEF At
  <2> QED
    BY <1>5, <2>1, ReturnEffect, SetStateEffect, NativeKept
       DEF InstallFails, EngineInv, NobodyWaitsWhenReady
<1>6. CASE Installed(t)
  <2>1. /\ task[t].pc = "installing" /\ WaitForReady(t, state) /\ UNCHANGED <<mode, processes>>
        /\ Len(events) < MaxEvents /\ events' = Append(events, "phase")
    BY <1>6 DEF Installed
  <2>2. NativeInv'
    <3>1. launch' \in [Launch -> 0 .. LastPhase]
      BY <1>6 DEF Installed, NativeInv
    <3>2. events' \in Seq(Event) /\ Len(events') = Len(events) + 1
      BY <2>1 DEF NativeInv, Event
    <3> QED
      BY <2>1, <3>1, <3>2 DEF NativeInv
  <2>3. CallerInv' /\ EngineInv'
    BY <2>1, WaitForReadyEffect DEF EngineInv
  <2> QED
    BY <2>2, <2>3
<1> QED
  BY <1>1, <1>2, <1>3, <1>4, <1>5, <1>6 DEF Resume

LEMMA SafetyNetStep == IInv /\ SafetyNet => IInv'
<1> SUFFICES ASSUME IInv, SafetyNet PROVE IInv'
  OBVIOUS
<1>1. At("waiting") \in SUBSET Task
  BY DEF At
<1> QED
  BY <1>1, ReturnEffect, SetStateEffect, NativeKept DEF SafetyNet, IInv, EngineInv, NobodyWaitsWhenReady

-----------------------------------------------------------------------------
(***************************************************************************)
(* The native side and its events.                                         *)
(***************************************************************************)
LEMMA EmitEffect ==
  ASSUME NativeInv, NEW event \in Event, Emit(event)
  PROVE  events' \in Seq(Event) /\ Len(events') <= MaxEvents
<1>1. events' = Append(events, event) /\ Len(events) < MaxEvents /\ events \in Seq(Event)
  BY DEF Emit, NativeInv
<1>2. events' \in Seq(Event) /\ Len(events') = Len(events) + 1
  BY <1>1
<1> QED
  BY <1>1, <1>2

LEMMA NativeStep ==
  ASSUME IInv, \/ \E l \in Launch : LaunchStep(l) \/ Spawn(l)
               \/ RunProgram \/ ProcessesEnd
  PROVE  IInv'
<1>1. UNCHANGED session /\ processes' \in {"none", "live", "killed"}
  BY DEF LaunchStep, NextPhase, LaunchEnds, Spawn, RunProgram, ProcessesEnd, IInv, EngineInv
<1>2. launch' \in [Launch -> 0 .. LastPhase]
  BY DEF LaunchStep, NextPhase, LaunchEnds, Spawn, RunProgram, ProcessesEnd, IInv, NativeInv, native
<1>3. events' = events \/ \E event \in Event : Emit(event)
  BY DEF LaunchStep, NextPhase, LaunchEnds, Spawn, RunProgram, ProcessesEnd, native, Event
<1>4. NativeInv'
  BY <1>2, <1>3, EmitEffect DEF IInv, NativeInv
<1> QED
  BY <1>1, <1>4 DEF session, IInv, EngineInv, CallerInv, NobodyWaitsWhenReady, At

LEMMA HandleStep == IInv /\ HandleNativeState => IInv'
<1> SUFFICES ASSUME IInv, HandleNativeState PROVE IInv'
  OBVIOUS
<1> USE DEF IInv
<1>1. /\ events # <<>> /\ events' = Tail(events) /\ UNCHANGED <<mode, launch, processes>>
  BY DEF HandleNativeState
<1>2. NativeInv'
  <2>1. events' \in Seq(Event) /\ Len(events') <= Len(events)
    BY <1>1 DEF NativeInv
  <2> QED
    BY <1>1, <2>1 DEF NativeInv
<1>3. At("waiting") \in SUBSET Task
  BY DEF At
<1>4. CASE OnReady
  <2>1. CallerInv' /\ \A t \in Task : task'[t].pc # "waiting"
    BY <1>3, <1>4, ReturnEffect DEF OnReady, At
  <2> QED
    BY <1>1, <1>2, <1>4, <2>1, SetStateEffect DEF OnReady, EngineInv, NobodyWaitsWhenReady, At
<1>5. CASE OnFail
  BY <1>1, <1>2, <1>3, <1>5, ReturnEffect, SetStateEffect DEF OnFail, EngineInv, NobodyWaitsWhenReady
<1>6. CASE OnPhase
  <2>1. /\ state' \in {"READY"} \cup Busy /\ (state' = "READY" => state = "READY")
        /\ armed' \in BOOLEAN /\ (armed' => state' \in Busy) /\ UNCHANGED <<task, restarting>>
    <3>1. /\ state' = (IF state \in Busy \cup {"READY"} THEN state ELSE "PREPARING")
          /\ armed' = (state' \in Busy) /\ (state' \in Busy) \in BOOLEAN
          /\ UNCHANGED <<task, restarting>>
      BY <1>6 DEF OnPhase
    <3> QED
      BY <3>1 DEF Busy
  <2> QED
    BY <1>1, <1>2, <2>1 DEF EngineInv, CallerInv, NobodyWaitsWhenReady, At
<1>7. CASE OnExited
  <2>1. UNCHANGED <<task, restarting>>
    BY <1>7 DEF OnExited
  <2>2. CASE SetState("STOPPED")
    BY <1>1, <1>2, <2>1, <2>2, SetStateEffect DEF EngineInv, CallerInv, NobodyWaitsWhenReady, At
  <2>3. CASE UNCHANGED <<state, armed>>
    BY <1>1, <1>2, <2>1, <2>3 DEF EngineInv, CallerInv, NobodyWaitsWhenReady, At
  <2> QED
    BY <1>7, <2>2, <2>3 DEF OnExited
<1>8. CASE state = "READY" /\ UNCHANGED <<state, armed, task, restarting>>
  BY <1>1, <1>2, <1>8 DEF EngineInv, CallerInv, NobodyWaitsWhenReady, At
<1> QED
  BY <1>4, <1>5, <1>6, <1>7, <1>8 DEF HandleNativeState, OnUnstarted

-----------------------------------------------------------------------------
LEMMA NextIInv == IInv /\ [Next]_vars => IInv'
<1> SUFFICES ASSUME IInv, [Next]_vars PROVE IInv'
  OBVIOUS
<1>1. ASSUME NEW t \in Task, Call(t) \/ Resume(t) PROVE IInv'
  BY <1>1, CallStep, ResumeStep
<1>2. CASE SafetyNet \/ HandleNativeState
  BY <1>2, SafetyNetStep, HandleStep
<1>3. CASE (\E l \in Launch : LaunchStep(l) \/ Spawn(l)) \/ RunProgram \/ ProcessesEnd
  BY <1>3, NativeStep
<1>4. CASE UNCHANGED vars
  BY <1>4 DEF vars, native, IInv, EngineInv, CallerInv, NativeInv, NobodyWaitsWhenReady, At
<1> QED
  BY <1>1, <1>2, <1>3, <1>4 DEF Next

(***************************************************************************)
(* For any number of callers and launches nobody waits for an engine that  *)
(* is ready, and the safety net only hangs over a busy one.                *)
(***************************************************************************)
THEOREM SessionStaysSound == Spec => []SessionIsSound
BY InitIInv, NextIInv, IInvImplies, PTL DEF Spec

(***************************************************************************)
(* "Concurrent UI requests share one operation", for any number of         *)
(* requests: one call restarts, and what others share is under way.        *)
(***************************************************************************)
THEOREM RestartsStayShared == Spec => []RestartsAreShared
BY InitIInv, NextIInv, IInvImplies, PTL DEF Spec
=============================================================================
