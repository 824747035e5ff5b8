---------------------------- MODULE EngineSession ----------------------------
(***************************************************************************)
(* The engine session of the ArkTS side (WineEngineService.ets): the calls *)
(* that start, stop, restart and reset the engine, the events of the       *)
(* native launch threads, and the safety net of a wait.                    *)
(*                                                                         *)
(* ArkTS runs on one thread: a call runs from one await to the next, so a  *)
(* step here ends where the code awaits.  A launch thread is detached and  *)
(* nothing cancels it; what it promises is LaunchContract.                 *)
(***************************************************************************)
EXTENDS Naturals, Sequences, FiniteSets

CONSTANTS
  Task,            \* callers: each has one call at a time in progress
  Config,          \* display mode, presentation and renderer, as compared by startSession
  NoConfig,        \* mode = null
  Nobody,
  Launch,          \* launch threads that may run at the same time
  LastPhase,       \* phases a launch announces (graphics, wineserver, ...): 4 in the code
  MaxEvents,       \* bound: events on their way to ArkTS
  DrainMayTimeOut  \* whether 35 s may be too little for the processes to end

ASSUME ConstantsDiffer == NoConfig \notin Config /\ Nobody \notin Task
ASSUME BoundsArePositive == LastPhase \in Nat \ {0} /\ MaxEvents \in Nat \ {0}

VARIABLES
  state,       \* EngineState
  mode,        \* the configuration of the latest start
  task,        \* where each call awaits, what follows, and its configuration
  restarting,  \* restartPromise: the call that performs the restart
  armed,       \* readySafetyTimer
  launch,      \* each launch thread's last phase; 0 when it is not running
  processes,   \* Wine processes registered as running: "none", "live" or killed
  events       \* the thread-safe function's queue

vars == <<state, mode, task, restarting, armed, launch, processes, events>>
native == <<launch, events>>

Idle == [pc |-> "idle", next |-> "return", config |-> NoConfig]

Init ==
  /\ state = "STOPPED" /\ mode = NoConfig
  /\ task = [t \in Task |-> Idle]
  /\ restarting = Nobody /\ armed = FALSE
  /\ launch = [l \in Launch |-> 0]
  /\ processes = "none" /\ events = <<>>

Busy == {"PREPARING", "SWITCHING"}
At(pc) == {t \in Task : task[t].pc = pc}

\* The calls of S return; callers that share a restart return with it.
Returned(S) ==
  LET back == S \cup (IF restarting \in S THEN At("sharing") ELSE {})
  IN [t \in Task |-> IF t \in back THEN Idle ELSE task[t]]
Return(S) ==
  /\ task' = Returned(S)
  /\ restarting' = IF restarting \in S THEN Nobody ELSE restarting

\* setState takes the safety net down in READY, STOPPED and ERROR.
SetState(to) ==
  /\ state' = to
  /\ armed' = (armed /\ to \in Busy)

-----------------------------------------------------------------------------
(***************************************************************************)
(* startSession and stopSession, from the call to the first await.         *)
(***************************************************************************)
\* waitForReady.  Seeded fault: the wait has no safety net.
WaitWithoutNet(t, to) ==
  /\ state' = to /\ armed' = (armed /\ to \in Busy)
  /\ IF to \in {"READY", "ERROR"} THEN Return({t})
     ELSE task' = [task EXCEPT ![t] = [Idle EXCEPT !.pc = "waiting"]] /\ UNCHANGED restarting
WaitForReady(t, to) ==
  /\ state' = to /\ armed' = (to \in Busy)
  /\ IF to \in {"READY", "ERROR"} THEN Return({t})
     ELSE task' = [task EXCEPT ![t] = [Idle EXCEPT !.pc = "waiting"]] /\ UNCHANGED restarting

\* stopAll kills what is registered; the waiters learn that it was in vain.  The
\* engine shows `to' until the processes have ended: no await if there are none.
StopSession(t, next, c, to) ==
  /\ processes' = IF processes = "live" THEN "killed" ELSE processes
  /\ task' = [Returned(At("waiting")) EXCEPT
                ![t] = [pc |-> IF processes = "none" THEN "settling" ELSE "draining",
                        next |-> next, config |-> c]]
  /\ IF processes = "none" THEN SetState("STOPPED") /\ mode' = NoConfig
     ELSE SetState(to) /\ UNCHANGED mode

Prepare(t, c) ==
  /\ mode' = c
  /\ SetState("PREPARING")
  /\ task' = [task EXCEPT ![t] = [Idle EXCEPT !.pc = "installing"]]
  /\ UNCHANGED <<restarting, processes>>

\* The native processes of a failed launch may still make it.
Recovering == state = "ERROR" /\ processes # "none"

StartSession(t, c) ==
  \/ /\ state = "READY" /\ mode = c
     /\ Return({t})
     /\ UNCHANGED <<state, mode, armed, processes>>
  \/ /\ (state = "PREPARING" /\ mode = c) \/ Recovering
     /\ WaitForReady(t, "PREPARING")
     /\ UNCHANGED <<mode, processes>>
  \/ /\ state # "STOPPED" /\ mode # c /\ ~Recovering
     /\ StopSession(t, "prepare", c, "SWITCHING")
     /\ restarting' = IF restarting \in At("waiting") THEN Nobody ELSE restarting
  \/ /\ \/ state = "STOPPED"
        \/ mode = c /\ (state = "SWITCHING" \/ (state = "ERROR" /\ ~Recovering))
     /\ Prepare(t, c)

-----------------------------------------------------------------------------
(***************************************************************************)
(* The calls.                                                              *)
(***************************************************************************)
Start(t, c) ==
  /\ task[t].pc = "idle"
  /\ StartSession(t, c)
  /\ UNCHANGED native

\* stopSession, or switchDisplaySession, which says SWITCHING first
Stop(t) ==
  /\ task[t].pc = "idle"
  /\ \/ StopSession(t, "return", NoConfig, state)
     \/ state \in {"READY", "PREPARING"} /\ StopSession(t, "return", NoConfig, "SWITCHING")
  /\ restarting' = IF restarting \in At("waiting") THEN Nobody ELSE restarting
  /\ UNCHANGED native

PerformRestart(t, c) ==
  /\ StopSession(t, "start", c, IF state = "STOPPED" THEN state ELSE "SWITCHING")
  /\ restarting' = t

\* Seeded fault: a restart in progress is not joined.
RestartAnyway(t, c) ==
  /\ task[t].pc = "idle"
  /\ PerformRestart(t, c)
  /\ UNCHANGED native
Restart(t, c) ==
  /\ task[t].pc = "idle"
  /\ \/ /\ restarting # Nobody
        /\ task' = [task EXCEPT ![t] = [Idle EXCEPT !.pc = "sharing"]]
        /\ UNCHANGED <<state, mode, armed, processes, restarting>>
     \/ restarting = Nobody /\ PerformRestart(t, c)
  /\ UNCHANGED native

ResetPrefix(t, c) ==
  /\ task[t].pc = "idle"
  /\ StopSession(t, "wipe", c, state)
  /\ restarting' = IF restarting \in At("waiting") THEN Nobody ELSE restarting
  /\ UNCHANGED native

-----------------------------------------------------------------------------
(***************************************************************************)
(* After an await.                                                         *)
(***************************************************************************)
\* waitForNativeShutdown is over, one way or the other.
Drained(t) ==
  /\ task[t].pc = "draining"
  /\ processes = "none" \/ DrainMayTimeOut
  /\ mode' = NoConfig
  /\ SetState("STOPPED")
  /\ task' = [task EXCEPT ![t].pc = "settling"]
  /\ UNCHANGED <<restarting, processes, native>>

\* The 300 ms are over and stopSession returns to its caller.
Settled(t) ==
  /\ task[t].pc = "settling"
  /\ \/ /\ task[t].next = "return"
        /\ Return({t})
        /\ UNCHANGED <<state, mode, armed, processes>>
     \/ task[t].next = "prepare" /\ Prepare(t, task[t].config)
     \/ task[t].next = "start" /\ StartSession(t, task[t].config)
  /\ UNCHANGED native

\* The backup fails, or the prefix is removed and its rebuilding begins.
Wipe(t) ==
  /\ task[t].pc = "settling" /\ task[t].next = "wipe"
  /\ \/ Return({t}) /\ SetState("ERROR")
     \/ task' = [task EXCEPT ![t].pc = "rebuilding"] /\ UNCHANGED <<state, armed, restarting>>
  /\ UNCHANGED <<mode, processes, native>>

\* forceRefreshRuntime throws, the restore fails, or the reset goes on.
Rebuilt(t) ==
  /\ task[t].pc = "rebuilding"
  /\ \/ Return({t}) /\ UNCHANGED <<state, armed, mode, processes>>
     \/ \E to \in {"ERROR", "STOPPED"} : Return({t}) /\ SetState(to) /\ UNCHANGED <<mode, processes>>
     \/ StartSession(t, task[t].config)
  /\ UNCHANGED native

\* ensureRuntimeInstalled has returned; the policy, the server or it may fail.
InstallFails(t) ==
  /\ task[t].pc = "installing"
  /\ SetState("ERROR")
  /\ Return(At("waiting") \cup {t})
  /\ UNCHANGED <<mode, processes, native>>

Installed(t) ==
  /\ task[t].pc = "installing" /\ Len(events) < MaxEvents
  /\ \E l \in Launch :
       /\ launch[l] = 0
       /\ launch' = [launch EXCEPT ![l] = 1]
       /\ events' = Append(events, "phase")
  /\ WaitForReady(t, state)
  /\ UNCHANGED <<mode, processes>>

SafetyNet ==
  /\ armed
  /\ SetState("ERROR")
  /\ Return(At("waiting"))
  /\ UNCHANGED <<mode, processes, native>>

-----------------------------------------------------------------------------
(***************************************************************************)
(* The native side: launch threads, processes and the events they cause.   *)
(***************************************************************************)
session == <<state, mode, task, restarting, armed>>
Emit(event) == Len(events) < MaxEvents /\ events' = Append(events, event)

NextPhase(l) ==
  /\ launch[l] \in 1 .. LastPhase - 1
  /\ launch' = [launch EXCEPT ![l] = @ + 1]
  /\ Emit("phase")
  /\ UNCHANGED <<session, processes>>

\* wineserver, wineboot and explorer belong to the second phase and later ones.
Spawn(l) ==
  /\ launch[l] > 1 /\ processes # "live"
  /\ processes' = "live"
  /\ UNCHANGED <<session, native>>

LaunchEnds(l) ==
  /\ launch[l] > 0
  /\ launch' = [launch EXCEPT ![l] = 0]
  /\ \/ launch[l] > 1 /\ Emit("ready")
     \/ Emit("fail")
  /\ UNCHANGED <<session, processes>>

\* launchExecutable: runWineExe starts the program or reports that it cannot.
RunProgram ==
  /\ state = "READY"
  /\ \/ processes' = "live" /\ Emit("running")
     \/ Emit("unstarted") /\ UNCHANGED processes
  /\ UNCHANGED <<session, launch>>

ProcessesEnd ==
  /\ processes # "none"
  /\ processes' = "none"
  /\ Emit("exited")
  /\ UNCHANGED <<session, launch>>

\* handleNativeState.  Seeded fault: the waiters are forgotten.
OnReadyForgetsWaiters ==
  /\ SetState("READY")
  /\ UNCHANGED <<task, restarting>>
OnReady ==
  /\ SetState("READY")
  /\ Return(At("waiting"))

\* A failure, or a version marker that cannot be written.
OnFail ==
  /\ SetState("ERROR")
  /\ Return(At("waiting"))

\* "-1:wine-failed" is one program's failure in a ready engine, and the
\* engine's in one that is no longer ready when it arrives.
OnUnstarted ==
  \/ state = "READY" /\ UNCHANGED <<state, armed, task, restarting>>
  \/ state # "READY" /\ OnFail

OnPhase ==
  /\ state' = IF state \in Busy \cup {"READY"} THEN state ELSE "PREPARING"
  /\ armed' = (state' \in Busy)
  /\ UNCHANGED <<task, restarting>>

OnExited ==
  /\ IF processes = "none" /\ state \in {"READY", "ERROR"} THEN SetState("STOPPED")
     ELSE UNCHANGED <<state, armed>>
  /\ UNCHANGED <<task, restarting>>

HandleNativeState ==
  /\ events # <<>>
  /\ events' = Tail(events)
  /\ \/ Head(events) \in {"ready", "running"} /\ OnReady
     \/ Head(events) \in {"ready", "fail"} /\ OnFail
     \/ Head(events) = "unstarted" /\ OnUnstarted
     \/ Head(events) = "phase" /\ OnPhase
     \/ Head(events) = "exited" /\ OnExited
  /\ UNCHANGED <<mode, launch, processes>>

-----------------------------------------------------------------------------
Call(t) ==
  \/ Stop(t)
  \/ \E c \in Config : Start(t, c) \/ Restart(t, c) \/ ResetPrefix(t, c)

Resume(t) ==
  Drained(t) \/ Settled(t) \/ Wipe(t) \/ Rebuilt(t) \/ InstallFails(t) \/ Installed(t)

LaunchStep(l) == NextPhase(l) \/ LaunchEnds(l)

Next ==
  \/ \E t \in Task : Call(t) \/ Resume(t)
  \/ SafetyNet \/ HandleNativeState
  \/ \E l \in Launch : LaunchStep(l) \/ Spawn(l)
  \/ RunProgram \/ ProcessesEnd

Spec == Init /\ [][Next]_vars

(***************************************************************************)
(* ArkTS runs what is due, timers included, and a launch ends (that is its *)
(* contract).  A killed process ends; callers owe nothing.                 *)
(***************************************************************************)
FairSpec ==
  /\ Spec
  /\ \A t \in Task : WF_vars(Resume(t))
  /\ WF_vars(SafetyNet) /\ WF_vars(HandleNativeState)
  /\ \A l \in Launch : WF_vars(LaunchStep(l))
  /\ WF_vars(processes = "killed" /\ ProcessesEnd)

-----------------------------------------------------------------------------
\* Values stay in range, and the safety net only hangs over a busy engine.
TypeOK ==
  /\ state \in {"STOPPED", "READY", "ERROR"} \cup Busy
  /\ mode \in Config \cup {NoConfig}
  /\ task \in [Task -> [pc : {"idle", "draining", "settling", "installing", "waiting", "sharing",
                              "rebuilding"},
                        next : {"return", "prepare", "start", "wipe"},
                        config : Config \cup {NoConfig}]]
  /\ restarting \in Task \cup {Nobody}
  /\ armed \in BOOLEAN /\ (armed => state \in Busy)
  /\ launch \in [Launch -> 0 .. LastPhase]
  /\ processes \in {"none", "live", "killed"}
  /\ events \in Seq({"phase", "ready", "fail", "running", "unstarted", "exited"}) /\ Len(events) <= MaxEvents

(***************************************************************************)
(* Nobody waits for an engine that is ready: whichever launch announces    *)
(* it, and in whatever state, every waitForReady returns.                  *)
(***************************************************************************)
NobodyWaitsWhenReady == state = "READY" => At("waiting") = {}

\* With the types: what the service remembers is sound.
SessionIsSound == TypeOK /\ NobodyWaitsWhenReady

(***************************************************************************)
(* "Concurrent UI requests share one operation": of all calls at most one  *)
(* performs a restart, and whoever shares a restart shares one that runs.  *)
(***************************************************************************)
RestartsAreShared ==
  /\ \A t \in Task : task[t].next = "start" => t = restarting
  /\ At("sharing") # {} => restarting # Nobody /\ task[restarting].pc \notin {"idle", "sharing"}

(***************************************************************************)
(* The engine does not stay PREPARING or SWITCHING for ever, whatever      *)
(* launches, failures and calls overlap: an event or the safety net ends   *)
(* it.                                                                     *)
(***************************************************************************)
BusyEnds == state \in Busy ~> state \notin Busy

(***************************************************************************)
(* A waiter can count on an answer: the safety net hangs over it, or a     *)
(* launch is running, or the event that ends one is on its way.            *)
(***************************************************************************)
WaitersAreAnswered ==
  At("waiting") # {} =>
    \/ armed
    \/ \E l \in Launch : launch[l] > 0
    \/ \E i \in DOMAIN events : events[i] \in {"ready", "fail"}

(***************************************************************************)
(* No Wine process runs while a reset rebuilds the prefix: a wineserver    *)
(* would write its registry back into the new prefix.                      *)
(***************************************************************************)
ResetIsAlone == At("rebuilding") # {} => processes = "none"
=============================================================================
