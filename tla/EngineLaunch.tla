----------------------------- MODULE EngineLaunch -----------------------------
(***************************************************************************)
(* One launch of the Wine engine (LaunchThreadFunc and LaunchPadMode in    *)
(* wine_launch.cpp) over a prefix that survives it: the phases, the        *)
(* retries and the timeouts, wineboot and its worker, the marker that      *)
(* tells an interrupted initialisation, and the desktop's explorer.        *)
(*                                                                         *)
(* Any process may die at any time, of itself or by KillAllProcesses, and  *)
(* so may the application.  Timeouts may strike at any moment of a wait.   *)
(***************************************************************************)
EXTENDS Naturals

CONSTANTS
  Desktop,             \* whether the session shows a desktop (and starts explorer)
  Worker,              \* the wineboot.exe processes that launchers may ask for
  MaxWinebootAttempts, \* 2 in the code
  MaxExplorerAttempts  \* 3 in the code

ASSUME AttemptsArePositive ==
  MaxWinebootAttempts \in Nat \ {0} /\ MaxExplorerAttempts \in Nat \ {0}

VARIABLES
  launch,      \* the launch thread: pc, attempt, wineboot's option, observedWorker
  phase,       \* the last phase it announced
  outcome,     \* its terminal event
  proc,        \* the processes it deals with
  worker,      \* the wineboot.exe processes: asked for and coming, or registered and up
  late,        \* history: the workers that registered after their wait was over
  root,        \* whether the desktop root is registered
  mem,         \* how far the registry in wineserver's memory is installed
  disk,        \* how far the files of the prefix are
  timestamp,   \* .update-timestamp exists
  marker,      \* .winehua-init-in-progress exists
  interrupted  \* history: an initialisation was cut short and none was completed since

vars == <<launch, phase, outcome, proc, worker, late, root, mem, disk, timestamp, marker, interrupted>>

\* Stages of an installation: IsWinePrefixCorePresent holds from Core on, the
\* registration IsWinePrefixInitialized looks for is there from Registered on,
\* wine.inf is through at Finished.
Nothing == 0
Core == 1
Registered == 2
Finished == 3

Phase == [none |-> 0, graphics |-> 1, wineserver |-> 2, wineboot |-> 3, explorer |-> 4, ready |-> 5]

Process == {"server", "launcher", "explorer"}

Init ==
  /\ launch = [pc |-> "idle", attempt |-> 0, option |-> "none", observed |-> FALSE]
  /\ phase = 0 /\ outcome = "none"
  /\ proc = [p \in Process |-> "gone"]
  /\ worker = [w \in Worker |-> "gone"] /\ late = {}
  /\ root = FALSE
  /\ disk \in Nothing .. Finished /\ mem = disk      \* an older version's prefix, perhaps
  /\ timestamp = (disk # Nothing) /\ marker = FALSE /\ interrupted = FALSE

Goto(from, to) == launch.pc = from /\ launch' = [launch EXCEPT !.pc = to]

Announce(name) == phase' = Phase[name] /\ UNCHANGED outcome

\* EmitEngineFail and return false
GiveUp ==
  /\ launch' = [launch EXCEPT !.pc = "ended"]
  /\ outcome' = "failed"
  /\ UNCHANGED phase

\* The next attempt, or the end of the launch after the last.
\* Seeded fault: the last failure is not reported.
RetrySilently(bound, again) ==
  /\ \/ launch.attempt >= bound /\ launch' = [launch EXCEPT !.pc = "stuck"]
     \/ launch.attempt < bound /\ launch' = [launch EXCEPT !.pc = again, !.attempt = launch.attempt + 1]
  /\ UNCHANGED <<phase, outcome>>
Retry(bound, again) ==
  \/ launch.attempt >= bound /\ GiveUp
  \/ /\ launch.attempt < bound
     /\ launch' = [launch EXCEPT !.pc = again, !.attempt = launch.attempt + 1]
     /\ UNCHANGED <<phase, outcome>>

Prefix == <<mem, disk, timestamp, marker, interrupted>>
Workers == <<worker, late>>

-----------------------------------------------------------------------------
(***************************************************************************)
(* LaunchThreadFunc up to wineboot.                                        *)
(***************************************************************************)
LaunchClient ==
  /\ launch.pc \in {"idle", "ended"}
  /\ launch' = [launch EXCEPT !.pc = "graphics", !.attempt = 0, !.option = "none"]
  /\ phase' = Phase["graphics"] /\ outcome' = "none"
  /\ UNCHANGED <<proc, Workers, root, Prefix>>

\* EnsureStarted has returned, successfully or not.
StartGraphics ==
  /\ Goto("graphics", "prepare") /\ Announce("wineserver")
  /\ UNCHANGED <<proc, Workers, root, Prefix>>

\* The skeleton, syswow64 and the graphics backend are needed.
Prepare ==
  /\ launch.pc = "prepare"
  /\ \/ Goto("prepare", "wineserver") /\ UNCHANGED <<phase, outcome>>
     \/ GiveUp
  /\ UNCHANGED <<proc, Workers, root, Prefix>>

\* The 5 s wait for the socket is not fatal.
SpawnWineserver ==
  /\ launch.pc = "wineserver"
  /\ \/ Goto("wineserver", "prefix") /\ Announce("wineboot") /\ proc' = [proc EXCEPT !["server"] = "up"]
     \/ GiveUp /\ UNCHANGED proc
  /\ UNCHANGED <<Workers, root, Prefix>>

\* Seeded fault: the marker is not looked at.
PrefixLooksReady == disk >= Registered
PrefixReady == disk >= Registered /\ ~marker

CheckPrefix ==
  /\ launch.pc = "prefix"
  /\ launch' = [launch EXCEPT !.pc = "wineboot", !.attempt = 1,
                  !.option = IF PrefixReady THEN "seed"
                             ELSE IF disk >= Core THEN "--update" ELSE "--init"]
  /\ UNCHANGED <<phase, outcome, proc, Workers, root, Prefix>>

-----------------------------------------------------------------------------
(***************************************************************************)
(* wineboot: twice at most for a prefix that is not ready; once, only to   *)
(* signal the boot event, for one that is.                                 *)
(***************************************************************************)
Installing == launch.option \in {"--init", "--update"}

MarkerFails ==
  /\ launch.pc = "wineboot" /\ Installing
  /\ GiveUp
  /\ UNCHANGED <<proc, Workers, root, Prefix>>

\* The marker is written before each attempt.
WinebootSpawnFails ==
  /\ launch.pc = "wineboot"
  /\ marker' = (marker \/ Installing)
  /\ \/ Installing /\ Retry(MaxWinebootAttempts, "wineboot")
     \/ ~Installing /\ Goto("wineboot", "desktop") /\ UNCHANGED <<phase, outcome>>
  /\ UNCHANGED <<proc, Workers, root, mem, disk, timestamp, interrupted>>

SpawnWineboot ==
  /\ launch.pc = "wineboot"
  /\ launch' = [launch EXCEPT !.pc = "wait", !.observed = FALSE]
  /\ marker' = (marker \/ Installing)
  /\ proc' = [proc EXCEPT !["launcher"] = "up"]
  /\ UNCHANGED <<phase, outcome, Workers, root, mem, disk, timestamp, interrupted>>

HasRunningWinebootWorker == \E w \in Worker : worker[w] = "up"

ObserveWorker ==
  /\ launch.pc = "wait" /\ HasRunningWinebootWorker /\ ~launch.observed
  /\ launch' = [launch EXCEPT !.observed = TRUE]
  /\ UNCHANGED <<phase, outcome, proc, Workers, root, Prefix>>

\* Neither runs, and a worker was seen or two seconds have passed since the
\* wait began: one that is still coming is not waited for.
\* Seeded fault: only the launcher is waited for.
LauncherOver == proc["launcher"] = "gone"
WinebootOver == proc["launcher"] = "gone" /\ ~HasRunningWinebootWorker

WinebootCompletes ==
  /\ launch.pc = "wait" /\ WinebootOver
  /\ Goto("wait", IF Installing THEN "flush" ELSE "desktop")
  /\ interrupted' = (interrupted /\ ~Installing)
  /\ UNCHANGED <<phase, outcome, proc, Workers, root, mem, disk, timestamp, marker>>

\* No progress for 90 s, or five minutes in all: StopWinebootAttempt.
WinebootTimesOut ==
  /\ launch.pc = "wait"
  /\ proc' = [proc EXCEPT !["launcher"] = "gone"]
  /\ worker' = [w \in Worker |-> IF worker[w] = "up" THEN "gone" ELSE worker[w]]
  /\ late' = {}
  /\ \/ Installing /\ Retry(MaxWinebootAttempts, "wineboot")
     \/ ~Installing /\ GiveUp
  /\ UNCHANGED <<root, Prefix>>

\* wineserver writes the registry after wineboot has gone; 60 s are given to it.
\* The marker that cannot be removed stays, and the next launch installs again.
\* Seeded fault: the files are not waited for.
PrefixNotAwaited ==
  /\ launch.pc = "flush"
  /\ Goto("flush", "desktop")
  /\ marker' \in {marker, FALSE}
  /\ UNCHANGED <<phase, outcome, proc, Workers, root, mem, disk, timestamp, interrupted>>
PrefixAppears ==
  /\ launch.pc = "flush" /\ disk >= Registered
  /\ Goto("flush", "desktop")
  /\ marker' \in {marker, FALSE}
  /\ UNCHANGED <<phase, outcome, proc, Workers, root, mem, disk, timestamp, interrupted>>

PrefixStaysIncomplete ==
  /\ launch.pc = "flush" /\ disk < Registered
  /\ Retry(MaxWinebootAttempts, "wineboot")
  /\ UNCHANGED <<proc, Workers, root, Prefix>>

-----------------------------------------------------------------------------
(***************************************************************************)
(* The desktop and the end.                                                *)
(***************************************************************************)
BeginDesktop ==
  /\ launch.pc = "desktop"
  /\ \/ /\ Desktop
        /\ launch' = [launch EXCEPT !.pc = "explorer", !.attempt = 1] /\ Announce("explorer")
     \/ ~Desktop /\ Goto("desktop", "ready") /\ UNCHANGED <<phase, outcome>>
  /\ UNCHANGED <<proc, Workers, root, Prefix>>

SpawnExplorer ==
  /\ launch.pc = "explorer"
  /\ \/ /\ Goto("explorer", "root") /\ UNCHANGED <<phase, outcome>>
        /\ proc' = [proc EXCEPT !["explorer"] = "up"]
     \/ Retry(MaxExplorerAttempts, "explorer") /\ UNCHANGED proc
  /\ UNCHANGED <<Workers, root, Prefix>>

RootAppears ==
  /\ root /\ Goto("root", "check")
  /\ UNCHANGED <<phase, outcome, proc, Workers, root, Prefix>>

\* The root is read once more: one that has gone again costs an attempt, and
\* after the last attempt nothing is said of it.
RootReady ==
  /\ launch.pc = "check"
  /\ \/ root \/ launch.attempt >= MaxExplorerAttempts
  /\ Goto("check", "ready")
  /\ UNCHANGED <<phase, outcome, proc, Workers, root, Prefix>>

RootGone ==
  /\ launch.pc = "check" /\ ~root /\ launch.attempt < MaxExplorerAttempts
  /\ Retry(MaxExplorerAttempts, "explorer")
  /\ UNCHANGED <<proc, Workers, root, Prefix>>

\* explorer is looked at first, then wineserver; ten minutes end the wait.
ExplorerDied ==
  /\ launch.pc = "root" /\ ~root /\ proc["explorer"] # "up"
  /\ Retry(MaxExplorerAttempts, "explorer")
  /\ UNCHANGED <<proc, Workers, root, Prefix>>

RootNeverComes ==
  /\ launch.pc = "root" /\ ~root /\ proc["explorer"] = "up"
  /\ GiveUp
  /\ UNCHANGED <<proc, Workers, root, Prefix>>

\* phase:ready and wine-ready
Succeed ==
  /\ Goto("ready", "ended")
  /\ phase' = Phase["ready"] /\ outcome' = "ready"
  /\ UNCHANGED <<proc, Workers, root, Prefix>>

-----------------------------------------------------------------------------
(***************************************************************************)
(* Wine, as the launch sees it (external).                                 *)
(***************************************************************************)
\* The launcher asks the broker for wineboot.exe, which registers it later.
RequestWorker(w) ==
  /\ proc["launcher"] = "up" /\ worker[w] = "gone"
  /\ proc' = [proc EXCEPT !["launcher"] = "asked"]
  /\ worker' = [worker EXCEPT ![w] = "coming"]
  /\ UNCHANGED <<launch, phase, outcome, late, root, Prefix>>

WorkerRegisters(w) ==
  /\ worker[w] = "coming"
  /\ worker' = [worker EXCEPT ![w] = "up"]
  /\ late' = late \cup (IF launch.pc = "wait" THEN {} ELSE {w})
  /\ UNCHANGED <<launch, phase, outcome, proc, root, Prefix>>

WorkerEnds(w) ==
  /\ worker[w] = "up"
  /\ worker' = [worker EXCEPT ![w] = "gone"]
  /\ late' = late \ {w}
  /\ UNCHANGED <<launch, phase, outcome, proc, root, Prefix>>

\* wineboot notes the time before it installs; --init then leaves a prefix alone.
StampTime ==
  /\ HasRunningWinebootWorker /\ ~timestamp
  /\ timestamp' = TRUE
  /\ UNCHANGED <<launch, phase, outcome, proc, Workers, root, mem, disk, marker, interrupted>>

Install ==
  /\ HasRunningWinebootWorker /\ proc["server"] = "up" /\ timestamp /\ mem < Finished
  /\ mem' = mem + 1
  /\ UNCHANGED <<launch, phase, outcome, proc, Workers, root, disk, timestamp, marker, interrupted>>

Flush ==
  /\ proc["server"] = "up" /\ disk # mem
  /\ disk' = mem
  /\ UNCHANGED <<launch, phase, outcome, proc, Workers, root, mem, timestamp, marker, interrupted>>

RegisterRoot ==
  /\ proc["explorer"] = "up" /\ ~root
  /\ root' = TRUE
  /\ UNCHANGED <<launch, phase, outcome, proc, Workers, Prefix>>

\* A process ends, its work done or not.
ProcessEnds(p) ==
  /\ proc[p] \in {"up", "asked"}
  /\ proc' = [proc EXCEPT ![p] = "gone"]
  /\ mem' = IF p = "server" THEN disk ELSE mem
  /\ root' = (root /\ p # "explorer")
  /\ UNCHANGED <<launch, phase, outcome, Workers, disk, timestamp, marker, interrupted>>

\* The application dies and its child processes with it; the files stay.
ApplicationDies ==
  /\ launch.pc # "idle"
  /\ launch' = [pc |-> "idle", attempt |-> 0, option |-> "none", observed |-> FALSE]
  /\ phase' = 0 /\ outcome' = "none"
  /\ proc' = [p \in Process |-> "gone"]
  /\ worker' = [w \in Worker |-> "gone"] /\ late' = {}
  /\ root' = FALSE /\ mem' = disk
  /\ interrupted' = (interrupted \/ (Installing /\ launch.pc = "wait"))
  /\ UNCHANGED <<disk, timestamp, marker>>

-----------------------------------------------------------------------------
LaunchStep ==
  \/ StartGraphics \/ Prepare \/ SpawnWineserver \/ CheckPrefix
  \/ MarkerFails \/ WinebootSpawnFails \/ SpawnWineboot \/ ObserveWorker
  \/ WinebootCompletes \/ WinebootTimesOut \/ PrefixAppears \/ PrefixStaysIncomplete
  \/ BeginDesktop \/ SpawnExplorer \/ RootAppears \/ RootReady \/ RootGone
  \/ ExplorerDied \/ RootNeverComes \/ Succeed

WineStep ==
  \/ StampTime \/ Install \/ Flush \/ RegisterRoot
  \/ \E w \in Worker : RequestWorker(w) \/ WorkerRegisters(w) \/ WorkerEnds(w)
  \/ \E p \in Process : ProcessEnds(p)

Next == LaunchClient \/ LaunchStep \/ WineStep \/ ApplicationDies

Spec == Init /\ [][Next]_vars

\* The thread runs and its waits are bounded; nothing is asked of Wine.
FairSpec == Spec /\ WF_vars(LaunchStep)

-----------------------------------------------------------------------------
LaunchState ==
  [pc : {"idle", "graphics", "prepare", "wineserver", "prefix", "wineboot", "wait", "flush",
         "desktop", "explorer", "root", "check", "ready", "ended"},
   attempt : Nat, option : {"none", "seed", "--init", "--update"}, observed : BOOLEAN]

AttemptsBounded ==
  \/ launch.attempt <= MaxWinebootAttempts
  \/ phase >= Phase["explorer"] /\ launch.attempt <= MaxExplorerAttempts

\* Values stay in range; no more attempts are made than there should be.
TypeOK ==
  /\ launch \in LaunchState /\ AttemptsBounded
  /\ phase \in 0 .. 5 /\ outcome \in {"none", "ready", "failed"}
  /\ proc \in [Process -> {"gone", "asked", "up"}]
  /\ worker \in [Worker -> {"gone", "coming", "up"}] /\ late \subseteq Worker
  /\ mem \in Nothing .. Finished /\ disk \in Nothing .. Finished
  /\ root \in BOOLEAN /\ timestamp \in BOOLEAN
  /\ marker \in BOOLEAN /\ interrupted \in BOOLEAN

(***************************************************************************)
(* wine-ready is only announced over a prefix whose files are there and    *)
(* carry the registrations.                                                *)
(***************************************************************************)
ReadyHasPrefix == outcome = "ready" => disk >= Registered

(***************************************************************************)
(* An initialisation the application did not survive is done again: no     *)
(* launch is ready until a wineboot that installs has been waited for.     *)
(***************************************************************************)
InterruptedIsRepeated == interrupted => outcome # "ready" /\ marker

(***************************************************************************)
(* explorer never starts while a worker that wineboot's waits have seen,   *)
(* or could have, is still at work: every client would then wait for the   *)
(* boot event for ever.  Of all attempts and launches, only a worker that  *)
(* registered when no wait was left to see it can be there (`late').       *)
(***************************************************************************)
AtDesktop == launch.pc \in {"desktop", "explorer", "root", "check", "ready"}
ExplorerFollowsWineboot == AtDesktop => \A w \in Worker : worker[w] = "up" => w \in late

\* The same of every worker, which is not so: EngineLaunchLateWorker.cfg.
ExplorerFollowsEveryWorker == AtDesktop => \A w \in Worker : worker[w] = "gone"

\* The observer is told every phase in order and one outcome, in the end.
Contract == INSTANCE LaunchContract
ImplementsContract == Contract!ContractSpec
=============================================================================
