-------------------------- MODULE EngineLaunchProofs --------------------------
(***************************************************************************)
(* Proofs about EngineLaunch, for every number of attempts, with or        *)
(* without a desktop and any number of workers.  They hold whatever Wine's *)
(* processes do, whenever they do it, and however often the application    *)
(* dies.                                                                   *)
(***************************************************************************)
EXTENDS EngineLaunch, TLAPS

USE AttemptsArePositive

(***************************************************************************)
(* The inductive invariant: where the launch thread is decides which phase *)
(* it has announced, and that it owes an outcome; what it has looked at or *)
(* waited for decides what it may assume of the prefix.                    *)
(***************************************************************************)
PhaseInv ==
  /\ launch.pc = "idle" => phase = 0 /\ outcome = "none"
  /\ launch.pc = "ended" => phase \in 1 .. 5 /\ outcome # "none"
  /\ launch.pc \notin {"idle", "ended"} => outcome = "none"
  /\ launch.pc = "graphics" => phase = 1
  /\ launch.pc \in {"prepare", "wineserver"} => phase = 2
  /\ launch.pc \in {"prefix", "wineboot", "wait", "flush", "desktop"} => phase = 3
  /\ launch.pc \in {"explorer", "root", "check"} => phase = 4
  /\ launch.pc = "ready" => phase \in {3, 4}

\* What the thread has made sure of when it passes on.
PrefixInv ==
  /\ disk <= mem
  /\ launch.pc \in {"wineboot", "wait", "flush"} => launch.option # "none"
  /\ launch.pc = "flush" => Installing /\ ~interrupted
  /\ launch.pc = "wait" /\ Installing => marker
  /\ launch.pc \in {"wineboot", "wait"} /\ ~Installing => disk >= Registered /\ ~marker
  /\ AtDesktop => disk >= Registered /\ ~interrupted

OutcomeInv ==
  /\ ReadyHasPrefix
  /\ interrupted => marker /\ outcome # "ready"

IInv == TypeOK /\ PhaseInv /\ PrefixInv /\ OutcomeInv

LEMMA InitIInv == Init => IInv
<1> SUFFICES ASSUME Init PROVE IInv
  OBVIOUS
<1>1. launch \in LaunchState
  BY DEF Init, LaunchState
<1>2. AttemptsBounded
  BY DEF Init, AttemptsBounded
<1>3. proc \in [Process -> {"gone", "asked", "up"}]
  BY DEF Init
<1>4. /\ phase \in 0 .. 5 /\ outcome \in {"none", "ready", "failed"}
      /\ mem \in Nothing .. Finished /\ disk \in Nothing .. Finished
  BY DEF Init, Nothing, Finished
<1>5. /\ root \in BOOLEAN /\ timestamp \in BOOLEAN
      /\ marker \in BOOLEAN /\ interrupted \in BOOLEAN
  BY DEF Init
<1>6. TypeOK
  <2>1. worker \in [Worker -> {"gone", "coming", "up"}] /\ late \subseteq Worker
    BY DEF Init
  <2> QED
    BY <1>1, <1>2, <1>3, <1>4, <1>5, <2>1 DEF TypeOK
<1> QED
  BY <1>6 DEF Init, IInv, PhaseInv, PrefixInv, OutcomeInv, AtDesktop, ReadyHasPrefix, Installing, Nothing,
     Finished

\* What another attempt does; a failed one is followed by it or by the end.
Retried(bound, to) ==
  /\ launch' \in LaunchState
  /\ launch'.pc = to /\ launch'.attempt \in 0 .. bound /\ launch'.option = launch.option
  /\ UNCHANGED <<phase, outcome>>

LEMMA SetAttempt ==
  ASSUME launch \in LaunchState, NEW to \in {"wineboot", "explorer"}, NEW n \in Nat,
         launch' = [launch EXCEPT !.pc = to, !.attempt = n]
  PROVE  /\ launch' \in LaunchState
         /\ launch'.pc = to /\ launch'.attempt = n
         /\ launch'.option = launch.option /\ launch'.observed = launch.observed
BY DEF LaunchState

LEMMA RetryEffect ==
  ASSUME launch \in LaunchState, NEW to \in {"wineboot", "explorer"}, NEW bound \in Nat,
         Retry(bound, to)
  PROVE  \/ GiveUp
         \/ Retried(bound, to)
<1>1. CASE launch.attempt >= bound /\ GiveUp
  BY <1>1
<1>2. CASE /\ launch.attempt < bound
           /\ launch' = [launch EXCEPT !.pc = to, !.attempt = launch.attempt + 1]
           /\ UNCHANGED <<phase, outcome>>
  <2>1. launch.attempt \in Nat /\ launch.attempt + 1 \in Nat
    BY DEF LaunchState
  <2>2. /\ launch' \in LaunchState /\ launch'.pc = to /\ launch'.attempt = launch.attempt + 1
        /\ launch'.option = launch.option
    BY <1>2, <2>1, SetAttempt
  <2> QED BY <1>2, <2>1, <2>2 DEF Retried
<1> QED BY <1>1, <1>2 DEF Retry

\* The steps of the launch thread before wineboot.
LEMMA EarlySteps ==
  ASSUME IInv,
         LaunchClient \/ StartGraphics \/ Prepare \/ SpawnWineserver \/ CheckPrefix
  PROVE  IInv'
<1> USE DEF IInv, TypeOK, LaunchState, AttemptsBounded, PhaseInv, PrefixInv, OutcomeInv, AtDesktop,
        ReadyHasPrefix, Process, Prefix, Workers, Nothing, Core, Registered, Finished, Phase, Installing, Goto,
        Announce, GiveUp
<1>1. CASE LaunchClient
  <2>1. TypeOK'
    <3>1. launch' \in LaunchState
      BY <1>1 DEF LaunchClient
    <3>2. AttemptsBounded'
      BY <1>1 DEF LaunchClient
    <3> QED BY <1>1, <3>1, <3>2 DEF LaunchClient
  <2> QED BY <1>1, <2>1 DEF LaunchClient
<1>2. CASE StartGraphics
  BY <1>2 DEF StartGraphics
<1>3. CASE Prepare
  BY <1>3 DEF Prepare
<1>4. CASE SpawnWineserver
  BY <1>4 DEF SpawnWineserver
<1>5. CASE CheckPrefix
  <2>1. TypeOK'
    <3>1. launch' \in LaunchState
      BY <1>5 DEF CheckPrefix, PrefixReady
    <3>2. AttemptsBounded'
      BY <1>5 DEF CheckPrefix, PrefixReady
    <3> QED BY <1>5, <3>1, <3>2 DEF CheckPrefix, PrefixReady
  <2> QED BY <1>5, <2>1 DEF CheckPrefix, PrefixReady
<1> QED BY <1>1, <1>2, <1>3, <1>4, <1>5

\* wineboot, its waits and its attempts.
LEMMA WinebootSteps ==
  ASSUME IInv,
         MarkerFails \/ WinebootSpawnFails \/ SpawnWineboot \/ ObserveWorker \/ WinebootCompletes
           \/ WinebootTimesOut \/ PrefixAppears \/ PrefixStaysIncomplete
  PROVE  IInv'
<1> USE DEF IInv, TypeOK, LaunchState, AttemptsBounded, PhaseInv, PrefixInv, OutcomeInv, AtDesktop,
        ReadyHasPrefix, Process, Prefix, Workers, Nothing, Core, Registered, Finished, Phase, Installing, Goto,
        Announce, GiveUp
<1>1. CASE MarkerFails
  BY <1>1 DEF MarkerFails
<1>2. CASE WinebootSpawnFails
  <2>0. \/ GiveUp \/ Retried(MaxWinebootAttempts, "wineboot")
        \/ ~Installing /\ Goto("wineboot", "desktop") /\ UNCHANGED <<phase, outcome>>
    BY <1>2, RetryEffect DEF WinebootSpawnFails
  <2>1. TypeOK'
    <3>1. launch' \in LaunchState
      BY <1>2, <2>0 DEF WinebootSpawnFails, Retried
    <3>2. AttemptsBounded'
      BY <1>2, <2>0 DEF WinebootSpawnFails, Retried
    <3> QED BY <1>2, <2>0, <3>1, <3>2 DEF WinebootSpawnFails, Retried
  <2> QED BY <1>2, <2>0, <2>1 DEF WinebootSpawnFails, Retried
<1>3. CASE SpawnWineboot
  BY <1>3 DEF SpawnWineboot
<1>4. CASE ObserveWorker
  BY <1>4 DEF ObserveWorker
<1>5. CASE WinebootCompletes
  BY <1>5 DEF WinebootCompletes
<1>6. CASE WinebootTimesOut
  <2>0. GiveUp \/ Retried(MaxWinebootAttempts, "wineboot")
    BY <1>6, RetryEffect DEF WinebootTimesOut
  <2>1. TypeOK'
    <3>1. launch' \in LaunchState
      BY <1>6, <2>0 DEF WinebootTimesOut, Retried
    <3>2. AttemptsBounded'
      BY <1>6, <2>0 DEF WinebootTimesOut, Retried
    <3> QED BY <1>6, <2>0, <3>1, <3>2 DEF WinebootTimesOut, Retried
  <2> QED BY <1>6, <2>0, <2>1 DEF WinebootTimesOut, Retried
<1>7. CASE PrefixAppears
  BY <1>7 DEF PrefixAppears
<1>8. CASE PrefixStaysIncomplete
  <2>0. GiveUp \/ Retried(MaxWinebootAttempts, "wineboot")
    BY <1>8, RetryEffect DEF PrefixStaysIncomplete
  <2>1. TypeOK'
    <3>1. launch' \in LaunchState
      BY <1>8, <2>0 DEF PrefixStaysIncomplete, Retried
    <3>2. AttemptsBounded'
      BY <1>8, <2>0 DEF PrefixStaysIncomplete, Retried
    <3> QED BY <1>8, <2>0, <3>1, <3>2 DEF PrefixStaysIncomplete, Retried
  <2> QED BY <1>8, <2>0, <2>1 DEF PrefixStaysIncomplete, Retried
<1> QED BY <1>1, <1>2, <1>3, <1>4, <1>5, <1>6, <1>7, <1>8

\* The desktop, and the end of the launch.
LEMMA DesktopSteps ==
  ASSUME IInv,
         BeginDesktop \/ SpawnExplorer \/ RootAppears \/ RootReady \/ RootGone
           \/ ExplorerDied \/ RootNeverComes \/ Succeed
  PROVE  IInv'
<1> USE DEF IInv, TypeOK, LaunchState, AttemptsBounded, PhaseInv, PrefixInv, OutcomeInv, AtDesktop,
        ReadyHasPrefix, Process, Prefix, Workers, Nothing, Core, Registered, Finished, Phase, Installing, Goto,
        Announce, GiveUp
<1>1. CASE BeginDesktop
  <2>1. CASE Desktop
    <3>1. launch' = [launch EXCEPT !.pc = "explorer", !.attempt = 1] /\ launch.pc = "desktop"
      BY <1>1, <2>1 DEF BeginDesktop
    <3>2. launch' \in LaunchState /\ launch'.pc = "explorer" /\ launch'.attempt = 1
      BY <3>1, SetAttempt
    <3>3. phase' = 4 /\ UNCHANGED <<outcome, proc, Workers, root, Prefix>>
      BY <1>1, <2>1 DEF BeginDesktop
    <3> QED BY <3>1, <3>2, <3>3
  <2>2. CASE ~Desktop
    BY <1>1, <2>2 DEF BeginDesktop
  <2> QED BY <2>1, <2>2
<1>2. CASE SpawnExplorer
  <2>0. \/ GiveUp \/ Retried(MaxExplorerAttempts, "explorer")
        \/ Goto("explorer", "root") /\ UNCHANGED <<phase, outcome>>
    BY <1>2, RetryEffect DEF SpawnExplorer
  <2>1. TypeOK'
    <3>1. launch' \in LaunchState
      BY <1>2, <2>0 DEF SpawnExplorer, Retried
    <3>2. AttemptsBounded'
      BY <1>2, <2>0 DEF SpawnExplorer, Retried
    <3> QED BY <1>2, <2>0, <3>1, <3>2 DEF SpawnExplorer, Retried
  <2> QED BY <1>2, <2>0, <2>1 DEF SpawnExplorer, Retried
<1>3. CASE RootAppears \/ RootReady
  BY <1>3 DEF RootAppears, RootReady
<1>4. CASE ExplorerDied
  <2>0. GiveUp \/ Retried(MaxExplorerAttempts, "explorer")
    BY <1>4, RetryEffect DEF ExplorerDied
  <2>1. TypeOK'
    <3>1. launch' \in LaunchState
      BY <1>4, <2>0 DEF ExplorerDied, Retried
    <3>2. AttemptsBounded'
      BY <1>4, <2>0 DEF ExplorerDied, Retried
    <3> QED BY <1>4, <2>0, <3>1, <3>2 DEF ExplorerDied, Retried
  <2> QED BY <1>4, <2>0, <2>1 DEF ExplorerDied, Retried
<1>5. CASE RootNeverComes
  BY <1>5 DEF RootNeverComes
<1>6. CASE Succeed
  BY <1>6 DEF Succeed
<1>7. CASE RootGone
  <2>0. GiveUp \/ Retried(MaxExplorerAttempts, "explorer")
    BY <1>7, RetryEffect DEF RootGone
  <2>1. TypeOK'
    <3>1. launch' \in LaunchState
      BY <1>7, <2>0 DEF RootGone, Retried
    <3>2. AttemptsBounded'
      BY <1>7, <2>0 DEF RootGone, Retried
    <3> QED BY <1>7, <2>0, <3>1, <3>2 DEF RootGone, Retried
  <2> QED BY <1>7, <2>0, <2>1 DEF RootGone, Retried
<1> QED BY <1>1, <1>2, <1>3, <1>4, <1>5, <1>6, <1>7

\* Wine's own steps, and the death of the application.
LEMMA OutsideSteps ==
  ASSUME IInv, WineStep \/ ApplicationDies
  PROVE  IInv'
<1> USE DEF IInv, TypeOK, LaunchState, AttemptsBounded, PhaseInv, PrefixInv, OutcomeInv, AtDesktop,
        ReadyHasPrefix, Process, Prefix, Workers, Nothing, Core, Registered, Finished, Phase, Installing
<1>1. ASSUME NEW w \in Worker, RequestWorker(w) PROVE IInv'
  BY <1>1 DEF RequestWorker
<1>2. ASSUME NEW w \in Worker, WorkerRegisters(w) \/ WorkerEnds(w) PROVE IInv'
  BY <1>2 DEF WorkerRegisters, WorkerEnds
<1>3. CASE StampTime
  BY <1>3 DEF StampTime
<1>4. CASE Install
  BY <1>4 DEF Install
<1>5. CASE Flush
  BY <1>5 DEF Flush
<1>6. CASE RegisterRoot
  BY <1>6 DEF RegisterRoot
<1>7. ASSUME NEW p \in Process, ProcessEnds(p) PROVE IInv'
  BY <1>7 DEF ProcessEnds
<1>8. CASE ApplicationDies
  <2>1. TypeOK'
    <3>1. launch' \in LaunchState
      BY <1>8 DEF ApplicationDies
    <3>2. AttemptsBounded'
      BY <1>8 DEF ApplicationDies
    <3>3. /\ proc' \in [Process -> {"gone", "asked", "up"}]
          /\ worker' \in [Worker -> {"gone", "coming", "up"}] /\ late' \subseteq Worker
      BY <1>8 DEF ApplicationDies
    <3>4. /\ phase' \in 0 .. 5 /\ outcome' \in {"none", "ready", "failed"}
          /\ mem' \in Nothing .. Finished /\ disk' \in Nothing .. Finished
      BY <1>8 DEF ApplicationDies
    <3>5. /\ root' \in BOOLEAN /\ timestamp' \in BOOLEAN
          /\ marker' \in BOOLEAN /\ interrupted' \in BOOLEAN
      BY <1>8 DEF ApplicationDies
    <3> HIDE DEF LaunchState, AttemptsBounded, Nothing, Finished
    <3> QED BY <3>1, <3>2, <3>3, <3>4, <3>5
  <2> QED BY <1>8, <2>1 DEF ApplicationDies
<1> QED BY <1>1, <1>2, <1>3, <1>4, <1>5, <1>6, <1>7, <1>8 DEF WineStep

LEMMA NextIInv == IInv /\ [Next]_vars => IInv'
<1> SUFFICES ASSUME IInv, [Next]_vars PROVE IInv'
  OBVIOUS
<1>1. CASE LaunchClient \/ LaunchStep
  BY <1>1, EarlySteps, WinebootSteps, DesktopSteps DEF LaunchStep
<1>2. CASE WineStep \/ ApplicationDies
  BY <1>2, OutsideSteps
<1>3. CASE UNCHANGED vars
  BY <1>3 DEF vars, IInv, TypeOK, LaunchState, AttemptsBounded, PhaseInv, PrefixInv, OutcomeInv, AtDesktop,
     ReadyHasPrefix, Process, Installing
<1> QED BY <1>1, <1>2, <1>3 DEF Next

-----------------------------------------------------------------------------
(***************************************************************************)
(* Values stay in range: in particular no loop of the launch makes more    *)
(* attempts than LaunchPadMode allows.                                     *)
(***************************************************************************)
THEOREM LaunchTypeCorrect == Spec => []TypeOK
<1>1. IInv => TypeOK
  BY DEF IInv
<1> QED BY <1>1, InitIInv, NextIInv, PTL DEF Spec

(***************************************************************************)
(* wine-ready is only announced over a prefix whose files carry the        *)
(* registrations (wine_launch.cpp, the end of LaunchThreadFunc), whatever  *)
(* died on the way.                                                        *)
(***************************************************************************)
THEOREM ReadyMeansPrefix == Spec => []ReadyHasPrefix
<1>1. IInv => ReadyHasPrefix
  BY DEF IInv, OutcomeInv
<1> QED BY <1>1, InitIInv, NextIInv, PTL DEF Spec

(***************************************************************************)
(* An initialisation that was cut short leaves its marker, and no launch   *)
(* is ready before another one was waited for.                             *)
(***************************************************************************)
THEOREM InterruptedMeansRepeated == Spec => []InterruptedIsRepeated
<1>1. IInv => InterruptedIsRepeated
  BY DEF IInv, OutcomeInv, ReadyHasPrefix, InterruptedIsRepeated
<1> QED BY <1>1, InitIInv, NextIInv, PTL DEF Spec

-----------------------------------------------------------------------------
(***************************************************************************)
(* Where no wait goes on, whoever is up has registered after one: a wait   *)
(* ends only when nobody is up, or by killing all who are.                 *)
(***************************************************************************)
WorkerInv ==
  \A w \in Worker : worker[w] = "up" => launch.pc = "wait" \/ w \in late

LEMMA NextWorkerInv ==
  ASSUME IInv, WorkerInv, [Next]_vars
  PROVE  WorkerInv'
<1>1. CASE LaunchClient
  BY <1>1 DEF LaunchClient, Workers, Prefix, WorkerInv, PhaseInv, IInv
<1>2. CASE WinebootCompletes
  BY <1>2 DEF WinebootCompletes, WinebootOver, HasRunningWinebootWorker, Workers, WorkerInv
<1>3. CASE WinebootTimesOut
  BY <1>3 DEF WinebootTimesOut, WorkerInv
<1>4. CASE LaunchStep /\ ~WinebootCompletes /\ ~WinebootTimesOut
  <2>1. UNCHANGED Workers /\ (launch.pc = "wait" => launch'.pc = "wait")
    BY <1>4 DEF LaunchStep, StartGraphics, Prepare, SpawnWineserver, CheckPrefix, MarkerFails,
       WinebootSpawnFails, SpawnWineboot, ObserveWorker, PrefixAppears, PrefixStaysIncomplete,
       BeginDesktop, SpawnExplorer, RootAppears, RootReady, RootGone, ExplorerDied, RootNeverComes,
       Succeed, Goto, IInv, TypeOK, LaunchState
  <2> QED
    BY <2>1 DEF Workers, WorkerInv
<1>5. ASSUME NEW w \in Worker, RequestWorker(w) \/ WorkerRegisters(w) \/ WorkerEnds(w)
      PROVE  WorkerInv'
  BY <1>5 DEF RequestWorker, WorkerRegisters, WorkerEnds, WorkerInv, IInv, TypeOK
<1>6. CASE StampTime \/ Install \/ Flush \/ RegisterRoot
  BY <1>6 DEF StampTime, Install, Flush, RegisterRoot, Workers, WorkerInv
<1>7. ASSUME NEW p \in Process, ProcessEnds(p) PROVE WorkerInv'
  BY <1>7 DEF ProcessEnds, Workers, WorkerInv
<1>8. CASE ApplicationDies
  BY <1>8 DEF ApplicationDies, WorkerInv
<1>9. CASE UNCHANGED vars
  BY <1>9 DEF vars, WorkerInv
<1> QED
  BY <1>1, <1>2, <1>3, <1>4, <1>5, <1>6, <1>7, <1>8, <1>9 DEF Next, WineStep

(***************************************************************************)
(* Whatever the number of workers and whenever they register: explorer     *)
(* starts after every worker that some wait could have seen                *)
(* (WaitForWinebootCompletion, StopWinebootAttempt).                       *)
(***************************************************************************)
THEOREM ExplorerStartsLast == Spec => []ExplorerFollowsWineboot
<1>1. Init => WorkerInv
  BY DEF Init, WorkerInv
<1>2. IInv /\ WorkerInv /\ [Next]_vars => WorkerInv'
  BY NextWorkerInv
<1>3. WorkerInv => ExplorerFollowsWineboot
  BY DEF WorkerInv, ExplorerFollowsWineboot, AtDesktop
<1> QED BY <1>1, <1>2, <1>3, InitIInv, NextIInv, PTL DEF Spec

-----------------------------------------------------------------------------
(***************************************************************************)
(* The launch implements the safety part of its contract: phases go        *)
(* forward, one outcome ends a launch, and only the last phase succeeds.   *)
(***************************************************************************)
LEMMA LaunchStepRefines ==
  ASSUME IInv, [Next]_vars
  PROVE  [Contract!ContractNext]_<<phase, outcome>>
<1> USE DEF IInv, TypeOK, LaunchState, AttemptsBounded, PhaseInv, Phase, Prefix, Goto, Announce, GiveUp,
        Retry, Contract!ContractNext, Contract!FirstPhase, Contract!LastPhase
<1>1. CASE LaunchClient
  BY <1>1 DEF LaunchClient, Contract!Begin
<1>2. CASE StartGraphics \/ Prepare \/ SpawnWineserver \/ CheckPrefix
  BY <1>2 DEF StartGraphics, Prepare, SpawnWineserver, CheckPrefix, Contract!Advance, Contract!Fail
<1>3. CASE MarkerFails \/ WinebootSpawnFails \/ PrefixStaysIncomplete \/ WinebootTimesOut
  BY <1>3 DEF MarkerFails, WinebootSpawnFails, PrefixStaysIncomplete, WinebootTimesOut,
     Contract!Fail
<1>4. CASE SpawnWineboot \/ ObserveWorker \/ WinebootCompletes \/ PrefixAppears
  BY <1>4 DEF SpawnWineboot, ObserveWorker, WinebootCompletes, PrefixAppears
<1>5. CASE BeginDesktop \/ SpawnExplorer \/ ExplorerDied \/ RootNeverComes \/ RootGone
  BY <1>5 DEF BeginDesktop, SpawnExplorer, ExplorerDied, RootNeverComes, RootGone, Contract!Advance,
     Contract!Fail
<1>6. CASE RootAppears \/ RootReady
  BY <1>6 DEF RootAppears, RootReady
<1>7. CASE Succeed
  BY <1>7 DEF Succeed, Contract!Succeed
<1>8. CASE WineStep
  BY <1>8 DEF WineStep, RequestWorker, WorkerRegisters, WorkerEnds, StampTime, Install, Flush, RegisterRoot,
     ProcessEnds
<1>9. CASE ApplicationDies
  BY <1>9 DEF ApplicationDies, Contract!Lost
<1>10. CASE UNCHANGED vars
  BY <1>10 DEF vars
<1> QED BY <1>1, <1>2, <1>3, <1>4, <1>5, <1>6, <1>7, <1>8, <1>9, <1>10 DEF Next, LaunchStep

THEOREM LaunchKeepsContract == Spec => Contract!ContractSafety
<1>1. Init => Contract!ContractInit
  BY DEF Init, Contract!ContractInit
<1>2. IInv /\ [Next]_vars => [Contract!ContractNext]_<<phase, outcome>>
  BY LaunchStepRefines
<1> QED BY <1>1, <1>2, InitIInv, NextIInv, PTL DEF Spec, Contract!ContractSafety
=============================================================================
