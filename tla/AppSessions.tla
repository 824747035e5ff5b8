----------------------------- MODULE AppSessions -----------------------------
(***************************************************************************)
(* Launching programs (AppSessionService.ets and the queue of Index.ets):  *)
(* a tap on a card becomes a process, an answer "no", or a wait: for the   *)
(* engine to be ready, or for the window of the Wine desktop, the root.    *)
(*                                                                         *)
(* The engine is what EngineSession makes of it, seen from outside: calls  *)
(* act on it at once, and otherwise it takes any state at any time, but    *)
(* does not stay busy for ever (BusyEnds).  Modelled is the desktop        *)
(* presentation with one graphics host.  A tap ends where its promise is   *)
(* settled; bringing a window to the front changes nothing here.           *)
(***************************************************************************)
EXTENDS Naturals, Sequences, FiniteSets

CONSTANTS
  Tap,          \* taps, each of which can be repeated when it has ended
  App,          \* programs
  Desktop,      \* the card of the Wine desktop
  Browsed,      \* programs opened in the file browser, past the queue
  Prefix,       \* prefix modes
  PrefixOf,     \* the mode a program's preset asks for
  Reuse,        \* the prefix mode both start with
  EngineMoves,  \* what the engine may do by itself: pairs of states
  MaxCopies,    \* bound: processes of one program
  MayStop       \* whether the user stops, restarts or resets the engine

ASSUME DesktopIsNoApp == Desktop \notin App /\ Browsed \subseteq App
ASSUME PrefixesKnown == PrefixOf \in [App -> Prefix] /\ Reuse \in Prefix
ASSUME MaxCopiesNat == MaxCopies \in Nat \ {0}

VARIABLES
  engine,      \* EngineState
  selected,    \* prefixMode: what the next start will use
  applied,     \* appliedPrefixMode: what the latest start used
  root,        \* desktopRootId: the window manager knows a desktop root
  desktop,     \* sessions holds the desktop's session, with a window
  sessions,    \* sessions of each program whose process runs
  running,     \* processes of each program
  tap,         \* where each tap's launch stands, and what it launches
  launchChain, \* taps on cards, the first of them in progress
  listening,   \* pendingLaunchListenerInstalled
  stopping     \* sessions are cleared, the engine is about to be stopped

vars == <<engine, selected, applied, root, desktop, sessions, running, tap, launchChain,
          listening, stopping>>
config == <<selected, applied>>
programs == <<sessions, running>>
queue == <<tap, launchChain>>

Busy == {"PREPARING", "SWITCHING"}
Over == {"STOPPED", "ERROR"}
EngineState == {"READY"} \cup Busy \cup Over
Item == App \cup {Desktop}
At(pc) == {t \in Tap : tap[t].pc = pc}
Idle == [pc |-> "idle", item |-> Desktop]
NoProgram == [a \in App |-> 0]

Init ==
  /\ engine = "STOPPED"
  /\ selected = Reuse /\ applied = Reuse
  /\ root = FALSE /\ desktop = FALSE
  /\ sessions = NoProgram /\ running = NoProgram
  /\ tap = [t \in Tap |-> Idle] /\ launchChain = <<>>
  /\ listening = FALSE /\ stopping = FALSE

-----------------------------------------------------------------------------
(***************************************************************************)
(* What happens to the launches.                                           *)
(***************************************************************************)
\* the tap whose run the queue waits for
InProgress == {launchChain[i] : i \in DOMAIN launchChain \cap {1}}

\* The launches of S end, each with a session or with null; the rest stand as
\* `now' says.  The queue goes on to its next tap.
End(S, now) ==
  /\ tap' = [t \in Tap |-> IF t \in S THEN Idle ELSE now[t]]
  /\ launchChain' = IF InProgress \cap S # {} THEN Tail(launchChain) ELSE launchChain

\* waitForDesktopRootRegistered for the programs of S: they start now, or
\* with the root event.
AwaitRoot(S, found) ==
  [t \in Tap |-> IF t \in S THEN [tap[t] EXCEPT !.pc = IF found THEN "go" ELSE "root"]
                 ELSE tap[t]]

\* The listeners of READY: deferred launches are drained, and ensureReady
\* returns.  Seeded fault: the deferred are forgotten.
DrainedNot(found) ==
  [t \in Tap |-> IF tap[t].pc = "engine" THEN [tap[t] EXCEPT !.pc = "card"] ELSE tap[t]]
Drained(found) ==
  [t \in Tap |-> IF tap[t].pc = "engine" THEN [tap[t] EXCEPT !.pc = "card"]
                 ELSE AwaitRoot(At("deferred"), found)[t]]

\* The listeners of STOPPED and ERROR: whoever waits for the root or for READY
\* gets null.  Seeded fault: the root's waiters are not told.
GivenUpButRoot(to) == IF to \in Over THEN At("deferred") ELSE {}
GivenUp(to) == IF to \in Over THEN At("deferred") \cup At("root") ELSE {}

\* reconcile: without a process of its own the desktop's session lasts only
\* while the engine is ready.
Reconciled(state) == desktop /\ state = "READY"

\* setState and its listeners; the launcher's page reconciles.  A stop has
\* killed the programs.
SetState(to, ended, now) ==
  /\ engine' = to
  /\ desktop' = Reconciled(to)
  /\ IF to \in {"SWITCHING", "STOPPED"} THEN sessions' = NoProgram /\ running' = NoProgram
     ELSE UNCHANGED programs
  /\ End(ended \cup GivenUp(to), now)

\* startSession, as the state the engine has at its first await
EnsureReady(prefix, to) ==
  \/ engine \in {"READY", "PREPARING"} /\ applied = prefix /\ to = engine
  \/ engine = "ERROR" /\ to = "PREPARING"
  \/ engine # "STOPPED" /\ applied # prefix /\ to = "SWITCHING"
  \/ engine = "STOPPED" /\ to = "PREPARING"
  \/ engine = "SWITCHING" /\ applied = prefix /\ to = "PREPARING"

-----------------------------------------------------------------------------
(***************************************************************************)
(* A launch.                                                               *)
(***************************************************************************)
TapOn(t, item) ==
  /\ tap[t].pc = "idle"
  /\ tap' = [tap EXCEPT ![t] = [pc |-> "queued", item |-> item]]
  /\ launchChain' = IF item \in Browsed THEN launchChain ELSE Append(launchChain, t)
  /\ UNCHANGED <<engine, config, root, desktop, programs, listening, stopping>>

\* Seeded fault: launches do not wait for each other.
DueAtOnce(t) == tap[t].pc = "queued"
Due(t) == tap[t].pc = "queued" /\ (tap[t].item \in Browsed \/ t \in InProgress)

\* The program has a session: resume.
LaunchAgain(t) ==
  /\ Due(t) /\ tap[t].item \in App /\ sessions[tap[t].item] > 0
  /\ desktop' = Reconciled(engine)
  /\ End({t}, tap)
  /\ UNCHANGED <<engine, config, root, programs, listening, stopping>>

Fresh(t) == Due(t) /\ tap[t].item \in App /\ sessions[tap[t].item] = 0

LaunchReady(t) ==
  /\ Fresh(t) /\ engine = "READY"
  /\ selected' = PrefixOf[tap[t].item] /\ applied = selected'
  /\ tap' = AwaitRoot({t}, desktop)
  /\ UNCHANGED <<engine, applied, root, desktop, programs, launchChain, listening, stopping>>

\* The first deferral installs the listener, which hears a ready engine at once
\* and launches; only then does ensureReady begin to switch it.
DeferLaunchUntilReady(t) ==
  /\ Fresh(t)
  /\ selected' = PrefixOf[tap[t].item]
  /\ engine # "READY" \/ applied # selected'
  /\ listening' = TRUE
  /\ \E to \in Busy :
       /\ EnsureReady(selected', to)
       /\ SetState(to, {}, IF engine = "READY" /\ ~listening THEN AwaitRoot({t}, desktop)
                           ELSE [tap EXCEPT ![t].pc = "deferred"])
  /\ UNCHANGED <<applied, root, stopping>>

\* The card of the desktop: ensureReady first.
LaunchDesktop(t) ==
  /\ Due(t) /\ tap[t].item = Desktop
  /\ \/ /\ engine = "READY" /\ applied = selected
        /\ tap' = [tap EXCEPT ![t].pc = "card"]
        /\ UNCHANGED <<engine, desktop, programs, launchChain>>
     \/ /\ engine = "PREPARING" /\ applied = selected
        /\ tap' = [tap EXCEPT ![t].pc = "engine"]
        /\ UNCHANGED <<engine, desktop, programs, launchChain>>
     \/ \E to \in Busy \ {engine} :
          EnsureReady(selected, to) /\ SetState(to, {}, [tap EXCEPT ![t].pc = "engine"])
  /\ UNCHANGED <<config, root, listening, stopping>>

\* ensureReady has returned true: the desktop's session is shown, or its root
\* awaited.  (The shell is started anew only if that wait ends in null, which
\* it does when the engine is over and no shell can be started.)
ShowDesktop(t) ==
  /\ tap[t].pc = "card"
  /\ desktop' = Reconciled(engine)
  /\ IF desktop' \/ engine \in Over THEN End({t}, tap)
     ELSE tap' = [tap EXCEPT ![t].pc = "root"] /\ UNCHANGED launchChain
  /\ UNCHANGED <<engine, config, root, programs, listening, stopping>>

\* The rest of launchReady: launchExecutable, and the session of its process.
LaunchExecutable(t) ==
  /\ tap[t].pc = "go"
  /\ LET a == tap[t].item IN
     \/ /\ engine = "READY" /\ running[a] < MaxCopies
        /\ running' = [running EXCEPT ![a] = @ + 1]
        /\ sessions' = [sessions EXCEPT ![a] = @ + 1]
     \/ UNCHANGED programs
  /\ End({t}, tap)
  /\ UNCHANGED <<engine, config, root, desktop, listening, stopping>>

-----------------------------------------------------------------------------
(***************************************************************************)
(* The engine and its windows.                                             *)
(***************************************************************************)
\* A call of somebody else, or an event.  Calls of ensureReady may fail.
EngineBecomes(to) ==
  /\ to # engine /\ <<engine, to>> \in EngineMoves
  /\ \E refused \in SUBSET (IF to = "READY" THEN {} ELSE At("engine")) :
       SetState(to, refused, IF to = "READY" THEN Drained(desktop) ELSE tap)
  /\ UNCHANGED <<config, root, listening, stopping>>

\* A start goes on after the installation: applyModePolicy forgets the root.
LaunchClient ==
  /\ engine = "PREPARING"
  /\ applied' = selected
  /\ root' = FALSE
  /\ UNCHANGED <<engine, selected, desktop, programs, queue, listening, stopping>>

\* desktop_root, and associateToplevel
DesktopRoot ==
  /\ engine # "STOPPED"
  /\ root' = TRUE /\ desktop' = TRUE
  /\ LET here == At("root") IN
     End({t \in here : tap[t].item = Desktop}, AwaitRoot(here, TRUE))
  /\ UNCHANGED <<engine, config, programs, listening, stopping>>

\* The root's window is destroyed; nothing tells the sessions.
DesktopRootDestroyed ==
  /\ root /\ root' = FALSE
  /\ UNCHANGED <<engine, config, desktop, programs, queue, listening, stopping>>

\* refreshRunningState, every 1.5 s and on many occasions
RefreshRunningState ==
  /\ desktop' = Reconciled(engine)
  /\ UNCHANGED <<engine, config, root, programs, queue, listening, stopping>>

\* A program ends, or is stopped; lookups reconcile before they look.
ProgramEnds(a) ==
  /\ running[a] > 0
  /\ running' = [running EXCEPT ![a] = @ - 1]
  /\ \/ sessions[a] > 0 /\ sessions' = [sessions EXCEPT ![a] = @ - 1]
     \/ sessions[a] < running[a] /\ UNCHANGED sessions
  /\ UNCHANGED <<engine, config, root, desktop, queue, listening, stopping>>

\* stopAll, restartEngine, resetPrefix: the sessions are cleared, the overlay
\* is hidden (an await), and only then the engine is called.
ClearSessions ==
  /\ MayStop /\ ~stopping
  /\ stopping' = TRUE
  /\ sessions' = NoProgram /\ desktop' = FALSE
  /\ UNCHANGED <<engine, config, root, running, queue, listening>>

\* stopSession, whose state the engine shows later, or a restart, which says
\* SWITCHING, or joins one that has killed the programs already.
StopEngine ==
  /\ stopping /\ stopping' = FALSE
  /\ \/ /\ running' = NoProgram /\ sessions' = NoProgram
        /\ \E refused \in SUBSET At("engine") : End(refused, tap)
        /\ UNCHANGED <<engine, desktop>>
     \/ /\ engine \in {"READY", "PREPARING", "ERROR"}
        /\ \E refused \in SUBSET At("engine") : SetState("SWITCHING", refused, tap)
     \/ /\ engine \in Busy /\ running = NoProgram
        /\ UNCHANGED <<engine, desktop, programs, queue>>
  /\ UNCHANGED <<config, root, listening>>

-----------------------------------------------------------------------------
Launch(t) ==
  LaunchAgain(t) \/ LaunchReady(t) \/ DeferLaunchUntilReady(t) \/ LaunchDesktop(t)

Continue(t) == ShowDesktop(t) \/ LaunchExecutable(t)

EngineIsDone == engine \in Busy /\ \E to \in EngineState \ Busy : EngineBecomes(to)

Next ==
  \/ \E t \in Tap : (\E item \in Item : TapOn(t, item)) \/ Launch(t) \/ Continue(t)
  \/ \E to \in EngineState : EngineBecomes(to)
  \/ LaunchClient \/ DesktopRoot \/ DesktopRootDestroyed \/ RefreshRunningState
  \/ \E a \in App : ProgramEnds(a)
  \/ ClearSessions \/ StopEngine

Spec == Init /\ [][Next]_vars

(***************************************************************************)
(* ArkTS runs what is due, and a busy engine comes to an end: BusyEnds of  *)
(* EngineSession.                                                          *)
(***************************************************************************)
FairSpec ==
  /\ Spec
  /\ WF_vars(EngineIsDone) /\ WF_vars(StopEngine)
  /\ \A t \in Tap : WF_vars(Launch(t)) /\ WF_vars(Continue(t))

-----------------------------------------------------------------------------
\* Values stay in range; the queue holds each tap that has not ended once.
TypeOK ==
  /\ engine \in EngineState
  /\ selected \in Prefix /\ applied \in Prefix
  /\ {root, desktop, listening, stopping} \subseteq BOOLEAN
  /\ running \in [App -> 0 .. MaxCopies]
  /\ sessions \in [App -> 0 .. MaxCopies] /\ \A a \in App : sessions[a] <= running[a]
  /\ tap \in [Tap -> [pc : {"idle", "queued", "deferred", "engine", "card", "root", "go"},
                      item : Item]]
  /\ launchChain \in Seq({t \in Tap : tap[t].pc # "idle" /\ tap[t].item \notin Browsed})
  /\ \A i, j \in DOMAIN launchChain : launchChain[i] = launchChain[j] => i = j

(***************************************************************************)
(* No launch waits for an engine that will not come: a deferred one has a  *)
(* start under way, whichever calls and failures crossed it, and one that  *)
(* waits for the root an engine that may yet show it.                      *)
(***************************************************************************)
WaitsHaveAnEnd ==
  /\ At("deferred") # {} => engine \in Busy
  /\ At("root") # {} => engine \notin Over

\* With the types: what the service remembers is sound.
LaunchesAreSound == TypeOK /\ WaitsHaveAnEnd

(***************************************************************************)
(* A deferred launch is launched or refused: when the engine is ready,     *)
(* stopped or failed, whoever started and whoever stopped it.              *)
(***************************************************************************)
DeferredIsAnswered == \A t \in Tap : tap[t].pc = "deferred" ~> tap[t].pc # "deferred"

(***************************************************************************)
(* However quickly a card is tapped, and whatever the engine does, its     *)
(* program runs once: the second launch finds the session of the first.    *)
(* (While the engine is about to be stopped, the sessions are forgotten    *)
(* before the processes are killed.)                                       *)
(***************************************************************************)
OneProcessPerCard == ~stopping => \A a \in App \ Browsed : running[a] <= 1

(***************************************************************************)
(* "The root's registration, or its discovery by synchronising, lets the   *)
(* waiters pass": with the engine ready, nobody waits for a root that is   *)
(* there.                                                                  *)
(***************************************************************************)
NobodyWaitsForKnownRoot == engine = "READY" /\ root => At("root") = {}
=============================================================================
