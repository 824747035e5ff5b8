--------------------------- MODULE ProcessRegistry ---------------------------
(***************************************************************************)
(* The registry of Wine processes (wine_process.cpp) and the threads that  *)
(* share it: the broker's request threads, which start a process and       *)
(* register it; the application, which registers it again under the        *)
(* session it wants; the exit callback or the /proc monitor, which mark it *)
(* ended; and the Wayland thread, which ties a window to the session of    *)
(* the process that opened it.                                             *)
(*                                                                         *)
(* gProcMutex covers one call at a time, so a call is one step here and    *)
(* whatever calls twice takes two.                                         *)
(***************************************************************************)
EXTENDS Naturals, Sequences, SequencesExt, FiniteSets

CONSTANTS
  Pid,           \* processes; a process identifier is used once
  Ancestry,      \* who forked p, who forked that process, ...: <<>> if the broker started p
  App,           \* the application itself, as the peer of a broker connection
  Toplevel,      \* windows
  Nobody,
  NoSession,     \* the empty session
  Engine,        \* the sessions "@engine/..."
  NoToplevel,    \* toplevel 0
  MaxEntries,    \* 128 in the code
  MaxPending,    \* 32 in the code
  MaxDepth,      \* processes looked at on the way up, 16 in the code
  ForkBackend,   \* /proc is polled (phones); otherwise exits come by callback
  Reregisters    \* whether the application registers what it has started

ASSUME ConstantsDiffer ==
  /\ {Nobody, App} \cap Pid = {} /\ {NoSession, Engine} \cap Pid = {}
  /\ App # Nobody /\ NoSession # Engine /\ NoToplevel \notin Toplevel
ASSUME AncestryIsALine ==
  /\ Ancestry \in [Pid -> Seq(Pid)]
  /\ \A p \in Pid : Ancestry[p] # <<>> => Tail(Ancestry[p]) = Ancestry[Head(Ancestry[p])]
ASSUME BoundsArePositive ==
  MaxEntries \in Nat \ {0} /\ MaxPending \in Nat \ {0} /\ MaxDepth \in Nat \ {0}

VARIABLES
  os,                \* what the kernel knows of each process
  broker,            \* HandleRequest: one thread per process it starts
  registry,          \* gProcRegistry
  pendingToplevels,  \* gPendingToplevels
  notices,           \* exits whose callback or SIGCHLD has still to run
  monitor,           \* ProcessMonitorLoop: the exited pids it has collected
  wayland,           \* xs_get_toplevel: the window it is associating
  windows,           \* each window's client and the session that client was found in
  stopper            \* StopWineSession: the process it has killed and will mark ended

registryVars ==
  <<os, broker, registry, pendingToplevels, notices, monitor, wayland, windows, stopper>>

Session == Pid \cup {Engine}          \* wine-<pid> and the engine's own

RegistryInit ==
  /\ os = [p \in Pid |-> "unborn"]
  /\ broker = [p \in Pid |-> [pc |-> "idle", peer |-> Nobody, session |-> NoSession]]
  /\ registry = <<>> /\ pendingToplevels = <<>>
  /\ notices = {} /\ monitor = <<>>
  /\ wayland = [pc |-> "idle", toplevel |-> NoToplevel]
  /\ windows = [t \in Toplevel |-> [state |-> "none", client |-> Nobody, session |-> NoSession]]
  /\ stopper = Nobody

-----------------------------------------------------------------------------
\* The first of some places in a sequence.
First(places) == CHOOSE i \in places : \A j \in places : i <= j

\* What is left of a sequence, in its order, when the other places are erased.
Kept(s, places) ==
  [k \in 1..Cardinality(places) |-> s[CHOOSE i \in places : Cardinality({j \in places : j <= i}) = k]]

(***************************************************************************)
(* What /proc and the registry say.                                        *)
(***************************************************************************)
\* ReadParentPid, again and again: a parent shows while both live, and an
\* orphan belongs to pid 1.  The application is nobody's descendant.
Above(pid) ==
  {d \in (IF pid \in Pid THEN DOMAIN Ancestry[pid] ELSE {}) :
     os[pid] = "alive" /\ \A i \in 1..d : os[Ancestry[pid][i]] = "alive"}

WalkedUp(pid) == {d \in Above(pid) : d < MaxDepth}

IsProcessOrDescendant(client, expected) ==
  expected = client \/ \E d \in WalkedUp(client) : expected = Ancestry[client][d]

RunningEntries(pid) == {i \in DOMAIN registry : registry[i].pid = pid /\ registry[i].running}

FindSessionIdForClientPid(client) ==
  LET SessionOf(pid) == registry[First(RunningEntries(pid))].session
      found == {d \in WalkedUp(client) : RunningEntries(Ancestry[client][d]) # {}}
  IN IF RunningEntries(client) # {} THEN SessionOf(client)
     ELSE IF found = {} THEN NoSession ELSE SessionOf(Ancestry[client][First(found)])

IsProcessRegisteredRunning(pid) == RunningEntries(pid) # {}

-----------------------------------------------------------------------------
(***************************************************************************)
(* The registry's operations.                                              *)
(***************************************************************************)
\* While the registry is full its first ended entry goes; running ones stay.
TrimAnyEntry(entries) == IF Len(entries) >= MaxEntries THEN Tail(entries) ELSE entries
Trim(entries) ==
  LET surplus == Len(entries) - MaxEntries + 1
      EndedUpTo(i) == Cardinality({j \in 1..i : ~entries[j].running})
  IN Kept(entries, {i \in DOMAIN entries : entries[i].running \/ EndedUpTo(i) > surplus})

\* Seeded fault: a window is given to whichever process comes next.
WaitsForAnyone(window, entry) == TRUE
WaitsFor(window, entry) ==
  \/ window.session # NoSession /\ window.session = entry.session
  \/ IsProcessOrDescendant(window.client, entry.pid)

\* What is left of the registry when a process is registered.
\* Seeded fault: its earlier entry stays.
OthersAndItself(pid) == registry
Others(pid) == Kept(registry, {i \in DOMAIN registry : registry[i].pid # pid})

\* The pending windows an entry claims, and what is left of them.
Claimed(entry) == {i \in DOMAIN pendingToplevels : WaitsFor(pendingToplevels[i], entry)}
Unclaimed(entry) == Kept(pendingToplevels, DOMAIN pendingToplevels \ Claimed(entry))

AddProcess(pid, session) ==
  LET entry == [pid |-> pid, session |-> session, toplevel |-> NoToplevel, running |-> TRUE]
  IN /\ registry' = Append(Trim(Others(pid)),
                           IF Claimed(entry) = {} THEN entry
                           ELSE [entry EXCEPT !.toplevel = pendingToplevels[First(Claimed(entry))].toplevel])
     /\ pendingToplevels' = Unclaimed(entry)

RemoveProcess(pid) ==
  registry' = [i \in DOMAIN registry |->
                 IF registry[i].pid = pid THEN [registry[i] EXCEPT !.running = FALSE]
                 ELSE registry[i]]

Enqueue(window) ==
  LET queue == Append(pendingToplevels, window)
  IN IF Len(queue) > MaxPending THEN Tail(queue) ELSE queue

\* The first entry of the session or above the client, running or not, takes the window.
AssociateToplevelWithSession(window) ==
  LET takers == {i \in DOMAIN registry : WaitsFor(window, registry[i])}
      first == First(takers)
  IN IF takers # {}
     THEN /\ registry' = IF registry[first].toplevel # NoToplevel THEN registry
                         ELSE [registry EXCEPT ![first].toplevel = window.toplevel]
          /\ UNCHANGED pendingToplevels
     ELSE /\ pendingToplevels' = Enqueue(window)
          /\ UNCHANGED registry

\* Seeded fault: the window is only looked for among the processes.
RemoveRegisteredToplevel(toplevel) ==
  /\ registry' = [i \in DOMAIN registry |->
                    IF registry[i].toplevel = toplevel
                    THEN [registry[i] EXCEPT !.toplevel = NoToplevel] ELSE registry[i]]
  /\ UNCHANGED pendingToplevels
RemoveToplevelAssociation(toplevel) ==
  /\ registry' = [i \in DOMAIN registry |->
                    IF registry[i].toplevel = toplevel
                    THEN [registry[i] EXCEPT !.toplevel = NoToplevel] ELSE registry[i]]
  /\ pendingToplevels' =
       Kept(pendingToplevels, {i \in DOMAIN pendingToplevels : pendingToplevels[i].toplevel # toplevel})

-----------------------------------------------------------------------------
(***************************************************************************)
(* The broker's request thread and the caller that started the process.    *)
(***************************************************************************)
StartNativeChildProcess(p, peer) ==
  /\ os[p] = "unborn" /\ Ancestry[p] = <<>>
  /\ peer # App => os[peer] = "alive"
  /\ os' = [os EXCEPT ![p] = "alive"]
  /\ broker' = [broker EXCEPT ![p].pc = "inherit", ![p].peer = peer]
  /\ UNCHANGED <<registry, pendingToplevels, notices, monitor, wayland, windows, stopper>>

\* SO_PEERCRED; the application is no process of the registry.
InheritSession(p) ==
  /\ broker[p].pc = "inherit"
  /\ broker' = [broker EXCEPT ![p].pc = "register",
                              ![p].session = FindSessionIdForClientPid(broker[p].peer)]
  /\ UNCHANGED <<os, registry, pendingToplevels, notices, monitor, wayland, windows, stopper>>

RegisterChild(p) ==
  /\ broker[p].pc = "register"
  /\ AddProcess(p, IF broker[p].session = NoSession THEN p ELSE broker[p].session)
  /\ broker' = [broker EXCEPT ![p].pc = IF Reregisters /\ broker[p].peer = App THEN "reply" ELSE "done"]
  /\ UNCHANGED <<os, notices, monitor, wayland, windows, stopper>>

\* runWineExe registers wine-<pid>, the launcher the engine's own session.
RegisterAgain(p, session) ==
  /\ broker[p].pc = "reply"
  /\ AddProcess(p, session)
  /\ broker' = [broker EXCEPT ![p].pc = "done"]
  /\ UNCHANGED <<os, notices, monitor, wayland, windows, stopper>>

-----------------------------------------------------------------------------
(***************************************************************************)
(* Processes fork and end.  With the fork backend either SIGCHLD's handler *)
(* or the reaper thread gets to a child first; the reaper tells nobody.    *)
(***************************************************************************)
Fork(p) ==
  /\ os[p] = "unborn" /\ Ancestry[p] # <<>> /\ os[Head(Ancestry[p])] = "alive"
  /\ os' = [os EXCEPT ![p] = "alive"]
  /\ UNCHANGED <<broker, registry, pendingToplevels, notices, monitor, wayland, windows, stopper>>

Die(dying) ==
  /\ os' = [p \in Pid |-> IF p \in dying THEN "exited" ELSE os[p]]
  /\ LET children == {p \in dying : Ancestry[p] = <<>>} IN
     IF ForkBackend THEN \E noticed \in SUBSET children : notices' = notices \cup noticed
     ELSE notices' = notices \cup children

Exit(p) ==
  /\ os[p] = "alive" /\ Die({p})
  /\ UNCHANGED <<broker, registry, pendingToplevels, monitor, wayland, windows, stopper>>

\* OnNcpChildExit or sigchld_handler
NoticeExit(p) ==
  /\ p \in notices
  /\ notices' = notices \ {p}
  /\ RemoveProcess(p)
  /\ UNCHANGED <<os, broker, pendingToplevels, monitor, wayland, windows, stopper>>

\* ProcessMonitorLoop looks first and marks afterwards, without the lock between.
MonitorLooks ==
  /\ ForkBackend /\ monitor = <<>>
  /\ LET gone == Kept(registry, {i \in DOMAIN registry : registry[i].running /\ os[registry[i].pid] = "exited"})
     IN gone # <<>> /\ monitor' = [i \in DOMAIN gone |-> gone[i].pid]
  /\ UNCHANGED <<os, broker, registry, pendingToplevels, notices, wayland, windows, stopper>>

\* Seeded fault: the processes found are not marked.
MonitorMarksNothing ==
  /\ monitor # <<>>
  /\ monitor' = Tail(monitor)
  /\ UNCHANGED <<os, broker, registry, pendingToplevels, notices, wayland, windows, stopper>>
MonitorMarks ==
  /\ monitor # <<>>
  /\ RemoveProcess(Head(monitor))
  /\ monitor' = Tail(monitor)
  /\ UNCHANGED <<os, broker, pendingToplevels, notices, wayland, windows, stopper>>

\* KillProcessTree: a process and whatever /proc shows below it, at any depth.
Tree(root) ==
  {p \in Pid : os[p] = "alive" /\ (p = root \/ \E d \in Above(p) : Ancestry[p][d] = root)}

\* StopWineSession and KillProcess, on a registered process: the lock is not
\* held while its tree is killed.
StopKills(root) ==
  /\ stopper = Nobody
  /\ Die(Tree(root))
  /\ stopper' = root
  /\ UNCHANGED <<broker, registry, pendingToplevels, monitor, wayland, windows>>

StopMarks ==
  /\ stopper # Nobody
  /\ RemoveProcess(stopper)
  /\ stopper' = Nobody
  /\ UNCHANGED <<os, broker, pendingToplevels, notices, monitor, wayland, windows>>

\* Entries are left running until their exit is noticed.
KillAllProcesses ==
  /\ registry # <<>>
  /\ Die({p \in Pid : os[p] = "alive" /\ IsProcessRegisteredRunning(p)})
  /\ pendingToplevels' = <<>>
  /\ UNCHANGED <<broker, registry, monitor, wayland, windows, stopper>>

-----------------------------------------------------------------------------
(***************************************************************************)
(* The Wayland thread.                                                     *)
(***************************************************************************)
OpenToplevel(p, t) ==
  /\ wayland.pc = "idle" /\ os[p] = "alive" /\ windows[t].state = "none"
  /\ windows' = [windows EXCEPT ![t] = [state |-> "live", client |-> p,
                                        session |-> FindSessionIdForClientPid(p)]]
  /\ wayland' = [pc |-> "associate", toplevel |-> t]
  /\ UNCHANGED <<os, broker, registry, pendingToplevels, notices, monitor, stopper>>

Associate ==
  /\ wayland.pc = "associate"
  /\ AssociateToplevelWithSession([client |-> windows[wayland.toplevel].client,
                                   toplevel |-> wayland.toplevel,
                                   session |-> windows[wayland.toplevel].session])
  /\ wayland' = [pc |-> "idle", toplevel |-> NoToplevel]
  /\ UNCHANGED <<os, broker, notices, monitor, windows, stopper>>

\* xs_destroy, or xs_resource_destroy when the client disconnects
DestroyToplevel(t) ==
  /\ wayland.pc = "idle" /\ windows[t].state = "live"
  /\ RemoveToplevelAssociation(t)
  /\ windows' = [windows EXCEPT ![t].state = "gone"]
  /\ UNCHANGED <<os, broker, notices, monitor, wayland, stopper>>

-----------------------------------------------------------------------------
BrokerStep(p) == InheritSession(p) \/ RegisterChild(p)
AppStep(p) == \E session \in {p, Engine} : RegisterAgain(p, session)
MonitorStep == MonitorLooks \/ MonitorMarks

RegistryNext ==
  \/ \E p \in Pid :
       \/ \E peer \in Pid \cup {App} : StartNativeChildProcess(p, peer)
       \/ BrokerStep(p) \/ AppStep(p) \/ Fork(p) \/ Exit(p) \/ NoticeExit(p)
       \/ \E t \in Toplevel : OpenToplevel(p, t)
  \/ MonitorStep \/ StopMarks \/ KillAllProcesses \/ Associate
  \/ \E e \in ToSet(registry) : StopKills(e.pid)
  \/ \E t \in Toplevel : DestroyToplevel(t)

RegistrySpec == RegistryInit /\ [][RegistryNext]_registryVars

\* Threads run, calls return and exits are reported; nothing makes a process end.
RegistryFairSpec ==
  /\ RegistrySpec
  /\ WF_registryVars(MonitorStep) /\ WF_registryVars(StopMarks) /\ WF_registryVars(Associate)
  /\ \A p \in Pid : /\ WF_registryVars(BrokerStep(p)) /\ WF_registryVars(AppStep(p))
                    /\ WF_registryVars(NoticeExit(p))

-----------------------------------------------------------------------------
Entries == ToSet(registry)

\* Values stay in range; the pending windows stay within their bound.
RegistryTypeOK ==
  /\ os \in [Pid -> {"unborn", "alive", "exited"}]
  /\ broker \in [Pid -> [pc : {"idle", "inherit", "register", "reply", "done"},
                         peer : Pid \cup {App, Nobody}, session : Session \cup {NoSession}]]
  /\ registry \in Seq([pid : Pid, session : Session, toplevel : Toplevel \cup {NoToplevel},
                       running : BOOLEAN])
  /\ pendingToplevels \in Seq([client : Pid, session : Session \cup {NoSession}, toplevel : Toplevel])
  /\ Len(pendingToplevels) <= MaxPending
  /\ notices \subseteq Pid /\ monitor \in Seq(Pid) /\ stopper \in Pid \cup {Nobody}
  /\ wayland \in [pc : {"idle", "associate"}, toplevel : Toplevel \cup {NoToplevel}]
  /\ windows \in [Toplevel -> [state : {"none", "live", "gone"}, client : Pid \cup {Nobody},
                               session : Session \cup {NoSession}]]

(***************************************************************************)
(* AddProcess by the broker and again by the application leave one entry:  *)
(* RemoveProcess and QueryProcessSnapshot look no further than the first.  *)
(***************************************************************************)
OneEntryPerProcess == \A i, j \in DOMAIN registry : registry[i].pid = registry[j].pid => i = j

\* With the types: the two tables are sound.
RegistryIsSound == RegistryTypeOK /\ OneEntryPerProcess

(***************************************************************************)
(* A window is remembered in at most one place, whoever registers, and     *)
(* never after its destruction: otherwise a session would raise another    *)
(* program's window, or one that is gone.                                  *)
(***************************************************************************)
WindowHasOnePlace ==
  \A t \in Toplevel :
    LET owners == Cardinality({i \in DOMAIN registry : registry[i].toplevel = t})
        places == owners + Cardinality({i \in DOMAIN pendingToplevels : pendingToplevels[i].toplevel = t})
    IN places <= IF windows[t].state = "live" THEN 1 ELSE 0

(***************************************************************************)
(* A window that waits for its process really has none: registering a      *)
(* process takes every window of its session and of its descendants.       *)
(***************************************************************************)
PendingWindowsHaveNoProcess ==
  \A w \in ToSet(pendingToplevels), e \in Entries : ~WaitsFor(w, e)

\* Both: a live window waits, or has an owner, or neither, but never two places.
WindowsArePlaced == WindowHasOnePlace /\ PendingWindowsHaveNoProcess

(***************************************************************************)
(* That none is neither does not hold: the second registration of a        *)
(* process (AddProcess) erases its entry with the window in it, and the    *)
(* window no longer waits.                                                 *)
(***************************************************************************)
NoWindowIsLost ==
  \A t \in Toplevel : windows[t].state = "live" /\ wayland.toplevel # t =>
    \/ \E e \in Entries : e.toplevel = t
    \/ \E w \in ToSet(pendingToplevels) : w.toplevel = t

(***************************************************************************)
(* A session's window was opened by a client found in that session, or by  *)
(* the process or a descendant of it.                                      *)
(***************************************************************************)
WindowBelongsToSession ==
  \A e \in Entries :
    e.toplevel # NoToplevel =>
      LET w == windows[e.toplevel] IN
      w.session = e.session \/ e.pid = w.client \/ e.pid \in ToSet(Ancestry[w.client])

(***************************************************************************)
(* A full registry never drops a process that is running.                  *)
(***************************************************************************)
RunningEntriesStay ==
  [][\A p \in Pid :
       IsProcessRegisteredRunning(p) =>
         \E i \in DOMAIN registry' : registry'[i].pid = p]_registryVars

(***************************************************************************)
(* IsProcessRegisteredRunning answers for the process itself: once it has  *)
(* exited, the registry ends up saying so, whatever was still registering  *)
(* it.  (The launcher's waits for explorer and wineserver rely on it.)     *)
(***************************************************************************)
ExitIsRecorded ==
  \A p \in Pid : <>(os[p] = "exited") => <>[](~IsProcessRegisteredRunning(p))
=============================================================================
