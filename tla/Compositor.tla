----------------------------- MODULE Compositor -----------------------------
(***************************************************************************)
(* The window tables of the Wayland compositor in desktop mode             *)
(* (wayland_server.cpp, wl_core.cpp, xdg_shell.cpp, compositor/): which    *)
(* windows have an entry, their z-order, the full-screen priority, the     *)
(* desktop root, the task bar and the interactive move.                    *)
(*                                                                         *)
(* Three threads use the tables under one non-recursive mutex:             *)
(*   loop    the Wayland event loop: the requests of the Wine clients, the *)
(*           input events; a request may take the mutex several times      *)
(*   ui      ArkTS: raises and restores windows, stops the server          *)
(*   launch  recognises the desktop root (single sections, no state)       *)
(*                                                                         *)
(* Priorities are kept as the order of the windows that have a number.  Of *)
(* the positions only one thing is kept: whether a full-screen window is   *)
(* away from the origin.  The position a client commits is its own choice, *)
(* and so is whether it differs from the one it committed before.          *)
(***************************************************************************)
EXTENDS Naturals, Sequences, SequencesExt

CONSTANTS
  Window,   \* toplevel ids, each handed out once
  Apps,     \* the app ids the windows may have, as functions to Kind
  Screen,   \* bound: the kinds of windows that ask for the full screen
  None      \* no window (id 0), no owner of the mutex

Kind == {"shell", "bar", "program"}    \* the app id: desktop shell, task bar, other

Thread == {"loop", "ui"}

ASSUME CompositorAssumption ==
  None \notin Window \cup Thread /\ Apps \subseteq [Window -> Kind] /\ Screen \subseteq Kind

VARIABLES
  \* the clients
  surface,      \* per window: "unborn", "live", "bare" (role destroyed), "again",
                \* "killed" (its last frames are still to come), "gone"
  kind,         \* its app id
  \* ToplevelManager
  known,        \* windows with an entry in toplevels_
  win,          \* the entry: [shown, minimized, background, fullscreen, astray]
  zorder,       \* toplevelZOrder_, bottom first
  numbered,     \* windows with a full-screen priority, lowest first
  mutex,        \* owner of toplevelMutex_ where a thread keeps it between steps
  \* WaylandServer
  root, pending, taskbar, recognition,
  grab,         \* the window being moved
  session,      \* "up", "stopping"
  pc,           \* per thread: [at, of], the rest of a request of several sections
  todo,         \* windows DestroyAllToplevels has still to take down
  \* history
  entered,      \* windows in the order of their first entry into the z-order
  chosen,       \* windows the user raised while they were full screen
  former        \* windows that were the desktop root and have been replaced

clients == <<surface, kind>>
tables == <<known, win, zorder, numbered, mutex, entered, chosen>>
roots == <<root, pending, taskbar, recognition, former>>
server == <<session, todo>>
vars == <<clients, tables, roots, grab, server, pc>>

Fresh == [shown |-> FALSE, minimized |-> FALSE, background |-> FALSE,
          fullscreen |-> FALSE, astray |-> FALSE]
Idle == [at |-> "idle", of |-> None]

Init ==
  /\ surface = [w \in Window |-> "unborn"] /\ kind \in Apps
  /\ known = {} /\ win = [w \in Window |-> Fresh] /\ zorder = <<>> /\ numbered = <<>>
  /\ mutex = None
  /\ root = None /\ pending = None /\ taskbar = None /\ recognition = TRUE
  /\ grab = None
  /\ session = "up" /\ pc = [t \in Thread |-> Idle] /\ todo = {}
  /\ entered = <<>> /\ chosen = {} /\ former = {}

\* The mutex is free, and the thread is between two requests.
Free(t) == mutex = None /\ pc[t] = Idle
OnLoop == Free("loop")
OnUi == session # "stopping" /\ Free("ui")

\* IsToplevelVisibleLocked; an entry has a frame from its first commit on.
Visible(w) == /\ w # root /\ w \in known
              /\ win[w].shown /\ ~win[w].background /\ ~win[w].minimized

\* PickFullscreenToplevelLocked: the visible full-screen window with the
\* highest priority, used for drawing and for input.
Rank(w, order) == IF w \in ToSet(order) THEN CHOOSE i \in DOMAIN order : order[i] = w ELSE 0
FullScreen == {w \in ToSet(zorder) : Visible(w) /\ win[w].fullscreen}
Picked == IF FullScreen = {} THEN None
         ELSE CHOOSE w \in FullScreen : \A v \in FullScreen : Rank(v, numbered) <= Rank(w, numbered)

-----------------------------------------------------------------------------
\* Seeded fault: the window gets a new number each time it is put on top.
TakeNumberAlways(w, order) == Append(RemoveFirst(order, w), w)
\* AddToZOrder, the priority: a window that has no number yet gets the next.
TakeNumber(w, order) == IF w \in ToSet(order) THEN order ELSE Append(order, w)

\* History: the first entry of a window into the z-order.
Enter(w, order) == IF w \in ToSet(order) THEN order ELSE Append(order, w)

\* Ensure the entry of w and change it.
Set(w, entry) ==
  /\ known' = known \cup {w}
  /\ win' = [win EXCEPT ![w] = entry]

\* Seeded fault: the window is put on top without being taken out first.
OnTopAgain(w, order) == Append(order, w)
\* RemoveFromZOrder takes out one occurrence, AddToZOrder appends.
OnTop(w, order) == Append(RemoveFirst(order, w), w)

\* RaiseToplevel: the window goes on top, and the task bar above it unless the
\* window is full screen.  A full-screen window the user raises gets a new
\* number.  Both are given an entry when they have none.
Raise(w, byUser) ==
  LET bump == byUser /\ win[w].fullscreen
      pin == taskbar \notin {None, w} /\ ~win[w].fullscreen
      once == TakeNumber(w, numbered)
  IN /\ zorder' = IF pin THEN OnTop(taskbar, OnTop(w, zorder)) ELSE OnTop(w, zorder)
     /\ numbered' = CASE bump -> Append(RemoveFirst(once, w), w)
                       [] pin -> TakeNumber(taskbar, once)
                       [] OTHER -> once
     /\ entered' = IF pin THEN Enter(taskbar, Enter(w, entered)) ELSE Enter(w, entered)
     /\ known' = known \cup {w} \cup (IF pin THEN {taskbar} ELSE {})
     /\ chosen' = IF bump THEN chosen \cup {w} ELSE chosen

-----------------------------------------------------------------------------
\* xs_get_toplevel: a new id, or the surface keeps the one it had.
GetToplevel(w) ==
  /\ OnLoop
  /\ \/ session = "up" /\ surface[w] = "unborn" /\ surface' = [surface EXCEPT ![w] = "live"]
     \/ surface[w] = "bare" /\ surface' = [surface EXCEPT ![w] = "again"]
  /\ UNCHANGED <<kind, tables, roots, grab, server, pc>>

\* The client of w may still have requests for its xdg_toplevel in the queue.
Asks(w) == surface[w] \in {"live", "again", "killed"}

\* Where a commit puts the window: the position Wine gave last, or another one.
Place == {"same", "origin", "away"}

\* UpdateToplevelFrameOnCommit: a frame of the window is stored, its role may
\* be destroyed (hasToplevel stays TRUE).  A large one
\* brings a minimized window back; the first one gives the position, a later
\* one moves the window where Wine's position changed, unless it is
\* the one that brings it back.  The window joins the z-order.
Commit(w, to, large) ==
  LET e == win[w]
      first == ~e.shown
      back == e.minimized /\ large
  IN /\ OnLoop /\ (Asks(w) \/ surface[w] = "bare")
     /\ Set(w, [e EXCEPT !.shown = TRUE, !.minimized = @ /\ ~large,
                         !.astray = IF first \/ (to # "same" /\ ~back)
                                    THEN e.fullscreen /\ to = "away" ELSE @])
     /\ IF w # root /\ w \notin ToSet(zorder)
        THEN /\ zorder' = Append(zorder, w)
             /\ numbered' = TakeNumber(w, numbered) /\ entered' = Enter(w, entered)
        ELSE UNCHANGED <<zorder, numbered, entered>>
     /\ IF w # root /\ (kind[w] = "bar" \/ (kind[w] = "shell" /\ first))
        THEN pc' = [pc EXCEPT !["loop"] = [at |-> "rooting", of |-> w]]
        ELSE UNCHANGED pc
     /\ UNCHANGED <<clients, mutex, chosen, roots, grab, server>>

\* CheckDesktopRootOnCommit, after the mutex was given up: the task bar
\* registers itself, without the mutex.
RegisterTaskbar ==
  LET w == pc["loop"].of
  IN /\ pc["loop"].at = "rooting" /\ kind[w] = "bar"
     /\ taskbar' = w
     /\ pc' = [pc EXCEPT !["loop"] = Idle]
     /\ UNCHANGED <<clients, tables, root, pending, recognition, former, grab, server>>

Background(w, on) == Set(w, [win[w] EXCEPT !.background = on])

\* CheckRootLocked on the first frame of a desktop shell.  One without a title
\* is a helper and hidden; while recognition is off it is kept in waiting;
\* another one in waiting goes first; otherwise it is the root, and the root
\* it replaces is hidden.
CheckRoot(titled) ==
  LET w == pc["loop"].of
  IN /\ pc["loop"].at = "rooting" /\ kind[w] = "shell" /\ mutex = None
     /\ pc' = [pc EXCEPT !["loop"] = Idle]
     /\ CASE ~titled -> Background(w, TRUE) /\ UNCHANGED <<root, pending, former>>
          [] titled /\ ~recognition ->
               Background(w, FALSE) /\ pending' = w /\ UNCHANGED <<root, former>>
          [] titled /\ recognition /\ root = None /\ pending \notin {None, w} ->
               Background(w, TRUE) /\ UNCHANGED <<root, pending, former>>
          [] titled /\ recognition /\ root = None /\ pending \in {None, w} ->
               root' = w /\ pending' = None /\ former' = former \ {w} /\ UNCHANGED <<known, win>>
          [] titled /\ recognition /\ root # None ->
               /\ Background(root, TRUE)
               /\ root' = w /\ former' = (former \cup {root}) \ {w} /\ UNCHANGED pending
     /\ UNCHANGED <<clients, zorder, numbered, mutex, entered, chosen, taskbar, recognition, grab, server>>

-----------------------------------------------------------------------------
\* tl_move: a window with a registered xdg_toplevel starts an interactive move.
StartGrab(w) ==
  /\ OnLoop /\ surface[w] \in {"live", "killed"}
  /\ grab' = w
  /\ UNCHANGED <<clients, tables, roots, server, pc>>

\* A pointer motion during the move puts the window where the pointer is.
GrabMotion(origin) ==
  /\ OnLoop /\ grab \in known /\ win[grab].shown
  /\ Set(grab, [win[grab] EXCEPT !.astray = win[grab].fullscreen /\ ~origin])
  /\ UNCHANGED <<clients, zorder, numbered, mutex, entered, chosen, roots, grab, server, pc>>

\* The pointer button is released, or (StopClient, on the ui thread) the
\* programs have been killed.
EndGrab ==
  /\ OnLoop \/ OnUi
  /\ grab # None /\ grab' = None
  /\ UNCHANGED <<clients, tables, roots, server, pc>>

\* tl_set_minimized.
SetMinimized(w) ==
  /\ OnLoop /\ Asks(w)
  /\ Set(w, [win[w] EXCEPT !.minimized = TRUE])
  /\ UNCHANGED <<clients, zorder, numbered, mutex, entered, chosen, roots, grab, server, pc>>

\* tl_set_maximized brings a minimized window back first; tl_set_max_size with
\* the size of the work area, which Wine sends instead, changes only the
\* position.
SetMaximized(w) ==
  /\ OnLoop /\ Asks(w) /\ win[w].minimized /\ ~win[w].fullscreen
  /\ Set(w, [win[w] EXCEPT !.minimized = FALSE])
  /\ UNCHANGED <<clients, zorder, numbered, mutex, entered, chosen, roots, grab, server, pc>>

\* The request about w goes on with another section.
Continue(at, w) == pc' = [pc EXCEPT !["loop"] = [at |-> at, of |-> w]]

\* tl_set_fullscreen takes the mutex for each of its calls: the window is
\* brought back (nothing but this thread minimizes one), ...
SetFullscreen(w) ==
  /\ OnLoop /\ Asks(w) /\ kind[w] \in Screen
  /\ win' = [win EXCEPT ![w].minimized = FALSE]
  /\ Continue("looking", w)
  /\ UNCHANGED <<clients, known, zorder, numbered, mutex, entered, chosen, roots, grab, server>>

\* ... nothing more is done if it is full screen already, ...
LookFullscreen ==
  LET w == pc["loop"].of
  IN /\ pc["loop"].at = "looking" /\ mutex = None
     /\ IF win[w].fullscreen THEN pc' = [pc EXCEPT !["loop"] = Idle] ELSE Continue("filling", w)
     /\ UNCHANGED <<clients, tables, roots, grab, server>>

\* ... SetToplevelFullscreen gives it an entry and anchors it at the origin, ...
Fill ==
  LET w == pc["loop"].of
  IN /\ pc["loop"].at = "filling" /\ mutex = None
     /\ Set(w, [win[w] EXCEPT !.fullscreen = TRUE, !.astray = FALSE])
     /\ Continue("raising", w)
     /\ UNCHANGED <<clients, zorder, numbered, mutex, entered, chosen, roots, grab, server>>

\* ... and it is raised.
RaiseFullscreen ==
  /\ pc["loop"].at = "raising" /\ mutex = None
  /\ Raise(pc["loop"].of, FALSE)
  /\ pc' = [pc EXCEPT !["loop"] = Idle]
  /\ UNCHANGED <<clients, win, mutex, roots, grab, server>>

\* tl_unset_fullscreen: a window that is full screen is not any more after
\* another section, which gives it an entry if it was taken down meanwhile.
UnsetFullscreen(w) ==
  /\ OnLoop /\ Asks(w) /\ win[w].fullscreen
  /\ Continue("leaving", w)
  /\ UNCHANGED <<clients, tables, roots, grab, server>>

Leave ==
  LET w == pc["loop"].of
  IN /\ pc["loop"].at = "leaving" /\ mutex = None
     /\ Set(w, [win[w] EXCEPT !.fullscreen = FALSE, !.astray = FALSE])
     /\ pc' = [pc EXCEPT !["loop"] = Idle]
     /\ UNCHANGED <<clients, zorder, numbered, mutex, entered, chosen, roots, grab, server>>

-----------------------------------------------------------------------------
\* OnToplevelDestroyed, under the mutex: the entry and every reference to the
\* window go.  If it is being moved, EndMoveGrab is called with the mutex held
\* and takes it again: that call does not come back.  The root's end resets the
\* session afterwards.
Destroyed(t, w) ==
  /\ mutex = None
  /\ known' = known \ {w} /\ win' = [win EXCEPT ![w] = Fresh]
  /\ numbered' = RemoveFirst(numbered, w) /\ entered' = RemoveFirst(entered, w)
  /\ chosen' = chosen \ {w} /\ former' = former \ {w}
  /\ root' = IF root = w THEN None ELSE root
  /\ pending' = IF pending = w THEN None ELSE pending
  /\ taskbar' = IF taskbar = w THEN None ELSE taskbar
  /\ IF grab = w
     THEN /\ mutex' = t
          /\ pc' = [pc EXCEPT ![t] = [at |-> "locking", of |-> w]]
          /\ UNCHANGED zorder
     ELSE /\ zorder' = RemoveFirst(zorder, w)
          /\ pc' = IF root = w THEN [pc EXCEPT ![t] = [at |-> "resetting", of |-> w]] ELSE pc
          /\ UNCHANGED mutex
  /\ UNCHANGED <<recognition, grab>>

\* ResetSessionState, after the mutex was given up: an interactive move ends.
ResetSession(t) ==
  /\ pc[t].at = "resetting" /\ mutex = None
  /\ pc' = [pc EXCEPT ![t] = Idle] /\ grab' = None
  /\ UNCHANGED <<clients, tables, roots, server>>

\* xs_destroy: the window loses its role, the surface stays.
DestroyRole(w) ==
  /\ OnLoop /\ Asks(w)
  /\ surface' = [surface EXCEPT ![w] = "bare"]
  /\ Destroyed("loop", w)
  /\ UNCHANGED <<kind, server>>

\* surface_destroy; also a client that is gone, when its xdg_surface is freed
\* before its wl_surface (xs_resource_destroy).
DestroySurface(w) ==
  /\ OnLoop /\ surface[w] \in {"live", "again", "killed", "bare"}
  /\ surface' = [surface EXCEPT ![w] = "gone"]
  /\ Destroyed("loop", w)
  /\ UNCHANGED <<kind, server>>

\* A client that is gone, its wl_surface freed first: xs_resource_destroy reads
\* freed memory, and in this outcome finds no window there.
LoseSurface(w) ==
  /\ OnLoop /\ surface[w] \in {"live", "again", "killed", "bare"}
  /\ surface' = [surface EXCEPT ![w] = "gone"]
  /\ UNCHANGED <<kind, tables, roots, grab, server, pc>>

-----------------------------------------------------------------------------
\* ArkTS raises a window it was told of, which may be gone by now: RaiseToplevel
\* for the user, ActivateWineSession not.
RaiseByUser(w, byUser) ==
  /\ OnUi /\ surface[w] # "unborn"
  /\ Raise(w, byUser)
  /\ UNCHANGED <<clients, win, mutex, roots, grab, server, pc>>

\* SetToplevelRestored when a window is visible again.
RestoreByUser(w) ==
  /\ OnUi /\ w \in known
  /\ Set(w, [win[w] EXCEPT !.minimized = FALSE])
  /\ UNCHANGED <<clients, zorder, numbered, mutex, entered, chosen, roots, grab, server, pc>>

\* KillProcess, StopWineSession: the window of the killed program is taken down
\* at once, while frames it has sent may still wait for the loop.
KillProgram(w) ==
  /\ OnUi /\ surface[w] \in {"live", "again"}
  /\ surface' = [surface EXCEPT ![w] = "killed"]
  /\ Destroyed("ui", w)
  /\ UNCHANGED <<kind, server>>

\* The launch thread turns the recognition off for wineboot, on afterwards.
SetRecognition(on) ==
  /\ mutex = None /\ recognition = ~on /\ recognition' = on
  /\ UNCHANGED <<clients, tables, root, pending, taskbar, former, grab, server, pc>>

\* Seeded fault: the root that is replaced stays in sight.
PromoteKeepingOld ==
  LET w == pending
      usable == w \in known /\ win[w].shown /\ root # w
  IN /\ mutex = None /\ w # None
     /\ pending' = None
     /\ IF usable
        THEN /\ win' = [win EXCEPT ![w].background = FALSE]
             /\ root' = w /\ former' = (former \cup ({root} \ {None})) \ {w}
             /\ UNCHANGED known
        ELSE UNCHANGED <<known, win, root, former>>
     /\ UNCHANGED <<clients, zorder, numbered, mutex, entered, chosen, taskbar, recognition, grab, server, pc>>
\* PromotePending: the shell in waiting becomes the root, if it has a frame,
\* and the root it replaces is hidden.
Promote ==
  LET w == pending
      usable == w \in known /\ win[w].shown /\ root # w
      old == {root} \ {None}
  IN /\ mutex = None /\ w # None
     /\ pending' = None
     /\ IF usable
        THEN /\ known' = known \cup old
             /\ win' = [v \in Window |-> IF v = w THEN [win[v] EXCEPT !.background = FALSE]
                                         ELSE IF v \in old THEN [win[v] EXCEPT !.background = TRUE]
                                         ELSE win[v]]
             /\ root' = w /\ former' = (former \cup old) \ {w}
        ELSE UNCHANGED <<known, win, root, former>>
     /\ UNCHANGED <<clients, zorder, numbered, mutex, entered, chosen, taskbar, recognition, grab, server, pc>>

-----------------------------------------------------------------------------
\* Stop, on the ui thread: the loop is told to end, and DestroyAllToplevels
\* lists the windows, then takes them down one by one, in any order, while the
\* loop may still be handling requests.
Stop ==
  /\ session = "up" /\ Free("ui")
  /\ session' = "stopping" /\ todo' = known
  /\ UNCHANGED <<clients, tables, roots, grab, pc>>

TakeDown(w) ==
  /\ session = "stopping" /\ Free("ui") /\ w \in todo
  /\ todo' = todo \ {w}
  /\ Destroyed("ui", w)
  /\ UNCHANGED <<clients, session>>

\* The loop has ended after the dispatch in progress, Stop has joined it and
\* destroys the display; the tables stay.  The next engine start follows.
Restart ==
  /\ session = "stopping" /\ pc = [t \in Thread |-> Idle] /\ todo = {}
  /\ session' = "up"
  /\ surface' = [w \in Window |-> IF surface[w] = "unborn" THEN "unborn" ELSE "gone"]
  /\ UNCHANGED <<kind, tables, roots, grab, todo, pc>>

Next ==
  \/ \E w \in Window :
       \/ GetToplevel(w)
       \/ \E to \in Place, large \in BOOLEAN : Commit(w, to, large)
       \/ StartGrab(w) \/ SetMinimized(w) \/ SetMaximized(w)
       \/ SetFullscreen(w) \/ UnsetFullscreen(w)
       \/ DestroyRole(w) \/ DestroySurface(w) \/ LoseSurface(w)
       \/ \E byUser \in BOOLEAN : RaiseByUser(w, byUser)
       \/ RestoreByUser(w) \/ KillProgram(w) \/ TakeDown(w)
  \/ LookFullscreen \/ Fill \/ RaiseFullscreen \/ Leave
  \/ RegisterTaskbar \/ EndGrab \/ Promote
  \/ \E titled \in BOOLEAN : CheckRoot(titled)
  \/ \E origin \in BOOLEAN : GrabMotion(origin)
  \/ \E t \in Thread : ResetSession(t)
  \/ \E on \in BOOLEAN : SetRecognition(on)
  \/ Stop \/ Restart

Spec == Init /\ [][Next]_vars

-----------------------------------------------------------------------------
\* Every variable has its type (the class comment of ToplevelManager, the
\* fields of WaylandServer).
TypeOK ==
  /\ surface \in [Window -> {"unborn", "live", "bare", "again", "killed", "gone"}]
  /\ kind \in [Window -> Kind]
  /\ known \subseteq Window /\ chosen \subseteq Window /\ former \subseteq Window /\ todo \subseteq Window
  /\ win \in [Window -> [shown : BOOLEAN, minimized : BOOLEAN, background : BOOLEAN,
                         fullscreen : BOOLEAN, astray : BOOLEAN]]
  /\ zorder \in Seq(Window) /\ numbered \in Seq(Window) /\ entered \in Seq(Window)
  /\ mutex \in Thread \cup {None}
  /\ {root, pending, taskbar, grab} \subseteq Window \cup {None}
  /\ recognition \in BOOLEAN
  /\ session \in {"up", "stopping"}
  /\ pc \in [Thread -> [at : {"idle", "rooting", "looking", "filling",
                            "raising", "leaving", "locking", "resetting"}, of : Window \cup {None}]]

\* The tables are well formed: the z-order lists a window once and no window
\* that has no entry, whenever a thread may look.  A window taken out once
\* (RemoveFromZOrder removes one occurrence) is out, and drawing and hit
\* testing never meet a dead id.
TablesAreSound ==
  /\ TypeOK
  /\ mutex = None => /\ IsInjective(zorder)
                     /\ ToSet(zorder) \subseteq known

\* The full-screen window in front is the newest of those visible, unless the
\* user chose it: the old windows that Wine marks full screen when a game
\* switches the display mode do not cover the game, in whatever order the
\* requests, raises and frames come (ToplevelState, FsPriority).
NewestFullscreenIsInFront ==
  \A w \in FullScreen \ {Picked} : Picked \notin chosen => Rank(w, entered) < Rank(Picked, entered)

\* While the server is up, a living desktop that was replaced as the root is
\* out of sight, and the root and the shell in waiting are not.
OneDesktopInSight ==
  session = "up" => \A w \in known : surface[w] \in {"live", "again"} =>
    /\ w \in former => win[w].background
    /\ w \in {root, pending} => ~win[w].background

\* No thread waits for a mutex that it holds itself: when the window being
\* moved is destroyed, the move is reset and the event loop goes on
\* (wayland_server.cpp, OnToplevelDestroyed).
NoThreadWaitsForItself ==
  \A t \in Thread : ~(mutex = t /\ pc[t].at = "locking")

\* A full-screen window is anchored at the origin (the class comment of
\* ToplevelManager and the assertion in ApplyFullscreen).
FullscreenIsAnchored ==
  \A w \in known : win[w].fullscreen => ~win[w].astray

\* A stop leaves no window behind for the next session (the comment in Stop).
StopLeavesNothing ==
  [][session = "stopping" /\ session' = "up" => known = {} /\ zorder = <<>> /\ root = None]_vars
=============================================================================
