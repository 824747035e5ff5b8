------------------------------ MODULE ZeroCopy ------------------------------
(***************************************************************************)
(* The zero-copy path of one window renderer (egl_renderer.cpp): a guest   *)
(* surface that presents through the virgl host is bound to an image of    *)
(* the renderer, and its shared-memory (SHM) frames are then neither sent  *)
(* nor composited.  Four parties take part, each with a record of its own: *)
(*                                                                         *)
(*   the renderer thread   which surface is bound, what it has published   *)
(*   the compositor        keys: surfaces whose SHM layer it leaves out    *)
(*   the guest             reads the ready marker before each frame, and   *)
(*                         sends SHM only when there is none               *)
(*   the virgl host        hosted: surfaces it knows, and attached ones    *)
(*                                                                         *)
(* The host may die, requests to it fail, and Stop reset what it and the   *)
(* broker know, while the renderer stays bound.  The guest lives outside   *)
(* src/; it presents by OpenGL or by Vulkan, and waits for the callback of *)
(* a commit before its next frame.  Frames are compared, never numbered.   *)
(* ZeroInit, ZeroNext, ... so that a module may extend GraphicsHost, too.  *)
(***************************************************************************)
EXTENDS Naturals

CONSTANTS
  Surface,       \* surface keys, (client pid, surface id)
  NoSurface,     \* no surface
  Direct,        \* surfaces whose commit serial is read from the surface itself: those
                 \* of toplevels; the others have a layer that holds pixels and serial
  Vulkan,        \* surfaces whose guest may present by Vulkan, too
  FailureLimit,  \* consecutive failed updates that start a fallback (8)
  MaxBaseline    \* bound: the commits a recreated surface may lag behind

ASSUME ZeroCopyAssumption ==
  /\ NoSurface \notin Surface /\ Direct \cup Vulkan \subseteq Surface
  /\ {FailureLimit, MaxBaseline} \subseteq Nat /\ FailureLimit > 0 /\ MaxBaseline > 0

VARIABLES
  \* the renderer
  at,        \* next step of the render loop
  bound,     \* zeroCopySurfaceKey_ while zeroCopyRegistered_
  image,     \* [avail, produced, ready, pending, failures] of the binding, its vulkan
             \* flag, and attached: it is in the broker's zeroCopyAttachedSurfaces_
  lag,       \* SHM commits the bound layer needs to pass the baseline, in a fallback
  \* the others
  keys,      \* zeroCopySurfaceKeys_
  started,   \* the broker: started_
  marker,    \* surfaces with a ready marker file
  hosted,    \* the host's entries: "unknown", "known", "attached"
  vulkan,    \* its entries with kSurfaceVulkan
  ahead,     \* surfaces the host lists before the bound one, while that has no frame
  alive,     \* surfaces whose wl_surface exists
  guest,     \* per surface: [at, skip], the frame being drawn
  \* history
  behind,    \* bound surface whose SHM content is older than the frame presented last
  stale,     \* bound surface whose SHM content is older than the GPU frame shown last
  renewed,   \* bound surface that was recreated since
  blind,     \* the fallback in progress could not read its baseline
  orphan     \* bound surface whose host was lost since

zeroVars == <<at, bound, image, lag, keys, started, marker, hosted, vulkan, ahead, alive, guest,
              behind, stale, renewed, blind, orphan>>

Unbound == [avail |-> FALSE, produced |-> FALSE, ready |-> FALSE, pending |-> FALSE, failures |-> 0,
            vulkan |-> FALSE, attached |-> FALSE]

ZeroInit ==
  /\ at = "attach" /\ bound = NoSurface /\ image = Unbound /\ lag = 0
  /\ keys = {} /\ started = TRUE /\ marker = {} /\ vulkan = {} /\ ahead = {}
  /\ hosted = [s \in Surface |-> "unknown"]
  /\ alive = Surface
  /\ guest = [s \in Surface |-> [at |-> "idle", skip |-> FALSE]]
  /\ behind = {} /\ stale = {} /\ renewed = {} /\ blind = FALSE /\ orphan = {}

\* GetZeroCopyLayerInfo may find a layer of the bound surface while that exists;
\* it need not: a window may be minimised or covered whenever it is looked for.
MayFind == bound \in alive
MayMiss == bound # NoSurface

\* QueryZeroCopySurfaces: the unattached candidates the renderer may bind.  The
\* host lists none that has not presented for 2 s: each may be missing, too.
Candidate == {s \in alive : hosted[s] = "known"}

others == <<started, vulkan, ahead, alive, guest, behind, renewed, orphan>>
history == <<behind, stale, renewed, blind, orphan>>

-----------------------------------------------------------------------------
\* Seeded fault: a release keeps the marker, the guest is not told.
BeginReleaseQuietly ==
  /\ at' = "release"
  /\ image' = [image EXCEPT !.ready = FALSE]
  /\ UNCHANGED <<bound, lag, keys, marker, hosted, stale, blind>>
\* ReleaseZeroCopyBinding begins: the marker goes first, then the compositor
\* key, the target, the binding.
BeginRelease ==
  /\ at' = "release"
  /\ marker' = marker \ {bound}
  /\ image' = [image EXCEPT !.ready = FALSE]
  /\ UNCHANGED <<bound, lag, keys, hosted, stale, blind>>

\* The host is asked to detach if the broker still counts the surface as
\* attached; whether it did so is not looked at.
EndRelease ==
  /\ at = "release"
  /\ at' = "attach"
  /\ keys' = keys \ {bound}
  /\ \/ /\ image.attached
        /\ hosted' = [hosted EXCEPT ![bound] = "unknown"]
        /\ vulkan' = vulkan \ {bound}
     \/ UNCHANGED <<hosted, vulkan>>
  /\ bound' = NoSurface /\ image' = Unbound /\ lag' = 0 /\ blind' = FALSE /\ ahead' = {}
  /\ behind' = behind \ {bound} /\ stale' = stale \ {bound}
  /\ renewed' = renewed \ {bound} /\ orphan' = orphan \ {bound}
  /\ UNCHANGED <<started, marker, alive, guest>>

\* Seeded fault: the compositor key is given up without waiting for SHM.
CheckBindingImpatient ==
  /\ at = "attach"
  /\ \/ MayMiss /\ BeginRelease
     \/ /\ bound = NoSurface \/ MayFind
        /\ at' = "poll"
        /\ IF image.pending
           THEN /\ keys' = keys \ {bound}
                /\ image' = [image EXCEPT !.pending = FALSE]
                /\ blind' = FALSE
           ELSE UNCHANGED <<keys, image, blind>>
        /\ UNCHANGED <<bound, lag, marker, hosted, stale>>
  /\ UNCHANGED others
\* TryAttachZeroCopySurface, first part: the layer of the binding is looked
\* up; a fallback ends when an SHM frame newer than its baseline is there.
CheckBinding ==
  /\ at = "attach"
  /\ \/ MayMiss /\ BeginRelease
     \/ /\ bound = NoSurface \/ MayFind
        /\ at' = "poll"
        /\ IF image.pending /\ lag = 0
           THEN /\ keys' = keys \ {bound}
                /\ image' = [image EXCEPT !.pending = FALSE]
                /\ blind' = FALSE
           ELSE UNCHANGED <<keys, image, blind>>
        /\ UNCHANGED <<bound, lag, marker, hosted, stale>>
  /\ UNCHANGED others

\* Second part, when the host is not asked (10 times a second), does not
\* answer, or offers nothing that can be bound.
Keep ==
  /\ at = "poll"
  /\ at' = "update"
  /\ UNCHANGED <<bound, image, lag, keys, marker, hosted, stale, blind>>
  /\ UNCHANGED others

\* A binding that never delivered a frame yields to a surface that presented
\* after it, and any binding is given up when the host knows its surface as one
\* of the other API.  The code binds a surface in the same call; here the next
\* round of the loop may bind any candidate.
Promote ==
  /\ at = "poll" /\ bound # NoSurface /\ hosted[bound] # "unknown"
  /\ \/ image.vulkan # (bound \in vulkan)
     \/ ~image.produced /\ ahead \cap Candidate # {}
  /\ BeginRelease
  /\ UNCHANGED others

\* Nothing is bound: a candidate is given an image, the host its window.  Its
\* API is the one the host answered; a frame may have changed it since.
Attach(s) ==
  /\ at = "poll" /\ bound = NoSurface /\ s \in Candidate /\ started
  /\ at' = "update"
  /\ \E v \in BOOLEAN :
       /\ v => s \in Vulkan
       /\ vulkan' = IF v THEN vulkan \cup {s} ELSE vulkan \ {s}
       /\ \/ /\ bound' = s /\ image' = [Unbound EXCEPT !.vulkan = v, !.attached = TRUE]
             /\ ahead' \in SUBSET (Candidate \ {s})  \* that had no layer so far
          \/ UNCHANGED <<bound, image, ahead>>        \* the host's answer is lost
  /\ hosted' = [hosted EXCEPT ![s] = "attached"]
  /\ UNCHANGED <<lag, keys, marker, stale, blind>>
  /\ UNCHANGED <<started, alive, guest, behind, renewed, orphan>>

-----------------------------------------------------------------------------
\* UpdateZeroCopyFrame.
NoFrame ==
  /\ at = "update" /\ ~image.avail
  /\ at' = "attach"
  /\ UNCHANGED <<bound, image, lag, keys, marker, hosted, stale, blind>>
  /\ UNCHANGED others

\* Failures count while the guest is told: nothing else looks at them, and a
\* success, which resets them, comes before it is told again.
Failed == [image EXCEPT !.avail = FALSE,
                        !.failures = IF image.ready /\ @ < FailureLimit THEN @ + 1 ELSE @]

UpdateFails ==
  /\ at = "update" /\ image.avail
  /\ image' = Failed
  /\ IF image.ready /\ ~image.pending /\ Failed.failures = FailureLimit
     THEN /\ at' = "revoke"
          /\ \/ MayFind /\ lag' = 1 /\ blind' = FALSE
             \/ MayMiss /\ lag' \in 0..MaxBaseline /\ blind' = TRUE  \* one of before
     ELSE /\ at' = "attach"
          /\ UNCHANGED <<lag, blind>>
  /\ UNCHANGED <<bound, keys, marker, hosted, stale>>
  /\ UNCHANGED others

\* UnpublishZeroCopyReady: the guest is to send SHM again.
Revoke ==
  /\ at = "revoke"
  /\ at' = "attach"
  /\ marker' = marker \ {bound}
  /\ image' = [image EXCEPT !.ready = FALSE, !.pending = TRUE, !.failures = 0]
  /\ UNCHANGED <<bound, lag, keys, hosted, stale, blind>>
  /\ UNCHANGED others

\* A new image: a fallback is cancelled, the compositor told to leave the
\* surface out (PublishZeroCopyActive, first half).
UpdateSucceeds ==
  /\ at = "update" /\ image.avail
  /\ \/ /\ MayFind
        /\ image' = [image EXCEPT !.avail = FALSE, !.produced = TRUE, !.pending = FALSE,
                                  !.failures = 0]
        /\ keys' = IF image.ready THEN keys ELSE keys \cup {bound}
        /\ at' = IF image.ready THEN "attach" ELSE "announce"
        /\ stale' = IF bound \in behind THEN stale \cup {bound} ELSE stale
        /\ lag' = 0 /\ blind' = FALSE /\ ahead' = {}
        /\ UNCHANGED <<bound, marker, hosted>>
     \/ MayMiss /\ BeginRelease /\ UNCHANGED ahead
  /\ UNCHANGED <<started, vulkan, alive, guest, behind, renewed, orphan>>

\* Its second half: the guest is told.
Announce ==
  /\ at = "announce"
  /\ at' = "attach"
  /\ marker' = marker \cup {bound}
  /\ image' = [image EXCEPT !.ready = TRUE]
  /\ UNCHANGED <<bound, lag, keys, hosted, stale, blind>>
  /\ UNCHANGED others

-----------------------------------------------------------------------------
\* The guest begins a frame: with a marker it will not send SHM.
BeginFrame(s) ==
  /\ guest[s].at = "idle" /\ s \in alive
  /\ guest' = [guest EXCEPT ![s] = [at |-> "present", skip |-> s \in marker]]
  /\ UNCHANGED <<at, bound, image, lag, keys, started, marker, hosted, vulkan, ahead, alive>>
  /\ UNCHANGED history

\* After a frame: what the guest sends besides.  With Vulkan there may be no
\* SHM commit at all.
Ends(s, steps) ==
  \E next \in steps : guest' = [guest EXCEPT ![s] = [at |-> next, skip |-> @.skip /\ next = "wait"]]
AfterGl(s) == {IF guest[s].skip THEN "idle" ELSE "commit"}
AfterVulkan(s) == {"idle"} \cup AfterGl(s)

\* The frame reaches the target of the binding, if the host has it.
Shown(s) ==
  IF hosted[s] = "attached" /\ bound = s
  THEN image' = [image EXCEPT !.avail = TRUE] /\ behind' = behind \cup {s}
  ELSE UNCHANGED <<image, behind>>

\* The host lists first what presented last.
Overtakes(s) ==
  IF bound = NoSurface \/ image.produced THEN {}
  ELSE IF s = bound THEN {} ELSE ahead \cup {s}

Noted(s) == hosted' = IF hosted[s] = "unknown" THEN [hosted EXCEPT ![s] = "known"] ELSE hosted

\* The host is given an OpenGL frame; without a target it only learns of the
\* surface, one that presents by Vulkan it refuses.
Present(s) ==
  /\ guest[s].at = "present"
  /\ Ends(s, AfterGl(s))
  /\ IF s \in vulkan
     THEN UNCHANGED <<hosted, ahead, image, behind>>
     ELSE Noted(s) /\ ahead' = Overtakes(s) /\ Shown(s)
  /\ UNCHANGED <<at, bound, lag, keys, started, marker, vulkan, alive, stale, renewed,
                 blind, orphan>>

\* A Vulkan frame waits for its target where there is none.
PresentVenus(s) ==
  /\ guest[s].at = "present" /\ s \in Vulkan
  /\ IF hosted[s] = "attached" /\ s \notin vulkan
     THEN Ends(s, AfterVulkan(s)) /\ UNCHANGED <<hosted, vulkan, ahead, image, behind>>
     ELSE /\ Noted(s) /\ ahead' = Overtakes(s) /\ vulkan' = vulkan \cup {s} /\ Shown(s)
          /\ Ends(s, IF hosted[s] = "attached" THEN AfterVulkan(s) ELSE {"wait"})
  /\ UNCHANGED <<at, bound, lag, keys, started, marker, alive, stale, renewed, blind, orphan>>

\* The target is there, or the surface was detached, or the time is up.
VenusWaitEnds(s) ==
  /\ guest[s].at = "wait"
  /\ Ends(s, AfterVulkan(s))
  /\ IF s \in vulkan THEN Shown(s) ELSE UNCHANGED <<image, behind>>
  /\ UNCHANGED <<at, bound, lag, keys, started, marker, hosted, vulkan, ahead, alive, stale, renewed,
                 blind, orphan>>

Passed(s) == IF s = bound /\ lag > 0 THEN lag - 1 ELSE lag

\* wl_surface.commit of the SHM buffer counts the commit first ...
CountCommit(s) ==
  /\ guest[s].at = "commit"
  /\ guest' = [guest EXCEPT ![s].at = "store"]
  /\ lag' = IF s \in Direct THEN Passed(s) ELSE lag
  /\ UNCHANGED <<at, bound, image, keys, started, marker, hosted, vulkan, ahead, alive>>
  /\ UNCHANGED history

\* Seeded fault: a layer keeps the serial of its first commit.
StoreUncounted(s) ==
  /\ guest[s].at = "store"
  /\ guest' = [guest EXCEPT ![s].at = "idle"]
  /\ behind' = behind \ {s} /\ stale' = stale \ {s}
  /\ UNCHANGED <<at, bound, image, lag, keys, started, marker, hosted, vulkan, ahead, alive, renewed,
                 blind, orphan>>
\* ... and then, under the lock of the tables, copies the pixels, into a layer
\* together with the serial.
StoreCommit(s) ==
  /\ guest[s].at = "store"
  /\ guest' = [guest EXCEPT ![s].at = "idle"]
  /\ lag' = IF s \in Direct THEN lag ELSE Passed(s)
  /\ behind' = behind \ {s} /\ stale' = stale \ {s}
  /\ UNCHANGED <<at, bound, image, keys, started, marker, hosted, vulkan, ahead, alive, renewed,
                 blind, orphan>>

-----------------------------------------------------------------------------
NoEntries == [s \in Surface |-> "unknown"]
Orphans == orphan \cup ({bound} \ {NoSurface})

\* The host dies, and one that is started later knows nothing: markers, the
\* broker's attachments and the renderer stay as they are.
HostDies ==
  /\ hosted' = NoEntries /\ vulkan' = {} /\ orphan' = Orphans
  /\ UNCHANGED <<at, bound, image, lag, keys, started, marker, ahead, alive, guest>>
  /\ UNCHANGED <<behind, stale, renewed, blind>>

\* Stop, ShutdownVirglIpc or the reset of the thread: the markers of attached
\* surfaces are removed; the host forgets them, unless the request failed.
StopResets ==
  /\ started
  /\ started' = FALSE
  /\ marker' = IF image.attached THEN marker \ {bound} ELSE marker
  /\ image' = [image EXCEPT !.attached = FALSE]
  /\ \/ hosted' = NoEntries /\ vulkan' = {} /\ orphan' = Orphans
     \/ UNCHANGED <<hosted, vulkan, orphan>>
  /\ UNCHANGED <<at, bound, lag, keys, ahead, alive, guest, behind, stale, renewed, blind>>

\* EnsureStarted: RemoveStaleZeroCopyMarkers.
StartClears ==
  /\ ~started
  /\ started' = TRUE
  /\ marker' = {}
  /\ UNCHANGED <<at, bound, image, lag, keys, hosted, vulkan, ahead, alive, guest>>
  /\ UNCHANGED history

\* The wl_surface is destroyed: key and layer go with it.
Destroy(s) ==
  /\ s \in alive /\ guest[s].at = "idle"
  /\ alive' = alive \ {s}
  /\ keys' = keys \ {s}
  /\ behind' = behind \ {s} /\ stale' = stale \ {s}
  /\ UNCHANGED <<at, bound, image, lag, started, marker, hosted, vulkan, ahead, guest, renewed,
                 blind, orphan>>

\* A new surface under the old id: its commits are counted from 0, so it may
\* lag behind the baseline by as many as the old one had.
Recreate(s) ==
  /\ s \notin alive
  /\ alive' = alive \cup {s}
  /\ renewed' = renewed \cup ({s} \cap {bound})
  /\ IF s = bound /\ (image.pending \/ at = "revoke") THEN lag' \in 1..MaxBaseline ELSE lag' = lag
  /\ UNCHANGED <<at, bound, image, keys, started, marker, hosted, vulkan, ahead, guest, behind, stale,
                 blind, orphan>>

-----------------------------------------------------------------------------
RenderStep ==
  \/ EndRelease \/ CheckBinding \/ Keep \/ Promote \/ (\E s \in Surface : Attach(s))
  \/ NoFrame \/ UpdateFails \/ Revoke \/ UpdateSucceeds \/ Announce

GuestStep(s) == BeginFrame(s) \/ Present(s) \/ PresentVenus(s) \/ VenusWaitEnds(s)
CommitStep(s) == CountCommit(s) \/ StoreCommit(s)
HostStops == HostDies \/ StopResets \/ StartClears

ZeroNext ==
  \/ RenderStep
  \/ \E s \in Surface : GuestStep(s) \/ CommitStep(s) \/ Destroy(s) \/ Recreate(s)
  \/ HostStops

ZeroSpec == ZeroInit /\ [][ZeroNext]_zeroVars

(***************************************************************************)
(* The render loop runs on and the event loop handles the commits it gets; *)
(* nothing is assumed of guests, hosts or users.                           *)
(***************************************************************************)
ZeroFairSpec ==
  /\ ZeroSpec
  /\ WF_zeroVars(RenderStep)
  /\ \A s \in Surface : WF_zeroVars(CommitStep(s))

-----------------------------------------------------------------------------
Image == [avail : BOOLEAN, produced : BOOLEAN, ready : BOOLEAN, pending : BOOLEAN,
          failures : 0..FailureLimit, vulkan : BOOLEAN, attached : BOOLEAN]
ZeroTypeOK ==
  /\ at \in {"attach", "poll", "update", "revoke", "announce", "release"}
  /\ bound \in Surface \cup {NoSurface}
  /\ image \in Image
  /\ lag \in 0..MaxBaseline
  /\ ahead \cup alive \cup keys \cup marker \cup vulkan \subseteq Surface
  /\ behind \cup stale \cup renewed \cup orphan \subseteq Surface
  /\ hosted \in [Surface -> {"unknown", "known", "attached"}]
  /\ guest \in [Surface -> [at : {"idle", "present", "wait", "commit", "store"}, skip : BOOLEAN]]
  /\ {started, blind} \subseteq BOOLEAN

\* A fallback ends: the compositor shows the SHM content of the bound surface.
Uncovers == bound' = bound /\ bound # NoSurface /\ bound \in keys \ keys' /\ bound \in alive'

(***************************************************************************)
(* Comment at egl_renderer.cpp:466: the key is taken from the compositor   *)
(* only when a new SHM frame is there, so that no frame from before the    *)
(* GPU ones is composited.  A fallback brings such a frame back only if    *)
(* the serial is read from the surface itself, and then only for the       *)
(* moment between the count of a new frame and its copy.                   *)
(***************************************************************************)
FallbackShowsNewFrame ==
  [][Uncovers /\ ~blind /\ bound \in stale
       => bound \in Direct /\ guest[bound].at = "store"]_zeroVars

(***************************************************************************)
(* No fallback that has a baseline ever brings an old frame back.          *)
(***************************************************************************)
CountedFrameIsStored == [][Uncovers /\ ~blind => bound \notin stale]_zeroVars

(***************************************************************************)
(* The same of every fallback, those without a baseline included.          *)
(***************************************************************************)
EveryFallbackShowsNewFrame == [][Uncovers => bound \notin stale]_zeroVars

(***************************************************************************)
(* The compositor is told before the guest and the guest before the        *)
(* compositor: while a guest sees a marker, the renderer is bound to its   *)
(* surface, its layer is left out, unless the surface was recreated, and   *)
(* the host has a target for its frames, unless that host has died or been *)
(* reset since.  And only the bound surface is ever left out.              *)
(***************************************************************************)
SilentGuestIsShown ==
  /\ \A s \in marker : /\ bound = s
                       /\ hosted[s] = "attached" \/ s \in orphan
                       /\ s \notin alive \/ s \in renewed \/ s \in keys
  /\ keys \subseteq {bound}

\* The bindings are well formed (the fields of EglRenderer).
BindingIsSound == ZeroTypeOK /\ SilentGuestIsShown

(***************************************************************************)
(* A silent guest is shown even if the host dies or is reset: its frames   *)
(* have a target as long as it sees a marker.                              *)
(***************************************************************************)
SilentGuestHasHost == \A s \in marker : hosted[s] = "attached"

(***************************************************************************)
(* A fallback ends, by SHM frames, by recovery or with the binding, if the *)
(* guest goes on to commit SHM frames and its surface is not replaced.     *)
(***************************************************************************)
FallbackEnds ==
  <>[](bound \in alive) /\ []<>(bound # NoSurface /\ guest[bound].at = "commit")
    => []<>~image.pending
=============================================================================
