-------------------------- MODULE AppSessionsProofs --------------------------
(***************************************************************************)
(* For every set of taps, programs, prefix modes and engine moves: what    *)
(* the service remembers is sound, no launch waits for an engine that will *)
(* not come, and a card starts its program once.                           *)
(*                                                                         *)
(* The invariant says how the queue is kept: a launch that is under way    *)
(* holds its head, unless it was browsed, so no two of them can look for   *)
(* the same session; and a launch that found no session still finds none   *)
(* when it starts its process.                                             *)
(***************************************************************************)
EXTENDS AppSessions, TLAPS

Standing == [pc : {"idle", "queued", "deferred", "engine", "card", "root", "go"}, item : Item]
UnderWay == {"deferred", "engine", "card", "root", "go"}
Looked == {"deferred", "root", "go"}

AtHead(t, chain) == 1 \in DOMAIN chain /\ t = chain[1]

\* The queue holds each launch that was not browsed once; the one under way
\* is its head.
QueueHolds(now, chain) ==
  /\ now \in [Tap -> Standing]
  /\ chain \in Seq(Tap)
  /\ \A i, j \in DOMAIN chain : chain[i] = chain[j] => i = j
  /\ \A i \in DOMAIN chain : now[chain[i]].pc # "idle" /\ now[chain[i]].item \notin Browsed
  /\ \A t \in Tap : now[t].pc \in UnderWay /\ now[t].item \notin Browsed => AtHead(t, chain)
  /\ \A t \in Tap : now[t].pc \in {"deferred", "go"} => now[t].item \in App
  /\ \A t \in Tap : now[t].pc \in {"engine", "card"} => now[t].item = Desktop

\* No launch waits for what cannot come from an engine in this state.
WaitsEnd(now, state) ==
  \A t \in Tap : /\ now[t].pc = "deferred" => state \in Busy
                 /\ now[t].pc = "root" => state \notin Over

\* A launch that has looked for a session of its program still finds none.
FoundNone(now, known) ==
  \A t \in Tap : now[t].pc \in Looked /\ now[t].item \in App \ Browsed
                 => known[now[t].item] = 0

\* Each process has its session, unless a stop has just forgotten them.
CountsAgree(known, alive, halting) ==
  /\ alive \in [App -> 0 .. MaxCopies]
  /\ known \in [App -> 0 .. MaxCopies]
  /\ \A a \in App : known[a] <= alive[a]
  /\ ~halting => \A a \in App \ Browsed : alive[a] <= 1 /\ known[a] = alive[a]

EngineInv ==
  /\ engine \in EngineState
  /\ selected \in Prefix /\ applied \in Prefix
  /\ root \in BOOLEAN /\ desktop \in BOOLEAN /\ listening \in BOOLEAN /\ stopping \in BOOLEAN

IInv ==
  /\ EngineInv
  /\ QueueHolds(tap, launchChain)
  /\ WaitsEnd(tap, engine)
  /\ FoundNone(tap, sessions)
  /\ CountsAgree(sessions, running, stopping)

-----------------------------------------------------------------------------
\* Launches that hold the head of the queue, or none, may end.
MayEnd(S) == \A t \in S : t \in Tap /\ (tap[t].item \notin Browsed => AtHead(t, launchChain))

LEMMA HeadIsInProgress == \A t : t \in InProgress <=> AtHead(t, launchChain)
BY DEF InProgress, AtHead

\* The queue after launches have ended.
LEMMA EndKeepsQueue ==
  ASSUME NEW S, NEW now, QueueHolds(now, launchChain), MayEnd(S),
         \A t \in Tap : now[t].item = tap[t].item,
         End(S, now)
  PROVE  QueueHolds(tap', launchChain')
<1> DEFINE c == launchChain
<1>1. /\ now \in [Tap -> Standing] /\ c \in Seq(Tap)
      /\ \A i, j \in DOMAIN c : c[i] = c[j] => i = j
      /\ \A i \in DOMAIN c : now[c[i]].pc # "idle" /\ now[c[i]].item \notin Browsed
  BY DEF QueueHolds
<1>2. Idle \in Standing /\ Idle.pc = "idle" /\ Idle.item = Desktop
  BY DEF Idle, Standing, Item
<1>3. /\ tap' \in [Tap -> Standing]
      /\ \A t \in Tap \cap S : tap'[t] = Idle
      /\ \A t \in Tap \ S : tap'[t] = now[t]
  BY <1>1, <1>2 DEF End
<1>4. \A i \in DOMAIN c : c[i] \in Tap
  BY <1>1
<1>5. \A i \in DOMAIN c : c[i] \in S => i = 1
  <2> TAKE i \in DOMAIN c
  <2> HAVE c[i] \in S
  <2>1. c[i] \in Tap /\ tap[c[i]].item \notin Browsed
    BY <1>1, <1>4
  <2>2. AtHead(c[i], c)
    BY <2>1 DEF MayEnd
  <2> QED
    BY <2>2, <1>1 DEF AtHead
<1>6. \A t \in Tap : /\ tap'[t].pc \in {"deferred", "go"} => tap'[t].item \in App
                     /\ tap'[t].pc \in {"engine", "card"} => tap'[t].item = Desktop
  BY <1>2, <1>3 DEF QueueHolds
<1>7. \A t \in Tap : tap'[t].pc \in UnderWay /\ tap'[t].item \notin Browsed
                     => t \notin S /\ AtHead(t, c)
  BY <1>2, <1>3 DEF QueueHolds, UnderWay
<1>8. CASE InProgress \cap S = {}
  <2>1. launchChain' = c
    BY <1>8 DEF End
  <2>2. \A i \in DOMAIN c : c[i] \notin S
    BY <1>5, <1>8, HeadIsInProgress DEF AtHead
  <2>3. \A i \in DOMAIN c : tap'[c[i]].pc # "idle" /\ tap'[c[i]].item \notin Browsed
    BY <2>2, <1>1, <1>3, <1>4
  <2> QED
    BY <2>1, <2>3, <1>1, <1>3, <1>6, <1>7 DEF QueueHolds
<1>9. CASE InProgress \cap S # {}
  <2>1. launchChain' = Tail(c) /\ c # <<>> /\ c[1] \in S
    BY <1>9, <1>1, HeadIsInProgress DEF End, AtHead
  <2>2. /\ Tail(c) \in Seq(Tap)
        /\ \A i \in DOMAIN Tail(c) : i + 1 \in DOMAIN c /\ Tail(c)[i] = c[i + 1]
                                     /\ i + 1 # 1 /\ i \in Nat
    BY <2>1, <1>1
  <2>3. \A i, j \in DOMAIN Tail(c) : Tail(c)[i] = Tail(c)[j] => i = j
    BY <2>2, <1>1
  <2>4. \A i \in DOMAIN Tail(c) : Tail(c)[i] \in Tap \ S
    BY <2>2, <1>4, <1>5
  <2>5. \A i \in DOMAIN Tail(c) : /\ tap'[Tail(c)[i]].pc # "idle"
                                  /\ tap'[Tail(c)[i]].item \notin Browsed
    BY <2>2, <2>4, <1>1, <1>3
  <2>6. \A t \in Tap : ~(tap'[t].pc \in UnderWay /\ tap'[t].item \notin Browsed)
    BY <2>1, <1>7 DEF AtHead
  <2> QED
    BY <2>1, <2>2, <2>3, <2>5, <2>6, <1>3, <1>6 DEF QueueHolds
<1> QED
  BY <1>8, <1>9

\* A launch that does not end stands as it did, or as `now' says.
LEMMA EndKeepsWaits ==
  ASSUME NEW S, NEW now, NEW state, NEW known, End(S, now),
         \A t \in Tap \ S : /\ now[t].pc = "deferred" => state \in Busy
                            /\ now[t].pc = "root" => state \notin Over,
         FoundNone(now, known)
  PROVE  WaitsEnd(tap', state) /\ FoundNone(tap', known)
<1>1. \A t \in Tap : tap'[t] = Idle \/ (t \notin S /\ tap'[t] = now[t])
  BY DEF End
<1>2. Idle.pc = "idle" /\ Idle.pc \notin Looked
  BY DEF Idle, Looked
<1> QED
  BY <1>1, <1>2 DEF WaitsEnd, FoundNone

-----------------------------------------------------------------------------
LEMMA InitHolds == Init => IInv
<1> SUFFICES ASSUME Init PROVE IInv
  OBVIOUS
<1> USE DEF Init
<1>1. EngineInv
  BY PrefixesKnown DEF EngineInv, EngineState, Over
<1>2. Idle \in Standing /\ Idle.pc = "idle"
  BY DEF Idle, Standing, Item
<1>3. QueueHolds(tap, launchChain)
  BY <1>2 DEF QueueHolds, UnderWay
<1>4. WaitsEnd(tap, engine) /\ FoundNone(tap, sessions)
  BY <1>2 DEF WaitsEnd, FoundNone, Looked
<1>5. CountsAgree(sessions, running, stopping)
  BY MaxCopiesNat DEF CountsAgree, NoProgram
<1> QED
  BY <1>1, <1>3, <1>4, <1>5 DEF IInv

\* A step of the engine: who is given up ends, the programs are killed or not.
LEMMA EngineSteps ==
  ASSUME IInv, NEW to \in EngineState, NEW ended, NEW now, SetState(to, ended, now),
         QueueHolds(now, launchChain), MayEnd(ended),
         \A t \in Tap : now[t].item = tap[t].item,
         \A t \in Tap : t \notin ended \cup GivenUp(to) =>
            /\ now[t].pc = "deferred" => to \in Busy
            /\ now[t].pc = "root" => to \notin Over,
         FoundNone(now, sessions)
  PROVE  /\ engine' \in EngineState /\ desktop' \in BOOLEAN
         /\ QueueHolds(tap', launchChain')
         /\ WaitsEnd(tap', engine')
         /\ FoundNone(tap', sessions')
         /\ CountsAgree(sessions', running', stopping)
         /\ to = "SWITCHING" => CountsAgree(sessions', running', FALSE)
<1>1. engine' = to /\ desktop' \in BOOLEAN /\ End(ended \cup GivenUp(to), now)
  BY DEF SetState, Reconciled, IInv, EngineInv
<1>2. MayEnd(GivenUp(to))
  <2>1. \A t \in GivenUp(to) : t \in Tap /\ tap[t].pc \in UnderWay
    BY DEF GivenUp, At, UnderWay
  <2> QED
    BY <2>1 DEF IInv, QueueHolds, MayEnd
<1>3. MayEnd(ended \cup GivenUp(to))
  BY <1>2 DEF MayEnd
<1>4. QueueHolds(tap', launchChain')
  BY <1>1, <1>3, EndKeepsQueue
<1>5. WaitsEnd(tap', to) /\ FoundNone(tap', sessions)
  BY <1>1, EndKeepsWaits
<1>6. CASE to \in {"SWITCHING", "STOPPED"}
  <2>1. sessions' = NoProgram /\ running' = NoProgram
    BY <1>6 DEF SetState
  <2>2. \A b : CountsAgree(sessions', running', b)
    BY <2>1, MaxCopiesNat DEF CountsAgree, NoProgram
  <2>3. FoundNone(tap', sessions')
    BY <2>1 DEF FoundNone, NoProgram
  <2> QED
    BY <1>1, <1>4, <1>5, <2>2, <2>3
<1>7. CASE to \notin {"SWITCHING", "STOPPED"}
  <2>1. sessions' = sessions /\ running' = running
    BY <1>7 DEF SetState, programs
  <2> QED
    BY <1>1, <1>4, <1>5, <1>7, <2>1 DEF IInv
<1> QED
  BY <1>6, <1>7

\* Launches whose items stay keep their places in the queue.
LEMMA ItemsKept ==
  ASSUME IInv, NEW now \in [Tap -> Standing],
         \A t \in Tap : /\ now[t].item = tap[t].item
                        /\ now[t].pc = "idle" => tap[t].pc = "idle"
                        /\ now[t].pc \in UnderWay /\ now[t].item \notin Browsed
                           => AtHead(t, launchChain)
                        /\ now[t].pc \in {"deferred", "go"} => now[t].item \in App
                        /\ now[t].pc \in {"engine", "card"} => now[t].item = Desktop
  PROVE  QueueHolds(now, launchChain)
<1>1. /\ launchChain \in Seq(Tap)
      /\ \A i, j \in DOMAIN launchChain : launchChain[i] = launchChain[j] => i = j
      /\ \A i \in DOMAIN launchChain : /\ launchChain[i] \in Tap
                                       /\ tap[launchChain[i]].pc # "idle"
                                       /\ tap[launchChain[i]].item \notin Browsed
  BY DEF IInv, QueueHolds
<1>2. \A i \in DOMAIN launchChain : /\ now[launchChain[i]].pc # "idle"
                                    /\ now[launchChain[i]].item \notin Browsed
  BY <1>1
<1> QED
  BY <1>1, <1>2 DEF QueueHolds

\* Launches that go on past the root, or wait for it, keep their place.
LEMMA AwaitRootKeeps ==
  ASSUME IInv, NEW S \in SUBSET Tap, NEW found,
         \A t \in S : /\ tap[t].pc # "idle"
                      /\ tap[t].item \notin Browsed => AtHead(t, launchChain)
                      /\ found => tap[t].item \in App
                      /\ tap[t].item \in App \ Browsed => sessions[tap[t].item] = 0
  PROVE  /\ QueueHolds(AwaitRoot(S, found), launchChain)
         /\ FoundNone(AwaitRoot(S, found), sessions)
         /\ \A t \in Tap : /\ AwaitRoot(S, found)[t].item = tap[t].item
                           /\ t \notin S => AwaitRoot(S, found)[t] = tap[t]
                           /\ t \in S => AwaitRoot(S, found)[t].pc = IF found THEN "go" ELSE "root"
<1> DEFINE now == AwaitRoot(S, found)
<1>1. tap \in [Tap -> Standing]
  BY DEF IInv, QueueHolds
<1>2. /\ now \in [Tap -> Standing]
      /\ \A t \in Tap : /\ now[t].item = tap[t].item
                        /\ t \notin S => now[t] = tap[t]
                        /\ t \in S => now[t].pc = IF found THEN "go" ELSE "root"
  BY <1>1 DEF AwaitRoot, Standing
<1> HIDE DEF now
<1>3. \A t \in Tap : now[t].pc = "idle" => tap[t].pc = "idle"
  BY <1>2
<1>4. QueueHolds(now, launchChain)
  <2>1. \A t \in Tap : /\ now[t].pc \in UnderWay /\ now[t].item \notin Browsed
                          => AtHead(t, launchChain)
                       /\ now[t].pc \in {"deferred", "go"} => now[t].item \in App
                       /\ now[t].pc \in {"engine", "card"} => now[t].item = Desktop
    BY <1>2 DEF IInv, QueueHolds
  <2> QED
    BY <2>1, <1>2, <1>3, ItemsKept
<1>5. FoundNone(now, sessions)
  BY <1>2 DEF IInv, FoundNone
<1> QED
  BY <1>2, <1>4, <1>5 DEF now

LEMMA AwaitRootKeepsOne ==
  ASSUME IInv, NEW t \in Tap, NEW found,
         tap[t].pc # "idle",
         tap[t].item \notin Browsed => AtHead(t, launchChain),
         found => tap[t].item \in App,
         tap[t].item \in App \ Browsed => sessions[tap[t].item] = 0
  PROVE  /\ QueueHolds(AwaitRoot({t}, found), launchChain)
         /\ FoundNone(AwaitRoot({t}, found), sessions)
         /\ \A u \in Tap : /\ AwaitRoot({t}, found)[u].item = tap[u].item
                           /\ u # t => AwaitRoot({t}, found)[u] = tap[u]
         /\ AwaitRoot({t}, found)[t].pc \in {"go", "root"}
<1> DEFINE S == {t}
<1>1. S \in SUBSET Tap /\ t \in S /\ \A u : u \in S <=> u = t
  OBVIOUS
<1>2. \A u \in S : /\ tap[u].pc # "idle"
                   /\ tap[u].item \notin Browsed => AtHead(u, launchChain)
                   /\ found => tap[u].item \in App
                   /\ tap[u].item \in App \ Browsed => sessions[tap[u].item] = 0
  BY <1>1
<1> HIDE DEF S
<1>3. /\ QueueHolds(AwaitRoot(S, found), launchChain)
      /\ FoundNone(AwaitRoot(S, found), sessions)
      /\ \A u \in Tap : /\ AwaitRoot(S, found)[u].item = tap[u].item
                        /\ u \notin S => AwaitRoot(S, found)[u] = tap[u]
                        /\ u \in S => AwaitRoot(S, found)[u].pc = IF found THEN "go" ELSE "root"
  BY <1>1, <1>2, AwaitRootKeeps
<1>4. /\ QueueHolds(AwaitRoot(S, found), launchChain)
      /\ FoundNone(AwaitRoot(S, found), sessions)
      /\ \A u \in Tap : /\ AwaitRoot(S, found)[u].item = tap[u].item
                        /\ u # t => AwaitRoot(S, found)[u] = tap[u]
      /\ AwaitRoot(S, found)[t].pc \in {"go", "root"}
  BY <1>1, <1>3
<1> QED
  BY <1>4 DEF S

\* So does a launch that gets to another place.
LEMMA MoveKeeps ==
  ASSUME IInv, NEW t \in Tap, NEW p \in UnderWay,
         tap[t].pc # "idle",
         tap[t].item \notin Browsed => AtHead(t, launchChain),
         p \in {"deferred", "go"} => tap[t].item \in App,
         p \in {"engine", "card"} => tap[t].item = Desktop,
         p \in Looked /\ tap[t].item \in App \ Browsed => sessions[tap[t].item] = 0
  PROVE  /\ QueueHolds([tap EXCEPT ![t].pc = p], launchChain)
         /\ FoundNone([tap EXCEPT ![t].pc = p], sessions)
         /\ \A u \in Tap : /\ [tap EXCEPT ![t].pc = p][u].item = tap[u].item
                           /\ u # t => [tap EXCEPT ![t].pc = p][u] = tap[u]
         /\ [tap EXCEPT ![t].pc = p][t].pc = p
<1> DEFINE now == [tap EXCEPT ![t].pc = p]
<1>1. tap \in [Tap -> Standing]
  BY DEF IInv, QueueHolds
<1>2. /\ now \in [Tap -> Standing]
      /\ \A u \in Tap : now[u].item = tap[u].item /\ (u # t => now[u] = tap[u])
      /\ now[t].pc = p
  BY <1>1 DEF Standing, UnderWay
<1> HIDE DEF now
<1>3. \A u \in Tap : now[u].pc = "idle" => tap[u].pc = "idle"
  BY <1>2 DEF UnderWay
<1>4. QueueHolds(now, launchChain)
  <2>1. \A u \in Tap : /\ now[u].pc \in UnderWay /\ now[u].item \notin Browsed
                          => AtHead(u, launchChain)
                       /\ now[u].pc \in {"deferred", "go"} => now[u].item \in App
                       /\ now[u].pc \in {"engine", "card"} => now[u].item = Desktop
    BY <1>2 DEF IInv, QueueHolds
  <2> QED
    BY <2>1, <1>2, <1>3, ItemsKept
<1>5. FoundNone(now, sessions)
  BY <1>2 DEF IInv, FoundNone
<1> QED
  BY <1>2, <1>4, <1>5 DEF now

\* A launch whose turn it is may end, and is where it may go on.
LEMMA DueMayEnd ==
  ASSUME IInv, NEW t \in Tap, Due(t)
  PROVE  /\ tap[t].pc = "queued"
         /\ tap[t].item \notin Browsed => AtHead(t, launchChain)
         /\ MayEnd({t})
BY HeadIsInProgress DEF Due, MayEnd

LEMMA UnderWayMayEnd ==
  ASSUME IInv, NEW t \in Tap, tap[t].pc \in UnderWay
  PROVE  /\ tap[t].pc # "idle"
         /\ tap[t].item \notin Browsed => AtHead(t, launchChain)
         /\ MayEnd({t})
BY DEF IInv, QueueHolds, MayEnd, UnderWay

LEMMA CardWaitsForRoot ==
  ASSUME IInv, NEW t \in Tap, tap[t].pc \in UnderWay, tap[t].item = Desktop
  PROVE  /\ QueueHolds([tap EXCEPT ![t].pc = "root"], launchChain)
         /\ FoundNone([tap EXCEPT ![t].pc = "root"], sessions)
         /\ \A u \in Tap : /\ [tap EXCEPT ![t].pc = "root"][u].item = tap[u].item
                           /\ u # t => [tap EXCEPT ![t].pc = "root"][u] = tap[u]
         /\ [tap EXCEPT ![t].pc = "root"][t].pc = "root"
<1>1. PICK p \in UnderWay : p = "root"
  BY DEF UnderWay
<1>2. tap[t].item \notin App
  BY DesktopIsNoApp
<1>3. /\ tap[t].pc # "idle"
      /\ tap[t].item \notin Browsed => AtHead(t, launchChain)
      /\ p \in {"deferred", "go"} => tap[t].item \in App
      /\ p \in {"engine", "card"} => tap[t].item = Desktop
      /\ p \in Looked /\ tap[t].item \in App \ Browsed => sessions[tap[t].item] = 0
  BY <1>1, <1>2, UnderWayMayEnd
<1>4. /\ QueueHolds([tap EXCEPT ![t].pc = p], launchChain)
      /\ FoundNone([tap EXCEPT ![t].pc = p], sessions)
      /\ \A u \in Tap : /\ [tap EXCEPT ![t].pc = p][u].item = tap[u].item
                        /\ u # t => [tap EXCEPT ![t].pc = p][u] = tap[u]
      /\ [tap EXCEPT ![t].pc = p][t].pc = p
  BY <1>3, MoveKeeps
<1> QED
  BY <1>1, <1>4

-----------------------------------------------------------------------------
LEMMA TapHolds ==
  ASSUME IInv, NEW t \in Tap, NEW item \in Item, TapOn(t, item)
  PROVE  IInv'
<1> USE DEF TapOn
<1> DEFINE c == launchChain
<1>1. /\ tap \in [Tap -> Standing] /\ c \in Seq(Tap)
      /\ \A i, j \in DOMAIN c : c[i] = c[j] => i = j
      /\ \A i \in DOMAIN c : c[i] \in Tap /\ tap[c[i]].pc # "idle" /\ tap[c[i]].item \notin Browsed
  BY DEF IInv, QueueHolds
<1>2. /\ tap' \in [Tap -> Standing]
      /\ tap'[t].pc = "queued" /\ tap'[t].item = item
      /\ \A u \in Tap \ {t} : tap'[u] = tap[u]
  BY <1>1 DEF Standing
<1>3. \A i \in DOMAIN c : c[i] # t
  BY <1>1
<1>4. /\ c' \in Seq(Tap) /\ DOMAIN c \subseteq DOMAIN c'
      /\ \A i \in DOMAIN c : c'[i] = c[i]
      /\ \A i \in DOMAIN c' \ DOMAIN c : i = Len(c) + 1 /\ c'[i] = t /\ item \notin Browsed
  BY <1>1
<1>5. \A i, j \in DOMAIN c' : c'[i] = c'[j] => i = j
  BY <1>1, <1>3, <1>4
<1>6. \A i \in DOMAIN c' : tap'[c'[i]].pc # "idle" /\ tap'[c'[i]].item \notin Browsed
  BY <1>1, <1>2, <1>3, <1>4
<1>7. \A u \in Tap : tap'[u].pc \in UnderWay /\ tap'[u].item \notin Browsed => AtHead(u, c')
  <2>1. \A u \in Tap : tap'[u].pc \in UnderWay /\ tap'[u].item \notin Browsed => AtHead(u, c)
    BY <1>2 DEF IInv, QueueHolds, UnderWay
  <2> QED
    BY <2>1, <1>4 DEF AtHead
<1>8. QueueHolds(tap', c')
  <2>1. \A u \in Tap : /\ tap'[u].pc \in {"deferred", "go"} => tap'[u].item \in App
                       /\ tap'[u].pc \in {"engine", "card"} => tap'[u].item = Desktop
    BY <1>2 DEF IInv, QueueHolds
  <2> QED
    BY <2>1, <1>2, <1>4, <1>5, <1>6, <1>7 DEF QueueHolds
<1>9. WaitsEnd(tap', engine') /\ FoundNone(tap', sessions')
  BY <1>2 DEF IInv, WaitsEnd, FoundNone, Looked, programs
<1> QED
  BY <1>8, <1>9 DEF IInv, EngineInv, config, programs

LEMMA AgainHolds ==
  ASSUME IInv, NEW t \in Tap, LaunchAgain(t)
  PROVE  IInv'
<1> USE DEF LaunchAgain
<1>1. MayEnd({t})
  BY DueMayEnd
<1>2. QueueHolds(tap', launchChain')
  BY <1>1, EndKeepsQueue DEF IInv
<1>3. WaitsEnd(tap', engine) /\ FoundNone(tap', sessions)
  BY EndKeepsWaits DEF IInv, WaitsEnd
<1> QED
  BY <1>2, <1>3 DEF IInv, EngineInv, Reconciled, config, programs

LEMMA ReadyHolds ==
  ASSUME IInv, NEW t \in Tap, LaunchReady(t)
  PROVE  IInv'
<1> USE DEF LaunchReady, Fresh
<1>1. /\ tap[t].pc = "queued" /\ tap[t].item \in App /\ sessions[tap[t].item] = 0
      /\ tap[t].item \notin Browsed => AtHead(t, launchChain)
  BY DueMayEnd
<1>2. /\ QueueHolds(tap', launchChain)
      /\ FoundNone(tap', sessions)
      /\ \A u \in Tap : u # t => tap'[u] = tap[u]
      /\ tap'[t].pc \in {"go", "root"}
  BY <1>1, AwaitRootKeepsOne
<1>3. WaitsEnd(tap', engine)
  BY <1>2 DEF IInv, WaitsEnd, Over, Busy
<1>4. selected' \in Prefix
  BY <1>1, PrefixesKnown
<1> QED
  BY <1>2, <1>3, <1>4 DEF IInv, EngineInv, programs

LEMMA DeferHolds ==
  ASSUME IInv, NEW t \in Tap, DeferLaunchUntilReady(t)
  PROVE  IInv'
<1> USE DEF DeferLaunchUntilReady, Fresh
<1>1. /\ tap[t].pc = "queued" /\ tap[t].item \in App /\ sessions[tap[t].item] = 0
      /\ tap[t].item \notin Browsed => AtHead(t, launchChain)
  BY DueMayEnd
<1> DEFINE now == IF engine = "READY" /\ ~listening THEN AwaitRoot({t}, desktop)
                  ELSE [tap EXCEPT ![t].pc = "deferred"]
<1>2. PICK to \in Busy : SetState(to, {}, now)
  OBVIOUS
<1>3. to \in EngineState /\ to \notin Over
  BY DEF EngineState, Busy, Over
<1>4. /\ QueueHolds(now, launchChain)
      /\ FoundNone(now, sessions)
      /\ \A u \in Tap : now[u].item = tap[u].item /\ (u # t => now[u] = tap[u])
  <2>1. CASE engine = "READY" /\ ~listening
    BY <2>1, <1>1, AwaitRootKeepsOne
  <2>2. CASE ~(engine = "READY" /\ ~listening)
    <3>1. "deferred" \in UnderWay
      BY DEF UnderWay
    <3> QED
      BY <2>2, <3>1, <1>1, MoveKeeps
  <2> QED
    BY <2>1, <2>2
<1> HIDE DEF now
<1>5. MayEnd({})
  BY DEF MayEnd
<1>6. /\ engine' \in EngineState /\ desktop' \in BOOLEAN
      /\ QueueHolds(tap', launchChain')
      /\ WaitsEnd(tap', engine') /\ FoundNone(tap', sessions')
      /\ CountsAgree(sessions', running', stopping)
  BY <1>2, <1>3, <1>4, <1>5, EngineSteps
<1>7. selected' \in Prefix
  BY <1>1, PrefixesKnown
<1> QED
  BY <1>6, <1>7 DEF IInv, EngineInv

\* Nothing but the engine's state, or nothing, changes for the launches.
LEMMA DesktopHolds ==
  ASSUME IInv, NEW t \in Tap, LaunchDesktop(t)
  PROVE  IInv'
<1> USE DEF LaunchDesktop
<1>1. /\ tap[t].pc = "queued" /\ tap[t].item = Desktop
      /\ tap[t].item \notin Browsed => AtHead(t, launchChain)
  BY DueMayEnd
<1>2. {"engine", "card"} \subseteq UnderWay /\ "engine" \notin Looked /\ "card" \notin Looked
  BY DEF UnderWay, Looked
<1>3. \A p \in {"engine", "card"} :
        /\ QueueHolds([tap EXCEPT ![t].pc = p], launchChain)
        /\ FoundNone([tap EXCEPT ![t].pc = p], sessions)
        /\ \A u \in Tap : /\ [tap EXCEPT ![t].pc = p][u].item = tap[u].item
                          /\ u # t => [tap EXCEPT ![t].pc = p][u] = tap[u]
        /\ [tap EXCEPT ![t].pc = p][t].pc = p
  <2> TAKE p \in {"engine", "card"}
  <2>1. /\ p \in UnderWay /\ tap[t].pc # "idle"
        /\ p \in {"deferred", "go"} => tap[t].item \in App
        /\ p \in Looked /\ tap[t].item \in App \ Browsed => sessions[tap[t].item] = 0
    BY <1>1, <1>2
  <2> QED
    BY <2>1, <1>1, MoveKeeps
<1>4. CASE /\ \E p \in {"engine", "card"} : tap' = [tap EXCEPT ![t].pc = p]
           /\ UNCHANGED <<engine, desktop, programs, launchChain>>
  <2>1. PICK p \in {"engine", "card"} : tap' = [tap EXCEPT ![t].pc = p]
    BY <1>4
  <2>2. /\ QueueHolds(tap', launchChain) /\ FoundNone(tap', sessions)
        /\ \A u \in Tap : tap'[u] = tap[u] \/ tap'[u].pc = p
    BY <2>1, <1>3
  <2>3. WaitsEnd(tap', engine)
    BY <2>2 DEF IInv, WaitsEnd
  <2> QED
    BY <1>4, <2>2, <2>3 DEF IInv, EngineInv, config, programs
<1>5. CASE \E to \in Busy \ {engine} :
             EnsureReady(selected, to) /\ SetState(to, {}, [tap EXCEPT ![t].pc = "engine"])
  <2> DEFINE now == [tap EXCEPT ![t].pc = "engine"]
  <2>1. PICK to \in Busy : SetState(to, {}, now)
    BY <1>5
  <2>2. to \in EngineState /\ to \notin Over
    BY DEF EngineState, Busy, Over
  <2>3. /\ QueueHolds(now, launchChain)
        /\ FoundNone(now, sessions)
        /\ \A u \in Tap : now[u].item = tap[u].item
    BY <1>3
  <2> HIDE DEF now
  <2>4. MayEnd({})
    BY DEF MayEnd
  <2>5. /\ engine' \in EngineState /\ desktop' \in BOOLEAN
        /\ QueueHolds(tap', launchChain')
        /\ WaitsEnd(tap', engine') /\ FoundNone(tap', sessions')
        /\ CountsAgree(sessions', running', stopping)
    BY <2>1, <2>2, <2>3, <2>4, EngineSteps
  <2> QED
    BY <2>5 DEF IInv, EngineInv, config
<1> QED
  BY <1>4, <1>5

LEMMA ShowHolds ==
  ASSUME IInv, NEW t \in Tap, ShowDesktop(t)
  PROVE  IInv'
<1> USE DEF ShowDesktop
<1>1. tap[t].pc \in UnderWay
  BY DEF UnderWay
<1>2. /\ MayEnd({t}) /\ tap[t].pc # "idle"
      /\ tap[t].item \notin Browsed => AtHead(t, launchChain)
  BY <1>1, UnderWayMayEnd
<1>3. CASE End({t}, tap)
  <2>1. QueueHolds(tap', launchChain')
    BY <1>2, <1>3, EndKeepsQueue DEF IInv
  <2>2. WaitsEnd(tap', engine) /\ FoundNone(tap', sessions)
    BY <1>3, EndKeepsWaits DEF IInv, WaitsEnd
  <2> QED
    BY <2>1, <2>2 DEF IInv, EngineInv, Reconciled, config, programs
<1>4. CASE /\ engine \notin Over
           /\ tap' = [tap EXCEPT ![t].pc = "root"] /\ UNCHANGED launchChain
  <2>1. tap[t].item = Desktop
    BY DEF IInv, QueueHolds
  <2> DEFINE now == [tap EXCEPT ![t].pc = "root"]
  <2>2. /\ QueueHolds(now, launchChain) /\ FoundNone(now, sessions)
        /\ \A u \in Tap : u # t => now[u] = tap[u]
        /\ now[t].pc = "root"
    BY <1>1, <2>1, CardWaitsForRoot
  <2> HIDE DEF now
  <2>3. tap' = now
    BY <1>4 DEF now
  <2>4. WaitsEnd(tap', engine)
    BY <1>4, <2>2, <2>3 DEF IInv, WaitsEnd
  <2> QED
    BY <1>4, <2>2, <2>3, <2>4 DEF IInv, EngineInv, Reconciled, config, programs
<1> QED
  BY <1>3, <1>4

\* The process of a program whose card was tapped is its first.
LEMMA ExecutableHolds ==
  ASSUME IInv, NEW t \in Tap, LaunchExecutable(t)
  PROVE  IInv'
<1> USE DEF LaunchExecutable
<1> DEFINE a == tap[t].item
<1>1. tap[t].pc \in UnderWay
  BY DEF UnderWay
<1>2. /\ MayEnd({t}) /\ a \in App
      /\ a \notin Browsed => AtHead(t, launchChain) /\ sessions[a] = 0
  BY <1>1, UnderWayMayEnd DEF IInv, QueueHolds, FoundNone, Looked
<1>3. QueueHolds(tap', launchChain')
  BY <1>2, EndKeepsQueue DEF IInv
<1>4. WaitsEnd(tap', engine) /\ FoundNone(tap', sessions)
  BY EndKeepsWaits DEF IInv, WaitsEnd
<1>5. CASE UNCHANGED programs
  BY <1>3, <1>4, <1>5 DEF IInv, EngineInv, config, programs
<1>6. CASE /\ engine = "READY" /\ running[a] < MaxCopies
           /\ running' = [running EXCEPT ![a] = @ + 1]
           /\ sessions' = [sessions EXCEPT ![a] = @ + 1]
  <2>1. CountsAgree(sessions', running', stopping)
    BY <1>2, <1>6, MaxCopiesNat DEF IInv, CountsAgree
  <2>2. \A u \in Tap : /\ tap'[u].pc \in Looked /\ tap'[u].item \in App \ Browsed
                       => tap'[u].item # a
    <3> SUFFICES ASSUME NEW u \in Tap, tap'[u].pc \in Looked, a \notin Browsed, tap'[u].item = a
                 PROVE  FALSE
      OBVIOUS
    <3>1. u # t /\ tap'[u] = tap[u]
      BY DEF End, Idle, Looked
    <3>2. AtHead(u, launchChain)
      BY <3>1 DEF IInv, QueueHolds, Looked, UnderWay
    <3> QED
      BY <3>1, <3>2, <1>2 DEF AtHead
  <2>3. FoundNone(tap', sessions')
    BY <1>4, <1>6, <2>2 DEF FoundNone, IInv, CountsAgree
  <2> QED
    BY <1>3, <1>4, <2>1, <2>3 DEF IInv, EngineInv, config
<1> QED
  BY <1>5, <1>6

-----------------------------------------------------------------------------
\* At READY the deferred launches go on, and the desktop's card.
LEMMA DrainedKeeps ==
  ASSUME IInv, NEW found \in BOOLEAN
  PROVE  /\ QueueHolds(Drained(found), launchChain)
         /\ FoundNone(Drained(found), sessions)
         /\ \A t \in Tap : /\ Drained(found)[t].item = tap[t].item
                           /\ Drained(found)[t].pc # "deferred"
<1> DEFINE S == At("deferred")
           base == AwaitRoot(S, found)
           now == Drained(found)
<1>1. /\ S \in SUBSET Tap
      /\ \A t \in Tap : t \in S <=> tap[t].pc = "deferred"
  BY DEF At
<1>2. \A t \in S : /\ tap[t].pc # "idle"
                   /\ tap[t].item \notin Browsed => AtHead(t, launchChain)
                   /\ found => tap[t].item \in App
                   /\ tap[t].item \in App \ Browsed => sessions[tap[t].item] = 0
  BY <1>1 DEF IInv, QueueHolds, FoundNone, UnderWay, Looked
<1>3. /\ QueueHolds(base, launchChain)
      /\ FoundNone(base, sessions)
      /\ \A t \in Tap : /\ base[t].item = tap[t].item
                        /\ t \notin S => base[t] = tap[t]
                        /\ t \in S => base[t].pc = IF found THEN "go" ELSE "root"
  <2> HIDE DEF S
  <2> QED
    BY <1>1, <1>2, AwaitRootKeeps
<1>4. tap \in [Tap -> Standing] /\ base \in [Tap -> Standing]
  BY <1>3 DEF IInv, QueueHolds
<1>5. now = [t \in Tap |-> IF tap[t].pc = "engine" THEN [tap[t] EXCEPT !.pc = "card"] ELSE base[t]]
  BY DEF Drained
<1> HIDE DEF S, base, now
<1>6. /\ now \in [Tap -> Standing]
      /\ \A t \in Tap : /\ tap[t].pc = "engine" => now[t].pc = "card"
                        /\ tap[t].pc # "engine" => now[t] = base[t]
                        /\ now[t].item = tap[t].item
  BY <1>3, <1>4, <1>5 DEF Standing
<1>7. \A t \in Tap : now[t].pc = "idle" => tap[t].pc = "idle"
  BY <1>1, <1>3, <1>6
<1>8. \A t \in Tap : now[t].pc # "deferred"
  BY <1>1, <1>3, <1>6
<1>9. QueueHolds(now, launchChain)
  <2>1. \A t \in Tap : /\ now[t].pc \in UnderWay /\ now[t].item \notin Browsed
                          => AtHead(t, launchChain)
                       /\ now[t].pc \in {"deferred", "go"} => now[t].item \in App
                       /\ now[t].pc \in {"engine", "card"} => now[t].item = Desktop
    BY <1>3, <1>6 DEF IInv, QueueHolds, UnderWay
  <2> QED
    BY <2>1, <1>6, <1>7, ItemsKept
<1>10. FoundNone(now, sessions)
  BY <1>3, <1>6 DEF FoundNone, Looked
<1> QED
  BY <1>6, <1>8, <1>9, <1>10 DEF now

LEMMA BecomesHolds ==
  ASSUME IInv, NEW to \in EngineState, EngineBecomes(to)
  PROVE  IInv'
<1> USE DEF EngineBecomes
<1> DEFINE now == IF to = "READY" THEN Drained(desktop) ELSE tap
<1>1. PICK refused \in SUBSET (IF to = "READY" THEN {} ELSE At("engine")) :
        SetState(to, refused, now)
  OBVIOUS
<1>2. \A t \in refused : t \in Tap /\ tap[t].pc \in UnderWay
  BY DEF At, UnderWay
<1>3. MayEnd(refused)
  BY <1>2 DEF IInv, QueueHolds, MayEnd
<1>4. /\ QueueHolds(now, launchChain)
      /\ FoundNone(now, sessions)
      /\ \A t \in Tap : now[t].item = tap[t].item
      /\ to = "READY" => \A t \in Tap : now[t].pc # "deferred"
      /\ to # "READY" => now = tap
  BY DrainedKeeps DEF IInv, EngineInv
<1> HIDE DEF now
<1>5. \A t \in Tap : t \notin refused \cup GivenUp(to) =>
         /\ now[t].pc = "deferred" => to \in Busy
         /\ now[t].pc = "root" => to \notin Over
  BY <1>4 DEF GivenUp, At, EngineState, Over
<1>6. /\ engine' \in EngineState /\ desktop' \in BOOLEAN
      /\ QueueHolds(tap', launchChain')
      /\ WaitsEnd(tap', engine') /\ FoundNone(tap', sessions')
      /\ CountsAgree(sessions', running', stopping)
  BY <1>1, <1>3, <1>4, <1>5, EngineSteps
<1> QED
  BY <1>6 DEF IInv, EngineInv, config

LEMMA RootHolds ==
  ASSUME IInv, DesktopRoot
  PROVE  IInv'
<1> USE DEF DesktopRoot
<1> DEFINE here == At("root")
           cards == {t \in here : tap[t].item = Desktop}
           now == AwaitRoot(here \ cards, TRUE)
<1>1. /\ here \in SUBSET Tap
      /\ \A t \in here : t \in Tap /\ tap[t].pc = "root"
      /\ \A t \in Tap : tap[t].pc = "root" => t \in here
  BY DEF At
<1>2. /\ cards \in SUBSET Tap /\ here \ cards \in SUBSET Tap
      /\ End(cards, now)
  BY <1>1 DEF End, AwaitRoot
<1>3. MayEnd(cards)
  BY <1>1 DEF IInv, QueueHolds, MayEnd, UnderWay
<1>4. \A t \in here \ cards : /\ tap[t].pc # "idle"
                              /\ tap[t].item \notin Browsed => AtHead(t, launchChain)
                              /\ TRUE => tap[t].item \in App
                              /\ tap[t].item \in App \ Browsed => sessions[tap[t].item] = 0
  BY <1>1 DEF IInv, QueueHolds, FoundNone, UnderWay, Looked, Standing, Item
<1>5. /\ QueueHolds(now, launchChain)
      /\ FoundNone(now, sessions)
      /\ \A t \in Tap : /\ now[t].item = tap[t].item
                        /\ t \notin here \ cards => now[t] = tap[t]
                        /\ t \in here \ cards => now[t].pc = "go"
  <2> HIDE DEF here, cards
  <2> QED
    BY <1>2, <1>4, AwaitRootKeeps
<1>6. \A t \in Tap \ cards : /\ now[t].pc = "deferred" => engine \in Busy
                             /\ now[t].pc = "root" => engine \notin Over
  BY <1>1, <1>5 DEF IInv, WaitsEnd
<1> HIDE DEF here, cards, now
<1>7. QueueHolds(tap', launchChain')
  BY <1>2, <1>3, <1>5, EndKeepsQueue
<1>8. WaitsEnd(tap', engine) /\ FoundNone(tap', sessions)
  BY <1>2, <1>5, <1>6, EndKeepsWaits
<1> QED
  BY <1>7, <1>8 DEF IInv, EngineInv, config, programs

\* A process ends, with its session or without.
LEMMA EndsHolds ==
  ASSUME IInv, NEW a \in App, ProgramEnds(a)
  PROVE  IInv'
<1> USE DEF ProgramEnds
<1>1. CountsAgree(sessions', running', stopping)
  BY MaxCopiesNat DEF IInv, CountsAgree
<1>2. FoundNone(tap', sessions')
  BY DEF IInv, FoundNone, CountsAgree, queue
<1> QED
  BY <1>1, <1>2 DEF IInv, EngineInv, config, queue

LEMMA ClearHolds ==
  ASSUME IInv, ClearSessions
  PROVE  IInv'
<1> USE DEF ClearSessions
<1>1. CountsAgree(sessions', running', TRUE)
  BY MaxCopiesNat DEF IInv, CountsAgree, NoProgram
<1>2. FoundNone(tap', sessions')
  BY DEF FoundNone, NoProgram, queue
<1> QED
  BY <1>1, <1>2 DEF IInv, EngineInv, config, queue

LEMMA StopHolds ==
  ASSUME IInv, StopEngine
  PROVE  IInv'
<1> USE DEF StopEngine
<1>1. ASSUME NEW refused \in SUBSET At("engine") PROVE MayEnd(refused)
  BY DEF At, IInv, QueueHolds, MayEnd, UnderWay
<1>2. CASE /\ running' = NoProgram /\ sessions' = NoProgram
           /\ \E refused \in SUBSET At("engine") : End(refused, tap)
           /\ UNCHANGED <<engine, desktop>>
  <2>1. PICK refused \in SUBSET At("engine") : End(refused, tap)
    BY <1>2
  <2>2. QueueHolds(tap', launchChain')
    BY <2>1, <1>1, EndKeepsQueue DEF IInv
  <2>3. WaitsEnd(tap', engine) /\ FoundNone(tap', sessions)
    BY <2>1, EndKeepsWaits DEF IInv, WaitsEnd
  <2>4. FoundNone(tap', sessions') /\ CountsAgree(sessions', running', FALSE)
    BY <1>2, MaxCopiesNat DEF FoundNone, CountsAgree, NoProgram
  <2> QED
    BY <1>2, <2>2, <2>3, <2>4 DEF IInv, EngineInv, config
<1>3. CASE \E refused \in SUBSET At("engine") : SetState("SWITCHING", refused, tap)
  <2>1. PICK refused \in SUBSET At("engine") : SetState("SWITCHING", refused, tap)
    BY <1>3
  <2>2. "SWITCHING" \in EngineState /\ "SWITCHING" \in Busy /\ "SWITCHING" \notin Over
    BY DEF EngineState, Busy, Over
  <2>3. /\ engine' \in EngineState /\ desktop' \in BOOLEAN
        /\ QueueHolds(tap', launchChain')
        /\ WaitsEnd(tap', engine') /\ FoundNone(tap', sessions')
        /\ CountsAgree(sessions', running', FALSE)
    BY <1>1, <2>1, <2>2, EngineSteps DEF IInv
  <2> QED
    BY <2>3 DEF IInv, EngineInv, config
<1>4. CASE /\ engine \in Busy /\ running = NoProgram
           /\ UNCHANGED <<engine, desktop, programs, queue>>
  <2>1. CountsAgree(sessions, running, FALSE)
    BY <1>4, MaxCopiesNat DEF IInv, CountsAgree, NoProgram
  <2> QED
    BY <1>4, <2>1 DEF IInv, EngineInv, config, programs, queue
<1> QED
  BY <1>2, <1>3, <1>4

-----------------------------------------------------------------------------
LEMMA StepHolds == IInv /\ [Next]_vars => IInv'
<1> SUFFICES ASSUME IInv, [Next]_vars PROVE IInv'
  OBVIOUS
<1>1. CASE \E t \in Tap : \E item \in Item : TapOn(t, item)
  BY <1>1, TapHolds
<1>2. CASE \E t \in Tap : Launch(t)
  BY <1>2, AgainHolds, ReadyHolds, DeferHolds, DesktopHolds DEF Launch
<1>3. CASE \E t \in Tap : Continue(t)
  BY <1>3, ShowHolds, ExecutableHolds DEF Continue
<1>4. CASE \E to \in EngineState : EngineBecomes(to)
  BY <1>4, BecomesHolds
<1>5. CASE LaunchClient
  BY <1>5 DEF LaunchClient, IInv, EngineInv, programs, queue
<1>6. CASE DesktopRoot
  BY <1>6, RootHolds
<1>7. CASE DesktopRootDestroyed
  BY <1>7 DEF DesktopRootDestroyed, IInv, EngineInv, config, programs, queue
<1>8. CASE RefreshRunningState
  BY <1>8 DEF RefreshRunningState, Reconciled, IInv, EngineInv, config, programs, queue
<1>9. CASE \E a \in App : ProgramEnds(a)
  BY <1>9, EndsHolds
<1>10. CASE ClearSessions
  BY <1>10, ClearHolds
<1>11. CASE StopEngine
  BY <1>11, StopHolds
<1>12. CASE UNCHANGED vars
  BY <1>12 DEF vars, config, programs, queue, IInv, EngineInv
<1> QED
  BY <1>1, <1>2, <1>3, <1>4, <1>5, <1>6, <1>7, <1>8, <1>9, <1>10, <1>11, <1>12 DEF Next

\* What the service remembers is sound, and no launch waits in vain: the code
\* of AppSessionService and of the queue in Index, for all taps and programs.
THEOREM LaunchesStaySound == Spec => []LaunchesAreSound
<1>1. IInv => LaunchesAreSound
  <2> SUFFICES ASSUME IInv PROVE LaunchesAreSound
    OBVIOUS
  <2>1. WaitsHaveAnEnd
    BY DEF IInv, WaitsEnd, WaitsHaveAnEnd, At
  <2>2. /\ engine \in EngineState /\ selected \in Prefix /\ applied \in Prefix
        /\ {root, desktop, listening, stopping} \subseteq BOOLEAN
    BY DEF IInv, EngineInv
  <2>3. /\ running \in [App -> 0 .. MaxCopies]
        /\ sessions \in [App -> 0 .. MaxCopies] /\ \A a \in App : sessions[a] <= running[a]
    BY DEF IInv, CountsAgree
  <2>4. tap \in [Tap -> Standing]
    BY DEF IInv, QueueHolds
  <2>5. /\ launchChain \in Seq(Tap)
        /\ \A i \in DOMAIN launchChain : /\ tap[launchChain[i]].pc # "idle"
                                         /\ tap[launchChain[i]].item \notin Browsed
        /\ \A i, j \in DOMAIN launchChain : launchChain[i] = launchChain[j] => i = j
    BY DEF IInv, QueueHolds
  <2>6. launchChain \in Seq({t \in Tap : tap[t].pc # "idle" /\ tap[t].item \notin Browsed})
    BY <2>5
  <2> QED
    BY <2>1, <2>2, <2>3, <2>4, <2>5, <2>6 DEF LaunchesAreSound, TypeOK, Standing
<1> QED
  BY <1>1, InitHolds, StepHolds, PTL DEF Spec

\* However quickly a card is tapped its program runs once.
THEOREM CardsStartOneProcess == Spec => []OneProcessPerCard
<1>1. IInv => OneProcessPerCard
  BY DEF IInv, CountsAgree, OneProcessPerCard
<1> QED
  BY <1>1, InitHolds, StepHolds, PTL DEF Spec
=============================================================================
