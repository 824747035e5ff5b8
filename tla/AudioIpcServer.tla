--------------------------- MODULE AudioIpcServer ---------------------------
(***************************************************************************)
(* The threads of the audio control server (audio_ipc_server.cpp).  Every  *)
(* Wine process is given a bootstrap endpoint, served by a thread of its   *)
(* own; every control connection that arrives on an endpoint gets another. *)
(* A thread that has finished is joined later by whoever next creates an   *)
(* endpoint, with the broker's mutex held, or accepts a connection.        *)
(*                                                                         *)
(* The server's own mutex only guards short critical sections, which are   *)
(* single steps here.  The broker's mutex is a variable: commands and the  *)
(* final cleanup of a connection need it.                                  *)
(***************************************************************************)
EXTENDS Naturals

CONSTANTS
  Endpoint,  \* bootstrap endpoints that may be created
  Client,    \* control connections that may arrive
  Nobody     \* the free mutex; no endpoint, no client

ASSUME IpcAssumption ==
  /\ Nobody \notin Endpoint \cup Client
  /\ Endpoint \cap Client = {}

VARIABLES
  endpoint,       \* BootstrapLoop: pc, running, hostFd, the client in hand, the threads it joins
  client,         \* HandleClient: pc, slot running flag, endpoint it came from
  endpoints,      \* bootstrapEndpoints_
  clientThreads,  \* clientThreads_
  clientFds,      \* clientFds_
  openFds,        \* control sockets that are open in this process
  brokerMutex,    \* who holds AudioBroker::mutex_
  creator         \* the caller of AudioBroker::CreateBootstrapHandle

vars == <<endpoint, client, endpoints, clientThreads, clientFds, openFds, brokerMutex, creator>>

Init ==
  /\ endpoint = [e \in Endpoint |->
       [pc |-> "unborn", running |-> FALSE, hostFd |-> FALSE, at |-> Nobody, joins |-> {}]]
  /\ client = [c \in Client |-> [pc |-> "unborn", running |-> FALSE, alive |-> FALSE]]
  /\ endpoints = {} /\ clientThreads = {} /\ clientFds = {} /\ openFds = {}
  /\ brokerMutex = Nobody
  /\ creator = [pc |-> "idle", at |-> Nobody, joins |-> {}]

FinishedEndpoints == {e \in endpoints : ~endpoint[e].running /\ ~endpoint[e].hostFd}
FinishedClients(threads) == {c \in threads : ~client[c].running}

\* thread.join() returns once the thread function has returned.
Joinable(thread) ==
  IF thread \in Client THEN ~client[thread].alive ELSE endpoint[thread].pc = "returned"

-----------------------------------------------------------------------------
(***************************************************************************)
(* AudioBroker::CreateBootstrapHandle holds the broker's mutex throughout  *)
(* AudioIpcServer::CreateBootstrapHandle.                                  *)
(***************************************************************************)
CreateHandle ==
  /\ creator.pc = "idle" /\ brokerMutex = Nobody
  /\ brokerMutex' = "creator"
  /\ creator' = [creator EXCEPT !.pc = "reap"]
  /\ UNCHANGED <<endpoint, client, endpoints, clientThreads, clientFds, openFds>>

\* Seeded fault: what is joined is left in the tables.
ReapWithoutErase ==
  /\ creator.pc = "reap"
  /\ creator' = [creator EXCEPT !.pc = "join",
                                !.joins = FinishedEndpoints \cup FinishedClients(clientThreads)]
  /\ UNCHANGED <<endpoint, client, endpoints, clientThreads, clientFds, openFds, brokerMutex>>
Reap ==
  /\ creator.pc = "reap"
  /\ creator' = [creator EXCEPT !.pc = "join",
                                !.joins = FinishedEndpoints \cup FinishedClients(clientThreads)]
  /\ endpoints' = endpoints \ FinishedEndpoints
  /\ clientThreads' = clientThreads \ FinishedClients(clientThreads)
  /\ UNCHANGED <<endpoint, client, clientFds, openFds, brokerMutex>>

JoinFinished ==
  /\ creator.pc = "join"
  /\ IF creator.joins = {}
     THEN creator' = [creator EXCEPT !.pc = "spawn"]
     ELSE \E thread \in creator.joins :
            Joinable(thread) /\ creator' = [creator EXCEPT !.joins = @ \ {thread}]
  /\ UNCHANGED <<endpoint, client, endpoints, clientThreads, clientFds, openFds, brokerMutex>>

\* socketpair may fail; the caller then gets -1.
SpawnEndpoint ==
  /\ creator.pc = "spawn"
  /\ \/ \E e \in Endpoint :
          /\ endpoint[e].pc = "unborn"
          /\ endpoint' = [endpoint EXCEPT ![e] =
               [@ EXCEPT !.pc = "recv", !.running = TRUE, !.hostFd = TRUE]]
          /\ creator' = [creator EXCEPT !.pc = "push", !.at = e]
          /\ UNCHANGED brokerMutex
     \/ /\ creator' = [creator EXCEPT !.pc = "idle"]
        /\ brokerMutex' = Nobody
        /\ UNCHANGED endpoint
  /\ UNCHANGED <<client, endpoints, clientThreads, clientFds, openFds>>

PushEndpoint ==
  /\ creator.pc = "push"
  /\ endpoints' = endpoints \cup {creator.at}
  /\ creator' = [creator EXCEPT !.pc = "idle", !.at = Nobody]
  /\ brokerMutex' = Nobody
  /\ UNCHANGED <<endpoint, client, clientThreads, clientFds, openFds>>

-----------------------------------------------------------------------------
(***************************************************************************)
(* BootstrapLoop.  Invalid packets are dropped and change nothing.         *)
(***************************************************************************)
\* A valid request: the connection is numbered and its descriptor registered.
Accept(e, c) ==
  /\ endpoint[e].pc = "recv" /\ client[c].pc = "unborn"
  /\ \A f \in Endpoint : endpoint[f].at # c
  /\ openFds' = openFds \cup {c}
  /\ clientFds' = clientFds \cup {c}
  /\ endpoint' = [endpoint EXCEPT ![e].pc = "spawn", ![e].at = c]
  /\ UNCHANGED <<client, endpoints, clientThreads, brokerMutex, creator>>

SpawnClient(e) ==
  /\ endpoint[e].pc = "spawn"
  /\ client' = [client EXCEPT ![endpoint[e].at] = [pc |-> "serve", running |-> TRUE, alive |-> TRUE]]
  /\ endpoint' = [endpoint EXCEPT ![e].pc = "push"]
  /\ UNCHANGED <<endpoints, clientThreads, clientFds, openFds, brokerMutex, creator>>

\* std::thread throws system_error: unregister, close, go on.
SpawnFails(e) ==
  /\ endpoint[e].pc = "spawn"
  /\ clientFds' = clientFds \ {endpoint[e].at}
  /\ openFds' = openFds \ {endpoint[e].at}
  /\ client' = [client EXCEPT ![endpoint[e].at].pc = "refused"]
  /\ endpoint' = [endpoint EXCEPT ![e].pc = "recv", ![e].at = Nobody]
  /\ UNCHANGED <<endpoints, clientThreads, brokerMutex, creator>>

PushClient(e) ==
  /\ endpoint[e].pc = "push"
  /\ LET threads == clientThreads \cup {endpoint[e].at} IN
     /\ clientThreads' = threads \ FinishedClients(threads)
     /\ endpoint' = [endpoint EXCEPT ![e] = [@ EXCEPT !.pc = "join", !.at = Nobody,
                                                       !.joins = FinishedClients(threads)]]
  /\ UNCHANGED <<client, endpoints, clientFds, openFds, brokerMutex, creator>>

JoinClients(e) ==
  /\ endpoint[e].pc = "join"
  /\ IF endpoint[e].joins = {}
     THEN endpoint' = [endpoint EXCEPT ![e].pc = "recv"]
     ELSE \E c \in endpoint[e].joins :
            Joinable(c) /\ endpoint' = [endpoint EXCEPT ![e].joins = @ \ {c}]
  /\ UNCHANGED <<client, endpoints, clientThreads, clientFds, openFds, brokerMutex, creator>>

\* Every holder of the other end has gone: recv returns 0.
LeaveLoop(e) ==
  /\ endpoint[e].pc = "recv"
  /\ endpoint' = [endpoint EXCEPT ![e].pc = "close", ![e].running = FALSE]
  /\ UNCHANGED <<client, endpoints, clientThreads, clientFds, openFds, brokerMutex, creator>>

CloseHostFd(e) ==
  /\ endpoint[e].pc = "close"
  /\ endpoint' = [endpoint EXCEPT ![e].pc = "returned", ![e].hostFd = FALSE]
  /\ UNCHANGED <<client, endpoints, clientThreads, clientFds, openFds, brokerMutex, creator>>

-----------------------------------------------------------------------------
(***************************************************************************)
(* HandleClient.                                                           *)
(***************************************************************************)
Goto(c, from, to) ==
  /\ client[c].pc = from
  /\ client' = [client EXCEPT ![c].pc = to]

BeginCommand(c) ==
  /\ Goto(c, "serve", "command")
  /\ brokerMutex = Nobody /\ brokerMutex' = c
  /\ UNCHANGED <<endpoint, endpoints, clientThreads, clientFds, openFds, creator>>

EndCommand(c) ==
  /\ Goto(c, "command", "serve")
  /\ brokerMutex' = Nobody
  /\ UNCHANGED <<endpoint, endpoints, clientThreads, clientFds, openFds, creator>>

\* End of file, a malformed packet, an unknown command or a failed reply.
\* Seeded fault: the slot is given up before the cleanup, not after it.
LeaveServeEarly(c) ==
  /\ client[c].pc = "serve"
  /\ client' = [client EXCEPT ![c].pc = "cleanup", ![c].running = FALSE]
  /\ UNCHANGED <<endpoint, endpoints, clientThreads, clientFds, openFds, brokerMutex, creator>>
LeaveServe(c) ==
  /\ Goto(c, "serve", "cleanup")
  /\ UNCHANGED <<endpoint, endpoints, clientThreads, clientFds, openFds, brokerMutex, creator>>

BeginCleanup(c) ==
  /\ Goto(c, "cleanup", "cleaning")
  /\ brokerMutex = Nobody /\ brokerMutex' = c
  /\ UNCHANGED <<endpoint, endpoints, clientThreads, clientFds, openFds, creator>>

EndCleanup(c) ==
  /\ Goto(c, "cleaning", "unregister")
  /\ brokerMutex' = Nobody
  /\ UNCHANGED <<endpoint, endpoints, clientThreads, clientFds, openFds, creator>>

\* Seeded fault: the descriptor is closed while Stop could still shut it down.
UnregisterAfterClose(c) ==
  /\ Goto(c, "unregister", "close")
  /\ openFds' = openFds \ {c}
  /\ UNCHANGED <<endpoint, endpoints, clientThreads, clientFds, brokerMutex, creator>>
Unregister(c) ==
  /\ Goto(c, "unregister", "close")
  /\ clientFds' = clientFds \ {c}
  /\ UNCHANGED <<endpoint, endpoints, clientThreads, openFds, brokerMutex, creator>>

\* Seeded fault: the socket is forgotten.
ClientFdForgotten(c) ==
  /\ Goto(c, "close", "finish")
  /\ UNCHANGED <<endpoint, endpoints, clientThreads, clientFds, openFds, brokerMutex, creator>>
CloseClientFd(c) ==
  /\ Goto(c, "close", "finish")
  /\ openFds' = openFds \ {c}
  /\ UNCHANGED <<endpoint, endpoints, clientThreads, clientFds, brokerMutex, creator>>

\* slot->running = false, then the thread function returns.
Finish(c) ==
  /\ client[c].pc = "finish"
  /\ client' = [client EXCEPT ![c] = [pc |-> "returning", running |-> FALSE, alive |-> TRUE]]
  /\ UNCHANGED <<endpoint, endpoints, clientThreads, clientFds, openFds, brokerMutex, creator>>

Return(c) ==
  /\ client[c].pc = "returning"
  /\ client' = [client EXCEPT ![c].pc = "returned", ![c].alive = FALSE]
  /\ UNCHANGED <<endpoint, endpoints, clientThreads, clientFds, openFds, brokerMutex, creator>>

-----------------------------------------------------------------------------
CreatorStep == Reap \/ JoinFinished \/ SpawnEndpoint \/ PushEndpoint
EndpointStep(e) ==
  SpawnClient(e) \/ SpawnFails(e) \/ PushClient(e) \/ JoinClients(e) \/ CloseHostFd(e)
ClientStep(c) ==
  \/ EndCommand(c) \/ BeginCleanup(c) \/ EndCleanup(c) \/ Unregister(c)
  \/ CloseClientFd(c) \/ Finish(c) \/ Return(c)

Next ==
  \/ CreateHandle \/ CreatorStep
  \/ \E e \in Endpoint :
       EndpointStep(e) \/ LeaveLoop(e) \/ \E c \in Client : Accept(e, c)
  \/ \E c \in Client : ClientStep(c) \/ BeginCommand(c) \/ LeaveServe(c)

Spec == Init /\ [][Next]_vars

(***************************************************************************)
(* Threads run; the mutex is granted now and then to one that waits for it *)
(* (strong fairness of BeginCleanup).  Clients may stay for ever.          *)
(***************************************************************************)
FairSpec ==
  /\ Spec
  /\ WF_vars(CreatorStep)
  /\ \A e \in Endpoint : WF_vars(EndpointStep(e))
  /\ \A c \in Client : WF_vars(ClientStep(c)) /\ SF_vars(BeginCleanup(c))

-----------------------------------------------------------------------------
\* Values stay in range.
TypeOK ==
  /\ endpoint \in [Endpoint ->
       [pc : {"unborn", "recv", "spawn", "push", "join", "close", "returned"},
        running : BOOLEAN, hostFd : BOOLEAN, at : Client \cup {Nobody}, joins : SUBSET Client]]
  /\ client \in [Client ->
       [pc : {"unborn", "refused", "serve", "command", "cleanup", "cleaning", "unregister", "close",
              "finish", "returning", "returned"},
        running : BOOLEAN, alive : BOOLEAN]]
  /\ endpoints \subseteq Endpoint /\ clientThreads \subseteq Client
  /\ clientFds \subseteq Client /\ openFds \subseteq Client
  /\ brokerMutex \in Client \cup {"creator", Nobody}
  /\ creator \in [pc : {"idle", "reap", "join", "spawn", "push"}, at : Endpoint \cup {Nobody},
                  joins : SUBSET (Endpoint \cup Client)]

BeingJoined(c) == c \in creator.joins \/ \E e \in Endpoint : c \in endpoint[e].joins

(***************************************************************************)
(* Joining with the broker's mutex held cannot wait for the mutex: a       *)
(* thread that is being joined has nothing left to do but to return, and   *)
(* the joiner's own thread is not among them.                              *)
(***************************************************************************)
JoinedThreadsAreDone ==
  /\ \A c \in Client : BeingJoined(c) => client[c].pc \in {"returning", "returned"}
  /\ \A e \in Endpoint \cap creator.joins : endpoint[e].pc \in {"returned"}

\* From where the thread of c will be joined.
PlacesOf(c) ==
  {<<"recording", e>> : e \in {f \in Endpoint : endpoint[f].at = c /\ endpoint[f].pc = "push"}}
  \cup {<<"joining", e>> : e \in {f \in Endpoint : c \in endpoint[f].joins}}
  \cup (IF c \in clientThreads THEN {<<"table", Nobody>>} ELSE {})
  \cup (IF c \in creator.joins THEN {<<"creator", Nobody>>} ELSE {})

(***************************************************************************)
(* Every client thread has exactly one place it will be joined from: the   *)
(* endpoint about to record it, the table, or one joiner.  None is lost    *)
(* (a joinable std::thread that is destroyed terminates the process) and   *)
(* none is joined twice.                                                   *)
(***************************************************************************)
EveryThreadHasOneJoiner ==
  \A c \in Client : /\ \A p, q \in PlacesOf(c) : p = q
                    /\ client[c].alive => PlacesOf(c) # {}

\* The three together: every thread is joined once, by one that does not wait for it.
ThreadsAreJoined == TypeOK /\ JoinedThreadsAreDone /\ EveryThreadHasOneJoiner

(***************************************************************************)
(* Stop shuts down every registered descriptor: each of them is still the  *)
(* open socket of its connection, never a number the kernel has reused.    *)
(***************************************************************************)
RegisteredFdsAreOpen == clientFds \subseteq openFds

(***************************************************************************)
(* A caller that waits for finished threads gets its handle: the joins     *)
(* under the mutex end.  (Spawning a Wine process waits for this call.)    *)
(***************************************************************************)
CreateHandleReturns == (creator.pc = "join") ~> (creator.pc = "idle")

\* The socket and the thread of a client that has left are given back.
ClientIsReleased ==
  \A c \in Client : (client[c].pc = "cleanup") ~> (c \notin openFds /\ ~client[c].alive)
=============================================================================
