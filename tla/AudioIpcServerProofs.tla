------------------------- MODULE AudioIpcServerProofs -------------------------
(***************************************************************************)
(* Proofs about AudioIpcServer, for every set of endpoints and of clients, *)
(* whatever fails to start and whoever leaves when.                        *)
(***************************************************************************)
EXTENDS AudioIpcServer, TLAPS

USE IpcAssumption

(***************************************************************************)
(* The inductive invariant.  The flags of a thread follow where it is; an  *)
(* endpoint holds a client only between its arrival and its record, and no *)
(* two hold the same one; a thread that was never started has no place to  *)
(* be joined from, and the places of one that was exclude each other.      *)
(***************************************************************************)
Serving == {"serve", "command", "cleanup", "cleaning", "unregister", "close", "finish"}
Looping == {"recv", "spawn", "push", "join"}

EndpointInv ==
  \A e \in Endpoint :
    /\ endpoint[e].running <=> endpoint[e].pc \in Looping
    /\ endpoint[e].hostFd <=> endpoint[e].pc \in Looping \cup {"close"}
    /\ endpoint[e].pc \in {"spawn", "push"} <=> endpoint[e].at # Nobody
    /\ endpoint[e].pc # "join" => endpoint[e].joins = {}
    /\ endpoint[e].pc = "spawn" => client[endpoint[e].at].pc = "unborn"
    /\ endpoint[e].pc = "push" => client[endpoint[e].at].pc \notin {"unborn", "refused"}
    /\ e \in endpoints => endpoint[e].pc # "unborn"

HandsApart ==
  \A e, f \in Endpoint : endpoint[e].at # Nobody /\ endpoint[e].at = endpoint[f].at => e = f

ClientInv ==
  \A c \in Client :
    /\ client[c].running <=> client[c].pc \in Serving
    /\ client[c].alive <=> client[c].pc \in Serving \cup {"returning"}
    /\ c \in clientFds =>
         c \in openFds /\ client[c].pc \in {"unborn", "serve", "command", "cleanup", "cleaning", "unregister"}

CreatorInv ==
  /\ creator.pc # "join" => creator.joins = {}
  /\ creator.pc = "push" => creator.at \in Endpoint /\ endpoint[creator.at].pc # "unborn"

Recording(c) == \E e \in Endpoint : endpoint[e].at = c /\ endpoint[e].pc = "push"
Joining(c) == \E e \in Endpoint : c \in endpoint[e].joins

PlacesApart ==
  \A c \in Client :
    /\ client[c].pc \in {"unborn", "refused"} =>
         ~Recording(c) /\ ~Joining(c) /\ c \notin clientThreads /\ c \notin creator.joins
    /\ Recording(c) => ~Joining(c) /\ c \notin clientThreads /\ c \notin creator.joins
    /\ Joining(c) => c \notin clientThreads /\ c \notin creator.joins
    /\ c \in clientThreads => c \notin creator.joins
    /\ \A e, f \in Endpoint : c \in endpoint[e].joins /\ c \in endpoint[f].joins => e = f
    /\ client[c].alive => Recording(c) \/ Joining(c) \/ c \in clientThreads \/ c \in creator.joins

IInv ==
  /\ TypeOK /\ EndpointInv /\ HandsApart /\ ClientInv /\ CreatorInv
  /\ PlacesApart /\ JoinedThreadsAreDone

EndpointRecord ==
  [pc : {"unborn", "recv", "spawn", "push", "join", "close", "returned"},
   running : BOOLEAN, hostFd : BOOLEAN, at : Client \cup {Nobody}, joins : SUBSET Client]

LEMMA InitIInv == Init => IInv
<1> SUFFICES ASSUME Init PROVE IInv
  OBVIOUS
<1>1. TypeOK
  BY DEF Init, TypeOK
<1> QED
  BY <1>1 DEF Init, IInv, EndpointInv, HandsApart, ClientInv, CreatorInv, PlacesApart, Recording, Joining,
     JoinedThreadsAreDone, BeingJoined, Serving, Looping

USE DEF IInv

-----------------------------------------------------------------------------
(***************************************************************************)
(* The creator.                                                            *)
(***************************************************************************)
LEMMA FinishedAreDone ==
  ASSUME IInv, NEW T \in SUBSET Client, \A c \in T : client[c].pc \notin {"unborn", "refused"}
  PROVE  \A c \in FinishedClients(T) : c \in T /\ client[c].pc \in {"returning", "returned"}
BY DEF FinishedClients, TypeOK, ClientInv, Serving

LEMMA CreateHandleStep == IInv /\ CreateHandle => IInv'
BY DEF CreateHandle, TypeOK, EndpointInv, HandsApart, ClientInv, CreatorInv, PlacesApart, Recording, Joining,
   JoinedThreadsAreDone, BeingJoined

LEMMA ReapStep == IInv /\ Reap => IInv'
<1> SUFFICES ASSUME IInv, Reap PROVE IInv'
  OBVIOUS
<1> DEFINE E == FinishedEndpoints
           C == FinishedClients(clientThreads)
<1>1. /\ creator.pc = "reap" /\ creator.joins = {}
      /\ creator' = [creator EXCEPT !.pc = "join", !.joins = E \cup C]
      /\ endpoints' = endpoints \ E /\ clientThreads' = clientThreads \ C
      /\ UNCHANGED <<endpoint, client, clientFds, openFds, brokerMutex>>
  BY DEF Reap, CreatorInv
<1>2. /\ E \in SUBSET Endpoint
      /\ \A e \in E : endpoint[e].pc = "returned"
  BY DEF FinishedEndpoints, TypeOK, EndpointInv, Looping
<1>3. /\ C \in SUBSET clientThreads
      /\ \A c \in C : client[c].pc \in {"returning", "returned"}
  <2>1. \A c \in clientThreads : client[c].pc \notin {"unborn", "refused"}
    BY DEF TypeOK, PlacesApart
  <2>2. clientThreads \in SUBSET Client
    BY DEF TypeOK
  <2> QED BY <2>1, <2>2, FinishedAreDone
<1> HIDE DEF E, C
<1>4. creator'.pc = "join" /\ creator'.joins = E \cup C /\ creator'.at = creator.at
  BY <1>1 DEF TypeOK
<1>5. TypeOK'
  BY <1>1, <1>2, <1>3 DEF TypeOK
<1>6. EndpointInv' /\ HandsApart' /\ ClientInv'
  BY <1>1 DEF EndpointInv, HandsApart, ClientInv
<1>7. CreatorInv'
  BY <1>4 DEF CreatorInv
<1>8. \A c \in Client : c \notin E
  BY <1>2
<1>9. PlacesApart'
  BY <1>1, <1>3, <1>4, <1>8 DEF PlacesApart, Recording, Joining, TypeOK
<1>10. JoinedThreadsAreDone'
  BY <1>1, <1>2, <1>3, <1>4, <1>8 DEF JoinedThreadsAreDone, BeingJoined, TypeOK
<1> QED
  BY <1>5, <1>6, <1>7, <1>9, <1>10

LEMMA JoinFinishedStep == IInv /\ JoinFinished => IInv'
<1> SUFFICES ASSUME IInv, JoinFinished PROVE IInv'
  OBVIOUS
<1>0. UNCHANGED <<endpoint, client, endpoints, clientThreads, clientFds, openFds, brokerMutex>>
  BY DEF JoinFinished
<1>1. /\ creator' \in [pc : {"idle", "reap", "join", "spawn", "push"}, at : Endpoint \cup {Nobody},
                       joins : SUBSET (Endpoint \cup Client)]
      /\ creator'.joins \subseteq creator.joins
      /\ creator'.pc # "push" /\ (creator'.pc # "join" => creator'.joins = {})
      /\ \A x \in creator.joins \ creator'.joins : Joinable(x)
  BY DEF JoinFinished, TypeOK
<1>2. TypeOK'
  BY <1>0, <1>1 DEF TypeOK
<1>3. EndpointInv' /\ HandsApart' /\ ClientInv' /\ CreatorInv' /\ JoinedThreadsAreDone'
  BY <1>0, <1>1 DEF EndpointInv, HandsApart, ClientInv, CreatorInv, JoinedThreadsAreDone, BeingJoined
<1>4. \A c \in Client : c \in creator.joins \ creator'.joins => ~client[c].alive
  BY <1>1 DEF Joinable
<1>5. PlacesApart'
  BY <1>0, <1>1, <1>4 DEF PlacesApart, Recording, Joining
<1> QED
  BY <1>2, <1>3, <1>5

LEMMA SpawnEndpointStep == IInv /\ SpawnEndpoint => IInv'
<1> SUFFICES ASSUME IInv, SpawnEndpoint PROVE IInv'
  OBVIOUS
<1>0. creator.pc = "spawn" /\ UNCHANGED <<client, endpoints, clientThreads, clientFds, openFds>>
  BY DEF SpawnEndpoint
<1>1. ASSUME NEW e \in Endpoint, endpoint[e].pc = "unborn",
             endpoint' = [endpoint EXCEPT ![e] = [@ EXCEPT !.pc = "recv", !.running = TRUE, !.hostFd = TRUE]],
             creator' = [creator EXCEPT !.pc = "push", !.at = e], UNCHANGED brokerMutex
      PROVE  IInv'
  <2>1. /\ endpoint'[e].pc = "recv" /\ endpoint'[e].running /\ endpoint'[e].hostFd
        /\ endpoint'[e].at = Nobody /\ endpoint'[e].joins = {}
        /\ endpoint[e].at = Nobody /\ endpoint[e].joins = {}
        /\ \A f \in Endpoint \ {e} : endpoint'[f] = endpoint[f]
        /\ endpoint' \in [Endpoint -> EndpointRecord]
    <3>1. endpoint[e] \in EndpointRecord /\ endpoint[e].at = Nobody /\ endpoint[e].joins = {}
      BY <1>1 DEF TypeOK, EndpointInv, EndpointRecord
    <3>2. endpoint \in [Endpoint -> EndpointRecord]
      BY DEF TypeOK, EndpointRecord
    <3>3. [endpoint[e] EXCEPT !.pc = "recv", !.running = TRUE, !.hostFd = TRUE] \in EndpointRecord
      BY <3>1 DEF EndpointRecord
    <3> QED
      BY <1>1, <3>1, <3>2, <3>3 DEF EndpointRecord
  <2>2. creator'.pc = "push" /\ creator'.at = e /\ creator'.joins = {}
        /\ creator' \in [pc : {"idle", "reap", "join", "spawn", "push"}, at : Endpoint \cup {Nobody},
                         joins : SUBSET (Endpoint \cup Client)] /\ creator.joins = {}
    BY <1>0, <1>1 DEF TypeOK, CreatorInv
  <2>3. TypeOK'
    BY <1>0, <1>1, <2>1, <2>2 DEF TypeOK, EndpointRecord
  <2>4. EndpointInv' /\ HandsApart' /\ ClientInv' /\ CreatorInv'
    BY <1>0, <2>1, <2>2 DEF EndpointInv, HandsApart, ClientInv, CreatorInv, Looping
  <2>5. \A c \in Client : (Recording(c)' <=> Recording(c)) /\ (Joining(c)' <=> Joining(c))
    BY <1>1, <2>1 DEF Recording, Joining
  <2>6. PlacesApart'
    BY <1>0, <2>1, <2>2, <2>5 DEF PlacesApart
  <2>7. JoinedThreadsAreDone'
    BY <1>0, <2>1, <2>2 DEF JoinedThreadsAreDone, BeingJoined
  <2> QED
    BY <2>3, <2>4, <2>6, <2>7
<1>2. CASE creator' = [creator EXCEPT !.pc = "idle"] /\ brokerMutex' = Nobody /\ UNCHANGED endpoint
  BY <1>0, <1>2 DEF TypeOK, EndpointInv, HandsApart, ClientInv, CreatorInv, PlacesApart, Recording, Joining,
     JoinedThreadsAreDone, BeingJoined
<1> QED
  BY <1>1, <1>2 DEF SpawnEndpoint

LEMMA PushEndpointStep == IInv /\ PushEndpoint => IInv'
<1> SUFFICES ASSUME IInv, PushEndpoint PROVE IInv'
  OBVIOUS
<1>1. /\ creator.at \in Endpoint /\ endpoint[creator.at].pc # "unborn"
      /\ creator'.pc = "idle" /\ creator'.joins = {} /\ creator.joins = {}
      /\ creator' \in [pc : {"idle", "reap", "join", "spawn", "push"}, at : Endpoint \cup {Nobody},
                       joins : SUBSET (Endpoint \cup Client)]
      /\ endpoints' = endpoints \cup {creator.at} /\ brokerMutex' = Nobody
      /\ UNCHANGED <<endpoint, client, clientThreads, clientFds, openFds>>
  BY DEF PushEndpoint, TypeOK, CreatorInv
<1>2. TypeOK'
  BY <1>1 DEF TypeOK
<1>3. EndpointInv' /\ HandsApart' /\ ClientInv' /\ CreatorInv'
  BY <1>1 DEF EndpointInv, HandsApart, ClientInv, CreatorInv
<1>4. PlacesApart' /\ JoinedThreadsAreDone'
  BY <1>1 DEF PlacesApart, Recording, Joining, JoinedThreadsAreDone, BeingJoined
<1> QED
  BY <1>2, <1>3, <1>4

-----------------------------------------------------------------------------
(***************************************************************************)
(* An endpoint's loop.                                                     *)
(***************************************************************************)
LEMMA AcceptStep ==
  ASSUME IInv, NEW e \in Endpoint, NEW c \in Client, Accept(e, c)
  PROVE  IInv'
<1>1. /\ endpoint' \in [Endpoint -> EndpointRecord]
      /\ endpoint[e].pc = "recv" /\ endpoint[e].joins = {} /\ endpoint[e].at = Nobody
      /\ endpoint'[e].pc = "spawn" /\ endpoint'[e].at = c /\ endpoint'[e].joins = {}
      /\ endpoint'[e].running = endpoint[e].running /\ endpoint'[e].hostFd = endpoint[e].hostFd
      /\ \A f \in Endpoint \ {e} : endpoint'[f] = endpoint[f]
  BY DEF Accept, TypeOK, EndpointInv, EndpointRecord
<1>2. /\ client[c].pc = "unborn" /\ \A f \in Endpoint : endpoint[f].at # c
      /\ openFds' = openFds \cup {c} /\ clientFds' = clientFds \cup {c}
      /\ UNCHANGED <<client, endpoints, clientThreads, brokerMutex, creator>>
  BY DEF Accept
<1>3. TypeOK'
  BY <1>1, <1>2 DEF TypeOK, EndpointRecord
<1>4. EndpointInv' /\ HandsApart' /\ CreatorInv'
  BY <1>1, <1>2 DEF EndpointInv, HandsApart, CreatorInv, Looping
<1>5. ClientInv'
  BY <1>2 DEF ClientInv
<1>6. \A d \in Client : (Recording(d)' <=> Recording(d)) /\ (Joining(d)' <=> Joining(d))
  BY <1>1 DEF Recording, Joining
<1>7. \A f \in Endpoint : endpoint'[f].joins = endpoint[f].joins
  BY <1>1
<1>8. PlacesApart'
  BY <1>2, <1>6, <1>7 DEF PlacesApart
<1>9. JoinedThreadsAreDone'
  BY <1>1, <1>2, <1>7 DEF JoinedThreadsAreDone, BeingJoined
<1> QED
  BY <1>3, <1>4, <1>5, <1>8, <1>9

ClientRecord ==
  [pc : {"unborn", "refused", "serve", "command", "cleanup", "cleaning", "unregister", "close",
         "finish", "returning", "returned"},
   running : BOOLEAN, alive : BOOLEAN]

LEMMA SpawnClientStep == ASSUME IInv, NEW e \in Endpoint, SpawnClient(e) PROVE IInv'
<1>0. PICK c \in Client : c = endpoint[e].at /\ endpoint[e].pc = "spawn"
  BY DEF SpawnClient, TypeOK, EndpointInv
<1>1. /\ endpoint[e].at = c /\ client[c].pc = "unborn" /\ endpoint[e].pc = "spawn" /\ endpoint[e].joins = {}
      /\ endpoint' \in [Endpoint -> EndpointRecord]
      /\ endpoint'[e].pc = "push" /\ endpoint'[e].at = c /\ endpoint'[e].joins = {}
      /\ endpoint'[e].running = endpoint[e].running /\ endpoint'[e].hostFd = endpoint[e].hostFd
      /\ \A f \in Endpoint \ {e} : endpoint'[f] = endpoint[f]
  BY <1>0 DEF SpawnClient, TypeOK, EndpointInv, EndpointRecord
<1>2. /\ client' \in [Client -> ClientRecord]
      /\ client'[c].pc = "serve" /\ client'[c].running /\ client'[c].alive
      /\ \A d \in Client \ {c} : client'[d] = client[d]
  BY <1>0, <1>1 DEF SpawnClient, TypeOK, ClientRecord
<1>3. UNCHANGED <<endpoints, clientThreads, clientFds, openFds, brokerMutex, creator>>
  BY <1>0 DEF SpawnClient
<1>4. \A f \in Endpoint \ {e} : endpoint[f].at # c
  BY <1>1 DEF HandsApart
<1>5. TypeOK'
  BY <1>1, <1>2, <1>3 DEF TypeOK, EndpointRecord, ClientRecord
<1>6. EndpointInv'
  <2>1. \A f \in Endpoint \ {e} : endpoint[f].at # Nobody => endpoint[f].at \in Client \ {c}
    BY <1>4 DEF TypeOK
  <2> QED
    BY <1>1, <1>2, <1>3, <2>1 DEF EndpointInv, Looping
<1>7. HandsApart' /\ CreatorInv'
  BY <1>1, <1>3, <1>4 DEF HandsApart, CreatorInv
<1>8. ClientInv'
  BY <1>1, <1>2, <1>3 DEF ClientInv, Serving
<1>9. /\ Recording(c)' /\ ~Joining(c) /\ c \notin clientThreads /\ c \notin creator.joins
      /\ \A d \in Client : Joining(d)' <=> Joining(d)
      /\ \A d \in Client \ {c} : Recording(d)' <=> Recording(d)
  <2>1. Recording(c)'
    BY <1>1 DEF Recording
  <2>2. ~Joining(c) /\ c \notin clientThreads /\ c \notin creator.joins
    BY <1>1 DEF PlacesApart
  <2>3. \A d \in Client : Joining(d)' <=> Joining(d)
    BY <1>1 DEF Joining
  <2>4. \A d \in Client \ {c} : Recording(d)' <=> Recording(d)
    BY <1>1 DEF Recording
  <2> QED
    BY <2>1, <2>2, <2>3, <2>4
<1>10. \A f \in Endpoint : endpoint'[f].joins = endpoint[f].joins
  BY <1>1
<1>11. PlacesApart'
  <2> SUFFICES ASSUME NEW d \in Client
               PROVE  /\ client'[d].pc \in {"unborn", "refused"} =>
                           ~Recording(d)' /\ ~Joining(d)' /\ d \notin clientThreads /\ d \notin creator.joins
                      /\ Recording(d)' => ~Joining(d)' /\ d \notin clientThreads /\ d \notin creator.joins
                      /\ Joining(d)' => d \notin clientThreads /\ d \notin creator.joins
                      /\ d \in clientThreads => d \notin creator.joins
                      /\ \A f, g \in Endpoint : d \in endpoint[f].joins /\ d \in endpoint[g].joins => f = g
                      /\ client'[d].alive => Recording(d)' \/ Joining(d)' \/ d \in clientThreads
                                               \/ d \in creator.joins
    BY <1>3, <1>10 DEF PlacesApart
  <2>1. CASE d = c
    BY <1>2, <1>9, <2>1 DEF PlacesApart
  <2>2. CASE d # c
    BY <1>2, <1>9, <2>2 DEF PlacesApart
  <2> QED
    BY <2>1, <2>2
<1>12. JoinedThreadsAreDone'
  BY <1>1, <1>2, <1>3, <1>10 DEF JoinedThreadsAreDone, BeingJoined
<1> QED
  BY <1>5, <1>6, <1>7, <1>8, <1>11, <1>12

LEMMA SpawnFailsStep == ASSUME IInv, NEW e \in Endpoint, SpawnFails(e) PROVE IInv'
<1>0. PICK c \in Client : c = endpoint[e].at /\ endpoint[e].pc = "spawn"
  BY DEF SpawnFails, TypeOK, EndpointInv
<1>1. /\ endpoint[e].at = c /\ client[c].pc = "unborn" /\ endpoint[e].pc = "spawn" /\ endpoint[e].joins = {}
      /\ endpoint' \in [Endpoint -> EndpointRecord]
      /\ endpoint'[e].pc = "recv" /\ endpoint'[e].at = Nobody /\ endpoint'[e].joins = {}
      /\ endpoint'[e].running = endpoint[e].running /\ endpoint'[e].hostFd = endpoint[e].hostFd
      /\ \A f \in Endpoint \ {e} : endpoint'[f] = endpoint[f]
  BY <1>0 DEF SpawnFails, TypeOK, EndpointInv, EndpointRecord
<1>2. /\ client' \in [Client -> ClientRecord]
      /\ client'[c].pc = "refused" /\ client'[c].running = client[c].running
      /\ client'[c].alive = client[c].alive
      /\ \A d \in Client \ {c} : client'[d] = client[d]
  BY <1>0, <1>1 DEF SpawnFails, TypeOK, ClientRecord
<1>3. /\ clientFds' = clientFds \ {c} /\ openFds' = openFds \ {c}
      /\ UNCHANGED <<endpoints, clientThreads, brokerMutex, creator>>
  BY <1>0 DEF SpawnFails
<1>4. \A f \in Endpoint \ {e} : endpoint[f].at # c
  BY <1>1 DEF HandsApart
<1>5. TypeOK'
  BY <1>1, <1>2, <1>3 DEF TypeOK, EndpointRecord, ClientRecord
<1>6. EndpointInv'
  <2>1. \A f \in Endpoint \ {e} : endpoint[f].at # Nobody => endpoint[f].at \in Client \ {c}
    BY <1>4 DEF TypeOK
  <2> QED
    BY <1>1, <1>2, <1>3, <2>1 DEF EndpointInv, Looping
<1>7. HandsApart' /\ CreatorInv'
  BY <1>1, <1>3, <1>4 DEF HandsApart, CreatorInv
<1>8. ClientInv'
  BY <1>1, <1>2, <1>3 DEF ClientInv, Serving
<1>9. \A d \in Client : (Joining(d)' <=> Joining(d)) /\ (Recording(d)' <=> Recording(d))
  BY <1>1, <1>4 DEF Recording, Joining
<1>10. \A f \in Endpoint : endpoint'[f].joins = endpoint[f].joins
  BY <1>1
<1>11. PlacesApart'
  BY <1>1, <1>2, <1>3, <1>9, <1>10 DEF PlacesApart
<1>12. JoinedThreadsAreDone'
  BY <1>1, <1>2, <1>3, <1>10 DEF JoinedThreadsAreDone, BeingJoined
<1> QED
  BY <1>5, <1>6, <1>7, <1>8, <1>11, <1>12

LEMMA PushClientStep == ASSUME IInv, NEW e \in Endpoint, PushClient(e) PROVE IInv'
<1>0. PICK c \in Client : c = endpoint[e].at /\ endpoint[e].pc = "push"
  BY DEF PushClient, TypeOK, EndpointInv
<1>01. PICK threads : threads = clientThreads \cup {c}
  OBVIOUS
<1>02. PICK done : done = FinishedClients(threads)
  OBVIOUS
<1>1. /\ endpoint[e].at = c /\ client[c].pc \notin {"unborn", "refused"} /\ endpoint[e].joins = {}
      /\ endpoint[e].pc = "push"
      /\ UNCHANGED <<client, endpoints, clientFds, openFds, brokerMutex, creator>>
      /\ clientThreads' = threads \ done
      /\ endpoint' = [endpoint EXCEPT ![e] = [@ EXCEPT !.pc = "join", !.at = Nobody, !.joins = done]]
  BY <1>0, <1>01, <1>02 DEF PushClient, TypeOK, EndpointInv
<1>2. done \in SUBSET threads /\ \A d \in done : client[d].pc \in {"returning", "returned"}
  <2>1. threads \in SUBSET Client /\ \A d \in threads : client[d].pc \notin {"unborn", "refused"}
    BY <1>1, <1>01 DEF TypeOK, PlacesApart
  <2>2. \A d \in FinishedClients(threads) : d \in threads /\ client[d].pc \in {"returning", "returned"}
    BY <2>1, FinishedAreDone
  <2> QED BY <1>02, <2>2
<1>3. ~Joining(c) /\ c \notin clientThreads /\ c \notin creator.joins
  BY <1>1 DEF PlacesApart, Recording
<1>4. threads \in SUBSET Client /\ c \in threads
      /\ \A d \in threads \ {c} : ~Joining(d) /\ ~Recording(d) /\ d \notin creator.joins
  BY <1>1, <1>01 DEF TypeOK, PlacesApart
<1>5. \A f \in Endpoint \ {e} : endpoint[f].at # c
  BY <1>1 DEF HandsApart
<1>6. clientThreads = threads \ {c}
  BY <1>3, <1>01
<1>7. /\ endpoint'[e].pc = "join" /\ endpoint'[e].at = Nobody /\ endpoint'[e].joins = done
      /\ endpoint'[e].running = endpoint[e].running /\ endpoint'[e].hostFd = endpoint[e].hostFd
      /\ \A f \in Endpoint \ {e} : endpoint'[f] = endpoint[f]
      /\ endpoint' \in [Endpoint -> EndpointRecord]
  <2>1. done \in SUBSET Client
    BY <1>2, <1>4
  <2>2. endpoint \in [Endpoint -> EndpointRecord]
    BY DEF TypeOK, EndpointRecord
  <2>3. [endpoint[e] EXCEPT !.pc = "join", !.at = Nobody, !.joins = done] \in EndpointRecord
    BY <2>1, <2>2 DEF EndpointRecord
  <2> QED
    BY <1>1, <2>2, <2>3 DEF EndpointRecord
<1>8. TypeOK'
  BY <1>1, <1>4, <1>7 DEF TypeOK, EndpointRecord
<1>9. EndpointInv'
  BY <1>1, <1>7 DEF EndpointInv, Looping
<1>10. HandsApart' /\ CreatorInv' /\ ClientInv'
  BY <1>1, <1>7 DEF HandsApart, CreatorInv, ClientInv
<1>11. /\ ~Recording(c)'
       /\ \A d \in Client \ {c} : Recording(d)' <=> Recording(d)
       /\ \A d \in Client : Joining(d)' <=> Joining(d) \/ d \in done
  <2>1. ~Recording(c)'
    BY <1>1, <1>5, <1>7 DEF Recording
  <2>2. \A d \in Client \ {c} : Recording(d)' <=> Recording(d)
    BY <1>1, <1>7 DEF Recording
  <2>3. \A d \in Client : Joining(d)' <=> Joining(d) \/ d \in done
    BY <1>1, <1>7 DEF Joining
  <2> QED
    BY <2>1, <2>2, <2>3
<1>12. \A f, g \in Endpoint : \A d \in Client : d \in endpoint'[f].joins /\ d \in endpoint'[g].joins => f = g
  BY <1>2, <1>3, <1>4, <1>7 DEF PlacesApart, Joining
<1>13. PlacesApart'
  <2>1. \A d \in done : d \in threads /\ client[d].pc \in {"returning", "returned"}
    BY <1>2
  <2> SUFFICES ASSUME NEW d \in Client
               PROVE  /\ client[d].pc \in {"unborn", "refused"} =>
                           ~Recording(d)' /\ ~Joining(d)' /\ d \notin clientThreads' /\ d \notin creator.joins
                      /\ Recording(d)' => ~Joining(d)' /\ d \notin clientThreads' /\ d \notin creator.joins
                      /\ Joining(d)' => d \notin clientThreads' /\ d \notin creator.joins
                      /\ d \in clientThreads' => d \notin creator.joins
                      /\ client[d].alive => Recording(d)' \/ Joining(d)' \/ d \in clientThreads'
                                              \/ d \in creator.joins
    BY <1>1, <1>12 DEF PlacesApart
  <2>2. CASE d = c
    <3>1. /\ ~Recording(d)' /\ d \notin creator.joins /\ (Joining(d)' <=> d \in done)
          /\ d \in clientThreads' <=> d \notin done
      BY <1>1, <1>3, <1>4, <1>11, <2>2
    <3> QED
      BY <1>1, <2>2, <3>1
  <2>3. CASE d # c
    BY <1>1, <1>4, <1>6, <1>11, <2>1, <2>3 DEF PlacesApart
  <2> QED
    BY <2>2, <2>3
<1>14. JoinedThreadsAreDone'
  BY <1>1, <1>2, <1>7 DEF JoinedThreadsAreDone, BeingJoined
<1> QED
  BY <1>8, <1>9, <1>10, <1>13, <1>14

LEMMA JoinClientsStep == ASSUME IInv, NEW e \in Endpoint, JoinClients(e) PROVE IInv'
<1>1. /\ endpoint[e].pc = "join" /\ endpoint' \in [Endpoint -> EndpointRecord]
      /\ endpoint'[e].pc \in {"recv", "join"} /\ endpoint'[e].at = endpoint[e].at
      /\ endpoint'[e].running = endpoint[e].running /\ endpoint'[e].hostFd = endpoint[e].hostFd
      /\ endpoint'[e].joins \subseteq endpoint[e].joins
      /\ endpoint'[e].pc = "recv" => endpoint'[e].joins = {}
      /\ \A c \in endpoint[e].joins \ endpoint'[e].joins : Joinable(c)
      /\ \A f \in Endpoint \ {e} : endpoint'[f] = endpoint[f]
  <2>1. endpoint \in [Endpoint -> EndpointRecord] /\ endpoint[e].pc = "join"
    BY DEF JoinClients, TypeOK, EndpointRecord
  <2>2. CASE endpoint[e].joins = {}
    <3>1. endpoint' = [endpoint EXCEPT ![e].pc = "recv"]
      BY <2>2 DEF JoinClients
    <3> QED
      BY <2>1, <2>2, <3>1 DEF EndpointRecord
  <2>3. CASE endpoint[e].joins # {}
    <3>1. PICK c \in endpoint[e].joins :
            Joinable(c) /\ endpoint' = [endpoint EXCEPT ![e].joins = @ \ {c}]
      BY <2>3 DEF JoinClients
    <3>2. [endpoint[e] EXCEPT !.joins = @ \ {c}] \in EndpointRecord
      BY <2>1 DEF EndpointRecord
    <3> QED
      BY <2>1, <3>1, <3>2 DEF EndpointRecord
  <2> QED
    BY <2>2, <2>3
<1>2. UNCHANGED <<client, endpoints, clientThreads, clientFds, openFds, brokerMutex, creator>>
  BY DEF JoinClients
<1>3. TypeOK'
  BY <1>1, <1>2 DEF TypeOK, EndpointRecord
<1>4. EndpointInv' /\ HandsApart' /\ CreatorInv' /\ ClientInv'
  BY <1>1, <1>2 DEF EndpointInv, HandsApart, CreatorInv, ClientInv, Looping
<1>5. /\ \A c \in Client : Recording(c)' <=> Recording(c)
      /\ \A c \in Client : Joining(c)' => Joining(c)
      /\ \A c \in Client : client[c].alive /\ Joining(c) => Joining(c)'
  BY <1>1 DEF Recording, Joining, Joinable
<1>6. PlacesApart'
  BY <1>1, <1>2, <1>5 DEF PlacesApart
<1>7. JoinedThreadsAreDone'
  BY <1>1, <1>2 DEF JoinedThreadsAreDone, BeingJoined
<1> QED
  BY <1>3, <1>4, <1>6, <1>7

\* recv returns 0; then the descriptor is closed.
LEMMA LeaveLoopStep ==
  ASSUME IInv, NEW e \in Endpoint, LeaveLoop(e) \/ CloseHostFd(e)
  PROVE  IInv'
<1>1. /\ endpoint' \in [Endpoint -> EndpointRecord]
      /\ endpoint[e].pc \in {"recv", "close"}
      /\ endpoint'[e].pc = (IF endpoint[e].pc = "recv" THEN "close" ELSE "returned")
      /\ endpoint'[e].running = FALSE
      /\ endpoint'[e].hostFd <=> endpoint'[e].pc = "close"
      /\ endpoint'[e].at = endpoint[e].at /\ endpoint'[e].joins = endpoint[e].joins
      /\ \A f \in Endpoint \ {e} : endpoint'[f] = endpoint[f]
  BY DEF LeaveLoop, CloseHostFd, TypeOK, EndpointRecord, EndpointInv, Looping
<1>2. UNCHANGED <<client, endpoints, clientThreads, clientFds, openFds, brokerMutex, creator>>
  BY DEF LeaveLoop, CloseHostFd
<1>3. TypeOK'
  BY <1>1, <1>2 DEF TypeOK, EndpointRecord
<1>4. EndpointInv' /\ HandsApart' /\ CreatorInv' /\ ClientInv'
  BY <1>1, <1>2 DEF EndpointInv, HandsApart, CreatorInv, ClientInv, Looping
<1>5. \A c \in Client : (Recording(c)' <=> Recording(c)) /\ (Joining(c)' <=> Joining(c))
  BY <1>1 DEF Recording, Joining
<1>6. \A f \in Endpoint : endpoint'[f].joins = endpoint[f].joins
  BY <1>1
<1>7. PlacesApart'
  BY <1>2, <1>5, <1>6 DEF PlacesApart
<1>8. JoinedThreadsAreDone'
  BY <1>1, <1>2, <1>6 DEF JoinedThreadsAreDone, BeingJoined
<1> QED
  BY <1>3, <1>4, <1>7, <1>8

-----------------------------------------------------------------------------
(***************************************************************************)
(* A client's thread.                                                      *)
(***************************************************************************)
LEMMA ServingStep ==
  ASSUME IInv, NEW c \in Client, ClientStep(c) \/ BeginCommand(c) \/ LeaveServe(c)
  PROVE  IInv'
<1>1. UNCHANGED <<endpoint, endpoints, clientThreads, creator>>
  BY DEF ClientStep, BeginCommand, LeaveServe, EndCommand, BeginCleanup, EndCleanup, Unregister,
     CloseClientFd, Finish, Return
<1> DEFINE Moved ==
      /\ client' \in [Client -> ClientRecord]
      /\ client[c].pc \in Serving \cup {"returning"}
      /\ client'[c].pc \in Serving \cup {"returning", "returned"}
      /\ client[c].pc = "returning" => client'[c].pc = "returned"
      /\ client'[c].running <=> client'[c].pc \in Serving
      /\ client'[c].alive <=> client'[c].pc \in Serving \cup {"returning"}
      /\ \A d \in Client \ {c} : client'[d] = client[d]
<1>2. Moved
  <2>1. ASSUME NEW from \in Serving, NEW to \in Serving, Goto(c, from, to) PROVE Moved
    BY <2>1 DEF Goto, TypeOK, ClientInv, ClientRecord, Serving
  <2>2. CASE Finish(c)
    <3>1. [pc |-> "returning", running |-> FALSE, alive |-> TRUE] \in ClientRecord
      BY DEF ClientRecord
    <3> QED
      BY <2>2, <3>1 DEF Finish, TypeOK, ClientRecord, Serving
  <2>3. CASE Return(c)
    BY <2>3 DEF Return, TypeOK, ClientInv, ClientRecord, Serving
  <2>4. CASE ~Finish(c) /\ ~Return(c)
    <3>1. \E from, to \in Serving : Goto(c, from, to)
      BY <2>4 DEF ClientStep, BeginCommand, LeaveServe, EndCommand, BeginCleanup, EndCleanup, Unregister,
         CloseClientFd, Serving
    <3> QED
      BY <2>1, <3>1
  <2> QED
    BY <2>2, <2>3, <2>4
<1>3. /\ brokerMutex' \in Client \cup {"creator", Nobody}
      /\ clientFds' \subseteq clientFds /\ openFds' \subseteq openFds
      /\ \A d \in Client \ {c} : d \in openFds => d \in openFds'
      /\ c \in clientFds' => c \in openFds' /\ client'[c].pc \in
           {"serve", "command", "cleanup", "cleaning", "unregister"}
  BY DEF ClientStep, BeginCommand, LeaveServe, EndCommand, BeginCleanup, EndCleanup, Unregister,
     CloseClientFd, Finish, Return, Goto, TypeOK, ClientInv
<1>4. TypeOK'
  BY <1>1, <1>2, <1>3 DEF TypeOK, ClientRecord
<1>5. EndpointInv'
  <2>1. \A e \in Endpoint : endpoint[e].pc = "spawn" => endpoint[e].at # c
    BY <1>2 DEF EndpointInv, Serving
  <2>2. \A e \in Endpoint : endpoint[e].pc \in {"spawn", "push"} => endpoint[e].at \in Client
    BY DEF EndpointInv, TypeOK
  <2> QED
    BY <1>1, <1>2, <2>1, <2>2 DEF EndpointInv, Serving
<1>6. HandsApart' /\ CreatorInv'
  BY <1>1 DEF HandsApart, CreatorInv
<1>7. ClientInv'
  BY <1>2, <1>3 DEF ClientInv
<1>8. \A d \in Client : (Recording(d)' <=> Recording(d)) /\ (Joining(d)' <=> Joining(d))
  BY <1>1 DEF Recording, Joining
<1>9. PlacesApart'
  BY <1>1, <1>2, <1>8 DEF PlacesApart, ClientInv, Serving
<1>10. JoinedThreadsAreDone'
  BY <1>1, <1>2 DEF JoinedThreadsAreDone, BeingJoined, Serving
<1> QED
  BY <1>4, <1>5, <1>6, <1>7, <1>9, <1>10

-----------------------------------------------------------------------------
LEMMA NextIInv == IInv /\ [Next]_vars => IInv'
<1> SUFFICES ASSUME IInv, [Next]_vars PROVE IInv'
  OBVIOUS
<1>1. CASE CreateHandle \/ CreatorStep
  BY <1>1, CreateHandleStep, ReapStep, JoinFinishedStep, SpawnEndpointStep, PushEndpointStep DEF CreatorStep
<1>2. ASSUME NEW e \in Endpoint, EndpointStep(e) \/ LeaveLoop(e) PROVE IInv'
  BY <1>2, SpawnClientStep, SpawnFailsStep, PushClientStep, JoinClientsStep, LeaveLoopStep DEF EndpointStep
<1>3. ASSUME NEW e \in Endpoint, NEW c \in Client, Accept(e, c) PROVE IInv'
  BY <1>3, AcceptStep
<1>4. ASSUME NEW c \in Client, ClientStep(c) \/ BeginCommand(c) \/ LeaveServe(c) PROVE IInv'
  BY <1>4, ServingStep
<1>5. CASE UNCHANGED vars
  BY <1>5 DEF vars, TypeOK, EndpointInv, HandsApart, ClientInv, CreatorInv, PlacesApart, Recording, Joining,
     JoinedThreadsAreDone, BeingJoined
<1> QED
  BY <1>1, <1>2, <1>3, <1>4, <1>5 DEF Next

LEMMA IInvImplies == IInv => ThreadsAreJoined /\ RegisteredFdsAreOpen
<1> SUFFICES ASSUME IInv PROVE EveryThreadHasOneJoiner /\ RegisteredFdsAreOpen
  BY DEF ThreadsAreJoined
<1>1. RegisteredFdsAreOpen
  BY DEF RegisteredFdsAreOpen, ClientInv, TypeOK
<1>2. ASSUME NEW c \in Client, NEW p \in PlacesOf(c), NEW q \in PlacesOf(c) PROVE p = q
  <2>1. \A x \in PlacesOf(c) :
          \/ Recording(c) /\ \E e \in Endpoint : endpoint[e].at = c /\ x = <<"recording", e>>
          \/ Joining(c) /\ \E e \in Endpoint : c \in endpoint[e].joins /\ x = <<"joining", e>>
          \/ c \in clientThreads /\ x = <<"table", Nobody>>
          \/ c \in creator.joins /\ x = <<"creator", Nobody>>
    BY DEF PlacesOf, Recording, Joining
  <2>2. \A e, f \in Endpoint : endpoint[e].at = c /\ endpoint[f].at = c => e = f
    BY DEF HandsApart
  <2>3. \A e, f \in Endpoint : c \in endpoint[e].joins /\ c \in endpoint[f].joins => e = f
    BY DEF PlacesApart
  <2> QED
    BY <2>1, <2>2, <2>3 DEF PlacesApart
<1>3. ASSUME NEW c \in Client, client[c].alive PROVE PlacesOf(c) # {}
  <2>1. CASE Recording(c)
    <3>1. PICK e \in Endpoint : endpoint[e].at = c /\ endpoint[e].pc = "push"
      BY <2>1 DEF Recording
    <3>2. <<"recording", e>> \in PlacesOf(c)
      BY <3>1 DEF PlacesOf
    <3> QED BY <3>2
  <2>2. CASE Joining(c)
    <3>1. PICK e \in Endpoint : c \in endpoint[e].joins
      BY <2>2 DEF Joining
    <3>2. <<"joining", e>> \in PlacesOf(c)
      BY <3>1 DEF PlacesOf
    <3> QED BY <3>2
  <2>3. CASE c \in clientThreads
    <3>1. <<"table", Nobody>> \in PlacesOf(c)
      BY <2>3 DEF PlacesOf
    <3> QED BY <3>1
  <2>4. CASE c \in creator.joins
    <3>1. <<"creator", Nobody>> \in PlacesOf(c)
      BY <2>4 DEF PlacesOf
    <3> QED BY <3>1
  <2> QED
    BY <1>3, <2>1, <2>2, <2>3, <2>4 DEF PlacesApart
<1> QED
  BY <1>1, <1>2, <1>3 DEF EveryThreadHasOneJoiner

(***************************************************************************)
(* For every number of endpoints and clients, each thread that was started *)
(* is joined from exactly one place and a join under the broker's mutex    *)
(* only waits for a thread that no longer needs it.                        *)
(***************************************************************************)
THEOREM ThreadsStayJoined == Spec => []ThreadsAreJoined
BY InitIInv, NextIInv, IInvImplies, PTL DEF Spec

(***************************************************************************)
(* A descriptor that Stop could shut down is always the open socket of the *)
(* connection it was registered for.                                       *)
(***************************************************************************)
THEOREM RegisteredFdsStayOpen == Spec => []RegisteredFdsAreOpen
BY InitIInv, NextIInv, IInvImplies, PTL DEF Spec
=============================================================================
