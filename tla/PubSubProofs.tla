---------------------------- MODULE PubSubProofs ----------------------------
(***************************************************************************)
(* What is proved of PubSub for every value of its constants.              *)
(*                                                                         *)
(* IInv is inductive.  The proof goes action by action; the actions that   *)
(* end the server, close a connection or consume a packet share a lemma.   *)
(***************************************************************************)
EXTENDS PubSub, ListProofs, FiniteSetTheorems

\* The values of the constants of Sockets that the steps compare.
LEMMA Fds == /\ STDIN_FILENO \notin ClientFds /\ UDP_fd \notin ClientFds /\ TCP_fd \notin ClientFds
             /\ STDIN_FILENO \in Descriptors /\ UDP_fd \in Descriptors /\ TCP_fd \in Descriptors
             /\ STDIN_FILENO = 0 /\ UDP_fd = 3 /\ TCP_fd = 4
             /\ ClientFds \subseteq Descriptors
             /\ ClientFds \subseteq Int
BY SocketsAssumption DEF ClientFds, Descriptors, STDIN_FILENO, UDP_fd, TCP_fd

USE TableAssumption, SocketsAssumption

LEMMA InitIInv == Init => IInv
<1>. SUFFICES ASSUME Init PROVE IInv
  OBVIOUS
<1>. USE DEF Init, SocketsInit, ServerInit, SubscriberInit, poller_create
<1>1. SocketsTypeOK
  BY DEF SocketsTypeOK, ConnStates, Trailers
<1>2. PollerTypeOK(Descriptors)
  <2>1. pollfds \in [Slots -> [fd : Descriptors, revents : BOOLEAN]]
    BY Fds DEF Slots
  <2>2. num_pollfds = 3 /\ idx_iterator = 0
    OBVIOUS
  <2>. HIDE DEF Init, SocketsInit, ServerInit, SubscriberInit, poller_create
  <2>3. num_pollfds \in 3 .. MAX_CONNECTIONS /\ idx_iterator \in Nat
    BY <2>2
  <2>. QED  BY <2>1, <2>3 DEF PollerTypeOK
<1>3. ServerTypeOK
  BY <1>2 DEF ServerTypeOK, ServerStates
<1>4. SubscriberTypeOK
  BY SubscriberAssumption DEF SubscriberTypeOK, SubscriberStates
<1>5. EntriesAgree
  <2>1. PollerHoldsClients
    BY DEF PollerHoldsClients, Slots
  <2>2. ClientsHoldSockets /\ SocketsHoldConnections
    BY DEF ClientsHoldSockets, SocketsHoldConnections
  <2>. QED  BY <2>1, <2>2 DEF EntriesAgree
<1>6. QueueAgrees
  BY DEF QueueAgrees
<1>7. ReportedReady
  BY DEF ReportedReady, Pending
<1>8. NothingSent
  BY DEF NothingSent
<1>. QED  BY <1>1, <1>3, <1>4, <1>5, <1>6, <1>7, <1>8 DEF IInv, TypeOK

-----------------------------------------------------------------------------
(* The end of the server: CloseAll leaves no queued and no open connection.*)

LEMMA EndPreservesIInv ==
  ASSUME IInv,
         NEW status \in ServerStates \ {"running"}, NEW unread,
         ServerEnds(status, unread),
         UNCHANGED inbox, UNCHANGED subscriberVars
  PROVE  IInv'
<1>. USE DEF ServerEnds, CloseAll, subscriberVars, pollerVars, listVars
<1>1. conn' \in [Procs -> ConnStates] /\ \A p \in Procs : conn'[p] # "queued" /\ (conn[p] = "none" => conn'[p] = "none")
  BY DEF IInv, TypeOK, SocketsTypeOK, ConnStates, Closed
<1>2. SocketsTypeOK'
  BY <1>1 DEF IInv, TypeOK, SocketsTypeOK, Trailers
<1>3. ServerTypeOK'
  BY DEF IInv, TypeOK, ServerTypeOK, PollerTypeOK
<1>4. SubscriberTypeOK'
  BY DEF IInv, TypeOK, SubscriberTypeOK
<1>5. EntriesAgree' /\ ReportedReady'
  BY DEF EntriesAgree, ReportedReady
<1>6. QueueAgrees'
  BY <1>1 DEF IInv, QueueAgrees
<1>7. NothingSent'
  BY DEF IInv, NothingSent
<1>. QED  BY <1>2, <1>3, <1>4, <1>5, <1>6, <1>7 DEF IInv, TypeOK

-----------------------------------------------------------------------------
(* What is left of the parts of IInv by a step that does not touch their    *)
(* variables, or hardly.                                                   *)

\* Entries depend on the descriptors in the list and on which connections are
\* open, not on the states and ids of the clients.
LEMMA EntriesStay ==
  ASSUME EntriesAgree,
         UNCHANGED <<pollfds, num_pollfds, srv, sock>>,
         Len(connected_clients') = Len(connected_clients),
         \A k \in 1 .. Len(connected_clients) : connected_clients'[k].fd = connected_clients[k].fd,
         \A p \in Procs : conn'[p] = "accepted" <=> conn[p] = "accepted"
  PROVE  EntriesAgree'
<1>. SUFFICES ASSUME srv = "running" PROVE EntriesAgree'
  BY DEF EntriesAgree
<1>1. PollerHoldsClients'
  BY DEF EntriesAgree, PollerHoldsClients
<1>2. ClientsHoldSockets'
  BY DEF EntriesAgree, ClientsHoldSockets
<1>3. SocketsHoldConnections'
  BY DEF EntriesAgree, SocketsHoldConnections
<1>. QED  BY <1>1, <1>2, <1>3 DEF EntriesAgree

\* No connection enters or leaves the queue.
LEMMA QueueStays ==
  ASSUME QueueAgrees, UNCHANGED backlog,
         \A p \in Procs : pc'[p] = "idle" => pc[p] = "idle" /\ conn'[p] = conn[p],
         \A p \in Procs : conn'[p] = "queued" <=> conn[p] = "queued"
  PROVE  QueueAgrees'
BY DEF QueueAgrees

\* Nothing new is reported, and what was reported has not been taken.
LEMMA ReportedStays ==
  ASSUME ReportedReady, SocketsTypeOK', srv' = "running" => srv = "running",
         \A i \in 0 .. 2 : i \in Pending' => i \in Pending,
         0 \in Pending' => \/ typed' # <<>> \/ trailer' # "nothing"
                           \/ UNCHANGED <<typed, trailer>>,
         0 \in Pending' => UNCHANGED stdio,
         1 \in Pending' => udp_queue' # <<>> \/ udp_queue' = udp_queue,
         2 \in Pending' => backlog' # <<>> \/ backlog' = backlog
  PROVE  ReportedReady'
BY DEF ReportedReady, WaitsForWord, Input, SocketsTypeOK, Trailers

\* The iterator leaves the slot it returned, and those before it, behind.
LEMMA Passed ==
  ASSUME PollerTypeOK(Descriptors), NEW i \in Slots, NEW fd,
         poller_next_fd_with_POLLIN(i, fd),
         idx_iterator' \in {i + 1, i + 2}
  PROVE  /\ idx_iterator' \in Nat
         /\ \A j \in Pending' : j > i /\ idx_iterator <= j
<1>1. i \in Nat /\ idx_iterator <= i /\ idx_iterator \in Nat
  BY DEF Slots, poller_next_fd_with_POLLIN, Pending, PollerTypeOK
<1>2. idx_iterator' \in Nat /\ idx_iterator' > i
  BY <1>1
<1>3. ASSUME NEW j \in Pending' PROVE j > i /\ idx_iterator <= j
  <2>1. j \in Int /\ idx_iterator' <= j
    BY DEF Pending, Slots
  <2>. QED  BY <1>1, <1>2, <2>1
<1>. QED  BY <1>2, <1>3

\* If the array is as it was, what is still pending was.
LEMMA PendingShrinks ==
  ASSUME PollerTypeOK(Descriptors), NEW i \in Slots, NEW fd,
         poller_next_fd_with_POLLIN(i, fd),
         idx_iterator' \in {i + 1, i + 2},
         UNCHANGED <<pollfds, num_pollfds>>
  PROVE  \A j \in Pending' : j > i /\ j \in Pending
<1>1. \A j \in Pending' : j > i /\ idx_iterator <= j
  BY Passed
<1>. QED  BY <1>1 DEF Pending

\* The three descriptors run_server registers stay in their slots.
LEMMA SlotOf ==
  ASSUME IInv, NEW i \in Slots, NEW fd, Event(i, fd)
  PROVE  /\ i \in Pending /\ srv = "running" /\ pollfds[i].fd = fd
         /\ fd = STDIN_FILENO => i = 0
         /\ fd = UDP_fd => i = 1
         /\ fd = TCP_fd => i = 2
         /\ i \notin 0 .. 2 => fd \in ClientFds
<1>1. i \in Pending /\ srv = "running" /\ pollfds[i].fd = fd
  BY DEF Event, poller_next_fd_with_POLLIN
<1>2. i \in Nat /\ i < num_pollfds
  BY <1>1 DEF Pending, Slots
<1>3. PollerHoldsClients
  BY <1>1 DEF IInv, EntriesAgree
<1>4. pollfds[0].fd = 0 /\ pollfds[1].fd = 3 /\ pollfds[2].fd = 4
  BY <1>3, Fds DEF PollerHoldsClients
<1>5. i \notin 0 .. 2 => fd \in ClientFds
  <2>. DEFINE n == Len(connected_clients)
  <2>. SUFFICES ASSUME i >= 3 PROVE fd \in ClientFds
    BY <1>2
  <2>1. connected_clients \in Seq(client_node(ClientFds, Names)) /\ n \in Nat
    BY LenProperties DEF IInv, TypeOK, ServerTypeOK
  <2>2. num_pollfds = 3 + n
    BY <1>3 DEF PollerHoldsClients
  <2>. DEFINE k == num_pollfds - i
  <2>3. k \in 1 .. n /\ num_pollfds - k = i
    BY <1>2, <2>1, <2>2
  <2>4. fd = connected_clients[k].fd
    BY <1>1, <1>3, <2>3 DEF PollerHoldsClients
  <2>5. connected_clients[k] \in client_node(ClientFds, Names)
    BY <2>1, <2>3, ElementOfSeq
  <2>. QED  BY <2>4, <2>5 DEF client_node
<1>. QED  BY <1>1, <1>2, <1>4, <1>5, Fds

-----------------------------------------------------------------------------
(* The server's actions.                                                   *)

LEMMA PollStep ==
  ASSUME IInv, Poll, UNCHANGED subscriberVars
  PROVE  IInv'
<1>. USE DEF Poll, netVars, listVars, subscriberVars, poller_poll
<1>1. SocketsTypeOK'
  BY DEF IInv, TypeOK, SocketsTypeOK
<1>2. \A s \in Slots : pollfds'[s].fd = pollfds[s].fd /\ (s < num_pollfds => pollfds'[s].revents = (pollfds[s].fd \in Ready))
  BY DEF IInv, TypeOK, ServerTypeOK, PollerTypeOK
<1>3. PollerTypeOK(Descriptors)'
  <2>1. PollerTypeOK(Descriptors)
    BY DEF IInv, TypeOK, ServerTypeOK
  <2>2. \A s \in Slots : pollfds'[s] \in [fd : Descriptors, revents : BOOLEAN]
    <3>. SUFFICES ASSUME NEW s \in Slots
                  PROVE  pollfds'[s] \in [fd : Descriptors, revents : BOOLEAN]
      OBVIOUS
    <3>. DEFINE b == pollfds[s].fd \in Ready
    <3>1. b \in BOOLEAN
      OBVIOUS
    <3>2. pollfds[s] \in [fd : Descriptors, revents : BOOLEAN]
      BY <2>1 DEF PollerTypeOK
    <3>3. pollfds'[s] = IF s < num_pollfds THEN [pollfds[s] EXCEPT !.revents = b] ELSE pollfds[s]
      OBVIOUS
    <3>. HIDE DEF b
    <3>4. [pollfds[s] EXCEPT !.revents = b] \in [fd : Descriptors, revents : BOOLEAN]
      BY <3>1, <3>2
    <3>. QED  BY <3>2, <3>3, <3>4
  <2>3. pollfds' = [s \in Slots |-> pollfds'[s]]
    OBVIOUS
  <2>4. pollfds' \in [Slots -> [fd : Descriptors, revents : BOOLEAN]]
    BY <2>2, <2>3
  <2>. QED  BY <2>1, <2>4 DEF PollerTypeOK
<1>4. ServerTypeOK'
  BY <1>3 DEF IInv, TypeOK, ServerTypeOK
<1>5. SubscriberTypeOK'
  BY DEF IInv, TypeOK, SubscriberTypeOK
<1>6. PollerHoldsClients
  BY DEF IInv, EntriesAgree
<1>7. PollerHoldsClients'
  <2>1. \A i \in 0 .. 2 : i \in Slots
    BY DEF Slots
  <2>2. \A k \in 1 .. Len(connected_clients) : num_pollfds - k \in Slots
    <3>1. Len(connected_clients) \in Nat
      BY LenProperties DEF IInv, TypeOK, ServerTypeOK
    <3>2. num_pollfds = 3 + Len(connected_clients) /\ num_pollfds \in 3 .. MAX_CONNECTIONS
      BY <1>6 DEF PollerHoldsClients, IInv, TypeOK, ServerTypeOK, PollerTypeOK
    <3>. QED  BY <3>1, <3>2 DEF Slots
  <2>. QED  BY <1>2, <1>6, <2>1, <2>2 DEF PollerHoldsClients
<1>8. EntriesAgree'
  BY <1>7 DEF IInv, EntriesAgree, ClientsHoldSockets, SocketsHoldConnections
<1>9. QueueAgrees'
  BY DEF IInv, QueueAgrees
<1>10. ReportedReady'
  <2>1. pollfds[0].fd = 0 /\ pollfds[1].fd = 3 /\ pollfds[2].fd = 4
    BY <1>6, Fds DEF PollerHoldsClients
  <2>2. \A i \in 0 .. 2 : i \in Pending' => pollfds[i].fd \in Ready
    BY <1>2 DEF Pending
  <2>3. /\ 0 \in Ready => typed # <<>> \/ trailer # "nothing"
        /\ 3 \in Ready => udp_queue # <<>>
        /\ 4 \in Ready => backlog # <<>>
    BY Fds DEF Ready
  <2>4. trailer \in Trailers
    BY DEF IInv, TypeOK, SocketsTypeOK
  <2>. QED  BY <2>1, <2>2, <2>3, <2>4 DEF ReportedReady, WaitsForWord, Input, Trailers
<1>11. NothingSent'
  BY DEF IInv, NothingSent
<1>. QED  BY <1>1, <1>4, <1>5, <1>8, <1>9, <1>10, <1>11 DEF IInv, TypeOK

LEMMA UnknownCommandStep ==
  ASSUME IInv, NEW i \in Slots, UnknownCommand(i), UNCHANGED subscriberVars
  PROVE  IInv'
<1>. USE DEF UnknownCommand, listVars, subscriberVars
<1>1. i = 0 /\ i \in Pending /\ srv = "running"
  BY SlotOf
<1>2. /\ Input \in Seq(Commands)
      /\ typed \in Seq(Commands) /\ trailer \in Trailers
  BY DEF Input, IInv, TypeOK, SocketsTypeOK, ServerTypeOK
<1>3. <<>> \in Seq(Commands)
  BY EmptySeq
<1>4. stdio' \in Seq(Commands)
  BY <1>2, <1>3, HeadTailProperties DEF scanf
<1>5. SocketsTypeOK'
  <2>1. typed' \in Seq(Commands) /\ trailer' \in Trailers
    BY <1>2, <1>3 DEF scanf, Trailers
  <2>. QED  BY <2>1 DEF IInv, TypeOK, SocketsTypeOK
<1>6. PollerTypeOK(Descriptors)
  BY DEF IInv, TypeOK, ServerTypeOK
<1>7. poller_next_fd_with_POLLIN(i, STDIN_FILENO)
  BY DEF Event
<1>8. idx_iterator' \in Nat
  BY <1>6, <1>7, Passed
<1>9. ServerTypeOK'
  BY <1>4, <1>6, <1>8 DEF IInv, TypeOK, ServerTypeOK, PollerTypeOK
<1>10. SubscriberTypeOK'
  BY DEF IInv, TypeOK, SubscriberTypeOK
<1>11. EntriesAgree' /\ QueueAgrees'
  BY DEF IInv, EntriesAgree, PollerHoldsClients, ClientsHoldSockets, SocketsHoldConnections, QueueAgrees
<1>12. \A j \in Pending' : j > i /\ j \in Pending
  BY <1>6, <1>7, PendingShrinks
<1>13. ReportedReady'
  BY <1>1, <1>5, <1>12, ReportedStays DEF IInv
<1>14. NothingSent'
  BY DEF IInv, NothingSent
<1>. QED  BY <1>5, <1>9, <1>10, <1>11, <1>13, <1>14 DEF IInv, TypeOK

\* Without a cursor no subscription is due, and the handler only takes the
\* datagram.
LEMMA UDPStep ==
  ASSUME IInv, NEW i \in Slots, UDP_server_recv(i), UNCHANGED subscriberVars
  PROVE  IInv'
<1>. USE DEF listVars, subscriberVars
<1>1. i = 1 /\ i \in Pending /\ srv = "running"
  BY SlotOf DEF UDP_server_recv
<1>2. udp_queue # <<>>
  BY <1>1 DEF IInv, ReportedReady
<1>3. Tail(udp_queue) \in Seq(Topics)
  BY <1>2, HeadTailProperties DEF IInv, TypeOK, SocketsTypeOK
<1>. DEFINE due == subscriptions_due(FromCursor, Head(udp_queue))
<1>4. due = {}
  BY DEF IInv, NothingSent, FromCursor, subscriptions_due
<1>. HIDE DEF due
<1>5. Reached(due) = due
  BY <1>4 DEF Reached
<1>6. UNCHANGED inbox
  <2>1. inbox' = [p \in Procs |-> inbox[p] + 2 * Cardinality(
             {k \in Reached(due) : sock[connected_clients[Subscriber(k)].fd] = p})]
    BY DEF UDP_server_recv, TCP_server_send_to_subscribers, due
  <2>2. \A p \in Procs : {k \in Reached(due) : sock[connected_clients[Subscriber(k)].fd] = p} = {}
    BY <1>4, <1>5
  <2>3. inbox' = [p \in Procs |-> inbox[p] + 2 * Cardinality({})]
    BY <2>1, <2>2
  <2>4. inbox' = [p \in Procs |-> inbox[p]]
    <3>1. Cardinality({}) = 0
      BY FS_EmptySet
    <3>2. inbox \in [Procs -> Nat]
      BY DEF IInv, TypeOK, ServerTypeOK
    <3>3. \A p \in Procs : inbox[p] + 2 * Cardinality({}) = inbox[p]
      BY <3>1, <3>2
    <3>. QED  BY <2>3, <3>3
  <2>. QED  BY <2>4 DEF IInv, TypeOK, ServerTypeOK
<1>7. /\ current' = current
      /\ udp_queue' = Tail(udp_queue)
      /\ idx_iterator' = i + 1
      /\ UNCHANGED <<backlog, sock, stream, conn, hup, typed, trailer, pollfds,
                     num_pollfds, srv, stdio, connected_clients, subscriptions>>
  <2>1. subscriptions_exhausted(FromCursor, Head(udp_queue)) = current
    BY <1>4 DEF due, subscriptions_exhausted, FromCursor
  <2>. QED  BY <1>5, <2>1 DEF UDP_server_recv, due
<1>8. SocketsTypeOK'
  BY <1>3, <1>7 DEF IInv, TypeOK, SocketsTypeOK
<1>9. PollerTypeOK(Descriptors)
  BY DEF IInv, TypeOK, ServerTypeOK
<1>10. poller_next_fd_with_POLLIN(i, UDP_fd)
  BY DEF UDP_server_recv, Event
<1>11. idx_iterator' \in Nat
  BY <1>7, <1>9, <1>10, Passed
<1>12. ServerTypeOK'
  BY <1>6, <1>7, <1>9, <1>11 DEF IInv, TypeOK, ServerTypeOK, PollerTypeOK
<1>13. SubscriberTypeOK'
  BY DEF IInv, TypeOK, SubscriberTypeOK
<1>14. EntriesAgree' /\ QueueAgrees'
  BY <1>7 DEF IInv, EntriesAgree, PollerHoldsClients, ClientsHoldSockets, SocketsHoldConnections, QueueAgrees
<1>15. \A j \in Pending' : j > i /\ j \in Pending
  BY <1>7, <1>9, <1>10, PendingShrinks
<1>16. ReportedReady'
  BY <1>1, <1>7, <1>8, <1>15, ReportedStays DEF IInv
<1>17. NothingSent'
  BY <1>6, <1>7 DEF IInv, NothingSent
<1>. QED  BY <1>8, <1>12, <1>13, <1>14, <1>16, <1>17 DEF IInv, TypeOK

\* The array has no room: the process goes on only in a way the model does not
\* follow.
LEMMA OverflowStep ==
  ASSUME IInv, NEW i \in Slots, PollerOverflows(i) \/ CommandOverflows(i), UNCHANGED subscriberVars
  PROVE  IInv'
<1>. USE DEF PollerOverflows, CommandOverflows, netVars, pollerVars, listVars, subscriberVars
<1>1. SocketsTypeOK' /\ SubscriberTypeOK'
  BY DEF IInv, TypeOK, SocketsTypeOK, SubscriberTypeOK
<1>2. ServerTypeOK'
  BY DEF IInv, TypeOK, ServerTypeOK, PollerTypeOK, ServerStates
<1>3. EntriesAgree' /\ ReportedReady'
  BY DEF EntriesAgree, ReportedReady
<1>4. QueueAgrees' /\ NothingSent'
  BY DEF IInv, QueueAgrees, NothingSent
<1>. QED  BY <1>1, <1>2, <1>3, <1>4 DEF IInv, TypeOK

\* The new connection gets the slot behind the last one, the head of the list
\* and a descriptor nobody has.
LEMMA AcceptStep ==
  ASSUME IInv, NEW i \in Slots, TCP_server_accept_connection(i), UNCHANGED subscriberVars
  PROVE  IInv'
<1>. USE DEF subscriberVars
<1>1. i = 2 /\ i \in Pending /\ srv = "running"
  BY SlotOf DEF TCP_server_accept_connection
<1>2. backlog # <<>> /\ backlog \in Seq(Procs)
  BY <1>1 DEF IInv, ReportedReady, TypeOK, SocketsTypeOK
<1>. DEFINE h == Head(backlog)
            n == Len(connected_clients)
<1>3. PICK fd \in ClientFds :
        /\ LowestFree(fd)
        /\ sock' = [sock EXCEPT ![fd] = h]
        /\ connected_clients' =
              clients_list_add_client(connected_clients,
                                      [state |-> CLIENT_STATE_NEW, fd |-> fd, id |-> EmptyString])
        /\ poller_add_fd(fd)
  BY DEF TCP_server_accept_connection
<1>4. /\ num_pollfds < MAX_CONNECTIONS
      /\ conn' = [conn EXCEPT ![h] = "accepted"]
      /\ backlog' = Tail(backlog)
      /\ idx_iterator' = i + 2
      /\ UNCHANGED <<stream, hup, udp_queue, typed, trailer, srv, stdio, subscriptions, current, inbox>>
  BY DEF TCP_server_accept_connection
<1>5. /\ h \in Procs /\ h = backlog[1] /\ Len(backlog) \in Nat /\ Len(backlog) >= 1
      /\ backlog' \in Seq(Procs) /\ Len(backlog') = Len(backlog) - 1
      /\ \A k \in 1 .. Len(backlog) - 1 : backlog'[k] = backlog[k + 1]
  BY <1>2, <1>4, HeadTailProperties, LenProperties, EmptySeq
<1>6. conn[h] = "queued"
  BY <1>5 DEF IInv, QueueAgrees
<1>. DEFINE c == [state |-> CLIENT_STATE_NEW, fd |-> fd, id |-> EmptyString]
<1>7. c \in client_node(ClientFds, Names) /\ c.fd = fd
  BY DEF client_node, Names
<1>8. connected_clients \in Seq(client_node(ClientFds, Names)) /\ n \in Nat
  BY LenProperties DEF IInv, TypeOK, ServerTypeOK
<1>9. connected_clients' = <<c>> \o connected_clients
  BY <1>3 DEF clients_list_add_client
<1>. HIDE DEF c
<1>10. /\ connected_clients' \in Seq(client_node(ClientFds, Names))
       /\ Len(connected_clients') = n + 1
       /\ connected_clients'[1] = c
       /\ \A j \in 2 .. n + 1 : connected_clients'[j] = connected_clients[j - 1]
  BY <1>7, <1>8, <1>9, AddAtHead
<1>11. /\ connected_clients'[1].fd = fd
       /\ \A j \in 2 .. n + 1 : connected_clients'[j].fd = connected_clients[j - 1].fd
  BY <1>7, <1>10
<1>12. SocketsTypeOK'
  <2>1. sock' \in [ClientFds -> Procs \cup {NoProc}]
    BY <1>3, <1>5 DEF IInv, TypeOK, SocketsTypeOK
  <2>2. conn' \in [Procs -> ConnStates]
    BY <1>4 DEF IInv, TypeOK, SocketsTypeOK, ConnStates
  <2>. QED  BY <1>4, <1>5, <2>1, <2>2 DEF IInv, TypeOK, SocketsTypeOK
<1>13. PollerTypeOK(Descriptors)
  BY DEF IInv, TypeOK, ServerTypeOK
<1>14. num_pollfds' = num_pollfds + 1 /\ pollfds' = [pollfds EXCEPT ![num_pollfds].fd = fd]
  BY <1>3 DEF poller_add_fd
<1>15. num_pollfds \in Slots /\ num_pollfds \in Nat /\ num_pollfds >= 3
  BY <1>4, <1>13 DEF PollerTypeOK, Slots
<1>16. /\ pollfds'[num_pollfds].fd = fd
       /\ \A s \in Slots : s # num_pollfds => pollfds'[s] = pollfds[s]
  BY <1>13, <1>14, <1>15 DEF PollerTypeOK
<1>17. PollerTypeOK(Descriptors)'
  <2>1. pollfds' \in [Slots -> [fd : Descriptors, revents : BOOLEAN]]
    BY <1>13, <1>14, <1>15, Fds DEF PollerTypeOK
  <2>2. num_pollfds' \in 3 .. MAX_CONNECTIONS
    BY <1>4, <1>14, <1>15
  <2>. QED  BY <1>1, <1>4, <2>1, <2>2 DEF PollerTypeOK
<1>18. ServerTypeOK'
  BY <1>4, <1>10, <1>17 DEF IInv, TypeOK, ServerTypeOK
<1>19. SubscriberTypeOK'
  BY DEF IInv, TypeOK, SubscriberTypeOK
<1>20. PollerHoldsClients /\ ClientsHoldSockets /\ SocketsHoldConnections
  BY <1>1 DEF IInv, EntriesAgree
<1>21. sock[fd] = NoProc /\ sock'[fd] = h /\ \A g \in ClientFds : g # fd => sock'[g] = sock[g]
  BY <1>3 DEF LowestFree, FreeFds, IInv, TypeOK, SocketsTypeOK
<1>22. PollerHoldsClients'
  <2>1. num_pollfds' = 3 + Len(connected_clients')
    BY <1>8, <1>10, <1>14, <1>20 DEF PollerHoldsClients
  <2>2. \A s \in 0 .. 2 : pollfds'[s].fd = <<STDIN_FILENO, UDP_fd, TCP_fd>>[s + 1]
    BY <1>15, <1>16, <1>20 DEF PollerHoldsClients, Slots
  <2>3. ASSUME NEW k \in 1 .. n + 1
        PROVE  pollfds'[num_pollfds' - k].fd = connected_clients'[k].fd
    <3>1. CASE k = 1
      BY <1>11, <1>14, <1>15, <1>16, <3>1
    <3>2. CASE k # 1
      <4>1. k - 1 \in 1 .. n /\ num_pollfds' - k = num_pollfds - (k - 1)
        <5>. HIDE DEF n
        <5>1. k - 1 \in 1 .. n
          BY <1>8, <3>2
        <5>2. num_pollfds' = num_pollfds + 1 /\ num_pollfds \in Int /\ k \in Int
          BY <1>8, <1>14, <1>15
        <5>. QED  BY <5>1, <5>2
      <4>2. num_pollfds - (k - 1) \in Slots /\ num_pollfds - (k - 1) # num_pollfds
        BY <1>8, <1>15, <1>20, <4>1 DEF PollerHoldsClients, Slots
      <4>. QED  BY <1>8, <1>11, <1>16, <1>20, <3>2, <4>1, <4>2 DEF PollerHoldsClients
    <3>. QED  BY <3>1, <3>2
  <2>. QED  BY <1>10, <2>1, <2>2, <2>3 DEF PollerHoldsClients
<1>23. ClientsHoldSockets'
  <2>1. \A j \in 1 .. n : connected_clients[j].fd # fd
    BY <1>20, <1>21 DEF ClientsHoldSockets
  <2>2. \A j, k \in 1 .. n + 1 : connected_clients'[j].fd = connected_clients'[k].fd => j = k
    <3>. SUFFICES ASSUME NEW j \in 1 .. n + 1, NEW k \in 1 .. n + 1,
                         connected_clients'[j].fd = connected_clients'[k].fd
                  PROVE  j = k
      OBVIOUS
    <3>1. j # 1 => j - 1 \in 1 .. n /\ j \in 2 .. n + 1
      BY <1>8
    <3>2. k # 1 => k - 1 \in 1 .. n /\ k \in 2 .. n + 1
      BY <1>8
    <3>3. j # 1 /\ k # 1 => j - 1 = k - 1
      BY <1>11, <1>20, <3>1, <3>2 DEF ClientsHoldSockets
    <3>4. (j = 1) = (k = 1)
      BY <1>11, <2>1, <3>1, <3>2
    <3>. QED  BY <1>8, <3>3, <3>4
  <2>3. ASSUME NEW g \in ClientFds
        PROVE  sock'[g] # NoProc <=> \E k \in 1 .. n + 1 : connected_clients'[k].fd = g
    <3>1. CASE g = fd
      BY <1>5, <1>8, <1>11, <1>21, <3>1
    <3>2. CASE g # fd
      <4>1. sock'[g] # NoProc <=> \E k \in 1 .. n : connected_clients[k].fd = g
        BY <1>20, <1>21, <3>2 DEF ClientsHoldSockets
      <4>2. ASSUME NEW k \in 1 .. n, connected_clients[k].fd = g
            PROVE  \E j \in 1 .. n + 1 : connected_clients'[j].fd = g
        <5>1. k + 1 \in 2 .. n + 1 /\ k + 1 \in 1 .. n + 1 /\ (k + 1) - 1 = k
          BY <1>8
        <5>2. connected_clients'[k + 1].fd = g
          BY <1>11, <4>2, <5>1
        <5>. QED  BY <5>1, <5>2
      <4>3. ASSUME NEW j \in 1 .. n + 1, connected_clients'[j].fd = g
            PROVE  \E k \in 1 .. n : connected_clients[k].fd = g
        <5>1. j # 1
          BY <1>11, <3>2, <4>3
        <5>2. j - 1 \in 1 .. n /\ j \in 2 .. n + 1
          BY <1>8, <5>1
        <5>. QED  BY <1>11, <4>3, <5>2
      <4>. QED  BY <4>1, <4>2, <4>3
    <3>. QED  BY <3>1, <3>2
  <2>. QED  BY <1>10, <2>2, <2>3 DEF ClientsHoldSockets
<1>24. SocketsHoldConnections'
  <2>1. \A g \in ClientFds : sock[g] # h
    BY <1>5, <1>6, <1>20 DEF SocketsHoldConnections
  <2>2. \A p \in Procs : conn'[p] = IF p = h THEN "accepted" ELSE conn[p]
    BY <1>4 DEF IInv, TypeOK, SocketsTypeOK
  <2>3. \A f, g \in ClientFds : sock'[f] = sock'[g] /\ sock'[f] # NoProc => f = g
    BY <1>20, <1>21, <2>1 DEF SocketsHoldConnections
  <2>4. \A p \in Procs : conn'[p] = "accepted" <=> \E g \in ClientFds : sock'[g] = p
    BY <1>20, <1>21, <2>1, <2>2 DEF SocketsHoldConnections
  <2>. QED  BY <2>3, <2>4 DEF SocketsHoldConnections
<1>25. QueueAgrees'
  <2>1. \A p \in Procs : conn'[p] = IF p = h THEN "accepted" ELSE conn[p]
    BY <1>4 DEF IInv, TypeOK, SocketsTypeOK
  <2>2. \A p \in Procs : pc'[p] = "idle" => conn'[p] = "none"
    BY <1>6, <2>1 DEF IInv, QueueAgrees
  <2>3. \A j, k \in 1 .. Len(backlog) : backlog[j] = backlog[k] => j = k
    BY DEF IInv, QueueAgrees
  <2>4. \A j, k \in 1 .. Len(backlog') : backlog'[j] = backlog'[k] => j = k
    BY <1>5, <2>3
  <2>5. ASSUME NEW p \in Procs
        PROVE  conn'[p] = "queued" <=> \E k \in 1 .. Len(backlog') : backlog'[k] = p
    <3>1. conn[p] = "queued" <=> \E k \in 1 .. Len(backlog) : backlog[k] = p
      BY DEF IInv, QueueAgrees
    <3>2. ASSUME NEW k \in 1 .. Len(backlog'), backlog'[k] = p
          PROVE  conn'[p] = "queued"
      <4>1. k + 1 \in 1 .. Len(backlog) /\ backlog[k + 1] = p /\ k + 1 # 1 /\ 1 \in 1 .. Len(backlog)
        BY <1>5, <3>2
      <4>2. p # h
        BY <1>5, <2>3, <4>1
      <4>. QED  BY <2>1, <3>1, <4>1, <4>2
    <3>3. ASSUME conn'[p] = "queued"
          PROVE  \E k \in 1 .. Len(backlog') : backlog'[k] = p
      <4>1. p # h /\ conn[p] = "queued"
        BY <2>1, <3>3
      <4>2. PICK k \in 1 .. Len(backlog) : backlog[k] = p
        BY <3>1, <4>1
      <4>3. k # 1
        BY <1>5, <4>1, <4>2
      <4>4. k - 1 \in 1 .. Len(backlog) - 1 /\ (k - 1) + 1 = k
        BY <1>5, <4>3
      <4>. QED  BY <1>5, <4>2, <4>4
    <3>. QED  BY <3>2, <3>3
  <2>. QED  BY <2>2, <2>4, <2>5 DEF QueueAgrees
<1>26. ReportedReady'
  <2>1. \A j \in Pending' : j >= 4
    BY <1>1, <1>4 DEF Pending
  <2>. QED  BY <2>1 DEF ReportedReady
<1>27. NothingSent'
  BY <1>4 DEF IInv, NothingSent
<1>. QED  BY <1>12, <1>18, <1>19, <1>20, <1>22, <1>23, <1>24, <1>25, <1>26, <1>27 DEF IInv, TypeOK, EntriesAgree

\* The descriptor the poller returned is that of exactly one client, which is
\* the one the handlers find, and of exactly one slot.
LEMMA ClientOf ==
  ASSUME IInv, NEW i \in Slots, NEW fd \in ClientFds, ClientEvent(i, fd)
  PROVE  /\ srv = "running" /\ i \in Pending /\ i \notin 0 .. 2
         /\ sock[fd] \in Procs /\ conn[sock[fd]] = "accepted"
         /\ ClientIdx(fd) \in 1 .. Len(connected_clients)
         /\ connected_clients[ClientIdx(fd)].fd = fd
         /\ \A idx \in Slots : poller_find_fd_idx(idx, fd) <=> idx = num_pollfds - ClientIdx(fd)
<1>. DEFINE k == ClientIdx(fd)
            n == Len(connected_clients)
            d == num_pollfds - k
<1>1. Event(i, fd) /\ sock[fd] # NoProc
  BY DEF ClientEvent
<1>2. srv = "running" /\ i \in Pending
  BY <1>1, SlotOf
<1>3. PollerHoldsClients /\ ClientsHoldSockets /\ SocketsHoldConnections
  BY <1>2 DEF IInv, EntriesAgree
<1>4. pollfds[0].fd = 0 /\ pollfds[1].fd = 3 /\ pollfds[2].fd = 4
  BY <1>3, Fds DEF PollerHoldsClients
<1>5. i \notin 0 .. 2
  BY <1>1, <1>4, SlotOf, Fds
<1>6. sock[fd] \in Procs /\ conn[sock[fd]] = "accepted"
  BY <1>1, <1>3 DEF SocketsHoldConnections, IInv, TypeOK, SocketsTypeOK
<1>7. connected_clients \in Seq(client_node(ClientFds, Names)) /\ n \in Nat
  BY LenProperties DEF IInv, TypeOK, ServerTypeOK
<1>8. k \in 0 .. n /\ (k # 0 => connected_clients[k].fd = fd)
      /\ (k = 0 => \A j \in 1 .. n : connected_clients[j].fd # fd)
  BY <1>7, FindByFd DEF ClientIdx
<1>9. \E j \in 1 .. n : connected_clients[j].fd = fd
  BY <1>1, <1>3 DEF ClientsHoldSockets
<1>10. k \in 1 .. n /\ connected_clients[k].fd = fd
  BY <1>7, <1>8, <1>9
<1>. HIDE DEF k
<1>11. num_pollfds = 3 + n /\ num_pollfds <= MAX_CONNECTIONS
  <2>1. num_pollfds \in 3 .. MAX_CONNECTIONS
    BY DEF IInv, TypeOK, ServerTypeOK, PollerTypeOK
  <2>. QED  BY <1>3, <2>1 DEF PollerHoldsClients
<1>12. d \in Slots /\ d < num_pollfds /\ pollfds[d].fd = fd
  <2>1. pollfds[d].fd = fd
    BY <1>3, <1>10 DEF PollerHoldsClients
  <2>2. d \in 0 .. MAX_CONNECTIONS - 1 /\ d < num_pollfds
    BY <1>7, <1>10, <1>11
  <2>. QED  BY <2>1, <2>2 DEF Slots
<1>13. ASSUME NEW s \in Slots, s < num_pollfds, pollfds[s].fd = fd
       PROVE  s = d
  <2>1. s \notin 0 .. 2
    BY <1>4, <1>13, Fds
  <2>2. num_pollfds - s \in 1 .. n /\ s = num_pollfds - (num_pollfds - s)
    BY <1>7, <1>11, <1>13, <2>1 DEF Slots
  <2>3. connected_clients[num_pollfds - s].fd = fd
    BY <1>3, <1>13, <2>2 DEF PollerHoldsClients
  <2>4. num_pollfds - s = k
    BY <1>3, <1>10, <2>2, <2>3 DEF ClientsHoldSockets
  <2>. QED  BY <1>7, <1>10, <1>11, <2>2, <2>4
<1>14. \A idx \in Slots : poller_find_fd_idx(idx, fd) <=> idx = d
  <2>1. \A idx \in Slots : poller_find_fd_idx(idx, fd) => idx = d
    BY <1>13 DEF poller_find_fd_idx
  <2>2. \A j \in Slots : j < d => j < num_pollfds /\ j # d
    BY <1>7, <1>10, <1>11 DEF Slots
  <2>3. poller_find_fd_idx(d, fd)
    BY <1>12, <1>13, <2>2 DEF poller_find_fd_idx
  <2>. QED  BY <2>1, <2>3
<1>. QED  BY <1>2, <1>5, <1>6, <1>10, <1>14 DEF k

LEMMA CloseStep ==
  ASSUME IInv, NEW i \in Slots, NEW fd \in ClientFds, ClientEvent(i, fd),
         TCP_server_close_connection(i, fd), UNCHANGED inbox, UNCHANGED subscriberVars
  PROVE  IInv'
<1>. USE DEF subscriberVars
<1>1. CASE clients_list_remove_faults(connected_clients, ClientIdx(fd))
  BY <1>1, EndPreservesIInv DEF TCP_server_close_connection, ServerStates, subscriberVars
<1>2. CASE ~clients_list_remove_faults(connected_clients, ClientIdx(fd))
  <2>. DEFINE k == ClientIdx(fd)
              n == Len(connected_clients)
              d == num_pollfds - k
              p == sock[fd]
  <2>1. /\ connected_clients' = clients_list_remove_client(connected_clients, k)
        /\ poller_remove_fd(fd)
        /\ idx_iterator' = i + 1
        /\ sock' = [sock EXCEPT ![fd] = NoProc]
        /\ conn' = [conn EXCEPT ![p] = Closed(recv_rest(fd)[p])]
        /\ stream' = [stream EXCEPT ![p] = <<>>]
        /\ UNCHANGED <<backlog, hup, udp_queue, typed, trailer, srv, stdio, subscriptions, current>>
    BY <1>2 DEF TCP_server_close_connection
  <2>2. /\ srv = "running" /\ i \in Pending /\ i \notin 0 .. 2
        /\ p \in Procs /\ conn[p] = "accepted"
        /\ k \in 1 .. n /\ connected_clients[k].fd = fd
        /\ \A idx \in Slots : poller_find_fd_idx(idx, fd) <=> idx = d
    BY ClientOf
  <2>3. PollerHoldsClients /\ ClientsHoldSockets /\ SocketsHoldConnections
    BY <2>2 DEF IInv, EntriesAgree
  <2>4. connected_clients \in Seq(client_node(ClientFds, Names)) /\ n \in Nat
    BY LenProperties DEF IInv, TypeOK, ServerTypeOK
  <2>. HIDE DEF k
  <2>5. num_pollfds = 3 + n /\ num_pollfds <= MAX_CONNECTIONS
    <3>1. num_pollfds \in 3 .. MAX_CONNECTIONS
      BY DEF IInv, TypeOK, ServerTypeOK, PollerTypeOK
    <3>. QED  BY <2>3, <3>1 DEF PollerHoldsClients
  <2>6. d \in Slots /\ d >= 3 /\ d \in Nat
    BY <2>2, <2>4, <2>5 DEF Slots
  <2>7. connected_clients' = RemoveAt(connected_clients, k)
    BY <2>1, <2>2 DEF clients_list_remove_client
  <2>8. /\ connected_clients' \in Seq(client_node(ClientFds, Names))
        /\ Len(connected_clients') = n - 1
        /\ \A j \in 1 .. n - 1 :
              connected_clients'[j] = IF j < k THEN connected_clients[j] ELSE connected_clients[j + 1]
    BY <2>2, <2>4, <2>7, RemoveNode
  <2>9. /\ pollfds' = [s \in Slots |-> IF d <= s /\ s < num_pollfds - 1 THEN pollfds[s + 1]
                                                                       ELSE pollfds[s]]
        /\ num_pollfds' = num_pollfds - 1
    <3>1. \E idx \in Slots : poller_find_fd_idx(idx, fd)
      BY <2>2, <2>6
    <3>. QED  BY <2>1, <2>2, <3>1 DEF poller_remove_fd
  <2>10. PollerTypeOK(Descriptors)
    BY DEF IInv, TypeOK, ServerTypeOK
  <2>11. PollerTypeOK(Descriptors)'
    <3>1. \A s \in Slots : s < num_pollfds - 1 => s + 1 \in Slots
      BY <2>4, <2>5 DEF Slots
    <3>2. pollfds' \in [Slots -> [fd : Descriptors, revents : BOOLEAN]]
      <4>1. pollfds \in [Slots -> [fd : Descriptors, revents : BOOLEAN]]
        BY <2>10 DEF PollerTypeOK
      <4>. HIDE DEF d
      <4>. QED  BY <2>9, <3>1, <4>1
    <3>3. num_pollfds' \in 3 .. MAX_CONNECTIONS
      BY <2>2, <2>4, <2>5, <2>9
    <3>4. idx_iterator' \in Nat
      BY <2>1 DEF Slots
    <3>. QED  BY <3>2, <3>3, <3>4 DEF PollerTypeOK
  <2>12. ServerTypeOK'
    BY <2>1, <2>8, <2>11 DEF IInv, TypeOK, ServerTypeOK
  <2>13. \A q \in Procs : q # p => conn'[q] = conn[q]
    BY <2>1 DEF IInv, TypeOK, SocketsTypeOK
  <2>14. conn'[p] \in {"fin", "rst"}
    BY <2>1, <2>2 DEF Closed, IInv, TypeOK, SocketsTypeOK
  <2>15. SocketsTypeOK'
    <3>1. sock' \in [ClientFds -> Procs \cup {NoProc}]
      BY <2>1 DEF IInv, TypeOK, SocketsTypeOK
    <3>2. conn' \in [Procs -> ConnStates]
      BY <2>1 DEF Closed, ConnStates, IInv, TypeOK, SocketsTypeOK
    <3>3. stream' \in [Procs -> Seq(TCP_ctos_msg)]
      <4>1. <<>> \in Seq(TCP_ctos_msg)
        BY EmptySeq
      <4>2. stream \in [Procs -> Seq(TCP_ctos_msg)]
        BY DEF IInv, TypeOK, SocketsTypeOK
      <4>. QED  BY <2>1, <4>1, <4>2
    <3>. QED  BY <2>1, <3>1, <3>2, <3>3 DEF IInv, TypeOK, SocketsTypeOK
  <2>16. SubscriberTypeOK'
    BY DEF IInv, TypeOK, SubscriberTypeOK
  <2>17. PollerHoldsClients'
    <3>1. num_pollfds' = 3 + Len(connected_clients')
      BY <2>4, <2>5, <2>8, <2>9
    <3>2. \A s \in 0 .. 2 : pollfds'[s] = pollfds[s]
      BY <2>6, <2>9 DEF Slots
    <3>3. ASSUME NEW j \in 1 .. n - 1
          PROVE  pollfds'[num_pollfds' - j].fd = connected_clients'[j].fd
      <4>1. /\ num_pollfds' - j \in Slots
            /\ num_pollfds' - j < num_pollfds - 1
            /\ d <= num_pollfds' - j <=> j < k
        <5>. HIDE DEF n
        <5>1. num_pollfds' = 2 + n /\ n \in Nat /\ k \in 1 .. n /\ j \in 1 .. n - 1 /\ d = 3 + n - k
          BY <2>2, <2>4, <2>5, <2>9
        <5>2. num_pollfds' - j \in 0 .. MAX_CONNECTIONS - 1
          BY <2>5, <5>1
        <5>. QED  BY <2>5, <5>1, <5>2 DEF Slots
      <4>2. CASE j < k
        <5>1. pollfds'[num_pollfds' - j] = pollfds[num_pollfds - j]
          BY <2>4, <2>5, <2>9, <4>1, <4>2
        <5>2. connected_clients'[j] = connected_clients[j]
          BY <2>8, <4>2
        <5>3. j \in 1 .. n
          BY <2>4
        <5>4. pollfds[num_pollfds - j].fd = connected_clients[j].fd
          BY <2>3, <5>3 DEF PollerHoldsClients
        <5>. QED  BY <5>1, <5>2, <5>4
      <4>3. CASE ~(j < k)
        <5>1. pollfds'[num_pollfds' - j] = pollfds[num_pollfds - (j + 1)] /\ j + 1 \in 1 .. n
          BY <2>4, <2>5, <2>9, <4>1, <4>3
        <5>2. connected_clients'[j] = connected_clients[j + 1]
          BY <2>8, <4>3
        <5>3. pollfds[num_pollfds - (j + 1)].fd = connected_clients[j + 1].fd
          BY <2>3, <5>1 DEF PollerHoldsClients
        <5>. QED  BY <5>1, <5>2, <5>3
      <4>. QED  BY <4>2, <4>3
    <3>. QED  BY <2>3, <2>8, <3>1, <3>2, <3>3 DEF PollerHoldsClients
  <2>18. ClientsHoldSockets'
    <3>. DEFINE was(j) == IF j < k THEN j ELSE j + 1
    <3>1. \A j \in 1 .. n - 1 : /\ was(j) \in 1 .. n /\ was(j) # k
                                /\ connected_clients'[j].fd = connected_clients[was(j)].fd
      BY <2>2, <2>4, <2>8
    <3>2. \A j, m \in 1 .. n - 1 : was(j) = was(m) => j = m
      BY <2>2, <2>4
    <3>3. \A j \in 1 .. n : j # k => \E m \in 1 .. n - 1 : was(m) = j
      <4>. SUFFICES ASSUME NEW j \in 1 .. n, j # k PROVE \E m \in 1 .. n - 1 : was(m) = j
        OBVIOUS
      <4>1. CASE j < k
        BY <2>2, <2>4, <4>1
      <4>2. CASE j > k
        <5>1. j - 1 \in 1 .. n - 1 /\ was(j - 1) = j
          BY <2>2, <2>4, <4>2
        <5>. QED  BY <5>1
      <4>. QED  BY <2>2, <2>4, <4>1, <4>2
    <3>. HIDE DEF was
    <3>4. \A j, m \in 1 .. n - 1 : connected_clients'[j].fd = connected_clients'[m].fd => j = m
      BY <2>3, <3>1, <3>2 DEF ClientsHoldSockets
    <3>5. \A j \in 1 .. n : connected_clients[j].fd = fd <=> j = k
      BY <2>2, <2>3 DEF ClientsHoldSockets
    <3>6. ASSUME NEW g \in ClientFds
          PROVE  sock'[g] # NoProc <=> \E j \in 1 .. n - 1 : connected_clients'[j].fd = g
      <4>1. sock'[g] # NoProc <=> g # fd /\ sock[g] # NoProc
        BY <2>1 DEF IInv, TypeOK, SocketsTypeOK
      <4>2. sock[g] # NoProc <=> \E j \in 1 .. n : connected_clients[j].fd = g
        BY <2>3 DEF ClientsHoldSockets
      <4>3. ASSUME NEW j \in 1 .. n, connected_clients[j].fd = g, g # fd
            PROVE  \E m \in 1 .. n - 1 : connected_clients'[m].fd = g
        <5>1. j # k
          BY <2>2, <4>3
        <5>2. PICK m \in 1 .. n - 1 : was(m) = j
          BY <3>3, <5>1
        <5>. QED  BY <3>1, <4>3, <5>2
      <4>4. ASSUME NEW m \in 1 .. n - 1, connected_clients'[m].fd = g
            PROVE  g # fd /\ \E j \in 1 .. n : connected_clients[j].fd = g
        <5>1. was(m) \in 1 .. n /\ was(m) # k /\ connected_clients[was(m)].fd = g
          BY <3>1, <4>4
        <5>. QED  BY <3>5, <5>1
      <4>. QED  BY <4>1, <4>2, <4>3, <4>4
    <3>. QED  BY <2>8, <3>4, <3>6 DEF ClientsHoldSockets
  <2>19. SocketsHoldConnections'
    <3>1. \A g \in ClientFds : sock'[g] = IF g = fd THEN NoProc ELSE sock[g]
      BY <2>1 DEF IInv, TypeOK, SocketsTypeOK
    <3>2. \A g, f \in ClientFds : sock'[g] = sock'[f] /\ sock'[g] # NoProc => g = f
      BY <2>3, <3>1 DEF SocketsHoldConnections
    <3>3. ASSUME NEW q \in Procs
          PROVE  conn'[q] = "accepted" <=> \E g \in ClientFds : sock'[g] = q
      <4>1. CASE q = p
        <5>1. \A g \in ClientFds : sock'[g] # p
          BY <2>2, <2>3, <3>1 DEF SocketsHoldConnections
        <5>. QED  BY <2>14, <4>1, <5>1
      <4>2. CASE q # p
        <5>1. conn[q] = "accepted" <=> \E g \in ClientFds : sock[g] = q
          BY <2>3 DEF SocketsHoldConnections
        <5>2. q # NoProc
          OBVIOUS
        <5>. QED  BY <2>13, <3>1, <4>2, <5>1, <5>2
      <4>. QED  BY <4>1, <4>2
    <3>. QED  BY <3>2, <3>3 DEF SocketsHoldConnections
  <2>20. QueueAgrees'
    <3>1. \A q \in Procs : conn'[q] = "queued" <=> conn[q] = "queued"
      BY <2>2, <2>13, <2>14
    <3>2. pc[p] # "idle"
      BY <2>2 DEF IInv, QueueAgrees
    <3>. QED  BY <2>1, <2>13, <3>1, <3>2, QueueStays DEF IInv
  <2>21. ReportedReady'
    <3>1. \A s \in 0 .. 2 : s \in Pending' => s \in Pending
      <4>1. poller_next_fd_with_POLLIN(i, fd)
        BY DEF ClientEvent, Event
      <4>2. \A s \in Pending' : idx_iterator <= s
        BY <2>1, <2>10, <4>1, Passed
      <4>3. \A s \in 0 .. 2 : s \in Slots /\ pollfds'[s] = pollfds[s] /\ s < num_pollfds
        BY <2>4, <2>5, <2>6, <2>9 DEF Slots
      <4>. QED  BY <4>2, <4>3 DEF Pending
    <3>. QED  BY <2>1, <2>15, <3>1, ReportedStays DEF IInv
  <2>22. NothingSent'
    BY <2>1 DEF IInv, NothingSent
  <2>. QED  BY <2>12, <2>15, <2>16, <2>17, <2>18, <2>19, <2>20, <2>21, <2>22 DEF IInv, TypeOK, EntriesAgree
<1>. QED  BY <1>1, <1>2

-----------------------------------------------------------------------------
(* A packet from a client.                                                 *)

Packet == [msg_type : {"TCP_MSG_NEW", "TCP_MSG_SUBSCRIBE", "TCP_MSG_UNSUBSCRIBE"},
           payload : Names]

\* Whole or cut, what recv returns has a type and a payload the handlers know.
LEMMA PacketType ==
  ASSUME IInv, NEW p \in Procs, NEW m \in recv_packet(p)
  PROVE  m \in Packet
<1>. DEFINE h == Head(stream[p])
<1>1. stream[p] # <<>> /\ m \in {h} \cup TornReads(h)
  <2>1. stream[p] \in Seq(TCP_ctos_msg)
    BY DEF IInv, TypeOK, SocketsTypeOK
  <2>2. stream[p] = <<>> => ~(Len(stream[p]) >= Segments)
    BY EmptySeq
  <2>3. CASE Len(stream[p]) >= Segments
    BY <2>2, <2>3 DEF recv_packet
  <2>4. CASE ~(Len(stream[p]) >= Segments)
    BY <2>4 DEF recv_packet
  <2>. QED  BY <2>3, <2>4
<1>2. h \in TCP_ctos_msg
  BY <1>1, HeadTailProperties DEF IInv, TypeOK, SocketsTypeOK
<1>. HIDE DEF h
<1>3. h \in Packet /\ h.payload \in Ids \cup Topics
  BY <1>2 DEF TCP_ctos_msg, Packet, Names
<1>4. Cuts[h.payload] \in SUBSET Names
  BY <1>3, CutsAssumption
<1>5. \A s \in Cuts[h.payload] \cup {EmptyString} : [h EXCEPT !.payload = s] \in Packet
  BY <1>3, <1>4 DEF Packet, Names
<1>6. [msg_type |-> "TCP_MSG_NEW", payload |-> EmptyString] \in Packet
  BY DEF Packet, Names
<1>. QED  BY <1>1, <1>3, <1>5, <1>6 DEF TornReads

\* Handling a packet, when it closes no connection: the list keeps its length
\* and its descriptors, and the rest of the packet's effect is on ids, states
\* and subscriptions.
LEMMA ReceivedStep ==
  ASSUME IInv, NEW i \in Slots, NEW fd \in ClientFds, ClientEvent(i, fd), Received(i, fd),
         connected_clients' \in Seq(client_node(ClientFds, Names)),
         Len(connected_clients') = Len(connected_clients),
         \A k \in 1 .. Len(connected_clients) : connected_clients'[k].fd = connected_clients[k].fd,
         subscriptions' \in Seq(subscription_node(Names, Names)),
         UNCHANGED inbox, UNCHANGED subscriberVars
  PROVE  IInv'
<1>. USE DEF subscriberVars
<1>. DEFINE p == sock[fd]
<1>1. srv = "running" /\ i \in Pending /\ p \in Procs
  BY ClientOf
<1>2. /\ stream' = recv_rest(fd)
      /\ idx_iterator' = i + 1
      /\ UNCHANGED <<backlog, sock, conn, hup, udp_queue, typed, trailer,
                     pollfds, num_pollfds, srv, stdio, current>>
  BY DEF Received
<1>3. stream' \in [Procs -> Seq(TCP_ctos_msg)]
  <2>1. stream \in [Procs -> Seq(TCP_ctos_msg)] /\ stream[p] \in Seq(TCP_ctos_msg)
    BY <1>1 DEF IInv, TypeOK, SocketsTypeOK
  <2>. DEFINE s == stream[p]
  <2>2. /\ Len(s) \in Int /\ Segments + 1 \in Int
        /\ \A j \in Segments + 1 .. Len(s) : s[j] \in TCP_ctos_msg
    <3>. HIDE DEF s
    <3>1. Len(s) \in Nat /\ \A j \in 1 .. Len(s) : s[j] \in TCP_ctos_msg
      BY <2>1, LenProperties, ElementOfSeq DEF s
    <3>2. Segments + 1 \in Nat /\ Segments + 1 >= 1
      BY SocketsAssumption
    <3>. QED  BY <3>1, <3>2
  <2>3. SubSeq(s, Segments + 1, Len(s)) \in Seq(TCP_ctos_msg)
    <3>. HIDE DEF s
    <3>. QED  BY <2>2, SubSeqProperties
  <2>4. stream' = [stream EXCEPT ![p] = SubSeq(s, Segments + 1, Len(s))]
    BY <1>2 DEF recv_rest
  <2>. HIDE DEF s, p
  <2>. QED  BY <1>1, <2>1, <2>3, <2>4
<1>4. SocketsTypeOK'
  BY <1>2, <1>3 DEF IInv, TypeOK, SocketsTypeOK
<1>5. PollerTypeOK(Descriptors)
  BY DEF IInv, TypeOK, ServerTypeOK
<1>6. poller_next_fd_with_POLLIN(i, fd)
  BY DEF ClientEvent, Event
<1>7. idx_iterator' \in Nat
  BY <1>2, <1>5, <1>6, Passed
<1>8. ServerTypeOK'
  BY <1>2, <1>5, <1>7 DEF IInv, TypeOK, ServerTypeOK, PollerTypeOK
<1>9. SubscriberTypeOK'
  BY DEF IInv, TypeOK, SubscriberTypeOK
<1>10. EntriesAgree'
  BY <1>2, EntriesStay DEF IInv
<1>11. QueueAgrees'
  BY <1>2 DEF IInv, QueueAgrees
<1>12. \A j \in Pending' : j > i /\ j \in Pending
  BY <1>2, <1>5, <1>6, PendingShrinks
<1>13. ReportedReady'
  BY <1>2, <1>4, <1>12, ReportedStays DEF IInv
<1>14. NothingSent'
  BY <1>2 DEF IInv, NothingSent
<1>. QED  BY <1>4, <1>8, <1>9, <1>10, <1>11, <1>13, <1>14 DEF IInv, TypeOK

LEMMA MessageStep ==
  ASSUME IInv, NEW i \in Slots, NEW fd \in ClientFds, TCP_message(i, fd), UNCHANGED subscriberVars
  PROVE  IInv'
<1>1. ClientEvent(i, fd)
  BY DEF TCP_message
<1>2. PICK m \in recv_packet(sock[fd]) :
        \/ RegisterClient(i, fd, m)
        \/ RejectClient(i, fd, m)
        \/ TCP_server_subscribe(i, fd, m)
        \/ TCP_server_unsubscribe(i, fd, m)
        \/ RepeatedNew(i, fd, m)
  BY DEF TCP_message
<1>. DEFINE k == ClientIdx(fd)
            n == Len(connected_clients)
<1>3. sock[fd] \in Procs /\ k \in 1 .. n
  BY <1>1, ClientOf
<1>4. m \in Packet
  BY <1>3, PacketType
<1>5. /\ connected_clients \in Seq(client_node(ClientFds, Names))
      /\ subscriptions \in Seq(subscription_node(Names, Names))
  BY DEF IInv, TypeOK, ServerTypeOK
<1>6. connected_clients[k] \in client_node(ClientFds, Names) /\ k # 0
  <2>1. connected_clients[k] \in client_node(ClientFds, Names)
    <3>. HIDE DEF k
    <3>. QED  BY <1>3, <1>5, ElementOfSeq
  <2>. QED  BY <1>3, <2>1
<1>. HIDE DEF k
<1>7. CASE RegisterClient(i, fd, m)
  <2>1. Received(i, fd) /\ UNCHANGED <<subscriptions, inbox>>
    BY <1>7 DEF RegisterClient
  <2>2. CASE m.msg_type # "TCP_MSG_NEW"
    <3>1. UNCHANGED connected_clients
      BY <1>7, <2>2 DEF RegisterClient
    <3>. QED  BY <1>1, <1>5, <2>1, <3>1, ReceivedStep
  <2>3. CASE m.msg_type = "TCP_MSG_NEW"
    <3>. DEFINE c == [connected_clients[k] EXCEPT !.state = CLIENT_STATE_CONNECTED, !.id = m.payload]
    <3>1. connected_clients' = [connected_clients EXCEPT ![k] = c]
      BY <1>6, <1>7, <2>3 DEF RegisterClient, clients_list_update_client, k
    <3>2. c \in client_node(ClientFds, Names) /\ c.fd = connected_clients[k].fd
      BY <1>4, <1>6 DEF client_node, Packet
    <3>. HIDE DEF c
    <3>3. /\ connected_clients' \in Seq(client_node(ClientFds, Names))
          /\ Len(connected_clients') = n
          /\ \A j \in 1 .. n : connected_clients'[j] = IF j = k THEN c ELSE connected_clients[j]
      <4>1. connected_clients \in Seq(client_node(ClientFds, Names)) /\ k \in 1 .. Len(connected_clients)
        BY <1>3, <1>5
      <4>. DEFINE e == [connected_clients EXCEPT ![k] = c]
      <4>2. /\ e \in Seq(client_node(ClientFds, Names))
            /\ Len(e) = Len(connected_clients)
            /\ \A j \in 1 .. Len(connected_clients) : e[j] = IF j = k THEN c ELSE connected_clients[j]
        BY <3>2, <4>1, ExceptSeq
      <4>. QED  BY <3>1, <4>2
    <3>. QED  BY <1>1, <1>5, <2>1, <3>2, <3>3, ReceivedStep
  <2>. QED  BY <2>2, <2>3
<1>8. CASE RejectClient(i, fd, m)
  BY <1>1, <1>8, CloseStep DEF RejectClient
<1>9. CASE TCP_server_subscribe(i, fd, m)
  <2>1. Received(i, fd) /\ UNCHANGED <<connected_clients, inbox>>
    BY <1>9 DEF TCP_server_subscribe
  <2>2. PICK topic \in TCP_server_get_sub_args(m) :
          subscriptions' = subscriptions_add_subscription(subscriptions,
                             [topic |-> topic, subscriber_id |-> connected_clients[k].id])
    BY <1>6, <1>9 DEF TCP_server_subscribe, k
  <2>3. topic \in Names
    <3>1. m.payload \in Names
      BY <1>4 DEF Packet
    <3>. QED  BY <2>2, <3>1 DEF TCP_server_get_sub_args, Names
  <2>. DEFINE sub == [topic |-> topic, subscriber_id |-> connected_clients[k].id]
  <2>4. sub \in subscription_node(Names, Names)
    BY <1>6, <2>3 DEF client_node, subscription_node
  <2>5. subscriptions' = <<sub>> \o subscriptions
    BY <2>2 DEF subscriptions_add_subscription
  <2>. HIDE DEF sub
  <2>6. subscriptions' \in Seq(subscription_node(Names, Names))
    BY <1>5, <2>4, <2>5, AddAtHead
  <2>. QED  BY <1>1, <1>5, <2>1, <2>6, ReceivedStep
<1>10. CASE TCP_server_unsubscribe(i, fd, m)
  <2>1. CASE subscriptions_remove_faults(subscriptions, Unsubscribed(fd, m))
    BY <1>10, <2>1, EndPreservesIInv DEF TCP_server_unsubscribe, ServerStates
  <2>2. CASE ~subscriptions_remove_faults(subscriptions, Unsubscribed(fd, m))
    <3>. DEFINE u == Unsubscribed(fd, m)
    <3>1. /\ subscriptions' = subscriptions_remove_subscription(subscriptions, u)
          /\ Received(i, fd)
          /\ UNCHANGED <<connected_clients, inbox>>
      BY <1>10, <2>2 DEF TCP_server_unsubscribe
    <3>2. u \in 0 .. Len(subscriptions)
      BY <1>5, <1>6, FindSubscription DEF Unsubscribed, k
    <3>. HIDE DEF u
    <3>3. subscriptions' \in Seq(subscription_node(Names, Names))
      <4>1. CASE u = 0
        BY <1>5, <3>1, <4>1 DEF subscriptions_remove_subscription
      <4>2. CASE u # 0
        <5>1. u \in 1 .. Len(subscriptions)
          BY <1>5, <3>2, <4>2, LenProperties
        <5>2. RemoveAt(subscriptions, u) \in Seq(subscription_node(Names, Names))
          BY <1>5, <5>1, RemoveNode
        <5>. QED  BY <3>1, <4>2, <5>2 DEF subscriptions_remove_subscription
      <4>. QED  BY <4>1, <4>2
    <3>. QED  BY <1>1, <1>5, <3>1, <3>3, ReceivedStep
  <2>. QED  BY <2>1, <2>2
<1>11. CASE RepeatedNew(i, fd, m)
  BY <1>1, <1>5, <1>11, ReceivedStep DEF RepeatedNew
<1>. QED  BY <1>2, <1>7, <1>8, <1>9, <1>10, <1>11

-----------------------------------------------------------------------------
(* The subscribers and their environment.  No step of theirs touches the    *)
(* poller or the client list, opens a connection or closes one that is      *)
(* open: what the kernel tells a subscriber of a closed one may change.     *)

LEMMA OutsideStep ==
  ASSUME IInv, SocketsTypeOK', SubscriberTypeOK',
         UNCHANGED <<serverVars, sock>>,
         UNCHANGED backlog,
         \A p \in Procs : \/ conn'[p] = conn[p]
                          \/ conn[p] = "fin" /\ conn'[p] = "broken" /\ pc[p] # "idle",
         \A p \in Procs : pc'[p] = "idle" => pc[p] = "idle",
         UNCHANGED <<typed, trailer>> \/ typed' # <<>> \/ trailer' # "nothing",
         udp_queue' = udp_queue \/ udp_queue' # <<>>
  PROVE  IInv'
<1>. USE DEF serverVars, pollerVars, listVars
<1>1. ServerTypeOK'
  BY DEF IInv, TypeOK, ServerTypeOK, PollerTypeOK
<1>2. EntriesAgree'
  BY EntriesStay DEF IInv
<1>3. QueueAgrees'
  BY QueueStays DEF IInv
<1>4. Pending' = Pending
  BY DEF Pending
<1>5. ReportedReady'
  BY <1>4, ReportedStays DEF IInv
<1>6. NothingSent'
  BY DEF IInv, NothingSent
<1>. QED  BY <1>1, <1>2, <1>3, <1>5, <1>6 DEF IInv, TypeOK

LEMMA SendAllType ==
  ASSUME NEW m \in TCP_ctos_msg
  PROVE  send_all(m) \in Seq(TCP_ctos_msg)
<1>1. 2 * Segments \in Nat
  BY SocketsAssumption
<1>. QED  BY <1>1 DEF send_all

\* The run joins the end of the queue.
LEMMA ConnectStep ==
  ASSUME IInv, NEW p \in Procs, Connect(p), UNCHANGED serverVars
  PROVE  IInv'
<1>. USE DEF serverVars, pollerVars, listVars
<1>. DEFINE m == [msg_type |-> "TCP_MSG_NEW", payload |-> IdOf[p]]
<1>1. /\ pc[p] = "idle"
      /\ pc' = [pc EXCEPT ![p] = "running"]
      /\ out' = [out EXCEPT ![p] = send_all(m)]
      /\ conn' = [conn EXCEPT ![p] = "queued"]
      /\ backlog' = Append(backlog, p)
      /\ UNCHANGED <<sock, stream, hup, udp_queue, typed, trailer, scanning, cmds, ledger>>
  BY DEF Connect, Started
<1>2. conn[p] = "none"
  BY <1>1 DEF IInv, QueueAgrees
<1>3. /\ backlog' \in Seq(Procs) /\ Len(backlog) \in Nat /\ Len(backlog') = Len(backlog) + 1
      /\ backlog' # <<>> /\ backlog'[Len(backlog) + 1] = p
      /\ \A k \in 1 .. Len(backlog) : backlog'[k] = backlog[k]
  <2>1. backlog \in Seq(Procs) /\ backlog' = Append(backlog, p)
    BY <1>1 DEF IInv, TypeOK, SocketsTypeOK
  <2>. QED  BY <2>1, AppendProperties, LenProperties
<1>4. \A q \in Procs : conn'[q] = IF q = p THEN "queued" ELSE conn[q]
  BY <1>1 DEF IInv, TypeOK, SocketsTypeOK
<1>5. SocketsTypeOK'
  BY <1>1, <1>3 DEF IInv, TypeOK, SocketsTypeOK, ConnStates
<1>6. SubscriberTypeOK'
  <2>1. m \in TCP_ctos_msg
    BY SubscriberAssumption DEF TCP_ctos_msg
  <2>2. send_all(m) \in Seq(TCP_ctos_msg)
    BY <2>1, SendAllType
  <2>. HIDE DEF m
  <2>. QED  BY <1>1, <2>2 DEF IInv, TypeOK, SubscriberTypeOK, SubscriberStates
<1>7. ServerTypeOK'
  BY DEF IInv, TypeOK, ServerTypeOK, PollerTypeOK
<1>8. EntriesAgree'
  BY <1>1, <1>2, <1>4, EntriesStay DEF IInv
<1>9. QueueAgrees'
  <2>1. \A q \in Procs : pc'[q] = "idle" => conn'[q] = "none"
    BY <1>1, <1>4 DEF IInv, QueueAgrees, TypeOK, SubscriberTypeOK
  <2>2. \A k \in 1 .. Len(backlog) : backlog[k] # p
    BY <1>2 DEF IInv, QueueAgrees
  <2>3. \A j, k \in 1 .. Len(backlog') : backlog'[j] = backlog'[k] => j = k
    BY <1>3, <2>2 DEF IInv, QueueAgrees
  <2>4. \A q \in Procs : conn'[q] = "queued" <=> \E k \in 1 .. Len(backlog') : backlog'[k] = q
    <3>. SUFFICES ASSUME NEW q \in Procs
                  PROVE  conn'[q] = "queued" <=> \E k \in 1 .. Len(backlog') : backlog'[k] = q
      OBVIOUS
    <3>1. CASE q = p
      BY <1>3, <1>4, <3>1
    <3>2. CASE q # p
      <4>1. conn[q] = "queued" <=> \E k \in 1 .. Len(backlog) : backlog[k] = q
        BY DEF IInv, QueueAgrees
      <4>2. (\E k \in 1 .. Len(backlog) : backlog[k] = q) <=> \E k \in 1 .. Len(backlog') : backlog'[k] = q
        BY <1>3, <3>2
      <4>. QED  BY <1>4, <3>2, <4>1, <4>2
    <3>. QED  BY <3>1, <3>2
  <2>. QED  BY <2>1, <2>3, <2>4 DEF QueueAgrees
<1>10. Pending' = Pending
  BY DEF Pending
<1>11. ReportedReady'
  BY <1>1, <1>3, <1>5, <1>10, ReportedStays DEF IInv
<1>12. NothingSent'
  BY DEF IInv, NothingSent
<1>. QED  BY <1>5, <1>6, <1>7, <1>8, <1>9, <1>11, <1>12 DEF IInv, TypeOK

LEMMA EndOfRun ==
  ASSUME IInv, NEW p \in Procs, SubscriberEnds(p),
         UNCHANGED <<backlog, sock, stream, conn, udp_queue, typed, trailer>>, UNCHANGED serverVars
  PROVE  IInv'
<1>1. SocketsTypeOK'
  BY DEF SubscriberEnds, IInv, TypeOK, SocketsTypeOK
<1>2. SubscriberTypeOK'
  <2>1. <<>> \in Seq(TCP_ctos_msg)
    BY EmptySeq
  <2>. QED  BY <2>1 DEF SubscriberEnds, IInv, TypeOK, SubscriberTypeOK, SubscriberStates
<1>3. \A q \in Procs : pc'[q] = "idle" => pc[q] = "idle"
  BY DEF SubscriberEnds, IInv, TypeOK, SubscriberTypeOK
<1>. QED  BY <1>1, <1>2, <1>3, OutsideStep

LEMMA PushStep ==
  ASSUME IInv, NEW p \in Procs, Push(p), UNCHANGED serverVars
  PROVE  IInv'
<1>1. out[p] \in Seq(TCP_ctos_msg) /\ out[p] # <<>>
  BY DEF Push, IInv, TypeOK, SubscriberTypeOK
<1>2. Head(out[p]) \in TCP_ctos_msg /\ Tail(out[p]) \in Seq(TCP_ctos_msg)
  BY <1>1, HeadTailProperties
<1>3. SubscriberTypeOK'
  BY <1>2 DEF Push, IInv, TypeOK, SubscriberTypeOK
<1>4. \A q \in Procs : \/ conn'[q] = conn[q]
                       \/ conn[q] = "fin" /\ conn'[q] = "broken" /\ pc[q] # "idle"
  BY DEF Push, IInv, TypeOK, SocketsTypeOK
<1>5. conn' \in [Procs -> ConnStates]
  BY DEF Push, IInv, TypeOK, SocketsTypeOK, ConnStates
<1>6. stream' \in [Procs -> Seq(TCP_ctos_msg)]
  <2>1. stream \in [Procs -> Seq(TCP_ctos_msg)] /\ stream[p] \in Seq(TCP_ctos_msg)
    BY DEF IInv, TypeOK, SocketsTypeOK
  <2>2. Append(stream[p], Head(out[p])) \in Seq(TCP_ctos_msg)
    BY <1>2, <2>1, AppendProperties
  <2>. QED  BY <2>1, <2>2 DEF Push
<1>7. SocketsTypeOK'
  BY <1>5, <1>6 DEF Push, IInv, TypeOK, SocketsTypeOK
<1>. QED  BY <1>3, <1>4, <1>7, OutsideStep DEF Push

LEMMA CommandStep ==
  ASSUME IInv, NEW p \in Procs, NEW topic \in Topics, NEW count \in Nat,
         NEW type \in {"TCP_MSG_SUBSCRIBE", "TCP_MSG_UNSUBSCRIBE"},
         Command(p, type, topic, count), UNCHANGED serverVars
  PROVE  IInv'
<1>. DEFINE m == [msg_type |-> type, payload |-> topic]
<1>1. send_all(m) \in Seq(TCP_ctos_msg)
  <2>1. m \in TCP_ctos_msg
    BY DEF TCP_ctos_msg
  <2>. QED  BY <2>1, SendAllType
<1>. HIDE DEF m
<1>2. /\ cmds[p] < MaxCommands[p]
      /\ cmds' = [cmds EXCEPT ![p] = @ + 1]
      /\ out' = [out EXCEPT ![p] = send_all(m)]
      /\ ledger' = [ledger EXCEPT ![p][topic] = count]
      /\ scanning' = scanning \ {p}
      /\ UNCHANGED <<netVars, pc>>
  BY DEF Command, m
<1>3. SubscriberTypeOK'
  <2>1. cmds' \in [Procs -> Nat] /\ \A q \in Procs : cmds'[q] <= MaxCommands[q]
    <3>1. /\ cmds \in [Procs -> Nat] /\ MaxCommands \in [Procs -> Nat]
          /\ \A q \in Procs : cmds[q] <= MaxCommands[q]
      BY SubscriberAssumption DEF IInv, TypeOK, SubscriberTypeOK
    <3>2. cmds[p] + 1 \in Nat /\ cmds[p] + 1 <= MaxCommands[p]
      BY <1>2, <3>1
    <3>3. cmds' = [cmds EXCEPT ![p] = cmds[p] + 1]
      BY <1>2
    <3>4. cmds' \in [Procs -> Nat]
      BY <3>1, <3>2, <3>3
    <3>5. \A q \in Procs : cmds'[q] = IF q = p THEN cmds[p] + 1 ELSE cmds[q]
      BY <3>1, <3>3
    <3>. QED  BY <3>1, <3>2, <3>4, <3>5
  <2>2. out' \in [Procs -> Seq(TCP_ctos_msg)]
    BY <1>1, <1>2 DEF IInv, TypeOK, SubscriberTypeOK
  <2>3. ledger' \in [Procs -> [Topics -> Nat]]
    BY <1>2 DEF IInv, TypeOK, SubscriberTypeOK
  <2>. QED  BY <1>2, <2>1, <2>2, <2>3 DEF IInv, TypeOK, SubscriberTypeOK
<1>4. SocketsTypeOK'
  BY <1>2 DEF netVars, IInv, TypeOK, SocketsTypeOK
<1>. QED  BY <1>2, <1>3, <1>4, OutsideStep DEF netVars

LEMMA UserPreservesIInv ==
  ASSUME IInv, NEW p \in Procs, UserStep(p)
  PROVE  IInv'
<1>1. UNCHANGED serverVars
  BY DEF UserStep
<1>2. CASE \E topic \in Topics : SubscribeCommand(p, topic) \/ UnsubscribeCommand(p, topic)
  <2>1. PICK topic \in Topics : SubscribeCommand(p, topic) \/ UnsubscribeCommand(p, topic)
    BY <1>2
  <2>2. ledger[p][topic] \in Nat
    BY DEF IInv, TypeOK, SubscriberTypeOK
  <2>3. CASE SubscribeCommand(p, topic)
    BY <1>1, <2>2, <2>3, CommandStep DEF SubscribeCommand
  <2>4. CASE UnsubscribeCommand(p, topic)
    <3>. DEFINE count == IF ledger[p][topic] = 0 THEN 0 ELSE ledger[p][topic] - 1
    <3>1. count \in Nat
      BY <2>2
    <3>. HIDE DEF count
    <3>2. Command(p, "TCP_MSG_UNSUBSCRIBE", topic, count)
      BY <2>4 DEF UnsubscribeCommand, count
    <3>. QED  BY <1>1, <3>1, <3>2, CommandStep
  <2>. QED  BY <2>1, <2>3, <2>4
<1>3. CASE ExitCommand(p)
  BY <1>1, <1>3, EndOfRun DEF ExitCommand
<1>4. CASE Kill(p)
  BY <1>1, <1>4, EndOfRun DEF Kill
<1>5. CASE BeginCommand(p) \/ UnknownWord(p)
  <2>1. /\ scanning' \in SUBSET Procs
        /\ UNCHANGED <<netVars, pc, out, cmds, ledger>>
    BY <1>5 DEF BeginCommand, UnknownWord, IInv, TypeOK, SubscriberTypeOK
  <2>2. SocketsTypeOK' /\ SubscriberTypeOK'
    BY <2>1 DEF netVars, IInv, TypeOK, SocketsTypeOK, SubscriberTypeOK
  <2>. QED  BY <1>1, <2>1, <2>2, OutsideStep DEF netVars
<1>. QED  BY <1>2, <1>3, <1>4, <1>5 DEF UserStep, User

LEMMA SubscriberPreservesIInv ==
  ASSUME IInv, NEW p \in Procs, SubscriberStep(p)
  PROVE  IInv'
<1>1. UNCHANGED serverVars
  BY DEF SubscriberStep
<1>2. CASE Push(p)
  BY <1>1, <1>2, PushStep
<1>3. CASE SendFails(p)
  BY <1>1, <1>3, EndOfRun DEF SendFails
<1>4. CASE Hangup(p)
  BY <1>1, <1>4, EndOfRun DEF Hangup
<1>. QED  BY <1>2, <1>3, <1>4 DEF SubscriberStep, run_client

LEMMA StartPreservesIInv ==
  ASSUME IInv, NEW p \in Procs, Start(p)
  PROVE  IInv'
<1>1. UNCHANGED serverVars
  BY DEF Start
<1>2. CASE Connect(p)
  BY <1>1, <1>2, ConnectStep
<1>3. CASE ConnectRefused(p)
  BY <1>1, <1>3, EndOfRun DEF ConnectRefused
<1>. QED  BY <1>2, <1>3 DEF Start

LEMMA TypeCommandStep ==
  ASSUME IInv, NEW cmd \in Commands, TypeCommand(cmd)
  PROVE  IInv'
<1>1. typed' \in Seq(Commands) /\ typed' # <<>>
  <2>1. typed \in Seq(Commands) /\ typed' = Append(typed, cmd)
    BY DEF TypeCommand, IInv, TypeOK, SocketsTypeOK
  <2>. QED  BY <2>1, AppendProperties
<1>2. SocketsTypeOK' /\ SubscriberTypeOK'
  BY <1>1 DEF TypeCommand, subscriberVars, IInv, TypeOK, SocketsTypeOK, SubscriberTypeOK
<1>. QED  BY <1>1, <1>2, OutsideStep DEF TypeCommand, subscriberVars

LEMMA TypeTrailerStep ==
  ASSUME IInv, NEW t \in Trailers, TypeTrailer(t)
  PROVE  IInv'
<1>1. trailer' \in Trailers /\ trailer' # "nothing"
  BY DEF TypeTrailer
<1>2. SocketsTypeOK' /\ SubscriberTypeOK'
  BY <1>1 DEF TypeTrailer, subscriberVars, IInv, TypeOK, SocketsTypeOK, SubscriberTypeOK
<1>. QED  BY <1>1, <1>2, OutsideStep DEF TypeTrailer, subscriberVars

LEMMA SendDatagramStep ==
  ASSUME IInv, NEW topic \in Topics, SendDatagram(topic)
  PROVE  IInv'
<1>1. udp_queue' \in Seq(Topics) /\ udp_queue' # <<>>
  BY AppendProperties DEF SendDatagram, IInv, TypeOK, SocketsTypeOK
<1>2. SocketsTypeOK' /\ SubscriberTypeOK'
  BY <1>1 DEF SendDatagram, subscriberVars, IInv, TypeOK, SocketsTypeOK, SubscriberTypeOK
<1>. QED  BY <1>1, <1>2, OutsideStep DEF SendDatagram, subscriberVars

-----------------------------------------------------------------------------
(* Every step.                                                             *)

LEMMA ServerPreservesIInv ==
  ASSUME IInv, ServerStep
  PROVE  IInv'
<1>1. UNCHANGED subscriberVars
  BY DEF ServerStep
<1>2. CASE Poll
  BY <1>1, <1>2, PollStep
<1>3. ASSUME NEW i \in Slots, UnknownCommand(i) PROVE IInv'
  BY <1>1, <1>3, UnknownCommandStep
<1>4. ASSUME NEW i \in Slots, server_exit(i) PROVE IInv'
  BY <1>1, <1>4, EndPreservesIInv DEF server_exit, ServerStates
<1>5. ASSUME NEW i \in Slots, UDP_server_recv(i) PROVE IInv'
  BY <1>1, <1>5, UDPStep
<1>6. ASSUME NEW i \in Slots, SendStatusUnassigned(i) PROVE IInv'
  BY <1>1, <1>6, EndPreservesIInv DEF SendStatusUnassigned, ServerStates
<1>7. ASSUME NEW i \in Slots, TCP_server_accept_connection(i) PROVE IInv'
  BY <1>1, <1>7, AcceptStep
<1>8. ASSUME NEW i \in Slots, AcceptFails(i) PROVE IInv'
  BY <1>1, <1>8, EndPreservesIInv DEF AcceptFails, ServerStates
<1>9. ASSUME NEW i \in Slots, PollerOverflows(i) \/ CommandOverflows(i) PROVE IInv'
  BY <1>1, <1>9, OverflowStep
<1>10. ASSUME NEW i \in Slots, NEW fd \in ClientFds, Disconnect(i, fd) PROVE IInv'
  BY <1>1, <1>10, CloseStep DEF Disconnect
<1>11. ASSUME NEW i \in Slots, NEW fd \in ClientFds, TCP_message(i, fd) PROVE IInv'
  BY <1>1, <1>11, MessageStep
<1>. QED  BY <1>2, <1>3, <1>4, <1>5, <1>6, <1>7, <1>8, <1>9, <1>10, <1>11 DEF ServerStep, run_server

LEMMA NextPreservesIInv == IInv /\ [Next]_vars => IInv'
<1>. SUFFICES ASSUME IInv, [Next]_vars PROVE IInv'
  OBVIOUS
<1>1. CASE ServerStep
  BY <1>1, ServerPreservesIInv
<1>2. ASSUME NEW p \in Procs, Start(p) PROVE IInv'
  BY <1>2, StartPreservesIInv
<1>3. ASSUME NEW p \in Procs, SubscriberStep(p) PROVE IInv'
  BY <1>3, SubscriberPreservesIInv
<1>4. ASSUME NEW p \in Procs, UserStep(p) PROVE IInv'
  BY <1>4, UserPreservesIInv
<1>5. ASSUME NEW cmd \in Commands, TypeCommand(cmd) PROVE IInv'
  BY <1>5, TypeCommandStep
<1>8. ASSUME NEW t \in Trailers, TypeTrailer(t) PROVE IInv'
  BY <1>8, TypeTrailerStep
<1>6. ASSUME NEW topic \in Topics, SendDatagram(topic) PROVE IInv'
  BY <1>6, SendDatagramStep
<1>7. CASE UNCHANGED vars
  <2>1. SocketsTypeOK' /\ SubscriberTypeOK'
    BY <1>7 DEF vars, netVars, subscriberVars, IInv, TypeOK, SocketsTypeOK, SubscriberTypeOK
  <2>. QED  BY <1>7, <2>1, OutsideStep DEF vars, netVars, subscriberVars
<1>. QED  BY <1>1, <1>2, <1>3, <1>4, <1>5, <1>6, <1>7, <1>8 DEF Next

\* The invariant the others follow from (PubSub.IInv).
THEOREM InductiveInvariant == Spec => []IInv
BY InitIInv, NextPreservesIInv, PTL DEF Spec

\* Every variable has its type.
THEOREM TypeCorrect == Spec => []TypeOK
<1>1. IInv => TypeOK
  BY DEF IInv
<1>. QED  BY <1>1, InductiveInvariant, PTL

\* The poller's array, the list of clients and the kernel's descriptor table
\* hold the same connections.
THEOREM EntriesAlwaysAgree == Spec => []EntriesAgree
<1>1. IInv => EntriesAgree
  BY DEF IInv
<1>. QED  BY <1>1, InductiveInvariant, PTL

\* Taking a datagram or a connection that poll reported never blocks, and reading
\* standard input blocks only on a blank line (PubSub.WaitsForWord).
THEOREM ListenersBlockOnlyOnBlankLine == Spec => []ReportedReady
<1>1. IInv => ReportedReady
  BY DEF IInv
<1>. QED  BY <1>1, InductiveInvariant, PTL

\* No packet is ever sent to a subscriber.
THEOREM NothingEverSent == Spec => []NothingSent
<1>1. IInv => NothingSent
  BY DEF IInv
<1>. QED  BY <1>1, InductiveInvariant, PTL

-----------------------------------------------------------------------------
(* Ids.  Only three actions change the list of clients: one adds a node     *)
(* without an id, one gives a node an id nobody has, one removes a node.    *)

LEMMA AddKeepsIds ==
  ASSUME IInv, IdInv,
         NEW c \in client_node(ClientFds, Names), c.state = CLIENT_STATE_NEW, c.id = EmptyString,
         connected_clients' = clients_list_add_client(connected_clients, c)
  PROVE  IdInv'
<1>. DEFINE n == Len(connected_clients)
<1>1. connected_clients \in Seq(client_node(ClientFds, Names)) /\ n \in Nat
  BY LenProperties DEF IInv, TypeOK, ServerTypeOK
<1>3. connected_clients' = <<c>> \o connected_clients
  BY DEF clients_list_add_client
<1>4. /\ Len(connected_clients') = n + 1
      /\ connected_clients'[1] = c
      /\ \A j \in 2 .. n + 1 : connected_clients'[j] = connected_clients[j - 1]
  BY <1>1, <1>3, AddAtHead
<1>5. \A j \in 1 .. n + 1 : j = 1 \/ (j \in 2 .. n + 1 /\ j - 1 \in 1 .. n)
  <2>1. n \in Nat
    BY <1>1
  <2>. HIDE DEF n
  <2>. QED  BY <2>1
<1>6. CLIENT_STATE_NEW # CLIENT_STATE_CONNECTED
  BY DEF CLIENT_STATE_NEW, CLIENT_STATE_CONNECTED
<1>7. NewHasNoId'
  <2>. SUFFICES ASSUME NEW j \in 1 .. n + 1
                PROVE  connected_clients'[j].state = CLIENT_STATE_NEW <=> connected_clients'[j].id = EmptyString
    BY <1>4 DEF NewHasNoId
  <2>1. CASE j = 1
    BY <1>4, <2>1
  <2>2. CASE j # 1
    <3>1. connected_clients'[j] = connected_clients[j - 1] /\ j - 1 \in 1 .. n
      BY <1>4, <1>5, <2>2
    <3>. QED  BY <3>1 DEF IdInv, NewHasNoId
  <2>. QED  BY <2>1, <2>2
<1>8. UniqueIds'
  <2>. SUFFICES ASSUME NEW j \in 1 .. n + 1, NEW k \in 1 .. n + 1,
                       connected_clients'[j].state = CLIENT_STATE_CONNECTED,
                       connected_clients'[j].id = connected_clients'[k].id
                PROVE  j = k
    BY <1>4 DEF UniqueIds
  <2>1. j # 1
    BY <1>4, <1>6
  <2>2. connected_clients'[j] = connected_clients[j - 1] /\ j - 1 \in 1 .. n
    BY <1>4, <1>5, <2>1
  <2>3. connected_clients'[j].id # EmptyString
    BY <1>6, <2>2 DEF IdInv, NewHasNoId
  <2>4. k # 1
    BY <1>4, <2>3
  <2>5. connected_clients'[k] = connected_clients[k - 1] /\ k - 1 \in 1 .. n
    BY <1>4, <1>5, <2>4
  <2>6. j - 1 = k - 1
    BY <2>2, <2>5 DEF IdInv, UniqueIds
  <2>7. j \in Int /\ k \in Int
    <3>1. n \in Nat
      BY <1>1
    <3>. HIDE DEF n
    <3>. QED  BY <3>1
  <2>. QED  BY <2>6, <2>7
<1>. QED  BY <1>7, <1>8 DEF IdInv

LEMMA RemoveKeepsIds ==
  ASSUME IInv, IdInv, NEW k \in 1 .. Len(connected_clients),
         connected_clients' = clients_list_remove_client(connected_clients, k)
  PROVE  IdInv'
<1>. DEFINE n == Len(connected_clients)
            was(j) == IF j < k THEN j ELSE j + 1
<1>1. connected_clients \in Seq(client_node(ClientFds, Names)) /\ n \in Nat
  BY LenProperties DEF IInv, TypeOK, ServerTypeOK
<1>2. connected_clients' = RemoveAt(connected_clients, k)
  BY <1>1 DEF clients_list_remove_client
<1>3. /\ Len(connected_clients') = n - 1
      /\ \A j \in 1 .. n - 1 :
            connected_clients'[j] = IF j < k THEN connected_clients[j] ELSE connected_clients[j + 1]
  BY <1>1, <1>2, RemoveNode
<1>4. \A j \in 1 .. n - 1 : was(j) \in 1 .. n /\ connected_clients'[j] = connected_clients[was(j)]
  BY <1>1, <1>3
<1>5. \A j, m \in 1 .. n - 1 : was(j) = was(m) => j = m
  BY <1>1
<1>. HIDE DEF was
<1>6. NewHasNoId'
  BY <1>3, <1>4 DEF IdInv, NewHasNoId
<1>7. UniqueIds'
  <2>. SUFFICES ASSUME NEW j \in 1 .. n - 1, NEW m \in 1 .. n - 1,
                       connected_clients'[j].state = CLIENT_STATE_CONNECTED,
                       connected_clients'[j].id = connected_clients'[m].id
                PROVE  j = m
    BY <1>3 DEF UniqueIds
  <2>1. was(j) = was(m)
    BY <1>4 DEF IdInv, UniqueIds
  <2>. QED  BY <1>5, <2>1
<1>. QED  BY <1>6, <1>7 DEF IdInv

LEMMA RegisterKeepsIds ==
  ASSUME IInv, IdInv, NEW i \in Slots, NEW fd \in ClientFds, ClientEvent(i, fd),
         NEW m \in Packet, RegisterClient(i, fd, m)
  PROVE  IdInv'
<1>. DEFINE k == ClientIdx(fd)
            n == Len(connected_clients)
<1>1. connected_clients \in Seq(client_node(ClientFds, Names)) /\ n \in Nat
  BY LenProperties DEF IInv, TypeOK, ServerTypeOK
<1>2. k \in 1 .. n
  BY ClientOf
<1>3. k # 0 /\ connected_clients[k].state = CLIENT_STATE_NEW
  BY DEF RegisterClient, TCP_server_is_new_connection
<1>. HIDE DEF k
<1>4. CASE m.msg_type # "TCP_MSG_NEW"
  BY <1>4 DEF RegisterClient, IdInv, UniqueIds, NewHasNoId
<1>5. CASE m.msg_type = "TCP_MSG_NEW"
  <2>. DEFINE c == [connected_clients[k] EXCEPT !.state = CLIENT_STATE_CONNECTED, !.id = m.payload]
  <2>1. clients_list_find_by_id(connected_clients, m.payload) = 0
    BY <1>5 DEF RegisterClient
  <2>2. \A j \in 1 .. n : connected_clients[j].id # m.payload
    BY <1>1, <2>1, FindById
  <2>3. m.payload # EmptyString
    BY <1>2, <1>3, <2>2 DEF IdInv, NewHasNoId
  <2>4. connected_clients[k] \in client_node(ClientFds, Names)
    BY <1>1, <1>2, ElementOfSeq
  <2>5. c \in client_node(ClientFds, Names) /\ c.state = CLIENT_STATE_CONNECTED /\ c.id = m.payload
    BY <2>4 DEF client_node, Packet
  <2>6. connected_clients' = [connected_clients EXCEPT ![k] = c]
    BY <1>3, <1>5 DEF RegisterClient, clients_list_update_client, k
  <2>. HIDE DEF c
  <2>7. /\ Len(connected_clients') = n
        /\ \A j \in 1 .. n : connected_clients'[j] = IF j = k THEN c ELSE connected_clients[j]
    <3>1. k \in 1 .. Len(connected_clients)
      BY <1>2
    <3>. DEFINE e == [connected_clients EXCEPT ![k] = c]
    <3>2. /\ Len(e) = Len(connected_clients)
          /\ \A j \in 1 .. Len(connected_clients) : e[j] = IF j = k THEN c ELSE connected_clients[j]
      BY <1>1, <2>5, <3>1, ExceptSeq
    <3>. QED  BY <2>6, <3>2
  <2>8. NewHasNoId'
    <3>1. CLIENT_STATE_NEW # CLIENT_STATE_CONNECTED
      BY DEF CLIENT_STATE_NEW, CLIENT_STATE_CONNECTED
    <3>. QED  BY <2>3, <2>5, <2>7, <3>1 DEF IdInv, NewHasNoId
  <2>9. UniqueIds'
    BY <2>2, <2>5, <2>7 DEF IdInv, UniqueIds
  <2>. QED  BY <2>8, <2>9 DEF IdInv
<1>. QED  BY <1>4, <1>5

LEMMA CloseKeepsIds ==
  ASSUME IInv, IdInv, NEW i \in Slots, NEW fd \in ClientFds, ClientEvent(i, fd),
         TCP_server_close_connection(i, fd)
  PROVE  IdInv'
<1>1. CASE clients_list_remove_faults(connected_clients, ClientIdx(fd))
  BY <1>1 DEF TCP_server_close_connection, ServerEnds, listVars, IdInv, UniqueIds, NewHasNoId
<1>2. CASE ~clients_list_remove_faults(connected_clients, ClientIdx(fd))
  <2>1. ClientIdx(fd) \in 1 .. Len(connected_clients)
    BY ClientOf
  <2>2. connected_clients' = clients_list_remove_client(connected_clients, ClientIdx(fd))
    BY <1>2 DEF TCP_server_close_connection
  <2>. QED  BY <2>1, <2>2, RemoveKeepsIds
<1>. QED  BY <1>1, <1>2

LEMMA NextPreservesIdInv == IInv /\ IdInv /\ [Next]_vars => IdInv'
<1>. SUFFICES ASSUME IInv, IdInv, [Next]_vars PROVE IdInv'
  OBVIOUS
<1>1. ASSUME UNCHANGED connected_clients PROVE IdInv'
  BY <1>1 DEF IdInv, UniqueIds, NewHasNoId
<1>2. CASE ServerStep
  <2>1. CASE Poll
    BY <1>1, <2>1 DEF Poll, listVars
  <2>2. ASSUME NEW i \in Slots,
               \/ UnknownCommand(i) \/ server_exit(i) \/ SendStatusUnassigned(i)
               \/ AcceptFails(i) \/ PollerOverflows(i) \/ CommandOverflows(i)
        PROVE  IdInv'
    BY <1>1, <2>2 DEF UnknownCommand, server_exit, SendStatusUnassigned, AcceptFails,
                      PollerOverflows, CommandOverflows, ServerEnds, listVars
  <2>3. ASSUME NEW i \in Slots, UDP_server_recv(i) PROVE IdInv'
    BY <1>1, <2>3 DEF UDP_server_recv, ServerEnds, listVars
  <2>4. ASSUME NEW i \in Slots, TCP_server_accept_connection(i) PROVE IdInv'
    <3>1. PICK fd \in ClientFds :
            connected_clients' = clients_list_add_client(connected_clients,
                                   [state |-> CLIENT_STATE_NEW, fd |-> fd, id |-> EmptyString])
      BY <2>4 DEF TCP_server_accept_connection
    <3>. DEFINE c == [state |-> CLIENT_STATE_NEW, fd |-> fd, id |-> EmptyString]
    <3>2. c \in client_node(ClientFds, Names) /\ c.state = CLIENT_STATE_NEW /\ c.id = EmptyString
      BY DEF client_node, Names
    <3>3. connected_clients' = clients_list_add_client(connected_clients, c)
      BY <3>1
    <3>. HIDE DEF c
    <3>. QED  BY <3>2, <3>3, AddKeepsIds
  <2>5. ASSUME NEW i \in Slots, NEW fd \in ClientFds, Disconnect(i, fd) PROVE IdInv'
    BY <2>5, CloseKeepsIds DEF Disconnect
  <2>6. ASSUME NEW i \in Slots, NEW fd \in ClientFds, TCP_message(i, fd) PROVE IdInv'
    <3>1. ClientEvent(i, fd)
      BY <2>6 DEF TCP_message
    <3>2. PICK m \in recv_packet(sock[fd]) :
            \/ RegisterClient(i, fd, m)
            \/ RejectClient(i, fd, m)
            \/ TCP_server_subscribe(i, fd, m)
            \/ TCP_server_unsubscribe(i, fd, m)
            \/ RepeatedNew(i, fd, m)
      BY <2>6 DEF TCP_message
    <3>3. m \in Packet
      BY <3>1, ClientOf, PacketType
    <3>4. CASE RegisterClient(i, fd, m)
      BY <3>1, <3>3, <3>4, RegisterKeepsIds
    <3>5. CASE RejectClient(i, fd, m)
      BY <3>1, <3>5, CloseKeepsIds DEF RejectClient
    <3>6. CASE TCP_server_subscribe(i, fd, m) \/ RepeatedNew(i, fd, m)
      BY <1>1, <3>6 DEF TCP_server_subscribe, RepeatedNew
    <3>7. CASE TCP_server_unsubscribe(i, fd, m)
      BY <1>1, <3>7 DEF TCP_server_unsubscribe, ServerEnds, listVars
    <3>. QED  BY <3>2, <3>4, <3>5, <3>6, <3>7
  <2>. QED  BY <1>2, <2>1, <2>2, <2>3, <2>4, <2>5, <2>6 DEF ServerStep, run_server
<1>3. ASSUME NEW p \in Procs, Start(p) \/ SubscriberStep(p) \/ UserStep(p) PROVE IdInv'
  BY <1>1, <1>3 DEF Start, SubscriberStep, UserStep, serverVars, listVars
<1>4. ASSUME NEW cmd \in Commands, TypeCommand(cmd) PROVE IdInv'
  BY <1>1, <1>4 DEF TypeCommand, serverVars, listVars
<1>7. ASSUME NEW t \in Trailers, TypeTrailer(t) PROVE IdInv'
  BY <1>1, <1>7 DEF TypeTrailer, serverVars, listVars
<1>5. ASSUME NEW topic \in Topics, SendDatagram(topic) PROVE IdInv'
  BY <1>1, <1>5 DEF SendDatagram, serverVars, listVars
<1>6. CASE UNCHANGED vars
  BY <1>1, <1>6 DEF vars, serverVars, listVars
<1>. QED  BY <1>2, <1>3, <1>4, <1>5, <1>6, <1>7 DEF Next

\* No two connected clients have the same id, for any number of runs under one
\* id, and whatever is left of the packets of those that die.
THEOREM IdsAlwaysUnique == Spec => []UniqueIds
<1>1. Init => IdInv
  BY DEF Init, ServerInit, IdInv, UniqueIds, NewHasNoId
<1>2. IdInv => UniqueIds
  BY DEF IdInv
<1>. QED  BY <1>1, <1>2, NextPreservesIdInv, InductiveInvariant, PTL DEF Spec
=============================================================================
