------------------------------- MODULE Server -------------------------------
(***************************************************************************)
(* The server process: run_server (server.c) and the functions of          *)
(* TCP_server.c it calls.  The process has one thread, so an action is one *)
(* pass through the inner loop: the next descriptor the poller returns and *)
(* its whole handler.  The parameter i of a handler is the poller's slot.  *)
(* A handler that cannot get past a blocking call (scanf, recvfrom, accept *)
(* or recv with nothing to return) is not enabled, and then neither is any *)
(* other action of the server.                                             *)
(*                                                                         *)
(* recv_msg is overwritten whole by every packet (msg_len is always the    *)
(* size of TCP_ctos_msg), so it is local to the handlers.                  *)
(***************************************************************************)
EXTENDS Poller, Sockets, ClientsList, Subscriptions

CONSTANT Cuts     \* string -> what it may read as when its packet was cut short

ASSUME CutsAssumption ==
    Cuts \in [Ids \cup Topics -> SUBSET Names] /\ EmptyString \notin Ids \cup Topics

VARIABLES
    srv,                  \* what became of the process
    stdio,                \* standard input already read into scanf's buffer
    connected_clients,
    subscriptions,
    current,              \* the cursor subscriptions_get_next starts from
    inbox                 \* subscriber -> packets sent to it

listVars == <<connected_clients, subscriptions, current>>
serverVars == <<pollerVars, srv, stdio, listVars, inbox>>

\* "exited" through server_exit, "failed" through DIE, "crashed" by a signal,
\* "corrupted" once it has written past the end of the poller's array or of the
\* buffer of a command, from where this model does not follow it.
ServerStates == {"running", "exited", "failed", "crashed", "corrupted"}

ServerTypeOK ==
    /\ PollerTypeOK(Descriptors)
    /\ srv \in ServerStates
    /\ stdio \in Seq(Commands)
    /\ connected_clients \in Seq(client_node(ClientFds, Names))
    /\ subscriptions \in Seq(subscription_node(Names, Names))
    /\ current \in Seq(subscription_node(Names, Names))
    /\ inbox \in [Procs -> Nat]

ServerInit ==
    /\ poller_create(<<STDIN_FILENO, UDP_fd, TCP_fd>>)
    /\ srv = "running"
    /\ stdio = <<>>
    /\ connected_clients = <<>>
    /\ subscriptions = <<>>
    /\ current = <<>>
    /\ inbox = [p \in Procs |-> 0]

\* What unread[p] holds of the bytes p sent was not received.
ServerEnds(status, unread) ==
    /\ srv' = status
    /\ CloseAll(unread)
    /\ UNCHANGED <<pollerVars, stdio, listVars>>

Event(i, fd) ==
    /\ srv = "running"
    /\ poller_next_fd_with_POLLIN(i, fd)

-----------------------------------------------------------------------------
(* poll(2) blocks until a descriptor is readable.                          *)

Poll ==
    /\ srv = "running"
    /\ Pending = {}
    /\ \E i \in Slots : i < num_pollfds /\ pollfds[i].fd \in Ready
    /\ poller_poll(Ready)
    /\ UNCHANGED <<netVars, srv, stdio, listVars, inbox>>

-----------------------------------------------------------------------------
(* Standard input.  scanf reads all the pipe holds and takes one command.  *)
(* Where there is only white space it keeps waiting for a word.            *)

Input == IF stdio = <<>> THEN typed ELSE stdio

\* The read-ahead, the pipe and what follows in it once scanf has returned.
scanf ==
    /\ stdio' = IF Input = <<>> THEN <<>> ELSE Tail(Input)
    /\ IF stdio = <<>>
       THEN /\ typed' = <<>>
            /\ trailer' = IF trailer = "space" THEN "nothing" ELSE trailer
       ELSE UNCHANGED <<typed, trailer>>

\* At the end of the input scanf fails and leaves cmd unassigned, which is then
\* whatever the stack holds: an earlier command, but no exit, for it would have
\* ended the server.
UnknownCommand(i) ==
    /\ Event(i, STDIN_FILENO)
    /\ \/ Input # <<>> /\ Head(Input) = SERVER_CMD_UNDEFINED
       \/ Input = <<>> /\ trailer = "eof"
    /\ scanf
    /\ idx_iterator' = i + 1
    /\ UNCHANGED <<backlog, sock, stream, conn, hup, udp_queue,
                   pollfds, num_pollfds, srv, listVars, inbox>>

server_exit(i) ==
    /\ Event(i, STDIN_FILENO)
    /\ Input # <<>> /\ Head(Input) = SERVER_CMD_EXIT
    /\ ServerEnds("exited", stream)
    /\ UNCHANGED inbox

\* The word is longer than the CMD_MAXLEN bytes of cmd, and scanf writes behind
\* them.
CommandOverflows(i) ==
    /\ Event(i, STDIN_FILENO)
    /\ Input # <<>> /\ Head(Input) = SERVER_CMD_UNDEFINED
    /\ srv' = "corrupted"
    /\ UNCHANGED <<netVars, pollerVars, stdio, listVars, inbox>>

-----------------------------------------------------------------------------
(* UDP.  send_all writes every packet twice.  The sends are taken to       *)
(* succeed.                                                                *)

\* The nodes from the one subscriptions_get_next starts from.
FromCursor == current

\* The node of the subscriber that the k-th of them names.
Subscriber(k) == clients_list_find_by_id(connected_clients, FromCursor[k].subscriber_id)

\* The subscriptions whose subscriber the loop reaches before the first one
\* that is not connected, where it reads through NULL.
Reached(due) == {k \in due : \A j \in due : j <= k => Subscriber(j) # 0}

TCP_server_send_to_subscribers(due) ==
    inbox' = [p \in Procs |->
                inbox[p] + 2 * Cardinality(
                    {k \in Reached(due) : sock[connected_clients[Subscriber(k)].fd] = p})]

UDP_server_recv(i) ==
    /\ Event(i, UDP_fd)
    /\ udp_queue # <<>>
    /\ LET topic == Head(udp_queue)
           due == subscriptions_due(FromCursor, topic)
       IN /\ TCP_server_send_to_subscribers(due)
          /\ IF Reached(due) # due
             THEN ServerEnds("crashed", stream)
             ELSE /\ current' = subscriptions_exhausted(FromCursor, topic)
                  /\ udp_queue' = Tail(udp_queue)
                  /\ idx_iterator' = i + 1
                  /\ UNCHANGED <<backlog, sock, stream, conn, hup, typed, trailer, pollfds,
                                 num_pollfds, srv, stdio, connected_clients, subscriptions>>

\* With nothing to send, TCP_server_send_to_subscribers returns an rc it never
\* assigned, and the caller exits if that is negative.
SendStatusUnassigned(i) ==
    /\ Event(i, UDP_fd)
    /\ udp_queue # <<>>
    /\ subscriptions_due(FromCursor, Head(udp_queue)) = {}
    /\ ServerEnds("failed", stream)
    /\ UNCHANGED inbox

-----------------------------------------------------------------------------
(* The listening socket.  poller_advance skips the slot after the          *)
(* listener's, whatever it holds.                                          *)

TCP_server_accept_connection(i) ==
    /\ Event(i, TCP_fd)
    /\ backlog # <<>>
    /\ num_pollfds < MAX_CONNECTIONS
    /\ \E fd \in ClientFds :
        /\ LowestFree(fd)
        /\ sock' = [sock EXCEPT ![fd] = Head(backlog)]
        /\ connected_clients' =
              clients_list_add_client(connected_clients,
                                      [state |-> CLIENT_STATE_NEW, fd |-> fd, id |-> EmptyString])
        /\ poller_add_fd(fd)
    /\ conn' = [conn EXCEPT ![Head(backlog)] = "accepted"]
    /\ backlog' = Tail(backlog)
    /\ idx_iterator' = i + 2
    /\ UNCHANGED <<stream, hup, udp_queue, typed, trailer, srv, stdio, subscriptions, current, inbox>>

\* accept(2) finds no free descriptor.
AcceptFails(i) ==
    /\ Event(i, TCP_fd)
    /\ backlog # <<>>
    /\ FreeFds = {}
    /\ ServerEnds("failed", stream)
    /\ UNCHANGED inbox

\* The array is full and poller_add_fd writes behind it.
PollerOverflows(i) ==
    /\ Event(i, TCP_fd)
    /\ backlog # <<>>
    /\ FreeFds # {}
    /\ num_pollfds = MAX_CONNECTIONS
    /\ srv' = "corrupted"
    /\ UNCHANGED <<netVars, pollerVars, stdio, listVars, inbox>>

-----------------------------------------------------------------------------
(* A connected client.  recv with MSG_WAITALL blocks until a whole packet  *)
(* is there, and returns less only at the end of the connection; the       *)
(* packet it then gets was zeroed before.                                  *)

\* The cut may fall in the zeros behind the payload, in the payload, right
\* before it, or before the type (0 is TCP_MSG_NEW).
TornReads(m) ==
    {m, [msg_type |-> "TCP_MSG_NEW", payload |-> EmptyString]} \cup
    {[m EXCEPT !.payload = s] : s \in Cuts[m.payload] \cup {EmptyString}}

\* Mutant: recv without MSG_WAITALL.
recv_packet_short(p) ==
    IF stream[p] = <<>> THEN {} ELSE TornReads(Head(stream[p]))

\* The packets recv may return from p; none when it blocks.
recv_packet(p) ==
    CASE Len(stream[p]) >= Segments               -> {Head(stream[p])}
      [] stream[p] # <<>> /\ Len(stream[p]) < Segments /\ p \in hup
                                                  -> TornReads(Head(stream[p]))
      [] OTHER                                    -> {}

\* What remains to be received once recv returned.
recv_rest(fd) ==
    [stream EXCEPT ![sock[fd]] = SubSeq(@, Segments + 1, Len(@))]

\* The poller returns the descriptor of a client; it is open (recv(2) would
\* fail otherwise, but see EntriesAgree in PubSub: it never is not).
ClientEvent(i, fd) ==
    /\ Event(i, fd)
    /\ sock[fd] # NoProc

\* The client the handlers look up by descriptor (never NULL, again by
\* EntriesAgree).
ClientIdx(fd) == clients_list_find_by_fd(connected_clients, fd)

\* Mutant: the state of the client is not looked at.
is_new_connection_stateless(fd) == ClientIdx(fd) = 0

TCP_server_is_new_connection(fd) ==
    ClientIdx(fd) # 0 /\ connected_clients[ClientIdx(fd)].state = CLIENT_STATE_NEW

\* The client and the poller's entry go, and close(2) ends the connection.
\* (client_node_destroy has already closed fd when poller_remove_fd closes it
\* again; nothing can take the number in between.)
TCP_server_close_connection(i, fd) ==
    IF clients_list_remove_faults(connected_clients, ClientIdx(fd))
    THEN ServerEnds("crashed", recv_rest(fd))
    ELSE /\ connected_clients' =
                clients_list_remove_client(connected_clients, ClientIdx(fd))
         /\ poller_remove_fd(fd)
         /\ idx_iterator' = i + 1
         /\ sock' = [sock EXCEPT ![fd] = NoProc]
         /\ conn' = [conn EXCEPT ![sock[fd]] = Closed(recv_rest(fd)[sock[fd]])]
         /\ stream' = [stream EXCEPT ![sock[fd]] = <<>>]
         /\ UNCHANGED <<backlog, hup, udp_queue, typed, trailer, srv, stdio, subscriptions, current>>

Disconnect(i, fd) ==
    /\ ClientEvent(i, fd)
    /\ stream[sock[fd]] = <<>>
    /\ sock[fd] \in hup
    /\ TCP_server_close_connection(i, fd)
    /\ UNCHANGED inbox

\* Mutant: the iterator stays where it is.
received_in_place(i, fd) ==
    /\ stream' = recv_rest(fd)
    /\ idx_iterator' = i
    /\ UNCHANGED <<backlog, sock, conn, hup, udp_queue, typed, trailer,
                   pollfds, num_pollfds, srv, stdio, current>>

\* The packet is received and the pass goes on.
Received(i, fd) ==
    /\ stream' = recv_rest(fd)
    /\ idx_iterator' = i + 1
    /\ UNCHANGED <<backlog, sock, conn, hup, udp_queue, typed, trailer,
                   pollfds, num_pollfds, srv, stdio, current>>

\* TCP_server_update_client, when it returns 0, or -2 for a wrong type.
RegisterClient(i, fd, m) ==
    /\ TCP_server_is_new_connection(fd)
    /\ m.msg_type = "TCP_MSG_NEW" =>
          clients_list_find_by_id(connected_clients, m.payload) = 0
    /\ connected_clients' =
          IF m.msg_type = "TCP_MSG_NEW"
          THEN clients_list_update_client(connected_clients, ClientIdx(fd),
                                          CLIENT_STATE_CONNECTED, m.payload)
          ELSE connected_clients
    /\ Received(i, fd)
    /\ UNCHANGED <<subscriptions, inbox>>

\* TCP_server_update_client returns -1: the id is taken.
RejectClient(i, fd, m) ==
    /\ TCP_server_is_new_connection(fd)
    /\ m.msg_type = "TCP_MSG_NEW"
    /\ clients_list_find_by_id(connected_clients, m.payload) # 0
    /\ TCP_server_close_connection(i, fd)
    /\ UNCHANGED inbox

\* sscanf finds no topic in an empty payload and leaves args.topic unset.
TCP_server_get_sub_args(m) ==
    IF m.payload = EmptyString THEN Topics \cup {EmptyString} ELSE {m.payload}

TCP_server_subscribe(i, fd, m) ==
    /\ ~TCP_server_is_new_connection(fd)
    /\ m.msg_type = "TCP_MSG_SUBSCRIBE"
    /\ \E topic \in TCP_server_get_sub_args(m) :
          subscriptions' = IF ClientIdx(fd) = 0 THEN subscriptions
                           ELSE subscriptions_add_subscription(subscriptions,
                                  [topic |-> topic,
                                   subscriber_id |-> connected_clients[ClientIdx(fd)].id])
    /\ Received(i, fd)
    /\ UNCHANGED <<connected_clients, inbox>>

\* The subscription the packet asks to remove; 0 when there is none.
Unsubscribed(fd, m) ==
    IF ClientIdx(fd) = 0 THEN 0
    ELSE subscriptions_find(subscriptions, m.payload, connected_clients[ClientIdx(fd)].id)

TCP_server_unsubscribe(i, fd, m) ==
    /\ ~TCP_server_is_new_connection(fd)
    /\ m.msg_type = "TCP_MSG_UNSUBSCRIBE"
    /\ IF subscriptions_remove_faults(subscriptions, Unsubscribed(fd, m))
       THEN ServerEnds("crashed", recv_rest(fd))
       ELSE /\ subscriptions' =
                  subscriptions_remove_subscription(subscriptions, Unsubscribed(fd, m))
            /\ Received(i, fd)
            /\ UNCHANGED connected_clients
    /\ UNCHANGED inbox

\* A client that is connected already: the switch in run_server has no case
\* for TCP_MSG_NEW.
RepeatedNew(i, fd, m) ==
    /\ ~TCP_server_is_new_connection(fd)
    /\ m.msg_type = "TCP_MSG_NEW"
    /\ Received(i, fd)
    /\ UNCHANGED <<connected_clients, subscriptions, inbox>>

\* The branch of run_server for a packet from a client.
TCP_message(i, fd) ==
    /\ ClientEvent(i, fd)
    /\ \E m \in recv_packet(sock[fd]) :
        \/ RegisterClient(i, fd, m)
        \/ RejectClient(i, fd, m)
        \/ TCP_server_subscribe(i, fd, m)
        \/ TCP_server_unsubscribe(i, fd, m)
        \/ RepeatedNew(i, fd, m)

-----------------------------------------------------------------------------
(* run_server.                                                             *)

run_server ==
    \/ Poll
    \/ \E i \in Slots :
          \/ UnknownCommand(i)
          \/ server_exit(i)
          \/ CommandOverflows(i)
          \/ UDP_server_recv(i)
          \/ SendStatusUnassigned(i)
          \/ TCP_server_accept_connection(i)
          \/ AcceptFails(i)
          \/ PollerOverflows(i)
          \/ \E fd \in ClientFds : Disconnect(i, fd) \/ TCP_message(i, fd)
=============================================================================
