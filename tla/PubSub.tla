------------------------------- MODULE PubSub -------------------------------
(***************************************************************************)
(* The server and the subscribers, over the kernel's connections, with the *)
(* users and the publishers of datagrams as the environment.               *)
(***************************************************************************)
EXTENDS Server, Subscriber

CONSTANTS
    Typing,       \* bound: what the server's user types
    MaxTyped,     \* bound: commands waiting on the server's standard input
    UdpLimit      \* bound: datagrams waiting on the UDP socket

ASSUME PubSubAssumption ==
    Typing \subseteq Commands \cup Trailers /\ MaxTyped \in Nat /\ UdpLimit \in Nat

vars == <<netVars, serverVars, subscriberVars>>

Init == SocketsInit /\ ServerInit /\ SubscriberInit

-----------------------------------------------------------------------------
(* The environment.                                                        *)

TypeCommand(cmd) ==
    /\ srv = "running"
    /\ cmd \in Typing
    /\ trailer # "eof"
    /\ Len(typed) + Len(stdio) < MaxTyped
    /\ typed' = Append(typed, cmd)
    /\ UNCHANGED <<backlog, sock, stream, conn, hup, udp_queue, trailer,
                   serverVars, subscriberVars>>

\* A line without a word, or the end of the input.
TypeTrailer(t) ==
    /\ srv = "running"
    /\ t \in Typing \ {"nothing"}
    /\ trailer # "eof"
    /\ Len(typed) + Len(stdio) < MaxTyped
    /\ trailer' = t
    /\ UNCHANGED <<backlog, sock, stream, conn, hup, udp_queue, typed,
                   serverVars, subscriberVars>>

SendDatagram(topic) ==
    /\ srv = "running"
    /\ Len(udp_queue) < UdpLimit
    /\ udp_queue' = Append(udp_queue, topic)
    /\ UNCHANGED <<backlog, sock, stream, conn, hup, typed, trailer, serverVars, subscriberVars>>

-----------------------------------------------------------------------------
ServerStep == run_server /\ UNCHANGED subscriberVars

\* The listening socket is open as long as the server runs.
Start(p) ==
    /\ \/ srv = "running" /\ Connect(p)
       \/ srv \in {"exited", "failed", "crashed"} /\ ConnectRefused(p)
    /\ UNCHANGED serverVars

SubscriberStep(p) == run_client(p) /\ UNCHANGED serverVars

UserStep(p) == User(p) /\ UNCHANGED serverVars

\* Once the server has corrupted its memory the model goes no further.
Next ==
    /\ srv # "corrupted"
    /\ \/ ServerStep
       \/ \E p \in Procs : Start(p) \/ SubscriberStep(p) \/ UserStep(p)
       \/ \E cmd \in Commands : TypeCommand(cmd)
       \/ \E t \in Trailers : TypeTrailer(t)
       \/ \E topic \in Topics : SendDatagram(topic)

Spec == Init /\ [][Next]_vars

\* The processes run when they can; users and publishers need not act.
FairSpec ==
    /\ Spec
    /\ WF_vars(ServerStep)
    /\ \A p \in Procs : WF_vars(SubscriberStep(p))

-----------------------------------------------------------------------------
(* Types.                                                                  *)

TypeOK == SocketsTypeOK /\ ServerTypeOK /\ SubscriberTypeOK

-----------------------------------------------------------------------------
(* Safety.                                                                 *)

\* The three places that record the open connections hold the same ones: the
\* poller's array behind the three descriptors of run_server, the list of
\* clients in the opposite order, and the kernel's descriptor table, each
\* descriptor for a subscriber of its own.  Every handler that looks a client
\* up by the descriptor the poller returned relies on it.
PollerHoldsClients ==
    /\ num_pollfds = 3 + Len(connected_clients)
    /\ \A i \in 0 .. 2 : pollfds[i].fd = <<STDIN_FILENO, UDP_fd, TCP_fd>>[i + 1]
    /\ \A k \in 1 .. Len(connected_clients) :
          pollfds[num_pollfds - k].fd = connected_clients[k].fd

ClientsHoldSockets ==
    /\ \A j, k \in 1 .. Len(connected_clients) :
          connected_clients[j].fd = connected_clients[k].fd => j = k
    /\ \A fd \in ClientFds :
          sock[fd] # NoProc <=> \E k \in 1 .. Len(connected_clients) : connected_clients[k].fd = fd

SocketsHoldConnections ==
    /\ \A fd, g \in ClientFds : sock[fd] = sock[g] /\ sock[fd] # NoProc => fd = g
    /\ \A p \in Procs : conn[p] = "accepted" <=> \E fd \in ClientFds : sock[fd] = p

EntriesAgree ==
    srv = "running" => PollerHoldsClients /\ ClientsHoldSockets /\ SocketsHoldConnections

\* A connection is queued exactly while it is, once, in the listen queue, and
\* none is made before its run starts.
QueueAgrees ==
    /\ \A p \in Procs : pc[p] = "idle" => conn[p] = "none"
    /\ \A p \in Procs : conn[p] = "queued" <=> \E k \in 1 .. Len(backlog) : backlog[k] = p
    /\ \A j, k \in 1 .. Len(backlog) : backlog[j] = backlog[k] => j = k

\* The scanf of the command waits for a word behind a blank line that poll
\* reported; the whole server waits with it, until its user types one.
WaitsForWord ==
    srv = "running" /\ 0 \in Pending /\ Input = <<>> /\ trailer = "space"

\* The calls that read a datagram or a connection never block the loop, and the
\* one that reads standard input does so only on a blank line (WaitsForWord):
\* what poll reported of these three is still there.  (It need not be so for a
\* client: NewClientWaits.)
ReportedReady ==
    srv = "running" =>
        /\ 0 \in Pending => Input # <<>> \/ trailer = "eof" \/ WaitsForWord
        /\ 1 \in Pending => udp_queue # <<>>
        /\ 2 \in Pending => backlog # <<>>

\* The recv for a client may block: its event may be stale, its slot having
\* been reused, and one segment of a packet is an event already.  It waits only
\* for a packet that the client has begun to send, though, never for the
\* client's user, and a client that is dead does not make it wait.
AwaitedPacketsCome ==
    srv = "running" =>
        \A i \in Pending :
            i >= 3 => LET p == sock[pollfds[i].fd]
                      IN  p \in hup \/ Len(stream[p]) + Len(out[p]) >= Segments

\* Nothing is ever sent to a subscriber: the cursor starts at NULL and no
\* function moves it off.
NothingSent == current = <<>> /\ \A p \in Procs : inbox[p] = 0

\* What these rest on together, and what every step of the system preserves.
IInv == TypeOK /\ EntriesAgree /\ QueueAgrees /\ ReportedReady /\ NothingSent

\* No two connected clients have the same id, however the runs under it
\* overlap and wherever their packets are cut (TCP_server_update_client).
UniqueIds ==
    \A j, k \in 1 .. Len(connected_clients) :
        /\ connected_clients[j].state = CLIENT_STATE_CONNECTED
        /\ connected_clients[j].id = connected_clients[k].id
        => j = k

\* The id of a client that has not given one is the empty string, which no
\* client can give: it would be taken, by its own node.  IdInv is what makes
\* UniqueIds inductive.
NewHasNoId ==
    \A k \in 1 .. Len(connected_clients) :
        connected_clients[k].state = CLIENT_STATE_NEW <=> connected_clients[k].id = EmptyString

IdInv == UniqueIds /\ NewHasNoId

\* A client node that has its id has the one its run was started with, as long
\* as the run is alive.
RegisteredAsItself ==
    \A k \in 1 .. Len(connected_clients) :
        LET c == connected_clients[k]
        IN  srv = "running" /\ c.state = CLIENT_STATE_CONNECTED /\ sock[c.fd] \notin hup
              => c.id = IdOf[sock[c.fd]]

\* The server closes the connection of a run that is alive only because
\* another client in the list has its id (or because the server ends).
ClosesOnlyDuplicates ==
    [][\A p \in Procs :
         conn[p] = "accepted" /\ conn'[p] # "accepted" /\ p \notin hup /\ srv' = "running"
           => \E k \in 1 .. Len(connected_clients) :
                 /\ connected_clients[k].id = IdOf[p]
                 /\ sock[connected_clients[k].fd] # p]_vars

-----------------------------------------------------------------------------
(* Subscriptions.                                                          *)

Count(topic, id) ==
    Cardinality({k \in 1 .. Len(subscriptions) :
                   subscriptions[k] = [topic |-> topic, subscriber_id |-> id]})

\* One list is the other with one node of the client id more.
OneMore(longer, shorter, id) ==
    \E i \in 1 .. Len(longer) :
        longer[i].subscriber_id = id /\ shorter = RemoveAt(longer, i)

\* Once all that a run sent is handled, the server holds its subscriptions as
\* its commands left them, each of them twice since each packet was sent twice
\* (send_all), if no other run has its id.
SubscriptionsMatchCommands ==
    \A p \in Procs :
        /\ srv = "running" /\ conn[p] = "accepted" /\ Waiting(p) /\ stream[p] = <<>>
        /\ \A q \in Procs \ {p} : IdOf[q] # IdOf[p]
        => \A t \in Topics : Count(t, IdOf[p]) = 2 * ledger[p][t]

\* Subscriptions change only when the server receives from a connected client,
\* and then by one of that client's, the others staying as they were and in
\* their order: neither a disconnection nor a rejected connection touches them,
\* nor does any client another's.
OnlyOwnerChanges ==
    [][subscriptions' # subscriptions =>
         \E k \in 1 .. Len(connected_clients) :
            LET c == connected_clients[k]
            IN  /\ c.state = CLIENT_STATE_CONNECTED
                /\ Len(stream'[sock[c.fd]]) < Len(stream[sock[c.fd]])
                /\ \/ OneMore(subscriptions', subscriptions, c.id)
                   \/ OneMore(subscriptions, subscriptions', c.id)]_vars

-----------------------------------------------------------------------------
(* The server as a registry of its clients and their subscriptions.        *)

Members ==
    IF srv = "running"
    THEN {[who |-> sock[connected_clients[k].fd], id |-> connected_clients[k].id] :
             k \in 1 .. Len(connected_clients)}
    ELSE {}

Copies == [s \in subscription_node(Names, Names) |-> Count(s.topic, s.subscriber_id)]

R == INSTANCE Registry
        WITH Clients <- Procs, Strings <- Names, Unnamed <- EmptyString,
             up <- srv = "running", members <- Members, subs <- Copies

\* Whatever passes through the poller, the descriptors and the packets, a step
\* of the system is at most one step of the registry: one client joins, leaves
\* or takes a free id, or one connected client adds or removes one of its own
\* subscriptions.
ImplementsRegistry == R!Spec

-----------------------------------------------------------------------------
(* Liveness.                                                               *)

ServerGone == srv \notin {"running", "corrupted"}

\* When the server has gone, by exit, by a failure or by a crash, every run ends
\* that does not wait in scanf for the rest of what its user began to type.
RunsFollowServer ==
    \A p \in Procs : ServerGone /\ pc[p] = "running" ~> pc[p] # "running" \/ p \in scanning

\* The server serves nobody any more, or not until its user types a word.
Stuck == srv = "corrupted" \/ WaitsForWord

\* A run that asks for a connection gets its answer: the server takes it off
\* the listen queue.
Accepted == \A p \in Procs : conn[p] = "queued" ~> conn[p] # "queued" \/ Stuck

\* An ended run is noticed and its client removed.
Noticed == \A p \in Procs : conn[p] = "accepted" /\ p \in hup ~> conn[p] # "accepted" \/ Stuck

\* An exit command that the server finds first on its standard input ends it.
ExitObeyed ==
    stdio = <<>> /\ typed # <<>> /\ Head(typed) = SERVER_CMD_EXIT
      ~> srv # "running"

-----------------------------------------------------------------------------
(* What comments, messages and tests of the repository say and the code    *)
(* does not do.                                                            *)

\* server.c:189: "Send the message to all the topic's subscribers."
SentToAll ==
    [][Len(udp_queue') < Len(udp_queue) /\ srv' = "running" =>
         \A k \in 1 .. Len(connected_clients) :
            LET c == connected_clients[k]
            IN  Count(Head(udp_queue), c.id) > 0 /\ c.state = CLIENT_STATE_CONNECTED
                  => inbox'[sock[c.fd]] > inbox[sock[c.fd]]]_vars

\* server.c:192 fails with "TCP_server_send_to_subscribers failed"; here nothing
\* is sent, so no send can have failed.  The other failure is accept's.
FailsOnFailure == [][srv' = "failed" /\ srv = "running" => FreeFds = {}]_vars

\* test.py:409: "Tests that subscriber C1 stops correctly.": the server removes
\* the client and goes on.
SurvivesDisconnect ==
    [][(\E i \in Slots, fd \in ClientFds : Disconnect(i, fd)) => srv' = "running"]_vars

\* server.c:199: "Don't consider this client at this iteration."
NewClientWaits ==
    [][num_pollfds' = num_pollfds + 1 => num_pollfds \notin Pending']_vars
=============================================================================
