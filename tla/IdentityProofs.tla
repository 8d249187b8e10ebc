--------------------------- MODULE IdentityProofs ---------------------------
(***************************************************************************)
(* That clients are registered as themselves and that only duplicates are  *)
(* turned away, for every value of the constants of PubSub.                *)
(*                                                                         *)
(* Both rest on what is on its way to the server: the only id a run sends, *)
(* or has still to send, is its own (OwnIds).  A packet that arrives in    *)
(* one piece therefore names its sender; one that was cut comes from a run *)
(* that is dead.                                                           *)
(***************************************************************************)
EXTENDS RegistryProofs

\* A packet that gives an id gives the one its sender was started with.
OwnId(p, m) == m.msg_type = "TCP_MSG_NEW" => m.payload = IdOf[p]

OwnIds ==
    \A p \in Procs :
        /\ \A k \in 1 .. Len(stream[p]) : OwnId(p, stream[p][k])
        /\ \A k \in 1 .. Len(out[p]) : OwnId(p, out[p][k])

IdentityInv == IInv /\ IdInv /\ OwnIds /\ RegisteredAsItself

-----------------------------------------------------------------------------
(* Packets on their way.                                                   *)

\* The server only takes packets away, and touches no others.
LEMMA ServerTakes ==
  ASSUME IInv, ServerStep
  PROVE  /\ UNCHANGED <<out, hup>>
         /\ \A p \in Procs : \/ stream'[p] = stream[p]
                             \/ stream'[p] = <<>>
                             \/ stream'[p] = SubSeq(stream[p], Segments + 1, Len(stream[p]))
<1>. DEFINE Takes == \A p \in Procs :
                       \/ stream'[p] = stream[p]
                       \/ stream'[p] = <<>>
                       \/ stream'[p] = SubSeq(stream[p], Segments + 1, Len(stream[p]))
<1>1. UNCHANGED out
  BY DEF ServerStep, subscriberVars
<1>. SUFFICES UNCHANGED hup /\ Takes
  BY <1>1
<1>2. stream \in [Procs -> Seq(TCP_ctos_msg)]
  BY DEF IInv, TypeOK, SocketsTypeOK
<1>3. ASSUME NEW status, NEW unread, ServerEnds(status, unread) PROVE UNCHANGED hup /\ Takes
  BY <1>3 DEF ServerEnds, CloseAll
<1>4. ASSUME NEW i, NEW fd, Received(i, fd) PROVE UNCHANGED hup /\ Takes
  BY <1>2, <1>4 DEF Received, recv_rest
<1>5. ASSUME NEW i, NEW fd, TCP_server_close_connection(i, fd) PROVE UNCHANGED hup /\ Takes
  <2>1. CASE clients_list_remove_faults(connected_clients, ClientIdx(fd))
    BY <1>3, <1>5, <2>1 DEF TCP_server_close_connection
  <2>2. CASE ~clients_list_remove_faults(connected_clients, ClientIdx(fd))
    <3>1. UNCHANGED hup /\ stream' = [stream EXCEPT ![sock[fd]] = <<>>]
      BY <1>5, <2>2 DEF TCP_server_close_connection
    <3>. QED  BY <1>2, <3>1
  <2>. QED  BY <2>1, <2>2
<1>. HIDE DEF Takes
<1>6. ASSUME UNCHANGED <<stream, hup>> PROVE UNCHANGED hup /\ Takes
  BY <1>6 DEF Takes
<1>7. CASE Poll
  BY <1>6, <1>7 DEF Poll, netVars
<1>8. ASSUME NEW i \in Slots,
             \/ UnknownCommand(i) \/ TCP_server_accept_connection(i) \/ PollerOverflows(i) \/ CommandOverflows(i)
      PROVE  UNCHANGED hup /\ Takes
  BY <1>6, <1>8 DEF UnknownCommand, TCP_server_accept_connection, PollerOverflows, CommandOverflows, netVars
<1>9. ASSUME NEW i \in Slots, server_exit(i) \/ SendStatusUnassigned(i) \/ AcceptFails(i)
      PROVE  UNCHANGED hup /\ Takes
  BY <1>3, <1>9 DEF server_exit, SendStatusUnassigned, AcceptFails
<1>10. ASSUME NEW i \in Slots, UDP_server_recv(i) PROVE UNCHANGED hup /\ Takes
  <2>1. ServerEnds("crashed", stream) \/ UNCHANGED <<stream, hup>>
    BY <1>10 DEF UDP_server_recv
  <2>. QED  BY <1>3, <1>6, <2>1
<1>11. ASSUME NEW i \in Slots, NEW fd \in ClientFds, Disconnect(i, fd)
       PROVE  UNCHANGED hup /\ Takes
  BY <1>5, <1>11 DEF Disconnect
<1>12. ASSUME NEW i \in Slots, NEW fd \in ClientFds, TCP_message(i, fd)
       PROVE  UNCHANGED hup /\ Takes
  <2>1. PICK m \in recv_packet(sock[fd]) :
          \/ RegisterClient(i, fd, m)
          \/ RejectClient(i, fd, m)
          \/ TCP_server_subscribe(i, fd, m)
          \/ TCP_server_unsubscribe(i, fd, m)
          \/ RepeatedNew(i, fd, m)
    BY <1>12 DEF TCP_message
  <2>2. \/ Received(i, fd)
        \/ TCP_server_close_connection(i, fd)
        \/ ServerEnds("crashed", recv_rest(fd))
    BY <2>1 DEF RegisterClient, RejectClient, TCP_server_subscribe, TCP_server_unsubscribe, RepeatedNew
  <2>. QED  BY <1>3, <1>4, <1>5, <2>2
<1>. QED  BY <1>7, <1>8, <1>9, <1>10, <1>11, <1>12 DEF ServerStep, run_server

LEMMA ServerKeepsOwnIds ==
  ASSUME IInv, OwnIds, ServerStep
  PROVE  OwnIds'
<1>1. UNCHANGED out
  BY ServerTakes
<1>2. SUFFICES ASSUME NEW p \in Procs, NEW k \in 1 .. Len(stream'[p])
               PROVE  OwnId(p, stream'[p][k])
  BY <1>1 DEF OwnIds, OwnId
<1>3. stream[p] \in Seq(TCP_ctos_msg) /\ Len(stream[p]) \in Nat
  BY LenProperties DEF IInv, TypeOK, SocketsTypeOK
<1>4. \A j \in 1 .. Len(stream[p]) : OwnId(p, stream[p][j])
  BY DEF OwnIds
<1>5. CASE stream'[p] = stream[p]
  BY <1>4, <1>5
<1>6. CASE stream'[p] = <<>>
  <2>1. 1 .. Len(<<>>) = {}
    BY EmptySeq
  <2>. QED  BY <1>2, <1>6, <2>1
<1>7. CASE stream'[p] = SubSeq(stream[p], Segments + 1, Len(stream[p]))
  <2>. DEFINE q == stream[p]
  <2>1. Segments \in Nat /\ Segments + 1 \in Nat /\ Segments + 1 >= 1
    BY SocketsAssumption
  <2>2. \A j \in Segments + 1 .. Len(q) : q[j] \in TCP_ctos_msg
    BY <1>3, <2>1, ElementOfSeq
  <2>. HIDE DEF q
  <2>3. /\ Len(SubSeq(q, Segments + 1, Len(q))) =
              IF Segments + 1 <= Len(q) THEN Len(q) - (Segments + 1) + 1 ELSE 0
        /\ \A j \in 1 .. Len(q) - (Segments + 1) + 1 :
              SubSeq(q, Segments + 1, Len(q))[j] = q[(Segments + 1) + j - 1]
    <3>1. Segments + 1 \in Int /\ Len(q) \in Int
      BY <1>3, <2>1 DEF q
    <3>. QED  BY <2>2, <3>1, SubSeqProperties
  <2>4. k \in 1 .. Len(SubSeq(q, Segments + 1, Len(q))) /\ Len(q) \in Nat
    BY <1>2, <1>3, <1>7 DEF q
  <2>5. k + Segments \in 1 .. Len(q) /\ k \in 1 .. Len(q) - (Segments + 1) + 1
    BY <2>1, <2>3, <2>4
  <2>6. SubSeq(q, Segments + 1, Len(q))[k] = q[k + Segments]
    BY <2>1, <2>3, <2>5
  <2>. QED  BY <1>4, <1>7, <2>5, <2>6 DEF q
<1>. QED  BY <1>5, <1>6, <1>7, ServerTakes

\* What a run has still to send is one packet over and over, or its own id.
LEMMA SendsOwnIds ==
  ASSUME NEW p, NEW m \in TCP_ctos_msg, OwnId(p, m)
  PROVE  \A k \in 1 .. Len(send_all(m)) : OwnId(p, send_all(m)[k])
<1>1. 2 * Segments \in Nat
  BY SocketsAssumption
<1>. QED  BY <1>1 DEF send_all

LEMMA OutsideKeepsOwnIds ==
  ASSUME IInv, OwnIds, NEW p \in Procs, Start(p) \/ SubscriberStep(p) \/ UserStep(p)
  PROVE  OwnIds'
<1>. DEFINE Goal(q) == /\ \A k \in 1 .. Len(stream'[q]) : OwnId(q, stream'[q][k])
                       /\ \A k \in 1 .. Len(out'[q]) : OwnId(q, out'[q][k])
<1>1. /\ stream \in [Procs -> Seq(TCP_ctos_msg)]
      /\ out \in [Procs -> Seq(TCP_ctos_msg)]
  BY DEF IInv, TypeOK, SocketsTypeOK, SubscriberTypeOK
<1>2. \A q \in Procs : (stream'[q] = stream[q] /\ out'[q] = out[q]) => Goal(q)
  BY DEF OwnIds
<1>3. ASSUME SubscriberEnds(p), UNCHANGED stream PROVE OwnIds'
  <2>1. \A q \in Procs : q # p => out'[q] = out[q]
    BY <1>1, <1>3 DEF SubscriberEnds
  <2>2. out'[p] = <<>>
    BY <1>1, <1>3 DEF SubscriberEnds
  <2>3. 1 .. Len(<<>>) = {}
    BY EmptySeq
  <2>4. Goal(p)
    BY <1>3, <2>2, <2>3 DEF OwnIds
  <2>5. \A q \in Procs : Goal(q)
    BY <1>2, <1>3, <2>1, <2>4
  <2>. QED  BY <2>5 DEF OwnIds, OwnId
<1>4. ASSUME NEW m \in TCP_ctos_msg, OwnId(p, m),
             out' = [out EXCEPT ![p] = send_all(m)], UNCHANGED stream
      PROVE  OwnIds'
  <2>1. \A q \in Procs : q # p => out'[q] = out[q]
    BY <1>1, <1>4
  <2>2. out'[p] = send_all(m)
    BY <1>1, <1>4
  <2>3. Goal(p)
    BY <1>4, <2>2, SendsOwnIds DEF OwnIds
  <2>4. \A q \in Procs : Goal(q)
    BY <1>2, <1>4, <2>1, <2>3
  <2>. QED  BY <2>4 DEF OwnIds, OwnId
<1>5. CASE Connect(p)
  <2>. DEFINE m == [msg_type |-> "TCP_MSG_NEW", payload |-> IdOf[p]]
  <2>1. m \in TCP_ctos_msg /\ OwnId(p, m)
    BY SubscriberAssumption DEF TCP_ctos_msg, OwnId
  <2>2. out' = [out EXCEPT ![p] = send_all(m)] /\ UNCHANGED stream
    BY <1>5 DEF Connect
  <2>. HIDE DEF m
  <2>. QED  BY <1>4, <2>1, <2>2
<1>6. CASE \E topic \in Topics : SubscribeCommand(p, topic) \/ UnsubscribeCommand(p, topic)
  <2>1. PICK topic \in Topics : SubscribeCommand(p, topic) \/ UnsubscribeCommand(p, topic)
    BY <1>6
  <2>2. PICK type \in {"TCP_MSG_SUBSCRIBE", "TCP_MSG_UNSUBSCRIBE"} :
          /\ out' = [out EXCEPT ![p] = send_all([msg_type |-> type, payload |-> topic])]
          /\ UNCHANGED stream
    BY <2>1 DEF SubscribeCommand, UnsubscribeCommand, Command, netVars
  <2>. DEFINE m == [msg_type |-> type, payload |-> topic]
  <2>3. m \in TCP_ctos_msg /\ OwnId(p, m)
    BY DEF TCP_ctos_msg, OwnId
  <2>4. out' = [out EXCEPT ![p] = send_all(m)] /\ UNCHANGED stream
    BY <2>2
  <2>. HIDE DEF m
  <2>. QED  BY <1>4, <2>3, <2>4
<1>7. CASE Push(p)
  <2>1. out[p] # <<>> /\ out[p] \in Seq(TCP_ctos_msg) /\ stream[p] \in Seq(TCP_ctos_msg)
    BY <1>1, <1>7 DEF Push
  <2>2. /\ out' = [out EXCEPT ![p] = Tail(out[p])]
        /\ stream' = stream \/ stream' = [stream EXCEPT ![p] = Append(stream[p], Head(out[p]))]
    BY <1>7 DEF Push
  <2>. DEFINE o == out[p]
              s == stream[p]
  <2>3. /\ Len(o) \in Nat /\ Len(o) >= 1 /\ Head(o) = o[1]
        /\ Len(Tail(o)) = Len(o) - 1 /\ \A k \in 1 .. Len(o) - 1 : Tail(o)[k] = o[k + 1]
    BY <2>1, HeadTailProperties, LenProperties, EmptySeq
  <2>4. /\ Len(s) \in Nat /\ Len(Append(s, Head(o))) = Len(s) + 1
        /\ Append(s, Head(o))[Len(s) + 1] = Head(o)
        /\ \A k \in 1 .. Len(s) : Append(s, Head(o))[k] = s[k]
    <3>1. Head(o) \in TCP_ctos_msg
      BY <2>1, HeadTailProperties
    <3>. QED  BY <2>1, <3>1, AppendProperties, LenProperties
  <2>5. /\ \A k \in 1 .. Len(o) : OwnId(p, o[k])
        /\ \A k \in 1 .. Len(s) : OwnId(p, s[k])
    BY DEF OwnIds
  <2>. HIDE DEF o, s
  <2>6. \A k \in 1 .. Len(Tail(o)) : OwnId(p, Tail(o)[k])
    <3>. SUFFICES ASSUME NEW k \in 1 .. Len(Tail(o)) PROVE OwnId(p, Tail(o)[k])
      OBVIOUS
    <3>1. k + 1 \in 1 .. Len(o) /\ Tail(o)[k] = o[k + 1]
      BY <2>3
    <3>. QED  BY <2>5, <3>1
  <2>7. \A k \in 1 .. Len(Append(s, Head(o))) : OwnId(p, Append(s, Head(o))[k])
    <3>. SUFFICES ASSUME NEW k \in 1 .. Len(Append(s, Head(o)))
                  PROVE  OwnId(p, Append(s, Head(o))[k])
      OBVIOUS
    <3>1. CASE k = Len(s) + 1
      <4>1. 1 \in 1 .. Len(o)
        BY <2>3
      <4>. QED  BY <2>3, <2>4, <2>5, <3>1, <4>1
    <3>2. CASE k # Len(s) + 1
      <4>1. k \in 1 .. Len(s)
        BY <2>4, <3>2
      <4>. QED  BY <2>4, <2>5, <4>1
    <3>. QED  BY <3>1, <3>2
  <2>8. out'[p] = Tail(o) /\ (stream'[p] = s \/ stream'[p] = Append(s, Head(o)))
    BY <1>1, <2>2 DEF o, s
  <2>9. Goal(p)
    BY <2>5, <2>6, <2>7, <2>8
  <2>10. \A q \in Procs : q # p => out'[q] = out[q] /\ stream'[q] = stream[q]
    BY <1>1, <2>2
  <2>11. \A q \in Procs : Goal(q)
    BY <1>2, <2>9, <2>10
  <2>. QED  BY <2>11 DEF OwnIds, OwnId
<1>8. CASE \/ ConnectRefused(p) \/ SendFails(p) \/ Hangup(p) \/ ExitCommand(p) \/ Kill(p)
  BY <1>3, <1>8 DEF ConnectRefused, SendFails, Hangup, ExitCommand, Kill
<1>9. CASE BeginCommand(p) \/ UnknownWord(p)
  BY <1>2, <1>9 DEF BeginCommand, UnknownWord, netVars, OwnIds, OwnId
<1>. QED  BY <1>5, <1>6, <1>7, <1>8, <1>9 DEF Start, SubscriberStep, UserStep, run_client, User

LEMMA NextKeepsOwnIds ==
  ASSUME IInv, OwnIds, [Next]_vars
  PROVE  OwnIds'
<1>1. ASSUME UNCHANGED <<stream, out>> PROVE OwnIds'
  BY <1>1 DEF OwnIds, OwnId
<1>2. CASE \/ \E cmd \in Commands : TypeCommand(cmd)
           \/ \E t \in Trailers : TypeTrailer(t)
           \/ \E topic \in Topics : SendDatagram(topic)
  BY <1>1, <1>2 DEF TypeCommand, TypeTrailer, SendDatagram, subscriberVars
<1>3. CASE UNCHANGED vars
  BY <1>1, <1>3 DEF vars, netVars, subscriberVars
<1>. QED  BY <1>2, <1>3, ServerKeepsOwnIds, OutsideKeepsOwnIds DEF Next

\* What is received from a run that is alive is a whole packet it sent.
LEMMA WholePacket ==
  ASSUME IInv, OwnIds, NEW p \in Procs, p \notin hup, NEW m \in recv_packet(p)
  PROVE  OwnId(p, m)
<1>1. stream[p] \in Seq(TCP_ctos_msg)
  BY DEF IInv, TypeOK, SocketsTypeOK
<1>2. Len(stream[p]) >= Segments /\ m = Head(stream[p])
  BY DEF recv_packet
<1>3. 1 \in 1 .. Len(stream[p])
  BY <1>1, <1>2, SocketsAssumption, LenProperties
<1>4. m = stream[p][1]
  BY <1>1, <1>2, <1>3, HeadTailProperties, EmptySeq
<1>. QED  BY <1>3, <1>4 DEF OwnIds

-----------------------------------------------------------------------------
(* Registration.                                                           *)

\* Nodes that were there, with the runs they stood for, are still registered
\* as themselves.
LEMMA NodesStay ==
  ASSUME RegisteredAsItself, hup \subseteq hup', srv' = "running" => srv = "running",
         \A k \in 1 .. Len(connected_clients') :
            \/ connected_clients'[k].state # CLIENT_STATE_CONNECTED
            \/ \E j \in 1 .. Len(connected_clients) :
                  /\ connected_clients'[k] = connected_clients[j]
                  /\ sock'[connected_clients[j].fd] = sock[connected_clients[j].fd]
  PROVE  RegisteredAsItself'
BY DEF RegisteredAsItself

LEMMA SameNodes ==
  ASSUME RegisteredAsItself, hup \subseteq hup', UNCHANGED <<srv, connected_clients, sock>>
  PROVE  RegisteredAsItself'
BY NodesStay

LEMMA ServerDown ==
  ASSUME srv' # "running"
  PROVE  RegisteredAsItself'
BY DEF RegisteredAsItself

LEMMA CloseKeepsSelves ==
  ASSUME IInv, RegisteredAsItself, NEW i \in Slots, NEW fd \in ClientFds, ClientEvent(i, fd),
         TCP_server_close_connection(i, fd)
  PROVE  RegisteredAsItself'
<1>1. PICK k \in 1 .. Len(connected_clients) : k = ClientIdx(fd)
  BY ClientOf
<1>2. CASE clients_list_remove_faults(connected_clients, k)
  BY <1>1, <1>2, ServerDown DEF TCP_server_close_connection, ServerEnds
<1>3. CASE ~clients_list_remove_faults(connected_clients, k)
  <2>. DEFINE was(j) == IF j < k THEN j ELSE j + 1
  <2>1. /\ UNCHANGED <<srv, hup>>
        /\ Len(connected_clients') = Len(connected_clients) - 1
        /\ \A j \in 1 .. Len(connected_clients) - 1 :
              /\ was(j) \in 1 .. Len(connected_clients)
              /\ connected_clients'[j] = connected_clients[was(j)]
              /\ sock'[connected_clients[was(j)].fd] = sock[connected_clients[was(j)].fd]
    BY <1>1, <1>3, AfterClose
  <2>. HIDE DEF was
  <2>. QED  BY <2>1, NodesStay
<1>. QED  BY <1>2, <1>3

LEMMA RegisterKeepsSelves ==
  ASSUME IInv, IdInv, OwnIds, RegisteredAsItself,
         NEW i \in Slots, NEW fd \in ClientFds, ClientEvent(i, fd),
         NEW m \in recv_packet(sock[fd]), RegisterClient(i, fd, m)
  PROVE  RegisteredAsItself'
<1>. DEFINE p == sock[fd]
            n == Len(connected_clients)
<1>1. PICK k \in 1 .. n : k = ClientIdx(fd)
  BY ClientOf
<1>2. p \in Procs /\ m \in Packet
  BY ClientOf, PacketType
<1>3. CASE m.msg_type # "TCP_MSG_NEW"
  BY <1>3, SameNodes DEF RegisterClient, Received
<1>4. CASE m.msg_type = "TCP_MSG_NEW"
  <2>1. /\ UNCHANGED <<srv, sock, hup>>
        /\ Len(connected_clients') = n
        /\ connected_clients'[k].fd = fd /\ connected_clients'[k].id = m.payload
        /\ \A j \in 1 .. n : j # k => connected_clients'[j] = connected_clients[j]
    BY <1>1, <1>2, <1>4, AfterRegister
  <2>2. p \notin hup => m.payload = IdOf[p]
    BY <1>2, <1>4, WholePacket DEF OwnId
  <2>. QED  BY <2>1, <2>2 DEF RegisteredAsItself
<1>. QED  BY <1>3, <1>4

LEMMA ServerKeepsSelves ==
  ASSUME IInv, IdInv, OwnIds, RegisteredAsItself, ServerStep
  PROVE  RegisteredAsItself'
<1>1. UNCHANGED hup
  BY ServerTakes
<1>2. CASE Poll
  BY <1>2, SameNodes DEF Poll, netVars, listVars
<1>3. ASSUME NEW i \in Slots, UnknownCommand(i) PROVE RegisteredAsItself'
  BY <1>3, SameNodes DEF UnknownCommand, listVars
<1>4. ASSUME NEW i \in Slots,
             server_exit(i) \/ SendStatusUnassigned(i) \/ AcceptFails(i) \/ PollerOverflows(i) \/ CommandOverflows(i)
      PROVE  RegisteredAsItself'
  BY <1>4, ServerDown DEF server_exit, SendStatusUnassigned, AcceptFails, PollerOverflows, CommandOverflows, ServerEnds
<1>5. ASSUME NEW i \in Slots, UDP_server_recv(i) PROVE RegisteredAsItself'
  <2>1. srv' = "crashed" \/ UNCHANGED <<srv, connected_clients, sock, hup>>
    BY <1>5 DEF UDP_server_recv, ServerEnds
  <2>. QED  BY <2>1, ServerDown, SameNodes
<1>6. ASSUME NEW i \in Slots, TCP_server_accept_connection(i) PROVE RegisteredAsItself'
  <2>. DEFINE n == Len(connected_clients)
  <2>1. /\ srv = "running" /\ srv' = srv
        /\ Len(connected_clients') = n + 1
        /\ connected_clients'[1].state = CLIENT_STATE_NEW
        /\ \A k \in 1 .. n :
              /\ connected_clients'[k + 1] = connected_clients[k]
              /\ sock'[connected_clients[k].fd] = sock[connected_clients[k].fd]
    BY <1>6, AfterAccept
  <2>2. n \in Nat
    BY LenProperties DEF IInv, TypeOK, ServerTypeOK
  <2>3. CLIENT_STATE_NEW # CLIENT_STATE_CONNECTED
    BY DEF CLIENT_STATE_NEW, CLIENT_STATE_CONNECTED
  <2>4. ASSUME NEW k \in 1 .. Len(connected_clients')
        PROVE  \/ connected_clients'[k].state # CLIENT_STATE_CONNECTED
               \/ \E j \in 1 .. n :
                     /\ connected_clients'[k] = connected_clients[j]
                     /\ sock'[connected_clients[j].fd] = sock[connected_clients[j].fd]
    <3>1. CASE k = 1
      BY <2>1, <2>3, <3>1
    <3>2. CASE k # 1
      <4>1. k - 1 \in 1 .. n /\ (k - 1) + 1 = k
        BY <2>1, <2>2, <3>2
      <4>. QED  BY <2>1, <4>1
    <3>. QED  BY <3>1, <3>2
  <2>. QED  BY <1>1, <2>1, <2>4, NodesStay
<1>7. ASSUME NEW i \in Slots, NEW fd \in ClientFds, Disconnect(i, fd) PROVE RegisteredAsItself'
  BY <1>7, CloseKeepsSelves DEF Disconnect
<1>8. ASSUME NEW i \in Slots, NEW fd \in ClientFds, TCP_message(i, fd) PROVE RegisteredAsItself'
  <2>1. ClientEvent(i, fd)
    BY <1>8 DEF TCP_message
  <2>2. PICK m \in recv_packet(sock[fd]) :
          \/ RegisterClient(i, fd, m)
          \/ RejectClient(i, fd, m)
          \/ TCP_server_subscribe(i, fd, m)
          \/ TCP_server_unsubscribe(i, fd, m)
          \/ RepeatedNew(i, fd, m)
    BY <1>8 DEF TCP_message
  <2>3. CASE RegisterClient(i, fd, m)
    BY <2>1, <2>3, RegisterKeepsSelves
  <2>4. CASE RejectClient(i, fd, m)
    BY <2>1, <2>4, CloseKeepsSelves DEF RejectClient
  <2>5. CASE TCP_server_subscribe(i, fd, m) \/ RepeatedNew(i, fd, m)
    BY <1>1, <2>5, SameNodes DEF TCP_server_subscribe, RepeatedNew, Received
  <2>6. CASE TCP_server_unsubscribe(i, fd, m)
    <3>1. srv' = "crashed" \/ UNCHANGED <<srv, connected_clients, sock>>
      BY <2>6 DEF TCP_server_unsubscribe, Received, ServerEnds
    <3>. QED  BY <1>1, <3>1, ServerDown, SameNodes
  <2>. QED  BY <2>2, <2>3, <2>4, <2>5, <2>6
<1>. QED  BY <1>2, <1>3, <1>4, <1>5, <1>6, <1>7, <1>8 DEF ServerStep, run_server

LEMMA NextKeepsSelves ==
  ASSUME IInv, IdInv, OwnIds, RegisteredAsItself, [Next]_vars
  PROVE  RegisteredAsItself'
<1>1. ASSUME NEW p \in Procs, Start(p) \/ SubscriberStep(p) \/ UserStep(p)
      PROVE  RegisteredAsItself'
  <2>1. hup \subseteq hup' /\ UNCHANGED <<srv, connected_clients, sock>>
    BY <1>1 DEF Start, SubscriberStep, UserStep, serverVars, listVars, Connect, ConnectRefused,
                run_client, Push, SendFails, Hangup, User, BeginCommand, UnknownWord,
                SubscribeCommand, UnsubscribeCommand, Command, netVars, ExitCommand, Kill, SubscriberEnds
  <2>. QED  BY <2>1, SameNodes
<1>2. CASE \/ \E cmd \in Commands : TypeCommand(cmd)
           \/ \E t \in Trailers : TypeTrailer(t)
           \/ \E topic \in Topics : SendDatagram(topic)
  BY <1>2, SameNodes DEF TypeCommand, TypeTrailer, SendDatagram, serverVars, listVars
<1>3. CASE UNCHANGED vars
  BY <1>3, SameNodes DEF vars, netVars, serverVars, listVars
<1>. QED  BY <1>1, <1>2, <1>3, ServerKeepsSelves DEF Next

LEMMA IdentityInductive == Spec => []IdentityInv
<1>1. Init => IdInv /\ RegisteredAsItself
  BY DEF Init, ServerInit, IdInv, UniqueIds, NewHasNoId, RegisteredAsItself
<1>2. Init => OwnIds
  BY DEF Init, SocketsInit, SubscriberInit, OwnIds
<1>3. IInv /\ IdInv /\ OwnIds /\ RegisteredAsItself /\ [Next]_vars
        => IdInv' /\ OwnIds' /\ RegisteredAsItself'
  BY NextPreservesIdInv, NextKeepsOwnIds, NextKeepsSelves
<1>. QED  BY <1>1, <1>2, <1>3, InductiveInvariant, PTL DEF Spec, IdentityInv

\* However the runs under an id overlap and die, a client that is alive is
\* registered under the id its run was started with (PubSub.
\* RegisteredAsItself; TCP_server_update_client).
THEOREM AlwaysRegisteredAsItself == Spec => []RegisteredAsItself
<1>1. IdentityInv => RegisteredAsItself
  BY DEF IdentityInv
<1>. QED  BY <1>1, IdentityInductive, PTL

-----------------------------------------------------------------------------
(* Rejection.                                                              *)

\* The client that is turned away has given its own id, which another node
\* has: its own is still empty.
LEMMA RejectsDuplicate ==
  ASSUME IInv, IdInv, OwnIds, NEW i \in Slots, NEW fd \in ClientFds, ClientEvent(i, fd),
         sock[fd] \notin hup, NEW m \in recv_packet(sock[fd]), RejectClient(i, fd, m)
  PROVE  \E k \in 1 .. Len(connected_clients) :
            /\ connected_clients[k].id = IdOf[sock[fd]]
            /\ sock[connected_clients[k].fd] # sock[fd]
<1>. DEFINE p == sock[fd]
            n == Len(connected_clients)
<1>1. /\ srv = "running" /\ p \in Procs
      /\ ClientIdx(fd) \in 1 .. n /\ connected_clients[ClientIdx(fd)].fd = fd
  BY ClientOf
<1>2. PICK j \in 1 .. n : j = ClientIdx(fd)
  BY <1>1
<1>3. m.payload = IdOf[p]
  BY <1>1, WholePacket DEF RejectClient, OwnId
<1>4. /\ connected_clients \in Seq(client_node(ClientFds, Names)) /\ n \in Nat
      /\ \A l, k \in 1 .. n : Member(l).who = Member(k).who => l = k
  BY <1>1, DistinctMembers
<1>. DEFINE k == clients_list_find_by_id(connected_clients, m.payload)
<1>5. k # 0
  BY DEF RejectClient
<1>6. k \in 0 .. n /\ connected_clients[k].id = m.payload
  BY <1>4, <1>5, FindById
<1>. HIDE DEF k
<1>7. k \in 1 .. n
  BY <1>4, <1>5, <1>6
<1>8. connected_clients[j].id = EmptyString
  BY <1>2 DEF RejectClient, TCP_server_is_new_connection, IdInv, NewHasNoId
<1>9. IdOf[p] # EmptyString
  BY <1>1, SubscriberAssumption, CutsAssumption
<1>10. Member(k).who # Member(j).who
  BY <1>3, <1>4, <1>6, <1>7, <1>8, <1>9
<1>. QED  BY <1>1, <1>2, <1>3, <1>6, <1>7, <1>10 DEF Member

\* The server closes the connection of a run that is alive only for a
\* duplicate of its id (PubSub.ClosesOnlyDuplicates; TCP_server_update_client
\* and the branch of run_server for a packet).
THEOREM AlwaysClosesDuplicates == Spec => ClosesOnlyDuplicates
<1>. DEFINE Dup(p) == \E k \in 1 .. Len(connected_clients) :
                        /\ connected_clients[k].id = IdOf[p]
                        /\ sock[connected_clients[k].fd] # p
            Step == \A p \in Procs :
                      conn[p] = "accepted" /\ conn'[p] # "accepted" /\ p \notin hup /\ srv' = "running"
                        => Dup(p)
<1>1. IdentityInv /\ [Next]_vars => Step
  <2>1. SUFFICES ASSUME IdentityInv, [Next]_vars, NEW p \in Procs,
                        conn[p] = "accepted", conn'[p] # "accepted", p \notin hup, srv' = "running"
                 PROVE  Dup(p)
    OBVIOUS
  <2>. HIDE DEF Dup
  <2>2. conn \in [Procs -> ConnStates]
    BY <2>1 DEF IdentityInv, IInv, TypeOK, SocketsTypeOK
  <2>3. ASSUME NEW i \in Slots, NEW fd \in ClientFds, TCP_server_close_connection(i, fd)
        PROVE  p = sock[fd]
    <3>1. CASE clients_list_remove_faults(connected_clients, ClientIdx(fd))
      BY <2>1, <2>3, <3>1 DEF TCP_server_close_connection, ServerEnds
    <3>2. CASE ~clients_list_remove_faults(connected_clients, ClientIdx(fd))
      <4>1. conn' = [conn EXCEPT ![sock[fd]] = Closed(recv_rest(fd)[sock[fd]])]
        BY <2>3, <3>2 DEF TCP_server_close_connection
      <4>. QED  BY <2>1, <2>2, <4>1
    <3>. QED  BY <3>1, <3>2
  <2>4. CASE ServerStep
    <3>1. CASE Poll
      BY <2>1, <3>1 DEF Poll, netVars
    <3>2. ASSUME NEW i \in Slots,
                 \/ UnknownCommand(i) \/ server_exit(i) \/ UDP_server_recv(i)
                 \/ SendStatusUnassigned(i) \/ AcceptFails(i) \/ PollerOverflows(i) \/ CommandOverflows(i)
          PROVE  Dup(p)
      BY <2>1, <3>2 DEF UnknownCommand, server_exit, UDP_server_recv, SendStatusUnassigned,
                        AcceptFails, PollerOverflows, CommandOverflows, ServerEnds
    <3>3. ASSUME NEW i \in Slots, TCP_server_accept_connection(i) PROVE Dup(p)
      <4>1. conn' = [conn EXCEPT ![Head(backlog)] = "accepted"]
        BY <3>3 DEF TCP_server_accept_connection
      <4>. QED  BY <2>1, <2>2, <4>1
    <3>4. ASSUME NEW i \in Slots, NEW fd \in ClientFds, Disconnect(i, fd) PROVE Dup(p)
      BY <2>1, <2>3, <3>4 DEF Disconnect
    <3>5. ASSUME NEW i \in Slots, NEW fd \in ClientFds, TCP_message(i, fd) PROVE Dup(p)
      <4>1. ClientEvent(i, fd)
        BY <3>5 DEF TCP_message
      <4>2. PICK m \in recv_packet(sock[fd]) :
              \/ RegisterClient(i, fd, m)
              \/ RejectClient(i, fd, m)
              \/ TCP_server_subscribe(i, fd, m)
              \/ TCP_server_unsubscribe(i, fd, m)
              \/ RepeatedNew(i, fd, m)
        BY <3>5 DEF TCP_message
      <4>3. CASE RejectClient(i, fd, m)
        <5>1. p = sock[fd]
          BY <2>3, <4>3 DEF RejectClient
        <5>. QED  BY <2>1, <4>1, <4>3, <5>1, RejectsDuplicate DEF IdentityInv, Dup
      <4>4. CASE ~RejectClient(i, fd, m)
        BY <2>1, <4>2, <4>4 DEF RegisterClient, TCP_server_subscribe, TCP_server_unsubscribe,
                                RepeatedNew, Received, ServerEnds
      <4>. QED  BY <4>3, <4>4
    <3>. QED  BY <2>4, <3>1, <3>2, <3>3, <3>4, <3>5 DEF ServerStep, run_server
  <2>5. ASSUME NEW q \in Procs, Start(q) \/ SubscriberStep(q) \/ UserStep(q) PROVE Dup(p)
    <3>1. conn' = conn \/ (Connect(q) /\ conn[q] = "none") \/ (Push(q) /\ conn[q] = "fin")
      <4>1. Connect(q) => conn[q] = "none"
        BY <2>1 DEF Connect, Started, IdentityInv, IInv, QueueAgrees
      <4>2. Push(q) => conn' = conn \/ conn[q] = "fin"
        BY DEF Push
      <4>3. Connect(q) \/ Push(q) \/ conn' = conn
        BY <2>5 DEF Start, SubscriberStep, UserStep, ConnectRefused, run_client, SendFails, Hangup,
                    User, BeginCommand, UnknownWord, SubscribeCommand, UnsubscribeCommand,
                    Command, netVars, ExitCommand, Kill
      <4>. QED  BY <4>1, <4>2, <4>3
    <3>2. \A r \in Procs : r # q => conn'[r] = conn[r]
      BY <2>2, <3>1 DEF Connect, Push
    <3>. QED  BY <2>1, <3>1, <3>2
  <2>6. CASE \/ \E cmd \in Commands : TypeCommand(cmd)
             \/ \E t \in Trailers : TypeTrailer(t)
             \/ \E topic \in Topics : SendDatagram(topic)
    BY <2>1, <2>6 DEF TypeCommand, TypeTrailer, SendDatagram
  <2>7. CASE UNCHANGED vars
    BY <2>1, <2>7 DEF vars, netVars
  <2>. QED  BY <2>1, <2>4, <2>5, <2>6, <2>7 DEF Next
<1>2. IdentityInv /\ [Next]_vars => [Step]_vars
  BY <1>1
<1>3. Spec => [][Step]_vars
  BY <1>2, IdentityInductive, PTL DEF Spec
<1>. QED  BY <1>3 DEF ClosesOnlyDuplicates
=============================================================================
