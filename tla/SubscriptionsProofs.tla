------------------------ MODULE SubscriptionsProofs ------------------------
(***************************************************************************)
(* That subscriptions change only by their owner's packets, that they      *)
(* become what the owner's commands say, and that the server waits for no  *)
(* packet that is not coming, for every value of the constants of PubSub.  *)
(*                                                                         *)
(* The second rests on what a run has sent and the server has not handled: *)
(* carried out one packet after the other, it takes the server's list to   *)
(* the run's ledger (Balanced).  A run of the same id does not come        *)
(* between, nor one whose torn packet reads as that id: it is dead and its *)
(* stream empty (TornIsSpent).                                             *)
(*                                                                         *)
(* The last rests on what is under way being whole packets (WholePackets). *)
(***************************************************************************)
EXTENDS IdentityProofs

LEMMA OnlyRunning == ServerStep => srv = "running"
BY DEF ServerStep, run_server, Poll, UnknownCommand, server_exit, CommandOverflows, UDP_server_recv,
       SendStatusUnassigned, TCP_server_accept_connection, AcceptFails, PollerOverflows,
       Disconnect, TCP_message, ClientEvent, Event

-----------------------------------------------------------------------------
(* Packets in a stream of segments.                                        *)

\* The segments of j packets.
Before(j) == j * Segments

LEMMA Segmented ==
  /\ Before(0) = 0
  /\ \A n \in Nat : Before(n) \in Nat /\ Before(n + 1) = Before(n) + Segments
  /\ \A m, n \in Nat : m <= n => Before(m) <= Before(n)
<1>1. Segments \in Nat \ {0}
  BY SocketsAssumption
<1>2. ASSUME NEW m \in Nat, NEW n \in Nat, m <= n PROVE Before(m) <= Before(n)
  <2>1. PICK d \in Nat : n = m + d
    <3>1. n - m \in Nat /\ n = m + (n - m)
      BY <1>2
    <3>. QED  BY <3>1
  <2>2. \A x, y, z \in Nat : (x + y) * z = x * z + y * z /\ x * z \in Nat
    OBVIOUS
  <2>3. n * Segments = m * Segments + d * Segments /\ d * Segments \in Nat /\ m * Segments \in Nat
    BY <1>1, <2>1, <2>2
  <2>. QED  BY <2>3 DEF Before
<1>3. ASSUME NEW n \in Nat PROVE Before(n) \in Nat /\ Before(n + 1) = Before(n) + Segments
  BY <1>1 DEF Before
<1>4. Before(0) = 0
  BY <1>1 DEF Before
<1>. QED  BY <1>2, <1>3, <1>4

\* What the packet m of a client does to how often the client has the topic t.
Effect(t, m, x) ==
    IF m.payload # t THEN x
    ELSE IF m.msg_type = "TCP_MSG_SUBSCRIBE" THEN x + 1
    ELSE IF m.msg_type = "TCP_MSG_UNSUBSCRIBE" /\ x > 0 THEN x - 1
    ELSE x

LEMMA EffectType ==
  ASSUME NEW t, NEW m, NEW x \in Nat
  PROVE  Effect(t, m, x) \in Nat
BY DEF Effect

\* The packets of f take x to y: it is v[j] after the first j of them.
CarriesWith(v, t, x, f, y, n) ==
    /\ v \in [0 .. n -> Nat] /\ v[0] = x /\ v[n] = y
    /\ Len(f) = Before(n)
    /\ \A j \in 1 .. n : v[j] = Effect(t, f[Before(j - 1) + 1], v[j - 1])

Carries(t, x, f, y) == \E n \in Nat : \E v : CarriesWith(v, t, x, f, y, n)

LEMMA CarriesNothing ==
  ASSUME NEW t, NEW x \in Nat, NEW y, NEW f, Len(f) = 0
  PROVE  Carries(t, x, f, y) <=> x = y
<1>1. ASSUME x = y PROVE Carries(t, x, f, y)
  <2>. DEFINE v == [j \in 0 .. 0 |-> x]
  <2>1. v \in [0 .. 0 -> Nat] /\ v[0] = x
    OBVIOUS
  <2>2. \A j \in 1 .. 0 : FALSE
    OBVIOUS
  <2>. HIDE DEF v
  <2>3. CarriesWith(v, t, x, f, y, 0)
    BY <1>1, <2>1, <2>2, Segmented DEF CarriesWith
  <2>. QED  BY <2>3 DEF Carries
<1>2. ASSUME Carries(t, x, f, y) PROVE x = y
  <2>1. PICK n \in Nat : \E v : CarriesWith(v, t, x, f, y, n)
    BY <1>2 DEF Carries
  <2>2. PICK v : CarriesWith(v, t, x, f, y, n)
    BY <2>1
  <2>3. n = 0
    <3>1. SUFFICES ASSUME n # 0 PROVE FALSE
      OBVIOUS
    <3>2. 1 <= n /\ 0 + 1 = 1
      BY <3>1
    <3>3. Before(1) <= Before(n) /\ Before(0 + 1) = Before(0) + Segments /\ Before(0) = 0
      BY <3>2, Segmented
    <3>4. Before(n) = 0
      BY <2>2 DEF CarriesWith
    <3>. QED  BY <3>2, <3>3, <3>4, SocketsAssumption
  <2>. QED  BY <2>2, <2>3 DEF CarriesWith
<1>. QED  BY <1>1, <1>2

\* The first packet is received.
LEMMA CarriesRest ==
  ASSUME NEW t, NEW x, NEW y, NEW S, NEW f \in Seq(S), NEW g \in Seq(S), Carries(t, x, f, y),
         Len(f) = Segments + Len(g), \A j \in 1 .. Len(g) : g[j] = f[Segments + j]
  PROVE  Carries(t, Effect(t, f[1], x), g, y)
<1>1. Segments \in Nat \ {0} /\ Len(f) \in Nat /\ Len(g) \in Nat
  BY SocketsAssumption, LenProperties
<1>2. PICK n \in Nat : \E v : CarriesWith(v, t, x, f, y, n)
  BY DEF Carries
<1>3. PICK v : CarriesWith(v, t, x, f, y, n)
  BY <1>2
<1>4. /\ v \in [0 .. n -> Nat] /\ v[0] = x /\ v[n] = y /\ Len(f) = Before(n)
      /\ \A j \in 1 .. n : v[j] = Effect(t, f[Before(j - 1) + 1], v[j - 1])
  BY <1>3 DEF CarriesWith
<1>5. n # 0
  BY <1>1, <1>4, Segmented
<1>6. PICK k \in Nat : n = k + 1
  <2>1. n - 1 \in Nat /\ n = (n - 1) + 1
    BY <1>5
  <2>. QED  BY <2>1
<1>7. Before(k) \in Nat /\ Len(f) = Before(k) + Segments
  BY <1>4, <1>6, Segmented
<1>8. Len(g) = Before(k)
  BY <1>1, <1>7
<1>. DEFINE u == [j \in 0 .. k |-> v[j + 1]]
<1>9. /\ u \in [0 .. k -> Nat] /\ u[0] = v[1] /\ u[k] = y
      /\ \A j \in 0 .. k : u[j] = v[j + 1]
  BY <1>4, <1>6
<1>10. v[1] = Effect(t, f[1], x)
  <2>1. 1 \in 1 .. n /\ 1 - 1 = 0 /\ 0 + 1 = 1
    BY <1>5
  <2>. QED  BY <1>4, <2>1, Segmented
<1>. HIDE DEF u
<1>11. ASSUME NEW j \in 1 .. k PROVE u[j] = Effect(t, g[Before(j - 1) + 1], u[j - 1])
  <2>1. /\ j \in Nat /\ j - 1 \in Nat /\ (j - 1) + 1 = j /\ j <= k /\ j \in 0 .. k
        /\ j - 1 \in 0 .. k /\ j + 1 \in 1 .. n /\ (j + 1) - 1 = j
    BY <1>6
  <2>2. Before(j) <= Before(k) /\ Before(j) = Before(j - 1) + Segments /\ Before(j - 1) \in Nat
    <3>1. Before((j - 1) + 1) = Before(j - 1) + Segments /\ Before(j - 1) \in Nat
      BY <2>1, Segmented
    <3>2. Before(j) <= Before(k)
      BY <2>1, Segmented
    <3>. QED  BY <2>1, <3>1, <3>2
  <2>3. /\ Before(j - 1) + 1 \in 1 .. Len(g)
        /\ Segments + (Before(j - 1) + 1) = Before(j) + 1
    BY <1>1, <1>7, <1>8, <2>2
  <2>4. g[Before(j - 1) + 1] = f[Before(j) + 1]
    BY <2>3
  <2>5. v[j + 1] = Effect(t, f[Before((j + 1) - 1) + 1], v[(j + 1) - 1])
    BY <1>4, <2>1
  <2>6. u[j] = v[j + 1] /\ u[j - 1] = v[(j - 1) + 1]
    BY <1>9, <2>1
  <2>. QED  BY <2>1, <2>4, <2>5, <2>6
<1>12. CarriesWith(u, t, Effect(t, f[1], x), g, y, k)
  BY <1>8, <1>9, <1>10, <1>11 DEF CarriesWith
<1>. QED  BY <1>12 DEF Carries

\* A packet is sent, twice.
LEMMA CarriesMore ==
  ASSUME NEW t, NEW x, NEW y, NEW S, NEW f \in Seq(S), NEW g \in Seq(S), NEW m, Carries(t, x, f, y),
         Len(g) = Len(f) + 2 * Segments, \A j \in 1 .. Len(f) : g[j] = f[j],
         \A j \in Len(f) + 1 .. Len(f) + 2 * Segments : g[j] = m
  PROVE  Carries(t, x, g, Effect(t, m, Effect(t, m, y)))
<1>1. Segments \in Nat \ {0} /\ Len(f) \in Nat /\ Len(g) \in Nat
  BY SocketsAssumption, LenProperties
<1>2. PICK n \in Nat : \E v : CarriesWith(v, t, x, f, y, n)
  BY DEF Carries
<1>3. PICK v : CarriesWith(v, t, x, f, y, n)
  BY <1>2
<1>4. /\ v \in [0 .. n -> Nat] /\ v[0] = x /\ v[n] = y /\ Len(f) = Before(n)
      /\ \A j \in 1 .. n : v[j] = Effect(t, f[Before(j - 1) + 1], v[j - 1])
  BY <1>3 DEF CarriesWith
<1>5. /\ Before(n + 1) = Before(n) + Segments /\ Before(n + 2) = Before(n) + 2 * Segments
      /\ Before(n) \in Nat
  <2>1. n + 1 \in Nat /\ (n + 1) + 1 = n + 2
    OBVIOUS
  <2>2. Before(n + 1) = Before(n) + Segments /\ Before(n) \in Nat
    BY Segmented
  <2>3. Before((n + 1) + 1) = Before(n + 1) + Segments
    BY <2>1, Segmented
  <2>. QED  BY <1>1, <2>1, <2>2, <2>3
<1>. DEFINE a == Effect(t, m, y)
            b == Effect(t, m, a)
            u == [j \in 0 .. n + 2 |-> IF j <= n THEN v[j] ELSE IF j = n + 1 THEN a ELSE b]
<1>6. y \in Nat /\ a \in Nat /\ b \in Nat
  <2>1. y \in Nat
    BY <1>4
  <2>2. a \in Nat
    BY <2>1, EffectType
  <2>. QED  BY <2>1, <2>2, EffectType
<1>. HIDE DEF a, b
<1>7. /\ u \in [0 .. n + 2 -> Nat] /\ u[n + 1] = a /\ u[n + 2] = b
      /\ \A j \in 0 .. n : u[j] = v[j]
  <2>1. \A j \in 0 .. n + 2 : (IF j <= n THEN v[j] ELSE IF j = n + 1 THEN a ELSE b) \in Nat
    BY <1>4, <1>6
  <2>. QED  BY <1>4, <1>6, <2>1
<1>. HIDE DEF u
<1>8. u[0] = x /\ u[n] = y
  BY <1>4, <1>7
<1>9. g[Before(n) + 1] = m /\ g[Before(n + 1) + 1] = m
  <2>1. /\ Before(n) + 1 \in Len(f) + 1 .. Len(f) + 2 * Segments
        /\ (Before(n) + Segments) + 1 \in Len(f) + 1 .. Len(f) + 2 * Segments
    BY <1>1, <1>4, <1>5
  <2>. QED  BY <1>5, <2>1
<1>10. ASSUME NEW j \in 1 .. n + 2 PROVE u[j] = Effect(t, g[Before(j - 1) + 1], u[j - 1])
  <2>1. CASE j \in 1 .. n
    <3>1. j \in 0 .. n /\ j - 1 \in 0 .. n /\ j - 1 \in Nat /\ (j - 1) + 1 = j /\ j <= n
      BY <2>1
    <3>2. Before(j - 1) \in Nat /\ Before((j - 1) + 1) = Before(j - 1) + Segments
      BY <3>1, Segmented
    <3>3. Before(j) <= Before(n)
      BY <3>1, Segmented
    <3>4. Before(j - 1) + 1 \in 1 .. Len(f)
      <4>. DEFINE from == Before(j - 1)
                  top == Len(f)
      <4>1. top = Before(n) /\ Before(j) = from + Segments
        BY <1>4, <3>1, <3>2
      <4>2. from \in Nat /\ top \in Nat /\ from + Segments <= top /\ Segments \in Nat /\ Segments >= 1
        BY <1>1, <3>2, <3>3, <4>1, Segmented
      <4>. HIDE DEF from, top
      <4>3. from + 1 \in 1 .. top
        BY <4>2
      <4>. QED  BY <4>3 DEF from, top
    <3>. QED  BY <1>4, <1>7, <2>1, <3>1, <3>4
  <2>2. CASE j = n + 1
    <3>1. j - 1 = n
      BY <2>2
    <3>. QED  BY <1>7, <1>8, <1>9, <2>2, <3>1 DEF a
  <2>3. CASE j = n + 2
    <3>1. j - 1 = n + 1
      BY <2>3
    <3>. QED  BY <1>7, <1>9, <2>3, <3>1 DEF b
  <2>4. j \in 1 .. n \/ j = n + 1 \/ j = n + 2
    OBVIOUS
  <2>. QED  BY <2>1, <2>2, <2>3, <2>4
<1>11. n + 2 \in Nat /\ Len(g) = Before(n + 2)
  BY <1>4, <1>5
<1>12. CarriesWith(u, t, x, g, b, n + 2)
  BY <1>7, <1>8, <1>10, <1>11 DEF CarriesWith
<1>13. Carries(t, x, g, b)
  BY <1>11, <1>12 DEF Carries
<1>. QED  BY <1>13 DEF a, b

-----------------------------------------------------------------------------
(* What the server does to its list of subscriptions.                      *)

Node == subscription_node(Names, Names)

LEMMA CountPlaces ==
  ASSUME NEW t, NEW id
  PROVE  /\ Count(t, id) = Cardinality(Places(subscriptions, [topic |-> t, subscriber_id |-> id]))
         /\ Count(t, id)' = Cardinality(Places(subscriptions', [topic |-> t, subscriber_id |-> id]))
BY DEF Count, Places

LEMMA ListType ==
  ASSUME IInv
  PROVE  /\ subscriptions \in Seq(Node) /\ Len(subscriptions) \in Nat
         /\ \A k \in 1 .. Len(subscriptions) : subscriptions[k] \in Node
         /\ \A t, id : Count(t, id) \in Nat
<1>1. subscriptions \in Seq(Node)
  BY DEF IInv, TypeOK, ServerTypeOK, Node
<1>2. Len(subscriptions) \in Nat /\ \A k \in 1 .. Len(subscriptions) : subscriptions[k] \in Node
  BY <1>1, LenProperties, ElementOfSeq
<1>3. ASSUME NEW t, NEW id PROVE Count(t, id) \in Nat
  <2>. DEFINE n == [topic |-> t, subscriber_id |-> id]
  <2>1. Cardinality(Places(subscriptions, n)) \in Nat
    <3>. HIDE DEF n
    <3>. QED  BY <1>1, PlacesFinite
  <2>2. Count(t, id) = Cardinality(Places(subscriptions, n))
    BY CountPlaces
  <2>. QED  BY <2>1, <2>2
<1>. QED  BY <1>1, <1>2, <1>3

\* A subscribe packet adds a node of the client's at the head.
LEMMA SubscribeAdds ==
  ASSUME IInv, IdInv, NEW i \in Slots, NEW fd \in ClientFds, ClientEvent(i, fd),
         NEW m \in Packet, TCP_server_subscribe(i, fd, m),
         NEW k \in 1 .. Len(connected_clients), k = ClientIdx(fd)
  PROVE  /\ UNCHANGED <<srv, connected_clients, sock, conn, hup>> /\ stream' = recv_rest(fd)
         /\ \E a \in Node :
               /\ a.subscriber_id = connected_clients[k].id
               /\ m.payload # EmptyString => a.topic = m.payload
               /\ subscriptions' = <<a>> \o subscriptions
<1>1. ClientIdx(fd) # 0 /\ connected_clients[k].id \in Names
  BY Named DEF TCP_server_subscribe
<1>2. PICK topic \in TCP_server_get_sub_args(m) :
        subscriptions' = IF ClientIdx(fd) = 0 THEN subscriptions
                         ELSE subscriptions_add_subscription(subscriptions,
                                [topic |-> topic,
                                 subscriber_id |-> connected_clients[ClientIdx(fd)].id])
  BY DEF TCP_server_subscribe
<1>3. topic \in Names /\ (m.payload # EmptyString => topic = m.payload)
  BY DEF TCP_server_get_sub_args, Packet, Names
<1>. DEFINE a == [topic |-> topic, subscriber_id |-> connected_clients[k].id]
<1>4. a \in Node /\ a.topic = topic /\ a.subscriber_id = connected_clients[k].id
  BY <1>1, <1>3 DEF Node, subscription_node
<1>5. subscriptions' = <<a>> \o subscriptions
  BY <1>1, <1>2 DEF subscriptions_add_subscription
<1>. HIDE DEF a
<1>6. UNCHANGED <<srv, connected_clients, sock, conn, hup>> /\ stream' = recv_rest(fd)
  BY DEF TCP_server_subscribe, Received
<1>. QED  BY <1>3, <1>4, <1>5, <1>6

\* An unsubscribe packet removes one, if there is one, unless it ends the server.
LEMMA UnsubscribeRemoves ==
  ASSUME IInv, IdInv, NEW i \in Slots, NEW fd \in ClientFds, ClientEvent(i, fd),
         NEW m \in Packet, TCP_server_unsubscribe(i, fd, m), srv' = "running",
         NEW k \in 1 .. Len(connected_clients), k = ClientIdx(fd)
  PROVE  /\ UNCHANGED <<srv, connected_clients, sock, conn, hup>> /\ stream' = recv_rest(fd)
         /\ LET a == [topic |-> m.payload, subscriber_id |-> connected_clients[k].id]
            IN  \/ /\ UNCHANGED subscriptions
                   /\ \A j \in 1 .. Len(subscriptions) : subscriptions[j] # a
                \/ \E u \in 1 .. Len(subscriptions) :
                      subscriptions[u] = a /\ subscriptions' = RemoveAt(subscriptions, u)
<1>. DEFINE u == Unsubscribed(fd, m)
            a == [topic |-> m.payload, subscriber_id |-> connected_clients[k].id]
<1>1. ClientIdx(fd) # 0
  BY Named DEF TCP_server_unsubscribe
<1>2. ~subscriptions_remove_faults(subscriptions, u)
  BY DEF TCP_server_unsubscribe, ServerEnds
<1>3. /\ subscriptions' = subscriptions_remove_subscription(subscriptions, u)
      /\ UNCHANGED <<srv, connected_clients, sock, conn, hup>> /\ stream' = recv_rest(fd)
  BY <1>2 DEF TCP_server_unsubscribe, Received
<1>4. u = subscriptions_find(subscriptions, m.payload, connected_clients[k].id)
  BY <1>1 DEF Unsubscribed
<1>. HIDE DEF u
<1>5. /\ u \in 0 .. Len(subscriptions)
      /\ u # 0 => /\ subscriptions[u].topic = m.payload
                  /\ subscriptions[u].subscriber_id = connected_clients[k].id
      /\ u = 0 => \A j \in 1 .. Len(subscriptions) :
                     ~(/\ subscriptions[j].topic = m.payload
                       /\ subscriptions[j].subscriber_id = connected_clients[k].id)
  BY <1>4, ListType, FindSubscription
<1>6. CASE u = 0
  <2>1. \A j \in 1 .. Len(subscriptions) : subscriptions[j] # a
    BY <1>5, <1>6
  <2>2. UNCHANGED subscriptions
    BY <1>3, <1>6 DEF subscriptions_remove_subscription
  <2>. QED  BY <1>3, <2>1, <2>2
<1>7. CASE u # 0
  <2>1. u \in 1 .. Len(subscriptions)
    BY <1>5, <1>7, ListType
  <2>2. subscriptions[u] \in Node
    BY <2>1, ListType
  <2>3. subscriptions[u] = a
    BY <1>5, <1>7, <2>2 DEF Node, subscription_node
  <2>4. subscriptions' = RemoveAt(subscriptions, u)
    BY <1>3, <1>7 DEF subscriptions_remove_subscription
  <2>. QED  BY <1>3, <2>1, <2>3, <2>4
<1>. QED  BY <1>6, <1>7

\* Nothing else changes the list.
LEMMA OthersLeaveList ==
  ASSUME [Next]_vars, subscriptions' # subscriptions
  PROVE  \E i \in Slots, fd \in ClientFds :
            /\ ClientEvent(i, fd)
            /\ \E m \in recv_packet(sock[fd]) :
                  TCP_server_subscribe(i, fd, m) \/ TCP_server_unsubscribe(i, fd, m)
<1>1. ServerStep
  <2>1. ASSUME NEW p \in Procs, Start(p) \/ SubscriberStep(p) \/ UserStep(p) PROVE FALSE
    BY <2>1 DEF Start, SubscriberStep, UserStep, serverVars, listVars
  <2>2. ASSUME \/ \E cmd \in Commands : TypeCommand(cmd)
               \/ \E t \in Trailers : TypeTrailer(t)
               \/ \E topic \in Topics : SendDatagram(topic)
        PROVE  FALSE
    BY <2>2 DEF TypeCommand, TypeTrailer, SendDatagram, serverVars, listVars
  <2>3. ~UNCHANGED vars
    BY DEF vars, serverVars, listVars
  <2>. QED  BY <2>1, <2>2, <2>3 DEF Next
<1>2. ASSUME NEW status, NEW unread, ServerEnds(status, unread) PROVE FALSE
  BY <1>2 DEF ServerEnds, listVars
<1>3. ASSUME NEW i \in Slots, NEW fd \in ClientFds, TCP_server_close_connection(i, fd) PROVE FALSE
  BY <1>2, <1>3 DEF TCP_server_close_connection
<1>4. ~Poll
  BY DEF Poll, listVars
<1>5. ASSUME NEW i \in Slots,
             \/ UnknownCommand(i) \/ server_exit(i) \/ UDP_server_recv(i)
             \/ SendStatusUnassigned(i) \/ TCP_server_accept_connection(i)
             \/ AcceptFails(i) \/ PollerOverflows(i) \/ CommandOverflows(i)
      PROVE  FALSE
  BY <1>2, <1>5 DEF UnknownCommand, server_exit, UDP_server_recv, SendStatusUnassigned,
                    TCP_server_accept_connection, AcceptFails, PollerOverflows, CommandOverflows, listVars
<1>6. PICK i \in Slots, fd \in ClientFds : Disconnect(i, fd) \/ TCP_message(i, fd)
  BY <1>1, <1>4, <1>5 DEF ServerStep, run_server
<1>7. TCP_message(i, fd)
  BY <1>3, <1>6 DEF Disconnect
<1>8. PICK m \in recv_packet(sock[fd]) :
        \/ RegisterClient(i, fd, m)
        \/ RejectClient(i, fd, m)
        \/ TCP_server_subscribe(i, fd, m)
        \/ TCP_server_unsubscribe(i, fd, m)
        \/ RepeatedNew(i, fd, m)
  BY <1>7 DEF TCP_message
<1>9. ~RegisterClient(i, fd, m) /\ ~RejectClient(i, fd, m) /\ ~RepeatedNew(i, fd, m)
  BY <1>3 DEF RegisterClient, RejectClient, RepeatedNew
<1>10. ClientEvent(i, fd)
  BY <1>7 DEF TCP_message
<1>. QED  BY <1>8, <1>9, <1>10

\* What is received is no more in the stream.
LEMMA Shorter ==
  ASSUME IInv, NEW fd \in ClientFds, sock[fd] \in Procs, recv_packet(sock[fd]) # {}
  PROVE  Len(recv_rest(fd)[sock[fd]]) < Len(stream[sock[fd]])
<1>. DEFINE q == stream[sock[fd]]
<1>1. q \in Seq(TCP_ctos_msg) /\ Len(q) \in Nat
  BY LenProperties DEF IInv, TypeOK, SocketsTypeOK
<1>2. q # <<>>
  <2>1. CASE Len(q) >= Segments
    BY <1>1, <2>1, SocketsAssumption, EmptySeq
  <2>2. CASE ~(Len(q) >= Segments)
    BY <2>2 DEF recv_packet
  <2>. QED  BY <2>1, <2>2
<1>3. Len(q) > 0 /\ Segments \in Nat \ {0}
  BY <1>1, <1>2, EmptySeq, SocketsAssumption
<1>4. recv_rest(fd)[sock[fd]] = SubSeq(q, Segments + 1, Len(q))
  BY DEF recv_rest, IInv, TypeOK, SocketsTypeOK
<1>. HIDE DEF q
<1>5. Len(SubSeq(q, Segments + 1, Len(q))) =
         IF Segments + 1 <= Len(q) THEN Len(q) - (Segments + 1) + 1 ELSE 0
  <2>1. Segments + 1 \in Int /\ Segments + 1 >= 1 /\ Len(q) \in Int
    BY <1>1, <1>3
  <2>2. \A j \in Segments + 1 .. Len(q) : q[j] \in TCP_ctos_msg
    BY <1>1, <2>1, ElementOfSeq
  <2>. QED  BY <2>1, <2>2, SubSeqProperties
<1>6. Len(SubSeq(q, Segments + 1, Len(q))) < Len(q)
  BY <1>1, <1>3, <1>5
<1>. QED  BY <1>4, <1>6 DEF q

LEMMA RemoveHead ==
  ASSUME NEW S, NEW q \in Seq(S), NEW a \in S
  PROVE  RemoveAt(<<a>> \o q, 1) = q /\ 1 \in 1 .. Len(<<a>> \o q) /\ (<<a>> \o q)[1] = a
<1>. DEFINE r == <<a>> \o q
<1>1. /\ r \in Seq(S) /\ Len(r) = Len(q) + 1 /\ Len(q) \in Nat /\ r[1] = a
      /\ \A i \in 2 .. Len(q) + 1 : r[i] = q[i - 1]
  BY AddAtHead, LenProperties
<1>. HIDE DEF r
<1>2. 1 \in 1 .. Len(r)
  BY <1>1
<1>3. /\ RemoveAt(r, 1) \in Seq(S) /\ Len(RemoveAt(r, 1)) = Len(r) - 1
      /\ \A i \in 1 .. Len(r) - 1 : RemoveAt(r, 1)[i] = IF i < 1 THEN r[i] ELSE r[i + 1]
  BY <1>1, <1>2, RemoveNode
<1>4. Len(RemoveAt(r, 1)) = Len(q)
  BY <1>1, <1>3
<1>5. ASSUME NEW i \in 1 .. Len(q) PROVE RemoveAt(r, 1)[i] = q[i]
  <2>1. i \in 1 .. Len(r) - 1 /\ ~(i < 1) /\ i + 1 \in 2 .. Len(q) + 1 /\ (i + 1) - 1 = i
    BY <1>1
  <2>2. RemoveAt(r, 1)[i] = r[i + 1]
    BY <1>3, <2>1
  <2>. QED  BY <1>1, <2>1, <2>2
<1>6. RemoveAt(r, 1) = q
  BY <1>3, <1>4, <1>5, SeqEqual
<1>. QED  BY <1>1, <1>2, <1>6 DEF r

\* However connections come and go, a client's subscriptions change only by a
\* packet received from that client, once it is connected, and one at a time
\* (PubSub.OnlyOwnerChanges; TCP_server_subscribe, TCP_server_unsubscribe).
THEOREM OnlyOwnerEverChanges == Spec => OnlyOwnerChanges
<1>. DEFINE Owner(k) == LET c == connected_clients[k]
                        IN  /\ c.state = CLIENT_STATE_CONNECTED
                            /\ Len(stream'[sock[c.fd]]) < Len(stream[sock[c.fd]])
                            /\ \/ OneMore(subscriptions', subscriptions, c.id)
                               \/ OneMore(subscriptions, subscriptions', c.id)
            Step == subscriptions' # subscriptions => \E k \in 1 .. Len(connected_clients) : Owner(k)
<1>1. IdentityInv /\ [Next]_vars => Step
  <2>1. SUFFICES ASSUME IInv, IdInv, [Next]_vars, subscriptions' # subscriptions
                 PROVE  \E k \in 1 .. Len(connected_clients) : Owner(k)
    BY DEF IdentityInv
  <2>2. PICK i \in Slots, fd \in ClientFds :
          /\ ClientEvent(i, fd)
          /\ \E m \in recv_packet(sock[fd]) :
                TCP_server_subscribe(i, fd, m) \/ TCP_server_unsubscribe(i, fd, m)
    BY <2>1, OthersLeaveList
  <2>3. PICK m \in recv_packet(sock[fd]) :
          TCP_server_subscribe(i, fd, m) \/ TCP_server_unsubscribe(i, fd, m)
    BY <2>2
  <2>4. sock[fd] \in Procs /\ m \in Packet
    BY <2>1, <2>2, ClientOf, PacketType
  <2>5. PICK k \in 1 .. Len(connected_clients) : k = ClientIdx(fd)
    BY <2>1, <2>2, ClientOf
  <2>6. connected_clients[k].fd = fd /\ connected_clients[k].state = CLIENT_STATE_CONNECTED
    <3>1. connected_clients[k] \in client_node(ClientFds, Names)
      BY <2>1, <2>2, ClientOf, DistinctMembers
    <3>2. connected_clients[k].state # CLIENT_STATE_NEW
      BY <2>1, <2>2, <2>3, <2>5, Named
         DEF TCP_server_subscribe, TCP_server_unsubscribe, TCP_server_is_new_connection
    <3>3. connected_clients[k].fd = fd
      BY <2>1, <2>2, <2>5, ClientOf
    <3>. QED  BY <3>1, <3>2, <3>3 DEF client_node
  <2>7. stream' = recv_rest(fd) => Len(stream'[sock[fd]]) < Len(stream[sock[fd]])
    BY <2>1, <2>3, <2>4, Shorter
  <2>8. CASE TCP_server_subscribe(i, fd, m)
    <3>1. PICK a \in Node : /\ a.subscriber_id = connected_clients[k].id
                            /\ subscriptions' = <<a>> \o subscriptions
      BY <2>1, <2>2, <2>4, <2>5, <2>8, SubscribeAdds
    <3>2. stream' = recv_rest(fd)
      BY <2>8 DEF TCP_server_subscribe, Received
    <3>3. OneMore(subscriptions', subscriptions, connected_clients[k].id)
      BY <2>1, <3>1, ListType, RemoveHead DEF OneMore
    <3>. QED  BY <2>6, <2>7, <3>2, <3>3
  <2>9. CASE TCP_server_unsubscribe(i, fd, m)
    <3>1. ~subscriptions_remove_faults(subscriptions, Unsubscribed(fd, m)) /\ srv' = "running"
      <4>1. ~ServerEnds("crashed", recv_rest(fd))
        BY <2>1 DEF ServerEnds, listVars
      <4>2. ~subscriptions_remove_faults(subscriptions, Unsubscribed(fd, m))
        BY <2>9, <4>1 DEF TCP_server_unsubscribe
      <4>. QED  BY <2>1, <2>2, <2>9, <4>2, ClientOf DEF TCP_server_unsubscribe, Received
    <3>2. stream' = recv_rest(fd)
      BY <2>9, <3>1 DEF TCP_server_unsubscribe, Received
    <3>3. \E u \in 1 .. Len(subscriptions) :
             /\ subscriptions[u] = [topic |-> m.payload, subscriber_id |-> connected_clients[k].id]
             /\ subscriptions' = RemoveAt(subscriptions, u)
      BY <2>1, <2>2, <2>4, <2>5, <2>9, <3>1, UnsubscribeRemoves
    <3>4. OneMore(subscriptions, subscriptions', connected_clients[k].id)
      BY <3>3 DEF OneMore
    <3>. QED  BY <2>6, <2>7, <3>2, <3>4
  <2>. QED  BY <2>3, <2>8, <2>9
<1>2. IdentityInv /\ [Next]_vars => [Step]_vars
  BY <1>1
<1>3. Spec => [][Step]_vars
  BY <1>2, IdentityInductive, PTL DEF Spec
<1>. QED  BY <1>3 DEF OnlyOwnerChanges

\* A command changes how often its client has its topic, and nothing else.
LEMMA CommandCounts ==
  ASSUME IInv, IdInv, NEW i \in Slots, NEW fd \in ClientFds, ClientEvent(i, fd),
         NEW m \in Packet, TCP_server_subscribe(i, fd, m) \/ TCP_server_unsubscribe(i, fd, m),
         srv' = "running", NEW k \in 1 .. Len(connected_clients), k = ClientIdx(fd),
         NEW t, NEW id
  PROVE  /\ id # connected_clients[k].id => Count(t, id)' = Count(t, id)
         /\ id = connected_clients[k].id /\ m.payload # EmptyString
               => Count(t, id)' = Effect(t, m, Count(t, id))
<1>. DEFINE e == [topic |-> t, subscriber_id |-> id]
            x == Cardinality(Places(subscriptions, e))
            y == Cardinality(Places(subscriptions', e))
            own == connected_clients[k].id
<1>1. Count(t, id) = x /\ Count(t, id)' = y /\ x \in Nat
  BY CountPlaces, ListType
<1>2. /\ subscriptions \in Seq(Node)
      /\ \A a \in Node : e = a <=> a.topic = t /\ a.subscriber_id = id
  BY ListType DEF Node, subscription_node
<1>. HIDE DEF e, own
<1>3. CASE TCP_server_subscribe(i, fd, m)
  <2>1. PICK a \in Node : /\ a.subscriber_id = own
                          /\ m.payload # EmptyString => a.topic = m.payload
                          /\ subscriptions' = <<a>> \o subscriptions
    BY <1>3, SubscribeAdds DEF own
  <2>2. y = IF e = a THEN x + 1 ELSE x
    BY <1>2, <2>1, CountAfterAdd
  <2>3. m.msg_type = "TCP_MSG_SUBSCRIBE"
    BY <1>3 DEF TCP_server_subscribe
  <2>4. id # own => y = x
    BY <1>2, <2>1, <2>2
  <2>5. id = own /\ m.payload # EmptyString => y = Effect(t, m, x)
    BY <1>2, <2>1, <2>2, <2>3 DEF Effect
  <2>. QED  BY <1>1, <2>4, <2>5 DEF own
<1>4. CASE TCP_server_unsubscribe(i, fd, m)
  <2>. DEFINE a == [topic |-> m.payload, subscriber_id |-> own]
  <2>1. \/ /\ UNCHANGED subscriptions
           /\ \A j \in 1 .. Len(subscriptions) : subscriptions[j] # a
        \/ \E u \in 1 .. Len(subscriptions) :
              subscriptions[u] = a /\ subscriptions' = RemoveAt(subscriptions, u)
    BY <1>4, UnsubscribeRemoves DEF own
  <2>2. m.msg_type = "TCP_MSG_UNSUBSCRIBE" /\ m.msg_type # "TCP_MSG_SUBSCRIBE"
    BY <1>4 DEF TCP_server_unsubscribe
  <2>3. e = a <=> m.payload = t /\ id = own
    BY DEF e
  <2>. HIDE DEF a
  <2>4. CASE UNCHANGED subscriptions /\ \A j \in 1 .. Len(subscriptions) : subscriptions[j] # a
    <3>1. y = x
      BY <2>4
    <3>2. e = a => x = 0
      <4>1. Places(subscriptions, a) = {}
        BY <2>4 DEF Places
      <4>. QED  BY <1>2, <4>1, PlacesFinite
    <3>3. id = own => y = Effect(t, m, x)
      BY <1>1, <2>2, <2>3, <3>1, <3>2 DEF Effect
    <3>. QED  BY <1>1, <3>1, <3>3 DEF own
  <2>5. CASE \E u \in 1 .. Len(subscriptions) :
                subscriptions[u] = a /\ subscriptions' = RemoveAt(subscriptions, u)
    <3>1. PICK u \in 1 .. Len(subscriptions) :
            subscriptions[u] = a /\ subscriptions' = RemoveAt(subscriptions, u)
      BY <2>5
    <3>2. y = IF e = a THEN x - 1 ELSE x
      BY <1>2, <3>1, CountAfterRemove
    <3>3. e = a => x > 0
      <4>1. SUFFICES ASSUME e = a PROVE x # 0
        BY <1>1
      <4>2. u \in Places(subscriptions, e)
        BY <3>1, <4>1 DEF Places
      <4>. QED  BY <1>2, <4>2, PlacesFinite
    <3>4. id # own => y = x
      BY <2>3, <3>2
    <3>5. id = own => y = Effect(t, m, x)
      BY <1>1, <2>2, <2>3, <3>2, <3>3 DEF Effect
    <3>. QED  BY <1>1, <3>4, <3>5 DEF own
  <2>. QED  BY <2>1, <2>4, <2>5
<1>. QED  BY <1>3, <1>4

-----------------------------------------------------------------------------
(* What a step of the server leaves of the connections.                    *)

\* The connection of p is closed, or the server ends.
LEMMA CloseOnlyCloses ==
  ASSUME IInv, NEW i \in Slots, NEW fd \in ClientFds, ClientEvent(i, fd),
         TCP_server_close_connection(i, fd), srv' = "running"
  PROVE  /\ conn'[sock[fd]] \in {"fin", "rst"} /\ UNCHANGED subscriptions
         /\ \A p \in Procs \ {sock[fd]} : conn'[p] = conn[p] /\ stream'[p] = stream[p]
<1>1. ~clients_list_remove_faults(connected_clients, ClientIdx(fd))
  BY DEF TCP_server_close_connection, ServerEnds
<1>2. /\ conn' = [conn EXCEPT ![sock[fd]] = Closed(recv_rest(fd)[sock[fd]])]
      /\ stream' = [stream EXCEPT ![sock[fd]] = <<>>]
      /\ UNCHANGED subscriptions
  BY <1>1 DEF TCP_server_close_connection
<1>3. sock[fd] \in Procs /\ conn \in [Procs -> ConnStates] /\ stream \in [Procs -> Seq(TCP_ctos_msg)]
  BY ClientOf DEF IInv, TypeOK, SocketsTypeOK
<1>4. Closed(recv_rest(fd)[sock[fd]]) \in {"fin", "rst"}
  BY DEF Closed
<1>. QED  BY <1>2, <1>3, <1>4

\* Otherwise a connection is accepted from the queue, or what it was, and
\* nothing is taken from its stream but by its messages and its end.
LEMMA ConnectionAfter ==
  ASSUME IInv, ServerStep, srv' = "running", NEW p \in Procs
  PROVE  /\ srv = "running"
         /\ \/ conn'[p] = conn[p]
            \/ conn'[p] = "accepted" /\ conn[p] = "queued"
            \/ conn'[p] \in {"fin", "rst"}
         /\ \/ stream'[p] = stream[p]
            \/ \E i \in Slots, fd \in ClientFds :
                  sock[fd] = p /\ (Disconnect(i, fd) \/ TCP_message(i, fd))
<1>. DEFINE ConnGoal == \/ conn'[p] = conn[p]
                        \/ conn'[p] = "accepted" /\ conn[p] = "queued"
                        \/ conn'[p] \in {"fin", "rst"}
            StreamGoal == \/ stream'[p] = stream[p]
                          \/ \E i \in Slots, fd \in ClientFds :
                                sock[fd] = p /\ (Disconnect(i, fd) \/ TCP_message(i, fd))
<1>1. /\ conn \in [Procs -> ConnStates] /\ stream \in [Procs -> Seq(TCP_ctos_msg)]
      /\ \A status, unread : status # "running" => ~ServerEnds(status, unread)
  BY DEF IInv, TypeOK, SocketsTypeOK, ServerEnds
<1>2. srv = "running"
  BY OnlyRunning
<1>3. CASE Poll
  BY <1>2, <1>3 DEF Poll, netVars
<1>4. ASSUME NEW i \in Slots,
             \/ UnknownCommand(i) \/ server_exit(i) \/ UDP_server_recv(i)
             \/ SendStatusUnassigned(i) \/ AcceptFails(i) \/ PollerOverflows(i) \/ CommandOverflows(i)
      PROVE  UNCHANGED <<conn, stream>>
  BY <1>1, <1>4 DEF UnknownCommand, server_exit, UDP_server_recv, SendStatusUnassigned,
                    AcceptFails, PollerOverflows, CommandOverflows, netVars
<1>5. ASSUME NEW i \in Slots, TCP_server_accept_connection(i)
      PROVE  ConnGoal /\ UNCHANGED stream
  <2>1. /\ conn' = [conn EXCEPT ![Head(backlog)] = "accepted"] /\ UNCHANGED stream
        /\ conn[Head(backlog)] = "queued"
    BY <1>5, AfterAccept DEF TCP_server_accept_connection
  <2>. QED  BY <1>1, <2>1
<1>6. ASSUME NEW i \in Slots, NEW fd \in ClientFds, Disconnect(i, fd)
      PROVE  ConnGoal /\ StreamGoal
  <2>1. ClientEvent(i, fd) /\ TCP_server_close_connection(i, fd)
    BY <1>6 DEF Disconnect
  <2>. QED  BY <1>6, <2>1, CloseOnlyCloses
<1>7. ASSUME NEW i \in Slots, NEW fd \in ClientFds, TCP_message(i, fd)
      PROVE  ConnGoal /\ StreamGoal
  <2>1. ClientEvent(i, fd) /\ sock[fd] \in Procs
    BY <1>7, ClientOf DEF TCP_message
  <2>2. PICK m \in recv_packet(sock[fd]) :
          \/ RegisterClient(i, fd, m)
          \/ RejectClient(i, fd, m)
          \/ TCP_server_subscribe(i, fd, m)
          \/ TCP_server_unsubscribe(i, fd, m)
          \/ RepeatedNew(i, fd, m)
    BY <1>7 DEF TCP_message
  <2>3. CASE RejectClient(i, fd, m)
    <3>1. TCP_server_close_connection(i, fd)
      BY <2>3 DEF RejectClient
    <3>. QED  BY <1>7, <2>1, <3>1, CloseOnlyCloses
  <2>4. CASE ~RejectClient(i, fd, m)
    <3>1. Received(i, fd)
      BY <1>1, <2>2, <2>4 DEF RegisterClient, TCP_server_subscribe, TCP_server_unsubscribe,
                              RepeatedNew
    <3>2. UNCHANGED conn /\ stream' = recv_rest(fd)
      BY <3>1 DEF Received
    <3>3. p # sock[fd] => stream'[p] = stream[p]
      BY <1>1, <3>2 DEF recv_rest
    <3>. QED  BY <1>7, <3>2, <3>3
  <2>. QED  BY <2>3, <2>4
<1>. HIDE DEF ConnGoal, StreamGoal
<1>8. ConnGoal /\ StreamGoal
  <2>1. UNCHANGED <<conn, stream>> => ConnGoal /\ StreamGoal
    BY DEF ConnGoal, StreamGoal
  <2>2. UNCHANGED stream => StreamGoal
    BY DEF StreamGoal
  <2>. QED
    BY <1>3, <1>4, <1>5, <1>6, <1>7, <2>1, <2>2 DEF ServerStep, run_server, Poll, netVars
<1>. QED  BY <1>2, <1>8 DEF ConnGoal, StreamGoal

\* Every node of the list was in it, is of a connection just accepted, or has
\* just been given an id.
LEMMA NodesAfter ==
  ASSUME IInv, IdInv, ServerStep, srv' = "running", NEW k \in 1 .. Len(connected_clients')
  PROVE  \/ \E j \in 1 .. Len(connected_clients) :
               /\ connected_clients'[k] = connected_clients[j]
               /\ sock'[connected_clients[j].fd] = sock[connected_clients[j].fd]
         \/ connected_clients'[k].state = CLIENT_STATE_NEW /\ conn[sock'[connected_clients'[k].fd]] = "queued"
         \/ \E i \in Slots, fd \in ClientFds : \E m \in recv_packet(sock[fd]) :
               /\ ClientEvent(i, fd) /\ RegisterClient(i, fd, m) /\ m.msg_type = "TCP_MSG_NEW"
               /\ sock'[connected_clients'[k].fd] = sock[fd]
               /\ connected_clients'[k].id = m.payload /\ m.payload # EmptyString
<1>. DEFINE Old == \E j \in 1 .. Len(connected_clients) :
                     /\ connected_clients'[k] = connected_clients[j]
                     /\ sock'[connected_clients[j].fd] = sock[connected_clients[j].fd]
            Fresh == /\ connected_clients'[k].state = CLIENT_STATE_NEW
                     /\ conn[sock'[connected_clients'[k].fd]] = "queued"
            Given == \E i \in Slots, fd \in ClientFds : \E m \in recv_packet(sock[fd]) :
                       /\ ClientEvent(i, fd) /\ RegisterClient(i, fd, m) /\ m.msg_type = "TCP_MSG_NEW"
                       /\ sock'[connected_clients'[k].fd] = sock[fd]
                       /\ connected_clients'[k].id = m.payload /\ m.payload # EmptyString
<1>1. UNCHANGED <<connected_clients, sock>> => Old
  OBVIOUS
<1>2. /\ \A status, unread : status # "running" => ~ServerEnds(status, unread)
      /\ Len(connected_clients) \in Nat
  BY LenProperties DEF ServerEnds, IInv, TypeOK, ServerTypeOK
<1>. HIDE DEF Old, Fresh, Given
<1>3. ASSUME Poll PROVE Old
  BY <1>1, <1>3 DEF Poll, netVars, listVars
<1>4. ASSUME NEW i \in Slots,
             \/ UnknownCommand(i) \/ server_exit(i) \/ UDP_server_recv(i)
             \/ SendStatusUnassigned(i) \/ AcceptFails(i) \/ PollerOverflows(i) \/ CommandOverflows(i)
      PROVE  Old
  BY <1>1, <1>2, <1>4 DEF UnknownCommand, server_exit, UDP_server_recv, SendStatusUnassigned,
                          AcceptFails, PollerOverflows, CommandOverflows, listVars
<1>5. ASSUME NEW i \in Slots, TCP_server_accept_connection(i) PROVE Old \/ Fresh
  <2>1. /\ Len(connected_clients') = Len(connected_clients) + 1
        /\ connected_clients'[1].state = CLIENT_STATE_NEW
        /\ sock'[connected_clients'[1].fd] = Head(backlog) /\ conn[Head(backlog)] = "queued"
        /\ \A j \in 1 .. Len(connected_clients) :
              /\ connected_clients'[j + 1] = connected_clients[j]
              /\ sock'[connected_clients[j].fd] = sock[connected_clients[j].fd]
    BY <1>5, AfterAccept
  <2>2. CASE k = 1
    BY <2>1, <2>2 DEF Fresh
  <2>3. CASE k # 1
    <3>1. k - 1 \in 1 .. Len(connected_clients) /\ (k - 1) + 1 = k
      BY <1>2, <2>1, <2>3
    <3>. QED  BY <2>1, <3>1 DEF Old
  <2>. QED  BY <2>2, <2>3
<1>6. ASSUME NEW i \in Slots, NEW fd \in ClientFds, ClientEvent(i, fd),
             TCP_server_close_connection(i, fd)
      PROVE  Old
  <2>1. PICK c \in 1 .. Len(connected_clients) : c = ClientIdx(fd)
    BY <1>6, ClientOf
  <2>2. ~clients_list_remove_faults(connected_clients, c)
    BY <1>2, <1>6, <2>1 DEF TCP_server_close_connection
  <2>. DEFINE was(j) == IF j < c THEN j ELSE j + 1
  <2>3. /\ Len(connected_clients') = Len(connected_clients) - 1
        /\ \A j \in 1 .. Len(connected_clients) - 1 :
              /\ was(j) \in 1 .. Len(connected_clients)
              /\ connected_clients'[j] = connected_clients[was(j)]
              /\ sock'[connected_clients[was(j)].fd] = sock[connected_clients[was(j)].fd]
    BY <1>6, <2>1, <2>2, AfterClose
  <2>. HIDE DEF was
  <2>. QED  BY <2>3 DEF Old
<1>7. ASSUME NEW i \in Slots, NEW fd \in ClientFds, TCP_message(i, fd) PROVE Old \/ Given
  <2>1. ClientEvent(i, fd) /\ sock[fd] \in Procs
    BY <1>7, ClientOf DEF TCP_message
  <2>2. PICK m \in recv_packet(sock[fd]) :
          \/ RegisterClient(i, fd, m)
          \/ RejectClient(i, fd, m)
          \/ TCP_server_subscribe(i, fd, m)
          \/ TCP_server_unsubscribe(i, fd, m)
          \/ RepeatedNew(i, fd, m)
    BY <1>7 DEF TCP_message
  <2>3. CASE RejectClient(i, fd, m)
    BY <1>6, <2>1, <2>3 DEF RejectClient
  <2>4. CASE TCP_server_subscribe(i, fd, m) \/ TCP_server_unsubscribe(i, fd, m) \/ RepeatedNew(i, fd, m)
    BY <1>1, <1>2, <2>4 DEF TCP_server_subscribe, TCP_server_unsubscribe, RepeatedNew, Received
  <2>5. CASE RegisterClient(i, fd, m)
    <3>1. CASE m.msg_type # "TCP_MSG_NEW"
      BY <1>1, <2>5, <3>1 DEF RegisterClient, Received
    <3>2. CASE m.msg_type = "TCP_MSG_NEW"
      <4>1. PICK c \in 1 .. Len(connected_clients) : c = ClientIdx(fd)
        BY <2>1, ClientOf
      <4>2. m \in Packet
        BY <2>1, PacketType
      <4>3. /\ UNCHANGED sock /\ m.payload # EmptyString
            /\ Len(connected_clients') = Len(connected_clients)
            /\ connected_clients'[c].fd = fd /\ connected_clients'[c].id = m.payload
            /\ \A j \in 1 .. Len(connected_clients) :
                  j # c => connected_clients'[j] = connected_clients[j]
        BY <2>1, <2>5, <3>2, <4>1, <4>2, AfterRegister
      <4>4. CASE k = c
        BY <2>1, <2>5, <3>2, <4>3, <4>4 DEF Given
      <4>5. CASE k # c
        BY <4>3, <4>5 DEF Old
      <4>. QED  BY <4>4, <4>5
    <3>. QED  BY <3>1, <3>2
  <2>. QED  BY <2>2, <2>3, <2>4, <2>5
<1>8. Old \/ Fresh \/ Given
  <2>1. ASSUME NEW i \in Slots, NEW fd \in ClientFds, Disconnect(i, fd) PROVE Old
    BY <1>6, <2>1 DEF Disconnect
  <2>2. \/ Poll
        \/ \E i \in Slots :
              \/ UnknownCommand(i) \/ server_exit(i) \/ UDP_server_recv(i)
              \/ SendStatusUnassigned(i) \/ AcceptFails(i) \/ PollerOverflows(i) \/ CommandOverflows(i)
              \/ TCP_server_accept_connection(i)
              \/ \E fd \in ClientFds : Disconnect(i, fd) \/ TCP_message(i, fd)
    BY DEF ServerStep, run_server
  <2>. QED  BY <1>3, <1>4, <1>5, <1>7, <2>1, <2>2
<1>. QED  BY <1>8 DEF Old, Fresh, Given

-----------------------------------------------------------------------------
(* The invariant.                                                          *)

\* What p has sent, or has still to send, and the server has not handled.
Flight(p) == stream[p] \o out[p]

\* The run p is alive and connected, or will be, and no other has its id.
Alone(p) ==
    /\ srv = "running" /\ p \notin hup /\ conn[p] \in {"none", "queued", "accepted"}
    /\ \A q \in Procs \ {p} : IdOf[q] # IdOf[p]

\* The server has still to receive the id of p.
Unregistered(p) ==
    \/ conn[p] = "queued"
    \/ \E k \in 1 .. Len(connected_clients) :
          /\ sock[connected_clients[k].fd] = p
          /\ connected_clients[k].state = CLIENT_STATE_NEW

GivesId(f) == f # <<>> /\ f[1].msg_type = "TCP_MSG_NEW"

Balanced(p) ==
    Alone(p) =>
        /\ \A t \in Topics : Carries(t, Count(t, IdOf[p]), Flight(p), 2 * ledger[p][t])
        /\ Unregistered(p) => GivesId(Flight(p))

\* A run has sent nothing before it starts, and its end is closed only when it
\* has ended.
RunsInv ==
    \A p \in Procs :
        /\ pc[p] = "idle" => stream[p] = <<>> /\ out[p] = <<>>
        /\ p \in hup => pc[p] \notin {"idle", "running"}

\* A client that is registered as another has no more to say.
TornIsSpent ==
    \A k \in 1 .. Len(connected_clients) :
        LET c == connected_clients[k]
        IN  srv = "running" /\ c.state = CLIENT_STATE_CONNECTED /\ c.id # IdOf[sock[c.fd]]
              => stream[sock[c.fd]] = <<>>

LEMMA BalancedAfter ==
  ASSUME NEW p \in Procs,
         Alone(p)' => /\ \A t \in Topics : Carries(t, Count(t, IdOf[p])', Flight(p)', 2 * ledger'[p][t])
                      /\ Unregistered(p)' => GivesId(Flight(p)')
  PROVE  Balanced(p)'
BY DEF Balanced, Carries, CarriesWith, Effect, Before, GivesId

-----------------------------------------------------------------------------
(* Runs, and clients registered as another.                                *)

LEMMA NoMore ==
  ASSUME IInv, NEW p \in Procs, stream[p] = <<>>
  PROVE  recv_packet(p) = {} /\ SubSeq(stream[p], Segments + 1, Len(stream[p])) = <<>>
<1>1. Len(<<>>) = 0 /\ Segments \in Nat \ {0}
  BY SocketsAssumption
<1>2. ~(Len(stream[p]) >= Segments)
  BY <1>1
<1>3. recv_packet(p) = {}
  BY <1>2 DEF recv_packet
<1>4. SubSeq(stream[p], Segments + 1, Len(stream[p])) = <<>>
  BY <1>1, SubSeqEmpty
<1>. QED  BY <1>3, <1>4

\* A packet that gives another's id is the last that is received.
LEMMA TornIsLast ==
  ASSUME IInv, OwnIds, NEW p \in Procs, NEW m \in recv_packet(p), ~OwnId(p, m)
  PROVE  SubSeq(stream[p], Segments + 1, Len(stream[p])) = <<>>
<1>1. stream[p] \in Seq(TCP_ctos_msg) /\ Len(stream[p]) \in Nat /\ Segments \in Nat \ {0}
  BY LenProperties, SocketsAssumption DEF IInv, TypeOK, SocketsTypeOK
<1>2. ~(Len(stream[p]) >= Segments)
  <2>1. SUFFICES ASSUME Len(stream[p]) >= Segments PROVE FALSE
    OBVIOUS
  <2>2. m = Head(stream[p]) /\ 1 \in 1 .. Len(stream[p])
    BY <1>1, <2>1 DEF recv_packet
  <2>3. m = stream[p][1]
    BY <1>1, <2>2, HeadTailProperties, EmptySeq
  <2>. QED  BY <2>2, <2>3 DEF OwnIds
<1>3. Len(stream[p]) < Segments + 1 /\ Segments + 1 \in Int /\ Len(stream[p]) \in Int
  BY <1>1, <1>2
<1>. QED  BY <1>3, SubSeqEmpty

LEMMA NextKeepsRuns ==
  ASSUME IInv, RunsInv, [Next]_vars
  PROVE  RunsInv'
<1>1. /\ pc \in [Procs -> SubscriberStates] /\ stream \in [Procs -> Seq(TCP_ctos_msg)]
      /\ out \in [Procs -> Seq(TCP_ctos_msg)]
  BY DEF IInv, TypeOK, SocketsTypeOK, SubscriberTypeOK
<1>2. CASE ServerStep
  <2>1. UNCHANGED <<pc, out, hup>>
    BY <1>2, ServerTakes DEF ServerStep, subscriberVars
  <2>2. \A p \in Procs : stream[p] = <<>> => stream'[p] = <<>>
    BY <1>2, ServerTakes, NoMore
  <2>. QED  BY <2>1, <2>2 DEF RunsInv
<1>3. ASSUME NEW p \in Procs, SubscriberEnds(p), UNCHANGED stream PROVE RunsInv'
  BY <1>1, <1>3 DEF SubscriberEnds, RunsInv
<1>4. ASSUME NEW p \in Procs, Start(p) \/ SubscriberStep(p) \/ UserStep(p) PROVE RunsInv'
  <2>1. CASE Connect(p)
    BY <1>1, <2>1 DEF Connect, Started, RunsInv
  <2>2. CASE ConnectRefused(p) \/ SendFails(p) \/ Hangup(p) \/ ExitCommand(p) \/ Kill(p)
    BY <1>3, <2>2 DEF ConnectRefused, SendFails, Hangup, ExitCommand, Kill
  <2>3. CASE Push(p)
    BY <1>1, <2>3 DEF Push, RunsInv
  <2>4. CASE \E topic \in Topics : SubscribeCommand(p, topic) \/ UnsubscribeCommand(p, topic)
    BY <1>1, <2>4 DEF SubscribeCommand, UnsubscribeCommand, Command, Waiting, netVars, RunsInv
  <2>5. CASE BeginCommand(p) \/ UnknownWord(p)
    BY <2>5 DEF BeginCommand, UnknownWord, netVars, RunsInv
  <2>. QED  BY <1>4, <2>1, <2>2, <2>3, <2>4, <2>5 DEF Start, SubscriberStep, UserStep, run_client, User
<1>5. CASE \/ \E cmd \in Commands : TypeCommand(cmd)
           \/ \E t \in Trailers : TypeTrailer(t)
           \/ \E topic \in Topics : SendDatagram(topic)
  BY <1>5 DEF TypeCommand, TypeTrailer, SendDatagram, subscriberVars, RunsInv
<1>6. CASE UNCHANGED vars
  BY <1>6 DEF vars, netVars, subscriberVars, RunsInv
<1>. QED  BY <1>2, <1>4, <1>5, <1>6 DEF Next

LEMMA ServerKeepsTorn ==
  ASSUME IInv, IdInv, OwnIds, TornIsSpent, ServerStep
  PROVE  TornIsSpent'
<1>1. SUFFICES ASSUME NEW k \in 1 .. Len(connected_clients'), srv' = "running",
                      connected_clients'[k].state = CLIENT_STATE_CONNECTED,
                      connected_clients'[k].id # IdOf[sock'[connected_clients'[k].fd]]
               PROVE  stream'[sock'[connected_clients'[k].fd]] = <<>>
  BY DEF TornIsSpent
<1>2. srv = "running"
  BY OnlyRunning
<1>3. CASE \E j \in 1 .. Len(connected_clients) :
             /\ connected_clients'[k] = connected_clients[j]
             /\ sock'[connected_clients[j].fd] = sock[connected_clients[j].fd]
  <2>1. PICK j \in 1 .. Len(connected_clients) :
             /\ connected_clients'[k] = connected_clients[j]
             /\ sock'[connected_clients[j].fd] = sock[connected_clients[j].fd]
    BY <1>3
  <2>. DEFINE q == sock[connected_clients[j].fd]
  <2>2. q \in Procs
    BY <1>2, DistinctMembers DEF Member
  <2>3. stream[q] = <<>>
    BY <1>1, <1>2, <2>1 DEF TornIsSpent
  <2>4. stream'[q] = <<>>
    BY <2>2, <2>3, ServerTakes, NoMore
  <2>. QED  BY <2>1, <2>4
<1>4. CASE connected_clients'[k].state = CLIENT_STATE_NEW
  BY <1>1, <1>4 DEF CLIENT_STATE_NEW, CLIENT_STATE_CONNECTED
<1>5. CASE \E i \in Slots, fd \in ClientFds : \E m \in recv_packet(sock[fd]) :
               /\ ClientEvent(i, fd) /\ RegisterClient(i, fd, m) /\ m.msg_type = "TCP_MSG_NEW"
               /\ sock'[connected_clients'[k].fd] = sock[fd]
               /\ connected_clients'[k].id = m.payload /\ m.payload # EmptyString
  <2>1. PICK i \in Slots, fd \in ClientFds : \E m \in recv_packet(sock[fd]) :
               /\ ClientEvent(i, fd) /\ RegisterClient(i, fd, m) /\ m.msg_type = "TCP_MSG_NEW"
               /\ sock'[connected_clients'[k].fd] = sock[fd]
               /\ connected_clients'[k].id = m.payload
    BY <1>5
  <2>2. PICK m \in recv_packet(sock[fd]) :
               /\ RegisterClient(i, fd, m) /\ m.msg_type = "TCP_MSG_NEW"
               /\ connected_clients'[k].id = m.payload
    BY <2>1
  <2>3. sock[fd] \in Procs /\ ~OwnId(sock[fd], m)
    BY <1>1, <2>1, <2>2, ClientOf DEF OwnId
  <2>4. stream'[sock[fd]] = SubSeq(stream[sock[fd]], Segments + 1, Len(stream[sock[fd]]))
    BY <2>2, <2>3 DEF RegisterClient, Received, recv_rest, IInv, TypeOK, SocketsTypeOK
  <2>. QED  BY <2>1, <2>3, <2>4, TornIsLast
<1>. QED  BY <1>1, <1>3, <1>4, <1>5, NodesAfter

LEMMA NextKeepsTorn ==
  ASSUME IdentityInv, RunsInv, TornIsSpent, [Next]_vars
  PROVE  TornIsSpent'
<1>1. IInv /\ IdInv /\ OwnIds /\ RegisteredAsItself
  BY DEF IdentityInv
<1>2. ASSUME UNCHANGED <<srv, connected_clients, sock, stream>> PROVE TornIsSpent'
  BY <1>2 DEF TornIsSpent
<1>3. ASSUME NEW p \in Procs, Push(p), UNCHANGED serverVars PROVE TornIsSpent'
  <2>1. /\ UNCHANGED <<srv, connected_clients, sock>> /\ p \notin hup
        /\ \A q \in hup : q \in Procs /\ (q # p => stream'[q] = stream[q])
    BY <1>1, <1>3 DEF Push, RunsInv, serverVars, listVars, IInv, TypeOK, SocketsTypeOK
  <2>2. ASSUME NEW k \in 1 .. Len(connected_clients), srv = "running",
               connected_clients[k].state = CLIENT_STATE_CONNECTED,
               connected_clients[k].id # IdOf[sock[connected_clients[k].fd]]
        PROVE  stream'[sock[connected_clients[k].fd]] = <<>>
    <3>1. sock[connected_clients[k].fd] \in hup
      BY <1>1, <2>2 DEF RegisteredAsItself
    <3>2. stream[sock[connected_clients[k].fd]] = <<>>
      BY <2>2 DEF TornIsSpent
    <3>. QED  BY <2>1, <3>1, <3>2
  <2>. QED  BY <2>1, <2>2 DEF TornIsSpent
<1>4. ASSUME NEW p \in Procs, Start(p) \/ SubscriberStep(p) \/ UserStep(p) PROVE TornIsSpent'
  <2>1. UNCHANGED serverVars
    BY <1>4 DEF Start, SubscriberStep, UserStep
  <2>2. Push(p) \/ UNCHANGED <<sock, stream>>
    BY <1>4 DEF Start, SubscriberStep, UserStep, Connect, ConnectRefused, run_client, SendFails,
                Hangup, User, BeginCommand, UnknownWord, SubscribeCommand, UnsubscribeCommand,
                Command, netVars, ExitCommand, Kill
  <2>. QED  BY <1>2, <1>3, <2>1, <2>2 DEF serverVars, listVars
<1>5. CASE \/ \E cmd \in Commands : TypeCommand(cmd)
           \/ \E t \in Trailers : TypeTrailer(t)
           \/ \E topic \in Topics : SendDatagram(topic)
  BY <1>2, <1>5 DEF TypeCommand, TypeTrailer, SendDatagram, serverVars, listVars
<1>6. CASE UNCHANGED vars
  BY <1>2, <1>6 DEF vars, netVars, serverVars, listVars
<1>. QED  BY <1>1, <1>4, <1>5, <1>6, ServerKeepsTorn DEF Next

-----------------------------------------------------------------------------
(* The server's steps.                                                     *)

LEMMA FlightType ==
  ASSUME IInv, NEW p \in Procs
  PROVE  /\ stream[p] \in Seq(TCP_ctos_msg) /\ out[p] \in Seq(TCP_ctos_msg)
         /\ Flight(p) \in Seq(TCP_ctos_msg)
         /\ Len(stream[p]) \in Nat /\ Len(out[p]) \in Nat
         /\ Len(Flight(p)) = Len(stream[p]) + Len(out[p])
         /\ \A j \in 1 .. Len(stream[p]) + Len(out[p]) :
               Flight(p)[j] = IF j <= Len(stream[p]) THEN stream[p][j]
                              ELSE out[p][j - Len(stream[p])]
BY ConcatProperties, LenProperties DEF Flight, IInv, TypeOK, SocketsTypeOK, SubscriberTypeOK

\* A whole packet received is the first in flight.
LEMMA FlightRest ==
  ASSUME IInv, IInv', NEW p \in Procs, p \notin hup, NEW m \in recv_packet(p), UNCHANGED out,
         stream'[p] = SubSeq(stream[p], Segments + 1, Len(stream[p]))
  PROVE  /\ m \in TCP_ctos_msg /\ m = Flight(p)[1]
         /\ Len(Flight(p)) = Segments + Len(Flight(p)')
         /\ \A j \in 1 .. Len(Flight(p)') : Flight(p)'[j] = Flight(p)[Segments + j]
<1>. DEFINE s == stream[p]
            o == out[p]
            r == stream'[p]
            f == Flight(p)
            g == Flight(p)'
<1>1. /\ s \in Seq(TCP_ctos_msg) /\ Len(s) \in Nat /\ Len(o) \in Nat
      /\ Len(f) = Len(s) + Len(o)
      /\ \A j \in 1 .. Len(s) + Len(o) : f[j] = IF j <= Len(s) THEN s[j] ELSE o[j - Len(s)]
  BY FlightType
<1>2. /\ r \in Seq(TCP_ctos_msg) /\ o \in Seq(TCP_ctos_msg) /\ g = r \o o
  BY FlightType DEF Flight, IInv, TypeOK, SocketsTypeOK
<1>3. /\ Len(r) \in Nat /\ Len(g) = Len(r) + Len(o)
      /\ \A j \in 1 .. Len(r) + Len(o) : g[j] = IF j <= Len(r) THEN r[j] ELSE o[j - Len(r)]
  BY <1>2, ConcatProperties, LenProperties
<1>4. Segments \in Nat \ {0} /\ Len(s) >= Segments /\ m = Head(s)
  BY SocketsAssumption DEF recv_packet
<1>5. /\ Len(r) = Len(s) - Segments
      /\ \A j \in 1 .. Len(s) - Segments : r[j] = s[Segments + j]
  <2>. HIDE DEF s
  <2>1. /\ Segments + 1 \in Int /\ Len(s) \in Int /\ Segments + 1 >= 1
        /\ Len(s) - (Segments + 1) + 1 = Len(s) - Segments
    BY <1>1, <1>4
  <2>2. \A j \in Segments + 1 .. Len(s) : s[j] \in TCP_ctos_msg
    BY <1>1, <2>1, ElementOfSeq
  <2>3. r = SubSeq(s, Segments + 1, Len(s))
    BY DEF s
  <2>. HIDE DEF r
  <2>4. /\ Len(SubSeq(s, Segments + 1, Len(s))) =
              IF Segments + 1 <= Len(s) THEN Len(s) - (Segments + 1) + 1 ELSE 0
        /\ \A j \in 1 .. Len(s) - (Segments + 1) + 1 :
              SubSeq(s, Segments + 1, Len(s))[j] = s[(Segments + 1) + j - 1]
    <3>1. Segments + 1 \in Int /\ Len(s) \in Int
      BY <2>1
    <3>. QED  BY <2>2, <3>1, SubSeqProperties
  <2>5. \A j \in Int : (Segments + 1) + j - 1 = Segments + j
    BY <1>4
  <2>6. Len(r) = Len(s) - Segments
    BY <1>1, <1>4, <2>3, <2>4
  <2>7. ASSUME NEW j \in 1 .. Len(s) - Segments PROVE r[j] = s[Segments + j]
    <3>1. j \in 1 .. Len(s) - (Segments + 1) + 1 /\ j \in Int
      BY <2>1
    <3>2. r[j] = s[(Segments + 1) + j - 1]
      BY <2>3, <2>4, <3>1
    <3>. QED  BY <2>5, <3>1, <3>2
  <2>. QED  BY <2>6, <2>7
<1>6. m \in TCP_ctos_msg /\ m = f[1]
  <2>. HIDE DEF s, o, f
  <2>1. 1 \in 1 .. Len(s) /\ 1 \in 1 .. Len(s) + Len(o) /\ 1 <= Len(s)
    BY <1>1, <1>4
  <2>2. f[1] = s[1] /\ s # <<>>
    BY <1>1, <2>1, EmptySeq
  <2>3. Head(s) = s[1] /\ Head(s) \in TCP_ctos_msg
    BY <1>1, <2>2, HeadTailProperties
  <2>. QED  BY <1>4, <2>2, <2>3
<1>. HIDE DEF s, o, r, f, g
<1>7. Len(f) = Segments + Len(g)
  BY <1>1, <1>3, <1>4, <1>5
<1>8. ASSUME NEW j \in 1 .. Len(g) PROVE g[j] = f[Segments + j]
  <2>1. j \in 1 .. Len(r) + Len(o) /\ Segments + j \in 1 .. Len(s) + Len(o)
    BY <1>1, <1>3, <1>4, <1>5
  <2>2. CASE j <= Len(r)
    <3>1. Segments + j <= Len(s) /\ j \in 1 .. Len(s) - Segments
      BY <1>1, <1>3, <1>4, <1>5, <2>2
    <3>. QED  BY <1>1, <1>3, <1>5, <2>1, <2>2, <3>1
  <2>3. CASE ~(j <= Len(r))
    <3>1. ~(Segments + j <= Len(s)) /\ (Segments + j) - Len(s) = j - Len(r)
      BY <1>1, <1>3, <1>4, <1>5, <2>3
    <3>. QED  BY <1>1, <1>3, <2>1, <2>3, <3>1
  <2>. QED  BY <2>2, <2>3
<1>. QED  BY <1>6, <1>7, <1>8 DEF f, g

\* A packet of p's is carried out.
LEMMA OwnMessage ==
  ASSUME IdentityInv, IdentityInv', NEW p \in Procs, Balanced(p), ServerStep, Alone(p)',
         NEW i \in Slots, NEW fd \in ClientFds, sock[fd] = p, TCP_message(i, fd)
  PROVE  /\ \A t \in Topics : Carries(t, Count(t, IdOf[p])', Flight(p)', 2 * ledger'[p][t])
         /\ ~Unregistered(p)'
<1>1. /\ IInv /\ IdInv /\ RegisteredAsItself /\ IInv' /\ IdInv' /\ srv' = "running"
      /\ UNCHANGED <<out, hup, ledger>> /\ p \notin hup
  BY ServerTakes DEF IdentityInv, Alone, ServerStep, subscriberVars
<1>2. /\ ClientEvent(i, fd) /\ srv = "running" /\ conn[p] = "accepted"
      /\ ClientIdx(fd) \in 1 .. Len(connected_clients) /\ connected_clients[ClientIdx(fd)].fd = fd
      /\ ClientIdx(fd) # 0
  <2>1. ClientEvent(i, fd) /\ \A n \in Nat : 0 \notin 1 .. n
    BY DEF TCP_message
  <2>2. Len(connected_clients) \in Nat
    BY <1>1, LenProperties DEF IInv, TypeOK, ServerTypeOK
  <2>. QED  BY <1>1, <2>1, <2>2, ClientOf
<1>3. PICK k \in 1 .. Len(connected_clients) : k = ClientIdx(fd)
  BY <1>2
<1>. DEFINE node == connected_clients[k]
<1>4. /\ node \in client_node(ClientFds, Names) /\ node.fd = fd
      /\ \A j \in 1 .. Len(connected_clients) : sock[connected_clients[j].fd] = p => j = k
      /\ TCP_server_is_new_connection(fd) <=> node.state = CLIENT_STATE_NEW
  <2>1. \A j \in 1 .. Len(connected_clients) : sock[connected_clients[j].fd] = p => j = k
    BY <1>1, <1>2, <1>3, DistinctMembers DEF Member
  <2>. QED  BY <1>1, <1>2, <1>3, <2>1, DistinctMembers DEF TCP_server_is_new_connection
<1>5. PICK m \in recv_packet(p) :
        \/ RegisterClient(i, fd, m)
        \/ RejectClient(i, fd, m)
        \/ TCP_server_subscribe(i, fd, m)
        \/ TCP_server_unsubscribe(i, fd, m)
        \/ RepeatedNew(i, fd, m)
  BY DEF TCP_message
<1>6. ~RejectClient(i, fd, m)
  BY <1>1, <1>2, CloseOnlyCloses DEF RejectClient, Alone
<1>7. Received(i, fd)
  BY <1>1, <1>5, <1>6 DEF RegisterClient, TCP_server_subscribe, TCP_server_unsubscribe,
                          RepeatedNew, ServerEnds
<1>8. /\ stream'[p] = SubSeq(stream[p], Segments + 1, Len(stream[p]))
      /\ UNCHANGED <<conn, sock>>
  BY <1>1, <1>7 DEF Received, recv_rest, IInv, TypeOK, SocketsTypeOK
<1>9. /\ m \in TCP_ctos_msg /\ m = Flight(p)[1]
      /\ Len(Flight(p)) = Segments + Len(Flight(p)')
      /\ \A j \in 1 .. Len(Flight(p)') : Flight(p)'[j] = Flight(p)[Segments + j]
  BY <1>1, <1>8, FlightRest
<1>10. m.payload # EmptyString /\ m \in Packet
  BY <1>1, <1>9, CutsAssumption, PacketType DEF TCP_ctos_msg
<1>11. Alone(p)
  BY <1>1, <1>2 DEF Alone
<1>12. /\ \A t \in Topics : Carries(t, Count(t, IdOf[p]), Flight(p), 2 * ledger[p][t])
       /\ node.state = CLIENT_STATE_NEW => m.msg_type = "TCP_MSG_NEW"
  BY <1>4, <1>9, <1>11 DEF Balanced, Unregistered, GivesId
<1>13. RegisterClient(i, fd, m) => m.msg_type = "TCP_MSG_NEW"
  BY <1>4, <1>12 DEF RegisterClient
<1>14. ASSUME NEW t \in Topics
       PROVE  Count(t, IdOf[p])' = Effect(t, m, Count(t, IdOf[p]))
  <2>1. CASE RegisterClient(i, fd, m) \/ RepeatedNew(i, fd, m)
    <3>1. m.msg_type = "TCP_MSG_NEW" /\ UNCHANGED subscriptions
      BY <1>13, <2>1 DEF RegisterClient, RepeatedNew
    <3>2. Count(t, IdOf[p])' = Count(t, IdOf[p])
      BY <3>1 DEF Count
    <3>. QED  BY <3>1, <3>2 DEF Effect
  <2>2. CASE TCP_server_subscribe(i, fd, m) \/ TCP_server_unsubscribe(i, fd, m)
    <3>1. node.state # CLIENT_STATE_NEW
      BY <1>4, <2>2 DEF TCP_server_subscribe, TCP_server_unsubscribe
    <3>2. node.id = IdOf[p]
      BY <1>1, <1>2, <1>3, <1>4, <3>1 DEF RegisteredAsItself, client_node
    <3>. QED  BY <1>1, <1>2, <1>3, <1>10, <2>2, <3>2, CommandCounts
  <2>. QED  BY <1>5, <1>6, <2>1, <2>2
<1>15. ASSUME NEW t \in Topics
       PROVE  Carries(t, Count(t, IdOf[p])', Flight(p)', 2 * ledger'[p][t])
  <2>1. Flight(p) \in Seq(TCP_ctos_msg) /\ Flight(p)' \in Seq(TCP_ctos_msg)
    <3>1. stream'[p] \o out'[p] \in Seq(TCP_ctos_msg)
      BY <1>1, ConcatProperties DEF IInv, TypeOK, SocketsTypeOK, SubscriberTypeOK
    <3>. QED  BY <1>1, <3>1, FlightType DEF Flight
  <2>2. Carries(t, Effect(t, Flight(p)[1], Count(t, IdOf[p])), Flight(p)', 2 * ledger[p][t])
    BY <1>9, <1>12, <2>1, CarriesRest
  <2>. QED  BY <1>1, <1>9, <1>14, <2>2
<1>16. ~Unregistered(p)'
  <2>1. SUFFICES ASSUME NEW j \in 1 .. Len(connected_clients'),
                        sock'[connected_clients'[j].fd] = p,
                        connected_clients'[j].state = CLIENT_STATE_NEW
                 PROVE  FALSE
    BY <1>2, <1>8 DEF Unregistered
  <2>2. CASE RegisterClient(i, fd, m)
    <3>1. /\ Len(connected_clients') = Len(connected_clients)
          /\ connected_clients'[k].id = m.payload
          /\ \A l \in 1 .. Len(connected_clients) :
                l # k => connected_clients'[l] = connected_clients[l]
      BY <1>1, <1>2, <1>3, <1>10, <1>13, <2>2, AfterRegister
    <3>2. j = k
      BY <1>4, <1>8, <2>1, <3>1
    <3>. QED  BY <1>1, <1>10, <2>1, <3>1, <3>2 DEF IdInv, NewHasNoId
  <2>3. CASE ~RegisterClient(i, fd, m)
    <3>1. UNCHANGED connected_clients /\ ~TCP_server_is_new_connection(fd)
      BY <1>1, <1>5, <1>6, <2>3 DEF TCP_server_subscribe, TCP_server_unsubscribe, RepeatedNew, ServerEnds
    <3>. QED  BY <1>4, <1>8, <2>1, <3>1
  <2>. QED  BY <2>2, <2>3
<1>. QED  BY <1>15, <1>16

\* The subscriptions of p stay when another's packet is handled.
LEMMA OthersMessage ==
  ASSUME IdentityInv, TornIsSpent, NEW p \in Procs, [Next]_vars, srv' = "running",
         \A q \in Procs \ {p} : IdOf[q] # IdOf[p],
         \A i \in Slots, fd \in ClientFds : TCP_message(i, fd) => sock[fd] # p,
         NEW t
  PROVE  Count(t, IdOf[p])' = Count(t, IdOf[p])
<1>1. IInv /\ IdInv
  BY DEF IdentityInv
<1>2. CASE UNCHANGED subscriptions
  BY <1>2 DEF Count
<1>3. CASE subscriptions' # subscriptions
  <2>1. PICK i \in Slots, fd \in ClientFds :
          /\ ClientEvent(i, fd)
          /\ \E m \in recv_packet(sock[fd]) :
                TCP_server_subscribe(i, fd, m) \/ TCP_server_unsubscribe(i, fd, m)
    BY <1>3, OthersLeaveList
  <2>2. PICK m \in recv_packet(sock[fd]) :
          TCP_server_subscribe(i, fd, m) \/ TCP_server_unsubscribe(i, fd, m)
    BY <2>1
  <2>3. sock[fd] # p
    BY <2>1 DEF TCP_message
  <2>4. /\ srv = "running" /\ sock[fd] \in Procs /\ m \in Packet
        /\ connected_clients[ClientIdx(fd)].fd = fd
    BY <1>1, <2>1, ClientOf, PacketType
  <2>5. PICK k \in 1 .. Len(connected_clients) : k = ClientIdx(fd)
    BY <1>1, <2>1, ClientOf
  <2>6. connected_clients[k].state = CLIENT_STATE_CONNECTED
    <3>1. connected_clients[k] \in client_node(ClientFds, Names)
      BY <1>1, <2>4, DistinctMembers
    <3>2. connected_clients[k].state # CLIENT_STATE_NEW
      BY <1>1, <2>1, <2>2, <2>5, Named
         DEF TCP_server_subscribe, TCP_server_unsubscribe, TCP_server_is_new_connection
    <3>. QED  BY <3>1, <3>2 DEF client_node
  <2>7. connected_clients[k].id # IdOf[p]
    <3>1. stream[sock[fd]] # <<>>
      BY <1>1, <2>2, <2>4, NoMore
    <3>. QED  BY <2>3, <2>4, <2>5, <2>6, <3>1 DEF TornIsSpent
  <2>. QED  BY <1>1, <2>1, <2>2, <2>4, <2>5, <2>7, CommandCounts
<1>. QED  BY <1>2, <1>3

LEMMA ServerKeepsBalance ==
  ASSUME IdentityInv, IdentityInv', TornIsSpent, NEW p \in Procs, Balanced(p), ServerStep
  PROVE  Balanced(p)'
<1>1. SUFFICES ASSUME Alone(p)'
               PROVE  /\ \A t \in Topics :
                            Carries(t, Count(t, IdOf[p])', Flight(p)', 2 * ledger'[p][t])
                      /\ Unregistered(p)' => GivesId(Flight(p)')
  BY BalancedAfter
<1>2. CASE \E i \in Slots, fd \in ClientFds : sock[fd] = p /\ TCP_message(i, fd)
  BY <1>1, <1>2, OwnMessage
<1>3. CASE ~\E i \in Slots, fd \in ClientFds : sock[fd] = p /\ TCP_message(i, fd)
  <2>1. /\ IInv /\ IdInv /\ IInv' /\ IdInv' /\ srv' = "running" /\ [Next]_vars
        /\ UNCHANGED <<out, hup, ledger>> /\ p \notin hup
        /\ conn'[p] \in {"none", "queued", "accepted"}
        /\ \A q \in Procs \ {p} : IdOf[q] # IdOf[p]
    BY <1>1, OnlyRunning, ServerTakes DEF IdentityInv, Alone, ServerStep, subscriberVars, Next
  <2>2. srv = "running" /\ (conn'[p] = conn[p] \/ (conn'[p] = "accepted" /\ conn[p] = "queued"))
    BY <2>1, ConnectionAfter
  <2>3. stream'[p] = stream[p]
    <3>1. \A i \in Slots, fd \in ClientFds : Disconnect(i, fd) => sock[fd] # p
      BY <2>1 DEF Disconnect
    <3>. QED  BY <1>3, <2>1, <3>1, ConnectionAfter
  <2>4. Flight(p)' = Flight(p)
    BY <2>1, <2>3 DEF Flight
  <2>5. \A t \in Topics : Count(t, IdOf[p])' = Count(t, IdOf[p])
    BY <1>3, <2>1, OthersMessage
  <2>6. Alone(p)
    BY <2>1, <2>2 DEF Alone
  <2>7. ASSUME Unregistered(p)' PROVE Unregistered(p)
    <3>1. CASE conn'[p] = "queued"
      BY <2>2, <3>1 DEF Unregistered
    <3>2. CASE conn'[p] # "queued"
      <4>1. PICK k \in 1 .. Len(connected_clients') :
              /\ sock'[connected_clients'[k].fd] = p
              /\ connected_clients'[k].state = CLIENT_STATE_NEW
        BY <2>7, <3>2 DEF Unregistered
      <4>2. connected_clients'[k].id = EmptyString
        BY <2>1, <4>1 DEF IdInv, NewHasNoId
      <4>3. \/ \E j \in 1 .. Len(connected_clients) :
                  /\ connected_clients'[k] = connected_clients[j]
                  /\ sock'[connected_clients[j].fd] = sock[connected_clients[j].fd]
            \/ conn[sock'[connected_clients'[k].fd]] = "queued"
        BY <2>1, <4>1, <4>2, NodesAfter
      <4>. QED  BY <4>1, <4>3 DEF Unregistered
    <3>. QED  BY <3>1, <3>2
  <2>. QED  BY <2>1, <2>4, <2>5, <2>6, <2>7 DEF Balanced
<1>. QED  BY <1>2, <1>3

-----------------------------------------------------------------------------
(* The other steps.                                                        *)

\* Nothing of p changes.
LEMMA Untroubled ==
  ASSUME NEW p \in Procs, Balanced(p),
         UNCHANGED <<srv, connected_clients, sock, subscriptions>>, p \notin hup' => p \notin hup,
         stream'[p] = stream[p], out'[p] = out[p], conn'[p] = conn[p], ledger'[p] = ledger[p]
  PROVE  Balanced(p)'
<1>1. /\ Flight(p)' = Flight(p) /\ (Alone(p)' => Alone(p)) /\ (Unregistered(p)' => Unregistered(p))
      /\ \A t \in Topics : Count(t, IdOf[p])' = Count(t, IdOf[p])
  BY DEF Flight, Alone, Unregistered, Count
<1>2. Alone(p)' => /\ \A t \in Topics : Carries(t, Count(t, IdOf[p])', Flight(p)', 2 * ledger'[p][t])
                   /\ Unregistered(p)' => GivesId(Flight(p)')
  BY <1>1 DEF Balanced
<1>. QED  BY <1>2, BalancedAfter

\* The packet m is sent, twice, by a run that has nothing left to send.
LEMMA FlightMore ==
  ASSUME IInv, NEW p \in Procs, NEW m \in TCP_ctos_msg, out[p] = <<>>, out'[p] = send_all(m),
         stream'[p] = stream[p]
  PROVE  /\ Flight(p) \in Seq(TCP_ctos_msg) /\ Flight(p)' \in Seq(TCP_ctos_msg)
         /\ Len(Flight(p)') = Len(Flight(p)) + 2 * Segments
         /\ \A j \in 1 .. Len(Flight(p)) : Flight(p)'[j] = Flight(p)[j]
         /\ \A j \in Len(Flight(p)) + 1 .. Len(Flight(p)) + 2 * Segments : Flight(p)'[j] = m
<1>. DEFINE s == stream[p]
            o == send_all(m)
            d == 2 * Segments
<1>1. s \in Seq(TCP_ctos_msg) /\ o \in Seq(TCP_ctos_msg) /\ Len(s) \in Nat
  BY FlightType, SendAllType
<1>2. Flight(p) = s /\ Flight(p)' = s \o o
  BY <1>1, ConcatEmptySeq DEF Flight
<1>3. d \in Nat /\ Len(o) = d /\ \A j \in 1 .. d : o[j] = m
  <2>1. d \in Nat
    BY SocketsAssumption
  <2>. QED  BY <2>1 DEF send_all
<1>. HIDE DEF s, o, d
<1>4. /\ s \o o \in Seq(TCP_ctos_msg) /\ Len(s \o o) = Len(s) + d
      /\ \A j \in 1 .. Len(s) + d : (s \o o)[j] = IF j <= Len(s) THEN s[j] ELSE o[j - Len(s)]
  BY <1>1, <1>3, ConcatProperties
<1>5. \A j \in 1 .. Len(s) : (s \o o)[j] = s[j]
  <2>1. \A j \in 1 .. Len(s) : j \in 1 .. Len(s) + d /\ j <= Len(s)
    BY <1>1, <1>3
  <2>. QED  BY <1>4, <2>1
<1>6. ASSUME NEW j \in Len(s) + 1 .. Len(s) + d PROVE (s \o o)[j] = m
  <2>1. j \in 1 .. Len(s) + d /\ ~(j <= Len(s)) /\ j - Len(s) \in 1 .. d
    BY <1>1, <1>3
  <2>. QED  BY <1>3, <1>4, <2>1
<1>7. \A j \in Len(s) + 1 .. Len(s) + d : (s \o o)[j] = m
  BY <1>6
<1>. QED  BY <1>1, <1>2, <1>4, <1>5, <1>7 DEF d

LEMMA ConnectKeepsBalance ==
  ASSUME IInv, RunsInv, NEW p \in Procs, Balanced(p), Connect(p), UNCHANGED serverVars
  PROVE  Balanced(p)'
<1>. DEFINE m == [msg_type |-> "TCP_MSG_NEW", payload |-> IdOf[p]]
<1>1. /\ out \in [Procs -> Seq(TCP_ctos_msg)] /\ m \in TCP_ctos_msg /\ m.msg_type = "TCP_MSG_NEW"
  BY SubscriberAssumption DEF IInv, TypeOK, SubscriberTypeOK, TCP_ctos_msg
<1>2. /\ out[p] = <<>> /\ stream[p] = <<>> /\ conn[p] = "none"
      /\ out' = [out EXCEPT ![p] = send_all(m)] /\ UNCHANGED <<stream, hup, ledger, subscriptions, srv>>
  BY DEF Connect, Started, RunsInv, IInv, QueueAgrees, serverVars, listVars
<1>. HIDE DEF m
<1>3. /\ Flight(p) \in Seq(TCP_ctos_msg) /\ Flight(p)' \in Seq(TCP_ctos_msg)
      /\ Len(Flight(p)') = Len(Flight(p)) + 2 * Segments
      /\ \A j \in 1 .. Len(Flight(p)) : Flight(p)'[j] = Flight(p)[j]
      /\ \A j \in Len(Flight(p)) + 1 .. Len(Flight(p)) + 2 * Segments : Flight(p)'[j] = m
  BY <1>1, <1>2, FlightMore
<1>4. ASSUME Alone(p)', NEW t \in Topics
      PROVE  Carries(t, Count(t, IdOf[p])', Flight(p)', 2 * ledger'[p][t])
  <2>1. Carries(t, Count(t, IdOf[p]), Flight(p), 2 * ledger[p][t])
    BY <1>2, <1>4 DEF Alone, Balanced
  <2>2. Carries(t, Count(t, IdOf[p]), Flight(p)', Effect(t, m, Effect(t, m, 2 * ledger[p][t])))
    BY <1>3, <2>1, CarriesMore
  <2>3. \A x : Effect(t, m, x) = x
    BY <1>1 DEF Effect
  <2>4. Count(t, IdOf[p])' = Count(t, IdOf[p])
    BY <1>2 DEF Count
  <2>. QED  BY <1>2, <2>2, <2>3, <2>4
<1>5. GivesId(Flight(p)')
  <2>1. Len(Flight(p)) = 0 /\ Len(<<>>) = 0
    <3>1. Flight(p) = <<>>
      BY <1>2 DEF Flight
    <3>. QED  BY <3>1
  <2>2. 1 \in Len(Flight(p)) + 1 .. Len(Flight(p)) + 2 * Segments /\ Len(Flight(p)') # 0
    BY <1>3, <2>1, SocketsAssumption
  <2>. QED  BY <1>1, <1>3, <2>1, <2>2 DEF GivesId
<1>. QED  BY <1>4, <1>5, BalancedAfter

LEMMA CommandKeepsBalance ==
  ASSUME IInv, NEW p \in Procs, Balanced(p), UNCHANGED serverVars, NEW topic \in Topics,
         SubscribeCommand(p, topic) \/ UnsubscribeCommand(p, topic)
  PROVE  Balanced(p)'
<1>1. /\ out \in [Procs -> Seq(TCP_ctos_msg)] /\ ledger \in [Procs -> [Topics -> Nat]]
  BY DEF IInv, TypeOK, SubscriberTypeOK
<1>2. PICK m \in TCP_ctos_msg, count \in Nat :
        /\ m.payload = topic
        /\ \/ m.msg_type = "TCP_MSG_SUBSCRIBE" /\ count = ledger[p][topic] + 1
           \/ /\ m.msg_type = "TCP_MSG_UNSUBSCRIBE"
              /\ count = IF ledger[p][topic] = 0 THEN 0 ELSE ledger[p][topic] - 1
        /\ out[p] = <<>> /\ out' = [out EXCEPT ![p] = send_all(m)]
        /\ ledger' = [ledger EXCEPT ![p][topic] = count]
        /\ UNCHANGED netVars
  <2>1. ledger[p][topic] \in Nat
    BY <1>1
  <2>2. CASE SubscribeCommand(p, topic)
    <3>. DEFINE m == [msg_type |-> "TCP_MSG_SUBSCRIBE", payload |-> topic]
    <3>1. m \in TCP_ctos_msg /\ m.payload = topic /\ m.msg_type = "TCP_MSG_SUBSCRIBE"
      BY DEF TCP_ctos_msg
    <3>2. /\ out[p] = <<>> /\ out' = [out EXCEPT ![p] = send_all(m)]
          /\ ledger' = [ledger EXCEPT ![p][topic] = ledger[p][topic] + 1] /\ UNCHANGED netVars
      BY <2>2 DEF SubscribeCommand, Command, Waiting
    <3>. HIDE DEF m
    <3>3. ledger[p][topic] + 1 \in Nat
      BY <2>1
    <3>. QED  BY <3>1, <3>2, <3>3
  <2>3. CASE UnsubscribeCommand(p, topic)
    <3>. DEFINE m == [msg_type |-> "TCP_MSG_UNSUBSCRIBE", payload |-> topic]
                count == IF ledger[p][topic] = 0 THEN 0 ELSE ledger[p][topic] - 1
    <3>1. m \in TCP_ctos_msg /\ m.payload = topic /\ m.msg_type = "TCP_MSG_UNSUBSCRIBE"
      BY DEF TCP_ctos_msg
    <3>2. /\ out[p] = <<>> /\ out' = [out EXCEPT ![p] = send_all(m)]
          /\ ledger' = [ledger EXCEPT ![p][topic] = count] /\ UNCHANGED netVars
      BY <2>3 DEF UnsubscribeCommand, Command, Waiting
    <3>3. count \in Nat
      BY <2>1
    <3>. HIDE DEF m
    <3>. QED  BY <3>1, <3>2, <3>3
  <2>. QED  BY <2>2, <2>3
<1>3. /\ Flight(p) \in Seq(TCP_ctos_msg) /\ Flight(p)' \in Seq(TCP_ctos_msg)
      /\ Len(Flight(p)') = Len(Flight(p)) + 2 * Segments
      /\ \A j \in 1 .. Len(Flight(p)) : Flight(p)'[j] = Flight(p)[j]
      /\ \A j \in Len(Flight(p)) + 1 .. Len(Flight(p)) + 2 * Segments : Flight(p)'[j] = m
  <2>1. out'[p] = send_all(m) /\ stream'[p] = stream[p]
    BY <1>1, <1>2 DEF netVars
  <2>. QED  BY <1>2, <2>1, FlightMore
<1>4. ASSUME Alone(p)' PROVE Alone(p)
  BY <1>2, <1>4 DEF Alone, netVars, serverVars
<1>5. ASSUME Alone(p)', NEW t \in Topics
      PROVE  Carries(t, Count(t, IdOf[p])', Flight(p)', 2 * ledger'[p][t])
  <2>1. Carries(t, Count(t, IdOf[p]), Flight(p), 2 * ledger[p][t])
    BY <1>4, <1>5 DEF Balanced
  <2>2. Carries(t, Count(t, IdOf[p]), Flight(p)', Effect(t, m, Effect(t, m, 2 * ledger[p][t])))
    BY <1>3, <2>1, CarriesMore
  <2>3. Count(t, IdOf[p])' = Count(t, IdOf[p])
    BY DEF Count, serverVars, listVars
  <2>4. Effect(t, m, Effect(t, m, 2 * ledger[p][t])) = 2 * ledger'[p][t]
    <3>. DEFINE x == ledger[p][t]
    <3>1. x \in Nat
      BY <1>1
    <3>2. ledger'[p][t] = IF t = topic THEN count ELSE x
      BY <1>1, <1>2
    <3>3. CASE t # topic
      BY <1>2, <3>2, <3>3 DEF Effect
    <3>4. CASE t = topic /\ m.msg_type = "TCP_MSG_SUBSCRIBE"
      <4>1. \A y : Effect(t, m, y) = y + 1
        BY <1>2, <3>4 DEF Effect
      <4>2. count = x + 1
        BY <1>2, <3>4
      <4>. HIDE DEF x
      <4>3. 2 * x + 1 + 1 = 2 * (x + 1)
        BY <3>1
      <4>. QED  BY <3>2, <3>4, <4>1, <4>2, <4>3 DEF x
    <3>5. CASE t = topic /\ m.msg_type = "TCP_MSG_UNSUBSCRIBE"
      <4>1. \A y : Effect(t, m, y) = IF y > 0 THEN y - 1 ELSE y
        BY <1>2, <3>5 DEF Effect
      <4>2. count = IF x = 0 THEN 0 ELSE x - 1
        BY <1>2, <3>5
      <4>. HIDE DEF x
      <4>3. x = 0 => 2 * x = 0 /\ 2 * count = 0 /\ ~(0 > 0)
        BY <3>1, <4>2
      <4>4. x # 0 => 2 * x > 0 /\ 2 * x - 1 > 0 /\ 2 * x - 1 - 1 = 2 * count
        BY <3>1, <4>2
      <4>. QED  BY <3>2, <3>5, <4>1, <4>3, <4>4 DEF x
    <3>. QED  BY <1>2, <3>3, <3>4, <3>5
  <2>. QED  BY <2>2, <2>3, <2>4
<1>6. ASSUME Alone(p)', Unregistered(p)' PROVE GivesId(Flight(p)')
  <2>1. Unregistered(p)
    BY <1>2, <1>6 DEF Unregistered, netVars, serverVars, listVars
  <2>2. GivesId(Flight(p))
    BY <1>4, <1>6, <2>1 DEF Balanced
  <2>3. Len(Flight(p)) \in Nat /\ Len(Flight(p)) # 0
    BY <1>3, <2>2, LenProperties, EmptySeq DEF GivesId
  <2>4. 1 \in 1 .. Len(Flight(p))
    BY <2>3
  <2>5. Flight(p)'[1] = Flight(p)[1] /\ Flight(p)' # <<>>
    <3>1. Len(Flight(p)') # 0 /\ Len(<<>>) = 0
      BY <1>3, <2>3, SocketsAssumption
    <3>. QED  BY <1>3, <2>4, <3>1
  <2>. QED  BY <2>2, <2>5 DEF GivesId
<1>. QED  BY <1>5, <1>6, BalancedAfter

\* A segment goes from the sender to the stream.
LEMMA PushKeepsBalance ==
  ASSUME IInv, NEW p \in Procs, Balanced(p), Push(p), UNCHANGED serverVars
  PROVE  Balanced(p)'
<1>1. /\ stream \in [Procs -> Seq(TCP_ctos_msg)] /\ out \in [Procs -> Seq(TCP_ctos_msg)]
      /\ conn \in [Procs -> ConnStates]
  BY DEF IInv, TypeOK, SocketsTypeOK, SubscriberTypeOK
<1>2. CASE conn[p] = "fin"
  <2>1. conn'[p] \in {"fin", "broken"}
    BY <1>1, <1>2 DEF Push
  <2>2. ~Alone(p)'
    BY <2>1 DEF Alone
  <2>. QED  BY <2>2, BalancedAfter
<1>3. CASE conn[p] # "fin"
  <2>. DEFINE s == stream[p]
              o == out[p]
  <2>1. /\ stream'[p] = Append(s, Head(o)) /\ out'[p] = Tail(o) /\ o # <<>>
        /\ UNCHANGED <<conn, hup, ledger, srv, sock, connected_clients, subscriptions>>
    BY <1>1, <1>3 DEF Push, serverVars, listVars
  <2>2. s \in Seq(TCP_ctos_msg) /\ o \in Seq(TCP_ctos_msg)
    BY <1>1
  <2>. HIDE DEF s, o
  <2>3. Append(s, Head(o)) \o Tail(o) = s \o o
    <3>1. /\ Head(o) = o[1] /\ Head(o) \in TCP_ctos_msg /\ Tail(o) \in Seq(TCP_ctos_msg)
          /\ Len(o) \in Nat /\ Len(o) >= 1 /\ Len(Tail(o)) = Len(o) - 1
          /\ \A j \in 1 .. Len(o) - 1 : Tail(o)[j] = o[j + 1]
      BY <2>1, <2>2, HeadTailProperties, LenProperties, EmptySeq
    <3>. DEFINE a == Append(s, Head(o))
                b == Tail(o)
    <3>2. /\ a \in Seq(TCP_ctos_msg) /\ Len(a) = Len(s) + 1 /\ a[Len(s) + 1] = o[1]
          /\ \A j \in 1 .. Len(s) : a[j] = s[j]
          /\ Len(s) \in Nat
      BY <2>2, <3>1, AppendProperties, LenProperties
    <3>3. /\ b \in Seq(TCP_ctos_msg) /\ Len(b) = Len(o) - 1
          /\ \A j \in 1 .. Len(o) - 1 : b[j] = o[j + 1]
      BY <3>1
    <3>. HIDE DEF a, b
    <3>4. /\ a \o b \in Seq(TCP_ctos_msg) /\ s \o o \in Seq(TCP_ctos_msg)
          /\ Len(a \o b) = Len(a) + Len(b) /\ Len(s \o o) = Len(s) + Len(o)
          /\ \A j \in 1 .. Len(a) + Len(b) : (a \o b)[j] = IF j <= Len(a) THEN a[j] ELSE b[j - Len(a)]
          /\ \A j \in 1 .. Len(s) + Len(o) : (s \o o)[j] = IF j <= Len(s) THEN s[j] ELSE o[j - Len(s)]
      BY <2>2, <3>2, <3>3, ConcatProperties
    <3>5. Len(a \o b) = Len(s \o o)
      BY <3>1, <3>2, <3>3, <3>4
    <3>6. ASSUME NEW j \in 1 .. Len(s \o o) PROVE (a \o b)[j] = (s \o o)[j]
      <4>1. j \in 1 .. Len(a) + Len(b) /\ j \in 1 .. Len(s) + Len(o)
        BY <3>1, <3>2, <3>3, <3>4
      <4>2. CASE j <= Len(s)
        <5>1. j <= Len(a) /\ j \in 1 .. Len(s)
          BY <3>2, <4>1, <4>2
        <5>. QED  BY <3>2, <3>4, <4>1, <4>2, <5>1
      <4>3. CASE j = Len(s) + 1
        <5>1. j <= Len(a) /\ ~(j <= Len(s)) /\ j - Len(s) = 1
          BY <3>2, <4>3
        <5>. QED  BY <3>2, <3>4, <4>1, <4>3, <5>1
      <4>4. CASE j > Len(s) + 1
        <5>1. /\ ~(j <= Len(a)) /\ ~(j <= Len(s)) /\ j - Len(a) \in 1 .. Len(o) - 1
              /\ (j - Len(a)) + 1 = j - Len(s)
          BY <3>1, <3>2, <3>3, <4>1, <4>4
        <5>2. (a \o b)[j] = b[j - Len(a)] /\ (s \o o)[j] = o[j - Len(s)]
          BY <3>4, <4>1, <5>1
        <5>3. b[j - Len(a)] = o[(j - Len(a)) + 1]
          BY <3>3, <5>1
        <5>. QED  BY <5>1, <5>2, <5>3
      <4>5. j <= Len(s) \/ j = Len(s) + 1 \/ j > Len(s) + 1
        BY <3>2, <4>1
      <4>. QED  BY <4>2, <4>3, <4>4, <4>5
    <3>7. a \o b = s \o o
      BY <3>4, <3>5, <3>6, SeqEqual
    <3>. QED  BY <3>7 DEF a, b
  <2>4. Flight(p)' = Flight(p)
    BY <2>1, <2>3 DEF Flight, s, o
  <2>5. /\ (Alone(p)' => Alone(p)) /\ (Unregistered(p)' => Unregistered(p)) /\ UNCHANGED ledger
        /\ \A t \in Topics : Count(t, IdOf[p])' = Count(t, IdOf[p])
    BY <2>1 DEF Alone, Unregistered, Count
  <2>6. Alone(p)' => /\ \A t \in Topics : Carries(t, Count(t, IdOf[p])', Flight(p)', 2 * ledger'[p][t])
                     /\ Unregistered(p)' => GivesId(Flight(p)')
    BY <2>4, <2>5 DEF Balanced
  <2>. QED  BY <2>6, BalancedAfter
<1>. QED  BY <1>2, <1>3

LEMMA OutsideKeepsBalance ==
  ASSUME IInv, RunsInv, NEW p \in Procs, Balanced(p),
         NEW q \in Procs, Start(q) \/ SubscriberStep(q) \/ UserStep(q)
  PROVE  Balanced(p)'
<1>1. UNCHANGED serverVars /\ UNCHANGED sock
  BY DEF Start, SubscriberStep, UserStep, Connect, ConnectRefused, run_client, Push, SendFails,
         Hangup, User, BeginCommand, UnknownWord, SubscribeCommand, UnsubscribeCommand,
         Command, netVars, ExitCommand, Kill
<1>2. CASE p # q
  <2>1. /\ stream \in [Procs -> Seq(TCP_ctos_msg)] /\ out \in [Procs -> Seq(TCP_ctos_msg)]
        /\ conn \in [Procs -> ConnStates] /\ ledger \in [Procs -> [Topics -> Nat]]
    BY DEF IInv, TypeOK, SocketsTypeOK, SubscriberTypeOK
  <2>2. ASSUME SubscriberEnds(q), UNCHANGED <<stream, conn>>
        PROVE  /\ stream'[p] = stream[p] /\ out'[p] = out[p] /\ conn'[p] = conn[p]
               /\ ledger'[p] = ledger[p] /\ (p \notin hup' => p \notin hup)
    BY <1>2, <2>1, <2>2 DEF SubscriberEnds
  <2>3. /\ stream'[p] = stream[p] /\ out'[p] = out[p] /\ conn'[p] = conn[p]
        /\ ledger'[p] = ledger[p] /\ (p \notin hup' => p \notin hup)
    <3>1. CASE Connect(q)
      BY <1>2, <2>1, <3>1 DEF Connect
    <3>2. CASE ConnectRefused(q) \/ SendFails(q) \/ Hangup(q) \/ ExitCommand(q) \/ Kill(q)
      BY <2>2, <3>2 DEF ConnectRefused, SendFails, Hangup, ExitCommand, Kill
    <3>3. CASE Push(q)
      BY <1>2, <2>1, <3>3 DEF Push
    <3>4. CASE \E topic \in Topics : SubscribeCommand(q, topic) \/ UnsubscribeCommand(q, topic)
      BY <1>2, <2>1, <3>4 DEF SubscribeCommand, UnsubscribeCommand, Command, netVars
    <3>5. CASE BeginCommand(q) \/ UnknownWord(q)
      BY <3>5 DEF BeginCommand, UnknownWord, netVars
    <3>. QED  BY <3>1, <3>2, <3>3, <3>4, <3>5 DEF Start, SubscriberStep, UserStep, run_client, User
  <2>. QED  BY <1>1, <2>3, Untroubled DEF serverVars, listVars
<1>3. CASE p = q
  <2>1. CASE Connect(p)
    BY <1>1, <2>1, ConnectKeepsBalance
  <2>2. CASE ConnectRefused(p) \/ SendFails(p) \/ Hangup(p) \/ ExitCommand(p) \/ Kill(p)
    <3>1. p \in hup'
      BY <2>2 DEF ConnectRefused, SendFails, Hangup, ExitCommand, Kill, SubscriberEnds
    <3>2. ~Alone(p)'
      BY <3>1 DEF Alone
    <3>. QED  BY <3>2, BalancedAfter
  <2>3. CASE Push(p)
    BY <1>1, <2>3, PushKeepsBalance
  <2>4. CASE \E topic \in Topics : SubscribeCommand(p, topic) \/ UnsubscribeCommand(p, topic)
    BY <1>1, <2>4, CommandKeepsBalance
  <2>5. CASE BeginCommand(p) \/ UnknownWord(p)
    <3>1. /\ UNCHANGED <<srv, connected_clients, sock, subscriptions>>
          /\ UNCHANGED <<hup, stream, out, conn, ledger>>
      BY <1>1, <2>5 DEF BeginCommand, UnknownWord, netVars, serverVars, listVars
    <3>. QED  BY <3>1, Untroubled
  <2>. QED  BY <1>3, <2>1, <2>2, <2>3, <2>4, <2>5 DEF Start, SubscriberStep, UserStep, run_client, User
<1>. QED  BY <1>2, <1>3

-----------------------------------------------------------------------------
SubscriptionsInv == IdentityInv /\ RunsInv /\ TornIsSpent /\ \A p \in Procs : Balanced(p)

LEMMA InitSubscriptions == Init => RunsInv /\ TornIsSpent /\ \A p \in Procs : Balanced(p)
<1>. SUFFICES ASSUME Init PROVE RunsInv /\ TornIsSpent /\ \A p \in Procs : Balanced(p)
  OBVIOUS
<1>1. RunsInv /\ TornIsSpent
  BY DEF Init, SocketsInit, SubscriberInit, ServerInit, RunsInv, TornIsSpent
<1>2. ASSUME NEW p \in Procs PROVE Balanced(p)
  <2>1. /\ stream[p] = <<>> /\ out[p] = <<>> /\ conn[p] = "none" /\ subscriptions = <<>>
        /\ connected_clients = <<>> /\ \A t \in Topics : ledger[p][t] = 0
    BY DEF Init, SocketsInit, SubscriberInit, ServerInit
  <2>2. Len(<<>>) = 0 /\ 1 .. 0 = {} /\ <<>> \o <<>> = <<>>
    OBVIOUS
  <2>3. Len(Flight(p)) = 0 /\ ~Unregistered(p)
    BY <2>1, <2>2 DEF Flight, Unregistered
  <2>4. ASSUME NEW t \in Topics PROVE Carries(t, Count(t, IdOf[p]), Flight(p), 2 * ledger[p][t])
    <3>1. Count(t, IdOf[p]) = 0
      <4>1. {k \in 1 .. Len(subscriptions) :
               subscriptions[k] = [topic |-> t, subscriber_id |-> IdOf[p]]} = {}
        BY <2>1, <2>2
      <4>. QED  BY <4>1, FS_EmptySet DEF Count
    <3>2. 2 * ledger[p][t] = 0
      BY <2>1
    <3>. QED  BY <2>3, <3>1, <3>2, CarriesNothing
  <2>. QED  BY <2>3, <2>4 DEF Balanced
<1>. QED  BY <1>1, <1>2

LEMMA NextKeepsBalance ==
  ASSUME SubscriptionsInv, IdentityInv', [Next]_vars, NEW p \in Procs
  PROVE  Balanced(p)'
<1>1. IInv /\ RunsInv /\ TornIsSpent /\ Balanced(p) /\ IdentityInv
  BY DEF SubscriptionsInv, IdentityInv
<1>2. CASE \/ \E cmd \in Commands : TypeCommand(cmd)
           \/ \E t \in Trailers : TypeTrailer(t)
           \/ \E topic \in Topics : SendDatagram(topic)
  <2>1. /\ UNCHANGED <<srv, connected_clients, sock, subscriptions>>
        /\ UNCHANGED <<hup, stream, out, conn, ledger>>
    BY <1>2 DEF TypeCommand, TypeTrailer, SendDatagram, serverVars, listVars, subscriberVars
  <2>. QED  BY <1>1, <2>1, Untroubled
<1>3. CASE UNCHANGED vars
  <2>1. /\ UNCHANGED <<srv, connected_clients, sock, subscriptions>>
        /\ UNCHANGED <<hup, stream, out, conn, ledger>>
    BY <1>3 DEF vars, netVars, serverVars, listVars, subscriberVars
  <2>. QED  BY <1>1, <2>1, Untroubled
<1>. QED  BY <1>1, <1>2, <1>3, ServerKeepsBalance, OutsideKeepsBalance DEF Next

\* Once all that a run sent is handled, the server has its subscriptions as its
\* commands left them, twice each (PubSub.SubscriptionsMatchCommands; send_all,
\* TCP_server_subscribe, TCP_server_unsubscribe, subscriptions_find).
THEOREM AlwaysMatchesCommands == Spec => []SubscriptionsMatchCommands
<1>1. SubscriptionsInv => SubscriptionsMatchCommands
  <2>1. SUFFICES ASSUME SubscriptionsInv, NEW p \in Procs, srv = "running", conn[p] = "accepted",
                        Waiting(p), stream[p] = <<>>, \A q \in Procs \ {p} : IdOf[q] # IdOf[p],
                        NEW t \in Topics
                 PROVE  Count(t, IdOf[p]) = 2 * ledger[p][t]
    BY DEF SubscriptionsMatchCommands
  <2>2. p \notin hup /\ Alone(p)
    BY <2>1 DEF SubscriptionsInv, RunsInv, Waiting, Alone
  <2>3. Carries(t, Count(t, IdOf[p]), Flight(p), 2 * ledger[p][t])
    BY <2>1, <2>2 DEF SubscriptionsInv, Balanced
  <2>4. Len(Flight(p)) = 0
    <3>1. <<>> \o <<>> = <<>> /\ Len(<<>>) = 0
      OBVIOUS
    <3>. QED  BY <2>1, <3>1 DEF Flight, Waiting
  <2>5. Count(t, IdOf[p]) \in Nat
    BY <2>1, ListType DEF SubscriptionsInv, IdentityInv
  <2>. QED  BY <2>3, <2>4, <2>5, CarriesNothing
<1>2. SubscriptionsInv /\ IdentityInv' /\ [Next]_vars
        => RunsInv' /\ TornIsSpent' /\ (\A p \in Procs : Balanced(p))'
  BY NextKeepsRuns, NextKeepsTorn, NextKeepsBalance DEF SubscriptionsInv, IdentityInv
<1>3. Init => RunsInv /\ TornIsSpent /\ \A p \in Procs : Balanced(p)
  BY InitSubscriptions
<1>. DEFINE Bal == \A p \in Procs : Balanced(p)
<1>4. Init => RunsInv /\ TornIsSpent /\ Bal
  BY <1>3
<1>5. IdentityInv /\ RunsInv /\ TornIsSpent /\ Bal /\ IdentityInv' /\ [Next]_vars
        => RunsInv' /\ TornIsSpent' /\ Bal'
  BY <1>2 DEF SubscriptionsInv
<1>6. IdentityInv /\ RunsInv /\ TornIsSpent /\ Bal => SubscriptionsMatchCommands
  BY <1>1 DEF SubscriptionsInv
<1>. HIDE DEF Bal
<1>. QED  BY <1>4, <1>5, <1>6, IdentityInductive, PTL DEF Spec

-----------------------------------------------------------------------------
(* What a run still has under way, which neither the server's recv nor the *)
(* run itself waits for in vain.                                           *)

UnderWay(p) == Len(stream[p]) + Len(out[p])

\* Of a run that is alive nothing but whole packets is under way, and at least
\* one, its id, as long as it is not accepted.
WholePackets ==
    srv = "running" =>
        \A p \in Procs :
            p \notin hup /\ conn[p] \in {"queued", "accepted"}
              => \E n \in Nat : UnderWay(p) = Before(n) /\ (conn[p] = "queued" => n # 0)

LEMMA BothParts ==
  ASSUME NEW s \in Seq(TCP_ctos_msg), NEW o \in Seq(TCP_ctos_msg)
  PROVE  Len(s) + Len(o) \in Nat /\ Len(s \o o) = Len(s) + Len(o)
<1>1. Len(s) \in Nat /\ Len(o) \in Nat
  BY LenProperties
<1>2. Len(s \o o) = Len(s) + Len(o)
  BY ConcatProperties
<1>. QED  BY <1>1, <1>2

LEMMA UnderWayType ==
  /\ IInv => \A p \in Procs : UnderWay(p) \in Nat /\ UnderWay(p) = Len(Flight(p))
  /\ IInv' => \A p \in Procs : UnderWay(p)' \in Nat /\ UnderWay(p)' = Len(Flight(p)')
<1>1. ASSUME IInv, NEW p \in Procs PROVE UnderWay(p) \in Nat /\ UnderWay(p) = Len(Flight(p))
  <2>1. stream[p] \in Seq(TCP_ctos_msg) /\ out[p] \in Seq(TCP_ctos_msg)
    BY <1>1 DEF IInv, TypeOK, SocketsTypeOK, SubscriberTypeOK
  <2>2. /\ Len(stream[p]) + Len(out[p]) \in Nat
        /\ Len(stream[p] \o out[p]) = Len(stream[p]) + Len(out[p])
    BY <2>1, BothParts, Zenon
  <2>. QED  BY <2>2, Zenon DEF UnderWay, Flight
<1>2. ASSUME IInv', NEW p \in Procs PROVE UnderWay(p)' \in Nat /\ UnderWay(p)' = Len(Flight(p)')
  <2>1. stream'[p] \in Seq(TCP_ctos_msg) /\ out'[p] \in Seq(TCP_ctos_msg)
    BY <1>2 DEF IInv, TypeOK, SocketsTypeOK, SubscriberTypeOK
  <2>2. /\ Len(stream'[p]) + Len(out'[p]) \in Nat
        /\ Len(stream'[p] \o out'[p]) = Len(stream'[p]) + Len(out'[p])
    BY <2>1, BothParts, Zenon
  <2>. QED  BY <2>2, Zenon DEF UnderWay, Flight
<1>. QED  BY <1>1, <1>2

\* If anything is, a packet is.
LEMMA AtLeastOne ==
  ASSUME NEW n \in Nat, n # 0
  PROVE  Before(n) >= Segments /\ \E l \in Nat : Before(n) = Before(l) + Segments
<1>1. PICK l \in Nat : n = l + 1
  <2>1. n - 1 \in Nat /\ n = (n - 1) + 1
    OBVIOUS
  <2>. QED  BY <2>1
<1>2. Before(l) \in Nat /\ Before(n) = Before(l) + Segments
  BY <1>1, Segmented
<1>. QED  BY <1>2, SocketsAssumption

\* The entries of the clients in the poller, each of a subscriber of its own.
LEMMA SlotsHoldClients ==
  ASSUME IInv, srv = "running"
  PROVE  /\ \A i \in Slots : i >= 3 /\ i < num_pollfds
               => /\ pollfds[i].fd \in ClientFds /\ sock[pollfds[i].fd] \in Procs
                  /\ conn[sock[pollfds[i].fd]] = "accepted"
         /\ \A i, j \in Slots :
               /\ i >= 3 /\ i < num_pollfds /\ j >= 3 /\ j < num_pollfds
               /\ sock[pollfds[i].fd] = sock[pollfds[j].fd]
               => i = j
<1>. DEFINE n == Len(connected_clients)
<1>1. /\ num_pollfds = 3 + n
      /\ \A k \in 1 .. n : pollfds[num_pollfds - k].fd = connected_clients[k].fd
  BY DEF IInv, EntriesAgree, PollerHoldsClients
<1>2. /\ n \in Nat
      /\ \A k \in 1 .. n : /\ connected_clients[k].fd \in ClientFds
                           /\ sock[connected_clients[k].fd] \in Procs
                           /\ conn[sock[connected_clients[k].fd]] = "accepted"
      /\ \A j, k \in 1 .. n :
            sock[connected_clients[j].fd] = sock[connected_clients[k].fd] => j = k
  BY DistinctMembers DEF Member, client_node
<1>3. ASSUME NEW i \in Slots, i >= 3, i < num_pollfds
      PROVE  /\ num_pollfds - i \in 1 .. n
             /\ pollfds[i].fd = connected_clients[num_pollfds - i].fd
  <2>1. num_pollfds - i \in 1 .. n /\ num_pollfds - (num_pollfds - i) = i
    BY <1>1, <1>2, <1>3 DEF Slots
  <2>. QED  BY <1>1, <2>1
<1>4. ASSUME NEW i \in Slots, NEW j \in Slots, i >= 3, i < num_pollfds, j >= 3, j < num_pollfds,
             sock[pollfds[i].fd] = sock[pollfds[j].fd]
      PROVE  i = j
  <2>1. num_pollfds - i = num_pollfds - j
    BY <1>2, <1>3, <1>4
  <2>. QED  BY <1>1, <1>2, <2>1 DEF Slots
<1>. QED  BY <1>2, <1>3, <1>4

\* A client that stays alive and connected takes a step of the server's to
\* have a whole packet received.
LEMMA LiveReceives ==
  ASSUME IInv, IInv', ServerStep, srv' = "running", NEW p \in Procs, p \notin hup,
         conn'[p] \in {"queued", "accepted"}
  PROVE  /\ conn[p] \in {"queued", "accepted"} /\ (conn'[p] = "queued" => conn[p] = "queued")
         /\ \/ UnderWay(p)' = UnderWay(p)
            \/ conn[p] = "accepted" /\ UnderWay(p) = UnderWay(p)' + Segments
<1>1. /\ UNCHANGED <<out, hup>> /\ srv = "running"
      /\ conn'[p] = conn[p] \/ (conn'[p] = "accepted" /\ conn[p] = "queued")
  BY ServerTakes, ConnectionAfter
<1>2. CASE stream'[p] = stream[p]
  BY <1>1, <1>2 DEF UnderWay
<1>3. CASE stream'[p] # stream[p]
  <2>1. PICK i \in Slots, fd \in ClientFds :
          sock[fd] = p /\ (Disconnect(i, fd) \/ TCP_message(i, fd))
    BY <1>3, ConnectionAfter
  <2>2. TCP_message(i, fd) /\ ClientEvent(i, fd)
    BY <2>1 DEF Disconnect, TCP_message
  <2>3. conn[p] = "accepted"
    BY <2>1, <2>2, ClientOf
  <2>4. PICK m \in recv_packet(p) :
          \/ RegisterClient(i, fd, m)
          \/ RejectClient(i, fd, m)
          \/ TCP_server_subscribe(i, fd, m)
          \/ TCP_server_unsubscribe(i, fd, m)
          \/ RepeatedNew(i, fd, m)
    BY <2>1, <2>2 DEF TCP_message
  <2>5. ~RejectClient(i, fd, m)
    BY <2>1, <2>2, CloseOnlyCloses DEF RejectClient
  <2>6. Received(i, fd)
    BY <2>4, <2>5 DEF RegisterClient, TCP_server_subscribe, TCP_server_unsubscribe,
                      RepeatedNew, ServerEnds
  <2>7. stream'[p] = SubSeq(stream[p], Segments + 1, Len(stream[p]))
    BY <2>1, <2>6 DEF Received, recv_rest, IInv, TypeOK, SocketsTypeOK
  <2>8. Len(Flight(p)) = Segments + Len(Flight(p)')
    BY <1>1, <2>4, <2>7, FlightRest
  <2>9. UnderWay(p) = Len(Flight(p)) /\ UnderWay(p)' = Len(Flight(p)') /\ UnderWay(p)' \in Nat
    BY UnderWayType
  <2>. QED  BY <1>1, <2>3, <2>8, <2>9, SocketsAssumption
<1>. QED  BY <1>1, <1>2, <1>3

LEMMA ServerKeepsWhole ==
  ASSUME IInv, IInv', WholePackets, ServerStep
  PROVE  WholePackets'
<1>1. SUFFICES ASSUME srv' = "running", NEW p \in Procs, p \notin hup',
                      conn'[p] \in {"queued", "accepted"}
               PROVE  \E n \in Nat : /\ UnderWay(p)' = Before(n)
                                     /\ conn'[p] = "queued" => n # 0
  BY DEF WholePackets, UnderWay, Before
<1>2. p \notin hup /\ srv = "running"
  BY <1>1, ServerTakes, ConnectionAfter
<1>3. /\ conn[p] \in {"queued", "accepted"} /\ (conn'[p] = "queued" => conn[p] = "queued")
      /\ \/ UnderWay(p)' = UnderWay(p)
         \/ conn[p] = "accepted" /\ UnderWay(p) = UnderWay(p)' + Segments
  BY <1>1, <1>2, LiveReceives
<1>4. PICK n \in Nat : UnderWay(p) = Before(n) /\ (conn[p] = "queued" => n # 0)
  BY <1>2, <1>3 DEF WholePackets
<1>5. CASE UnderWay(p)' = UnderWay(p)
  BY <1>3, <1>4, <1>5
<1>6. CASE conn[p] = "accepted" /\ UnderWay(p) = UnderWay(p)' + Segments
  <2>. DEFINE after == UnderWay(p)'
  <2>1. after \in Nat
    BY UnderWayType
  <2>2. Before(n) = after + Segments
    BY <1>4, <1>6
  <2>. HIDE DEF after
  <2>3. n # 0
    BY <2>1, <2>2, Segmented, SocketsAssumption
  <2>4. PICK l \in Nat : Before(n) = Before(l) + Segments
    BY <2>3, AtLeastOne
  <2>5. Before(l) \in Nat
    BY Segmented
  <2>6. after = Before(l)
    BY <2>1, <2>2, <2>4, <2>5, SocketsAssumption
  <2>. QED  BY <1>3, <1>6, <2>6 DEF after
<1>. QED  BY <1>3, <1>5, <1>6

\* The steps of runs and users: a run ends, begins, sends a segment, has a
\* packet to send, or nothing of it changes.
LEMMA OutsideSends ==
  ASSUME IInv, RunsInv, NEW q \in Procs, Start(q) \/ SubscriberStep(q) \/ UserStep(q),
         NEW p \in Procs
  PROVE  /\ UNCHANGED <<serverVars, sock>> /\ (p \in hup => p \in hup')
         /\ \/ p \in hup'
            \/ conn[p] \notin {"queued", "accepted"} /\ conn'[p] \notin {"queued", "accepted"}
            \/ conn[p] = "none" /\ conn'[p] = "queued" /\ UnderWay(p)' = 2 * Segments
            \/ conn'[p] = conn[p] /\ UnderWay(p)' \in {UnderWay(p), UnderWay(p) + 2 * Segments}
<1>. DEFINE Same(r) == /\ stream'[r] = stream[r] /\ out'[r] = out[r] /\ conn'[r] = conn[r]
                       /\ (r \in hup => r \in hup')
            Goal == /\ p \in hup => p \in hup'
                    /\ \/ p \in hup'
                       \/ /\ conn[p] \notin {"queued", "accepted"}
                          /\ conn'[p] \notin {"queued", "accepted"}
                       \/ conn[p] = "none" /\ conn'[p] = "queued" /\ UnderWay(p)' = 2 * Segments
                       \/ /\ conn'[p] = conn[p]
                          /\ UnderWay(p)' \in {UnderWay(p), UnderWay(p) + 2 * Segments}
<1>1. UNCHANGED <<serverVars, sock>>
  BY DEF Start, SubscriberStep, UserStep, Connect, ConnectRefused, run_client, Push, SendFails,
         Hangup, User, BeginCommand, UnknownWord, SubscribeCommand, UnsubscribeCommand,
         Command, netVars, ExitCommand, Kill
<1>. SUFFICES Goal
  BY <1>1
<1>2. /\ stream \in [Procs -> Seq(TCP_ctos_msg)] /\ out \in [Procs -> Seq(TCP_ctos_msg)]
      /\ conn \in [Procs -> ConnStates]
  BY DEF IInv, TypeOK, SocketsTypeOK, SubscriberTypeOK
<1>3. Same(p) => Goal
  BY DEF UnderWay
<1>4. \A m : Len(send_all(m)) = 2 * Segments /\ 2 * Segments \in Nat
  <2>1. 2 * Segments \in Nat
    BY SocketsAssumption
  <2>. QED  BY <2>1 DEF send_all
<1>5. CASE Connect(q)
  <2>1. /\ conn' = [conn EXCEPT ![q] = "queued"] /\ UNCHANGED <<stream, hup>>
        /\ \E m : out' = [out EXCEPT ![q] = send_all(m)]
        /\ stream[q] = <<>> /\ conn[q] = "none"
    BY <1>5 DEF Connect, Started, RunsInv, IInv, QueueAgrees
  <2>2. CASE p # q
    <3>1. Same(p)
      BY <1>2, <2>1, <2>2
    <3>. QED  BY <1>3, <3>1
  <2>3. CASE p = q
    <3>1. /\ conn[p] = "none" /\ conn'[p] = "queued" /\ Len(out'[p]) = 2 * Segments
          /\ stream'[p] = <<>> /\ UNCHANGED hup
      BY <1>2, <1>4, <2>1, <2>3
    <3>2. Len(<<>>) = 0
      OBVIOUS
    <3>3. UnderWay(p)' = 0 + Len(out'[p])
      BY <3>1, <3>2 DEF UnderWay
    <3>4. UnderWay(p)' = 2 * Segments
      BY <1>4, <3>1, <3>3
    <3>. QED  BY <3>1, <3>4
  <2>. QED  BY <2>2, <2>3
<1>6. CASE ConnectRefused(q) \/ SendFails(q) \/ Hangup(q) \/ ExitCommand(q) \/ Kill(q)
  <2>1. /\ UNCHANGED <<stream, conn>> /\ hup' = hup \cup {q} /\ out' = [out EXCEPT ![q] = <<>>]
    BY <1>6 DEF ConnectRefused, SendFails, Hangup, ExitCommand, Kill, SubscriberEnds
  <2>2. p # q => Same(p)
    BY <1>2, <2>1
  <2>. QED  BY <1>3, <2>1, <2>2
<1>7. CASE \E topic \in Topics : SubscribeCommand(q, topic) \/ UnsubscribeCommand(q, topic)
  <2>1. /\ UNCHANGED <<stream, conn, hup>> /\ out[q] = <<>>
        /\ \E m : out' = [out EXCEPT ![q] = send_all(m)]
    BY <1>7 DEF SubscribeCommand, UnsubscribeCommand, Command, Waiting, netVars
  <2>2. CASE p # q
    <3>1. Same(p)
      BY <1>2, <2>1, <2>2
    <3>. QED  BY <1>3, <3>1
  <2>3. CASE p = q
    <3>1. Len(out'[p]) = 2 * Segments /\ Len(out[p]) = 0 /\ UNCHANGED <<stream, conn, hup>>
      BY <1>2, <1>4, <2>1, <2>3
    <3>2. Len(stream[p]) \in Nat
      BY <1>2, LenProperties
    <3>3. UnderWay(p)' = Len(stream[p]) + Len(out'[p]) /\ UnderWay(p) = Len(stream[p]) + 0
      BY <3>1 DEF UnderWay
    <3>4. UnderWay(p)' = UnderWay(p) + 2 * Segments
      BY <1>4, <3>1, <3>2, <3>3
    <3>. QED  BY <3>1, <3>4
  <2>. QED  BY <2>2, <2>3
<1>8. CASE Push(q)
  <2>1. /\ out[q] # <<>> /\ out' = [out EXCEPT ![q] = Tail(out[q])] /\ UNCHANGED hup
        /\ conn[q] = "fin" => UNCHANGED stream /\ \E c \in {"fin", "broken"} : conn' = [conn EXCEPT ![q] = c]
        /\ conn[q] # "fin" => /\ stream' = [stream EXCEPT ![q] = Append(stream[q], Head(out[q]))]
                              /\ UNCHANGED conn
    BY <1>8 DEF Push
  <2>2. CASE p # q
    <3>1. Same(p)
      BY <1>2, <2>1, <2>2
    <3>. QED  BY <1>3, <3>1
  <2>3. CASE p = q /\ conn[q] = "fin"
    <3>1. conn'[p] \in {"fin", "broken"} /\ conn[p] = "fin"
      BY <1>2, <2>1, <2>3
    <3>. QED  BY <2>1, <3>1
  <2>4. CASE p = q /\ conn[q] # "fin"
    <3>1. /\ stream'[p] = Append(stream[p], Head(out[p])) /\ out'[p] = Tail(out[p])
          /\ stream[p] \in Seq(TCP_ctos_msg) /\ out[p] \in Seq(TCP_ctos_msg) /\ out[p] # <<>>
          /\ UNCHANGED <<conn, hup>>
      BY <1>2, <2>1, <2>4
    <3>2. /\ Len(out[p]) \in Nat /\ Len(stream[p]) \in Nat
          /\ Len(out'[p]) = Len(out[p]) - 1 /\ Head(out[p]) \in TCP_ctos_msg
      BY <3>1, HeadTailProperties, LenProperties
    <3>3. Len(stream'[p]) = Len(stream[p]) + 1
      BY <3>1, <3>2, AppendProperties
    <3>4. Len(stream'[p]) + Len(out'[p]) = Len(stream[p]) + Len(out[p])
      <4>. DEFINE a == Len(stream[p])
                  b == Len(out[p])
                  c == Len(stream'[p])
                  d == Len(out'[p])
      <4>1. a \in Nat /\ b \in Nat /\ c = a + 1 /\ d = b - 1
        BY <3>2, <3>3
      <4>. HIDE DEF a, b, c, d
      <4>2. c + d = a + b
        BY <4>1
      <4>. QED  BY <4>2 DEF a, b, c, d
    <3>5. UnderWay(p)' = UnderWay(p)
      BY <3>4 DEF UnderWay
    <3>. QED  BY <3>1, <3>5
  <2>. QED  BY <2>2, <2>3, <2>4
<1>9. CASE BeginCommand(q) \/ UnknownWord(q)
  BY <1>3, <1>9 DEF BeginCommand, UnknownWord, netVars
<1>. HIDE DEF Goal
<1>. QED
  BY <1>5, <1>6, <1>7, <1>8, <1>9 DEF Start, SubscriberStep, UserStep, run_client, User

LEMMA OutsideKeepsWhole ==
  ASSUME IInv, IInv', RunsInv, WholePackets,
         NEW q \in Procs, Start(q) \/ SubscriberStep(q) \/ UserStep(q)
  PROVE  WholePackets'
<1>1. SUFFICES ASSUME srv' = "running", NEW p \in Procs, p \notin hup',
                      conn'[p] \in {"queued", "accepted"}
               PROVE  \E n \in Nat : /\ UnderWay(p)' = Before(n)
                                     /\ conn'[p] = "queued" => n # 0
  BY DEF WholePackets, UnderWay, Before
<1>2. /\ srv = "running" /\ p \notin hup
      /\ \/ conn[p] = "none" /\ conn'[p] = "queued" /\ UnderWay(p)' = 2 * Segments
         \/ conn'[p] = conn[p] /\ UnderWay(p)' \in {UnderWay(p), UnderWay(p) + 2 * Segments}
  BY <1>1, OutsideSends DEF serverVars
<1>3. /\ Before(2) = 2 * Segments
      /\ \A n \in Nat : n + 2 \in Nat /\ n + 2 # 0 /\ Before(n + 2) = Before(n) + 2 * Segments
  <2>1. Segments \in Nat
    BY SocketsAssumption
  <2>2. ASSUME NEW n \in Nat PROVE Before(n + 2) = Before(n) + 2 * Segments
    <3>1. /\ Before(n) \in Nat /\ Before(n + 1) = Before(n) + Segments
          /\ Before((n + 1) + 1) = Before(n + 1) + Segments
      BY Segmented
    <3>2. (n + 1) + 1 = n + 2
      OBVIOUS
    <3>. QED  BY <2>1, <3>1, <3>2
  <2>3. Before(2) = 2 * Segments
    BY DEF Before
  <2>. QED  BY <2>2, <2>3
<1>4. CASE conn[p] = "none"
  BY <1>1, <1>2, <1>3, <1>4
<1>5. CASE conn'[p] = conn[p]
  <2>1. PICK n \in Nat : UnderWay(p) = Before(n) /\ (conn[p] = "queued" => n # 0)
    BY <1>1, <1>2, <1>5 DEF WholePackets
  <2>. QED  BY <1>2, <1>3, <1>5, <2>1
<1>. QED  BY <1>2, <1>4, <1>5

LEMMA NextKeepsWhole ==
  ASSUME IInv, IInv', RunsInv, WholePackets, [Next]_vars
  PROVE  WholePackets'
<1>1. ASSUME UNCHANGED <<srv, hup, conn, stream, out>> PROVE WholePackets'
  BY <1>1 DEF WholePackets, UnderWay, Before
<1>2. CASE \/ \E cmd \in Commands : TypeCommand(cmd)
           \/ \E t \in Trailers : TypeTrailer(t)
           \/ \E topic \in Topics : SendDatagram(topic)
  BY <1>1, <1>2 DEF TypeCommand, TypeTrailer, SendDatagram, serverVars, subscriberVars
<1>3. CASE UNCHANGED vars
  BY <1>1, <1>3 DEF vars, netVars, serverVars, subscriberVars
<1>. QED  BY <1>2, <1>3, ServerKeepsWhole, OutsideKeepsWhole DEF Next

-----------------------------------------------------------------------------
(* What the poller has still to return.                                    *)

\* A run that is alive, with a packet or nothing at all to wait for.
Coming(p) == p \in hup \/ UnderWay(p) >= Segments

\* Each entry still to be returned was one before, of the same client, who has
\* lost nothing by the step.
LEMMA EntriesPass ==
  ASSUME IInv, AwaitedPacketsCome, srv = "running", UNCHANGED <<out, hup>>,
         \A i \in Pending' : i >= 3 =>
            \/ Coming(sock[pollfds[i].fd])'
            \/ \E j \in Pending :
                  LET p == sock[pollfds[j].fd]
                  IN  j >= 3 /\ sock'[pollfds'[i].fd] = p /\ stream'[p] = stream[p]
  PROVE  AwaitedPacketsCome'
<1>1. \A i \in Pending : i >= 3 => Coming(sock[pollfds[i].fd])
  BY DEF AwaitedPacketsCome, Coming, UnderWay
<1>2. ASSUME NEW i \in Pending', i >= 3 PROVE Coming(sock[pollfds[i].fd])'
  <2>1. CASE \E j \in Pending :
               LET p == sock[pollfds[j].fd]
               IN  j >= 3 /\ sock'[pollfds'[i].fd] = p /\ stream'[p] = stream[p]
    <3>1. PICK j \in Pending :
               LET p == sock[pollfds[j].fd]
               IN  j >= 3 /\ sock'[pollfds'[i].fd] = p /\ stream'[p] = stream[p]
      BY <2>1
    <3>. QED  BY <1>1, <3>1 DEF Coming, UnderWay
  <2>. QED  BY <1>2, <2>1
<1>. QED  BY <1>2 DEF AwaitedPacketsCome, Coming, UnderWay

\* Another's packets are left alone.
LEMMA OthersLeft ==
  ASSUME IInv, srv = "running", NEW i \in Pending, i >= 3, NEW j \in Pending, j > i
  PROVE  /\ j >= 3 /\ pollfds[i].fd \in ClientFds /\ pollfds[j].fd \in ClientFds
         /\ pollfds[j].fd # pollfds[i].fd
         /\ sock[pollfds[i].fd] \in Procs /\ sock[pollfds[j].fd] \in Procs
         /\ sock[pollfds[j].fd] # sock[pollfds[i].fd]
<1>1. i \in Slots /\ j \in Slots /\ i < num_pollfds /\ j < num_pollfds /\ j >= 3 /\ i # j
  BY DEF Pending, Slots
<1>. QED  BY <1>1, SlotsHoldClients

LEMMA PollAwaits ==
  ASSUME IInv, WholePackets, Poll, UNCHANGED out
  PROVE  AwaitedPacketsCome'
<1>1. srv = "running" /\ UNCHANGED <<srv, netVars, num_pollfds>>
  BY DEF Poll, poller_poll
<1>2. \A i \in Slots : i < num_pollfds
         => /\ pollfds'[i].fd = pollfds[i].fd
            /\ pollfds'[i].revents = (pollfds[i].fd \in Ready)
  BY DEF Poll, poller_poll, IInv, TypeOK, ServerTypeOK, PollerTypeOK
<1>3. ASSUME NEW i \in Slots, i >= 3, i < num_pollfds, pollfds[i].fd \in Ready
      PROVE  Coming(sock[pollfds[i].fd])
  <2>. DEFINE p == sock[pollfds[i].fd]
  <2>1. pollfds[i].fd \in ClientFds /\ p \in Procs /\ conn[p] = "accepted"
    BY <1>1, <1>3, SlotsHoldClients
  <2>2. stream[p] # <<>> \/ p \in hup
    BY <1>3, <2>1, Fds DEF Ready, Readable
  <2>3. ASSUME p \notin hup PROVE UnderWay(p) >= Segments
    <3>. HIDE DEF p
    <3>1. PICK n \in Nat : UnderWay(p) = Before(n)
      BY <1>1, <2>1, <2>3 DEF WholePackets
    <3>2. n # 0
      <4>. DEFINE a == Len(stream[p])
                  b == Len(out[p])
      <4>1. a \in Nat /\ a # 0 /\ b \in Nat
        BY <2>1, <2>2, <2>3, FlightType, EmptySeq
      <4>. HIDE DEF a, b
      <4>2. a + b # 0
        BY <4>1
      <4>3. UnderWay(p) # 0
        BY <4>2 DEF UnderWay, a, b
      <4>. QED  BY <3>1, <4>3, Segmented
    <3>. QED  BY <3>1, <3>2, AtLeastOne
  <2>. QED  BY <2>3 DEF Coming
<1>4. ASSUME NEW i \in Pending', i >= 3 PROVE Coming(sock[pollfds[i].fd])'
  <2>1. i \in Slots /\ i < num_pollfds /\ pollfds'[i].revents
    BY <1>1 DEF Pending
  <2>2. Coming(sock[pollfds[i].fd]) /\ sock'[pollfds'[i].fd] = sock[pollfds[i].fd]
    BY <1>1, <1>2, <1>3, <1>4, <2>1 DEF netVars
  <2>. QED  BY <1>1, <2>2 DEF Coming, UnderWay, netVars
<1>. QED  BY <1>4 DEF AwaitedPacketsCome, Coming, UnderWay

\* The next entries are of the clients they were of before, and a new one is
\* of a run that has still to give its id.
LEMMA AcceptAwaits ==
  ASSUME IInv, IInv', WholePackets, AwaitedPacketsCome,
         NEW i \in Slots, TCP_server_accept_connection(i), UNCHANGED out
  PROVE  AwaitedPacketsCome'
<1>. DEFINE h == Head(backlog)
<1>1. /\ i = 2 /\ i \in Pending /\ srv = "running" /\ UNCHANGED <<stream, hup>>
      /\ num_pollfds < MAX_CONNECTIONS /\ num_pollfds \in Nat /\ idx_iterator' = i + 2
      /\ PollerTypeOK(Descriptors) /\ poller_next_fd_with_POLLIN(i, TCP_fd)
  BY SlotOf DEF TCP_server_accept_connection, Event, IInv, TypeOK, ServerTypeOK, PollerTypeOK
<1>2. h \in Procs /\ conn[h] = "queued"
  BY AfterAccept
<1>3. PICK fd \in ClientFds : /\ LowestFree(fd) /\ sock' = [sock EXCEPT ![fd] = h]
                              /\ poller_add_fd(fd)
  BY DEF TCP_server_accept_connection
<1>4. /\ num_pollfds' = num_pollfds + 1 /\ num_pollfds \in Slots
      /\ pollfds'[num_pollfds].fd = fd
      /\ \A j \in Slots : j # num_pollfds => pollfds'[j] = pollfds[j]
      /\ \A g \in ClientFds : sock'[g] = IF g = fd THEN h ELSE sock[g]
  <2>1. num_pollfds \in Slots
    BY <1>1, TableAssumption DEF Slots
  <2>2. pollfds \in [Slots -> [fd : Descriptors, revents : BOOLEAN]]
    BY <1>1 DEF PollerTypeOK
  <2>3. /\ pollfds' = [pollfds EXCEPT ![num_pollfds].fd = fd]
        /\ num_pollfds' = num_pollfds + 1
    BY <1>3 DEF poller_add_fd
  <2>4. \A g \in ClientFds : sock'[g] = IF g = fd THEN h ELSE sock[g]
    BY <1>3 DEF IInv, TypeOK, SocketsTypeOK
  <2>. HIDE DEF h
  <2>5. /\ pollfds'[num_pollfds].fd = fd
        /\ \A j \in Slots : j # num_pollfds => pollfds'[j] = pollfds[j]
    BY <2>1, <2>2, <2>3
  <2>. QED  BY <2>1, <2>3, <2>4, <2>5
<1>5. Coming(h)
  <2>1. ASSUME h \notin hup PROVE UnderWay(h) >= Segments
    <3>. HIDE DEF h
    <3>1. PICK n \in Nat : UnderWay(h) = Before(n) /\ n # 0
      BY <1>1, <1>2, <2>1 DEF WholePackets
    <3>. QED  BY <3>1, AtLeastOne
  <2>. QED  BY <2>1 DEF Coming
<1>6. ASSUME NEW j \in Pending', j >= 3
      PROVE  \/ Coming(sock[pollfds[j].fd])'
             \/ \E l \in Pending :
                   LET p == sock[pollfds[l].fd]
                   IN  l >= 3 /\ sock'[pollfds'[j].fd] = p /\ stream'[p] = stream[p]
  <2>1. j \in Slots /\ j < num_pollfds + 1 /\ idx_iterator <= j
    BY <1>1, <1>4, Passed DEF Pending
  <2>2. CASE j = num_pollfds
    <3>1. sock'[pollfds'[j].fd] = h
      BY <1>4, <2>2
    <3>2. Coming(sock[pollfds[j].fd])'
      BY <1>1, <1>5, <3>1 DEF Coming, UnderWay
    <3>. QED  BY <3>2
  <2>3. CASE j # num_pollfds
    <3>1. j < num_pollfds /\ pollfds'[j] = pollfds[j]
      BY <1>1, <1>4, <2>1, <2>3 DEF Slots
    <3>2. j \in Pending
      BY <2>1, <3>1 DEF Pending
    <3>3. pollfds[j].fd \in ClientFds /\ sock[pollfds[j].fd] \in Procs
      BY <1>1, <1>6, <2>1, <3>1, SlotsHoldClients
    <3>4. pollfds[j].fd # fd
      BY <1>3, <3>3, SocketsAssumption DEF LowestFree, FreeFds
    <3>. QED  BY <1>1, <1>4, <1>6, <3>1, <3>2, <3>3, <3>4
  <2>. QED  BY <2>2, <2>3
<1>. QED  BY <1>1, <1>6, EntriesPass

\* The client in slot i is done with, and the others have lost nothing.
LEMMA ReceivedAwaits ==
  ASSUME IInv, AwaitedPacketsCome, NEW i \in Slots, NEW fd \in ClientFds, ClientEvent(i, fd),
         Received(i, fd), UNCHANGED out
  PROVE  AwaitedPacketsCome'
<1>1. /\ srv = "running" /\ i \in Pending /\ i >= 3 /\ pollfds[i].fd = fd
      /\ PollerTypeOK(Descriptors) /\ poller_next_fd_with_POLLIN(i, fd)
  <2>1. srv = "running" /\ i \in Pending /\ i \notin 0 .. 2
    BY ClientOf
  <2>. QED  BY <2>1 DEF ClientEvent, Event, poller_next_fd_with_POLLIN, Slots, IInv, TypeOK, ServerTypeOK
<1>2. /\ UNCHANGED <<hup, sock, pollfds, num_pollfds>> /\ idx_iterator' = i + 1
      /\ stream' = recv_rest(fd)
  BY DEF Received
<1>3. \A p \in Procs : p # sock[fd] => stream'[p] = stream[p]
  BY <1>2 DEF recv_rest, IInv, TypeOK, SocketsTypeOK
<1>4. \A j \in Pending' : j > i /\ j \in Pending
  BY <1>1, <1>2, PendingShrinks
<1>5. ASSUME NEW j \in Pending'
      PROVE  \E l \in Pending :
                LET p == sock[pollfds[l].fd]
                IN  l >= 3 /\ sock'[pollfds'[j].fd] = p /\ stream'[p] = stream[p]
  <2>1. j \in Pending /\ j > i
    BY <1>4
  <2>2. j >= 3 /\ sock[pollfds[j].fd] \in Procs /\ sock[pollfds[j].fd] # sock[fd]
    BY <1>1, <2>1, OthersLeft
  <2>. QED  BY <1>2, <1>3, <2>1, <2>2
<1>. QED  BY <1>1, <1>2, <1>5, EntriesPass

\* So have they if it is removed: its entry's successors move up by one.
LEMMA CloseAwaits ==
  ASSUME IInv, AwaitedPacketsCome, NEW i \in Slots, NEW fd \in ClientFds, ClientEvent(i, fd),
         TCP_server_close_connection(i, fd), srv' = "running", UNCHANGED out
  PROVE  AwaitedPacketsCome'
<1>1. /\ srv = "running" /\ i \in Pending /\ i >= 3 /\ pollfds[i].fd = fd
      /\ PollerTypeOK(Descriptors) /\ poller_next_fd_with_POLLIN(i, fd)
      /\ sock[fd] \in Procs
  <2>1. srv = "running" /\ i \in Pending /\ i \notin 0 .. 2 /\ sock[fd] \in Procs
    BY ClientOf
  <2>. QED  BY <2>1 DEF ClientEvent, Event, poller_next_fd_with_POLLIN, Slots, IInv, TypeOK, ServerTypeOK
<1>2. ~clients_list_remove_faults(connected_clients, ClientIdx(fd))
  BY DEF TCP_server_close_connection, ServerEnds
<1>3. /\ poller_remove_fd(fd) /\ idx_iterator' = i + 1 /\ UNCHANGED hup
      /\ sock' = [sock EXCEPT ![fd] = NoProc] /\ stream' = [stream EXCEPT ![sock[fd]] = <<>>]
  BY <1>2 DEF TCP_server_close_connection
<1>4. /\ \A p \in Procs : p # sock[fd] => stream'[p] = stream[p]
      /\ \A g \in ClientFds : g # fd => sock'[g] = sock[g]
  BY <1>3 DEF IInv, TypeOK, SocketsTypeOK
<1>5. /\ num_pollfds \in Nat /\ num_pollfds <= MAX_CONNECTIONS
      /\ i \in Nat /\ i < num_pollfds
  BY <1>1, TableAssumption DEF Pending, Slots, PollerTypeOK
<1>6. \E idx \in Slots : poller_find_fd_idx(idx, fd)
  <2>1. i = num_pollfds - ClientIdx(fd)
    <3>1. /\ ClientIdx(fd) \in 1 .. Len(connected_clients) /\ Len(connected_clients) \in Nat
          /\ connected_clients[ClientIdx(fd)].fd = fd
          /\ num_pollfds = 3 + Len(connected_clients)
          /\ pollfds[num_pollfds - ClientIdx(fd)].fd = fd
      BY <1>1, ClientOf, DistinctMembers DEF IInv, EntriesAgree, PollerHoldsClients
    <3>2. /\ num_pollfds - ClientIdx(fd) \in Slots /\ num_pollfds - ClientIdx(fd) >= 3
          /\ num_pollfds - ClientIdx(fd) < num_pollfds
      BY <1>5, <3>1, TableAssumption DEF Slots
    <3>. QED  BY <1>1, <1>5, <3>1, <3>2, SlotsHoldClients
  <2>. QED  BY <2>1, ClientOf
<1>7. PICK idx \in Slots :
        /\ pollfds' = [j \in Slots |->
                          IF idx <= j /\ j < num_pollfds - 1 THEN pollfds[j + 1] ELSE pollfds[j]]
        /\ num_pollfds' = num_pollfds - 1
  BY <1>3, <1>6 DEF poller_remove_fd
<1>8. ASSUME NEW j \in Pending'
      PROVE  \E l \in Pending :
                LET p == sock[pollfds[l].fd]
                IN  l >= 3 /\ sock'[pollfds'[j].fd] = p /\ stream'[p] = stream[p]
  <2>1. /\ j \in Slots /\ j \in Nat /\ j > i /\ idx_iterator <= j /\ j < num_pollfds - 1
        /\ pollfds'[j].revents /\ idx_iterator \in Nat
    BY <1>1, <1>3, <1>7, Passed DEF Pending, Slots, PollerTypeOK
  <2>2. PICK l \in {j, j + 1} : pollfds'[j] = pollfds[l]
    BY <1>7, <2>1
  <2>3. l \in Slots /\ l > i /\ idx_iterator <= l /\ l < num_pollfds
    BY <1>5, <2>1, <2>2, TableAssumption DEF Slots
  <2>4. l \in Pending
    BY <2>1, <2>2, <2>3 DEF Pending
  <2>5. /\ l >= 3 /\ sock[pollfds[l].fd] \in Procs /\ sock[pollfds[l].fd] # sock[fd]
        /\ pollfds[l].fd \in ClientFds /\ pollfds[l].fd # fd
    BY <1>1, <2>3, <2>4, OthersLeft
  <2>. QED  BY <1>4, <2>2, <2>4, <2>5
<1>. QED  BY <1>1, <1>3, <1>8, EntriesPass

LEMMA ServerAwaits ==
  ASSUME IInv, IInv', WholePackets, AwaitedPacketsCome, ServerStep
  PROVE  AwaitedPacketsCome'
<1>1. UNCHANGED <<out, hup>>
  BY ServerTakes
<1>2. SUFFICES ASSUME srv' = "running" PROVE AwaitedPacketsCome'
  BY DEF AwaitedPacketsCome
<1>3. /\ srv = "running" /\ PollerTypeOK(Descriptors)
      /\ \A status, unread : status # "running" => ~ServerEnds(status, unread)
  <2>1. srv = "running"
    BY OnlyRunning
  <2>. QED  BY <1>2, <2>1 DEF ServerEnds, IInv, TypeOK, ServerTypeOK
<1>4. CASE Poll
  BY <1>1, <1>4, PollAwaits
<1>5. ASSUME NEW i \in Slots, UnknownCommand(i) \/ UDP_server_recv(i) PROVE AwaitedPacketsCome'
  <2>1. /\ UNCHANGED <<pollfds, num_pollfds, sock, stream>> /\ idx_iterator' = i + 1
        /\ \E fd : poller_next_fd_with_POLLIN(i, fd)
    BY <1>3, <1>5 DEF UnknownCommand, UDP_server_recv, Event
  <2>2. \A j \in Pending' : j \in Pending
    BY <1>3, <2>1, PendingShrinks
  <2>. QED  BY <1>1, <1>3, <2>1, <2>2, EntriesPass
<1>6. ASSUME NEW i \in Slots, TCP_server_accept_connection(i) PROVE AwaitedPacketsCome'
  BY <1>1, <1>6, AcceptAwaits
<1>7. ASSUME NEW i \in Slots, NEW fd \in ClientFds, Disconnect(i, fd) PROVE AwaitedPacketsCome'
  BY <1>1, <1>2, <1>7, CloseAwaits DEF Disconnect
<1>8. ASSUME NEW i \in Slots, NEW fd \in ClientFds, TCP_message(i, fd) PROVE AwaitedPacketsCome'
  <2>1. ClientEvent(i, fd) /\ (Received(i, fd) \/ TCP_server_close_connection(i, fd))
    BY <1>3, <1>8 DEF TCP_message, RegisterClient, RejectClient, TCP_server_subscribe,
                      TCP_server_unsubscribe, RepeatedNew
  <2>. QED  BY <1>1, <1>2, <2>1, ReceivedAwaits, CloseAwaits
<1>9. \A i \in Slots : ~(\/ server_exit(i) \/ SendStatusUnassigned(i) \/ AcceptFails(i)
                         \/ PollerOverflows(i) \/ CommandOverflows(i))
  BY <1>2, <1>3 DEF server_exit, SendStatusUnassigned, AcceptFails, PollerOverflows, CommandOverflows
<1>. QED  BY <1>4, <1>5, <1>6, <1>7, <1>8, <1>9 DEF ServerStep, run_server

LEMMA OutsideAwaits ==
  ASSUME IInv, IInv', RunsInv, AwaitedPacketsCome,
         NEW q \in Procs, Start(q) \/ SubscriberStep(q) \/ UserStep(q)
  PROVE  AwaitedPacketsCome'
<1>1. UNCHANGED <<serverVars, sock>>
  BY OutsideSends
<1>2. SUFFICES ASSUME srv = "running", NEW i \in Pending, i >= 3
               PROVE  Coming(sock[pollfds[i].fd])'
  BY <1>1 DEF AwaitedPacketsCome, Coming, UnderWay, serverVars, pollerVars, Pending
<1>. DEFINE p == sock[pollfds[i].fd]
<1>3. p \in Procs /\ conn[p] = "accepted" /\ UNCHANGED p
  BY <1>1, <1>2, SlotsHoldClients DEF Pending, serverVars, pollerVars
<1>4. Coming(p)
  BY <1>2 DEF AwaitedPacketsCome, Coming, UnderWay
<1>. HIDE DEF p
<1>5. /\ p \in hup => p \in hup'
      /\ p \in hup' \/ UnderWay(p)' \in {UnderWay(p), UnderWay(p) + 2 * Segments}
  <2>1. (p \in hup => p \in hup')
         /\ \/ p \in hup'
            \/ conn[p] \notin {"queued", "accepted"} /\ conn'[p] \notin {"queued", "accepted"}
            \/ conn[p] = "none" /\ conn'[p] = "queued" /\ UnderWay(p)' = 2 * Segments
            \/ conn'[p] = conn[p] /\ UnderWay(p)' \in {UnderWay(p), UnderWay(p) + 2 * Segments}
    BY <1>3, OutsideSends
  <2>. QED  BY <1>3, <2>1
<1>6. Coming(p)'
  BY <1>3, <1>4, <1>5, UnderWayType, SocketsAssumption DEF Coming
<1>. QED  BY <1>6 DEF p

LEMMA NextAwaits ==
  ASSUME IInv, IInv', RunsInv, WholePackets, AwaitedPacketsCome, [Next]_vars
  PROVE  AwaitedPacketsCome'
<1>1. ASSUME UNCHANGED <<srv, pollerVars, sock, hup, stream, out>> PROVE AwaitedPacketsCome'
  BY <1>1 DEF AwaitedPacketsCome, pollerVars, Pending
<1>2. CASE \/ \E cmd \in Commands : TypeCommand(cmd)
           \/ \E t \in Trailers : TypeTrailer(t)
           \/ \E topic \in Topics : SendDatagram(topic)
  BY <1>1, <1>2 DEF TypeCommand, TypeTrailer, SendDatagram, serverVars, subscriberVars
<1>3. CASE UNCHANGED vars
  BY <1>1, <1>3 DEF vars, netVars, serverVars, subscriberVars
<1>. QED  BY <1>2, <1>3, ServerAwaits, OutsideAwaits DEF Next

\* The recv of a client's packet may make the server wait, but only for what
\* the client is sending and never for its user, stale events and reused slots
\* included (PubSub.AwaitedPacketsCome; TCP_server_recv, poller_add_fd,
\* poller_remove_fd, poller_advance).
THEOREM AwaitedPacketsAlwaysCome == Spec => []AwaitedPacketsCome
<1>1. Init => WholePackets /\ AwaitedPacketsCome
  <2>. SUFFICES ASSUME Init PROVE WholePackets /\ AwaitedPacketsCome
    OBVIOUS
  <2>1. /\ \A p \in Procs : conn[p] = "none"
        /\ \A i \in Slots : ~pollfds[i].revents
    BY DEF Init, SocketsInit, ServerInit, poller_create
  <2>. QED  BY <2>1 DEF WholePackets, AwaitedPacketsCome, Pending
<1>2. Init => RunsInv
  BY InitSubscriptions
<1>3. IInv /\ IInv' /\ RunsInv /\ WholePackets /\ AwaitedPacketsCome /\ [Next]_vars
        => RunsInv' /\ WholePackets' /\ AwaitedPacketsCome'
  BY NextKeepsRuns, NextKeepsWhole, NextAwaits
<1>. QED  BY <1>1, <1>2, <1>3, InductiveInvariant, PTL DEF Spec

=============================================================================
