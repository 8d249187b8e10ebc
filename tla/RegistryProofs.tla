--------------------------- MODULE RegistryProofs ---------------------------
(***************************************************************************)
(* PubSub implements Registry, for every value of its constants.           *)
(*                                                                         *)
(* Of the server's actions, the ones that end it stop the registry; accept *)
(* is a Join, the first packet with a free id a Register, a closed         *)
(* connection a Leave, and a packet of a connected client a Subscribe or   *)
(* an Unsubscribe.  Everything else leaves what the mapping reads alone.   *)
(* That the members are distinct and their ids unique comes from IInv and  *)
(* IdInv.                                                                  *)
(***************************************************************************)
EXTENDS PubSubProofs

-----------------------------------------------------------------------------
(* How often an element occurs in a list.                                  *)

Places(q, e) == {k \in 1 .. Len(q) : q[k] = e}

LEMMA PlacesFinite ==
  ASSUME NEW S, NEW q \in Seq(S), NEW e
  PROVE  /\ IsFiniteSet(Places(q, e))
         /\ Cardinality(Places(q, e)) \in Nat
         /\ Cardinality(Places(q, e)) = 0 <=> Places(q, e) = {}
<1>1. Len(q) \in Nat
  BY LenProperties
<1>2. IsFiniteSet(1 .. Len(q))
  BY <1>1, FS_Interval
<1>3. Places(q, e) \in SUBSET (1 .. Len(q))
  BY DEF Places
<1>4. IsFiniteSet(Places(q, e))
  BY <1>2, <1>3, FS_Subset
<1>. QED  BY <1>4, FS_CardinalityType, FS_EmptySet

\* Sets of positions one of which maps onto the other without collisions have
\* the same size.
LEMMA SameSize ==
  ASSUME NEW S, NEW T, IsFiniteSet(S), NEW f \in [S -> T],
         \A x, y \in S : f[x] = f[y] => x = y,
         \A z \in T : \E x \in S : f[x] = z
  PROVE  Cardinality(T) = Cardinality(S)
<1>1. f \in Bijection(S, T)
  BY DEF Bijection, Injection, IsInjective, Surjection
<1>2. ExistsBijection(S, T)
  BY <1>1 DEF ExistsBijection
<1>. QED  BY <1>2, FS_Bijection

\* subscriptions_add_subscription: one more of what is added.
LEMMA CountAfterAdd ==
  ASSUME NEW S, NEW q \in Seq(S), NEW a \in S, NEW e
  PROVE  Cardinality(Places(<<a>> \o q, e)) =
            IF e = a THEN Cardinality(Places(q, e)) + 1 ELSE Cardinality(Places(q, e))
<1>. DEFINE r == <<a>> \o q
            old == Places(q, e)
            new == Places(r, e)
<1>1. Len(q) \in Nat
  BY LenProperties
<1>2. /\ r \in Seq(S) /\ Len(r) = Len(q) + 1 /\ r[1] = a
      /\ \A i \in 2 .. Len(q) + 1 : r[i] = q[i - 1]
  BY AddAtHead
<1>3. IsFiniteSet(old) /\ IsFiniteSet(new)
  BY <1>2, PlacesFinite
<1>. HIDE DEF r
<1>4. \A k \in old : k + 1 \in new \ {1}
  <2>. SUFFICES ASSUME NEW k \in old PROVE k + 1 \in new \ {1}
    OBVIOUS
  <2>1. k \in 1 .. Len(q) /\ q[k] = e
    BY DEF Places
  <2>2. k + 1 \in 2 .. Len(q) + 1 /\ (k + 1) - 1 = k
    BY <1>1, <2>1
  <2>3. r[k + 1] = e
    BY <1>2, <2>1, <2>2
  <2>. QED  BY <1>1, <1>2, <2>2, <2>3 DEF Places
<1>5. \A j \in new \ {1} : j - 1 \in old
  <2>. SUFFICES ASSUME NEW j \in new \ {1} PROVE j - 1 \in old
    OBVIOUS
  <2>1. j \in 1 .. Len(r) /\ r[j] = e /\ j # 1
    BY DEF Places
  <2>2. j \in 2 .. Len(q) + 1
    BY <1>1, <1>2, <2>1
  <2>3. j - 1 \in 1 .. Len(q) /\ q[j - 1] = e
    BY <1>1, <1>2, <2>1, <2>2
  <2>. QED  BY <2>3 DEF Places
<1>6. 1 \in new <=> e = a
  BY <1>1, <1>2 DEF Places
<1>7. old \in SUBSET Int /\ new \in SUBSET Int
  BY <1>1, <1>2 DEF Places
<1>. HIDE DEF old, new
<1>8. Cardinality(new \ {1}) = Cardinality(old)
  <2>. DEFINE f == [k \in old |-> k + 1]
  <2>1. f \in [old -> new \ {1}]
    BY <1>4
  <2>2. \A x, y \in old : f[x] = f[y] => x = y
    BY <1>7
  <2>3. \A z \in new \ {1} : \E x \in old : f[x] = z
    <3>. SUFFICES ASSUME NEW z \in new \ {1} PROVE \E x \in old : f[x] = z
      OBVIOUS
    <3>1. z - 1 \in old /\ f[z - 1] = z
      BY <1>5, <1>7
    <3>. QED  BY <3>1
  <2>. HIDE DEF f
  <2>. QED  BY <1>3, <2>1, <2>2, <2>3, SameSize
<1>9. Cardinality(new \ {1}) = IF 1 \in new THEN Cardinality(new) - 1 ELSE Cardinality(new)
  BY <1>3, FS_RemoveElement
<1>10. Cardinality(new) \in Nat /\ Cardinality(old) \in Nat
  BY <1>3, FS_CardinalityType
<1>11. Cardinality(new) = IF e = a THEN Cardinality(old) + 1 ELSE Cardinality(old)
  BY <1>6, <1>8, <1>9, <1>10
<1>. QED  BY <1>11 DEF old, new, r

\* subscriptions_remove_subscription: one less of what is removed.
LEMMA CountAfterRemove ==
  ASSUME NEW S, NEW q \in Seq(S), NEW k \in 1 .. Len(q), NEW e
  PROVE  Cardinality(Places(RemoveAt(q, k), e)) =
            IF e = q[k] THEN Cardinality(Places(q, e)) - 1 ELSE Cardinality(Places(q, e))
<1>. DEFINE r == RemoveAt(q, k)
            was(j) == IF j < k THEN j ELSE j + 1
            old == Places(q, e)
            new == Places(r, e)
<1>1. Len(q) \in Nat /\ k \in Int
  BY LenProperties
<1>2. /\ r \in Seq(S) /\ Len(r) = Len(q) - 1
      /\ \A i \in 1 .. Len(q) - 1 : r[i] = IF i < k THEN q[i] ELSE q[i + 1]
  BY RemoveNode
<1>3. IsFiniteSet(old) /\ IsFiniteSet(new)
  BY <1>2, PlacesFinite
<1>. HIDE DEF r
<1>4. \A j \in new : was(j) \in old \ {k}
  <2>. SUFFICES ASSUME NEW j \in new PROVE was(j) \in old \ {k}
    OBVIOUS
  <2>1. j \in 1 .. Len(q) - 1 /\ r[j] = e
    BY <1>2 DEF Places
  <2>2. was(j) \in 1 .. Len(q) /\ was(j) # k
    BY <1>1, <2>1
  <2>3. q[was(j)] = e
    BY <1>2, <2>1
  <2>. QED  BY <2>2, <2>3 DEF Places
<1>5. \A i \in old \ {k} : \E j \in new : was(j) = i
  <2>. SUFFICES ASSUME NEW i \in old \ {k} PROVE \E j \in new : was(j) = i
    OBVIOUS
  <2>1. i \in 1 .. Len(q) /\ q[i] = e /\ i # k
    BY DEF Places
  <2>. DEFINE j == IF i < k THEN i ELSE i - 1
  <2>2. j \in 1 .. Len(q) - 1 /\ was(j) = i
    BY <1>1, <2>1
  <2>3. r[j] = q[was(j)]
    BY <1>2, <2>2
  <2>4. r[j] = e
    BY <2>1, <2>2, <2>3
  <2>5. j \in new
    BY <1>2, <2>2, <2>4 DEF Places
  <2>. QED  BY <2>2, <2>5
<1>6. k \in old <=> e = q[k]
  BY DEF Places
<1>7. new \in SUBSET Int
  BY <1>1, <1>2 DEF Places
<1>8. \A x, y \in new : was(x) = was(y) => x = y
  BY <1>1, <1>7
<1>. HIDE DEF old, new
<1>9. Cardinality(old \ {k}) = Cardinality(new)
  <2>. DEFINE f == [j \in new |-> was(j)]
  <2>1. f \in [new -> old \ {k}]
    BY <1>4
  <2>2. \A x, y \in new : f[x] = f[y] => x = y
    <3>. HIDE DEF was
    <3>. QED  BY <1>8
  <2>3. \A z \in old \ {k} : \E x \in new : f[x] = z
    <3>. HIDE DEF was
    <3>. QED  BY <1>5
  <2>. HIDE DEF f
  <2>. QED  BY <1>3, <2>1, <2>2, <2>3, SameSize
<1>10. Cardinality(old \ {k}) = IF k \in old THEN Cardinality(old) - 1 ELSE Cardinality(old)
  BY <1>3, FS_RemoveElement
<1>11. Cardinality(new) \in Nat /\ Cardinality(old) \in Nat
  BY <1>3, FS_CardinalityType
<1>12. Cardinality(new) = IF e = q[k] THEN Cardinality(old) - 1 ELSE Cardinality(old)
  BY <1>6, <1>9, <1>10, <1>11
<1>. QED  BY <1>12 DEF old, new, r

\* What the mapping counts.
LEMMA CopiesArePlaces ==
  ASSUME NEW s \in subscription_node(Names, Names)
  PROVE  Copies[s] = Cardinality(Places(subscriptions, s))
<1>1. s = [topic |-> s.topic, subscriber_id |-> s.subscriber_id]
  BY DEF subscription_node
<1>. QED  BY <1>1 DEF Copies, Count, Places

LEMMA SameSubscriptions == R!Subscription = subscription_node(Names, Names)
BY DEF R!Subscription, subscription_node

-----------------------------------------------------------------------------
(* What a step does to what the mapping reads.                             *)

LEMMA Untouched ==
  ASSUME UNCHANGED <<srv, connected_clients, sock, subscriptions>>
  PROVE  UNCHANGED R!registryVars
BY DEF R!registryVars, Members, Copies, Count

LEMMA StopStep ==
  ASSUME srv = "running", srv' # "running", UNCHANGED subscriptions
  PROVE  R!Next
<1>1. R!Stop
  BY DEF R!Stop, Members, Copies, Count
<1>. QED  BY <1>1 DEF R!Next

\* The k-th client, as the mapping reads it.
Member(k) == [who |-> sock[connected_clients[k].fd], id |-> connected_clients[k].id]

\* Each node of the list is a member of its own.
LEMMA DistinctMembers ==
  ASSUME IInv, srv = "running"
  PROVE  /\ connected_clients \in Seq(client_node(ClientFds, Names))
         /\ Len(connected_clients) \in Nat
         /\ Members = {Member(k) : k \in 1 .. Len(connected_clients)}
         /\ \A k \in 1 .. Len(connected_clients) :
               /\ connected_clients[k] \in client_node(ClientFds, Names)
               /\ Member(k).who \in Procs /\ Member(k).id \in Names
               /\ conn[Member(k).who] = "accepted"
         /\ \A j, k \in 1 .. Len(connected_clients) : Member(j).who = Member(k).who => j = k
<1>. DEFINE n == Len(connected_clients)
<1>1. connected_clients \in Seq(client_node(ClientFds, Names)) /\ n \in Nat
  BY LenProperties DEF IInv, TypeOK, ServerTypeOK
<1>2. ClientsHoldSockets /\ SocketsHoldConnections
  BY DEF IInv, EntriesAgree
<1>3. Members = {Member(k) : k \in 1 .. n}
  BY DEF Members, Member
<1>4. \A k \in 1 .. n : connected_clients[k] \in client_node(ClientFds, Names)
  BY <1>1, ElementOfSeq
<1>5. \A k \in 1 .. n :
         /\ connected_clients[k].fd \in ClientFds /\ connected_clients[k].id \in Names
         /\ sock[connected_clients[k].fd] # NoProc
         /\ sock[connected_clients[k].fd] \in Procs
  <2>. SUFFICES ASSUME NEW k \in 1 .. n
                PROVE  /\ connected_clients[k].fd \in ClientFds /\ connected_clients[k].id \in Names
                       /\ sock[connected_clients[k].fd] # NoProc
                       /\ sock[connected_clients[k].fd] \in Procs
    OBVIOUS
  <2>1. connected_clients[k].fd \in ClientFds /\ connected_clients[k].id \in Names
    BY <1>4 DEF client_node
  <2>2. sock[connected_clients[k].fd] # NoProc
    BY <1>2, <2>1 DEF ClientsHoldSockets
  <2>. QED  BY <2>1, <2>2 DEF IInv, TypeOK, SocketsTypeOK
<1>6. \A k \in 1 .. n : conn[sock[connected_clients[k].fd]] = "accepted"
  BY <1>2, <1>5 DEF SocketsHoldConnections
<1>7. \A j, k \in 1 .. n : sock[connected_clients[j].fd] = sock[connected_clients[k].fd] => j = k
  BY <1>2, <1>5 DEF ClientsHoldSockets, SocketsHoldConnections
<1>. QED  BY <1>1, <1>3, <1>4, <1>5, <1>6, <1>7 DEF Member

-----------------------------------------------------------------------------
(* Joining and leaving.                                                    *)

\* accept puts one node in front and leaves the others and their descriptors.
LEMMA AfterAccept ==
  ASSUME IInv, NEW i \in Slots, TCP_server_accept_connection(i)
  PROVE  /\ srv = "running" /\ UNCHANGED <<srv, hup, subscriptions>>
         /\ Head(backlog) \in Procs /\ conn[Head(backlog)] = "queued"
         /\ Len(connected_clients') = Len(connected_clients) + 1
         /\ connected_clients'[1].state = CLIENT_STATE_NEW
         /\ connected_clients'[1].id = EmptyString
         /\ sock'[connected_clients'[1].fd] = Head(backlog)
         /\ \A k \in 1 .. Len(connected_clients) :
               /\ connected_clients'[k + 1] = connected_clients[k]
               /\ sock'[connected_clients[k].fd] = sock[connected_clients[k].fd]
<1>. DEFINE h == Head(backlog)
            n == Len(connected_clients)
<1>1. i = 2 /\ i \in Pending /\ srv = "running"
  BY SlotOf DEF TCP_server_accept_connection
<1>2. backlog # <<>> /\ backlog \in Seq(Procs)
  BY <1>1 DEF IInv, ReportedReady, TypeOK, SocketsTypeOK
<1>3. PICK fd \in ClientFds :
        /\ LowestFree(fd)
        /\ sock' = [sock EXCEPT ![fd] = h]
        /\ connected_clients' =
              clients_list_add_client(connected_clients,
                                      [state |-> CLIENT_STATE_NEW, fd |-> fd, id |-> EmptyString])
  BY DEF TCP_server_accept_connection
<1>4. UNCHANGED <<srv, hup, subscriptions>>
  BY DEF TCP_server_accept_connection
<1>5. h \in Procs /\ conn[h] = "queued"
  <2>1. h \in Procs /\ h = backlog[1] /\ 1 \in 1 .. Len(backlog)
    BY <1>2, HeadTailProperties, LenProperties, EmptySeq
  <2>. QED  BY <2>1 DEF IInv, QueueAgrees
<1>. DEFINE c == [state |-> CLIENT_STATE_NEW, fd |-> fd, id |-> EmptyString]
<1>6. /\ c \in client_node(ClientFds, Names) /\ c.fd = fd
      /\ c.state = CLIENT_STATE_NEW /\ c.id = EmptyString
  BY DEF client_node, Names
<1>7. connected_clients' = <<c>> \o connected_clients
  BY <1>3 DEF clients_list_add_client
<1>. HIDE DEF c
<1>8. /\ connected_clients \in Seq(client_node(ClientFds, Names)) /\ n \in Nat
      /\ \A k \in 1 .. n : connected_clients[k] \in client_node(ClientFds, Names)
  BY <1>1, DistinctMembers
<1>9. /\ Len(connected_clients') = n + 1
      /\ connected_clients'[1] = c
      /\ \A j \in 2 .. n + 1 : connected_clients'[j] = connected_clients[j - 1]
  BY <1>6, <1>7, <1>8, AddAtHead
<1>10. \A k \in 1 .. n : connected_clients'[k + 1] = connected_clients[k]
  <2>. SUFFICES ASSUME NEW k \in 1 .. n PROVE connected_clients'[k + 1] = connected_clients[k]
    OBVIOUS
  <2>1. k + 1 \in 2 .. n + 1 /\ (k + 1) - 1 = k
    BY <1>8
  <2>. QED  BY <1>9, <2>1
<1>11. \A k \in 1 .. n : connected_clients[k].fd \in ClientFds /\ connected_clients[k].fd # fd
  <2>1. sock[fd] = NoProc
    BY <1>3 DEF LowestFree, FreeFds
  <2>2. ClientsHoldSockets
    BY <1>1 DEF IInv, EntriesAgree
  <2>3. \A k \in 1 .. n : connected_clients[k].fd \in ClientFds
    BY <1>8 DEF client_node
  <2>. QED  BY <2>1, <2>2, <2>3 DEF ClientsHoldSockets
<1>12. sock \in [ClientFds -> Procs \cup {NoProc}]
  BY DEF IInv, TypeOK, SocketsTypeOK
<1>13. sock'[fd] = h /\ \A k \in 1 .. n : sock'[connected_clients[k].fd] = sock[connected_clients[k].fd]
  BY <1>3, <1>11, <1>12
<1>. QED  BY <1>1, <1>4, <1>5, <1>6, <1>9, <1>10, <1>13

LEMMA AcceptIsJoin ==
  ASSUME IInv, NEW i \in Slots, TCP_server_accept_connection(i)
  PROVE  R!Next
<1>. DEFINE h == Head(backlog)
            n == Len(connected_clients)
            e == [who |-> h, id |-> EmptyString]
<1>1. /\ srv = "running" /\ UNCHANGED <<srv, subscriptions>>
      /\ h \in Procs /\ conn[h] = "queued"
      /\ Len(connected_clients') = n + 1
      /\ connected_clients'[1].id = EmptyString
      /\ sock'[connected_clients'[1].fd] = h
      /\ \A k \in 1 .. n :
            /\ connected_clients'[k + 1] = connected_clients[k]
            /\ sock'[connected_clients[k].fd] = sock[connected_clients[k].fd]
  BY AfterAccept
<1>2. /\ n \in Nat /\ Members = {Member(k) : k \in 1 .. n}
      /\ \A k \in 1 .. n : conn[Member(k).who] = "accepted"
  BY <1>1, DistinctMembers
<1>3. Member(1)' = e
  BY <1>1 DEF Member
<1>4. \A k \in 1 .. n : Member(k + 1)' = Member(k)
  BY <1>1 DEF Member
<1>5. Members' = {Member(k)' : k \in 1 .. n + 1}
  BY <1>1 DEF Members, Member
<1>. HIDE DEF e
<1>6. Members' = Members \cup {e}
  <2>1. \A j \in 1 .. n + 1 : Member(j)' \in Members \cup {e}
    <3>. SUFFICES ASSUME NEW j \in 1 .. n + 1 PROVE Member(j)' \in Members \cup {e}
      OBVIOUS
    <3>1. CASE j = 1
      BY <1>3, <3>1
    <3>2. CASE j # 1
      <4>1. j - 1 \in 1 .. n /\ (j - 1) + 1 = j
        BY <1>2, <3>2
      <4>2. Member(j)' = Member(j - 1)
        BY <1>4, <4>1
      <4>. QED  BY <1>2, <4>1, <4>2
    <3>. QED  BY <3>1, <3>2
  <2>2. \A k \in 1 .. n : Member(k) \in Members'
    <3>. SUFFICES ASSUME NEW k \in 1 .. n PROVE Member(k) \in Members'
      OBVIOUS
    <3>1. k + 1 \in 1 .. n + 1 /\ Member(k) = Member(k + 1)'
      BY <1>2, <1>4
    <3>. QED  BY <1>5, <3>1
  <2>3. e \in Members'
    <3>1. 1 \in 1 .. n + 1
      BY <1>2
    <3>. QED  BY <1>3, <1>5, <3>1
  <2>. QED  BY <1>2, <1>5, <2>1, <2>2, <2>3
<1>7. \A m \in Members : m.who # h
  BY <1>1, <1>2
<1>8. R!Join(h)
  <2>1. Copies' = Copies
    BY <1>1 DEF Copies, Count
  <2>. QED  BY <1>1, <1>6, <1>7, <2>1 DEF R!Join, e
<1>. QED  BY <1>1, <1>8 DEF R!Next

\* A close takes one node out, and leaves the others and their descriptors.
LEMMA AfterClose ==
  ASSUME IInv, NEW i \in Slots, NEW fd \in ClientFds, ClientEvent(i, fd),
         TCP_server_close_connection(i, fd),
         NEW k, k = ClientIdx(fd), ~clients_list_remove_faults(connected_clients, k)
  PROVE  /\ UNCHANGED <<srv, hup, subscriptions>>
         /\ Len(connected_clients') = Len(connected_clients) - 1
         /\ \A j \in 1 .. Len(connected_clients) - 1 :
               LET was == IF j < k THEN j ELSE j + 1
               IN  /\ was \in 1 .. Len(connected_clients) /\ was # k
                   /\ connected_clients'[j] = connected_clients[was]
                   /\ sock'[connected_clients[was].fd] = sock[connected_clients[was].fd]
<1>. DEFINE n == Len(connected_clients)
            p == sock[fd]
            was(j) == IF j < k THEN j ELSE j + 1
<1>1. srv = "running" /\ p \in Procs /\ k \in 1 .. n /\ connected_clients[k].fd = fd
  BY ClientOf
<1>2. /\ connected_clients' = clients_list_remove_client(connected_clients, k)
      /\ sock' = [sock EXCEPT ![fd] = NoProc]
      /\ UNCHANGED <<srv, hup, subscriptions>>
  BY DEF TCP_server_close_connection
<1>3. /\ connected_clients \in Seq(client_node(ClientFds, Names)) /\ n \in Nat
      /\ \A j \in 1 .. n : connected_clients[j] \in client_node(ClientFds, Names)
      /\ \A j, m \in 1 .. n : Member(j).who = Member(m).who => j = m
  BY <1>1, DistinctMembers
<1>4. connected_clients' = RemoveAt(connected_clients, k)
  BY <1>1, <1>2, <1>3 DEF clients_list_remove_client
<1>5. /\ Len(connected_clients') = n - 1
      /\ \A j \in 1 .. n - 1 :
            connected_clients'[j] = IF j < k THEN connected_clients[j] ELSE connected_clients[j + 1]
  BY <1>1, <1>3, <1>4, RemoveNode
<1>6. \A j \in 1 .. n - 1 : /\ was(j) \in 1 .. n /\ was(j) # k
                            /\ connected_clients'[j] = connected_clients[was(j)]
  BY <1>1, <1>3, <1>5
<1>7. \A m \in 1 .. n : m # k => sock'[connected_clients[m].fd] = sock[connected_clients[m].fd]
  <2>. SUFFICES ASSUME NEW m \in 1 .. n, m # k
                PROVE  sock'[connected_clients[m].fd] = sock[connected_clients[m].fd]
    OBVIOUS
  <2>1. Member(m).who # Member(k).who
    BY <1>1, <1>3
  <2>2. connected_clients[m].fd \in ClientFds /\ connected_clients[m].fd # fd
    BY <1>1, <1>3, <2>1 DEF client_node, Member
  <2>. QED  BY <1>2, <2>2 DEF IInv, TypeOK, SocketsTypeOK
<1>. QED  BY <1>2, <1>5, <1>6, <1>7

LEMMA CloseIsLeave ==
  ASSUME IInv, NEW i \in Slots, NEW fd \in ClientFds, ClientEvent(i, fd),
         TCP_server_close_connection(i, fd)
  PROVE  R!Next
<1>. DEFINE n == Len(connected_clients)
            p == sock[fd]
<1>1. PICK k \in 1 .. n : k = ClientIdx(fd)
  BY ClientOf
<1>. DEFINE was(j) == IF j < k THEN j ELSE j + 1
<1>2. srv = "running" /\ p \in Procs /\ connected_clients[k].fd = fd
  BY <1>1, ClientOf
<1>3. CASE clients_list_remove_faults(connected_clients, k)
  <2>1. ServerEnds("crashed", recv_rest(fd))
    BY <1>1, <1>3 DEF TCP_server_close_connection
  <2>. QED  BY <1>2, <2>1, StopStep DEF ServerEnds, listVars
<1>4. CASE ~clients_list_remove_faults(connected_clients, k)
  <2>1. /\ UNCHANGED <<srv, subscriptions>>
        /\ Len(connected_clients') = n - 1
        /\ \A j \in 1 .. n - 1 :
              /\ was(j) \in 1 .. n /\ was(j) # k
              /\ connected_clients'[j] = connected_clients[was(j)]
              /\ sock'[connected_clients[was(j)].fd] = sock[connected_clients[was(j)].fd]
    BY <1>1, <1>4, AfterClose
  <2>2. /\ n \in Nat
        /\ Members = {Member(j) : j \in 1 .. n}
        /\ \A j, m \in 1 .. n : Member(j).who = Member(m).who => j = m
    BY <1>2, DistinctMembers
  <2>3. \A m \in 1 .. n : m # k => \E j \in 1 .. n - 1 : was(j) = m
    <3>. SUFFICES ASSUME NEW m \in 1 .. n, m # k PROVE \E j \in 1 .. n - 1 : was(j) = m
      OBVIOUS
    <3>. DEFINE j == IF m < k THEN m ELSE m - 1
    <3>1. j \in 1 .. n - 1 /\ was(j) = m
      BY <1>1, <2>2
    <3>. QED  BY <3>1
  <2>. HIDE DEF was
  <2>4. Member(k).who = p
    BY <1>2 DEF Member
  <2>5. \A m \in 1 .. n : m # k => Member(m).who # p
    BY <1>1, <2>2, <2>4
  <2>6. \A j \in 1 .. n - 1 : Member(j)' = Member(was(j))
    BY <2>1 DEF Member
  <2>7. Members' = {Member(j)' : j \in 1 .. n - 1}
    BY <1>2, <2>1 DEF Members, Member
  <2>8. Members' = R!Without(p)
    <3>1. \A j \in 1 .. n - 1 : Member(j)' \in R!Without(p)
      BY <2>1, <2>2, <2>5, <2>6 DEF R!Without
    <3>2. \A m \in 1 .. n : Member(m).who # p => Member(m) \in Members'
      <4>. SUFFICES ASSUME NEW m \in 1 .. n, Member(m).who # p PROVE Member(m) \in Members'
        OBVIOUS
      <4>1. m # k
        BY <2>4
      <4>2. PICK j \in 1 .. n - 1 : was(j) = m
        BY <2>3, <4>1
      <4>. QED  BY <2>6, <2>7, <4>2
    <3>3. \A e \in Members' : e \in R!Without(p)
      BY <2>7, <3>1
    <3>4. \A e \in R!Without(p) : e \in Members'
      <4>. SUFFICES ASSUME NEW e \in Members, e.who # p PROVE e \in Members'
        BY DEF R!Without
      <4>1. PICK m \in 1 .. n : e = Member(m)
        BY <2>2
      <4>. QED  BY <3>2, <4>1
    <3>. QED  BY <3>3, <3>4
  <2>9. \E m \in Members : m.who = p
    BY <1>1, <2>2, <2>4
  <2>10. R!Leave(p)
    <3>1. Copies' = Copies
      BY <2>1 DEF Copies, Count
    <3>. QED  BY <1>2, <2>1, <2>8, <2>9, <3>1 DEF R!Leave
  <2>. QED  BY <1>2, <2>10 DEF R!Next
<1>. QED  BY <1>3, <1>4

-----------------------------------------------------------------------------
(* Packets.                                                                *)

\* The client gets its id, nobody else has it, and it is not empty.
LEMMA AfterRegister ==
  ASSUME IInv, IdInv, NEW i \in Slots, NEW fd \in ClientFds, ClientEvent(i, fd),
         NEW m \in Packet, m.msg_type = "TCP_MSG_NEW", RegisterClient(i, fd, m),
         NEW k \in 1 .. Len(connected_clients), k = ClientIdx(fd)
  PROVE  /\ UNCHANGED <<srv, sock, hup, subscriptions>>
         /\ connected_clients[k].id = EmptyString
         /\ m.payload \in Names /\ m.payload # EmptyString
         /\ \A j \in 1 .. Len(connected_clients) : connected_clients[j].id # m.payload
         /\ Len(connected_clients') = Len(connected_clients)
         /\ connected_clients'[k].fd = fd /\ connected_clients'[k].id = m.payload
         /\ \A j \in 1 .. Len(connected_clients) :
               j # k => connected_clients'[j] = connected_clients[j]
<1>. DEFINE c == [connected_clients[k] EXCEPT !.state = CLIENT_STATE_CONNECTED, !.id = m.payload]
            n == Len(connected_clients)
<1>1. srv = "running" /\ connected_clients[k].fd = fd
  BY ClientOf
<1>2. UNCHANGED <<srv, sock, hup, subscriptions>>
  BY DEF RegisterClient, Received
<1>3. ClientIdx(fd) # 0 /\ connected_clients[k].state = CLIENT_STATE_NEW
  BY DEF RegisterClient, TCP_server_is_new_connection
<1>4. /\ connected_clients \in Seq(client_node(ClientFds, Names)) /\ n \in Nat
      /\ \A j \in 1 .. n : connected_clients[j] \in client_node(ClientFds, Names)
  BY <1>1, DistinctMembers
<1>5. clients_list_find_by_id(connected_clients, m.payload) = 0
  BY DEF RegisterClient
<1>6. \A j \in 1 .. n : connected_clients[j].id # m.payload
  BY <1>4, <1>5, FindById
<1>7. connected_clients[k].id = EmptyString
  BY <1>3 DEF IdInv, NewHasNoId
<1>8. m.payload # EmptyString /\ m.payload \in Names
  BY <1>6, <1>7 DEF Packet
<1>9. c \in client_node(ClientFds, Names) /\ c.fd = fd /\ c.id = m.payload
  BY <1>1, <1>4, <1>8 DEF client_node
<1>10. connected_clients' = [connected_clients EXCEPT ![k] = c]
  BY <1>3 DEF RegisterClient, clients_list_update_client
<1>. HIDE DEF c
<1>11. /\ Len(connected_clients') = n
       /\ \A j \in 1 .. n : connected_clients'[j] = IF j = k THEN c ELSE connected_clients[j]
  <2>. DEFINE u == [connected_clients EXCEPT ![k] = c]
  <2>1. /\ Len(u) = Len(connected_clients)
        /\ \A j \in 1 .. Len(connected_clients) : u[j] = IF j = k THEN c ELSE connected_clients[j]
    BY <1>4, <1>9, ExceptSeq
  <2>. QED  BY <1>10, <2>1
<1>. QED  BY <1>2, <1>6, <1>7, <1>8, <1>9, <1>11

LEMMA NewIsRegister ==
  ASSUME IInv, IdInv, NEW i \in Slots, NEW fd \in ClientFds, ClientEvent(i, fd),
         NEW m \in Packet, RegisterClient(i, fd, m)
  PROVE  [R!Next]_(R!registryVars)
<1>. DEFINE n == Len(connected_clients)
            p == sock[fd]
            e == [who |-> p, id |-> m.payload]
<1>1. PICK k \in 1 .. n : k = ClientIdx(fd)
  BY ClientOf
<1>2. srv = "running" /\ p \in Procs /\ connected_clients[k].fd = fd
  BY <1>1, ClientOf
<1>3. CASE m.msg_type # "TCP_MSG_NEW"
  BY <1>3, Untouched DEF RegisterClient, Received
<1>4. CASE m.msg_type = "TCP_MSG_NEW"
  <2>1. /\ UNCHANGED <<srv, sock, subscriptions>>
        /\ connected_clients[k].id = EmptyString
        /\ m.payload \in Names /\ m.payload # EmptyString
        /\ \A j \in 1 .. n : connected_clients[j].id # m.payload
        /\ Len(connected_clients') = n
        /\ connected_clients'[k].fd = fd /\ connected_clients'[k].id = m.payload
        /\ \A j \in 1 .. n : j # k => connected_clients'[j] = connected_clients[j]
    BY <1>1, <1>4, AfterRegister
  <2>2. /\ Members = {Member(j) : j \in 1 .. n}
        /\ \A j, l \in 1 .. n : Member(j).who = Member(l).who => j = l
    BY <1>2, DistinctMembers
  <2>3. Member(k)' = e /\ \A j \in 1 .. n : j # k => Member(j)' = Member(j)
    BY <2>1 DEF Member
  <2>4. Members' = {Member(j)' : j \in 1 .. n}
    BY <1>2, <2>1 DEF Members, Member
  <2>5. Member(k) = [who |-> p, id |-> EmptyString]
    BY <1>2, <2>1 DEF Member
  <2>6. \A j \in 1 .. n : j # k => Member(j).who # p
    BY <1>1, <2>2, <2>5
  <2>. HIDE DEF e
  <2>7. Members' = R!Without(p) \cup {e}
    <3>1. \A j \in 1 .. n : Member(j)' \in R!Without(p) \cup {e}
      BY <2>2, <2>3, <2>6 DEF R!Without
    <3>2. \A j \in 1 .. n : Member(j).who # p => Member(j) \in Members'
      BY <2>3, <2>4, <2>5
    <3>3. e \in Members'
      BY <1>1, <2>3, <2>4
    <3>. QED  BY <2>2, <2>4, <3>1, <3>2, <3>3 DEF R!Without
  <2>8. \A l \in Members : l.id # m.payload
    BY <2>1, <2>2 DEF Member
  <2>9. R!Register(p, m.payload)
    <3>1. Copies' = Copies
      BY <2>1 DEF Copies, Count
    <3>2. [who |-> p, id |-> EmptyString] \in Members
      BY <1>1, <2>2, <2>5
    <3>. QED  BY <1>2, <2>1, <2>7, <2>8, <3>1, <3>2 DEF R!Register, e
  <2>. QED  BY <1>2, <2>1, <2>9 DEF R!Next
<1>. QED  BY <1>3, <1>4

\* A client whose packets are commands has a name.
LEMMA Named ==
  ASSUME IInv, IdInv, NEW i \in Slots, NEW fd \in ClientFds, ClientEvent(i, fd),
         ~TCP_server_is_new_connection(fd)
  PROVE  /\ srv = "running" /\ ClientIdx(fd) \in 1 .. Len(connected_clients)
         /\ ClientIdx(fd) # 0
         /\ Member(ClientIdx(fd)) \in Members
         /\ Member(ClientIdx(fd)).id = connected_clients[ClientIdx(fd)].id
         /\ Member(ClientIdx(fd)).id \in Names
         /\ Member(ClientIdx(fd)).id # EmptyString
<1>. DEFINE k == ClientIdx(fd)
<1>1. srv = "running" /\ k \in 1 .. Len(connected_clients)
  BY ClientOf
<1>2. /\ Len(connected_clients) \in Nat
      /\ Members = {Member(j) : j \in 1 .. Len(connected_clients)}
      /\ \A j \in 1 .. Len(connected_clients) : Member(j).id \in Names
  BY <1>1, DistinctMembers
<1>3. k # 0
  BY <1>1, <1>2
<1>4. connected_clients[k].state # CLIENT_STATE_NEW
  BY <1>3 DEF TCP_server_is_new_connection
<1>. HIDE DEF k
<1>5. connected_clients[k].id # EmptyString
  BY <1>1, <1>4 DEF IdInv, NewHasNoId
<1>. QED  BY <1>1, <1>2, <1>3, <1>5 DEF Member, k

LEMMA SubscribeIsSubscribe ==
  ASSUME IInv, IdInv, NEW i \in Slots, NEW fd \in ClientFds, ClientEvent(i, fd),
         NEW m \in Packet, TCP_server_subscribe(i, fd, m)
  PROVE  R!Next
<1>. DEFINE k == ClientIdx(fd)
            Node == subscription_node(Names, Names)
<1>1. /\ srv = "running" /\ k # 0
      /\ Member(k) \in Members
      /\ Member(k).id = connected_clients[k].id
      /\ Member(k).id \in Names
      /\ Member(k).id # EmptyString
  BY Named DEF TCP_server_subscribe
<1>2. UNCHANGED <<srv, connected_clients, sock>>
  BY DEF TCP_server_subscribe, Received
<1>3. PICK topic \in TCP_server_get_sub_args(m) :
        subscriptions' = IF ClientIdx(fd) = 0 THEN subscriptions
                         ELSE subscriptions_add_subscription(subscriptions,
                                [topic |-> topic,
                                 subscriber_id |-> connected_clients[ClientIdx(fd)].id])
  BY DEF TCP_server_subscribe
<1>. HIDE DEF k
<1>4. topic \in Names
  BY DEF TCP_server_get_sub_args, Packet, Names
<1>. DEFINE a == [topic |-> topic, subscriber_id |-> connected_clients[k].id]
<1>5. a \in Node /\ a = R!Own(Member(k), topic)
  BY <1>1, <1>4 DEF subscription_node, R!Own
<1>6. subscriptions' = subscriptions_add_subscription(subscriptions, a)
  BY <1>1, <1>3 DEF k
<1>. HIDE DEF a
<1>7. subscriptions' = <<a>> \o subscriptions
  BY <1>6 DEF subscriptions_add_subscription
<1>8. subscriptions \in Seq(Node)
  BY DEF IInv, TypeOK, ServerTypeOK
<1>9. \A s \in Node : Copies'[s] = IF s = a THEN Copies[s] + 1 ELSE Copies[s]
  <2>. SUFFICES ASSUME NEW s \in Node
                PROVE  Copies'[s] = IF s = a THEN Copies[s] + 1 ELSE Copies[s]
    OBVIOUS
  <2>1. Copies[s] = Cardinality(Places(subscriptions, s))
    BY CopiesArePlaces
  <2>2. Copies'[s] = Cardinality(Places(subscriptions', s))
    <3>1. s = [topic |-> s.topic, subscriber_id |-> s.subscriber_id]
      BY DEF subscription_node
    <3>. QED  BY <3>1 DEF Copies, Count, Places
  <2>3. Cardinality(Places(subscriptions', s)) =
           IF s = a THEN Cardinality(Places(subscriptions, s)) + 1
                    ELSE Cardinality(Places(subscriptions, s))
    BY <1>5, <1>7, <1>8, CountAfterAdd
  <2>. QED  BY <2>1, <2>2, <2>3
<1>10. Copies' = [Copies EXCEPT ![a] = @ + 1]
  <2>1. Copies = [s \in Node |-> Copies[s]] /\ Copies' = [s \in Node |-> Copies'[s]]
    BY DEF Copies
  <2>. HIDE DEF Node
  <2>. QED  BY <1>5, <1>9, <2>1
<1>11. R!Subscribe(Member(k), topic)
  <2>1. Members' = Members
    BY <1>2 DEF Members
  <2>. QED  BY <1>1, <1>2, <1>5, <1>10, <2>1 DEF R!Subscribe
<1>. QED  BY <1>1, <1>4, <1>11 DEF R!Next

LEMMA UnsubscribeIsUnsubscribe ==
  ASSUME IInv, IdInv, NEW i \in Slots, NEW fd \in ClientFds, ClientEvent(i, fd),
         NEW m \in Packet, TCP_server_unsubscribe(i, fd, m)
  PROVE  [R!Next]_(R!registryVars)
<1>. DEFINE k == ClientIdx(fd)
            Node == subscription_node(Names, Names)
            u == Unsubscribed(fd, m)
            topic == m.payload
<1>1. /\ srv = "running" /\ k # 0
      /\ Member(k) \in Members
      /\ Member(k).id = connected_clients[k].id
      /\ Member(k).id \in Names
      /\ Member(k).id # EmptyString
  BY Named DEF TCP_server_unsubscribe
<1>2. CASE subscriptions_remove_faults(subscriptions, u)
  <2>1. ServerEnds("crashed", recv_rest(fd))
    BY <1>2 DEF TCP_server_unsubscribe
  <2>. QED  BY <1>1, <2>1, StopStep DEF ServerEnds, listVars
<1>3. CASE ~subscriptions_remove_faults(subscriptions, u)
  <2>1. /\ subscriptions' = subscriptions_remove_subscription(subscriptions, u)
        /\ UNCHANGED <<srv, connected_clients, sock>>
    BY <1>3 DEF TCP_server_unsubscribe, Received
  <2>2. u = subscriptions_find(subscriptions, topic, connected_clients[k].id)
    BY <1>1 DEF Unsubscribed
  <2>. HIDE DEF u, k
  <2>3. subscriptions \in Seq(Node) /\ Len(subscriptions) \in Nat
    BY LenProperties DEF IInv, TypeOK, ServerTypeOK
  <2>4. /\ u \in 0 .. Len(subscriptions)
        /\ u # 0 => /\ subscriptions[u].topic = topic
                    /\ subscriptions[u].subscriber_id = connected_clients[k].id
    BY <2>2, <2>3, FindSubscription
  <2>5. CASE u = 0
    BY <2>1, <2>5, Untouched DEF subscriptions_remove_subscription
  <2>6. CASE u # 0
    <3>. DEFINE a == [topic |-> topic, subscriber_id |-> connected_clients[k].id]
    <3>1. u \in 1 .. Len(subscriptions)
      BY <2>3, <2>4, <2>6
    <3>2. subscriptions[u] \in Node
      BY <2>3, <3>1, ElementOfSeq
    <3>3. subscriptions[u] = a /\ a \in Node
      BY <2>4, <2>6, <3>2 DEF subscription_node
    <3>4. a = R!Own(Member(k), topic)
      BY <1>1 DEF R!Own, k
    <3>. HIDE DEF a
    <3>5. subscriptions' = RemoveAt(subscriptions, u)
      BY <2>1, <2>6 DEF subscriptions_remove_subscription
    <3>6. \A s \in Node : Copies'[s] = IF s = a THEN Copies[s] - 1 ELSE Copies[s]
      <4>. SUFFICES ASSUME NEW s \in Node
                    PROVE  Copies'[s] = IF s = a THEN Copies[s] - 1 ELSE Copies[s]
        OBVIOUS
      <4>1. Copies[s] = Cardinality(Places(subscriptions, s))
        BY CopiesArePlaces
      <4>2. Copies'[s] = Cardinality(Places(subscriptions', s))
        <5>1. s = [topic |-> s.topic, subscriber_id |-> s.subscriber_id]
          BY DEF subscription_node
        <5>. QED  BY <5>1 DEF Copies, Count, Places
      <4>3. Cardinality(Places(subscriptions', s)) =
               IF s = a THEN Cardinality(Places(subscriptions, s)) - 1
                        ELSE Cardinality(Places(subscriptions, s))
        BY <2>3, <3>1, <3>3, <3>5, CountAfterRemove
      <4>. QED  BY <4>1, <4>2, <4>3
    <3>7. Copies' = [Copies EXCEPT ![a] = @ - 1]
      <4>1. Copies = [s \in Node |-> Copies[s]] /\ Copies' = [s \in Node |-> Copies'[s]]
        BY DEF Copies
      <4>. HIDE DEF Node
      <4>. QED  BY <3>3, <3>6, <4>1
    <3>8. Copies[a] > 0
      <4>1. Copies[a] = Cardinality(Places(subscriptions, a))
        BY <3>3, CopiesArePlaces
      <4>2. u \in Places(subscriptions, a)
        BY <3>1, <3>3 DEF Places
      <4>3. /\ Cardinality(Places(subscriptions, a)) \in Nat
            /\ Cardinality(Places(subscriptions, a)) # 0
        BY <2>3, <4>2, PlacesFinite
      <4>. QED  BY <4>1, <4>3
    <3>9. R!Unsubscribe(Member(k), topic)
      <4>1. Members' = Members
        BY <2>1 DEF Members
      <4>2. Member(k).id # EmptyString
        BY <1>1 DEF k
      <4>. QED  BY <1>1, <2>1, <3>4, <3>7, <3>8, <4>1, <4>2 DEF R!Unsubscribe
    <3>10. topic \in Names /\ Member(k) \in Members
      BY <1>1 DEF Packet, k
    <3>. QED  BY <3>9, <3>10 DEF R!Next
  <2>. QED  BY <2>5, <2>6
<1>. QED  BY <1>2, <1>3

-----------------------------------------------------------------------------
(* Every step.                                                             *)

LEMMA InitIsInit == Init => R!Init
<1>. SUFFICES ASSUME Init PROVE R!Init
  OBVIOUS
<1>. USE DEF Init, ServerInit
<1>1. Members = {}
  BY DEF Members
<1>2. Copies = [s \in R!Subscription |-> 0]
  <2>1. \A topic, id : Count(topic, id) = 0
    BY FS_EmptySet DEF Count
  <2>. QED  BY <2>1, SameSubscriptions DEF Copies
<1>. QED  BY <1>1, <1>2 DEF R!Init

LEMMA ServerStepMaps ==
  ASSUME IInv, IdInv, ServerStep
  PROVE  [R!Next]_(R!registryVars)
<1>1. CASE Poll
  BY <1>1, Untouched DEF Poll, netVars, listVars
<1>2. ASSUME NEW i \in Slots, UnknownCommand(i) PROVE [R!Next]_(R!registryVars)
  BY <1>2, Untouched DEF UnknownCommand, listVars
<1>3. ASSUME NEW i \in Slots,
             server_exit(i) \/ SendStatusUnassigned(i) \/ AcceptFails(i) \/ PollerOverflows(i) \/ CommandOverflows(i)
      PROVE  [R!Next]_(R!registryVars)
  <2>1. srv = "running"
    BY <1>3 DEF server_exit, SendStatusUnassigned, AcceptFails, PollerOverflows, CommandOverflows, Event
  <2>2. srv' # "running" /\ UNCHANGED subscriptions
    BY <1>3 DEF server_exit, SendStatusUnassigned, AcceptFails, PollerOverflows, CommandOverflows, ServerEnds, listVars
  <2>. QED  BY <2>1, <2>2, StopStep
<1>4. ASSUME NEW i \in Slots, UDP_server_recv(i) PROVE [R!Next]_(R!registryVars)
  <2>1. srv = "running"
    BY <1>4 DEF UDP_server_recv, Event
  <2>2. \/ srv' # "running" /\ UNCHANGED subscriptions
        \/ UNCHANGED <<srv, connected_clients, sock, subscriptions>>
    BY <1>4 DEF UDP_server_recv, ServerEnds, listVars
  <2>. QED  BY <2>1, <2>2, StopStep, Untouched
<1>5. ASSUME NEW i \in Slots, TCP_server_accept_connection(i) PROVE [R!Next]_(R!registryVars)
  BY <1>5, AcceptIsJoin
<1>6. ASSUME NEW i \in Slots, NEW fd \in ClientFds, Disconnect(i, fd)
      PROVE  [R!Next]_(R!registryVars)
  BY <1>6, CloseIsLeave DEF Disconnect
<1>7. ASSUME NEW i \in Slots, NEW fd \in ClientFds, TCP_message(i, fd)
      PROVE  [R!Next]_(R!registryVars)
  <2>1. ClientEvent(i, fd)
    BY <1>7 DEF TCP_message
  <2>2. PICK m \in recv_packet(sock[fd]) :
          \/ RegisterClient(i, fd, m)
          \/ RejectClient(i, fd, m)
          \/ TCP_server_subscribe(i, fd, m)
          \/ TCP_server_unsubscribe(i, fd, m)
          \/ RepeatedNew(i, fd, m)
    BY <1>7 DEF TCP_message
  <2>3. m \in Packet
    BY <2>1, ClientOf, PacketType
  <2>4. CASE RegisterClient(i, fd, m)
    BY <2>1, <2>3, <2>4, NewIsRegister
  <2>5. CASE RejectClient(i, fd, m)
    BY <2>1, <2>5, CloseIsLeave DEF RejectClient
  <2>6. CASE TCP_server_subscribe(i, fd, m)
    BY <2>1, <2>3, <2>6, SubscribeIsSubscribe
  <2>7. CASE TCP_server_unsubscribe(i, fd, m)
    BY <2>1, <2>3, <2>7, UnsubscribeIsUnsubscribe
  <2>8. CASE RepeatedNew(i, fd, m)
    BY <2>8, Untouched DEF RepeatedNew, Received
  <2>. QED  BY <2>2, <2>4, <2>5, <2>6, <2>7, <2>8
<1>. QED  BY <1>1, <1>2, <1>3, <1>4, <1>5, <1>6, <1>7 DEF ServerStep, run_server

LEMMA StepMaps == IInv /\ IdInv /\ [Next]_vars => [R!Next]_(R!registryVars)
<1>. SUFFICES ASSUME IInv, IdInv, [Next]_vars PROVE [R!Next]_(R!registryVars)
  OBVIOUS
<1>1. CASE ServerStep
  BY <1>1, ServerStepMaps
<1>2. ASSUME NEW p \in Procs, Start(p) PROVE [R!Next]_(R!registryVars)
  <2>1. UNCHANGED <<serverVars, sock>>
    BY <1>2 DEF Start, Connect, ConnectRefused
  <2>. QED  BY <2>1, Untouched DEF serverVars, listVars
<1>3. ASSUME NEW p \in Procs, SubscriberStep(p) PROVE [R!Next]_(R!registryVars)
  <2>1. UNCHANGED <<serverVars, sock>>
    BY <1>3 DEF SubscriberStep, run_client, Push, SendFails, Hangup
  <2>. QED  BY <2>1, Untouched DEF serverVars, listVars
<1>4. ASSUME NEW p \in Procs, UserStep(p) PROVE [R!Next]_(R!registryVars)
  <2>1. UNCHANGED <<serverVars, sock>>
    BY <1>4 DEF UserStep, User, BeginCommand, UnknownWord, SubscribeCommand,
                UnsubscribeCommand, Command, netVars, ExitCommand, Kill
  <2>. QED  BY <2>1, Untouched DEF serverVars, listVars
<1>5. CASE \/ \E cmd \in Commands : TypeCommand(cmd)
           \/ \E t \in Trailers : TypeTrailer(t)
           \/ \E topic \in Topics : SendDatagram(topic)
  BY <1>5, Untouched DEF TypeCommand, TypeTrailer, SendDatagram, serverVars, listVars
<1>6. CASE UNCHANGED vars
  BY <1>6, Untouched DEF vars, netVars, serverVars, listVars
<1>. QED  BY <1>1, <1>2, <1>3, <1>4, <1>5, <1>6 DEF Next

\* The server is a registry of its clients and their subscriptions (PubSub.
\* ImplementsRegistry), for any number of subscribers, ids and topics, and any
\* size of the packets and of the poller's array.
THEOREM ServerImplementsRegistry == Spec => ImplementsRegistry
<1>1. Init => IdInv
  BY DEF Init, ServerInit, IdInv, UniqueIds, NewHasNoId
<1>2. Spec => [](IInv /\ IdInv)
  BY <1>1, NextPreservesIdInv, InductiveInvariant, PTL DEF Spec
<1>3. Spec => R!Init /\ [][R!Next]_(R!registryVars)
  BY <1>2, InitIsInit, StepMaps, PTL DEF Spec
<1>. QED  BY <1>3 DEF ImplementsRegistry, R!Spec
=============================================================================
