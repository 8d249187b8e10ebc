--------------------------- MODULE LinkedListProofs ---------------------------
(***************************************************************************)
(* For any number of addresses, descriptors and ids: the pointers of       *)
(* clients.c keep the list together, and they implement the sequence of    *)
(* ClientsListSpec.  Nothing is assumed of the contents of the nodes, so   *)
(* the invariant is as good for subscriptions.c, where nodes can be equal. *)
(***************************************************************************)
EXTENDS LinkedList, ListProofs

\* What the invariant says of the addresses of the list.
LEMMA OrderFacts ==
  ASSUME IInv
  PROVE  /\ order \in Seq(Addresses) /\ Len(order) \in Nat
         /\ \A k \in 1 .. Len(order) :
               /\ order[k] \in Addresses /\ order[k] # NULL
               /\ mem[order[k]] \in Nodes /\ mem[order[k]].allocated
         /\ order = <<>> <=> Len(order) = 0
<1>1. order \in Seq(Addresses) /\ mem \in [Addresses -> Nodes] /\ NULL \notin Addresses
  BY ListAssumption DEF IInv, TypeOK
<1>2. Len(order) \in Nat
  BY <1>1, LenProperties
<1>3. \A k \in 1 .. Len(order) : order[k] \in Addresses
  BY <1>1, ElementOfSeq
<1>4. \A k \in 1 .. Len(order) : mem[order[k]].allocated
  BY <1>3 DEF IInv, Owned
<1>5. order = <<>> <=> Len(order) = 0
  BY <1>1, EmptySeq
<1>. QED  BY <1>1, <1>2, <1>3, <1>4, <1>5

\* Comparing contents and neighbours recognizes the head and nothing else,
\* since no two nodes have the same next.
LEMMA HeadRecognized ==
  ASSUME IInv, NEW n \in 1 .. Len(order)
  PROVE  /\ clients_list_is_head(order[n]) <=> n = 1
         /\ head = order[1] /\ ~Dangles(head)
<1>1. /\ Len(order) \in Nat
      /\ \A k \in 1 .. Len(order) :
            order[k] # NULL /\ mem[order[k]].allocated /\ mem[order[k]] \in Nodes
      /\ order # <<>>
  BY OrderFacts
<1>2. head = order[1] /\ ~Dangles(head)
  BY <1>1 DEF IInv, Linked, Dangles
<1>3. ASSUME n # 1, clients_list_is_head(order[n]) PROVE FALSE
  <2>1. mem[order[1]].next = order[2]
    BY <1>1, <1>3 DEF IInv, Linked
  <2>2. mem[order[n]].next = IF n = Len(order) THEN NULL ELSE order[n + 1]
    BY DEF IInv, Linked
  <2>3. mem[order[1]].next = mem[order[n]].next
    BY <1>2, <1>3 DEF clients_list_is_head
  <2>a. 2 \in 1 .. Len(order) /\ order[2] # NULL
    BY <1>1, <1>3
  <2>b. n # Len(order)
    BY <2>1, <2>2, <2>3, <2>a
  <2>4. order[2] = order[n + 1] /\ 2 \in 1 .. Len(order) /\ n + 1 \in 1 .. Len(order)
    BY <1>1, <2>1, <2>2, <2>3, <2>a, <2>b
  <2>5. 2 = n + 1
    BY <2>4 DEF IInv, Owned
  <2>. QED  BY <1>1, <1>3, <2>5
<1>. QED  BY <1>2, <1>3 DEF clients_list_is_head

LEMMA PlaceIs ==
  ASSUME IInv, NEW n \in 1 .. Len(order)
  PROVE  Place(order[n]) = n
  BY DEF Place, IInv, Owned

-----------------------------------------------------------------------------
(* The two ways of unlinking a node, and adding one.                       *)

\* What is left when the n-th node has been taken out of the order.
LEMMA RemovedOrder ==
  ASSUME IInv, NEW n \in 1 .. Len(order), order' = RemoveAt(order, n)
  PROVE  /\ order' \in Seq(Addresses) /\ Len(order') = Len(order) - 1
         /\ \A i \in 1 .. Len(order) - 1 : order'[i] = IF i < n THEN order[i] ELSE order[i + 1]
  BY OrderFacts, RemoveNode

\* The structure after a removal, whichever neighbours were written: every
\* other node keeps its client, and its pointers except those to the n-th.
LEMMA RemovalKeeps ==
  ASSUME IInv, NEW n \in 1 .. Len(order),
         order' = RemoveAt(order, n),
         mem' \in [Addresses -> Nodes],
         ~mem'[order[n]].allocated,
         \A p \in Addresses \ {order[n]} : mem'[p].allocated = mem[p].allocated,
         \A i \in 1 .. Len(order) : i # n =>
            /\ mem'[order[i]].next = IF i = n - 1 THEN mem[order[n]].next ELSE mem[order[i]].next
            /\ i # n + 1 => mem'[order[i]].prev = mem[order[i]].prev
            /\ i = n + 1 /\ n # 1 => mem'[order[i]].prev = order[n - 1],
         head' = IF n = 1 THEN mem[order[1]].next ELSE head,
         phase' # "destroyed"
  PROVE  Linked' /\ Owned'
<1>. DEFINE L == Len(order)
<1>1. /\ L \in Nat /\ order' \in Seq(Addresses) /\ Len(order') = L - 1
      /\ \A i \in 1 .. L - 1 : order'[i] = IF i < n THEN order[i] ELSE order[i + 1]
      /\ \A i \in 1 .. L : order[i] \in Addresses
  BY RemovedOrder, OrderFacts
<1>2. \A k \in 1 .. L : /\ mem[order[k]].next = IF k = L THEN NULL ELSE order[k + 1]
                        /\ k # 1 => mem[order[k]].prev = order[k - 1]
  BY DEF IInv, Linked
<1>3. \A j, k \in 1 .. L : order[j] = order[k] => j = k
  BY DEF IInv, Owned
<1>4. \A p \in Addresses : mem[p].allocated <=> \E k \in 1 .. L : order[k] = p
  BY DEF IInv, Owned
<1>5. order' = <<>> <=> L = 1
  BY <1>1, EmptySeq
<1>6. head = order[1]
  BY HeadRecognized
<1>. HIDE DEF L
<1>7. head' = IF order' = <<>> THEN NULL ELSE order'[1]
  <2>1. CASE n = 1
    <3>1. head' = IF 1 = L THEN NULL ELSE order[2]
      BY <1>1, <1>2, <2>1 DEF L
    <3>. QED  BY <1>1, <1>5, <2>1, <3>1 DEF L
  <2>2. CASE n # 1
    BY <1>1, <1>5, <1>6, <2>2 DEF L
  <2>. QED  BY <2>1, <2>2
<1>8. ASSUME NEW k \in 1 .. Len(order')
      PROVE  /\ mem'[order'[k]].next = IF k = Len(order') THEN NULL ELSE order'[k + 1]
             /\ k # 1 => mem'[order'[k]].prev = order'[k - 1]
  <2>0. k \in 1 .. L - 1
    BY <1>1
  <2>1. n \in 1 .. L /\ Len(order') = L - 1 /\ L \in Nat
    BY <1>1 DEF L
  <2>2. ASSUME NEW i \in 1 .. L, i # n
        PROVE  /\ mem'[order[i]].next = IF i = n - 1 THEN mem[order[n]].next ELSE mem[order[i]].next
               /\ i # n + 1 => mem'[order[i]].prev = mem[order[i]].prev
               /\ i = n + 1 /\ n # 1 => mem'[order[i]].prev = order[n - 1]
    BY <2>2 DEF L
  <2>3. CASE k < n
    <3>1. order'[k] = order[k] /\ (k # 1 => order'[k - 1] = order[k - 1]) /\ k \in 1 .. L
      BY <1>1, <2>0, <2>1, <2>3
    <3>2. mem'[order[k]].next = (IF k = n - 1 THEN mem[order[n]].next ELSE mem[order[k]].next)
          /\ mem'[order[k]].prev = mem[order[k]].prev
      BY <2>0, <2>1, <2>2, <2>3, <3>1
    <3>3. mem[order[n]].next = IF n = L THEN NULL ELSE order[n + 1]
      BY <1>2, <2>1
    <3>4. mem[order[k]].next = order[k + 1] /\ (k # 1 => mem[order[k]].prev = order[k - 1])
      <4>1. /\ mem[order[k]].next = IF k = L THEN NULL ELSE order[k + 1]
            /\ k # 1 => mem[order[k]].prev = order[k - 1]
        BY <1>2, <3>1
      <4>2. k # L
        BY <2>0, <2>1
      <4>. QED  BY <4>1, <4>2
    <3>5. k # L - 1 => order'[k + 1] = IF k = n - 1 THEN order[n + 1] ELSE order[k + 1]
      BY <1>1, <2>0, <2>1, <2>3
    <3>. QED  BY <2>0, <2>1, <2>3, <3>1, <3>2, <3>3, <3>4, <3>5
  <2>4. CASE k >= n
    <3>1. /\ order'[k] = order[k + 1] /\ k + 1 \in 1 .. L /\ k + 1 # n
          /\ k # 1 => order'[k - 1] = IF k = n THEN order[n - 1] ELSE order[k]
      BY <1>1, <2>0, <2>1, <2>4
    <3>2. /\ mem'[order[k + 1]].next = mem[order[k + 1]].next
          /\ k # n => mem'[order[k + 1]].prev = mem[order[k + 1]].prev
          /\ k = n /\ n # 1 => mem'[order[k + 1]].prev = order[n - 1]
      BY <2>0, <2>1, <2>2, <2>4, <3>1
    <3>3. /\ mem[order[k + 1]].next = IF k + 1 = L THEN NULL ELSE order[k + 2]
          /\ mem[order[k + 1]].prev = order[k]
      <4>1. /\ mem[order[k + 1]].next = IF k + 1 = L THEN NULL ELSE order[(k + 1) + 1]
            /\ k + 1 # 1 => mem[order[k + 1]].prev = order[(k + 1) - 1]
        BY <1>2, <3>1
      <4>2. (k + 1) + 1 = k + 2 /\ (k + 1) - 1 = k /\ k + 1 # 1
        BY <2>0, <2>1
      <4>. QED  BY <4>1, <4>2
    <3>4. k # L - 1 => order'[k + 1] = order[k + 2]
      BY <1>1, <2>0, <2>1, <2>4
    <3>. QED  BY <2>0, <2>1, <2>4, <3>1, <3>2, <3>3, <3>4
  <2>. QED  BY <2>0, <2>1, <2>3, <2>4
<1>9. \A j, k \in 1 .. Len(order') : order'[j] = order'[k] => j = k
  BY <1>1, <1>3 DEF L
<1>10. ASSUME NEW p \in Addresses
       PROVE  mem'[p].allocated <=> \E k \in 1 .. Len(order') : order'[k] = p
  <2>1. CASE p = order[n]
    <3>1. \A k \in 1 .. Len(order') : order'[k] # p
      BY <1>1, <1>3, <2>1 DEF L
    <3>. QED  BY <2>1, <3>1
  <2>2. CASE p # order[n]
    <3>1. mem'[p].allocated = mem[p].allocated
      BY <2>2
    <3>2. ASSUME NEW k \in 1 .. L, order[k] = p PROVE \E j \in 1 .. Len(order') : order'[j] = p
      <4>1. k # n /\ n \in 1 .. L
        BY <2>2, <3>2 DEF L
      <4>2. CASE k < n
        <5>1. k \in 1 .. Len(order') /\ order'[k] = p
          BY <1>1, <3>2, <4>1, <4>2
        <5>. QED  BY <5>1
      <4>3. CASE k > n
        <5>1. k - 1 \in 1 .. Len(order') /\ order'[k - 1] = p
          BY <1>1, <3>2, <4>1, <4>3
        <5>. QED  BY <5>1
      <4>. QED  BY <4>1, <4>2, <4>3
    <3>3. ASSUME NEW j \in 1 .. Len(order'), order'[j] = p PROVE \E k \in 1 .. L : order[k] = p
      <4>1. j \in 1 .. L /\ j + 1 \in 1 .. L /\ (order[j] = p \/ order[j + 1] = p)
        BY <1>1, <3>3
      <4>. QED  BY <4>1
    <3>. QED  BY <1>4, <3>1, <3>2, <3>3
  <2>. QED  BY <2>1, <2>2
<1>. QED  BY <1>7, <1>8, <1>9, <1>10 DEF Linked, Owned

\* What linked writes: the new node, and the prev of the old head.
LEMMA LinkedMemory ==
  ASSUME IInv, NEW p \in Addresses, NEW fd \in Fds, head # p
  PROVE  /\ linked(p, fd) \in [Addresses -> Nodes]
         /\ linked(p, fd)[p] = [allocated |-> TRUE, client |-> New(fd), prev |-> NULL, next |-> head]
         /\ head # NULL => linked(p, fd)[head] = [mem[head] EXCEPT !.prev = p]
         /\ \A q \in Addresses \ {p, head} : linked(p, fd)[q] = mem[q]
<1>1. /\ mem \in [Addresses -> Nodes] /\ head \in Pointers /\ NULL \notin Addresses
      /\ New(fd) \in Clients
  BY ListAssumption DEF IInv, TypeOK, New, Clients, client_node, CLIENT_STATE_NEW
<1>2. [allocated |-> TRUE, client |-> New(fd), prev |-> NULL, next |-> head] \in Nodes
  BY <1>1 DEF Nodes, Pointers
<1>3. \A q \in Addresses : mem[q] \in Nodes /\ [mem[q] EXCEPT !.prev = p] \in Nodes
  BY <1>1 DEF Nodes, Pointers
<1>4. \A q \in Addresses :
        linked(p, fd)[q] = IF q = p THEN [allocated |-> TRUE, client |-> New(fd), prev |-> NULL, next |-> head]
                           ELSE IF q = head THEN [mem[q] EXCEPT !.prev = p] ELSE mem[q]
  BY DEF linked
<1>5. linked(p, fd) \in [Addresses -> Nodes]
  <2>1. linked(p, fd) = [q \in Addresses |-> linked(p, fd)[q]]
    BY DEF linked
  <2>2. \A q \in Addresses : linked(p, fd)[q] \in Nodes
    BY <1>2, <1>3, <1>4
  <2>. QED  BY <2>1, <2>2
<1>. QED  BY <1>1, <1>4, <1>5 DEF Pointers

LEMMA AddStep ==
  ASSUME IInv, NEW fd \in Fds, AddClient(fd)
  PROVE  /\ IInv'
         /\ \E p \in Addresses :
               /\ order' = <<p>> \o order
               /\ mem'[p].client = New(fd)
               /\ \A k \in 1 .. Len(order) : mem'[order[k]].client = mem[order[k]].client
<1>1. /\ order \in Seq(Addresses) /\ Len(order) \in Nat
      /\ \A k \in 1 .. Len(order) : order[k] \in Addresses /\ order[k] # NULL
      /\ \A k \in 1 .. Len(order) : mem[order[k]] \in Nodes /\ mem[order[k]].allocated
      /\ order = <<>> <=> Len(order) = 0
  BY OrderFacts
<1>2. /\ head = IF order = <<>> THEN NULL ELSE order[1]
      /\ ~Dangles(head)
  BY <1>1 DEF IInv, Linked, Dangles
<1>3. PICK p \in Addresses : /\ ~mem[p].allocated
                             /\ mem' = linked(p, fd)
                             /\ head' = p
                             /\ order' = <<p>> \o order
                             /\ UNCHANGED <<phase, call, current>>
  BY <1>2 DEF AddClient
<1>4. \A k \in 1 .. Len(order) : order[k] # p
  BY <1>1, <1>3
<1>5. head # p
  BY <1>1, <1>2, <1>3, ListAssumption
<1>6. /\ mem' \in [Addresses -> Nodes]
      /\ mem'[p] = [allocated |-> TRUE, client |-> New(fd), prev |-> NULL, next |-> head]
      /\ head # NULL => mem'[head] = [mem[head] EXCEPT !.prev = p]
      /\ \A q \in Addresses \ {p, head} : mem'[q] = mem[q]
  BY <1>3, <1>5, LinkedMemory
<1>7. /\ order' \in Seq(Addresses) /\ Len(order') = Len(order) + 1
      /\ order'[1] = p
      /\ \A i \in 2 .. Len(order) + 1 : order'[i] = order[i - 1]
  BY <1>1, <1>3, AddAtHead
<1>8. \A k \in 1 .. Len(order) :
        /\ mem'[order[k]].next = mem[order[k]].next
        /\ mem'[order[k]].client = mem[order[k]].client
        /\ mem'[order[k]].allocated
        /\ mem'[order[k]].prev = IF k = 1 THEN p ELSE mem[order[k]].prev
  <2>1. SUFFICES ASSUME NEW k \in 1 .. Len(order)
                 PROVE  /\ mem'[order[k]].next = mem[order[k]].next
                        /\ mem'[order[k]].client = mem[order[k]].client
                        /\ mem'[order[k]].allocated
                        /\ mem'[order[k]].prev = IF k = 1 THEN p ELSE mem[order[k]].prev
    OBVIOUS
  <2>2. mem[order[k]] \in Nodes /\ mem[order[k]].allocated /\ order[k] \in Addresses
    BY <1>1
  <2>3. CASE k = 1
    <3>1. order[k] = head /\ head # NULL
      BY <1>1, <1>2, <2>3
    <3>. QED  BY <1>6, <2>2, <2>3, <3>1 DEF Nodes
  <2>4. CASE k # 1
    <3>1. order[k] # head /\ order[k] # p
      <4>1. order # <<>> /\ 1 \in 1 .. Len(order)
        BY <1>1
      <4>2. order[k] # order[1]
        BY <2>4, <4>1 DEF IInv, Owned
      <4>. QED  BY <1>2, <1>4, <4>1, <4>2
    <3>. QED  BY <1>6, <2>2, <2>4, <3>1
  <2>. QED  BY <2>3, <2>4
<1>9. Linked'
  <2>1. head' = order'[1] /\ order' # <<>>
    BY <1>1, <1>3, <1>7, EmptySeq
  <2>2. ASSUME NEW k \in 1 .. Len(order')
        PROVE  /\ mem'[order'[k]].next = IF k = Len(order') THEN NULL ELSE order'[k + 1]
               /\ k # 1 => mem'[order'[k]].prev = order'[k - 1]
    <3>1. CASE k = 1
      <4>1. mem'[order'[k]].next = head
        BY <1>6, <1>7, <3>1
      <4>2. CASE Len(order) = 0
        BY <1>1, <1>2, <1>7, <3>1, <4>1, <4>2
      <4>3. CASE Len(order) # 0
        <5>1. order'[2] = order[1]
          BY <1>1, <1>7, <4>3
        <5>. QED  BY <1>1, <1>2, <1>7, <3>1, <4>1, <4>3, <5>1
      <4>. QED  BY <4>2, <4>3
    <3>2. CASE k # 1
      <4>1. k - 1 \in 1 .. Len(order) /\ order'[k] = order[k - 1] /\ k \in Nat
        BY <1>1, <1>7, <3>2
      <4>2. /\ mem[order[k - 1]].next = IF k - 1 = Len(order) THEN NULL ELSE order[(k - 1) + 1]
            /\ k - 1 # 1 => mem[order[k - 1]].prev = order[(k - 1) - 1]
        BY <4>1 DEF IInv, Linked
      <4>3. /\ mem'[order[k - 1]].next = mem[order[k - 1]].next
            /\ mem'[order[k - 1]].prev = IF k - 1 = 1 THEN p ELSE mem[order[k - 1]].prev
        BY <1>8, <4>1
      <4>4. k - 1 # Len(order) => order'[k + 1] = order[(k - 1) + 1]
        <5>1. k - 1 # Len(order) => k + 1 \in 2 .. Len(order) + 1
          BY <1>1, <4>1
        <5>2. (k + 1) - 1 = (k - 1) + 1
          BY <4>1
        <5>. QED  BY <1>7, <5>1, <5>2
      <4>5. order'[k - 1] = IF k - 1 = 1 THEN p ELSE order[(k - 1) - 1]
        BY <1>1, <1>7, <4>1
      <4>. QED  BY <1>1, <1>7, <4>1, <4>2, <4>3, <4>4, <4>5
    <3>. QED  BY <3>1, <3>2
  <2>. QED  BY <2>1, <2>2 DEF Linked
<1>10. Owned'
  <2>1. ASSUME NEW j \in 1 .. Len(order'), NEW k \in 1 .. Len(order'), order'[j] = order'[k]
        PROVE  j = k
    <3>1. \A i \in 1 .. Len(order') : i # 1 => i - 1 \in 1 .. Len(order) /\ order'[i] = order[i - 1]
      BY <1>1, <1>7
    <3>2. \A i \in 1 .. Len(order') : i # 1 => order'[i] # p
      BY <1>4, <3>1
    <3>3. CASE j = 1 \/ k = 1
      BY <1>7, <2>1, <3>2, <3>3
    <3>4. CASE j # 1 /\ k # 1
      <4>1. j - 1 \in 1 .. Len(order) /\ k - 1 \in 1 .. Len(order) /\ order[j - 1] = order[k - 1]
        BY <2>1, <3>1, <3>4
      <4>2. j - 1 = k - 1
        BY <4>1 DEF IInv, Owned
      <4>. QED  BY <1>1, <1>7, <4>2
    <3>. QED  BY <3>3, <3>4
  <2>2. ASSUME NEW q \in Addresses
        PROVE  mem'[q].allocated <=> \E k \in 1 .. Len(order') : order'[k] = q
    <3>1. CASE q = p
      <4>1. mem'[q].allocated
        BY <1>6, <3>1
      <4>2. 1 \in 1 .. Len(order') /\ order'[1] = q
        BY <1>1, <1>7, <3>1
      <4>. QED  BY <4>1, <4>2
    <3>2. CASE q # p
      <4>1. mem'[q].allocated = mem[q].allocated
        <5>1. CASE q = head
          BY <1>6, <3>2, <5>1, ListAssumption DEF IInv, TypeOK, Nodes
        <5>2. CASE q # head
          BY <1>6, <3>2, <5>2
        <5>. QED  BY <5>1, <5>2
      <4>2. mem[q].allocated <=> \E k \in 1 .. Len(order) : order[k] = q
        BY DEF IInv, Owned
      <4>3. ASSUME NEW k \in 1 .. Len(order), order[k] = q
            PROVE  \E j \in 1 .. Len(order') : order'[j] = q
        <5>1. k + 1 \in 1 .. Len(order') /\ order'[k + 1] = order[(k + 1) - 1] /\ (k + 1) - 1 = k
          BY <1>1, <1>7
        <5>. QED  BY <4>3, <5>1
      <4>4. ASSUME NEW j \in 1 .. Len(order'), order'[j] = q
            PROVE  \E k \in 1 .. Len(order) : order[k] = q
        <5>1. j # 1
          BY <1>7, <3>2, <4>4
        <5>2. j - 1 \in 1 .. Len(order) /\ order[j - 1] = q
          BY <1>1, <1>7, <4>4, <5>1
        <5>. QED  BY <5>2
      <4>. QED  BY <4>1, <4>2, <4>3, <4>4
    <3>. QED  BY <3>1, <3>2
  <2>3. phase' # "destroyed"
    BY <1>3 DEF AddClient
  <2>. QED  BY <2>1, <2>2, <2>3 DEF Owned
<1>11. TypeOK' /\ NoUseAfterFree' /\ Searching'
  <2>1. phase = "idle" /\ phase' = "idle"
    BY <1>3 DEF AddClient
  <2>. QED  BY <1>3, <1>6, <1>7, <2>1 DEF IInv, TypeOK, NoUseAfterFree, Searching, Pointers, Phases
<1>12. IInv'
  BY <1>9, <1>10, <1>11 DEF IInv
<1>13. mem'[p].client = New(fd)
  BY <1>6
<1>14. \A k \in 1 .. Len(order) : mem'[order[k]].client = mem[order[k]].client
  BY <1>8
<1>. QED  BY <1>3, <1>12, <1>13, <1>14

\* clients_list_remove_client on a node of the list: the last of several is
\* the one whose removal crashes, every other is taken out.
LEMMA RemoveStep ==
  ASSUME IInv, NEW n \in 1 .. Len(order), RemoveClient(order[n]),
         phase \in {"found", "destroy"}
  PROVE  /\ IInv'
         /\ \/ /\ n # 1 /\ n = Len(order)
               /\ phase' = "crashed"
               /\ UNCHANGED <<mem, head, call, current, order>>
            \/ /\ n = 1 \/ n # Len(order)
               /\ order' = RemoveAt(order, n)
               /\ \A k \in 1 .. Len(order) :
                     k # n => mem'[order[k]].client = mem[order[k]].client
               /\ phase' = IF phase = "found" THEN "idle" ELSE phase
<1>. DEFINE p == order[n]
<1>1. /\ order \in Seq(Addresses) /\ Len(order) \in Nat
      /\ \A k \in 1 .. Len(order) : /\ order[k] \in Addresses /\ order[k] # NULL
                                    /\ mem[order[k]] \in Nodes /\ mem[order[k]].allocated
      /\ NULL \notin Addresses
      /\ mem \in [Addresses -> Nodes]
  BY OrderFacts, ListAssumption DEF IInv, TypeOK
<1>2. /\ clients_list_is_head(p) <=> n = 1
      /\ head = order[1] /\ ~Dangles(head)
  BY HeadRecognized
<1>3. /\ mem[p].next = IF n = Len(order) THEN NULL ELSE order[n + 1]
      /\ n # 1 => mem[p].prev = order[n - 1]
  BY DEF IInv, Linked
<1>4. Unused \in Nodes /\ ~Unused.allocated
  BY ListAssumption
     DEF Unused, Nodes, New, SomeFd, Clients, client_node, CLIENT_STATE_NEW, Pointers
<1>5. \A j, k \in 1 .. Len(order) : order[j] = order[k] => j = k
  BY DEF IInv, Owned
<1>6. Place(p) = n
  BY PlaceIs
<1>. HIDE DEF p
<1>7. p = order[n] /\ p \in Addresses /\ n \in 1 .. Len(order)
  BY <1>1 DEF p
<1>8. RemoveClient(p)
  BY DEF p
<1>9. CASE n = 1
  <2>1. /\ head' = mem[head].next
        /\ mem' = [mem EXCEPT ![p] = Unused]
        /\ order' = RemoveAt(order, n)
        /\ IF phase = "found" THEN Leave ELSE UNCHANGED <<phase, call, current>>
    BY <1>2, <1>6, <1>8, <1>9 DEF RemoveClient
  <2>2. mem' \in [Addresses -> Nodes]
    BY <1>1, <1>4, <2>1
  <2>3. ~mem'[p].allocated
    BY <1>1, <1>4, <1>7, <2>1
  <2>4. \A q \in Addresses \ {p} : mem'[q] = mem[q]
    BY <1>1, <2>1
  <2>5. \A i \in 1 .. Len(order) : i # n => mem'[order[i]] = mem[order[i]]
    BY <1>1, <1>5, <1>7, <2>4
  <2>6. phase' # "destroyed" /\ phase' = (IF phase = "found" THEN "idle" ELSE phase)
    BY <2>1 DEF Leave
  <2>7. Linked' /\ Owned'
    <3>1. head' = IF n = 1 THEN mem[order[1]].next ELSE head
      BY <1>2, <1>9, <2>1
    <3>2. \A i \in 1 .. Len(order) : i # n => i # n - 1
      BY <1>1, <1>9
    <3>. QED  BY <1>7, <1>9, <2>1, <2>2, <2>3, <2>4, <2>5, <2>6, <3>1, <3>2, RemovalKeeps DEF p
  <2>8. TypeOK'
    <3>1. order' \in Seq(Addresses)
      BY <1>7, <2>1, RemovedOrder
    <3>2. head' \in Pointers
      BY <1>1, <1>2, <1>7, <1>9, <2>1 DEF Nodes
    <3>3. call' \in Calls /\ current' \in Pointers /\ phase' \in Phases
      BY <2>1, ListAssumption
         DEF IInv, TypeOK, Leave, NoCall, SomeFd, Calls, Pointers, Phases
    <3>. QED  BY <2>2, <3>1, <3>2, <3>3 DEF TypeOK
  <2>9. NoUseAfterFree' /\ Searching'
    BY <2>6 DEF NoUseAfterFree, Searching
  <2>. QED  BY <1>9, <2>1, <2>5, <2>6, <2>7, <2>8, <2>9 DEF IInv
<1>10. CASE n # 1 /\ n = Len(order)
  <2>1. Bad(mem[p].next) /\ mem[p].next = NULL
    BY <1>3, <1>10 DEF Bad
  <2>2. Fault(mem[p].next)
    BY <1>2, <1>8, <1>10, <2>1 DEF RemoveClient
  <2>3. phase' = "crashed" /\ UNCHANGED <<mem, head, call, current, order>>
    BY <2>1, <2>2 DEF Fault
  <2>4. IInv'
    BY <2>3 DEF IInv, TypeOK, Linked, Owned, NoUseAfterFree, Searching, Phases
  <2>. QED  BY <1>10, <2>3, <2>4
<1>11. CASE n # 1 /\ n # Len(order)
  <2>. DEFINE a == order[n - 1]
              b == order[n + 1]
  <2>0. n - 1 \in 1 .. Len(order) /\ n + 1 \in 1 .. Len(order)
    BY <1>1, <1>11
  <2>1. /\ mem[p].next = b /\ mem[p].prev = a
        /\ a \in Addresses /\ b \in Addresses
        /\ mem[a].allocated /\ mem[b].allocated /\ mem[a] \in Nodes /\ mem[b] \in Nodes
        /\ a # NULL /\ b # NULL
    BY <1>1, <1>3, <1>11, <2>0
  <2>2. a # b /\ a # p /\ b # p
    <3>1. n - 1 # n + 1 /\ n - 1 # n /\ n + 1 # n
      BY <1>1
    <3>. QED  BY <1>5, <1>7, <2>0, <3>1
  <2>. HIDE DEF a, b
  <2>3. ~Bad(b) /\ ~Bad(a)
    BY <2>1 DEF Bad, Dangles
  <2>4. /\ mem' = unlinked(p)
        /\ order' = RemoveAt(order, n)
        /\ IF phase = "found" THEN Leave ELSE UNCHANGED <<phase, call, current>>
        /\ UNCHANGED head
    BY <1>2, <1>6, <1>8, <1>11, <2>1, <2>3 DEF RemoveClient
  <2>5. mem' = [mem EXCEPT ![b].prev = a, ![a].next = b, ![p] = Unused]
    BY <2>1, <2>4 DEF unlinked
  <2>6. /\ mem'[b] = [mem[b] EXCEPT !.prev = a]
        /\ mem'[a] = [mem[a] EXCEPT !.next = b]
        /\ mem'[p] = Unused
        /\ \A q \in Addresses \ {a, b, p} : mem'[q] = mem[q]
    BY <1>1, <1>7, <2>1, <2>2, <2>5
  <2>7. mem' \in [Addresses -> Nodes]
    <3>1. [mem[b] EXCEPT !.prev = a] \in Nodes /\ [mem[a] EXCEPT !.next = b] \in Nodes
      BY <2>1 DEF Nodes, Pointers
    <3>2. \A q \in Addresses : mem'[q] \in Nodes
      BY <1>1, <1>4, <2>6, <3>1
    <3>3. mem' = [q \in Addresses |-> mem'[q]]
      BY <1>1, <2>5
    <3>. QED  BY <3>2, <3>3
  <2>8. \A q \in Addresses \ {p} : mem'[q].allocated = mem[q].allocated
    BY <2>1, <2>6 DEF Nodes
  <2>9. ASSUME NEW i \in 1 .. Len(order), i # n
        PROVE  /\ mem'[order[i]].client = mem[order[i]].client
               /\ mem'[order[i]].next = IF i = n - 1 THEN mem[p].next ELSE mem[order[i]].next
               /\ i # n + 1 => mem'[order[i]].prev = mem[order[i]].prev
               /\ i = n + 1 /\ n # 1 => mem'[order[i]].prev = a
    <3>0. i # n + 1 => order[i] # b
      BY <1>5, <2>0 DEF b
    <3>1. i # n - 1 => order[i] # a
      BY <1>5, <2>0 DEF a
    <3>2. order[i] # p /\ order[i] \in Addresses
      BY <1>1, <1>5, <1>7, <2>9
    <3>3. CASE i = n - 1
      <4>1. order[i] = a /\ i # n + 1
        BY <1>1, <3>3 DEF a
      <4>. QED  BY <2>1, <2>6, <3>3, <4>1 DEF Nodes
    <3>4. CASE i = n + 1
      <4>1. order[i] = b /\ i # n - 1
        BY <1>1, <3>4 DEF b
      <4>. QED  BY <2>1, <2>6, <3>4, <4>1 DEF Nodes
    <3>5. CASE i # n - 1 /\ i # n + 1
      BY <2>6, <3>0, <3>1, <3>2, <3>5
    <3>. QED  BY <3>3, <3>4, <3>5
  <2>10. phase' # "destroyed" /\ phase' = (IF phase = "found" THEN "idle" ELSE phase)
    BY <2>4 DEF Leave
  <2>11. Linked' /\ Owned'
    <3>1. head' = IF n = 1 THEN mem[order[1]].next ELSE head
      BY <1>11, <2>4
    <3>2. ~mem'[order[n]].allocated
      BY <1>4, <1>7, <2>6
    <3>3. \A i \in 1 .. Len(order) : i # n =>
            /\ mem'[order[i]].next = IF i = n - 1 THEN mem[order[n]].next ELSE mem[order[i]].next
            /\ i # n + 1 => mem'[order[i]].prev = mem[order[i]].prev
            /\ i = n + 1 /\ n # 1 => mem'[order[i]].prev = order[n - 1]
      BY <1>7, <2>9 DEF a
    <3>4. \A q \in Addresses \ {order[n]} : mem'[q].allocated = mem[q].allocated
      BY <1>7, <2>8
    <3>. QED  BY <1>7, <2>4, <2>7, <2>10, <3>1, <3>2, <3>3, <3>4, RemovalKeeps
  <2>12. TypeOK'
    <3>1. order' \in Seq(Addresses)
      BY <1>7, <2>4, RemovedOrder
    <3>2. call' \in Calls /\ current' \in Pointers /\ phase' \in Phases /\ head' \in Pointers
      BY <2>4, ListAssumption
         DEF IInv, TypeOK, Leave, NoCall, SomeFd, Calls, Pointers, Phases
    <3>. QED  BY <2>7, <3>1, <3>2 DEF TypeOK
  <2>13. NoUseAfterFree' /\ Searching'
    BY <2>10 DEF NoUseAfterFree, Searching
  <2>. QED  BY <1>11, <2>4, <2>9, <2>10, <2>11, <2>12, <2>13 DEF IInv
<1>. QED  BY <1>9, <1>10, <1>11

-----------------------------------------------------------------------------
(* The other steps, and the invariant.                                     *)

LEMMA InitIInv ==
  ASSUME Init PROVE IInv
<1>1. SomeFd \in Fds
  BY ListAssumption DEF SomeFd
<1>2. Unused \in Nodes /\ ~Unused.allocated
  BY <1>1 DEF Unused, Nodes, New, Clients, client_node, CLIENT_STATE_NEW, Pointers
<1>3. NoCall \in Calls
  BY <1>1 DEF NoCall, Calls
<1>4. order \in Seq(Addresses) /\ Len(order) = 0
  BY EmptySeq DEF Init
<1>5. TypeOK
  BY <1>2, <1>3, <1>4 DEF Init, TypeOK, Pointers, Phases
<1>6. Linked /\ Owned
  BY <1>2, <1>4 DEF Init, Linked, Owned
<1>. QED  BY <1>5, <1>6 DEF Init, IInv, NoUseAfterFree, Searching

LEMMA BeginKeeps ==
  ASSUME IInv, NEW op \in {"remove", "update", "find_by_id"}, NEW fd \in Fds, NEW id,
         id \in (IF op = "remove" THEN {NoId} ELSE Ids), Begin(op, fd, id)
  PROVE  IInv'
<1>1. /\ order \in Seq(Addresses) /\ Len(order) \in Nat
      /\ order = <<>> <=> Len(order) = 0
  BY OrderFacts
<1>2. call' \in Calls
  BY DEF Begin, Calls
<1>3. TypeOK'
  BY <1>2 DEF Begin, IInv, TypeOK, Phases
<1>4. Linked' /\ Owned'
  BY DEF Begin, IInv, Linked, Owned
<1>5. head = IF order = <<>> THEN NULL ELSE order[1]
  BY DEF IInv, Linked
<1>6. Searching'
  <2>1. phase' = "search" /\ current' = head /\ order' = order
    BY DEF Begin
  <2>2. CASE order = <<>>
    BY <1>1, <1>5, <2>1, <2>2 DEF Searching, Passed
  <2>3. CASE order # <<>>
    <3>1. 1 \in 1 .. Len(order') /\ current' = order'[1] /\ Passed(1 - 1)'
      BY <1>1, <1>5, <2>1, <2>3 DEF Passed
    <3>. QED  BY <2>1, <3>1 DEF Searching
  <2>. QED  BY <2>2, <2>3
<1>. QED  BY <1>3, <1>4, <1>6 DEF Begin, IInv, NoUseAfterFree

LEMMA SearchKeeps ==
  ASSUME IInv, Search
  PROVE  IInv' /\ UNCHANGED <<mem, head, call, order>> /\ phase' \in {"search", "found"}
<1>1. phase = "search" /\ current # NULL
  BY DEF Search
<1>2. PICK n \in 1 .. Len(order) : current = order[n] /\ Passed(n - 1)
  BY <1>1 DEF IInv, Searching
<1>3. /\ order \in Seq(Addresses) /\ Len(order) \in Nat
      /\ mem[order[n]].allocated /\ mem[order[n]] \in Nodes
  BY OrderFacts
<1>4. ~Dangles(current)
  BY <1>2, <1>3 DEF Dangles
<1>5. CASE Matches(mem[current].client)
  <2>1. phase' = "found" /\ UNCHANGED <<mem, head, call, current, order>>
    BY <1>4, <1>5 DEF Search
  <2>2. current' = order'[n] /\ Matches(mem[order[n]].client)' /\ Passed(n - 1)' /\ n \in 1 .. Len(order')
    BY <1>2, <1>5, <2>1 DEF Matches, Passed
  <2>3. Searching'
    BY <2>1, <2>2 DEF Searching
  <2>. QED  BY <2>1, <2>3 DEF IInv, TypeOK, Linked, Owned, NoUseAfterFree, Phases
<1>6. CASE ~Matches(mem[current].client)
  <2>1. current' = mem[current].next /\ UNCHANGED <<mem, head, phase, call, order>>
    BY <1>4, <1>6 DEF Search
  <2>2. current' = IF n = Len(order) THEN NULL ELSE order[n + 1]
    BY <1>2, <2>1 DEF IInv, Linked
  <2>3. Passed(n)
    <3>1. \A j \in 1 .. n : j = n \/ j \in 1 .. n - 1
      BY <1>3
    <3>. QED  BY <1>2, <1>6, <3>1 DEF Passed
  <2>4. Passed(n)'
    BY <2>1, <2>3 DEF Passed, Matches
  <2>5. Searching'
    <3>1. CASE n = Len(order)
      BY <1>1, <2>1, <2>2, <2>4, <3>1 DEF Searching
    <3>2. CASE n # Len(order)
      <4>1. n + 1 \in 1 .. Len(order') /\ current' = order'[n + 1] /\ (n + 1) - 1 = n
        BY <1>3, <2>1, <2>2, <3>2
      <4>2. Passed((n + 1) - 1)'
        BY <2>4, <4>1
      <4>. QED  BY <1>1, <2>1, <4>1, <4>2 DEF Searching
    <3>. QED  BY <3>1, <3>2
  <2>6. TypeOK'
    BY <1>2, <1>3, <2>1 DEF IInv, TypeOK, Nodes
  <2>. QED  BY <1>1, <2>1, <2>5, <2>6 DEF IInv, Linked, Owned, NoUseAfterFree
<1>. QED  BY <1>5, <1>6

LEMMA ReturnKeeps ==
  ASSUME IInv, Return
  PROVE  IInv' /\ UNCHANGED <<mem, head, order>> /\ phase \in {"search", "found"} /\ phase' = "idle"
<1>1. call' \in Calls /\ current' \in Pointers
  BY ListAssumption DEF Return, Leave, NoCall, SomeFd, Calls, Pointers
<1>. QED
  BY <1>1
     DEF Return, Leave, IInv, TypeOK, Linked, Owned, NoUseAfterFree, Searching, Phases

\* The update writes the contents of the node found and nothing else.
LEMMA UpdateStep ==
  ASSUME IInv, Update
  PROVE  /\ IInv'
         /\ \E n \in 1 .. Len(order) :
               /\ Matches(mem[order[n]].client) /\ Passed(n - 1)
               /\ mem'[order[n]].client = [mem[order[n]].client EXCEPT !.state = CLIENT_STATE_CONNECTED,
                                                                        !.id = call.id]
               /\ \A k \in 1 .. Len(order) : k # n => mem'[order[k]].client = mem[order[k]].client
         /\ order' = order /\ phase = "found" /\ phase' = "idle"
<1>1. phase = "found" /\ call.op = "update" /\ phase' = "idle" /\ UNCHANGED <<head, order>>
  BY DEF Update, Leave
<1>2. PICK n \in 1 .. Len(order) :
        current = order[n] /\ Matches(mem[order[n]].client) /\ Passed(n - 1)
  BY <1>1 DEF IInv, Searching
<1>3. /\ order[n] \in Addresses /\ mem[order[n]] \in Nodes /\ mem \in [Addresses -> Nodes]
      /\ \A k \in 1 .. Len(order) : order[k] \in Addresses
  BY OrderFacts DEF IInv, TypeOK
<1>4. \A j, k \in 1 .. Len(order) : order[j] = order[k] => j = k
  BY DEF IInv, Owned
<1>. DEFINE c == [mem[order[n]].client EXCEPT !.state = CLIENT_STATE_CONNECTED, !.id = call.id]
            m == [mem[order[n]] EXCEPT !.client = c]
<1>5. call.id \in Ids
  BY <1>1 DEF IInv, TypeOK, Calls
<1>6. c \in Clients
  BY <1>3, <1>5 DEF Nodes, Clients, client_node
<1>7. mem' = [mem EXCEPT ![order[n]] = m]
  BY <1>2, <1>3 DEF Update, Nodes, Clients, client_node
<1>. HIDE DEF c
<1>8. m \in Nodes /\ m.client = c /\ m.allocated = mem[order[n]].allocated
      /\ m.next = mem[order[n]].next /\ m.prev = mem[order[n]].prev
  BY <1>3, <1>6 DEF Nodes
<1>. HIDE DEF m
<1>9. /\ mem' \in [Addresses -> Nodes]
      /\ mem'[order[n]] = m
      /\ \A q \in Addresses : q # order[n] => mem'[q] = mem[q]
  BY <1>3, <1>7, <1>8
<1>10. \A q \in Addresses : /\ mem'[q].allocated = mem[q].allocated
                            /\ mem'[q].next = mem[q].next
                            /\ mem'[q].prev = mem[q].prev
  BY <1>8, <1>9
<1>11. Linked' /\ Owned'
  <2>1. \A k \in 1 .. Len(order) : order[k] \in Addresses
    BY <1>3
  <2>2. Linked'
    BY <1>1, <1>10, <2>1 DEF IInv, Linked
  <2>3. Owned'
    BY <1>1, <1>10 DEF IInv, Owned
  <2>. QED  BY <2>2, <2>3
<1>12. call' \in Calls /\ current' \in Pointers /\ phase' \in Phases
  BY <1>1, ListAssumption DEF Update, Leave, NoCall, SomeFd, Calls, Pointers, Phases
<1>13. IInv'
  BY <1>1, <1>9, <1>11, <1>12 DEF IInv, TypeOK, NoUseAfterFree, Searching
<1>14. mem'[order[n]].client = c
  BY <1>8, <1>9
<1>15. \A k \in 1 .. Len(order) : k # n => mem'[order[k]].client = mem[order[k]].client
  BY <1>3, <1>4, <1>9
<1>. QED  BY <1>1, <1>2, <1>13, <1>14, <1>15 DEF c

LEMMA DestroyKeeps ==
  ASSUME IInv, Destroy \/ Destroyed
  PROVE  IInv' /\ UNCHANGED <<mem, order>>
<1>1. head = NULL => order = <<>>
  <2>1. order # <<>> => order[1] # NULL /\ head = order[1]
    BY OrderFacts DEF IInv, Linked
  <2>. QED  BY <2>1
<1>. QED
  BY <1>1
     DEF Destroy, Destroyed, IInv, TypeOK, Linked, Owned, NoUseAfterFree, Searching, Phases

\* Both callers of clients_list_remove_client pass a node of the list.
LEMMA RemovedIsListed ==
  ASSUME IInv
  PROVE  /\ RemoveFound => \E n \in 1 .. Len(order) :
                              /\ RemoveClient(order[n])
                              /\ Matches(mem[order[n]].client) /\ Passed(n - 1)
         /\ DestroyHead => /\ 1 \in 1 .. Len(order)
                           /\ RemoveClient(order[1])
<1>1. RemoveFound => \E n \in 1 .. Len(order) :
                        /\ RemoveClient(order[n])
                        /\ Matches(mem[order[n]].client) /\ Passed(n - 1)
  BY DEF RemoveFound, IInv, Searching
<1>2. DestroyHead => 1 \in 1 .. Len(order) /\ RemoveClient(order[1])
  <2>1. head # NULL => order # <<>> /\ head = order[1]
    BY DEF IInv, Linked
  <2>2. order # <<>> => 1 \in 1 .. Len(order)
    BY OrderFacts
  <2>. QED  BY <2>1, <2>2 DEF DestroyHead
<1>. QED  BY <1>1, <1>2

LEMMA NextIInv ==
  ASSUME IInv, [Next]_vars
  PROVE  IInv'
<1>1. CASE Search
  BY <1>1, SearchKeeps
<1>2. CASE Return
  BY <1>2, ReturnKeeps
<1>3. CASE Update
  BY <1>3, UpdateStep
<1>4. CASE RemoveFound
  BY <1>4, RemovedIsListed, RemoveStep DEF RemoveFound
<1>5. CASE DestroyHead
  BY <1>5, RemovedIsListed, RemoveStep DEF DestroyHead
<1>6. CASE Destroy \/ Destroyed
  BY <1>6, DestroyKeeps
<1>7. ASSUME NEW fd \in Fds, AddClient(fd) PROVE IInv'
  BY <1>7, AddStep
<1>8. ASSUME NEW fd \in Fds, Begin("remove", fd, NoId) PROVE IInv'
  BY <1>8, BeginKeeps
<1>9. ASSUME NEW fd \in Fds, NEW id \in Ids, Begin("update", fd, id) PROVE IInv'
  BY <1>9, BeginKeeps
<1>10. ASSUME NEW id \in Ids, Begin("find_by_id", SomeFd, id) PROVE IInv'
  BY <1>10, BeginKeeps, ListAssumption DEF SomeFd
<1>11. CASE UNCHANGED vars
  BY <1>11
     DEF vars, IInv, TypeOK, Linked, Owned, NoUseAfterFree, Searching, Passed, Matches
<1>. QED
  BY <1>1, <1>2, <1>3, <1>4, <1>5, <1>6, <1>7, <1>8, <1>9, <1>10, <1>11 DEF Next, Step, CallStep

\* The inductive invariant holds of every number of nodes and of every
\* sequence of calls.
THEOREM PointerInvariant == Spec => []IInv
<1>1. Init => IInv
  BY InitIInv
<1>2. IInv /\ [Next]_vars => IInv'
  BY NextIInv
<1>. QED  BY <1>1, <1>2, PTL DEF Spec

\* The pointers always spell one list in both directions.
THEOREM AlwaysLinked == Spec => []Linked
<1>1. IInv => Linked
  BY DEF IInv
<1>. QED  BY <1>1, PointerInvariant, PTL

\* A node is allocated exactly while it is in the list, and none is left when
\* the list has been destroyed.
THEOREM AlwaysOwned == Spec => []Owned
<1>1. IInv => Owned
  BY DEF IInv
<1>. QED  BY <1>1, PointerInvariant, PTL

\* No pointer to a freed node is ever followed, although the prev of the head
\* dangles after every removal of the head.
THEOREM NeverUsedAfterFree == Spec => []NoUseAfterFree
<1>1. IInv => NoUseAfterFree
  BY DEF IInv
<1>. QED  BY <1>1, PointerInvariant, PTL

-----------------------------------------------------------------------------
(* The list as a sequence.                                                 *)

LEMMA ListFacts ==
  ASSUME IInv
  PROVE  /\ List \in Seq(Clients) /\ Len(List) = Len(order)
         /\ \A k \in 1 .. Len(order) : List[k] = mem[order[k]].client
<1>1. /\ Len(order) \in Nat
      /\ \A k \in 1 .. Len(order) : mem[order[k]].client \in Clients
  BY OrderFacts DEF Nodes
<1>2. List \in [1 .. Len(order) -> Clients]
  BY <1>1 DEF List
<1>. QED  BY <1>1, <1>2 DEF List

\* The first match is what the searches of ClientsList return, ...
LEMMA FirstByFd ==
  ASSUME NEW s \in Seq(Clients), NEW fd, NEW n \in 1 .. Len(s),
         s[n].fd = fd, \A j \in 1 .. n - 1 : s[j].fd # fd
  PROVE  clients_list_find_by_fd(s, fd) = n
<1>. DEFINE I == {j \in 1 .. Len(s) : s[j].fd = fd}
<1>1. Len(s) \in Nat /\ I \in SUBSET Nat /\ n \in I
  BY LenProperties
<1>2. clients_list_find_by_fd(s, fd) = Min(I)
  BY <1>1 DEF clients_list_find_by_fd, SelectInSeq
<1>3. Min(I) \in I /\ Min(I) <= n
  <2>. HIDE DEF I
  <2>. QED  BY <1>1, FirstExists
<1>. QED  BY <1>1, <1>2, <1>3

LEMMA FirstById ==
  ASSUME NEW s \in Seq(Clients), NEW id, NEW n \in 1 .. Len(s),
         s[n].id = id, \A j \in 1 .. n - 1 : s[j].id # id
  PROVE  clients_list_find_by_id(s, id) = n
<1>. DEFINE I == {j \in 1 .. Len(s) : s[j].id = id}
<1>1. Len(s) \in Nat /\ I \in SUBSET Nat /\ n \in I
  BY LenProperties
<1>2. clients_list_find_by_id(s, id) = Min(I)
  BY <1>1 DEF clients_list_find_by_id, SelectInSeq
<1>3. Min(I) \in I /\ Min(I) <= n
  <2>. HIDE DEF I
  <2>. QED  BY <1>1, FirstExists
<1>. QED  BY <1>1, <1>2, <1>3

\* ... and NULL when there is none.
LEMMA NoneFound ==
  ASSUME NEW s \in Seq(Clients), NEW x
  PROVE  /\ (\A j \in 1 .. Len(s) : s[j].fd # x) => clients_list_find_by_fd(s, x) = 0
         /\ (\A j \in 1 .. Len(s) : s[j].id # x) => clients_list_find_by_id(s, x) = 0
  BY DEF clients_list_find_by_fd, clients_list_find_by_id, SelectInSeq

\* The loops find what the searches of ClientsList find.
THEOREM SearchesAgree == Spec => []FindsFirst
<1>1. IInv => FindsFirst
  <2>. SUFFICES ASSUME IInv PROVE FindsFirst
    OBVIOUS
  <2>1. /\ List \in Seq(Clients) /\ Len(List) = Len(order) /\ Len(order) \in Nat
        /\ \A k \in 1 .. Len(order) : List[k] = mem[order[k]].client /\ order[k] # NULL
    BY ListFacts, OrderFacts
  <2>2. CASE phase = "found"
    <3>1. PICK n \in 1 .. Len(order) :
            current = order[n] /\ Matches(mem[order[n]].client) /\ Passed(n - 1)
      BY <2>2 DEF IInv, Searching
    <3>2. Matches(List[n]) /\ \A j \in 1 .. n - 1 : ~Matches(List[j])
      <4>1. \A j \in 1 .. n - 1 : j \in 1 .. Len(order)
        BY <2>1
      <4>. QED  BY <2>1, <3>1, <4>1 DEF Passed
    <3>3. CASE call.op = "find_by_id"
      <4>1. clients_list_find_by_id(List, call.id) = n
        BY <2>1, <3>2, <3>3, FirstById DEF Matches
      <4>. QED  BY <2>1, <2>2, <3>1, <3>3, <4>1 DEF FindsFirst
    <3>4. CASE call.op # "find_by_id"
      <4>1. clients_list_find_by_fd(List, call.fd) = n
        BY <2>1, <3>2, <3>4, FirstByFd DEF Matches
      <4>. QED  BY <2>1, <2>2, <3>1, <3>4, <4>1 DEF FindsFirst
    <3>. QED  BY <3>3, <3>4
  <2>3. CASE phase = "search" /\ current = NULL
    <3>1. \A j \in 1 .. Len(order) : ~Matches(List[j])
      BY <2>1, <2>3 DEF IInv, Searching, Passed
    <3>. QED  BY <2>1, <2>3, <3>1, NoneFound DEF FindsFirst, Matches
  <2>. QED  BY <2>2, <2>3 DEF FindsFirst
<1>. QED  BY <1>1, PointerInvariant, PTL

-----------------------------------------------------------------------------
(* Refinement.                                                             *)

LEMMA StateIs ==
  /\ phase \in {"idle", "search", "found"} => State = "serving"
  /\ phase = "destroy" => State = "destroying"
  /\ phase = "destroyed" => State = "destroyed"
  /\ phase = "crashed" => State = "crashed"
  BY DEF State

LEMMA StateIsNext ==
  /\ phase' \in {"idle", "search", "found"} => State' = "serving"
  /\ phase' = "destroy" => State' = "destroying"
  /\ phase' = "destroyed" => State' = "destroyed"
  /\ phase' = "crashed" => State' = "crashed"
  BY DEF State

LEMMA ListFactsNext ==
  ASSUME IInv'
  PROVE  /\ List' \in Seq(Clients) /\ Len(List') = Len(order') /\ Len(order') \in Nat
         /\ \A k \in 1 .. Len(order') : List'[k] = mem'[order'[k]].client
<1>1. /\ Len(order') \in Nat
      /\ \A k \in 1 .. Len(order') : mem'[order'[k]].client \in Clients
  <2>1. /\ order' \in Seq(Addresses) /\ mem' \in [Addresses -> Nodes]
    BY DEF IInv, TypeOK
  <2>2. \A k \in 1 .. Len(order') : order'[k] \in Addresses
    BY <2>1, ElementOfSeq
  <2>. QED  BY <2>1, <2>2, LenProperties DEF Nodes
<1>2. List' \in [1 .. Len(order') -> Clients]
  BY <1>1 DEF List
<1>. QED  BY <1>1, <1>2 DEF List

\* ClientsListSpec calls the operators of ClientsList that the lemmas are about.
LEMMA SameOperators ==
  ASSUME NEW s, NEW x, NEW st, NEW id
  PROVE  /\ A!CLIENT_STATE_CONNECTED = CLIENT_STATE_CONNECTED
         /\ A!New(x) = New(x)
         /\ A!clients_list_find_by_fd(s, x) = clients_list_find_by_fd(s, x)
         /\ A!clients_list_add_client(s, x) = clients_list_add_client(s, x)
         /\ A!clients_list_remove_faults(s, x) <=> clients_list_remove_faults(s, x)
         /\ A!clients_list_remove_client(s, x) = clients_list_remove_client(s, x)
         /\ A!clients_list_update_client(s, x, st, id) = clients_list_update_client(s, x, st, id)
<1>1. /\ A!CLIENT_STATE_CONNECTED = CLIENT_STATE_CONNECTED
      /\ A!New(x) = New(x)
  BY DEF A!New, New, A!CLIENT_STATE_NEW, CLIENT_STATE_NEW,
         A!CLIENT_STATE_CONNECTED, CLIENT_STATE_CONNECTED
<1>2. A!clients_list_find_by_fd(s, x) = clients_list_find_by_fd(s, x)
  BY DEF A!clients_list_find_by_fd, clients_list_find_by_fd, A!SelectInSeq, SelectInSeq, A!Min, Min
<1>3. /\ A!clients_list_add_client(s, x) = clients_list_add_client(s, x)
      /\ A!clients_list_remove_faults(s, x) <=> clients_list_remove_faults(s, x)
  BY DEF A!clients_list_add_client, clients_list_add_client,
         A!clients_list_remove_faults, clients_list_remove_faults
<1>4. A!clients_list_remove_client(s, x) = clients_list_remove_client(s, x)
  BY DEF A!clients_list_remove_client, clients_list_remove_client, A!RemoveAt, RemoveAt
<1>5. A!clients_list_update_client(s, x, st, id) = clients_list_update_client(s, x, st, id)
  BY DEF A!clients_list_update_client, clients_list_update_client
<1>. QED  BY <1>1, <1>2, <1>3, <1>4, <1>5

LEMMA AddImplements ==
  ASSUME IInv, NEW fd \in Fds, AddClient(fd)
  PROVE  A!AddClient(fd)
<1>1. /\ List \in Seq(Clients) /\ Len(List) = Len(order) /\ Len(order) \in Nat
      /\ \A k \in 1 .. Len(order) : /\ List[k] = mem[order[k]].client
                                    /\ order[k] \in Addresses /\ mem[order[k]].allocated
      /\ order \in Seq(Addresses)
  BY ListFacts, OrderFacts
<1>2. PICK p \in Addresses :
        /\ order' = <<p>> \o order
        /\ mem'[p].client = New(fd)
        /\ \A k \in 1 .. Len(order) : mem'[order[k]].client = mem[order[k]].client
  BY AddStep
<1>3. /\ Len(order') = Len(order) + 1 /\ order'[1] = p
      /\ \A i \in 2 .. Len(order) + 1 : order'[i] = order[i - 1]
  BY <1>1, <1>2, AddAtHead
<1>4. /\ List' \in Seq(Clients) /\ Len(List') = Len(order) + 1
      /\ \A k \in 1 .. Len(order) + 1 : List'[k] = mem'[order'[k]].client
  BY <1>3, AddStep, ListFactsNext
<1>5. New(fd) \in Clients
  BY DEF New, Clients, client_node, CLIENT_STATE_NEW
<1>6. /\ <<New(fd)>> \o List \in Seq(Clients)
      /\ Len(<<New(fd)>> \o List) = Len(order) + 1
      /\ (<<New(fd)>> \o List)[1] = New(fd)
      /\ \A i \in 2 .. Len(order) + 1 : (<<New(fd)>> \o List)[i] = List[i - 1]
  BY <1>1, <1>5, AddAtHead
<1>7. List' = <<New(fd)>> \o List
  <2>1. ASSUME NEW i \in 1 .. Len(order) + 1 PROVE List'[i] = (<<New(fd)>> \o List)[i]
    <3>1. CASE i = 1
      BY <1>2, <1>3, <1>4, <1>6, <3>1
    <3>2. CASE i # 1
      <4>1. i - 1 \in 1 .. Len(order) /\ i \in 2 .. Len(order) + 1
        BY <1>1, <3>2
      <4>. QED  BY <1>1, <1>2, <1>3, <1>4, <1>6, <4>1
    <3>. QED  BY <3>1, <3>2
  <2>. QED  BY <1>4, <1>6, <2>1, SeqEqual
<1>8. clients_list_find_by_fd(List, fd) = 0
  <2>1. \A k \in 1 .. Len(List) : List[k].fd # fd
    BY <1>1 DEF AddClient
  <2>. QED  BY <1>1, <2>1, NoneFound
<1>9. ~Dangles(head)
  <2>1. order # <<>> => head = order[1] /\ 1 \in 1 .. Len(order)
    BY <1>1, EmptySeq, OrderFacts DEF IInv, Linked
  <2>. QED  BY <1>1, <2>1 DEF IInv, Linked, Dangles
<1>10. State = "serving" /\ State' = "serving"
  <2>1. phase = "idle" /\ phase' = "idle"
    BY <1>9 DEF AddClient
  <2>. QED  BY <2>1, StateIs, StateIsNext
<1>11. A!clients_list_find_by_fd(List, fd) = 0
  BY <1>8, SameOperators
<1>12. List' = A!clients_list_add_client(List, A!New(fd))
  BY <1>7, SameOperators DEF clients_list_add_client
<1>. QED  BY <1>10, <1>11, <1>12 DEF A!AddClient

LEMMA UpdateImplements ==
  ASSUME IInv, Update
  PROVE  \E fd \in Fds, id \in Ids : A!UpdateClient(fd, id)
<1>1. /\ List \in Seq(Clients) /\ Len(List) = Len(order) /\ Len(order) \in Nat
      /\ \A k \in 1 .. Len(order) : List[k] = mem[order[k]].client
  BY ListFacts, OrderFacts
<1>2. PICK n \in 1 .. Len(order) :
        /\ Matches(mem[order[n]].client) /\ Passed(n - 1)
        /\ mem'[order[n]].client = [mem[order[n]].client EXCEPT !.state = CLIENT_STATE_CONNECTED,
                                                                 !.id = call.id]
        /\ \A k \in 1 .. Len(order) : k # n => mem'[order[k]].client = mem[order[k]].client
  BY UpdateStep
<1>3. order' = order /\ IInv' /\ State = "serving" /\ State' = "serving"
  BY UpdateStep, StateIs, StateIsNext
<1>4. /\ List' \in Seq(Clients) /\ Len(List') = Len(order)
      /\ \A k \in 1 .. Len(order) : List'[k] = mem'[order[k]].client
  BY <1>3, ListFactsNext
<1>5. call.op = "update" /\ call.fd \in Fds /\ call.id \in Ids
  BY DEF Update, IInv, TypeOK, Calls
<1>6. clients_list_find_by_fd(List, call.fd) = n
  <2>1. List[n].fd = call.fd
    BY <1>1, <1>2, <1>5 DEF Matches
  <2>2. \A j \in 1 .. n - 1 : List[j].fd # call.fd
    BY <1>1, <1>2, <1>5 DEF Matches, Passed
  <2>3. n \in 1 .. Len(List) /\ List \in Seq(Clients)
    BY <1>1
  <2>. QED  BY <2>1, <2>2, <2>3, FirstByFd
<1>. DEFINE c == [List[n] EXCEPT !.state = CLIENT_STATE_CONNECTED, !.id = call.id]
<1>7. c \in Clients /\ List[n] \in Clients
  <2>1. List[n] \in Clients
    BY <1>1, ElementOfSeq
  <2>. QED  BY <1>5, <2>1 DEF Clients, client_node, CLIENT_STATE_CONNECTED
<1>8. [List EXCEPT ![n].state = CLIENT_STATE_CONNECTED, ![n].id = call.id] = [List EXCEPT ![n] = c]
  BY <1>1, <1>7 DEF Clients, client_node
<1>9. List' = [List EXCEPT ![n] = c]
  <2>1. List'[n] = c
    BY <1>1, <1>2, <1>4
  <2>2. \A k \in 1 .. Len(order) : k # n => List'[k] = List[k]
    BY <1>1, <1>2, <1>4
  <2>. HIDE DEF c
  <2>3. /\ [List EXCEPT ![n] = c] \in Seq(Clients)
        /\ Len([List EXCEPT ![n] = c]) = Len(List)
        /\ \A k \in 1 .. Len(List) : [List EXCEPT ![n] = c][k] = IF k = n THEN c ELSE List[k]
    BY <1>1, <1>7, ExceptSeq
  <2>. QED  BY <1>1, <1>4, <2>1, <2>2, <2>3, SeqEqual
<1>10. n # 0
  BY <1>1
<1>11. A!UpdateClient(call.fd, call.id)
  <2>1. A!clients_list_find_by_fd(List, call.fd) = n
    BY <1>6, SameOperators
  <2>2. A!clients_list_update_client(List, n, A!CLIENT_STATE_CONNECTED, call.id)
          = clients_list_update_client(List, n, CLIENT_STATE_CONNECTED, call.id)
    BY SameOperators
  <2>3. List' = clients_list_update_client(List, n, CLIENT_STATE_CONNECTED, call.id)
    BY <1>8, <1>9, <1>10 DEF clients_list_update_client
  <2>. QED  BY <1>3, <2>1, <2>2, <2>3 DEF A!UpdateClient
<1>. QED  BY <1>5, <1>11

\* Taking out the n-th node takes the n-th element out of the sequence.
LEMMA RemovedList ==
  ASSUME IInv, IInv', NEW n \in 1 .. Len(order), order' = RemoveAt(order, n),
         \A k \in 1 .. Len(order) : k # n => mem'[order[k]].client = mem[order[k]].client
  PROVE  List' = RemoveAt(List, n)
<1>1. /\ List \in Seq(Clients) /\ Len(List) = Len(order) /\ Len(order) \in Nat
      /\ \A k \in 1 .. Len(order) : List[k] = mem[order[k]].client
  BY ListFacts, OrderFacts
<1>2. /\ Len(order') = Len(order) - 1
      /\ \A i \in 1 .. Len(order) - 1 : order'[i] = IF i < n THEN order[i] ELSE order[i + 1]
  BY RemovedOrder
<1>3. /\ List' \in Seq(Clients) /\ Len(List') = Len(order) - 1
      /\ \A k \in 1 .. Len(order) - 1 : List'[k] = mem'[order'[k]].client
  BY <1>2, ListFactsNext
<1>4. /\ RemoveAt(List, n) \in Seq(Clients) /\ Len(RemoveAt(List, n)) = Len(order) - 1
      /\ \A i \in 1 .. Len(order) - 1 : RemoveAt(List, n)[i] = IF i < n THEN List[i] ELSE List[i + 1]
  BY <1>1, RemoveNode
<1>5. ASSUME NEW i \in 1 .. Len(order) - 1 PROVE List'[i] = RemoveAt(List, n)[i]
  <2>1. i \in 1 .. Len(order) /\ i + 1 \in 1 .. Len(order)
    BY <1>1
  <2>2. CASE i < n
    <3>1. order'[i] = order[i] /\ RemoveAt(List, n)[i] = List[i] /\ i # n
      BY <1>1, <1>2, <1>4, <2>2
    <3>. QED  BY <1>1, <1>3, <2>1, <3>1
  <2>3. CASE ~(i < n)
    <3>1. order'[i] = order[i + 1] /\ RemoveAt(List, n)[i] = List[i + 1] /\ i + 1 # n
      BY <1>1, <1>2, <1>4, <2>1, <2>3
    <3>. QED  BY <1>1, <1>3, <2>1, <3>1
  <2>. QED  BY <2>2, <2>3
<1>. QED  BY <1>3, <1>4, <1>5, SeqEqual

LEMMA RemoveImplements ==
  ASSUME IInv, RemoveFound
  PROVE  \E fd \in Fds : A!RemoveClient(fd)
<1>1. /\ List \in Seq(Clients) /\ Len(List) = Len(order) /\ Len(order) \in Nat
      /\ \A k \in 1 .. Len(order) : List[k] = mem[order[k]].client
  BY ListFacts, OrderFacts
<1>2. phase = "found" /\ call.op = "remove" /\ call.fd \in Fds
  BY DEF RemoveFound, IInv, TypeOK, Calls
<1>3. PICK n \in 1 .. Len(order) :
        RemoveClient(order[n]) /\ Matches(mem[order[n]].client) /\ Passed(n - 1)
  BY RemovedIsListed
<1>4. clients_list_find_by_fd(List, call.fd) = n /\ n # 0
  <2>1. List[n].fd = call.fd
    BY <1>1, <1>2, <1>3 DEF Matches
  <2>2. \A j \in 1 .. n - 1 : List[j].fd # call.fd
    BY <1>1, <1>2, <1>3 DEF Matches, Passed
  <2>3. n \in 1 .. Len(List) /\ List \in Seq(Clients) /\ n # 0
    BY <1>1
  <2>4. clients_list_find_by_fd(List, call.fd) = n
    BY <2>1, <2>2, <2>3, FirstByFd
  <2>. QED  BY <2>3, <2>4
<1>a. A!clients_list_find_by_fd(List, call.fd) = n
  BY <1>4, SameOperators
<1>5. A!clients_list_remove_faults(List, n) <=> n # 1 /\ n = Len(order)
  <2>1. clients_list_remove_faults(List, n) <=> n # 1 /\ n = Len(order)
    BY <1>1 DEF clients_list_remove_faults
  <2>. QED  BY <2>1, SameOperators
<1>6. A!clients_list_remove_client(List, n) = RemoveAt(List, n)
  <2>1. clients_list_remove_client(List, n) = RemoveAt(List, n)
    BY <1>4 DEF clients_list_remove_client
  <2>. QED  BY <2>1, SameOperators
<1>7. State = "serving"
  BY <1>2, StateIs
<1>8. CASE n # 1 /\ n = Len(order)
  <2>1. phase' = "crashed" /\ UNCHANGED <<mem, head, call, current, order>>
    BY <1>2, <1>3, <1>8, RemoveStep
  <2>2. List' = List /\ State' = "crashed"
    BY <2>1, StateIsNext DEF List
  <2>. QED  BY <1>2, <1>4, <1>a, <1>5, <1>7, <1>8, <2>2 DEF A!RemoveClient
<1>9. CASE ~(n # 1 /\ n = Len(order))
  <2>1. /\ IInv' /\ order' = RemoveAt(order, n) /\ phase' = "idle"
        /\ \A k \in 1 .. Len(order) : k # n => mem'[order[k]].client = mem[order[k]].client
    BY <1>2, <1>3, <1>9, RemoveStep
  <2>2. List' = RemoveAt(List, n) /\ State' = "serving"
    BY <2>1, RemovedList, StateIsNext
  <2>. QED  BY <1>2, <1>4, <1>a, <1>5, <1>6, <1>7, <1>9, <2>2 DEF A!RemoveClient
<1>. QED  BY <1>8, <1>9

LEMMA DropImplements ==
  ASSUME IInv, DestroyHead
  PROVE  A!Drop
<1>1. /\ List \in Seq(Clients) /\ Len(List) = Len(order) /\ Len(order) \in Nat
  BY ListFacts, OrderFacts
<1>2. phase = "destroy" /\ 1 \in 1 .. Len(order) /\ RemoveClient(order[1])
  BY RemovedIsListed DEF DestroyHead
<1>3. /\ IInv' /\ order' = RemoveAt(order, 1) /\ phase' = "destroy"
      /\ \A k \in 1 .. Len(order) : k # 1 => mem'[order[k]].client = mem[order[k]].client
  BY <1>2, RemoveStep
<1>4. List' = RemoveAt(List, 1) /\ List # <<>>
  <2>1. Len(List) # 0
    BY <1>1, <1>2
  <2>. QED  BY <1>2, <1>3, <2>1, RemovedList, EmptySeq
<1>5. State = "destroying" /\ State' = "destroying"
  BY <1>2, <1>3, StateIs, StateIsNext
<1>6. A!clients_list_remove_client(List, 1) = RemoveAt(List, 1)
  <2>1. clients_list_remove_client(List, 1) = RemoveAt(List, 1)
    BY DEF clients_list_remove_client
  <2>. QED  BY <2>1, SameOperators
<1>. QED  BY <1>4, <1>5, <1>6 DEF A!Drop

LEMMA OthersImplement ==
  ASSUME IInv, Search \/ Return \/ (\E op, fd, id : Begin(op, fd, id)) \/ UNCHANGED vars
  PROVE  UNCHANGED <<List, State>>
<1>1. UNCHANGED <<mem, order>>
  BY SearchKeeps, ReturnKeeps DEF Begin, vars
<1>2. State' = State
  <2>1. CASE Search
    <3>1. phase = "search" /\ phase' \in {"search", "found"}
      BY <2>1, SearchKeeps DEF Search
    <3>. QED  BY <3>1, StateIs, StateIsNext
  <2>2. CASE Return
    BY <2>2, ReturnKeeps, StateIs, StateIsNext
  <2>3. CASE \E op, fd, id : Begin(op, fd, id)
    <3>1. phase = "idle" /\ phase' = "search"
      BY <2>3 DEF Begin
    <3>. QED  BY <3>1, StateIs, StateIsNext
  <2>4. CASE UNCHANGED vars
    BY <2>4 DEF vars, State
  <2>. QED  BY <2>1, <2>2, <2>3, <2>4
<1>. QED  BY <1>1, <1>2 DEF List

LEMMA DestroyImplements ==
  ASSUME IInv
  PROVE  /\ Destroy => A!Destroy
         /\ Destroyed => A!Dropped
<1>1. Destroy => A!Destroy
  <2>. SUFFICES ASSUME Destroy PROVE A!Destroy
    OBVIOUS
  <2>1. phase = "idle" /\ phase' = "destroy" /\ List' = List
    BY DEF Destroy, List
  <2>. QED  BY <2>1, StateIs, StateIsNext DEF A!Destroy
<1>2. Destroyed => A!Dropped
  <2>. SUFFICES ASSUME Destroyed PROVE A!Dropped
    OBVIOUS
  <2>1. phase = "destroy" /\ phase' = "destroyed" /\ List' = List /\ head = NULL
    BY DEF Destroyed, List
  <2>2. order = <<>>
    <3>1. order # <<>> => order[1] # NULL /\ head = order[1]
      BY OrderFacts DEF IInv, Linked
    <3>. QED  BY <2>1, <3>1
  <2>3. List = <<>>
    BY <2>2, ListFacts, OrderFacts, EmptySeq
  <2>. QED  BY <2>1, <2>3, StateIs, StateIsNext DEF A!Dropped
<1>. QED  BY <1>1, <1>2

\* Each operation of clients.c on the pointers is one step of ClientsListSpec
\* on the sequence, taken when its last node has been found, and the steps of
\* its loops are none.
THEOREM ListImplemented == Spec => ImplementsList
<1>1. Init => A!Init
  <2>. SUFFICES ASSUME Init PROVE A!Init
    OBVIOUS
  <2>1. List = <<>>
    <3>1. IInv /\ order = <<>>
      BY InitIInv DEF Init
    <3>. QED  BY <3>1, ListFacts, OrderFacts, EmptySeq
  <2>2. State = "serving"
    BY StateIs DEF Init
  <2>. QED  BY <2>1, <2>2 DEF A!Init
<1>2. IInv /\ [Next]_vars => [A!Next]_(A!listVars)
  <2>. SUFFICES ASSUME IInv, [Next]_vars PROVE A!Next \/ UNCHANGED <<List, State>>
    BY DEF A!listVars
  <2>1. CASE Search \/ Return \/ UNCHANGED vars
    BY <2>1, OthersImplement
  <2>2. CASE Update
    BY <2>2, UpdateImplements DEF A!Next
  <2>3. CASE RemoveFound
    BY <2>3, RemoveImplements DEF A!Next
  <2>4. CASE DestroyHead
    BY <2>4, DropImplements DEF A!Next
  <2>5. CASE Destroy \/ Destroyed
    BY <2>5, DestroyImplements DEF A!Next
  <2>6. ASSUME NEW fd \in Fds, AddClient(fd) PROVE A!Next
    BY <2>6, AddImplements DEF A!Next
  <2>7. ASSUME NEW op, NEW fd, NEW id, Begin(op, fd, id) PROVE UNCHANGED <<List, State>>
    BY <2>7, OthersImplement
  <2>. QED  BY <2>1, <2>2, <2>3, <2>4, <2>5, <2>6, <2>7 DEF Next, Step, CallStep
<1>. QED  BY <1>1, <1>2, PointerInvariant, PTL DEF Spec, ImplementsList, A!Spec
=============================================================================
