----------------------------- MODULE ListProofs -----------------------------
(***************************************************************************)
(* What the operations of ClientsList and Subscriptions return, for lists  *)
(* of any length: the facts the proofs about PubSub rest on.               *)
(***************************************************************************)
EXTENDS ClientsList, Subscriptions, TLAPS, SequenceTheorems, WellFoundedInduction

\* A set of positions has a first one, which is what the searches return.
LEMMA FirstExists ==
  ASSUME NEW T \in SUBSET Nat, T # {}
  PROVE  /\ Min(T) \in T
         /\ \A y \in T : Min(T) <= y
<1>1. \E x \in T : \A y \in T : ~ (<<y, x>> \in OpToRel(<, Nat))
  BY NatLessThanWellFounded, WFMin
<1>2. PICK x \in T : \A y \in T : ~ (<<y, x>> \in OpToRel(<, Nat))
  BY <1>1
<1>3. \A y \in T : x <= y
  <2>1. SUFFICES ASSUME NEW y \in T PROVE x <= y
    OBVIOUS
  <2>2. x \in Nat /\ y \in Nat
    OBVIOUS
  <2>3. ~(y < x)
    BY <1>2, <2>2 DEF OpToRel
  <2>. QED  BY <2>2, <2>3
<1>. QED  BY <1>3 DEF Min

\* clients_list_find_by_fd: the first node with the descriptor, or NULL.
LEMMA FindByFd ==
  ASSUME NEW S, NEW clients \in Seq(S), NEW fd
  PROVE  LET k == clients_list_find_by_fd(clients, fd)
         IN  /\ k \in 0 .. Len(clients)
             /\ k # 0 => clients[k].fd = fd
             /\ k = 0 => \A j \in 1 .. Len(clients) : clients[j].fd # fd
<1>. DEFINE I == {j \in 1 .. Len(clients) : clients[j].fd = fd}
<1>1. Len(clients) \in Nat
  BY LenProperties
<1>2. clients_list_find_by_fd(clients, fd) = IF I # {} THEN Min(I) ELSE 0
  BY DEF clients_list_find_by_fd, SelectInSeq
<1>3. I \in SUBSET Nat
  BY <1>1
<1>4. I # {} => Min(I) \in I
  <2>. HIDE DEF I
  <2>. QED  BY <1>3, FirstExists
<1>. QED  BY <1>1, <1>2, <1>4

\* clients_list_find_by_id: likewise for the id.
LEMMA FindById ==
  ASSUME NEW S, NEW clients \in Seq(S), NEW id
  PROVE  LET k == clients_list_find_by_id(clients, id)
         IN  /\ k \in 0 .. Len(clients)
             /\ k # 0 => clients[k].id = id
             /\ k = 0 => \A j \in 1 .. Len(clients) : clients[j].id # id
<1>. DEFINE I == {j \in 1 .. Len(clients) : clients[j].id = id}
<1>1. Len(clients) \in Nat
  BY LenProperties
<1>2. clients_list_find_by_id(clients, id) = IF I # {} THEN Min(I) ELSE 0
  BY DEF clients_list_find_by_id, SelectInSeq
<1>3. I \in SUBSET Nat
  BY <1>1
<1>4. I # {} => Min(I) \in I
  <2>. HIDE DEF I
  <2>. QED  BY <1>3, FirstExists
<1>. QED  BY <1>1, <1>2, <1>4

\* subscriptions_find: the first subscription of the id to the topic, or NULL.
LEMMA FindSubscription ==
  ASSUME NEW S, NEW subs \in Seq(S), NEW topic, NEW id
  PROVE  LET k == subscriptions_find(subs, topic, id)
         IN  /\ k \in 0 .. Len(subs)
             /\ k # 0 => subs[k].topic = topic /\ subs[k].subscriber_id = id
             /\ k = 0 => \A j \in 1 .. Len(subs) :
                           ~(subs[j].topic = topic /\ subs[j].subscriber_id = id)
<1>. DEFINE I == {j \in 1 .. Len(subs) : subs[j].topic = topic /\ subs[j].subscriber_id = id}
<1>1. Len(subs) \in Nat
  BY LenProperties
<1>2. subscriptions_find(subs, topic, id) = IF I # {} THEN Min(I) ELSE 0
  BY DEF subscriptions_find, SelectInSeq
<1>3. I \in SUBSET Nat
  BY <1>1
<1>4. I # {} => Min(I) \in I
  <2>. HIDE DEF I
  <2>. QED  BY <1>3, FirstExists
<1>. QED  BY <1>1, <1>2, <1>4

\* Adding at the head moves every node one place back.
LEMMA AddAtHead ==
  ASSUME NEW S, NEW s \in Seq(S), NEW e \in S
  PROVE  /\ <<e>> \o s \in Seq(S)
         /\ Len(<<e>> \o s) = Len(s) + 1
         /\ (<<e>> \o s)[1] = e
         /\ \A i \in 2 .. Len(s) + 1 : (<<e>> \o s)[i] = s[i - 1]
<1>1. <<e>> \in Seq(S) /\ Len(<<e>>) = 1 /\ <<e>>[1] = e
  OBVIOUS
<1>2. Len(s) \in Nat
  BY LenProperties
<1>. QED  BY <1>1, <1>2, ConcatProperties

\* Removal closes the gap and keeps the order.
LEMMA RemoveNode ==
  ASSUME NEW S, NEW s \in Seq(S), NEW k \in 1 .. Len(s)
  PROVE  /\ RemoveAt(s, k) \in Seq(S)
         /\ Len(RemoveAt(s, k)) = Len(s) - 1
         /\ \A i \in 1 .. Len(s) - 1 : RemoveAt(s, k)[i] = IF i < k THEN s[i] ELSE s[i + 1]
<1>. DEFINE a == SubSeq(s, 1, k - 1)
            b == SubSeq(s, k + 1, Len(s))
<1>1. Len(s) \in Nat /\ \A i \in 1 .. Len(s) : s[i] \in S
  BY LenProperties, ElementOfSeq
<1>2. /\ a \in Seq(S) /\ Len(a) = k - 1
      /\ \A i \in 1 .. k - 1 : a[i] = s[i]
  <2>1. k - 1 \in Int /\ \A i \in 1 .. k - 1 : s[i] \in S
    BY <1>1
  <2>2. /\ a \in Seq(S)
        /\ Len(a) = IF 1 <= k - 1 THEN (k - 1) - 1 + 1 ELSE 0
        /\ \A i \in 1 .. (k - 1) - 1 + 1 : a[i] = s[1 + i - 1]
    BY <2>1, SubSeqProperties
  <2>. QED  BY <1>1, <2>2
<1>3. /\ b \in Seq(S) /\ Len(b) = Len(s) - k
      /\ \A i \in 1 .. Len(s) - k : b[i] = s[k + i]
  <2>1. k + 1 \in Int /\ \A i \in k + 1 .. Len(s) : s[i] \in S
    BY <1>1
  <2>2. /\ b \in Seq(S)
        /\ Len(b) = IF k + 1 <= Len(s) THEN Len(s) - (k + 1) + 1 ELSE 0
        /\ \A i \in 1 .. Len(s) - (k + 1) + 1 : b[i] = s[(k + 1) + i - 1]
    BY <1>1, <2>1, SubSeqProperties
  <2>. QED  BY <1>1, <2>2
<1>4. RemoveAt(s, k) = a \o b
  BY DEF RemoveAt
<1>. HIDE DEF a, b
<1>5. /\ a \o b \in Seq(S) /\ Len(a \o b) = Len(a) + Len(b)
      /\ \A i \in 1 .. Len(a) + Len(b) : (a \o b)[i] = IF i <= Len(a) THEN a[i] ELSE b[i - Len(a)]
  BY <1>2, <1>3, ConcatProperties
<1>. QED  BY <1>1, <1>2, <1>3, <1>4, <1>5
=============================================================================
