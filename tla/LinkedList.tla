----------------------------- MODULE LinkedList -----------------------------
(***************************************************************************)
(* clients.c with its pointers: nodes in memory, doubly linked, malloc and *)
(* free, and searches that follow next one node at a time.  A call runs    *)
(* alone, so its steps stand for the iterations of its loops.              *)
(*                                                                         *)
(* subscriptions.c is the same code over other contents.                   *)
(***************************************************************************)
EXTENDS ClientsList

CONSTANTS
    Addresses,    \* bound: what malloc can return
    NULL,
    Fds,          \* descriptors accept can return
    Ids,
    NoId          \* the empty id of a new client

ASSUME ListAssumption ==
    /\ NULL \notin Addresses
    /\ Addresses # {} /\ Fds # {}

VARIABLES
    mem,          \* the node at each address
    head,
    phase,        \* where the thread is: "idle" between calls
    call,         \* the operation and its arguments
    current,      \* the local variable of the searches
    order         \* history: the addresses of the list, from its head

vars == <<mem, head, phase, call, current, order>>

Pointers == Addresses \cup {NULL}

\* "crashed" by a NULL pointer, "undefined" by one to a node that was freed.
Phases == {"idle", "search", "found", "destroy", "destroyed", "crashed", "undefined"}

Clients == client_node(Fds, Ids \cup {NoId})

Nodes == [allocated : BOOLEAN, client : Clients, prev : Pointers, next : Pointers]

Calls == [op : {"remove"}, fd : Fds, id : {NoId}]
         \cup [op : {"update", "find_by_id"}, fd : Fds, id : Ids]

New(fd) == [state |-> CLIENT_STATE_NEW, fd |-> fd, id |-> NoId]

SomeFd == CHOOSE fd \in Fds : TRUE

\* What is left in freed memory is never looked at: see Fault.
Unused == [allocated |-> FALSE, client |-> New(SomeFd), prev |-> NULL, next |-> NULL]

NoCall == [op |-> "remove", fd |-> SomeFd, id |-> NoId]

Init ==
    /\ mem = [p \in Addresses |-> Unused]
    /\ head = NULL
    /\ phase = "idle"
    /\ call = NoCall
    /\ current = NULL
    /\ order = <<>>

\* The call returns and its variables are gone.
Leave ==
    /\ phase' = "idle"
    /\ call' = NoCall
    /\ current' = NULL

Dangles(p) == p # NULL /\ ~mem[p].allocated

\* Following a pointer that is NULL or to freed memory ends the model's run.
Fault(p) ==
    /\ phase' = IF p = NULL THEN "crashed" ELSE "undefined"
    /\ UNCHANGED <<mem, head, call, current, order>>

-----------------------------------------------------------------------------
(* Adding.                                                                 *)

\* Mutants: the old head is not told of its new neighbour; the early return for
\* an empty list is missing.
link_forward_only(p, fd) ==
    [mem EXCEPT ![p] = [allocated |-> TRUE, client |-> New(fd), prev |-> NULL, next |-> head]]

link_to_itself(p, fd) ==
    LET old == IF head = NULL THEN p ELSE head
        added == [mem EXCEPT ![p] = [allocated |-> TRUE, client |-> New(fd),
                                     prev |-> NULL, next |-> old]]
    IN  [added EXCEPT ![old].prev = p]

\* The memory once the node created at p stands before the head.
linked(p, fd) ==
    [q \in Addresses |->
        CASE q = p -> [allocated |-> TRUE, client |-> New(fd), prev |-> NULL, next |-> head]
          [] q = head -> [mem[q] EXCEPT !.prev = p]
          [] OTHER -> mem[q]]

\* client_node_create and clients_list_add_client, for a descriptor that the
\* kernel just opened.
AddClient(fd) ==
    /\ phase = "idle"
    /\ \A q \in Addresses : mem[q].allocated => mem[q].client.fd # fd
    /\ IF Dangles(head) THEN Fault(head)
       ELSE \E p \in Addresses :
              /\ ~mem[p].allocated
              /\ mem' = linked(p, fd)
              /\ head' = p
              /\ order' = <<p>> \o order
              /\ UNCHANGED <<phase, call, current>>

-----------------------------------------------------------------------------
(* Searching.                                                              *)

Begin(op, fd, id) ==
    /\ phase = "idle"
    /\ phase' = "search"
    /\ call' = [op |-> op, fd |-> fd, id |-> id]
    /\ current' = head
    /\ UNCHANGED <<mem, head, order>>

\* Mutant: the state of the client is looked at too.
matches_connected(client) == client.fd = call.fd /\ client.state = CLIENT_STATE_CONNECTED

Matches(client) ==
    IF call.op = "find_by_id" THEN client.id = call.id ELSE client.fd = call.fd

\* One iteration: return the node, or take the next one.
Search ==
    /\ phase = "search"
    /\ current # NULL
    /\ \/ Dangles(current) /\ Fault(current)
       \/ /\ ~Dangles(current) /\ Matches(mem[current].client)
          /\ phase' = "found"
          /\ UNCHANGED <<mem, head, call, current, order>>
       \/ /\ ~Dangles(current) /\ ~Matches(mem[current].client)
          /\ current' = mem[current].next
          /\ UNCHANGED <<mem, head, phase, call, order>>

\* The whole list was searched in vain, or the search is all that was asked.
Return ==
    /\ \/ phase = "search" /\ current = NULL
       \/ phase = "found" /\ call.op = "find_by_id"
    /\ Leave
    /\ UNCHANGED <<mem, head, order>>

Update ==
    /\ phase = "found" /\ call.op = "update"
    /\ mem' = [mem EXCEPT ![current].client.state = CLIENT_STATE_CONNECTED,
                          ![current].client.id = call.id]
    /\ Leave
    /\ UNCHANGED <<head, order>>

-----------------------------------------------------------------------------
(* Removing.                                                               *)

\* Mutant: the neighbours are not compared, and of the contents only the state.
is_head_by_state(p) == mem[head].client.state = mem[p].client.state

\* The node is recognized by its contents and neighbours, not by its address.
clients_list_is_head(p) ==
    /\ mem[head].client = mem[p].client
    /\ mem[head].prev = mem[p].prev
    /\ mem[head].next = mem[p].next

\* Mutant: only the later neighbour is written.
unlink_backward(p) ==
    [mem EXCEPT ![mem[p].next].prev = mem[p].prev, ![p] = Unused]

\* Mutant: the node is not freed.
unlink_only(p) ==
    [mem EXCEPT ![mem[p].next].prev = mem[p].prev, ![mem[p].prev].next = mem[p].next]

unlinked(p) ==
    [mem EXCEPT ![mem[p].next].prev = mem[p].prev,
                ![mem[p].prev].next = mem[p].next,
                ![p] = Unused]

Place(p) == CHOOSE k \in 1 .. Len(order) : order[k] = p

Bad(q) == q = NULL \/ Dangles(q)

\* clients_list_remove_client.
RemoveClient(p) ==
    \/ Dangles(head) /\ Fault(head)
    \/ /\ ~Dangles(head) /\ clients_list_is_head(p)
       /\ head' = mem[head].next
       /\ mem' = [mem EXCEPT ![p] = Unused]
       /\ order' = RemoveAt(order, Place(p))
       /\ IF phase = "found" THEN Leave ELSE UNCHANGED <<phase, call, current>>
    \/ /\ ~Dangles(head) /\ ~clients_list_is_head(p)
       /\ \/ Bad(mem[p].next) /\ Fault(mem[p].next)
          \/ ~Bad(mem[p].next) /\ Bad(mem[p].prev) /\ Fault(mem[p].prev)
          \/ /\ ~Bad(mem[p].next) /\ ~Bad(mem[p].prev)
             /\ mem' = unlinked(p)
             /\ order' = RemoveAt(order, Place(p))
             /\ IF phase = "found" THEN Leave ELSE UNCHANGED <<phase, call, current>>
             /\ UNCHANGED head

RemoveFound == phase = "found" /\ call.op = "remove" /\ RemoveClient(current)

Destroy ==
    /\ phase = "idle"
    /\ phase' = "destroy"
    /\ UNCHANGED <<mem, head, call, current, order>>

DestroyHead == phase = "destroy" /\ head # NULL /\ RemoveClient(head)

Destroyed ==
    /\ phase = "destroy" /\ head = NULL
    /\ phase' = "destroyed"
    /\ UNCHANGED <<mem, head, call, current, order>>

-----------------------------------------------------------------------------
\* What the thread does once it is in a call ...
Step == Search \/ Return \/ Update \/ RemoveFound \/ DestroyHead \/ Destroyed

\* ... and the calls of the server.
CallStep ==
    \/ \E fd \in Fds :
          \/ AddClient(fd)
          \/ Begin("remove", fd, NoId)
          \/ \E id \in Ids : Begin("update", fd, id)
    \/ \E id \in Ids : Begin("find_by_id", SomeFd, id)
    \/ Destroy

Next == Step \/ CallStep

Spec == Init /\ [][Next]_vars

\* The thread runs when it can; the server need not call.
FairSpec == Spec /\ WF_vars(Step)

-----------------------------------------------------------------------------
TypeOK ==
    /\ mem \in [Addresses -> Nodes]
    /\ head \in Pointers
    /\ phase \in Phases
    /\ call \in Calls
    /\ current \in Pointers
    /\ order \in Seq(Addresses)

\* The pointers spell the list in both directions, but for the prev of the
\* head, which nothing may follow: it still names the node that was removed
\* in front of it.
Linked ==
    /\ head = IF order = <<>> THEN NULL ELSE order[1]
    /\ \A k \in 1 .. Len(order) :
          /\ mem[order[k]].next = IF k = Len(order) THEN NULL ELSE order[k + 1]
          /\ k # 1 => mem[order[k]].prev = order[k - 1]

\* A node is in the list once and exactly while it is allocated: none is
\* leaked or freed too early, and none is left once the list is destroyed.
Owned ==
    /\ \A j, k \in 1 .. Len(order) : order[j] = order[k] => j = k
    /\ \A p \in Addresses : mem[p].allocated <=> \E k \in 1 .. Len(order) : order[k] = p
    /\ phase = "destroyed" => order = <<>>

\* No step follows a pointer to a freed node, for all that the head's prev
\* dangles and malloc returns the addresses again.
NoUseAfterFree == phase # "undefined"

List == [k \in 1 .. Len(order) |-> mem[order[k]].client]

\* A search has passed the nodes in front of the current one, and none of
\* them matched.
Passed(n) == \A j \in 1 .. n : ~Matches(mem[order[j]].client)

Searching ==
    /\ phase = "search" =>
          \/ current = NULL /\ Passed(Len(order))
          \/ \E n \in 1 .. Len(order) : current = order[n] /\ Passed(n - 1)
    /\ phase = "found" =>
          \E n \in 1 .. Len(order) :
             current = order[n] /\ Matches(mem[order[n]].client) /\ Passed(n - 1)

\* The inductive invariant.
IInv == TypeOK /\ Linked /\ Owned /\ NoUseAfterFree /\ Searching

\* The loops find what the searches of ClientsList find: the first match.
FindsFirst ==
    LET k == IF call.op = "find_by_id" THEN clients_list_find_by_id(List, call.id)
             ELSE clients_list_find_by_fd(List, call.fd)
    IN  /\ phase = "found" => k # 0 /\ current = order[k]
        /\ phase = "search" /\ current = NULL => k = 0

State ==
    CASE phase = "destroy" -> "destroying"
      [] phase \in {"destroyed", "crashed", "undefined"} -> phase
      [] OTHER -> "serving"

A == INSTANCE ClientsListSpec WITH clients <- List, state <- State

\* The pointers implement the sequence that the model of the server calls,
\* the crash in removing the last of several clients included.
ImplementsList == A!Spec

\* Every call comes to an end: no search or destruction runs in a circle.
CallsReturn ==
    phase \in {"search", "found", "destroy"} ~> phase \notin {"search", "found", "destroy"}
=============================================================================
