----------------------------- MODULE ClientsList -----------------------------
(***************************************************************************)
(* clients.c: the list of connected clients, as the sequence of its nodes  *)
(* from the head.  An index stands for a pointer to a node and 0 for NULL. *)
(***************************************************************************)
EXTENDS Integers, Sequences, SequencesExt

CLIENT_STATE_NEW == "new"
CLIENT_STATE_CONNECTED == "connected"

client_node(fds, ids) ==
    [state : {CLIENT_STATE_NEW, CLIENT_STATE_CONNECTED}, fd : fds, id : ids]

clients_list_find_by_fd(clients, fd) == SelectInSeq(clients, LAMBDA c : c.fd = fd)

\* Mutants: only the head is looked at, or the last node looked at is returned.
find_by_id_head_only(clients, id) ==
    IF clients # <<>> /\ clients[1].id = id THEN 1 ELSE 0

find_by_id_last(clients, id) == Len(clients)

clients_list_find_by_id(clients, id) == SelectInSeq(clients, LAMBDA c : c.id = id)

\* New clients go to the head.
clients_list_add_client(clients, client) == <<client>> \o clients

\* clients_list_remove_client unlinks any node but the head through both its
\* neighbours, and the last node has no next one: the write through NULL ends
\* the process.  A NULL client is refused.
clients_list_remove_faults(clients, k) == k \notin {0, 1} /\ k = Len(clients)

clients_list_remove_client(clients, k) ==
    IF k = 0 THEN clients ELSE RemoveAt(clients, k)

\* Mutant: the head is updated.
update_client_head(clients, k, state, id) ==
    [clients EXCEPT ![1].state = state, ![1].id = id]

\* The k-th client is the one found by its descriptor; NULL changes nothing.
clients_list_update_client(clients, k, state, id) ==
    IF k = 0 THEN clients
    ELSE [clients EXCEPT ![k].state = state, ![k].id = id]
=============================================================================
