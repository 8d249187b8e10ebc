--------------------------- MODULE ClientsListSpec ---------------------------
(***************************************************************************)
(* What clients.c promises, in the operators of ClientsList that the       *)
(* server's model calls: a sequence of clients, newest first, in which     *)
(* every operation takes one step.  LinkedList implements it.              *)
(***************************************************************************)
EXTENDS ClientsList

CONSTANTS Fds, Ids, NoId

VARIABLES
    clients,      \* the list, from its head
    state         \* "serving", "destroying", "destroyed" or "crashed"

listVars == <<clients, state>>

\* What TCP_server_accept_connection adds.
New(fd) == [state |-> CLIENT_STATE_NEW, fd |-> fd, id |-> NoId]

Init == clients = <<>> /\ state = "serving"

AddClient(fd) ==
    /\ state = "serving"
    /\ clients_list_find_by_fd(clients, fd) = 0
    /\ clients' = clients_list_add_client(clients, New(fd))
    /\ UNCHANGED state

RemoveClient(fd) ==
    LET k == clients_list_find_by_fd(clients, fd)
    IN  /\ state = "serving"
        /\ k # 0
        /\ \/ /\ clients_list_remove_faults(clients, k)
              /\ state' = "crashed"
              /\ UNCHANGED clients
           \/ /\ ~clients_list_remove_faults(clients, k)
              /\ clients' = clients_list_remove_client(clients, k)
              /\ UNCHANGED state

UpdateClient(fd, id) ==
    /\ state = "serving"
    /\ clients' = clients_list_update_client(clients, clients_list_find_by_fd(clients, fd),
                                             CLIENT_STATE_CONNECTED, id)
    /\ UNCHANGED state

Destroy ==
    /\ state = "serving"
    /\ state' = "destroying"
    /\ UNCHANGED clients

\* The list is emptied from its head.
Drop ==
    /\ state = "destroying"
    /\ clients # <<>>
    /\ clients' = clients_list_remove_client(clients, 1)
    /\ UNCHANGED state

Dropped ==
    /\ state = "destroying"
    /\ clients = <<>>
    /\ state' = "destroyed"
    /\ UNCHANGED clients

Next ==
    \/ \E fd \in Fds : AddClient(fd) \/ RemoveClient(fd) \/ \E id \in Ids : UpdateClient(fd, id)
    \/ Destroy
    \/ Drop
    \/ Dropped

Spec == Init /\ [][Next]_listVars
=============================================================================
