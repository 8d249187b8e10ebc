------------------------------- MODULE Poller -------------------------------
(***************************************************************************)
(* poller.c: the array handed to poll(2) and the iterator that walks over  *)
(* the events it reported.  Each operator below is one function of the     *)
(* file, restricted to the fields that function writes; the handlers of    *)
(* Server compose them.                                                    *)
(*                                                                         *)
(* Only the POLLIN bit of revents is ever read, so revents is a BOOLEAN,   *)
(* and events, always POLLIN, is left out.  Slots are counted from 0 as in *)
(* C.  The slots from num_pollfds on are part of the state: poller_add_fd  *)
(* does not write revents, so what such a slot held before shows again     *)
(* when it is reused.                                                      *)
(***************************************************************************)
EXTENDS Integers, Sequences

CONSTANT MAX_CONNECTIONS        \* length of the array (util.h)

\* run_server registers stdin and the two listening sockets unconditionally.
ASSUME TableAssumption == MAX_CONNECTIONS \in Nat /\ MAX_CONNECTIONS >= 3

VARIABLES
    pollfds,          \* slot -> [fd, revents]
    num_pollfds,      \* slots in use
    idx_iterator      \* next slot the iterator looks at

pollerVars == <<pollfds, num_pollfds, idx_iterator>>

Slots == 0 .. MAX_CONNECTIONS - 1

PollerTypeOK(fds) ==
    /\ pollfds \in [Slots -> [fd : fds, revents : BOOLEAN]]
    /\ num_pollfds \in 3 .. MAX_CONNECTIONS
    /\ idx_iterator \in Nat

\* poller_create, then one poller_add_fd for each element of fds: the array
\* is zeroed, so every revents starts clear.
poller_create(fds) ==
    /\ pollfds = [i \in Slots |->
                    [fd |-> IF i < Len(fds) THEN fds[i + 1] ELSE 0, revents |-> FALSE]]
    /\ num_pollfds = Len(fds)
    /\ idx_iterator = 0

\* The slots in use the iterator has yet to return.
Pending == {i \in Slots : idx_iterator <= i /\ i < num_pollfds /\ pollfds[i].revents}

\* poller_next_fd_with_POLLIN returns the descriptor fd, found in slot i.
poller_next_fd_with_POLLIN(i, fd) ==
    /\ i \in Pending
    /\ \A j \in Pending : i <= j
    /\ pollfds[i].fd = fd

\* Mutants: the last slot in use is left out, or the events of the round
\* before are not cleared.
poller_poll_short(ready) ==
    /\ pollfds' = [i \in Slots |->
                    IF i < num_pollfds - 1
                    THEN [pollfds[i] EXCEPT !.revents = pollfds[i].fd \in ready]
                    ELSE pollfds[i]]
    /\ idx_iterator' = 0
    /\ UNCHANGED num_pollfds

poller_poll_accumulates(ready) ==
    /\ pollfds' = [i \in Slots |->
                    IF i < num_pollfds /\ pollfds[i].fd \in ready
                    THEN [pollfds[i] EXCEPT !.revents = TRUE] ELSE pollfds[i]]
    /\ idx_iterator' = 0
    /\ UNCHANGED num_pollfds

\* poll(2) has written revents in the slots in use, and in no other slot.
poller_poll(ready) ==
    /\ pollfds' = [i \in Slots |->
                    IF i < num_pollfds
                    THEN [pollfds[i] EXCEPT !.revents = pollfds[i].fd \in ready]
                    ELSE pollfds[i]]
    /\ idx_iterator' = 0
    /\ UNCHANGED num_pollfds

\* There is no check that num_pollfds is still an index of the array.
poller_add_fd(fd) ==
    /\ pollfds' = [pollfds EXCEPT ![num_pollfds].fd = fd]
    /\ num_pollfds' = num_pollfds + 1

\* poller_find_fd_idx: the first slot in use that holds fd.
poller_find_fd_idx(i, fd) ==
    /\ i \in Slots /\ i < num_pollfds /\ pollfds[i].fd = fd
    /\ \A j \in Slots : j < i => pollfds[j].fd # fd

\* Mutants: the entry behind the one found is overwritten, or the count is
\* decremented in both places that free a descriptor.
poller_remove_fd_off_by_one(fd) ==
    \E idx \in Slots :
        /\ poller_find_fd_idx(idx, fd)
        /\ pollfds' = [i \in Slots |->
                        IF idx < i /\ i < num_pollfds - 1 THEN pollfds[i + 1] ELSE pollfds[i]]
        /\ num_pollfds' = num_pollfds - 1

poller_remove_fd_twice(fd) ==
    \E idx \in Slots :
        /\ poller_find_fd_idx(idx, fd)
        /\ pollfds' = [i \in Slots |->
                        IF idx <= i /\ i < num_pollfds - 1 THEN pollfds[i + 1] ELSE pollfds[i]]
        /\ num_pollfds' = num_pollfds - 2

\* The slots above the removed one move down; the last one keeps its contents
\* and is merely no longer in use.
poller_remove_fd(fd) ==
    IF \E idx \in Slots : poller_find_fd_idx(idx, fd)
    THEN \E idx \in Slots :
            /\ poller_find_fd_idx(idx, fd)
            /\ pollfds' = [i \in Slots |->
                            IF idx <= i /\ i < num_pollfds - 1 THEN pollfds[i + 1]
                                                              ELSE pollfds[i]]
            /\ num_pollfds' = num_pollfds - 1
    ELSE UNCHANGED <<pollfds, num_pollfds>>
=============================================================================
