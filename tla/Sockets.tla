------------------------------- MODULE Sockets -------------------------------
(***************************************************************************)
(* The kernel between the processes, as the code in server.c, TCP_server.c,*)
(* UDP_server.c and TCP_client.c relies on it: the listen queue, the TCP   *)
(* connections, the UDP receive queue, the server's descriptor table and   *)
(* the pipe behind its standard input.                                     *)
(***************************************************************************)
EXTENDS Integers, Sequences

CONSTANTS
    Procs,        \* runs of the subscriber program
    NoProc,       \* an unused descriptor
    Ids,          \* client identifiers
    Topics,       \* topics
    Segments,     \* TCP segments a 1615-byte packet travels in
    FdLimit       \* descriptors are numbered below this (RLIMIT_NOFILE)

ASSUME SocketsAssumption ==
    /\ NoProc \notin Procs
    /\ Segments \in Nat \ {0}
    /\ FdLimit \in Nat

VARIABLES
    backlog,      \* connections waiting for accept(2), oldest first
    sock,         \* server descriptor -> the subscriber at the other end
    stream,       \* subscriber -> segments sent and not yet received
    conn,         \* subscriber -> what became of its connection
    hup,          \* the subscribers whose end is closed
    udp_queue,    \* topics of the datagrams received and not yet read
    typed,        \* commands written to the server's standard input
    trailer       \* what there is behind the last of them

netVars == <<backlog, sock, stream, conn, hup, udp_queue, typed, trailer>>

\* Descriptors 1 and 2 are the standard streams; main opens the UDP socket
\* first and the TCP socket next.
STDIN_FILENO == 0
UDP_fd == 3
TCP_fd == 4
ClientFds == 5 .. FdLimit - 1
Descriptors == {STDIN_FILENO, UDP_fd, TCP_fd} \cup ClientFds

\* The empty string is the id of a client that has not given one yet, and what
\* may be left of a packet that was cut short.
EmptyString == ""
Names == Ids \cup Topics \cup {EmptyString}

\* The packets subscribers send.
TCP_ctos_msg ==
    [msg_type : {"TCP_MSG_NEW", "TCP_MSG_SUBSCRIBE", "TCP_MSG_UNSUBSCRIBE"},
     payload : Ids \cup Topics]

SERVER_CMD_EXIT == "exit"
SERVER_CMD_UNDEFINED == "other"
Commands == {SERVER_CMD_EXIT, SERVER_CMD_UNDEFINED}

\* Blank lines, or the end of the input (as a terminal or a file has it: poll
\* reports a pipe that was closed as POLLHUP, which the poller does not serve).
Trailers == {"nothing", "space", "eof"}

\* A connection is queued until accept returns it.  The rest is what the
\* subscriber meets once the server closed its end: end of file ("fin"), or a
\* reset ("rst") when bytes it had sent were still unread.  Sending to a closed
\* end breaks the connection for further sends, while end of file can still be
\* read ("broken").
ConnStates == {"none", "queued", "accepted", "fin", "broken", "rst"}

Closed(unread) == IF unread = <<>> THEN "fin" ELSE "rst"

SocketsTypeOK ==
    /\ backlog \in Seq(Procs)
    /\ sock \in [ClientFds -> Procs \cup {NoProc}]
    /\ stream \in [Procs -> Seq(TCP_ctos_msg)]
    /\ conn \in [Procs -> ConnStates]
    /\ hup \in SUBSET Procs
    /\ udp_queue \in Seq(Topics)
    /\ typed \in Seq(Commands)
    /\ trailer \in Trailers

SocketsInit ==
    /\ backlog = <<>>
    /\ sock = [fd \in ClientFds |-> NoProc]
    /\ stream = [p \in Procs |-> <<>>]
    /\ conn = [p \in Procs |-> "none"]
    /\ hup = {}
    /\ udp_queue = <<>>
    /\ typed = <<>>
    /\ trailer = "nothing"

\* A peer that closed its end makes the descriptor readable too.
Readable(p) == stream[p] # <<>> \/ p \in hup

\* The descriptors for which poll(2) reports POLLIN.
Ready ==
    {fd \in {STDIN_FILENO} : typed # <<>> \/ trailer # "nothing"} \cup
    {fd \in {UDP_fd} : udp_queue # <<>>} \cup
    {fd \in {TCP_fd} : backlog # <<>>} \cup
    {fd \in ClientFds : sock[fd] # NoProc /\ Readable(sock[fd])}

\* open(2) and accept(2) hand out the lowest free descriptor.
FreeFds == {fd \in ClientFds : sock[fd] = NoProc}

LowestFree(fd) == fd \in FreeFds /\ \A g \in FreeFds : fd <= g

\* The end of the server process closes every descriptor it holds, leaving
\* unread[p] of what p sent; a connection nobody accepted is reset.
CloseAll(unread) ==
    /\ conn' = [p \in Procs |->
                  CASE conn[p] = "queued"   -> "rst"
                    [] conn[p] = "accepted" -> Closed(unread[p])
                    [] OTHER                -> conn[p]]
    /\ backlog' = <<>>
    /\ sock' = [fd \in ClientFds |-> NoProc]
    /\ stream' = [p \in Procs |-> <<>>]
    /\ udp_queue' = <<>>
    /\ typed' = <<>>
    /\ trailer' = "nothing"
    /\ UNCHANGED hup
=============================================================================
