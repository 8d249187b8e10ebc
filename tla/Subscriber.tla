----------------------------- MODULE Subscriber -----------------------------
(***************************************************************************)
(* The runs of the subscriber program (TCP_client.c).  A run has one       *)
(* thread: it connects, sends its identifier, then serves its standard     *)
(* input and its socket.  What it sends leaves it segment by segment, and  *)
(* it may be killed between two of them.  A run started again under an     *)
(* identifier is another member of Procs.                                  *)
(***************************************************************************)
EXTENDS Sockets

CONSTANTS
    IdOf,         \* the <ID_CLIENT> argument of a run
    Prior,        \* the run that must have ended before this one is started
    MaxCommands,  \* bound: subscribe and unsubscribe commands of each run
    Pausing       \* bound: the runs whose users pause within a command

ASSUME SubscriberAssumption ==
    /\ IdOf \in [Procs -> Ids]
    /\ Prior \in [Procs -> Procs \cup {NoProc}]
    /\ MaxCommands \in [Procs -> Nat]
    /\ Pausing \subseteq Procs

VARIABLES
    pc,           \* what became of a run
    scanning,     \* the runs that wait in scanf for the rest of a command
    out,          \* segments send_all has still to hand to the kernel
    cmds,         \* commands given so far
    ledger        \* history: subscribe minus unsubscribe commands, from 0 up

subscriberVars == <<pc, scanning, out, cmds, ledger>>

\* A run has ended through client_exit, through DIE or SIGPIPE, or killed by its
\* user: to the kernel and to the server it is the same.
SubscriberStates == {"idle", "running", "ended"}

SubscriberTypeOK ==
    /\ pc \in [Procs -> SubscriberStates]
    /\ scanning \in SUBSET Procs
    /\ out \in [Procs -> Seq(TCP_ctos_msg)]
    /\ cmds \in [Procs -> Nat]
    /\ \A p \in Procs : cmds[p] <= MaxCommands[p]
    /\ ledger \in [Procs -> [Topics -> Nat]]

SubscriberInit ==
    /\ pc = [p \in Procs |-> "idle"]
    /\ scanning = {}
    /\ out = [p \in Procs |-> <<>>]
    /\ cmds = [p \in Procs |-> 0]
    /\ ledger = [p \in Procs |-> [t \in Topics |-> 0]]

\* send_all sends the whole buffer and then, in its return statement, sends it
\* once more.
send_all(m) == [k \in 1 .. 2 * Segments |-> m]

\* The process ends and the kernel closes its socket.
SubscriberEnds(p) ==
    /\ pc' = [pc EXCEPT ![p] = "ended"]
    /\ scanning' = scanning \ {p}
    /\ out' = [out EXCEPT ![p] = <<>>]
    /\ hup' = hup \cup {p}
    /\ UNCHANGED <<cmds, ledger>>

\* A run that waits for input.
Waiting(p) == pc[p] = "running" /\ out[p] = <<>>

-----------------------------------------------------------------------------
(* Start.                                                                  *)

Started(p) ==
    /\ pc[p] = "idle"
    /\ Prior[p] # NoProc => pc[Prior[p]] = "ended"

Connect(p) ==
    /\ Started(p)
    /\ pc' = [pc EXCEPT ![p] = "running"]
    /\ out' = [out EXCEPT ![p] = send_all([msg_type |-> "TCP_MSG_NEW", payload |-> IdOf[p]])]
    /\ conn' = [conn EXCEPT ![p] = "queued"]
    /\ backlog' = Append(backlog, p)
    /\ UNCHANGED <<sock, stream, hup, udp_queue, typed, trailer, scanning, cmds, ledger>>

\* Nobody listens on the port.
ConnectRefused(p) ==
    /\ Started(p)
    /\ SubscriberEnds(p)
    /\ UNCHANGED <<backlog, sock, stream, conn, udp_queue, typed, trailer>>

-----------------------------------------------------------------------------
(* send_all.  The server's end may have been closed: the other kernel then *)
(* answers a segment with a reset, and a send fails once that has come.    *)

Push(p) ==
    /\ pc[p] = "running"
    /\ out[p] # <<>>
    /\ conn[p] \notin {"broken", "rst"}
    /\ out' = [out EXCEPT ![p] = Tail(@)]
    /\ IF conn[p] = "fin"
       THEN /\ \E c \in {"fin", "broken"} : conn' = [conn EXCEPT ![p] = c]
            /\ UNCHANGED stream
       ELSE /\ stream' = [stream EXCEPT ![p] = Append(@, Head(out[p]))]
            /\ UNCHANGED conn
    /\ UNCHANGED <<backlog, sock, hup, udp_queue, typed, trailer, pc, scanning, cmds, ledger>>

SendFails(p) ==
    /\ pc[p] = "running"
    /\ out[p] # <<>>
    /\ conn[p] \in {"broken", "rst"}
    /\ SubscriberEnds(p)
    /\ UNCHANGED <<backlog, sock, stream, conn, udp_queue, typed, trailer>>

-----------------------------------------------------------------------------
(* Commands.  subscribe and unsubscribe are acknowledged to the user as    *)
(* soon as the packet is sent; the server answers nothing.                 *)
(* A blank line or a subscribe without its arguments keeps the run in      *)
(* scanf until the user types on.  (ClientLoop has the words themselves.)  *)

BeginCommand(p) ==
    /\ Waiting(p)
    /\ p \in Pausing \ scanning
    /\ scanning' = scanning \cup {p}
    /\ UNCHANGED <<netVars, pc, out, cmds, ledger>>

\* The word that comes is no command.
UnknownWord(p) ==
    /\ p \in scanning
    /\ scanning' = scanning \ {p}
    /\ UNCHANGED <<netVars, pc, out, cmds, ledger>>

\* The ledger is counted as the server's list is: unsubscribe finds nothing
\* to remove at 0.
Command(p, type, topic, count) ==
    /\ Waiting(p)
    /\ cmds[p] < MaxCommands[p]
    /\ cmds' = [cmds EXCEPT ![p] = @ + 1]
    /\ out' = [out EXCEPT ![p] = send_all([msg_type |-> type, payload |-> topic])]
    /\ ledger' = [ledger EXCEPT ![p][topic] = count]
    /\ scanning' = scanning \ {p}
    /\ UNCHANGED <<netVars, pc>>

SubscribeCommand(p, topic) ==
    Command(p, "TCP_MSG_SUBSCRIBE", topic, ledger[p][topic] + 1)

UnsubscribeCommand(p, topic) ==
    Command(p, "TCP_MSG_UNSUBSCRIBE", topic,
            IF ledger[p][topic] = 0 THEN 0 ELSE ledger[p][topic] - 1)

ExitCommand(p) ==
    /\ Waiting(p)
    /\ SubscriberEnds(p)
    /\ UNCHANGED <<backlog, sock, stream, conn, udp_queue, typed, trailer>>

-----------------------------------------------------------------------------
(* The socket.  The server closed the connection: recv_all meets the end   *)
(* of file, or DIEs of the reset.  (It never sends a packet: NothingSent   *)
(* in PubSub.)                                                             *)

\* Mutant: only the return value 0 of recv_all is acted on.
HangupAtEndOfFile(p) ==
    /\ Waiting(p) /\ p \notin scanning
    /\ conn[p] \in {"fin", "broken"}
    /\ SubscriberEnds(p)
    /\ UNCHANGED <<backlog, sock, stream, conn, udp_queue, typed, trailer>>

Hangup(p) ==
    /\ Waiting(p) /\ p \notin scanning
    /\ conn[p] \in {"fin", "broken", "rst"}
    /\ SubscriberEnds(p)
    /\ UNCHANGED <<backlog, sock, stream, conn, udp_queue, typed, trailer>>

Kill(p) ==
    /\ pc[p] = "running"
    /\ SubscriberEnds(p)
    /\ UNCHANGED <<backlog, sock, stream, conn, udp_queue, typed, trailer>>

\* The steps a run takes by itself, ...
run_client(p) == Push(p) \/ SendFails(p) \/ Hangup(p)

\* ... and those its user causes once it runs.
User(p) ==
    \/ BeginCommand(p) \/ UnknownWord(p)
    \/ \E topic \in Topics : SubscribeCommand(p, topic) \/ UnsubscribeCommand(p, topic)
    \/ ExitCommand(p)
    \/ Kill(p)
=============================================================================
