------------------------------ MODULE ClientLoop ------------------------------
(***************************************************************************)
(* The subscriber's loop at the level of words and pieces of packets:      *)
(* what the user types and what scanf has of it, and the packets a server  *)
(* sends as recv_all gets them.  Subscriber abstracts from both: PubSub's  *)
(* server sends nothing.  The server here is one that sends with send_all, *)
(* as TCP_server_send does, and may end.                                   *)
(***************************************************************************)
EXTENDS Integers, Sequences, SequencesExt

CONSTANTS
    Lines,        \* the lines the user may type, as sequences of words
    Numbers,      \* the words that %hhu reads
    Pieces,       \* bound: how many pieces a packet may arrive in
    MaxLines,     \* bound: lines typed
    MaxMessages   \* bound: messages sent by the server

ASSUME ClientLoopAssumption ==
    /\ Lines \subseteq Seq(STRING)
    /\ Pieces \in Nat \ {0} /\ MaxLines \in Nat /\ MaxMessages \in Nat

VARIABLES
    lines,        \* history: the lines typed
    pipe,         \* words typed and not read by scanf
    blank,        \* whether a line without words was typed and not read
    eof,          \* whether standard input has ended
    stdio,        \* words read ahead by scanf
    pc,           \* where the loop is
    pending,      \* descriptors poll reported and the loop has not come to
    words,        \* the words of the command being read
    cmd,          \* what get_user_command's buffer holds
    done,         \* history: commands carried out
    sent,         \* messages the server has begun to send
    repeat,       \* whether send_all has the last of them still to repeat
    flying,       \* pieces under way
    arrived,      \* pieces to be received
    closed,       \* whether the server has closed the connection
    buffer,       \* recv_packet: the piece in each place
    got,          \* bytes_received, in pieces
    whole,        \* history: every second recv got a whole packet
    printed       \* history: packets printed

inputVars == <<lines, pipe, blank, eof, stdio>>
serverVars == <<sent, repeat, flying, arrived, closed>>
receiveVars == <<buffer, got, whole, printed>>
vars == <<inputVars, pc, pending, words, cmd, done, serverVars, receiveVars>>

STDIN == 0
SOCKET == 1

Packet(m) == [i \in 1 .. Pieces |-> <<m, i>>]

Init ==
    /\ lines = <<>> /\ pipe = <<>> /\ blank = FALSE /\ eof = FALSE /\ stdio = <<>>
    /\ pc = "poll" /\ pending = {} /\ words = <<>> /\ cmd = "" /\ done = <<>>
    /\ sent = 0 /\ repeat = FALSE /\ flying = <<>> /\ arrived = <<>> /\ closed = FALSE
    /\ buffer = Packet(0) /\ got = 0 /\ whole = TRUE /\ printed = <<>>

-----------------------------------------------------------------------------
(* The user, the server and the network.                                   *)

Type(line) ==
    /\ ~eof /\ pc \notin {"ended", "corrupted"} /\ Len(lines) < MaxLines
    /\ lines' = Append(lines, line)
    /\ pipe' = pipe \o line
    /\ UNCHANGED <<blank, eof, stdio, pc, pending, words, cmd, done, serverVars, receiveVars>>

TypeBlank ==
    /\ ~eof /\ pc \notin {"ended", "corrupted"}
    /\ blank' = TRUE
    /\ UNCHANGED <<lines, pipe, eof, stdio, pc, pending, words, cmd, done, serverVars, receiveVars>>

EndInput ==
    /\ ~eof
    /\ eof' = TRUE
    /\ UNCHANGED <<lines, pipe, blank, stdio, pc, pending, words, cmd, done, serverVars, receiveVars>>

\* Mutant: send_all sends the packet once.
send_once == FALSE

\* After its loop send_all sends the packet once more.
send_all_repeats == TRUE

SendMessage ==
    /\ ~closed /\ ~repeat /\ sent < MaxMessages
    /\ sent' = sent + 1
    /\ flying' = flying \o Packet(sent + 1)
    /\ repeat' = send_all_repeats
    /\ UNCHANGED <<inputVars, pc, pending, words, cmd, done, arrived, closed, receiveVars>>

SendAgain ==
    /\ ~closed /\ repeat
    /\ flying' = flying \o Packet(sent)
    /\ repeat' = FALSE
    /\ UNCHANGED <<inputVars, pc, pending, words, cmd, done, sent, arrived, closed, receiveVars>>

\* The server ends, wherever it is.
Close ==
    /\ ~closed
    /\ closed' = TRUE
    /\ UNCHANGED <<inputVars, pc, pending, words, cmd, done, sent, repeat, flying, arrived, receiveVars>>

Deliver ==
    /\ flying # <<>>
    /\ arrived' = Append(arrived, Head(flying))
    /\ flying' = Tail(flying)
    /\ UNCHANGED <<inputVars, pc, pending, words, cmd, done, sent, repeat, closed, receiveVars>>

\* What ends recv with 0 or an error: nothing is left of what the server sent,
\* or its end reset the connection because of a command it had not read.
Ended == closed /\ ((flying = <<>> /\ arrived = <<>>) \/ done # <<>>)

-----------------------------------------------------------------------------
(* run_client.                                                             *)

Ready ==
    {fd \in {STDIN, SOCKET} :
        IF fd = STDIN THEN pipe # <<>> \/ blank \/ eof ELSE arrived # <<>> \/ Ended}

Poll ==
    /\ pc = "poll" /\ Ready # {}
    /\ pending' = Ready
    /\ pc' = "events"
    /\ UNCHANGED <<inputVars, words, cmd, done, serverVars, receiveVars>>

NoMoreEvents ==
    /\ pc = "events" /\ pending = {}
    /\ pc' = "poll"
    /\ UNCHANGED <<inputVars, pending, words, cmd, done, serverVars, receiveVars>>

\* Mutant: what was read ahead is thrown away.
only_pipe == pipe

\* What scanf can read from: its buffer, which it fills from the pipe, as far
\* as that goes, when it is empty.  White space it skips: where there is no word
\* behind it, scanf waits for one, whatever poll reported.
Input == IF stdio = <<>> THEN pipe ELSE stdio

Unread(rest) ==
    /\ stdio' = rest
    /\ pipe' = IF stdio = <<>> THEN <<>> ELSE pipe
    /\ blank' = (blank /\ stdio # <<>>)
    /\ UNCHANGED <<lines, eof>>

NoInput == Input = <<>> /\ eof /\ Unread(<<>>)

\* The first word.  At the end of input scanf leaves the buffer unassigned: it
\* holds what it held or what other calls put in its place.
ReadCommand ==
    /\ pc = "events" /\ STDIN \in pending
    /\ \/ Input # <<>> /\ cmd' = Head(Input) /\ Unread(Tail(Input))
       \/ NoInput /\ cmd' \in {cmd, ""}
    /\ words' = <<cmd'>>
    /\ pc' = IF cmd' \in {"subscribe", "unsubscribe"} THEN "arguments" ELSE "command"
    /\ UNCHANGED <<pending, done, serverVars, receiveVars>>

Complete(ws) == \/ Len(ws) = 3 /\ ws[1] = "subscribe"
                \/ Len(ws) = 2 /\ ws[1] = "unsubscribe"

\* vread blocks until there is a word or the input ends.  A word that is not a
\* number stays unread.
ReadArgument ==
    /\ pc = "arguments"
    /\ \/ /\ Input # <<>>
          /\ Len(words) = 1 \/ Head(Input) \in Numbers
          /\ words' = Append(words, Head(Input))
          /\ Unread(Tail(Input))
       \/ /\ Input # <<>>
          /\ Len(words) = 2 /\ Head(Input) \notin Numbers
          /\ words' = <<>>
          /\ Unread(Input)
       \/ NoInput /\ words' = <<>>
    /\ pc' = IF words' = <<>> \/ Complete(words') THEN "command" ELSE "arguments"
    /\ UNCHANGED <<pending, cmd, done, serverVars, receiveVars>>

\* scanf writes as long a word as it reads: one that is no command may be longer
\* than cmd, and the word read as a topic longer than args.
Overrun ==
    /\ Input # <<>>
    /\ \/ pc = "events" /\ STDIN \in pending /\ Head(Input) \notin {"exit", "subscribe", "unsubscribe"}
       \/ pc = "arguments" /\ Len(words) = 1
    /\ pc' = "corrupted"
    /\ UNCHANGED <<inputVars, pending, words, cmd, done, serverVars, receiveVars>>

\* Sending to a server that is gone may end the process.
Carry ==
    /\ pc = "command"
    /\ done' = IF words = <<"exit">> \/ Complete(words) THEN Append(done, words) ELSE done
    /\ \/ words # <<"exit">> /\ pc' = "events"
       \/ /\ words = <<"exit">> \/ (closed /\ Complete(words))
          /\ pc' = "ended"
    /\ pending' = pending \ {STDIN}
    /\ words' = <<>>
    /\ UNCHANGED <<inputVars, cmd, serverVars, receiveVars>>

-----------------------------------------------------------------------------
(* recv_all.                                                               *)

BeginReceive ==
    /\ pc = "events" /\ STDIN \notin pending /\ SOCKET \in pending
    /\ pc' = "recv"
    /\ got' = 0
    /\ UNCHANGED <<inputVars, pending, words, cmd, done, serverVars, buffer, whole, printed>>

\* Mutant: the loop writes at the start of the buffer each time.
filled_from_start(start, n) ==
    [i \in 1 .. Pieces |-> IF i <= n THEN arrived[i] ELSE buffer[i]]

\* The buffer after n pieces are received behind the first `start`.
filled(start, n) ==
    [i \in 1 .. Pieces |-> IF start < i /\ i <= start + n THEN arrived[i - start] ELSE buffer[i]]

Receives(start) ==
    LET n == Min({Pieces - start, Len(arrived)})
    IN  /\ arrived # <<>>
        /\ buffer' = filled(start, n)
        /\ arrived' = SubSeq(arrived, n + 1, Len(arrived))
        /\ UNCHANGED <<sent, repeat, flying, closed>>

\* Mutant: the loop goes on.
goes_on == "events"

\* Where the loop is once recv_all has returned 0, or has failed: it returns, or
\* DIEs.
after_hangup == "ended"

ReceiveLoop ==
    /\ pc = "recv"
    /\ \/ /\ Receives(got)
          /\ got' = Min({Pieces, got + Len(arrived)})
          /\ pc' = IF got' = Pieces THEN "again" ELSE "recv"
       \/ Ended /\ pc' = after_hangup /\ UNCHANGED <<serverVars, buffer, got>>
    /\ UNCHANGED <<inputVars, pending, words, cmd, done, whole, printed>>

\* The last line of recv_all receives over the packet just received, and what
\* it returns says whether there was one.
ReceiveAgain ==
    /\ pc = "again"
    /\ \/ /\ Receives(0)
          /\ whole' = (whole /\ Len(arrived) >= Pieces)
          /\ printed' = Append(printed, buffer')
          /\ pc' = "events"
       \/ Ended /\ pc' = after_hangup /\ UNCHANGED <<serverVars, buffer, whole, printed>>
    /\ pending' = pending \ {SOCKET}
    /\ UNCHANGED <<inputVars, words, cmd, done, got>>

-----------------------------------------------------------------------------
run_client ==
    \/ Poll \/ NoMoreEvents
    \/ ReadCommand \/ ReadArgument \/ Overrun \/ Carry
    \/ BeginReceive \/ ReceiveLoop \/ ReceiveAgain

Next ==
    \/ run_client
    \/ \E line \in Lines : Type(line)
    \/ TypeBlank \/ EndInput
    \/ SendMessage \/ SendAgain \/ Deliver \/ Close

\* The process runs, packets arrive and a server finishes what it sends, unless
\* it ends.
Spec ==
    /\ Init /\ [][Next]_vars
    /\ WF_vars(run_client) /\ WF_vars(Deliver) /\ WF_vars(SendAgain)

-----------------------------------------------------------------------------
\* A line that is a command, the flag of a subscribe being a number.
WellFormed(line) ==
    \/ line = <<"exit">>
    \/ Complete(line) /\ (Len(line) = 3 => line[3] \in Numbers)

\* As long as every line is a command, the commands carried out are the ones
\* typed, in their order: reading ahead, the words poll does not report and
\* the end of input lose, repeat or invent none.
DoesAsTyped ==
    (\A k \in 1 .. Len(lines) : WellFormed(lines[k])) => IsPrefix(done, lines)

\* However the first packet is cut, it is printed as it was sent: what is
\* received over it is the beginning of its repetition.
FirstIntact == printed # <<>> => printed[1] = Packet(1)

\* recv_all's second recv and send_all's repetition cancel out as long as the
\* repetition arrives whole: every message is printed once and in order.
PrintsAsSent ==
    whole => IsPrefix(printed, [m \in 1 .. sent |-> Packet(m)])

\* As long as repetitions arrive whole, recv only waits for what is under way
\* or what send_all has still to repeat: it never keeps the loop from the user
\* until the next message.
ReceivesWhatComes ==
    whole /\ pc \in {"recv", "again"} =>
        flying # <<>> \/ arrived # <<>> \/ closed \/ (pc = "again" /\ repeat)

\* The loop waits in scanf for a word, deaf to the server: the user has typed a
\* part of a command, or a blank line.
WaitsForWord ==
    /\ Input = <<>> /\ ~eof
    /\ pc = "arguments" \/ (pc = "events" /\ STDIN \in pending)

\* When the server has gone the subscriber ends, also at the end of its input,
\* where it spins, unless it waits for a word or has overrun its memory.
FollowsServer == closed ~> pc \in {"ended", "corrupted"} \/ WaitsForWord

\* What is typed is read, unless the loop waits for a word or a repetition came
\* in pieces: then it waits in recv for the next message.
InputRead == pipe # <<>> ~> pipe = <<>> \/ pc \in {"ended", "corrupted"} \/ ~whole \/ WaitsForWord
=============================================================================
