-------------------------- MODULE ClientLoopProofs --------------------------
(***************************************************************************)
(* What ClientLoop's subscriber does and prints, for any lines, any number *)
(* of messages and however they are cut.                                   *)
(***************************************************************************)
EXTENDS ClientLoop, SequenceTheorems, TLAPS

-----------------------------------------------------------------------------
(* Types.                                                                  *)

\* (The provers do not know that "" is a string.)
Word == STRING \cup {""}
Piece == Nat \X (1 .. Pieces)
Buffer == [1 .. Pieces -> Piece]

TypeOK ==
    /\ lines \in Seq(Lines) /\ pipe \in Seq(Word) /\ stdio \in Seq(Word)
    /\ words \in Seq(Word) /\ cmd \in Word /\ done \in Seq(Seq(Word))
    /\ pc \in {"poll", "events", "arguments", "command", "recv", "again", "ended", "corrupted"}
    /\ sent \in Nat /\ repeat \in BOOLEAN
    /\ flying \in Seq(Piece) /\ arrived \in Seq(Piece)
    /\ buffer \in Buffer /\ got \in 0 .. Pieces /\ whole \in BOOLEAN
    /\ printed \in Seq(Buffer)

-----------------------------------------------------------------------------
(* What is read, against what was typed.                                   *)

\* The words from ls[d + 1] to the end of ls are w: the line k ends in w at
\* cut[k].
SpellsWith(cut, w, ls, d) ==
    /\ cut[d] = 0 /\ cut[Len(ls)] = Len(w)
    /\ \A j, k \in d .. Len(ls) : j <= k => cut[j] <= cut[k]
    /\ \A k \in d + 1 .. Len(ls) :
          /\ cut[k] = cut[k - 1] + Len(ls[k])
          /\ \A j \in 1 .. Len(ls[k]) : w[cut[k - 1] + j] = ls[k][j]

Spells(w, ls, d) == \E cut \in [d .. Len(ls) -> 0 .. Len(w)] : SpellsWith(cut, w, ls, d)

\* Words typed and not yet returned by scanf.
Unreturned == stdio \o pipe

\* A command half read, or read.
Partial == /\ words # <<>>
           /\ \/ words[1] = "subscribe" /\ Len(words) \in {1, 2}
              \/ words = <<"unsubscribe">>
Whole == words = <<"exit">> \/ Complete(words)

\* The loop is in the line after the ones carried out ...
InLine ==
    /\ Spells(words \o Unreturned, lines, Len(done))
    /\ pc = "arguments" => Partial
    /\ pc = "command" => Whole
    /\ pc \notin {"arguments", "command"} => words = <<>>

\* ... or at the end of the input, where scanf returns what is left in cmd.
PastEnd ==
    /\ eof /\ Unreturned = <<>> /\ Len(done) = Len(lines)
    /\ pc = "arguments" => Len(words) = 1
    /\ pc = "command" => ~Whole
    /\ pc \notin {"arguments", "command"} => words = <<>>

\* cmd never holds "exit" when it is looked at again: that would end the loop.
NoStaleExit ==
    /\ pc \in {"poll", "events", "arguments", "recv", "again"} => cmd # "exit"
    /\ pc = "command" /\ cmd = "exit" => words = <<"exit">>
    /\ pc = "arguments" => words # <<>> /\ words[1] # "exit"

Stopped == {"ended", "corrupted"}

AllCommands == \A k \in 1 .. Len(lines) : WellFormed(lines[k])

DoneInOrder ==
    /\ Len(done) <= Len(lines)
    /\ \A k \in 1 .. Len(done) : done[k] = lines[k]

ReadInv ==
    /\ NoStaleExit
    /\ AllCommands => DoneInOrder /\ (pc \notin Stopped => InLine \/ PastEnd)

-----------------------------------------------------------------------------
(* What is received, against what was sent.                                *)

\* The pieces of n packets.
PiecesOf(n) == n * Pieces

\* Packets sent, and pieces received.
Packets == 2 * sent - (IF repeat THEN 1 ELSE 0)
Received == PiecesOf(Packets) - Len(arrived) - Len(flying)

\* The packet c is of the message (c + 1) \div 2.
StreamInv ==
    /\ repeat => sent > 0
    /\ Received >= 0
    /\ \A c \in 1 .. Packets, i \in 1 .. Pieces :
          LET k == PiecesOf(c - 1) + i - Received
          IN  k > 0 => (arrived \o flying)[k] = <<(c + 1) \div 2, i>>

\* As long as every repetition was whole, the loop is at the beginning of a
\* message outside of recv_all, and in it where got and pc say.
ReceiveInv ==
    LET n == Len(printed)
    IN  /\ n <= sent
        /\ \A m \in 1 .. n : printed[m] = Packet(m)
        /\ pc \in {"poll", "events", "arguments", "command"} => Received = PiecesOf(2 * n)
        /\ pc = "recv" => /\ got < Pieces
                          /\ Received = PiecesOf(2 * n) + got
                          /\ \A i \in 1 .. got : buffer[i] = <<n + 1, i>>
        /\ pc = "again" => Received = PiecesOf(2 * n + 1) /\ buffer = Packet(n + 1)

PrintInv ==
    /\ StreamInv
    /\ whole => ReceiveInv
    /\ printed = <<>> => whole
    /\ FirstIntact

LoopInv == TypeOK /\ ReadInv /\ PrintInv

-----------------------------------------------------------------------------
(* Operators of ClientLoop.                                                *)

LEMMA MinOfTwo ==
  ASSUME NEW a \in Int, NEW b \in Int
  PROVE  Min({a, b}) = IF a <= b THEN a ELSE b
BY DEF Min

LEMMA PacketPieces ==
  ASSUME NEW m \in Nat
  PROVE  /\ Packet(m) \in Buffer /\ Packet(m) \in Seq(Piece)
         /\ Len(Packet(m)) = Pieces
         /\ \A i \in 1 .. Pieces : Packet(m)[i] = <<m, i>>
<1>1. Pieces \in Nat
  BY ClientLoopAssumption
<1>2. Packet(m) \in Buffer
  BY DEF Packet, Buffer, Piece
<1>. QED  BY <1>1, <1>2 DEF Packet, Buffer, Piece

\* What recv puts into the buffer behind its first `start` pieces, and leaves.
LEMMA ReceivesStep ==
  ASSUME TypeOK, NEW start \in 0 .. Pieces, Receives(start)
  PROVE  \E n \in 0 .. Len(arrived) :
            /\ n = (IF Pieces - start <= Len(arrived) THEN Pieces - start ELSE Len(arrived))
            /\ buffer' \in Buffer
            /\ \A i \in 1 .. Pieces :
                  buffer'[i] = IF start < i /\ i <= start + n THEN arrived[i - start]
                               ELSE buffer[i]
            /\ arrived' \in Seq(Piece) /\ Len(arrived') = Len(arrived) - n
            /\ \A i \in 1 .. Len(arrived) - n : arrived'[i] = arrived[n + i]
            /\ UNCHANGED <<sent, repeat, flying, closed>>
<1>. DEFINE n == IF Pieces - start <= Len(arrived) THEN Pieces - start ELSE Len(arrived)
<1>1. Pieces \in Nat /\ Len(arrived) \in Nat /\ arrived \in Seq(Piece) /\ buffer \in Buffer
  BY ClientLoopAssumption, LenProperties DEF TypeOK
<1>2. Min({Pieces - start, Len(arrived)}) = n
  BY <1>1, MinOfTwo
<1>3. n \in 0 .. Len(arrived) /\ n <= Pieces - start
  BY <1>1
<1>4. /\ buffer' = filled(start, n) /\ arrived' = SubSeq(arrived, n + 1, Len(arrived))
      /\ UNCHANGED <<sent, repeat, flying, closed>>
  BY <1>2 DEF Receives
<1>. HIDE DEF n
<1>5. \A i \in 1 .. Len(arrived) : arrived[i] \in Piece
  BY <1>1, ElementOfSeq
<1>6. \A i \in 1 .. Pieces : start < i /\ i <= start + n => i - start \in 1 .. Len(arrived)
  BY <1>1, <1>3
<1>7. buffer' \in Buffer
  BY <1>1, <1>4, <1>5, <1>6 DEF filled, Buffer
<1>8. \A i \in 1 .. Pieces :
         buffer'[i] = IF start < i /\ i <= start + n THEN arrived[i - start] ELSE buffer[i]
  BY <1>4 DEF filled
<1>9. \A i \in n + 1 .. Len(arrived) : arrived[i] \in Piece
  BY <1>1, <1>3, <1>5
<1>10. /\ arrived' \in Seq(Piece) /\ Len(arrived') = Len(arrived) - n
       /\ \A i \in 1 .. Len(arrived) - n : arrived'[i] = arrived[n + i]
  BY <1>1, <1>3, <1>4, <1>9, SubSeqProperties
<1>11. n = (IF Pieces - start <= Len(arrived) THEN Pieces - start ELSE Len(arrived))
  BY DEF n
<1>. QED  BY <1>3, <1>4, <1>7, <1>8, <1>10, <1>11

-----------------------------------------------------------------------------
(* Types.                                                                  *)

\* What the user, the server and the network do.
Environment ==
    \/ \E line \in Lines : Type(line)
    \/ TypeBlank \/ EndInput \/ SendMessage \/ SendAgain \/ Deliver \/ Close

\* A word is taken from the input, or none is there.
LEMMA InputTypes ==
  ASSUME TypeOK
  PROVE  /\ Input \in Seq(Word)
         /\ Input # <<>> => Head(Input) \in Word /\ Tail(Input) \in Seq(Word)
         /\ \A rest \in Seq(Word) : Unread(rest) =>
               /\ pipe' \in Seq(Word) /\ stdio' \in Seq(Word) /\ lines' \in Seq(Lines)
               /\ UNCHANGED eof
<1>1. Input \in Seq(Word)
  BY DEF TypeOK, Input
<1>2. Input # <<>> => Head(Input) \in Word /\ Tail(Input) \in Seq(Word)
  BY <1>1, HeadTailProperties
<1>. QED  BY <1>1, <1>2, EmptySeq DEF TypeOK, Unread

LEMMA NothingRead == NoInput => UNCHANGED <<lines, pipe, eof, stdio>>
BY DEF NoInput, Input, Unread

LEMMA EnvironmentTypes ==
  ASSUME TypeOK, Environment
  PROVE  TypeOK'
<1>. USE DEF TypeOK
<1>1. ASSUME NEW line \in Lines, Type(line) PROVE TypeOK'
  <2>1. line \in Seq(Word)
    BY ClientLoopAssumption, SeqMonotonic DEF Word
  <2>2. lines' \in Seq(Lines) /\ pipe' \in Seq(Word)
    BY <1>1, <2>1, AppendProperties, ConcatProperties DEF Type
  <2>. QED  BY <1>1, <2>2 DEF Type, serverVars, receiveVars
<1>2. CASE TypeBlank \/ EndInput
  BY <1>2 DEF TypeBlank, EndInput, serverVars, receiveVars
<1>3. CASE SendMessage
  <2>1. flying' \in Seq(Piece)
    BY <1>3, PacketPieces, ConcatProperties DEF SendMessage
  <2>. QED  BY <1>3, <2>1 DEF SendMessage, send_all_repeats, inputVars, receiveVars
<1>4. CASE SendAgain
  <2>1. flying' \in Seq(Piece)
    BY <1>4, PacketPieces, ConcatProperties DEF SendAgain
  <2>. QED  BY <1>4, <2>1 DEF SendAgain, inputVars, receiveVars
<1>5. CASE Deliver
  <2>1. flying' \in Seq(Piece) /\ arrived' \in Seq(Piece)
    BY <1>5, HeadTailProperties, AppendProperties DEF Deliver
  <2>. QED  BY <1>5, <2>1 DEF Deliver, inputVars, receiveVars
<1>6. CASE Close
  BY <1>6 DEF Close, inputVars, receiveVars
<1>. QED  BY <1>1, <1>2, <1>3, <1>4, <1>5, <1>6 DEF Environment

LEMMA LoopTypes ==
  ASSUME TypeOK, run_client
  PROVE  TypeOK'
<1>1. CASE Poll
  BY <1>1 DEF TypeOK, Poll, inputVars, serverVars, receiveVars
<1>2. CASE NoMoreEvents
  BY <1>2 DEF TypeOK, NoMoreEvents, inputVars, serverVars, receiveVars
<1>3. CASE ReadCommand
  <2>1. UNCHANGED <<pending, done, serverVars, receiveVars>>
    BY <1>3 DEF ReadCommand
  <2>2. /\ cmd' \in Word /\ lines' \in Seq(Lines)
        /\ pipe' \in Seq(Word) /\ stdio' \in Seq(Word)
    <3>1. CASE Input # <<>> /\ cmd' = Head(Input) /\ Unread(Tail(Input))
      BY <3>1, InputTypes
    <3>2. CASE NoInput /\ cmd' \in {cmd, ""}
      <4>1. UNCHANGED <<lines, pipe, stdio>> /\ cmd' \in {cmd, ""}
        BY <3>2, NothingRead
      <4>2. cmd' \in Word
        BY <4>1 DEF TypeOK, Word
      <4>. QED  BY <4>1, <4>2 DEF TypeOK
    <3>3. \/ Input # <<>> /\ cmd' = Head(Input) /\ Unread(Tail(Input))
          \/ NoInput /\ cmd' \in {cmd, ""}
      BY <1>3 DEF ReadCommand
    <3>. QED  BY <3>1, <3>2, <3>3
  <2>3. pc' \in {"arguments", "command"} /\ words' = <<cmd'>>
    BY <1>3 DEF ReadCommand
  <2>4. words' \in Seq(Word)
    BY <2>2, <2>3
  <2>. QED  BY <2>1, <2>2, <2>3, <2>4 DEF TypeOK, serverVars, receiveVars
<1>4. CASE ReadArgument
  <2>1. UNCHANGED <<pending, cmd, done, serverVars, receiveVars>>
    BY <1>4 DEF ReadArgument
  <2>2. /\ words' \in Seq(Word) /\ lines' \in Seq(Lines)
        /\ pipe' \in Seq(Word) /\ stdio' \in Seq(Word)
    <3>1. CASE Input # <<>> /\ words' = Append(words, Head(Input)) /\ Unread(Tail(Input))
      <4>1. words' \in Seq(Word)
        BY <3>1, InputTypes, AppendProperties DEF TypeOK
      <4>. QED  BY <3>1, <4>1, InputTypes
    <3>2. CASE words' = <<>> /\ Unread(Input)
      BY <3>2, InputTypes, EmptySeq
    <3>3. CASE NoInput /\ words' = <<>>
      BY <3>3, EmptySeq, NothingRead DEF TypeOK
    <3>. QED  BY <1>4, <3>1, <3>2, <3>3 DEF ReadArgument
  <2>3. pc' \in {"arguments", "command"}
    BY <1>4 DEF ReadArgument
  <2>. QED  BY <2>1, <2>2, <2>3 DEF TypeOK, serverVars, receiveVars
<1>5. CASE Carry
  <2>1. done' \in Seq(Seq(Word)) /\ words' \in Seq(Word)
    BY <1>5, AppendProperties, EmptySeq DEF Carry, TypeOK
  <2>. QED  BY <1>5, <2>1 DEF TypeOK, Carry, inputVars, serverVars, receiveVars
<1>6. CASE BeginReceive
  BY <1>6, ClientLoopAssumption DEF TypeOK, BeginReceive, inputVars, serverVars
<1>7. CASE ReceiveLoop
  <2>1. UNCHANGED <<inputVars, pending, words, cmd, done, whole, printed>> /\ pc = "recv"
    BY <1>7 DEF ReceiveLoop
  <2>2. CASE Receives(got) /\ got' = Min({Pieces, got + Len(arrived)})
               /\ pc' = IF got' = Pieces THEN "again" ELSE "recv"
    <3>1. Pieces \in Nat /\ Len(arrived) \in Nat /\ got \in 0 .. Pieces
      BY ClientLoopAssumption, LenProperties DEF TypeOK
    <3>2. got' \in 0 .. Pieces
      BY <2>2, <3>1, MinOfTwo
    <3>3. /\ buffer' \in Buffer /\ arrived' \in Seq(Piece)
          /\ UNCHANGED <<sent, repeat, flying, closed>>
      BY <2>2, <3>1, ReceivesStep
    <3>. QED  BY <2>1, <2>2, <3>2, <3>3 DEF TypeOK, inputVars
  <2>3. CASE Ended /\ pc' = after_hangup /\ UNCHANGED <<serverVars, buffer, got>>
    BY <2>1, <2>3 DEF TypeOK, inputVars, serverVars, after_hangup
  <2>. QED  BY <1>7, <2>2, <2>3 DEF ReceiveLoop
<1>8. CASE ReceiveAgain
  <2>1. UNCHANGED <<inputVars, words, cmd, done, got>>
    BY <1>8 DEF ReceiveAgain
  <2>2. CASE /\ Receives(0) /\ whole' = (whole /\ Len(arrived) >= Pieces)
             /\ printed' = Append(printed, buffer') /\ pc' = "events"
    <3>1. /\ buffer' \in Buffer /\ arrived' \in Seq(Piece)
          /\ UNCHANGED <<sent, repeat, flying, closed>>
      BY <2>2, ReceivesStep, ClientLoopAssumption
    <3>2. printed' \in Seq(Buffer)
      BY <2>2, <3>1, AppendProperties DEF TypeOK
    <3>. QED  BY <2>1, <2>2, <3>1, <3>2 DEF TypeOK, inputVars
  <2>3. CASE Ended /\ pc' = after_hangup /\ UNCHANGED <<serverVars, buffer, whole, printed>>
    BY <2>1, <2>3 DEF TypeOK, inputVars, serverVars, after_hangup
  <2>. QED  BY <1>8, <2>2, <2>3 DEF ReceiveAgain
<1>9. CASE Overrun
  BY <1>9 DEF TypeOK, Overrun, inputVars, serverVars, receiveVars
<1>. QED  BY <1>1, <1>2, <1>3, <1>4, <1>5, <1>6, <1>7, <1>8, <1>9 DEF run_client

LEMMA NextTypes ==
  ASSUME TypeOK, [Next]_vars
  PROVE  TypeOK'
<1>1. CASE UNCHANGED vars
  BY <1>1 DEF TypeOK, vars, inputVars, serverVars, receiveVars
<1>. QED  BY <1>1, EnvironmentTypes, LoopTypes DEF Next, Environment

-----------------------------------------------------------------------------
(* Lines and the words they are spelled with.                              *)

LEMMA SpellsFirst ==
  ASSUME NEW w \in Seq(Word), NEW ls \in Seq(Seq(Word)), NEW d \in 0 .. Len(ls) - 1,
         Spells(w, ls, d)
  PROVE  /\ ls[d + 1] \in Seq(Word) /\ Len(ls[d + 1]) \in Nat
         /\ Len(ls[d + 1]) <= Len(w)
         /\ \A j \in 1 .. Len(ls[d + 1]) : w[j] = ls[d + 1][j]
<1>1. Len(ls) \in Nat /\ Len(w) \in Nat
  BY LenProperties
<1>2. d \in d .. Len(ls) /\ d + 1 \in d + 1 .. Len(ls) /\ d + 1 \in 1 .. Len(ls) /\ (d + 1) - 1 = d
  BY <1>1
<1>3. ls[d + 1] \in Seq(Word) /\ Len(ls[d + 1]) \in Nat
  BY <1>2, ElementOfSeq, LenProperties
<1>4. PICK cut \in [d .. Len(ls) -> 0 .. Len(w)] : SpellsWith(cut, w, ls, d)
  BY DEF Spells
<1>5. /\ cut[d] = 0 /\ cut[d + 1] = cut[d] + Len(ls[d + 1])
      /\ \A j \in 1 .. Len(ls[d + 1]) : w[cut[d] + j] = ls[d + 1][j]
  <2>. DEFINE k == d + 1
  <2>1. k \in d + 1 .. Len(ls) /\ k - 1 = d
    BY <1>2
  <2>. HIDE DEF k
  <2>2. /\ cut[d] = 0 /\ cut[k] = cut[k - 1] + Len(ls[k])
        /\ \A j \in 1 .. Len(ls[k]) : w[cut[k - 1] + j] = ls[k][j]
    BY <1>4, <2>1 DEF SpellsWith
  <2>3. /\ cut[d] = 0 /\ cut[k] = cut[d] + Len(ls[k])
        /\ \A j \in 1 .. Len(ls[k]) : w[cut[d] + j] = ls[k][j]
    BY <2>1, <2>2
  <2>. QED  BY <2>3 DEF k
<1>6. cut[d + 1] \in 0 .. Len(w)
  <2>1. d + 1 \in d .. Len(ls)
    BY <1>1
  <2>. QED  BY <2>1
<1>. QED  BY <1>1, <1>3, <1>5, <1>6

LEMMA SpellsRest ==
  ASSUME NEW w \in Seq(Word), NEW ls \in Seq(Seq(Word)), NEW d \in 0 .. Len(ls) - 1,
         Spells(w, ls, d), NEW u \in Seq(Word), w = ls[d + 1] \o u
  PROVE  Spells(u, ls, d + 1)
<1>0. PICK l \in Nat : l = Len(ls[d + 1])
  BY SpellsFirst
<1>1. Len(ls) \in Nat /\ Len(w) \in Nat /\ Len(u) \in Nat
  BY LenProperties
<1>2. /\ Len(w) = l + Len(u)
      /\ \A i \in 1 .. Len(u) : w[l + i] = u[i]
  BY <1>0, <1>1, SpellsFirst, ConcatProperties
<1>3. PICK cut : cut \in [d .. Len(ls) -> 0 .. Len(w)] /\ SpellsWith(cut, w, ls, d)
  BY DEF Spells
<1>. DEFINE new == [k \in d + 1 .. Len(ls) |-> cut[k] - l]
<1>4. cut[d + 1] = l
  BY <1>0, <1>1, <1>3 DEF SpellsWith
<1>5. \A k \in d + 1 .. Len(ls) : cut[k] \in l .. Len(w)
  <2>1. SUFFICES ASSUME NEW k \in d + 1 .. Len(ls) PROVE cut[k] \in l .. Len(w)
    OBVIOUS
  <2>2. k \in d .. Len(ls) /\ d + 1 \in d .. Len(ls) /\ d + 1 <= k
    BY <1>1
  <2>3. cut[k] \in 0 .. Len(w) /\ cut[d + 1] <= cut[k]
    BY <1>3, <2>2 DEF SpellsWith
  <2>. QED  BY <1>1, <1>4, <2>3
<1>6. new \in [d + 1 .. Len(ls) -> 0 .. Len(u)]
  <2>1. SUFFICES ASSUME NEW k \in d + 1 .. Len(ls) PROVE cut[k] - l \in 0 .. Len(u)
    OBVIOUS
  <2>. DEFINE a == cut[k]
  <2>2. a \in l .. Len(w) /\ Len(w) = l + Len(u)
    BY <1>2, <1>5
  <2>. HIDE DEF a
  <2>3. a - l \in 0 .. Len(u)
    BY <1>1, <2>2
  <2>. QED  BY <2>3 DEF a
<1>7. \A k \in d + 2 .. Len(ls) : /\ ls[k] \in Seq(Word) /\ Len(ls[k]) \in Nat
  <2>1. \A k \in d + 2 .. Len(ls) : k \in 1 .. Len(ls)
    BY <1>1
  <2>. QED  BY <2>1, ElementOfSeq, LenProperties
<1>8. new[d + 1] = 0 /\ new[Len(ls)] = Len(u)
  BY <1>1, <1>2, <1>3, <1>4 DEF SpellsWith
<1>9. \A j, k \in d + 1 .. Len(ls) : j <= k => new[j] <= new[k]
  <2>1. SUFFICES ASSUME NEW j \in d + 1 .. Len(ls), NEW k \in d + 1 .. Len(ls), j <= k
                 PROVE  new[j] <= new[k]
    OBVIOUS
  <2>. DEFINE a == cut[j]
              b == cut[k]
  <2>2. a <= b
    BY <1>1, <1>3, <2>1 DEF SpellsWith
  <2>3. a \in Int /\ b \in Int /\ l \in Int /\ new[j] = a - l /\ new[k] = b - l
    BY <1>1, <1>5
  <2>. HIDE DEF a, b, new
  <2>. QED  BY <2>2, <2>3
<1>10. ASSUME NEW k \in d + 2 .. Len(ls)
       PROVE  /\ new[k] = new[k - 1] + Len(ls[k])
              /\ \A j \in 1 .. Len(ls[k]) : u[new[k - 1] + j] = ls[k][j]
  <2>1. k \in d + 1 .. Len(ls) /\ k - 1 \in d + 1 .. Len(ls)
    BY <1>1
  <2>2. /\ cut[k] = cut[k - 1] + Len(ls[k])
        /\ \A j \in 1 .. Len(ls[k]) : w[cut[k - 1] + j] = ls[k][j]
    BY <1>3, <2>1 DEF SpellsWith
  <2>3. new[k] = cut[k] - l /\ new[k - 1] = cut[k - 1] - l
    BY <2>1
  <2>4. new[k] \in 0 .. Len(u) /\ new[k - 1] \in 0 .. Len(u)
    BY <1>6, <2>1
  <2>5. cut[k] \in l .. Len(w) /\ cut[k - 1] \in l .. Len(w)
    BY <1>5, <2>1
  <2>. HIDE DEF new
  <2>6. new[k] = new[k - 1] + Len(ls[k])
    <3>. DEFINE a == cut[k]
                b == cut[k - 1]
                c == Len(ls[k])
    <3>1. l \in Int /\ a \in Int /\ b \in Int /\ c \in Int
      BY <1>1, <1>7, <2>5
    <3>2. a = b + c /\ new[k] = a - l /\ new[k - 1] = b - l
      BY <2>2, <2>3
    <3>. HIDE DEF a, b, c
    <3>3. a - l = (b - l) + c
      BY <3>1, <3>2
    <3>4. new[k] = new[k - 1] + c
      BY <3>2, <3>3
    <3>. QED  BY <3>4 DEF c
  <2>7. ASSUME NEW j \in 1 .. Len(ls[k]) PROVE u[new[k - 1] + j] = ls[k][j]
    <3>1. new[k - 1] + j \in 1 .. Len(u) /\ l + (new[k - 1] + j) = cut[k - 1] + j
      <4>1. Len(ls[k]) \in Nat /\ Len(u) \in Nat
        BY <1>1, <1>7
      <4>2. l + ((cut[k - 1] - l) + j) = cut[k - 1] + j
        <5>. DEFINE b == cut[k - 1]
        <5>1. l \in Int /\ b \in Int
          BY <1>1, <2>5
        <5>. HIDE DEF b
        <5>2. j \in Int
          BY <4>1
        <5>3. l + ((b - l) + j) = b + j
          BY <5>1, <5>2
        <5>. QED  BY <5>3 DEF b
      <4>3. new[k - 1] + j \in 1 .. Len(u)
        <5>1. new[k - 1] \in Nat /\ new[k] <= Len(u)
          BY <2>4
        <5>2. j \in Nat /\ j >= 1 /\ j <= Len(ls[k])
          BY <4>1
        <5>3. \A x, a, i, n \in Nat : 1 <= i /\ i <= a /\ x + a <= n => x + i \in 1 .. n
          OBVIOUS
        <5>4. new[k - 1] + Len(ls[k]) <= Len(u)
          BY <2>6, <5>1
        <5>. QED  BY <4>1, <5>1, <5>2, <5>3, <5>4
      <4>. QED  BY <2>3, <4>2, <4>3
    <3>2. w[l + (new[k - 1] + j)] = u[new[k - 1] + j]
      BY <1>2, <3>1
    <3>. QED  BY <2>2, <3>1, <3>2
  <2>. QED  BY <2>6, <2>7
<1>11. SpellsWith(new, u, ls, d + 1)
  <2>. HIDE DEF new
  <2>1. (d + 1) + 1 = d + 2
    OBVIOUS
  <2>. QED  BY <1>8, <1>9, <1>10, <2>1 DEF SpellsWith
<1>. QED  BY <1>6, <1>11 DEF Spells

LEMMA SpellsMore ==
  ASSUME NEW w \in Seq(Word), NEW ls \in Seq(Seq(Word)), NEW d \in 0 .. Len(ls),
         Spells(w, ls, d), NEW line \in Seq(Word)
  PROVE  Spells(w \o line, Append(ls, line), d)
<1>. DEFINE n == Len(ls)
            v == w \o line
            more == Append(ls, line)
<1>1. n \in Nat /\ Len(w) \in Nat /\ Len(line) \in Nat
  BY LenProperties
<1>2. PICK cut \in [d .. n -> 0 .. Len(w)] : SpellsWith(cut, w, ls, d)
  BY DEF Spells
<1>3. /\ Len(v) = Len(w) + Len(line)
      /\ \A i \in 1 .. Len(w) : v[i] = w[i]
      /\ \A i \in 1 .. Len(line) : v[Len(w) + i] = line[i]
  BY <1>1, ConcatProperties
<1>4. /\ Len(more) = n + 1 /\ more[n + 1] = line
      /\ \A k \in 1 .. n : more[k] = ls[k]
  BY AppendProperties
<1>5. \A k \in 1 .. n : Len(ls[k]) \in Nat
  BY ElementOfSeq, LenProperties
<1>. DEFINE new == [k \in d .. n + 1 |-> IF k <= n THEN cut[k] ELSE Len(v)]
<1>6. /\ cut[d] = 0 /\ cut[n] = Len(w)
      /\ \A j, k \in d .. n : j <= k => cut[j] <= cut[k]
      /\ \A k \in d + 1 .. n : /\ cut[k] = cut[k - 1] + Len(ls[k])
                               /\ \A j \in 1 .. Len(ls[k]) : w[cut[k - 1] + j] = ls[k][j]
  BY <1>2 DEF SpellsWith
<1>. HIDE DEF more, v
<1>7. \A k \in d .. n : cut[k] \in 0 .. Len(w)
  OBVIOUS
<1>8. new \in [d .. n + 1 -> 0 .. Len(v)]
  BY <1>1, <1>3, <1>7
<1>9. /\ \A k \in d .. n : new[k] = cut[k]
      /\ new[n + 1] = Len(v)
  BY <1>1
<1>. HIDE DEF new
<1>10. \A j, k \in d .. n + 1 : j <= k => new[j] <= new[k]
  <2>1. SUFFICES ASSUME NEW j \in d .. n + 1, NEW k \in d .. n + 1, j <= k
                 PROVE  new[j] <= new[k]
    OBVIOUS
  <2>2. CASE k <= n
    <3>1. j \in d .. n /\ k \in d .. n
      BY <1>1, <2>1, <2>2
    <3>. QED  BY <1>6, <1>9, <2>1, <3>1
  <2>3. CASE k = n + 1
    BY <1>8, <1>9, <1>1, <1>3, <2>3
  <2>. QED  BY <1>1, <2>2, <2>3
<1>11. ASSUME NEW k \in d + 1 .. n + 1
       PROVE  /\ new[k] = new[k - 1] + Len(more[k])
              /\ \A j \in 1 .. Len(more[k]) : v[new[k - 1] + j] = more[k][j]
  <2>1. CASE k <= n
    <3>1. k \in d + 1 .. n /\ k - 1 \in d .. n /\ k \in d .. n /\ k \in 1 .. n
      BY <1>1, <2>1
    <3>2. /\ cut[k] = cut[k - 1] + Len(ls[k])
          /\ \A j \in 1 .. Len(ls[k]) : w[cut[k - 1] + j] = ls[k][j]
      BY <1>6, <3>1
    <3>3. cut[k] \in 0 .. Len(w) /\ cut[k - 1] \in 0 .. Len(w) /\ Len(ls[k]) \in Nat
      BY <1>5, <1>7, <3>1
    <3>4. \A j \in 1 .. Len(ls[k]) : cut[k - 1] + j \in 1 .. Len(w)
      <4>. DEFINE a == cut[k]
                  b == cut[k - 1]
                  l == Len(ls[k])
                  top == Len(w)
      <4>1. a = b + l /\ a \in 0 .. top /\ b \in 0 .. top /\ l \in Nat /\ top \in Nat
        BY <1>1, <3>2, <3>3
      <4>. HIDE DEF a, b, l, top
      <4>2. \A j \in 1 .. l : b + j \in 1 .. top
        BY <4>1
      <4>. QED  BY <4>2 DEF b, l, top
    <3>5. new[k] = cut[k] /\ new[k - 1] = cut[k - 1] /\ more[k] = ls[k]
      BY <1>4, <1>9, <3>1
    <3>. QED  BY <1>3, <3>2, <3>4, <3>5
  <2>2. CASE k = n + 1
    <3>1. k - 1 = n /\ n \in d .. n
      BY <1>1, <2>2
    <3>2. new[k - 1] = Len(w) /\ new[k] = Len(v) /\ more[k] = line
      BY <1>4, <1>6, <1>9, <2>2, <3>1
    <3>. QED  BY <1>3, <3>2
  <2>. QED  BY <1>1, <2>1, <2>2
<1>12. new[d] = 0 /\ new[n + 1] = Len(v)
  BY <1>1, <1>6, <1>9
<1>13. SpellsWith(new, v, more, d)
  BY <1>4, <1>10, <1>11, <1>12 DEF SpellsWith
<1>. QED  BY <1>4, <1>8, <1>13 DEF Spells, v, more

-----------------------------------------------------------------------------
(* scanf.                                                                  *)

LEMMA Reassociate ==
  ASSUME NEW s \in Seq(Word), NEW t \in Seq(Word), NEW u \in Seq(Word)
  PROVE  (s \o t) \o u = s \o (t \o u)
BY ConcatAssociative

LEMMA ReassociatePieces ==
  ASSUME NEW s \in Seq(Piece), NEW t \in Seq(Piece), NEW u \in Seq(Piece)
  PROVE  (s \o t) \o u = s \o (t \o u)
BY ConcatAssociative

LEMMA LinesAreWords ==
  ASSUME TypeOK
  PROVE  lines \in Seq(Seq(Word))
<1>1. Seq(STRING) \subseteq Seq(Word)
  BY SeqMonotonic DEF Word
<1>. QED  BY <1>1, ClientLoopAssumption, SeqMonotonic DEF TypeOK

LEMMA UnreturnedTypes ==
  ASSUME TypeOK
  PROVE  /\ Unreturned \in Seq(Word) /\ Len(Unreturned) \in Nat
         /\ words \o Unreturned \in Seq(Word)
         /\ Len(words \o Unreturned) = Len(words) + Len(Unreturned)
         /\ Input = <<>> <=> Unreturned = <<>>
<1>1. stdio \in Seq(Word) /\ pipe \in Seq(Word) /\ words \in Seq(Word)
  BY DEF TypeOK
<1>2. Unreturned \in Seq(Word)
  BY <1>1, ConcatProperties DEF Unreturned
<1>3. Unreturned = <<>> <=> stdio = <<>> /\ pipe = <<>>
  BY <1>1, ConcatEqualIffEmpty DEF Unreturned
<1>. QED  BY <1>1, <1>2, <1>3, ConcatProperties, LenProperties DEF Input

\* scanf takes the first of the words not yet returned, wherever it is.
LEMMA TakesFirst ==
  ASSUME TypeOK, Input # <<>>, Unread(Tail(Input))
  PROVE  /\ Head(Input) \in Word /\ Unreturned # <<>> /\ Unreturned' \in Seq(Word)
         /\ Unreturned = <<Head(Input)>> \o Unreturned'
         /\ Head(Input) = (words \o Unreturned)[Len(words) + 1]
         /\ \A ws \in Seq(Word) :
               Append(ws, Head(Input)) \o Unreturned' = ws \o Unreturned
<1>. DEFINE h == Head(Input)
            rest == Tail(Input)
<1>1. stdio \in Seq(Word) /\ pipe \in Seq(Word) /\ Input \in Seq(Word) /\ words \in Seq(Word)
  BY InputTypes DEF TypeOK
<1>2. h \in Word /\ rest \in Seq(Word) /\ <<h>> \in Seq(Word)
  BY InputTypes
<1>3. Input = <<h>> \o rest
  <2>1. Len(<<h>>) = 1 /\ <<h>>[1] = h
    OBVIOUS
  <2>2. /\ Len(rest) = Len(Input) - 1 /\ Len(Input) \in Nat \ {0} /\ h = Input[1]
        /\ \A i \in 1 .. Len(rest) : rest[i] = Input[i + 1]
    BY <1>1, HeadTailProperties, EmptySeq
  <2>3. /\ <<h>> \o rest \in Seq(Word) /\ Len(<<h>> \o rest) = 1 + Len(rest)
        /\ \A i \in 1 .. 1 + Len(rest) :
              (<<h>> \o rest)[i] = IF i <= 1 THEN <<h>>[i] ELSE rest[i - 1]
    BY <1>2, <2>1, ConcatProperties
  <2>4. ASSUME NEW i \in 1 .. Len(Input) PROVE Input[i] = (<<h>> \o rest)[i]
    <3>1. CASE i = 1
      BY <2>1, <2>2, <2>3, <3>1
    <3>2. CASE i # 1
      <4>1. i - 1 \in 1 .. Len(rest) /\ (i - 1) + 1 = i /\ ~(i <= 1)
        BY <2>2, <3>2
      <4>2. Input[i] = rest[i - 1]
        BY <2>2, <4>1
      <4>. QED  BY <2>2, <2>3, <4>1, <4>2
    <3>. QED  BY <3>1, <3>2
  <2>5. Len(Input) = Len(<<h>> \o rest)
    BY <2>2, <2>3
  <2>. HIDE DEF h, rest
  <2>. QED  BY <1>1, <2>3, <2>4, <2>5, SeqEqual
<1>4. Unreturned = <<h>> \o Unreturned' /\ Unreturned' \in Seq(Word)
  <2>1. CASE stdio = <<>>
    <3>1. Input = pipe /\ stdio' = rest /\ pipe' = <<>>
      BY <2>1 DEF Input, Unread
    <3>2. Unreturned = pipe
      BY <1>1, <2>1, ConcatEmptySeq DEF Unreturned
    <3>3. Unreturned' = rest
      BY <1>2, <3>1, ConcatEmptySeq DEF Unreturned
    <3>. QED  BY <1>2, <1>3, <3>1, <3>2, <3>3
  <2>2. CASE stdio # <<>>
    <3>1. Input = stdio /\ stdio' = rest /\ pipe' = pipe
      BY <2>2 DEF Input, Unread
    <3>2. Unreturned = (<<h>> \o rest) \o pipe /\ Unreturned' = rest \o pipe
      BY <1>3, <3>1 DEF Unreturned
    <3>. HIDE DEF h, rest
    <3>3. <<h>> \in Seq(Word) /\ rest \in Seq(Word) /\ pipe \in Seq(Word)
      BY <1>1, <1>2
    <3>4. (<<h>> \o rest) \o pipe = <<h>> \o (rest \o pipe)
      BY <3>3, ConcatAssociative
    <3>5. rest \o pipe \in Seq(Word)
      BY <3>3, ConcatProperties
    <3>. QED  BY <3>2, <3>4, <3>5
  <2>. QED  BY <2>1, <2>2
<1>. HIDE DEF h, rest
<1>5. ASSUME NEW ws \in Seq(Word)
      PROVE  Append(ws, h) \o Unreturned' = ws \o Unreturned
  <2>1. Append(ws, h) = ws \o <<h>>
    BY <1>2, AppendIsConcat
  <2>. QED  BY <1>2, <1>4, <2>1, ConcatAssociative
<1>6. Unreturned # <<>>
  BY UnreturnedTypes
<1>7. h = (words \o Unreturned)[Len(words) + 1]
  <2>1. Append(words, h) \in Seq(Word) /\ Len(Append(words, h)) = Len(words) + 1
        /\ Append(words, h)[Len(words) + 1] = h /\ Len(words) \in Nat
    BY <1>1, <1>2, AppendProperties, LenProperties
  <2>2. Len(Unreturned') \in Nat
    BY <1>4, LenProperties
  <2>3. Len(words) + 1 \in 1 .. (Len(words) + 1) + Len(Unreturned')
    BY <2>1, <2>2
  <2>4. (Append(words, h) \o Unreturned')[Len(words) + 1] = h
    BY <1>4, <2>1, <2>3, ConcatProperties
  <2>. QED  BY <1>1, <1>5, <2>4
<1>. QED  BY <1>2, <1>4, <1>5, <1>6, <1>7 DEF h

\* The line the loop is in, as far as its words tell.
LEMMA CurrentLine ==
  ASSUME TypeOK, AllCommands, DoneInOrder, InLine
  PROVE  LET d == Len(done)
             w == words \o Unreturned
             l == lines[d + 1]
         IN  /\ d \in 0 .. Len(lines) /\ Len(lines) \in Nat
             /\ w = <<>> => d = Len(lines)
             /\ w # <<>> =>
                  /\ d \in 0 .. Len(lines) - 1
                  /\ WellFormed(l) /\ l \in Seq(Word) /\ Len(l) \in 1 .. Len(w)
                  /\ \A j \in 1 .. Len(l) : w[j] = l[j]
<1>. DEFINE d == Len(done)
            w == words \o Unreturned
            l == lines[d + 1]
<1>1. d \in 0 .. Len(lines) /\ Len(lines) \in Nat
  BY LenProperties DEF TypeOK, DoneInOrder
<1>2. w \in Seq(Word) /\ Len(w) \in Nat /\ lines \in Seq(Seq(Word)) /\ Spells(w, lines, d)
  BY UnreturnedTypes, LinesAreWords, LenProperties DEF InLine
<1>. HIDE DEF w, d
<1>3. CASE d = Len(lines)
  <2>1. PICK cut : cut \in [d .. Len(lines) -> 0 .. Len(w)] /\ SpellsWith(cut, w, lines, d)
    BY <1>2 DEF Spells
  <2>2. cut[d] = 0 /\ cut[d] = Len(w)
    BY <1>3, <2>1 DEF SpellsWith
  <2>3. w = <<>>
    BY <1>2, <2>2, EmptySeq
  <2>. QED  BY <1>1, <1>3, <2>3 DEF d, w
<1>4. CASE d # Len(lines)
  <2>1. d \in 0 .. Len(lines) - 1 /\ d + 1 \in 1 .. Len(lines)
    BY <1>1, <1>4
  <2>2. /\ l \in Seq(Word) /\ Len(l) \in Nat /\ Len(l) <= Len(w)
        /\ \A j \in 1 .. Len(l) : w[j] = l[j]
    BY <1>2, <2>1, SpellsFirst
  <2>3. WellFormed(l)
    BY <2>1 DEF AllCommands
  <2>4. Len(l) >= 1
    BY <2>2, <2>3 DEF WellFormed, Complete
  <2>5. w # <<>>
    BY <1>2, <2>2, <2>4, EmptySeq
  <2>. QED  BY <1>1, <2>1, <2>2, <2>3, <2>4, <2>5 DEF d, w
<1>. QED  BY <1>3, <1>4

-----------------------------------------------------------------------------
(* The loop does what was typed.                                           *)

LEMMA ExitNeverStale ==
  ASSUME TypeOK, NoStaleExit, [Next]_vars
  PROVE  NoStaleExit'
<1>1. CASE Environment \/ UNCHANGED vars
  <2>1. UNCHANGED <<pc, cmd, words>>
    BY <1>1 DEF Environment, Type, TypeBlank, EndInput, SendMessage, SendAgain, Deliver, Close, vars
  <2>. QED  BY <2>1 DEF NoStaleExit
<1>2. CASE Poll \/ NoMoreEvents \/ BeginReceive \/ ReceiveLoop \/ ReceiveAgain
  <2>1. UNCHANGED <<cmd, words>> /\ pc \in {"poll", "events", "recv", "again"}
    BY <1>2 DEF Poll, NoMoreEvents, BeginReceive, ReceiveLoop, ReceiveAgain
  <2>2. pc' \in {"poll", "events", "recv", "again", "ended"}
    BY <1>2 DEF Poll, NoMoreEvents, BeginReceive, ReceiveLoop, ReceiveAgain, after_hangup
  <2>. QED  BY <2>1, <2>2 DEF NoStaleExit
<1>3. CASE ReadCommand
  <2>1. /\ words' = <<cmd'>>
        /\ pc' = IF cmd' \in {"subscribe", "unsubscribe"} THEN "arguments" ELSE "command"
    BY <1>3 DEF ReadCommand
  <2>. QED  BY <2>1 DEF NoStaleExit
<1>4. CASE ReadArgument
  <2>1. /\ pc = "arguments" /\ cmd' = cmd
        /\ pc' = IF words' = <<>> \/ Complete(words') THEN "command" ELSE "arguments"
    BY <1>4 DEF ReadArgument
  <2>2. words' # <<>> => words' = Append(words, Head(Input)) /\ Input # <<>>
    BY <1>4 DEF ReadArgument
  <2>3. words' # <<>> => words'[1] = words[1]
    <3>1. Input # <<>> => Head(Input) \in Word
      BY InputTypes
    <3>2. words \in Seq(Word) /\ words # <<>> /\ 1 \in 1 .. Len(words)
      BY <2>1, EmptySeq DEF TypeOK, NoStaleExit
    <3>. QED  BY <2>2, <3>1, <3>2, AppendProperties
  <2>. QED  BY <2>1, <2>3 DEF NoStaleExit
<1>5. CASE Carry
  <2>1. /\ pc = "command" /\ UNCHANGED cmd
        /\ pc' = "ended" \/ (words # <<"exit">> /\ pc' = "events")
    BY <1>5 DEF Carry
  <2>. QED  BY <2>1 DEF NoStaleExit
<1>6. CASE Overrun
  BY <1>6 DEF Overrun, NoStaleExit
<1>. QED  BY <1>1, <1>2, <1>3, <1>4, <1>5, <1>6 DEF Next, run_client, Environment

\* A line is typed, or the input ends.
LEMMA TypingKeepsPlace ==
  ASSUME TypeOK, AllCommands, DoneInOrder, InLine \/ PastEnd,
         (\E line \in Lines : Type(line)) \/ EndInput
  PROVE  DoneInOrder' /\ (InLine' \/ PastEnd')
<1>1. CASE EndInput
  BY <1>1 DEF EndInput, DoneInOrder, InLine, PastEnd, Unreturned, Partial, Whole
<1>2. ASSUME NEW line \in Lines, Type(line)
      PROVE  DoneInOrder' /\ InLine'
  <2>1. /\ ~eof /\ lines' = Append(lines, line) /\ pipe' = pipe \o line
        /\ UNCHANGED <<stdio, pc, words, done>>
    BY <1>2 DEF Type
  <2>2. line \in Seq(Word) /\ lines \in Seq(Seq(Word))
    BY ClientLoopAssumption, SeqMonotonic, LinesAreWords DEF Word
  <2>3. /\ Len(lines') = Len(lines) + 1 /\ Len(lines) \in Nat /\ Len(done) \in Nat
        /\ \A k \in 1 .. Len(lines) : lines'[k] = lines[k]
    BY <2>1, <2>2, AppendProperties, LenProperties DEF TypeOK
  <2>4. DoneInOrder'
    BY <2>1, <2>3 DEF DoneInOrder
  <2>5. InLine
    BY <2>1 DEF PastEnd
  <2>6. words' \o Unreturned' = (words \o Unreturned) \o line
    <3>1. /\ stdio \in Seq(Word) /\ pipe \in Seq(Word) /\ words \in Seq(Word)
          /\ Unreturned \in Seq(Word) /\ line \in Seq(Word)
      BY <2>2, UnreturnedTypes DEF TypeOK
    <3>2. (stdio \o pipe) \o line = stdio \o (pipe \o line)
      BY <3>1, Reassociate, Zenon
    <3>3. Unreturned' = Unreturned \o line
      BY <2>1, <3>2 DEF Unreturned
    <3>4. (words \o Unreturned) \o line = words \o (Unreturned \o line)
      BY <3>1, Reassociate, Zenon
    <3>. QED  BY <2>1, <3>3, <3>4
  <2>7. Len(done) \in 0 .. Len(lines)
    BY <2>3 DEF DoneInOrder
  <2>8. Spells((words \o Unreturned) \o line, Append(lines, line), Len(done))
    BY <2>2, <2>5, <2>7, UnreturnedTypes, SpellsMore DEF InLine
  <2>. QED  BY <2>1, <2>4, <2>5, <2>6, <2>8 DEF InLine, Partial, Whole
<1>. QED  BY <1>1, <1>2

LEMMA CommandKeepsPlace ==
  ASSUME TypeOK, NoStaleExit, AllCommands, DoneInOrder, InLine \/ PastEnd, ReadCommand
  PROVE  InLine' \/ PastEnd'
<1>1. /\ pc = "events" /\ words' = <<cmd'>>
      /\ pc' = IF cmd' \in {"subscribe", "unsubscribe"} THEN "arguments" ELSE "command"
      /\ UNCHANGED done
      /\ \/ Input # <<>> /\ cmd' = Head(Input) /\ Unread(Tail(Input))
         \/ NoInput /\ cmd' \in {cmd, ""}
  BY DEF ReadCommand
<1>2. words = <<>> /\ words \o Unreturned = Unreturned
  BY <1>1, UnreturnedTypes, ConcatEmptySeq DEF InLine, PastEnd
<1>3. CASE Input # <<>> /\ cmd' = Head(Input) /\ Unread(Tail(Input))
  <2>1. InLine
    BY <1>3, UnreturnedTypes DEF PastEnd
  <2>2. lines' = lines
    BY <1>3 DEF Unread
  <2>3. words' \o Unreturned' = words \o Unreturned
    <3>1. Append(words, Head(Input)) = <<Head(Input)>>
      BY <1>2
    <3>. QED  BY <1>1, <1>3, <3>1, TakesFirst DEF TypeOK
  <2>4. Spells(words' \o Unreturned', lines', Len(done'))
    BY <1>1, <2>1, <2>2, <2>3 DEF InLine
  <2>. DEFINE l == lines[Len(done) + 1]
              w == words \o Unreturned
  <2>5. w # <<>>
    BY <1>2, <1>3, UnreturnedTypes
  <2>6. /\ WellFormed(l) /\ Len(l) \in 1 .. Len(w)
        /\ \A j \in 1 .. Len(l) : w[j] = l[j]
    BY <2>1, <2>5, CurrentLine
  <2>7. cmd' = w[1]
    <3>1. Len(words) + 1 = 1
      BY <1>2
    <3>. QED  BY <1>3, <3>1, TakesFirst
  <2>8. cmd' = l[1]
    BY <2>6, <2>7
  <2>9. l[1] \in {"exit", "subscribe", "unsubscribe"}
    BY <2>6 DEF WellFormed, Complete
  <2>10. pc' = "arguments" => Partial'
    BY <1>1 DEF Partial
  <2>11. pc' = "command" => Whole'
    BY <1>1, <2>8, <2>9 DEF Whole
  <2>. QED  BY <1>1, <2>4, <2>10, <2>11 DEF InLine
<1>4. CASE NoInput /\ cmd' \in {cmd, ""}
  <2>1. eof /\ Unreturned = <<>> /\ UNCHANGED <<lines, pipe, eof, stdio>>
    BY <1>4, UnreturnedTypes, NothingRead DEF NoInput
  <2>2. eof' /\ Unreturned' = <<>> /\ lines' = lines
    BY <2>1 DEF Unreturned
  <2>3. Len(done) = Len(lines)
    BY <1>2, <2>1, CurrentLine DEF PastEnd
  <2>4. cmd' # "exit"
    BY <1>1, <1>4 DEF NoStaleExit
  <2>5. pc' = "command" => ~Whole'
    BY <1>1, <2>4 DEF Whole, Complete
  <2>. QED  BY <1>1, <2>2, <2>3, <2>5 DEF PastEnd
<1>. QED  BY <1>1, <1>3, <1>4

LEMMA ArgumentKeepsPlace ==
  ASSUME TypeOK, AllCommands, DoneInOrder, InLine \/ PastEnd, ReadArgument
  PROVE  InLine' \/ PastEnd'
<1>1. /\ pc = "arguments" /\ UNCHANGED done
      /\ pc' = IF words' = <<>> \/ Complete(words') THEN "command" ELSE "arguments"
      /\ \/ Input # <<>> /\ words' = Append(words, Head(Input)) /\ Unread(Tail(Input))
         \/ Input # <<>> /\ Len(words) = 2 /\ Head(Input) \notin Numbers
         \/ NoInput /\ words' = <<>>
  BY DEF ReadArgument
<1>2. CASE InLine
  <2>. DEFINE l == lines[Len(done) + 1]
              w == words \o Unreturned
  <2>1. words \in Seq(Word) /\ Len(words) \in {1, 2} /\ Partial
    BY <1>1, <1>2 DEF InLine, Partial, TypeOK
  <2>0. PICK n \in {1, 2} : n = Len(words)
    BY <2>1
  <2>2. /\ Len(w) = n + Len(Unreturned) /\ Len(Unreturned) \in Nat /\ w[1] = words[1]
        /\ w # <<>>
    BY <2>0, <2>1, UnreturnedTypes, ConcatProperties, EmptySeq
  <2>3. /\ WellFormed(l) /\ Len(l) \in 1 .. Len(w)
        /\ \A j \in 1 .. Len(l) : w[j] = l[j]
    BY <1>2, <2>2, CurrentLine
  <2>4. l[1] = words[1] /\ words[1] \in {"subscribe", "unsubscribe"}
    BY <2>1, <2>2, <2>3 DEF Partial
  <2>5. Complete(l) /\ (Len(l) = 3 => l[3] \in Numbers)
    BY <2>3, <2>4 DEF WellFormed
  <2>6. n + 1 \in 1 .. Len(l)
    <3>1. CASE words[1] = "subscribe"
      <4>1. Len(l) = 3
        BY <2>4, <2>5, <3>1 DEF Complete
      <4>. QED  BY <4>1
    <3>2. CASE words[1] = "unsubscribe"
      <4>1. Len(l) = 2 /\ n = 1
        BY <2>0, <2>1, <2>4, <2>5, <3>2 DEF Complete, Partial
      <4>. QED  BY <4>1
    <3>. QED  BY <2>4, <3>1, <3>2
  <2>7. Input # <<>>
    BY <2>2, <2>3, <2>6, UnreturnedTypes, EmptySeq
  <2>8. l[n + 1] = w[n + 1]
    BY <2>3, <2>6
  <2>9. w[n + 1] = Head(Input)
    <3>1. Unreturned \in Seq(Word) /\ Unreturned # <<>> /\ Len(Unreturned) >= 1
      BY <2>7, UnreturnedTypes, EmptySeq
    <3>2. w[n + 1] = Unreturned[1]
      <4>1. n + 1 \in 1 .. n + Len(Unreturned) /\ ~(n + 1 <= n) /\ (n + 1) - n = 1
        BY <2>2, <3>1
      <4>. QED  BY <2>0, <2>1, <3>1, <4>1, ConcatProperties
    <3>3. Unreturned[1] = Input[1]
      <4>1. stdio \in Seq(Word) /\ pipe \in Seq(Word)
        BY DEF TypeOK
      <4>2. CASE stdio = <<>>
        BY <4>1, <4>2, ConcatEmptySeq DEF Unreturned, Input
      <4>3. CASE stdio # <<>>
        <5>1. 1 \in 1 .. Len(stdio) + Len(pipe) /\ 1 <= Len(stdio)
          BY <4>1, <4>3, EmptySeq, LenProperties
        <5>. QED  BY <4>1, <4>3, <5>1, ConcatProperties DEF Unreturned, Input
      <4>. QED  BY <4>2, <4>3
    <3>4. Head(Input) = Input[1]
      BY <2>7, InputTypes
    <3>. QED  BY <3>2, <3>3, <3>4
  <2>10. ~(Len(words) = 2 /\ Head(Input) \notin Numbers)
    <3>1. SUFFICES ASSUME Len(words) = 2 PROVE Head(Input) \in Numbers
      OBVIOUS
    <3>2. n + 1 = 3 /\ Len(l) \in {2, 3}
      BY <2>0, <2>5, <3>1 DEF Complete
    <3>3. Len(l) = 3
      <4>1. SUFFICES ASSUME Len(l) = 2 PROVE FALSE
        BY <3>2
      <4>2. 3 \in 1 .. Len(l)
        BY <2>6, <3>2
      <4>3. 3 \in 1 .. 2
        BY <4>1, <4>2
      <4>. QED  BY <4>3
    <3>. QED  BY <2>5, <2>8, <2>9, <3>2, <3>3
  <2>11. Input # <<>> /\ words' = Append(words, Head(Input)) /\ Unread(Tail(Input))
    BY <1>1, <2>7, <2>10 DEF NoInput
  <2>12. words' \o Unreturned' = w /\ lines' = lines
    BY <2>1, <2>11, TakesFirst DEF Unread
  <2>13. Spells(words' \o Unreturned', lines', Len(done'))
    BY <1>1, <1>2, <2>12 DEF InLine
  <2>14. /\ Len(words') = n + 1 /\ words'[1] = words[1] /\ words' # <<>>
    BY <2>0, <2>1, <2>11, InputTypes, AppendProperties
  <2>15. pc' = "arguments" => Partial'
    <3>1. SUFFICES ASSUME ~Complete(words') PROVE Partial'
      BY <1>1
    <3>2. words[1] = "subscribe"
      <4>1. SUFFICES ASSUME words[1] = "unsubscribe" PROVE FALSE
        BY <2>4
      <4>2. words = <<"unsubscribe">>
        BY <2>1, <4>1 DEF Partial
      <4>3. Len(words) = 1
        BY <4>2
      <4>4. Len(words') = 2
        BY <2>0, <2>14, <4>3
      <4>. QED  BY <2>14, <3>1, <4>1, <4>4 DEF Complete
    <3>3. n + 1 # 3
      BY <2>14, <3>1, <3>2 DEF Complete
    <3>4. Len(words') \in {1, 2}
      <4>. QED  BY <2>14, <3>3
    <3>. QED  BY <2>14, <3>2, <3>4 DEF Partial
  <2>16. pc' = "command" => Whole'
    BY <1>1, <2>14 DEF Whole
  <2>. QED  BY <1>1, <2>13, <2>15, <2>16 DEF InLine
<1>3. CASE PastEnd
  <2>1. NoInput /\ words' = <<>>
    BY <1>1, <1>3, UnreturnedTypes DEF PastEnd
  <2>2. eof' /\ Unreturned' = <<>> /\ lines' = lines
    BY <1>3, <2>1, NothingRead DEF NoInput, Unreturned, PastEnd
  <2>3. ~Whole'
    BY <2>1 DEF Whole, Complete
  <2>. QED  BY <1>1, <1>3, <2>1, <2>2, <2>3 DEF PastEnd
<1>. QED  BY <1>2, <1>3

LEMMA CarryKeepsPlace ==
  ASSUME TypeOK, AllCommands, DoneInOrder, InLine \/ PastEnd, Carry
  PROVE  DoneInOrder' /\ (InLine' \/ PastEnd')
<1>1. /\ pc = "command" /\ pc' \in {"events", "ended"} /\ words' = <<>>
      /\ done' = IF words = <<"exit">> \/ Complete(words) THEN Append(done, words) ELSE done
      /\ UNCHANGED inputVars
  BY DEF Carry
<1>2. Unreturned' = Unreturned /\ lines' = lines /\ eof' = eof
  BY <1>1 DEF inputVars, Unreturned
<1>3. words' \o Unreturned' = Unreturned
  BY <1>1, <1>2, UnreturnedTypes, ConcatEmptySeq
<1>4. CASE InLine
  <2>. DEFINE l == lines[Len(done) + 1]
              w == words \o Unreturned
              n == Len(words)
  <2>1. Whole /\ words \in Seq(Word) /\ n \in 1 .. 3
    BY <1>1, <1>4 DEF InLine, Whole, Complete, TypeOK
  <2>2. /\ Len(w) = n + Len(Unreturned) /\ Len(Unreturned) \in Nat /\ w # <<>>
        /\ \A j \in 1 .. n : w[j] = words[j]
    BY <2>1, UnreturnedTypes, ConcatProperties, EmptySeq
  <2>3. /\ Len(done) \in 0 .. Len(lines) - 1 /\ Len(lines) \in Nat
        /\ WellFormed(l) /\ l \in Seq(Word) /\ Len(l) \in 1 .. Len(w)
        /\ \A j \in 1 .. Len(l) : w[j] = l[j]
    BY <1>4, <2>2, CurrentLine
  <2>4. l[1] = words[1]
    BY <2>1, <2>2, <2>3
  <2>5. Len(l) = n
    <3>1. CASE words = <<"exit">>
      <4>1. ~Complete(l)
        BY <2>4, <3>1 DEF Complete
      <4>. QED  BY <2>3, <3>1, <4>1 DEF WellFormed
    <3>2. CASE Complete(words)
      <4>1. Complete(l)
        BY <2>3, <2>4, <3>2 DEF WellFormed, Complete
      <4>. QED  BY <2>4, <3>2, <4>1 DEF Complete
    <3>. QED  BY <2>1, <3>1, <3>2 DEF Whole
  <2>6. words = l
    BY <2>1, <2>2, <2>3, <2>5, SeqEqual
  <2>7. done' = Append(done, words) /\ done \in Seq(Seq(Word)) /\ Len(done) \in Nat
    BY <1>1, <2>1, LenProperties DEF Whole, TypeOK
  <2>8. /\ Len(done') = Len(done) + 1 /\ done'[Len(done) + 1] = words
        /\ \A k \in 1 .. Len(done) : done'[k] = done[k]
    BY <2>1, <2>7, AppendProperties
  <2>9. DoneInOrder'
    BY <1>2, <2>3, <2>6, <2>7, <2>8 DEF DoneInOrder
  <2>10. Spells(Unreturned, lines, Len(done) + 1)
    BY <1>4, <2>3, <2>6, UnreturnedTypes, LinesAreWords, SpellsRest DEF InLine
  <2>. QED  BY <1>1, <1>2, <1>3, <2>8, <2>9, <2>10 DEF InLine
<1>5. CASE PastEnd
  <2>1. done' = done
    BY <1>1, <1>5 DEF PastEnd, Whole
  <2>. QED  BY <1>1, <1>2, <1>5, <2>1 DEF PastEnd, DoneInOrder
<1>. QED  BY <1>4, <1>5

LEMMA NextKeepsPlace ==
  ASSUME TypeOK, ReadInv, [Next]_vars
  PROVE  ReadInv'
<1>1. NoStaleExit'
  BY ExitNeverStale DEF ReadInv
<1>2. SUFFICES ASSUME AllCommands'
               PROVE  DoneInOrder' /\ (pc' \notin Stopped => InLine' \/ PastEnd')
  BY <1>1 DEF ReadInv
<1>3. Len(lines) \in Nat /\ Len(done) \in Nat
  BY LenProperties DEF TypeOK
<1>4. AllCommands
  <2>1. CASE UNCHANGED lines
    BY <1>2, <2>1 DEF AllCommands
  <2>2. ASSUME NEW line \in Lines, Type(line)
        PROVE  AllCommands
    <3>1. /\ Len(lines') = Len(lines) + 1
          /\ \A k \in 1 .. Len(lines) : lines'[k] = lines[k]
      BY <2>2, AppendProperties DEF Type, TypeOK
    <3>. QED  BY <1>2, <1>3, <3>1 DEF AllCommands
  <2>3. UNCHANGED lines \/ \E line \in Lines : Type(line)
    BY DEF Next, vars, inputVars, run_client, TypeBlank, EndInput, SendMessage, SendAgain, Deliver, Close,
           Poll, NoMoreEvents, ReadCommand, ReadArgument, Overrun, Carry, BeginReceive,
           ReceiveLoop, ReceiveAgain, Unread, NoInput
  <2>. QED  BY <2>1, <2>2, <2>3
<1>5. DoneInOrder /\ NoStaleExit /\ (pc \notin Stopped => InLine \/ PastEnd)
  BY <1>4 DEF ReadInv
<1>6. CASE pc \in Stopped
  <2>1. pc' = pc /\ UNCHANGED <<lines, done>>
    BY <1>6 DEF Next, vars, inputVars, run_client, Type, TypeBlank, EndInput, SendMessage, SendAgain,
           Deliver, Close, Poll, NoMoreEvents, ReadCommand, ReadArgument, Overrun, Carry,
           BeginReceive, ReceiveLoop, ReceiveAgain, Stopped
  <2>. QED  BY <1>5, <1>6, <2>1 DEF DoneInOrder
<1>7. CASE pc \notin Stopped /\ ((\E line \in Lines : Type(line)) \/ EndInput)
  BY <1>4, <1>5, <1>7, TypingKeepsPlace
<1>8. CASE /\ pc \notin Stopped
           /\ TypeBlank \/ SendMessage \/ SendAgain \/ Deliver \/ Close \/ UNCHANGED vars
  <2>1. UNCHANGED <<lines, pipe, eof, stdio, pc, words, done>>
    BY <1>8 DEF TypeBlank, SendMessage, SendAgain, Deliver, Close, vars, inputVars
  <2>. QED  BY <1>5, <1>8, <2>1
            DEF DoneInOrder, InLine, PastEnd, Unreturned, Partial, Whole
<1>9. CASE Poll \/ NoMoreEvents \/ BeginReceive \/ ReceiveLoop \/ ReceiveAgain
  <2>1. /\ UNCHANGED <<inputVars, words, done>> /\ pc \in {"poll", "events", "recv", "again"}
        /\ pc' \in {"poll", "events", "recv", "again", "ended"}
    BY <1>9 DEF Poll, NoMoreEvents, BeginReceive, ReceiveLoop, ReceiveAgain, after_hangup
  <2>. QED  BY <1>5, <2>1 DEF Stopped, inputVars, DoneInOrder, InLine, PastEnd, Unreturned
<1>10. CASE ReadCommand
  <2>1. UNCHANGED <<lines, done>> /\ pc = "events"
    BY <1>10 DEF ReadCommand, Unread, NoInput, inputVars
  <2>. QED  BY <1>4, <1>5, <1>10, <2>1, CommandKeepsPlace DEF DoneInOrder, Stopped
<1>11. CASE ReadArgument
  <2>1. UNCHANGED <<lines, done>> /\ pc = "arguments"
    BY <1>11 DEF ReadArgument, Unread, NoInput, inputVars
  <2>. QED  BY <1>4, <1>5, <1>11, <2>1, ArgumentKeepsPlace DEF DoneInOrder, Stopped
<1>12. CASE Carry
  <2>1. pc = "command"
    BY <1>12 DEF Carry
  <2>. QED  BY <1>4, <1>5, <1>12, <2>1, CarryKeepsPlace DEF Stopped
<1>13. CASE Overrun
  BY <1>5, <1>13 DEF Overrun, inputVars, DoneInOrder, Stopped
<1>. QED  BY <1>6, <1>7, <1>8, <1>9, <1>10, <1>11, <1>12, <1>13 DEF Next, run_client

-----------------------------------------------------------------------------
(* The pieces under way.                                                   *)

LEMMA PiecesOfPackets ==
  /\ PiecesOf(0) = 0
  /\ \A n \in Nat : PiecesOf(n) \in Nat /\ PiecesOf(n + 1) = PiecesOf(n) + Pieces
  /\ \A m, n \in Nat : m <= n => PiecesOf(m) <= PiecesOf(n)
<1>1. Pieces \in Nat \ {0}
  BY ClientLoopAssumption
<1>2. ASSUME NEW m \in Nat, NEW n \in Nat, m <= n PROVE PiecesOf(m) <= PiecesOf(n)
  <2>1. PICK d \in Nat : n = m + d
    <3>1. n - m \in Nat /\ n = m + (n - m)
      BY <1>2
    <3>. QED  BY <3>1
  <2>2. \A x, y, z \in Nat : (x + y) * z = x * z + y * z /\ x * z \in Nat
    OBVIOUS
  <2>3. n * Pieces = m * Pieces + d * Pieces /\ d * Pieces \in Nat /\ m * Pieces \in Nat
    BY <1>1, <2>1, <2>2
  <2>. QED  BY <2>3 DEF PiecesOf
<1>3. ASSUME NEW n \in Nat PROVE PiecesOf(n) \in Nat /\ PiecesOf(n + 1) = PiecesOf(n) + Pieces
  BY <1>1 DEF PiecesOf
<1>4. PiecesOf(0) = 0
  BY <1>1 DEF PiecesOf
<1>. QED  BY <1>2, <1>3, <1>4

LEMMA StreamTypes ==
  ASSUME TypeOK, StreamInv
  PROVE  /\ Packets \in Nat /\ Received \in Nat /\ PiecesOf(Packets) \in Nat
         /\ arrived \in Seq(Piece) /\ Len(arrived) \in Nat
         /\ flying \in Seq(Piece) /\ Len(flying) \in Nat
         /\ PiecesOf(Packets) = Received + Len(arrived) + Len(flying)
<1>1. sent \in Nat /\ repeat \in BOOLEAN /\ (repeat => sent > 0)
  BY DEF TypeOK, StreamInv
<1>2. Packets \in Nat
  BY <1>1 DEF Packets
<1>3. /\ arrived \in Seq(Piece) /\ Len(arrived) \in Nat
      /\ flying \in Seq(Piece) /\ Len(flying) \in Nat
  BY LenProperties DEF TypeOK
<1>4. PiecesOf(Packets) \in Nat
  BY <1>2, PiecesOfPackets
<1>. QED  BY <1>2, <1>3, <1>4 DEF StreamInv, Received

\* Where the piece i of the packet c is under way.
LEMMA PieceUnderWay ==
  ASSUME TypeOK, StreamInv, NEW c \in 1 .. Packets, NEW i \in 1 .. Pieces,
         NEW k \in Int, k = PiecesOf(c - 1) + i - Received
  PROVE  /\ k <= Len(arrived) + Len(flying)
         /\ k > 0 => (arrived \o flying)[k] = <<(c + 1) \div 2, i>>
<1>1. c - 1 \in Nat /\ c \in Nat /\ c <= Packets /\ (c - 1) + 1 = c /\ Packets \in Nat
  BY StreamTypes
<1>2. PiecesOf(c) = PiecesOf(c - 1) + Pieces /\ PiecesOf(c) <= PiecesOf(Packets)
  BY <1>1, PiecesOfPackets
<1>3. PiecesOf(c - 1) \in Nat /\ Pieces \in Nat
  BY <1>1, PiecesOfPackets, ClientLoopAssumption
<1>4. /\ Received \in Nat /\ Len(arrived) \in Nat /\ Len(flying) \in Nat
      /\ PiecesOf(Packets) = Received + Len(arrived) + Len(flying)
  BY StreamTypes
<1>5. k <= Len(arrived) + Len(flying)
  <2>1. PiecesOf(c - 1) + i <= PiecesOf(Packets)
    BY <1>2, <1>3, <1>4
  <2>. QED  BY <1>3, <1>4, <2>1
<1>. QED  BY <1>5 DEF StreamInv

\* What recv gets, when c packets and the first `start` pieces of one more have
\* been received.
LEMMA NextPieces ==
  ASSUME TypeOK, StreamInv, NEW c \in Nat, NEW start \in 0 .. Pieces - 1,
         Received = PiecesOf(c) + start, NEW i \in 1 .. Len(arrived), start + i <= Pieces
  PROVE  c < Packets /\ arrived[i] = <<(c + 2) \div 2, start + i>>
<1>1. c < Packets
  <2>1. SUFFICES ASSUME Packets <= c PROVE FALSE
    BY StreamTypes
  <2>2. PiecesOf(Packets) <= PiecesOf(c) /\ PiecesOf(c) \in Nat
    BY <2>1, StreamTypes, PiecesOfPackets
  <2>. QED  BY <2>2, StreamTypes
<1>2. /\ c + 1 \in 1 .. Packets /\ (c + 1) - 1 = c /\ (c + 1) + 1 = c + 2
      /\ start + i \in 1 .. Pieces
  BY <1>1, StreamTypes, ClientLoopAssumption
<1>3. i = PiecesOf((c + 1) - 1) + (start + i) - Received /\ i \in Int
  <2>1. PiecesOf((c + 1) - 1) = PiecesOf(c)
    BY <1>2
  <2>2. Received \in Nat /\ PiecesOf(c) \in Nat /\ Received = PiecesOf(c) + start /\ i \in Int
    BY StreamTypes, PiecesOfPackets
  <2>3. \A x, y, z \in Int : y = x + start => z = x + (start + z) - y
    BY ClientLoopAssumption
  <2>. QED  BY <2>1, <2>2, <2>3
<1>4. (arrived \o flying)[i] = <<(c + 2) \div 2, start + i>>
  <2>1. i > 0
    OBVIOUS
  <2>. QED  BY <1>2, <1>3, <2>1, PieceUnderWay
<1>5. i \in 1 .. Len(arrived) + Len(flying) /\ i <= Len(arrived)
  BY StreamTypes
<1>6. (arrived \o flying)[i] = arrived[i]
  BY <1>5, StreamTypes, ConcatProperties
<1>. QED  BY <1>1, <1>4, <1>6

\* recv takes pieces from the front.
LEMMA ReceivesKeepsStream ==
  ASSUME TypeOK, StreamInv, NEW n \in 0 .. Len(arrived),
         arrived' \in Seq(Piece), Len(arrived') = Len(arrived) - n,
         \A i \in 1 .. Len(arrived) - n : arrived'[i] = arrived[n + i],
         UNCHANGED <<sent, repeat, flying>>
  PROVE  StreamInv' /\ Received' = Received + n
<1>1. Packets' = Packets /\ PiecesOf(Packets)' = PiecesOf(Packets) /\ Len(flying)' = Len(flying)
  BY DEF Packets, PiecesOf
<1>2. Received' = Received + n /\ n \in Nat
  <2>1. Received' = PiecesOf(Packets) - Len(arrived') - Len(flying)
    BY <1>1 DEF Received
  <2>2. /\ Received \in Nat /\ Len(arrived) \in Nat /\ Len(flying) \in Nat
        /\ PiecesOf(Packets) = Received + Len(arrived) + Len(flying)
    BY StreamTypes
  <2>. QED  BY <2>1, <2>2
<1>3. Received' >= 0
  BY <1>2, StreamTypes
<1>4. ASSUME NEW c \in 1 .. Packets, NEW i \in 1 .. Pieces, NEW k \in Int,
             k = PiecesOf(c - 1) + i - Received', k > 0
      PROVE  (arrived' \o flying)[k] = <<(c + 1) \div 2, i>>
  <2>1. PiecesOf(c - 1) \in Nat /\ i \in Int /\ Received \in Int
    <3>1. c - 1 \in Nat /\ i \in Int /\ Received \in Int
      BY StreamTypes, ClientLoopAssumption
    <3>2. PiecesOf(c - 1) \in Nat
      BY <3>1, PiecesOfPackets
    <3>. QED  BY <3>1, <3>2
  <2>2. k + n = PiecesOf(c - 1) + i - Received /\ k + n \in Int /\ k + n > 0
    <3>1. \A x, y, z \in Int : k = x + y - (z + n) => k + n = x + y - z
      BY <1>2
    <3>2. k = PiecesOf(c - 1) + i - (Received + n)
      BY <1>2, <1>4
    <3>. QED  BY <1>2, <1>4, <2>1, <3>1, <3>2
  <2>3. k + n <= Len(arrived) + Len(flying) /\ (arrived \o flying)[k + n] = <<(c + 1) \div 2, i>>
    BY <2>2, PieceUnderWay
  <2>4. k + n \in 1 .. Len(arrived) + Len(flying) /\ k \in 1 .. Len(arrived') + Len(flying)
    <3>1. /\ Len(arrived') = Len(arrived) - n /\ Len(arrived) \in Nat /\ Len(flying) \in Nat
          /\ n \in Nat /\ n <= Len(arrived)
      BY <1>2, StreamTypes
    <3>2. \A x, y \in Nat : k > 0 /\ k + n <= x + y /\ n <= x =>
             k + n \in 1 .. x + y /\ k \in 1 .. (x - n) + y
      BY <3>1
    <3>. QED  BY <1>4, <2>2, <2>3, <3>1, <3>2
  <2>5. (arrived' \o flying)[k] = (arrived \o flying)[k + n]
    <3>1. CASE k <= Len(arrived')
      <4>1. k \in 1 .. Len(arrived) - n /\ k + n <= Len(arrived) /\ n + k = k + n
        BY <2>4, <3>1, <1>2, StreamTypes
      <4>2. (arrived' \o flying)[k] = arrived'[k]
        BY <2>4, <3>1, StreamTypes, ConcatProperties
      <4>3. (arrived \o flying)[k + n] = arrived[k + n]
        BY <2>4, <4>1, StreamTypes, ConcatProperties
      <4>. QED  BY <4>1, <4>2, <4>3
    <3>2. CASE ~(k <= Len(arrived'))
      <4>1. ~(k + n <= Len(arrived)) /\ (k + n) - Len(arrived) = k - Len(arrived')
        BY <2>4, <3>2, <1>2, StreamTypes
      <4>2. (arrived' \o flying)[k] = flying[k - Len(arrived')]
        BY <2>4, <3>2, StreamTypes, ConcatProperties
      <4>3. (arrived \o flying)[k + n] = flying[(k + n) - Len(arrived)]
        BY <2>4, <4>1, StreamTypes, ConcatProperties
      <4>. QED  BY <4>1, <4>2, <4>3
    <3>. QED  BY <3>1, <3>2
  <2>. QED  BY <2>3, <2>5
<1>5. ASSUME NEW c \in 1 .. Packets', NEW i \in 1 .. Pieces
      PROVE  LET k == PiecesOf(c - 1) + i - Received'
             IN  k > 0 => (arrived' \o flying')[k] = <<(c + 1) \div 2, i>>
  <2>1. c \in 1 .. Packets /\ c - 1 \in Nat /\ i \in Int /\ Received' \in Int
    BY <1>1, <1>2, StreamTypes, ClientLoopAssumption
  <2>2. PiecesOf(c - 1) \in Int
    BY <2>1, PiecesOfPackets
  <2>3. PiecesOf(c - 1) + i - Received' \in Int
    BY <2>1, <2>2
  <2>. QED  BY <1>4, <2>1, <2>3
<1>6. repeat' => sent' > 0
  BY DEF StreamInv
<1>7. StreamInv'
  BY <1>3, <1>5, <1>6 DEF StreamInv, PiecesOf
<1>. QED  BY <1>2, <1>7

\* send_all puts a packet at the end.
LEMMA SendKeepsStream ==
  ASSUME TypeOK, StreamInv, NEW m \in Nat, flying' = flying \o Packet(m), arrived' = arrived,
         Packets' = Packets + 1, m = (Packets + 2) \div 2, repeat' => sent' > 0
  PROVE  StreamInv' /\ Received' = Received
<1>1. /\ Packet(m) \in Seq(Piece) /\ Len(Packet(m)) = Pieces
      /\ \A i \in 1 .. Pieces : Packet(m)[i] = <<m, i>>
  BY PacketPieces
<1>2. flying' \in Seq(Piece) /\ Len(flying') = Len(flying) + Pieces
  BY <1>1, StreamTypes, ConcatProperties
<1>3. PiecesOf(Packets + 1) = PiecesOf(Packets) + Pieces /\ Pieces \in Nat
  BY PiecesOfPackets, StreamTypes, ClientLoopAssumption
<1>4. Received' = Received
  <2>1. Received' = PiecesOf(Packets + 1) - Len(arrived) - Len(flying')
    BY DEF Received, PiecesOf
  <2>2. \A x, y, z, r \in Int : x = r + y + z => (x + Pieces) - y - (z + Pieces) = r
    BY <1>3
  <2>3. (PiecesOf(Packets) + Pieces) - Len(arrived) - (Len(flying) + Pieces) = Received
    <3>1. /\ PiecesOf(Packets) \in Int /\ Received \in Int
          /\ Len(arrived) \in Int /\ Len(flying) \in Int
          /\ PiecesOf(Packets) = Received + Len(arrived) + Len(flying)
      BY StreamTypes
    <3>. QED  BY <2>2, <3>1
  <2>. QED  BY <1>2, <1>3, <2>1, <2>3
<1>. DEFINE q == arrived \o flying
<1>5. q \in Seq(Piece) /\ Len(q) = Len(arrived) + Len(flying) /\ Len(q) \in Nat
  BY StreamTypes, ConcatProperties
<1>6. arrived' \o flying' = q \o Packet(m)
  BY <1>1, ReassociatePieces, StreamTypes
<1>. HIDE DEF q
<1>7. ASSUME NEW c \in 1 .. Packets + 1, NEW i \in 1 .. Pieces, NEW k \in Int,
             k = PiecesOf(c - 1) + i - Received, k > 0
      PROVE  (q \o Packet(m))[k] = <<(c + 1) \div 2, i>>
  <2>1. CASE c \in 1 .. Packets
    <3>1. k <= Len(q) /\ q[k] = <<(c + 1) \div 2, i>>
      BY <1>5, <1>7, <2>1, PieceUnderWay DEF q
    <3>2. k \in 1 .. Len(q) + Pieces
      <4>1. \A x, y \in Nat : 0 < k /\ k <= x => k \in 1 .. x + y
        BY <1>7
      <4>. QED  BY <1>3, <1>5, <1>7, <3>1, <4>1
    <3>. QED  BY <1>1, <1>5, <3>1, <3>2, ConcatProperties
  <2>2. CASE c = Packets + 1
    <3>1. c - 1 = Packets /\ c + 1 = Packets + 2
      <4>1. Packets \in Int
        BY StreamTypes
      <4>. QED  BY <2>2, <4>1
    <3>2. k = Len(q) + i
      <4>1. k = PiecesOf(Packets) + i - Received
        BY <1>7, <3>1
      <4>2. \A x, y, z, r \in Int : x = r + y + z => x + i - r = (y + z) + i
        BY <1>3
      <4>3. /\ PiecesOf(Packets) \in Int /\ Received \in Int
            /\ Len(arrived) \in Int /\ Len(flying) \in Int
            /\ PiecesOf(Packets) = Received + Len(arrived) + Len(flying)
        BY StreamTypes
      <4>4. PiecesOf(Packets) + i - Received = (Len(arrived) + Len(flying)) + i
        BY <4>2, <4>3
      <4>. QED  BY <1>5, <4>1, <4>4
    <3>3. k \in 1 .. Len(q) + Pieces /\ ~(k <= Len(q)) /\ k - Len(q) = i
      <4>1. \A x \in Nat : x + i \in 1 .. x + Pieces /\ ~(x + i <= x) /\ (x + i) - x = i
        BY <1>3
      <4>. QED  BY <1>5, <3>2, <4>1
    <3>4. (q \o Packet(m))[k] = <<m, i>>
      <4>1. k \in 1 .. Len(q) + Len(Packet(m)) /\ ~(k <= Len(q))
        BY <1>1, <3>3
      <4>2. (q \o Packet(m))[k] = Packet(m)[k - Len(q)]
        <5>1. q \in Seq(Piece) /\ Packet(m) \in Seq(Piece)
          BY <1>1, <1>5
        <5>2. \A j \in 1 .. Len(q) + Len(Packet(m)) :
                 (q \o Packet(m))[j] = IF j <= Len(q) THEN q[j] ELSE Packet(m)[j - Len(q)]
          BY <5>1, ConcatProperties
        <5>. QED  BY <4>1, <5>2
      <4>3. Packet(m)[k - Len(q)] = Packet(m)[i]
        BY <3>3
      <4>. QED  BY <1>1, <4>2, <4>3
    <3>. QED  BY <3>1, <3>4
  <2>3. c \in 1 .. Packets \/ c = Packets + 1
    <3>1. Packets \in Nat
      BY StreamTypes
    <3>. QED  BY <3>1
  <2>. QED  BY <2>1, <2>2, <2>3
<1>8. Received' >= 0
  BY <1>4, StreamTypes
<1>9. ASSUME NEW c \in 1 .. Packets', NEW i \in 1 .. Pieces
      PROVE  LET k == PiecesOf(c - 1) + i - Received'
             IN  k > 0 => (arrived' \o flying')[k] = <<(c + 1) \div 2, i>>
  <2>1. c \in 1 .. Packets + 1 /\ c - 1 \in Nat /\ i \in Int /\ Received \in Int
    BY <1>9, StreamTypes, ClientLoopAssumption
  <2>2. PiecesOf(c - 1) \in Int
    BY <2>1, PiecesOfPackets
  <2>3. PiecesOf(c - 1) + i - Received \in Int
    BY <2>1, <2>2
  <2>. QED  BY <1>4, <1>6, <1>7, <2>1, <2>3
<1>10. StreamInv'
  BY <1>8, <1>9 DEF StreamInv, PiecesOf
<1>. QED  BY <1>4, <1>10

\* A step that receives and prints nothing.
Outside == {"poll", "events", "arguments", "command"}

LEMMA NothingReceived ==
  ASSUME TypeOK, PrintInv, StreamInv', Received' = Received, sent' \in Nat, sent <= sent',
         UNCHANGED receiveVars, pc' \in {pc, "ended", "corrupted"} \/ (pc \in Outside /\ pc' \in Outside)
  PROVE  PrintInv'
<1>1. UNCHANGED <<buffer, got, whole, printed>>
  BY DEF receiveVars
<1>2. whole => ReceiveInv'
  <2>1. SUFFICES ASSUME whole PROVE ReceiveInv'
    OBVIOUS
  <2>2. ReceiveInv
    BY <2>1 DEF PrintInv
  <2>3. Len(printed) \in Nat /\ sent \in Nat
    BY LenProperties DEF TypeOK
  <2>4. Len(printed)' <= sent' /\ \A m \in 1 .. Len(printed)' : printed'[m] = Packet(m)
    BY <1>1, <2>2, <2>3 DEF ReceiveInv
  <2>5. /\ pc' \in Outside => pc \in Outside
        /\ pc' = "recv" => pc = "recv"
        /\ pc' = "again" => pc = "again"
    BY DEF Outside
  <2>. QED  BY <1>1, <2>2, <2>4, <2>5 DEF ReceiveInv, PiecesOf, Outside, Packet
<1>. QED  BY <1>1, <1>2 DEF PrintInv, FirstIntact, Packet

LEMMA SentMakesStream ==
  ASSUME TypeOK, StreamInv, Environment
  PROVE  StreamInv' /\ Received' = Received
<1>1. sent \in Nat /\ repeat \in BOOLEAN /\ (repeat => sent > 0)
  BY DEF TypeOK, StreamInv
<1>2. CASE SendMessage
  <2>1. /\ ~repeat /\ sent' = sent + 1 /\ repeat' /\ arrived' = arrived
        /\ flying' = flying \o Packet(sent + 1)
    BY <1>2 DEF SendMessage, send_all_repeats
  <2>2. Packets' = Packets + 1 /\ sent + 1 = (Packets + 2) \div 2 /\ sent + 1 \in Nat /\ sent' > 0
    BY <1>1, <2>1 DEF Packets
  <2>. QED  BY <2>1, <2>2, SendKeepsStream
<1>3. CASE SendAgain
  <2>1. /\ repeat /\ sent' = sent /\ ~repeat' /\ arrived' = arrived
        /\ flying' = flying \o Packet(sent)
    BY <1>3 DEF SendAgain
  <2>2. Packets' = Packets + 1 /\ sent = (Packets + 2) \div 2
    BY <1>1, <2>1 DEF Packets
  <2>. QED  BY <1>1, <2>1, <2>2, SendKeepsStream
<1>4. CASE Deliver
  <2>1. /\ flying # <<>> /\ arrived' = Append(arrived, Head(flying)) /\ flying' = Tail(flying)
        /\ UNCHANGED <<sent, repeat>>
    BY <1>4 DEF Deliver
  <2>2. /\ Head(flying) \in Piece /\ Tail(flying) \in Seq(Piece)
        /\ Len(Tail(flying)) = Len(flying) - 1
        /\ flying = <<Head(flying)>> \o Tail(flying)
    BY <2>1, StreamTypes, HeadTailProperties, ConcatProperties
  <2>3. Append(arrived, Head(flying)) = arrived \o <<Head(flying)>>
    BY <2>2, StreamTypes, AppendIsConcat
  <2>4. arrived' \o flying' = arrived \o flying
    <3>. DEFINE p == <<Head(flying)>>
                rest == Tail(flying)
    <3>1. /\ p \in Seq(Piece) /\ rest \in Seq(Piece) /\ arrived \in Seq(Piece)
          /\ flying = p \o rest
      BY <2>2, StreamTypes
    <3>2. arrived' \o flying' = (arrived \o p) \o rest
      BY <2>1, <2>3
    <3>. HIDE DEF p, rest
    <3>3. (arrived \o p) \o rest = arrived \o (p \o rest)
      BY <3>1, ReassociatePieces
    <3>. QED  BY <3>1, <3>2, <3>3
  <2>5. Len(arrived') = Len(arrived) + 1 /\ Len(flying') = Len(flying) - 1
    BY <2>1, <2>2, StreamTypes, AppendProperties
  <2>6. Packets' = Packets
    BY <2>1 DEF Packets
  <2>7. Received' = Received
    <3>1. Received' = PiecesOf(Packets) - Len(arrived') - Len(flying')
      BY <2>6 DEF Received, PiecesOf
    <3>. QED  BY <2>5, <3>1, StreamTypes
  <2>8. StreamInv'
    BY <2>1, <2>4, <2>6, <2>7 DEF StreamInv, PiecesOf
  <2>. QED  BY <2>7, <2>8
<1>5. CASE (\E line \in Lines : Type(line)) \/ TypeBlank \/ EndInput \/ Close
  <2>1. UNCHANGED <<sent, repeat, flying, arrived>>
    BY <1>5 DEF Type, TypeBlank, EndInput, Close, serverVars
  <2>. QED  BY <2>1 DEF StreamInv, Received, Packets, PiecesOf
<1>. QED  BY <1>2, <1>3, <1>4, <1>5 DEF Environment

LEMMA EnvironmentKeepsPrinted ==
  ASSUME TypeOK, PrintInv, Environment
  PROVE  PrintInv'
<1>1. StreamInv' /\ Received' = Received
  BY SentMakesStream DEF PrintInv
<1>2. UNCHANGED <<pc, receiveVars>> /\ sent' \in {sent, sent + 1}
  BY DEF Environment, Type, TypeBlank, EndInput, SendMessage, SendAgain, Deliver, Close, serverVars
<1>3. sent' \in Nat /\ sent <= sent'
  BY <1>2 DEF TypeOK
<1>. QED  BY <1>1, <1>2, <1>3, NothingReceived

\* recv_all up to its last line.
LEMMA LoopKeepsPrinted ==
  ASSUME TypeOK, PrintInv, ReceiveLoop
  PROVE  PrintInv'
<1>1. /\ pc = "recv" /\ UNCHANGED <<whole, printed>>
      /\ \/ /\ Receives(got) /\ got' = Min({Pieces, got + Len(arrived)})
            /\ pc' = IF got' = Pieces THEN "again" ELSE "recv"
         \/ pc' = "ended" /\ UNCHANGED <<serverVars, buffer, got>>
  BY DEF ReceiveLoop, after_hangup
<1>2. /\ got \in 0 .. Pieces /\ Pieces \in Nat \ {0} /\ sent \in Nat
      /\ Len(printed) \in Nat /\ Len(arrived) \in Nat
  BY ClientLoopAssumption, LenProperties DEF TypeOK
<1>3. CASE pc' = "ended" /\ UNCHANGED <<serverVars, buffer, got>>
  <2>1. UNCHANGED <<sent, repeat, flying, arrived, receiveVars>>
    BY <1>1, <1>3 DEF serverVars, receiveVars
  <2>2. StreamInv' /\ Received' = Received
    BY <2>1 DEF PrintInv, StreamInv, Received, Packets, PiecesOf
  <2>. QED  BY <1>2, <1>3, <2>1, <2>2, NothingReceived
<1>4. CASE /\ Receives(got) /\ got' = Min({Pieces, got + Len(arrived)})
           /\ pc' = IF got' = Pieces THEN "again" ELSE "recv"
  <2>1. PICK n \in 0 .. Len(arrived) :
           /\ n = (IF Pieces - got <= Len(arrived) THEN Pieces - got ELSE Len(arrived))
           /\ \A i \in 1 .. Pieces :
                 buffer'[i] = IF got < i /\ i <= got + n THEN arrived[i - got] ELSE buffer[i]
           /\ arrived' \in Seq(Piece) /\ Len(arrived') = Len(arrived) - n
           /\ \A i \in 1 .. Len(arrived) - n : arrived'[i] = arrived[n + i]
           /\ UNCHANGED <<sent, repeat, flying, closed>>
           /\ buffer' \in Buffer
    BY <1>2, <1>4, ReceivesStep
  <2>2. got' = got + n /\ n \in Nat /\ got + n <= Pieces
    <3>1. Pieces \in Int /\ got + Len(arrived) \in Int
      BY <1>2
    <3>2. got' = IF Pieces <= got + Len(arrived) THEN Pieces ELSE got + Len(arrived)
      BY <1>4, <3>1, MinOfTwo
    <3>3. n \in Nat /\ n = IF Pieces - got <= Len(arrived) THEN Pieces - got ELSE Len(arrived)
      BY <1>2, <2>1
    <3>. QED  BY <1>2, <3>2, <3>3
  <2>3. StreamInv' /\ Received' = Received + n
    BY <2>1, ReceivesKeepsStream DEF PrintInv
  <2>4. ASSUME whole PROVE ReceiveInv'
    <3>. DEFINE m == Len(printed)
    <3>1. /\ m <= sent /\ \A k \in 1 .. m : printed[k] = Packet(k)
          /\ got < Pieces /\ Received = PiecesOf(2 * m) + got
          /\ \A i \in 1 .. got : buffer[i] = <<m + 1, i>>
      BY <1>1, <2>4 DEF PrintInv, ReceiveInv
    <3>2. 2 * m \in Nat /\ m + 1 \in Nat /\ (2 * m + 2) \div 2 = m + 1 /\ got \in 0 .. Pieces - 1
      BY <1>2, <3>1
    <3>3. ASSUME NEW i \in 1 .. got + n PROVE buffer'[i] = <<m + 1, i>>
      <4>1. i \in 1 .. Pieces /\ i <= got + n
        BY <1>2, <2>2
      <4>2. CASE i <= got
        <5>1. i \in 1 .. got /\ ~(got < i)
          BY <1>2, <4>1, <4>2
        <5>2. buffer'[i] = buffer[i]
          BY <2>1, <4>1, <5>1
        <5>. QED  BY <3>1, <5>1, <5>2
      <4>3. CASE ~(i <= got)
        <5>1. /\ got < i /\ i - got \in 1 .. Len(arrived) /\ got + (i - got) = i
              /\ got + (i - got) <= Pieces
          BY <1>2, <2>1, <2>2, <4>1, <4>3
        <5>2. buffer'[i] = arrived[i - got]
          BY <2>1, <4>1, <5>1
        <5>3. arrived[i - got] = <<(2 * m + 2) \div 2, got + (i - got)>>
          BY <3>1, <3>2, <5>1, NextPieces DEF PrintInv
        <5>. QED  BY <3>2, <5>1, <5>2, <5>3
      <4>. QED  BY <4>2, <4>3
    <3>4. Received' = PiecesOf(2 * m) + (got + n)
      <4>1. PiecesOf(2 * m) \in Nat
        BY <3>2, PiecesOfPackets
      <4>. QED  BY <1>2, <2>2, <2>3, <3>1, <4>1
    <3>5. pc' = "recv" => got' < Pieces
      BY <1>2, <1>4, <2>2
    <3>6. pc' = "again" => Received' = PiecesOf(2 * m + 1) /\ buffer' = Packet(m + 1)
      <4>1. SUFFICES ASSUME got + n = Pieces
                     PROVE  Received' = PiecesOf(2 * m + 1) /\ buffer' = Packet(m + 1)
        BY <1>4, <2>2
      <4>2. Received' = PiecesOf(2 * m + 1)
        BY <3>2, <3>4, <4>1, PiecesOfPackets
      <4>3. \A i \in 1 .. Pieces : buffer'[i] = Packet(m + 1)[i]
        BY <3>2, <3>3, <4>1, PacketPieces
      <4>4. buffer' = Packet(m + 1)
        BY <2>1, <3>2, <4>3, PacketPieces DEF Buffer
      <4>. QED  BY <4>2, <4>4
    <3>7. pc' \in {"again", "recv"}
      BY <1>4
    <3>. QED
      BY <1>1, <2>1, <2>2, <3>1, <3>3, <3>4, <3>5, <3>6, <3>7 DEF ReceiveInv, PiecesOf, Packet
  <2>. QED  BY <1>1, <2>3, <2>4 DEF PrintInv, FirstIntact, Packet
<1>. QED  BY <1>1, <1>3, <1>4

\* Its last line: what is received there over a packet is its repetition, and
\* all of it unless the repetition came in pieces.
LEMMA AgainKeepsPrinted ==
  ASSUME TypeOK, PrintInv, ReceiveAgain
  PROVE  PrintInv'
<1>1. /\ pc = "again" /\ UNCHANGED got
      /\ \/ /\ Receives(0) /\ whole' = (whole /\ Len(arrived) >= Pieces)
            /\ printed' = Append(printed, buffer') /\ pc' = "events"
         \/ pc' = "ended" /\ UNCHANGED <<serverVars, buffer, whole, printed>>
  BY DEF ReceiveAgain, after_hangup
<1>2. /\ Pieces \in Nat \ {0} /\ sent \in Nat
      /\ printed \in Seq(Buffer) /\ Len(printed) \in Nat /\ Len(arrived) \in Nat
      /\ (printed # <<>> => 1 \in 1 .. Len(printed)) /\ (printed = <<>> <=> Len(printed) = 0)
  BY ClientLoopAssumption, LenProperties, EmptySeq DEF TypeOK
<1>3. CASE pc' = "ended" /\ UNCHANGED <<serverVars, buffer, whole, printed>>
  <2>1. UNCHANGED <<sent, repeat, flying, arrived, receiveVars>>
    BY <1>1, <1>3 DEF serverVars, receiveVars
  <2>2. StreamInv' /\ Received' = Received
    BY <2>1 DEF PrintInv, StreamInv, Received, Packets, PiecesOf
  <2>. QED  BY <1>2, <1>3, <2>1, <2>2, NothingReceived
<1>4. CASE /\ Receives(0) /\ whole' = (whole /\ Len(arrived) >= Pieces)
           /\ printed' = Append(printed, buffer') /\ pc' = "events"
  <2>. DEFINE m == Len(printed)
  <2>1. PICK n \in 0 .. Len(arrived) :
           /\ n = (IF Pieces - 0 <= Len(arrived) THEN Pieces - 0 ELSE Len(arrived))
           /\ \A i \in 1 .. Pieces :
                 buffer'[i] = IF 0 < i /\ i <= 0 + n THEN arrived[i - 0] ELSE buffer[i]
           /\ arrived' \in Seq(Piece) /\ Len(arrived') = Len(arrived) - n
           /\ \A i \in 1 .. Len(arrived) - n : arrived'[i] = arrived[n + i]
           /\ UNCHANGED <<sent, repeat, flying, closed>>
           /\ buffer' \in Buffer
    <3>1. 0 \in 0 .. Pieces
      BY <1>2
    <3>. QED  BY <1>4, <3>1, ReceivesStep
  <2>2. n \in Nat /\ n <= Pieces /\ Len(arrived) > 0
    <3>1. arrived # <<>>
      BY <1>4 DEF Receives
    <3>2. Len(arrived) # 0
      BY <3>1, EmptySeq DEF TypeOK
    <3>. QED  BY <1>2, <2>1, <3>2
  <2>3. StreamInv' /\ Received' = Received + n
    BY <2>1, ReceivesKeepsStream DEF PrintInv
  <2>4. /\ Len(printed') = m + 1 /\ printed'[m + 1] = buffer' /\ printed' # <<>>
        /\ \A k \in 1 .. m : printed'[k] = printed[k]
    BY <1>2, <1>4, <2>1, AppendProperties
  <2>5. ASSUME whole
        PROVE  /\ m < sent /\ \A k \in 1 .. m : printed[k] = Packet(k)
               /\ Received = PiecesOf(2 * m + 1) /\ buffer' = Packet(m + 1)
    <3>1. /\ m <= sent /\ \A k \in 1 .. m : printed[k] = Packet(k)
          /\ Received = PiecesOf(2 * m + 1) /\ buffer = Packet(m + 1)
      BY <1>1, <2>5 DEF PrintInv, ReceiveInv
    <3>2. /\ 2 * m + 1 \in Nat /\ m + 1 \in Nat /\ ((2 * m + 1) + 2) \div 2 = m + 1
          /\ PiecesOf(2 * m + 1) + 0 = PiecesOf(2 * m + 1) /\ 0 \in 0 .. Pieces - 1
      <4>1. 2 * m + 1 \in Nat /\ m + 1 \in Nat /\ ((2 * m + 1) + 2) \div 2 = m + 1
        BY <1>2
      <4>2. PiecesOf(2 * m + 1) \in Nat
        BY <4>1, PiecesOfPackets
      <4>. QED  BY <1>2, <4>1, <4>2
    <3>3. ASSUME NEW i \in 1 .. Len(arrived), i <= Pieces
          PROVE  2 * m + 1 < Packets /\ arrived[i] = <<m + 1, i>>
      <4>1. 0 + i <= Pieces /\ 0 + i = i
        BY <1>2, <3>3
      <4>. QED  BY <3>1, <3>2, <4>1, NextPieces DEF PrintInv
    <3>4. m < sent
      <4>1. 1 \in 1 .. Len(arrived) /\ 1 <= Pieces
        BY <1>2, <2>2
      <4>2. 2 * m + 1 < Packets
        BY <3>3, <4>1
      <4>. QED  BY <1>2, <4>2 DEF Packets, TypeOK
    <3>5. ASSUME NEW i \in 1 .. Pieces PROVE buffer'[i] = Packet(m + 1)[i]
      <4>1. CASE i <= n
        <5>1. i \in 1 .. Len(arrived) /\ i <= Pieces /\ i - 0 = i /\ 0 < i /\ i <= 0 + n
          BY <1>2, <2>1, <2>2, <4>1
        <5>2. buffer'[i] = arrived[i]
          BY <2>1, <5>1
        <5>. QED  BY <3>2, <3>3, <5>1, <5>2, PacketPieces
      <4>2. CASE ~(i <= n)
        <5>1. ~(i <= 0 + n)
          BY <1>2, <2>2, <4>2
        <5>. QED  BY <2>1, <3>1, <5>1
      <4>. QED  BY <4>1, <4>2
    <3>6. buffer' = Packet(m + 1)
      BY <2>1, <3>2, <3>5, PacketPieces DEF Buffer
    <3>. QED  BY <3>1, <3>4, <3>6
  <2>6. FirstIntact'
    <3>1. SUFFICES printed'[1] = Packet(1)
      BY DEF FirstIntact, Packet
    <3>2. CASE m = 0
      <4>1. whole
        BY <1>2, <3>2 DEF PrintInv
      <4>2. m + 1 = 1
        BY <3>2
      <4>. QED  BY <2>4, <2>5, <4>1, <4>2
    <3>3. CASE m # 0
      <4>1. printed # <<>> /\ 1 \in 1 .. m
        BY <1>2, <3>3
      <4>. QED  BY <2>4, <4>1 DEF PrintInv, FirstIntact
    <3>. QED  BY <3>2, <3>3
  <2>7. ASSUME whole' PROVE ReceiveInv'
    <3>1. whole /\ Len(arrived) >= Pieces
      BY <1>4, <2>7
    <3>2. n = Pieces
      BY <1>2, <2>1, <3>1
    <3>3. 2 * m + 1 \in Nat /\ (2 * m + 1) + 1 = 2 * (m + 1)
      BY <1>2
    <3>4. Received' = PiecesOf(2 * (m + 1))
      BY <2>3, <2>5, <3>1, <3>2, <3>3, PiecesOfPackets
    <3>5. m + 1 <= sent'
      BY <1>2, <2>1, <2>5, <3>1
    <3>6. \A k \in 1 .. m + 1 : printed'[k] = Packet(k)
      <4>1. \A k \in 1 .. m + 1 : k = m + 1 \/ k \in 1 .. m
        BY <1>2
      <4>. QED  BY <2>4, <2>5, <3>1, <4>1
    <3>. QED  BY <1>4, <2>4, <3>4, <3>5, <3>6 DEF ReceiveInv, PiecesOf, Packet
  <2>. QED  BY <2>3, <2>4, <2>6, <2>7 DEF PrintInv
<1>. QED  BY <1>1, <1>3, <1>4

\* pc is all that the rest of the loop changes of what the invariant is about.
LEMMA NextKeepsPrinted ==
  ASSUME TypeOK, PrintInv, [Next]_vars
  PROVE  PrintInv'
<1>1. CASE Environment
  BY <1>1, EnvironmentKeepsPrinted
<1>2. CASE \/ Poll \/ NoMoreEvents \/ ReadCommand \/ ReadArgument \/ Overrun \/ Carry
           \/ UNCHANGED vars
  <2>1. /\ UNCHANGED <<serverVars, receiveVars>>
        /\ pc' \in {pc, "ended", "corrupted"} \/ (pc \in Outside /\ pc' \in Outside)
    BY <1>2 DEF Poll, NoMoreEvents, ReadCommand, ReadArgument, Overrun, Carry, vars, Outside
  <2>2. UNCHANGED <<sent, repeat, flying, arrived>>
    BY <2>1 DEF serverVars
  <2>3. StreamInv' /\ Received' = Received
    BY <2>2 DEF PrintInv, StreamInv, Received, Packets, PiecesOf
  <2>4. sent' \in Nat /\ sent <= sent'
    BY <2>2 DEF TypeOK
  <2>. QED  BY <2>1, <2>3, <2>4, NothingReceived
<1>3. CASE BeginReceive
  <2>1. /\ UNCHANGED <<sent, repeat, flying, arrived, buffer, whole, printed>>
        /\ pc = "events" /\ pc' = "recv" /\ got' = 0
    BY <1>3 DEF BeginReceive, serverVars
  <2>2. StreamInv' /\ Received' = Received
    BY <2>1 DEF PrintInv, StreamInv, Received, Packets, PiecesOf
  <2>3. ASSUME whole PROVE ReceiveInv'
    <3>1. Received = PiecesOf(2 * Len(printed)) /\ Received + 0 = Received
      BY <2>1, <2>3, StreamTypes DEF PrintInv, ReceiveInv
    <3>2. 0 < Pieces /\ \A i \in 1 .. 0 : FALSE
      BY ClientLoopAssumption
    <3>3. ReceiveInv
      BY <2>3 DEF PrintInv
    <3>. QED  BY <2>1, <2>2, <3>1, <3>2, <3>3 DEF ReceiveInv, PiecesOf, Packet
  <2>. QED  BY <2>1, <2>2, <2>3 DEF PrintInv, FirstIntact, Packet
<1>. QED
  BY <1>1, <1>2, <1>3, LoopKeepsPrinted, AgainKeepsPrinted DEF Next, run_client, Environment

-----------------------------------------------------------------------------
(* The theorems.                                                           *)

LEMMA InitInv ==
  ASSUME Init
  PROVE  LoopInv
<1>1. TypeOK
  <2>1. buffer \in Buffer /\ cmd \in Word
    BY PacketPieces DEF Init, Word
  <2>2. <<>> \in Seq(Lines) /\ <<>> \in Seq(Word) /\ <<>> \in Seq(Seq(Word))
    BY EmptySeq
  <2>3. <<>> \in Seq(Piece) /\ <<>> \in Seq(Buffer)
    BY EmptySeq
  <2>4. 0 \in 0 .. Pieces
    BY ClientLoopAssumption
  <2>. QED  BY <2>1, <2>2, <2>3, <2>4 DEF TypeOK, Init
<1>2. ReadInv
  <2>1. /\ lines = <<>> /\ done = <<>> /\ words = <<>> /\ pc = "poll" /\ cmd = ""
        /\ stdio = <<>> /\ pipe = <<>>
    BY DEF Init
  <2>2. <<>> \in Seq(Word)
    BY EmptySeq
  <2>3. words \o Unreturned = <<>>
    BY <2>1, <2>2, ConcatEmptySeq DEF Unreturned
  <2>4. Spells(<<>>, <<>>, 0)
    <3>1. Len(<<>>) = 0
      OBVIOUS
    <3>2. SpellsWith([k \in 0 .. 0 |-> 0], <<>>, <<>>, 0)
      <4>. DEFINE cut == [k \in 0 .. 0 |-> 0]
      <4>1. cut[0] = 0 /\ \A k \in 0 .. 0 : cut[k] = 0
        OBVIOUS
      <4>2. \A k \in 0 + 1 .. 0 : FALSE
        OBVIOUS
      <4>. HIDE DEF cut
      <4>3. SpellsWith(cut, <<>>, <<>>, 0)
        BY <3>1, <4>1, <4>2 DEF SpellsWith
      <4>. QED  BY <4>3 DEF cut
    <3>3. [k \in 0 .. 0 |-> 0] \in [0 .. 0 -> 0 .. 0]
      OBVIOUS
    <3>. QED  BY <3>1, <3>2, <3>3 DEF Spells
  <2>5. Len(done) = 0 /\ \A k \in 1 .. Len(done) : FALSE
    <3>1. Len(<<>>) = 0 /\ \A k \in 1 .. 0 : FALSE
      OBVIOUS
    <3>. QED  BY <2>1, <3>1
  <2>6. InLine
    BY <2>1, <2>3, <2>4, <2>5 DEF InLine
  <2>7. DoneInOrder
    <3>1. lines = done
      BY <2>1
    <3>2. Len(lines) = 0
      BY <2>5, <3>1
    <3>. QED  BY <2>5, <3>2 DEF DoneInOrder
  <2>. QED  BY <2>1, <2>6, <2>7 DEF ReadInv, NoStaleExit
<1>3. PrintInv
  <2>1. /\ sent = 0 /\ repeat = FALSE /\ arrived = <<>> /\ flying = <<>>
        /\ printed = <<>> /\ pc = "poll"
    BY DEF Init
  <2>2. Packets = 0 /\ PiecesOf(0) = 0 /\ Len(printed) = 0 /\ 2 * Len(printed) = 0
    <3>1. Len(<<>>) = 0 /\ 2 * 0 = 0 /\ 2 * 0 - (IF FALSE THEN 1 ELSE 0) = 0
      OBVIOUS
    <3>2. Packets = 0 /\ Len(printed) = 0
      BY <2>1, <3>1 DEF Packets
    <3>. QED  BY <3>1, <3>2, PiecesOfPackets
  <2>3. Received = 0
    BY <2>1, <2>2 DEF Received
  <2>4. StreamInv
    <3>1. \A c \in 1 .. Packets : FALSE
      BY <2>2
    <3>. QED  BY <2>1, <2>3, <3>1 DEF StreamInv
  <2>5. ReceiveInv
    <3>1. \A m \in 1 .. Len(printed) : FALSE
      BY <2>2
    <3>. QED  BY <2>1, <2>2, <2>3, <3>1 DEF ReceiveInv
  <2>. QED  BY <2>1, <2>4, <2>5 DEF PrintInv, FirstIntact, Init
<1>. QED  BY <1>1, <1>2, <1>3 DEF LoopInv

LEMMA NextInv ==
  ASSUME LoopInv, [Next]_vars
  PROVE  LoopInv'
<1>1. TypeOK'
  BY NextTypes DEF LoopInv
<1>. QED  BY <1>1, NextKeepsPlace, NextKeepsPrinted DEF LoopInv

\* In every state the loop is in the line of what the user typed that follows
\* the commands carried out, or past the end of the input, and outside of
\* recv_all at the beginning of a message, as long as repetitions are whole.
THEOREM AlwaysLoopInv == Spec => []LoopInv
BY InitInv, NextInv, PTL DEF Spec

LEMMA SamePrefix ==
  ASSUME NEW S, NEW s \in Seq(S), NEW t \in Seq(S), Len(s) <= Len(t),
         \A i \in 1 .. Len(s) : s[i] = t[i]
  PROVE  IsPrefix(s, t)
<1>1. Len(s) \in Nat /\ Len(t) \in Nat
  BY LenProperties
<1>2. \A i \in 1 .. Len(s) : t[i] \in S
  BY <1>1, ElementOfSeq
<1>3. SubSeq(t, 1, Len(s)) = s
  BY <1>1, <1>2, SubSeqProperties, SeqEqual
<1>. QED  BY <1>1, <1>3 DEF IsPrefix

\* As long as every line is a command, the commands that run_client carries out
\* are the ones typed, in their order, for any lines and any way of reading
\* ahead: none is lost, repeated or invented, also at the end of the input.
THEOREM AlwaysDoesAsTyped == Spec => []DoesAsTyped
<1>1. ASSUME LoopInv PROVE DoesAsTyped
  <2>1. SUFFICES ASSUME AllCommands PROVE IsPrefix(done, lines)
    BY DEF DoesAsTyped, AllCommands
  <2>2. done \in Seq(Seq(Word)) /\ lines \in Seq(Seq(Word))
    BY <1>1, LinesAreWords DEF LoopInv, TypeOK
  <2>3. DoneInOrder
    BY <1>1, <2>1 DEF LoopInv, ReadInv
  <2>. QED  BY <2>2, <2>3, SamePrefix DEF DoneInOrder
<1>. QED  BY <1>1, AlwaysLoopInv, PTL

\* However recv cuts the first message, and wherever the server is, the
\* subscriber prints it as it was sent.
THEOREM FirstAlwaysIntact == Spec => []FirstIntact
<1>1. ASSUME LoopInv PROVE FirstIntact
  BY <1>1 DEF LoopInv, PrintInv
<1>. QED  BY <1>1, AlwaysLoopInv, PTL

\* As long as every repetition came whole, the messages printed are the ones
\* sent, each once and in order: recv_all's second recv takes exactly what
\* send_all's repetition put there, for any size of packets and any cuts.
THEOREM AlwaysPrintsAsSent == Spec => []PrintsAsSent
<1>1. ASSUME LoopInv PROVE PrintsAsSent
  <2>. DEFINE ps == [m \in 1 .. sent |-> Packet(m)]
  <2>1. SUFFICES ASSUME whole PROVE IsPrefix(printed, ps)
    BY DEF PrintsAsSent
  <2>2. sent \in Nat /\ printed \in Seq(Buffer) /\ Len(printed) \in Nat
    BY <1>1, LenProperties DEF LoopInv, TypeOK
  <2>3. ps \in Seq(Buffer) /\ Len(ps) = sent /\ \A m \in 1 .. sent : ps[m] = Packet(m)
    BY <2>2, PacketPieces
  <2>4. Len(printed) <= sent /\ \A m \in 1 .. Len(printed) : printed[m] = Packet(m)
    BY <1>1, <2>1 DEF LoopInv, PrintInv, ReceiveInv
  <2>. HIDE DEF ps
  <2>5. \A m \in 1 .. Len(printed) : m \in 1 .. sent
    BY <2>2, <2>4
  <2>. QED  BY <2>2, <2>3, <2>4, <2>5, SamePrefix
<1>. QED  BY <1>1, AlwaysLoopInv, PTL

-----------------------------------------------------------------------------
(* recv waits for what comes.                                              *)

\* A socket that was reported has something to receive until the loop has begun
\* to receive it.
Reported ==
    /\ SOCKET \in pending /\ pc \in {"events", "arguments", "command"} => arrived # <<>> \/ closed
    /\ pc = "recv" /\ got = 0 => arrived # <<>> \/ closed

LEMMA EnvironmentKeepsReported ==
  ASSUME TypeOK, Reported, Environment
  PROVE  Reported'
<1>1. ASSUME Deliver PROVE arrived' # <<>>
  <2>1. arrived' = Append(arrived, Head(flying)) /\ arrived \in Seq(Piece)
    BY <1>1 DEF Deliver, TypeOK
  <2>2. Head(flying) \in Piece
    BY <1>1, HeadTailProperties DEF Deliver, TypeOK
  <2>. QED  BY <2>1, <2>2, AppendProperties, EmptySeq, LenProperties
<1>2. UNCHANGED <<pc, pending, got>>
  BY DEF Environment, Type, TypeBlank, EndInput, SendMessage, SendAgain, Deliver, Close, receiveVars
<1>3. \/ UNCHANGED <<arrived, closed>>
      \/ closed' = TRUE
      \/ arrived' # <<>>
  BY <1>1 DEF Environment, Type, TypeBlank, EndInput, SendMessage, SendAgain, Close, serverVars
<1>. QED  BY <1>2, <1>3 DEF Reported

LEMMA LoopKeepsReported ==
  ASSUME TypeOK, Reported, run_client
  PROVE  Reported'
<1>1. CASE Poll
  <2>1. /\ pc' = "events" /\ UNCHANGED <<arrived, closed>>
        /\ SOCKET \in pending' => arrived # <<>> \/ closed
    BY <1>1 DEF Poll, Ready, Ended, STDIN, SOCKET, serverVars
  <2>. QED  BY <2>1 DEF Reported
<1>2. CASE NoMoreEvents
  BY <1>2 DEF NoMoreEvents, Reported
<1>3. CASE ReadCommand
  <2>1. pc = "events" /\ pc' \in {"arguments", "command"} /\ UNCHANGED <<pending, arrived, closed>>
    BY <1>3 DEF ReadCommand, serverVars
  <2>. QED  BY <2>1 DEF Reported
<1>4. CASE ReadArgument
  <2>1. pc = "arguments" /\ pc' \in {"arguments", "command"}
        /\ UNCHANGED <<pending, arrived, closed>>
    BY <1>4 DEF ReadArgument, serverVars
  <2>. QED  BY <2>1 DEF Reported
<1>5. CASE Carry
  <2>1. /\ pc = "command" /\ pc' \in {"events", "ended"} /\ UNCHANGED <<arrived, closed>>
        /\ pending' \subseteq pending
    BY <1>5 DEF Carry, serverVars
  <2>. QED  BY <2>1 DEF Reported
<1>6. CASE BeginReceive
  <2>1. pc = "events" /\ SOCKET \in pending /\ pc' = "recv" /\ UNCHANGED <<arrived, closed>>
    BY <1>6 DEF BeginReceive, serverVars
  <2>. QED  BY <2>1 DEF Reported
<1>7. CASE ReceiveLoop
  <2>1. CASE Ended /\ pc' = after_hangup
    BY <2>1 DEF Reported, after_hangup
  <2>2. CASE /\ Receives(got) /\ got' = Min({Pieces, got + Len(arrived)})
             /\ pc' = IF got' = Pieces THEN "again" ELSE "recv"
    <3>1. arrived # <<>> /\ arrived \in Seq(Piece) /\ got \in Nat /\ Pieces \in Nat \ {0}
      BY <2>2, ClientLoopAssumption DEF Receives, TypeOK
    <3>2. Len(arrived) \in Nat \ {0}
      BY <3>1, EmptySeq, LenProperties
    <3>3. got' = IF Pieces <= got + Len(arrived) THEN Pieces ELSE got + Len(arrived)
      BY <2>2, <3>1, <3>2, MinOfTwo
    <3>4. got' # 0
      BY <3>1, <3>2, <3>3
    <3>. QED  BY <2>2, <3>4 DEF Reported
  <2>. QED  BY <1>7, <2>1, <2>2 DEF ReceiveLoop
<1>8. CASE ReceiveAgain
  <2>1. SOCKET \notin pending' /\ pc' \in {"events", "ended"}
    BY <1>8 DEF ReceiveAgain, after_hangup
  <2>. QED  BY <2>1 DEF Reported
<1>9. CASE Overrun
  BY <1>9 DEF Overrun, Reported
<1>. QED  BY <1>1, <1>2, <1>3, <1>4, <1>5, <1>6, <1>7, <1>8, <1>9 DEF run_client

LEMMA ReportedAlways == Spec => []Reported
<1>1. Init => Reported
  BY DEF Init, Reported
<1>2. LoopInv /\ Reported /\ [Next]_vars => Reported'
  <2>1. SUFFICES ASSUME TypeOK, Reported, [Next]_vars PROVE Reported'
    BY DEF LoopInv
  <2>2. CASE UNCHANGED vars
    BY <2>1, <2>2 DEF vars, serverVars, receiveVars, Reported
  <2>. QED  BY <2>1, <2>2, EnvironmentKeepsReported, LoopKeepsReported DEF Next, Environment
<1>. QED  BY <1>1, <1>2, AlwaysLoopInv, PTL DEF Spec

\* When all that was sent has been received, the packets are the ones sent.
LEMMA AllReceived ==
  ASSUME TypeOK, StreamInv, arrived = <<>>, flying = <<>>,
         NEW c \in Nat, NEW start \in 0 .. Pieces - 1, Received = PiecesOf(c) + start
  PROVE  start = 0 /\ Packets = c
<1>1. Packets \in Nat /\ PiecesOf(Packets) = PiecesOf(c) + start
  BY StreamTypes, EmptySeq
<1>2. Pieces \in Nat \ {0}
  BY ClientLoopAssumption
<1>3. PiecesOf(c) \in Nat /\ PiecesOf(c + 1) = PiecesOf(c) + Pieces /\ PiecesOf(Packets) \in Nat
  BY <1>1, PiecesOfPackets
<1>4. Packets <= c
  <2>1. ~(c + 1 <= Packets)
    <3>1. ~(PiecesOf(c + 1) <= PiecesOf(Packets))
      BY <1>1, <1>2, <1>3
    <3>. QED  BY <1>1, <3>1, PiecesOfPackets
  <2>. QED  BY <1>1, <2>1
<1>5. PiecesOf(Packets) <= PiecesOf(c)
  BY <1>1, <1>4, PiecesOfPackets
<1>6. start = 0
  BY <1>1, <1>2, <1>3, <1>5
<1>7. c <= Packets
  <2>1. ~(Packets + 1 <= c)
    <3>1. PiecesOf(Packets + 1) = PiecesOf(Packets) + Pieces
      BY <1>1, PiecesOfPackets
    <3>2. ~(PiecesOf(Packets + 1) <= PiecesOf(c))
      BY <1>1, <1>2, <1>3, <1>6, <3>1
    <3>. QED  BY <1>1, <3>2, PiecesOfPackets
  <2>. QED  BY <1>1, <2>1
<1>. QED  BY <1>1, <1>4, <1>6, <1>7

\* As long as repetitions arrive whole, recv_all waits for nothing but what is
\* under way or send_all has still to repeat, for any number of messages and
\* pieces: the loop does not wait in recv for the next message.
THEOREM AlwaysReceivesWhatComes == Spec => []ReceivesWhatComes
<1>1. ASSUME LoopInv, Reported PROVE ReceivesWhatComes
  <2>1. SUFFICES ASSUME whole, pc \in {"recv", "again"}, flying = <<>>, arrived = <<>>, ~closed
                 PROVE  pc = "again" /\ repeat
    BY DEF ReceivesWhatComes
  <2>2. TypeOK /\ StreamInv /\ ReceiveInv
    BY <1>1, <2>1 DEF LoopInv, PrintInv
  <2>. DEFINE n == Len(printed)
  <2>3. n \in Nat /\ Pieces \in Nat \ {0} /\ got \in Nat
    BY <2>2, LenProperties, ClientLoopAssumption DEF TypeOK
  <2>4. CASE pc = "recv"
    <3>1. got < Pieces /\ Received = PiecesOf(2 * n) + got /\ got # 0
      BY <1>1, <2>1, <2>2, <2>4 DEF ReceiveInv, Reported
    <3>2. 2 * n \in Nat /\ got \in 0 .. Pieces - 1
      BY <2>3, <3>1
    <3>. QED  BY <2>1, <2>2, <3>1, <3>2, AllReceived
  <2>5. CASE pc = "again"
    <3>1. Received = PiecesOf(2 * n + 1)
      BY <2>2, <2>5 DEF ReceiveInv
    <3>2. 2 * n + 1 \in Nat /\ 0 \in 0 .. Pieces - 1
      BY <2>3
    <3>. HIDE DEF n
    <3>3. Received = PiecesOf(2 * n + 1) + 0
      <4>1. PiecesOf(2 * n + 1) \in Nat
        BY <3>2, PiecesOfPackets
      <4>. QED  BY <3>1, <4>1
    <3>4. Packets = 2 * n + 1
      BY <2>1, <2>2, <3>2, <3>3, AllReceived
    <3>5. sent \in Nat
      BY <2>2 DEF TypeOK
    <3>6. repeat
      BY <2>3, <3>4, <3>5 DEF Packets
    <3>. QED  BY <2>5, <3>6
  <2>. QED  BY <2>1, <2>4, <2>5
<1>. QED  BY <1>1, AlwaysLoopInv, ReportedAlways, PTL
=============================================================================
