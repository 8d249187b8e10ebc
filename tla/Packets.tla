------------------------------- MODULE Packets -------------------------------
(***************************************************************************)
(* What the structs of packets.h carry, byte by byte: a subscribe command  *)
(* from the user to the server's subscription, and a datagram from the     *)
(* socket to the line a subscriber prints.  Both travel as the first       *)
(* msg_len bytes of a TCP_header, which begins with msg_len itself, so     *)
(* that the last two bytes of every message stay behind.                   *)
(*                                                                         *)
(* The sizes are scaled down: TopicLen is 50 in the code, ContentLen 1500, *)
(* Base 256, Significand 2^24 and Precise 2^53.  Floats and doubles are     *)
(* numbers of 1/Scale, the least double, which is 2^-1074 in the code; the *)
(* least float, of Least/Scale, is 2^-149.  MaxPower is 10^22, the last    *)
(* power of ten that pow has no need to round.  The address of the sender  *)
(* passes through unchanged and is one byte here.                          *)
(***************************************************************************)
EXTENDS Integers, Sequences, FiniteSetsExt, SequencesExt

CONSTANTS
    TopicLen,     \* bytes of a topic
    ContentLen,   \* bytes of a content
    Base,         \* values of a byte of a number
    Significand,  \* bound of a float's significand
    Precise,      \* bound of a double's significand
    Scale,        \* doubles in 1
    Ulps,         \* distances between neighbouring doubles, in 1/Scale
    Least,        \* the least distance between floats, in 1/Scale
    MaxPower,     \* the last exact power of ten
    Topics,       \* topics users type
    SubscriberId, \* id of the subscriber
    Datagrams,    \* datagrams that are sent
    MaxDatagrams  \* bound: how many are

ASSUME PacketsAssumption ==
    /\ TopicLen \in Nat \ {0}
    /\ ContentLen \in Nat /\ ContentLen >= 8   \* a number's six bytes and two that stay behind
    /\ Base \in Nat \ {0, 1}
    /\ MaxDatagrams \in Nat

\* The distances between neighbouring floats.
FloatUlps == {ulp \in Ulps : ulp >= Least}

\* The distances are powers of 2, a double has the bits of two floats and some
\* to spare, and the numbers of two bytes have a bit less than a float.
ASSUME FloatsAssumption ==
    /\ Significand \in Nat /\ 2 * Base * Base <= Significand
    /\ Precise \in Nat /\ Significand * (Significand + 1) <= Precise
    /\ Ulps \subseteq Nat \ {0} /\ 1 \in Ulps
    /\ \A ulp \in Ulps \ {1} : \E half \in Ulps : ulp = 2 * half
    /\ Least \in Ulps
    /\ \A ulp \in FloatUlps \ {Least} : \E half \in FloatUlps : ulp = 2 * half
    /\ Scale \in Ulps
    /\ MaxPower \in Nat /\ 100 <= MaxPower
    /\ MaxPower * (Significand + 1) < Scale /\ 2 * MaxPower * Least < Scale

VARIABLES
    pc,           \* where the message is
    count,        \* datagrams received
    input,        \* history: the command or the datagram
    stack,        \* UDP_server_recv: the packet on the stack
    msg,          \* UDP_server->msg
    packet,       \* the packet between the subscriber and the server
    output        \* the subscription, or the line printed

vars == <<pc, count, input, stack, msg, packet, output>>

NUL == 0
SPACE == 32
DIGIT(n) == 48 + n
LETTER == 97   \* a byte the stack may hold

UDP_msg == TopicLen + 1 + ContentLen          \* sizes of the structs
TCP_stoc_msg == 1 + UDP_msg
CTOS_MAXLEN == TopicLen + 2
TCP_ctos_msg == 1 + CTOS_MAXLEN
PACKET_MAXLEN == 2 + TCP_stoc_msg + TCP_ctos_msg

\* scanf stores a word in the topic of command_args: one that fills it still
\* leaves the command intact, a longer one does not.
ASSUME TopicsAssumption ==
    /\ \A topic \in Topics : topic \in Seq(Nat \ {NUL, SPACE}) /\ Len(topic) <= TopicLen
    /\ SubscriberId \in Seq(Nat \ {NUL}) /\ SubscriberId # <<>>

Type(datagram) == datagram[TopicLen + 1]
Content(datagram) == SubSeq(datagram, TopicLen + 2, Len(datagram))

\* Publishers send the field of the topic and a data_type, and what content they
\* like: the bytes of a number have Base values.
ASSUME DatagramsAssumption ==
    \A datagram \in Datagrams :
        /\ datagram \in Seq(Nat) /\ Len(datagram) > TopicLen
        /\ Type(datagram) <= 2 =>
            \A i \in 1 .. Len(Content(datagram)) : Content(datagram)[i] < Base

Zeros(n) == [i \in 1 .. n |-> NUL]

\* The string at a byte of a buffer.
String(bytes, first) ==
    LET ends == {i \in first .. Len(bytes) : bytes[i] = NUL}
    IN  SubSeq(bytes, first, IF ends = {} THEN Len(bytes) ELSE Min(ends) - 1)

Init ==
    /\ pc = "idle" /\ count = 0 /\ input = <<>> /\ output = <<>>
    /\ \E b \in {NUL, LETTER} : stack = [i \in 1 .. UDP_msg |-> b]
    /\ msg = Zeros(UDP_msg)
    /\ packet = Zeros(PACKET_MAXLEN)

\* Nothing is under way.
Idle == pc \in {"idle", "subscribed", "printed"}

-----------------------------------------------------------------------------
(* TCP_client_send and TCP_server_send.                                    *)

\* The first n bytes of the header of a message in a packet filled with a byte.
TCP_header(bytes, n, filler) ==
    LET header == <<Len(bytes), NUL>> \o bytes
    IN  [i \in 1 .. PACKET_MAXLEN |-> IF i <= n THEN header[i] ELSE filler]

\* Mutant: msg_len is the length of the message without its type.
short_packet(bytes) == TCP_header(bytes, Len(bytes) - 1, NUL)

\* Mutant: the packet is not cleared first.
dirty_packet(bytes) == TCP_header(bytes, Len(bytes), LETTER)

sent_packet(bytes) == TCP_header(bytes, Len(bytes), NUL)

\* Mutant: the message is taken to start where the packet does.
without_header == packet

received == SubSeq(packet, 3, PACKET_MAXLEN)

-----------------------------------------------------------------------------
(* subscribe: "<TOPIC> <SF>".                                              *)

\* The topic and the flag behind it, which scanf writes after the topic's NUL.
command_args(topic, sf) == topic \o Zeros(TopicLen - Len(topic)) \o <<sf, NUL>>

\* A topic that fills its field runs into the flag.
CommandText(topic, sf) == String(command_args(topic, sf), 1) \o <<SPACE, DIGIT(sf)>>

client_set_payload(topic, sf) ==
    LET bytes == CommandText(topic, sf)
    IN  [i \in 1 .. CTOS_MAXLEN |-> IF i <= Len(bytes) THEN bytes[i] ELSE NUL]

\* The text or its NUL ends behind the payload: what is there may survive or not.
Overruns(topic, sf) == Len(CommandText(topic, sf)) >= CTOS_MAXLEN

subscribe(topic, sf) ==
    /\ Idle
    /\ input' = [topic |-> topic, sf |-> sf]
    /\ packet' = sent_packet(<<1>> \o client_set_payload(topic, sf))
    /\ \/ pc' = "subscribing"
       \/ Overruns(topic, sf) /\ pc' = "corrupted"
    /\ output' = <<>>
    /\ UNCHANGED <<count, stack, msg>>

\* A string and its NUL from a byte of a buffer on.
strcpy(bytes, first, string) ==
    [i \in 1 .. Len(bytes) |->
        CASE i \in first .. first + Len(string) - 1 -> string[i - first + 1]
          [] i = first + Len(string) -> NUL
          [] OTHER -> bytes[i]]

\* The topic of the node, which the id follows: the NUL of a topic that fills its
\* field is where the id begins.
subscription_node_create(topic) ==
    LET garbage == [i \in 1 .. TopicLen + Len(SubscriberId) + 1 |-> LETTER]
    IN  String(strcpy(strcpy(garbage, 1, topic), TopicLen + 1, SubscriberId), 1)

\* sscanf assigns the flag only if it finds one; the NUL of a topic that fills
\* its field falls on it.
TCP_server_get_sub_args ==
    /\ pc = "subscribing"
    /\ \E sf \in 0 .. 2 :
        LET payload == String(SubSeq(received, 2, TCP_ctos_msg), 1)
            k == Min({i \in 1 .. Len(payload) : payload[i] = SPACE} \cup {Len(payload) + 1})
        IN  /\ k < Len(payload) => payload[k + 1] = DIGIT(sf)
            /\ k > TopicLen => sf = 0
            /\ output' = [topic |-> subscription_node_create(SubSeq(payload, 1, k - 1)), sf |-> sf]
    /\ packet' = Zeros(PACKET_MAXLEN)
    /\ pc' = "subscribed"
    /\ UNCHANGED <<count, input, stack, msg>>

-----------------------------------------------------------------------------
(* The datagram.                                                           *)

\* What the datagram does not fill of the packet on the stack is what it was
\* after the last one or what other calls put there.
UDP_server_recv(datagram) ==
    /\ Idle /\ count < MaxDatagrams
    /\ count' = count + 1
    /\ input' = datagram
    /\ \E held \in {stack, Zeros(UDP_msg), [i \in 1 .. UDP_msg |-> LETTER]} :
        stack' = [i \in 1 .. UDP_msg |-> IF i <= Len(datagram) THEN datagram[i] ELSE held[i]]
    /\ msg' = stack'
    /\ pc' = "published"
    /\ output' = <<>>
    /\ UNCHANGED packet

\* The address of the sender and the message.
server_compose_msg == <<LETTER>> \o msg

TCP_server_send ==
    /\ pc = "published"
    /\ packet' = sent_packet(server_compose_msg)
    /\ pc' = "sent"
    /\ UNCHANGED <<count, input, stack, msg, output>>

-----------------------------------------------------------------------------
(* TCP_client_print_subscription_message.                                  *)

ntohs(bytes, i) == bytes[i] * Base + bytes[i + 1]

\* Mutant: the bytes are read in the order of the host.
host_order(bytes, i) ==
    ((bytes[i + 3] * Base + bytes[i + 2]) * Base + bytes[i + 1]) * Base + bytes[i]

\* The number whose bytes start at one of a buffer.
ntohl(bytes, i) ==
    ((bytes[i] * Base + bytes[i + 1]) * Base + bytes[i + 2]) * Base + bytes[i + 3]

Half == (Base ^ 4) \div 2

\* %d of an unsigned number.
Signed(n) == IF n < Half THEN n ELSE n - 2 * Half

Nearest(a, b) ==
    LET q == a \div b
        r == a % b
    IN  IF 2 * r > b \/ (2 * r = b /\ q % 2 = 1) THEN q + 1 ELSE q

\* The float or double nearest to a / b.
Rounded(a, b, significand, ulps) ==
    LET ulp == Min({u \in ulps : a < significand * u * b})
    IN  Nearest(a, b * ulp) * ulp

InFloat(a, b) == Rounded(a, b, Significand, FloatUlps)
InDouble(a, b) == Rounded(a, b, Precise, Ulps)

\* A float with as many decimals as d has zeros, in units of the last of them.
Decimals(x, d) == Nearest(x * d, Scale)

\* n / 100 is divided as floats, n / 10^k as doubles and then made a float.
ShortReal(n) == Decimals(InFloat(n * Scale, 100), 100)
Float(n, d) == Decimals(InFloat(InDouble(n * Scale, d), 1), d)

Number(negative, n, decimals) == [negative |-> negative, n |-> n, decimals |-> decimals]

\* What is printed of a content of each data_type.
Value(type, content) ==
    CASE type = 0 -> Number(content[1] # 0, Signed(ntohl(content, 2)), 0)
      [] type = 1 -> Number(FALSE, ShortReal(ntohs(content, 1)), 2)
      [] type = 2 -> Number(content[1] # 0, Float(ntohl(content, 2), 10 ^ content[6]), content[6])
      [] OTHER    -> String(content, 1)

TCP_client_print_subscription_message ==
    /\ pc = "sent"
    /\ LET message == SubSeq(received, 2, TCP_stoc_msg)
           type == message[TopicLen + 1]
       IN  output' = [topic |-> String(message, 1), type |-> type,
                      value |-> Value(type, SubSeq(message, TopicLen + 2, UDP_msg))]
    /\ packet' = Zeros(PACKET_MAXLEN)
    /\ pc' = "printed"
    /\ UNCHANGED <<count, input, stack, msg>>

Next ==
    \/ \E topic \in Topics, sf \in 0 .. 1 : subscribe(topic, sf)
    \/ TCP_server_get_sub_args
    \/ \E datagram \in Datagrams : UDP_server_recv(datagram)
    \/ TCP_server_send
    \/ TCP_client_print_subscription_message

Spec == Init /\ [][Next]_vars

-----------------------------------------------------------------------------
(* What a datagram says.                                                   *)

Topic(datagram) == String(SubSeq(datagram, 1, TopicLen), 1)
\* The numbers of a content by the places of their bytes.
Long(c) == c[2] * (Base * Base * Base) + c[3] * (Base * Base) + c[4] * Base + c[5]
Short(c) == c[1] * Base + c[2]

\* The subscription the server adds is to the topic that was typed, and with
\* the flag that was typed when the topic leaves two bytes for it: what
\* travels ends in the middle of the payload.  A topic that fills its field is
\* stored run together with the id of the subscriber, so that no datagram has
\* it and no command removes it: test.py:92 and 382 subscribe to one.
SubscribesAsTyped ==
    pc = "subscribed" =>
        /\ output.topic = IF Len(input.topic) < TopicLen THEN input.topic
                          ELSE input.topic \o SubscriberId
        /\ Len(input.topic) <= TopicLen - 2 => output.sf = input.sf

\* A subscriber prints the topic of the datagram, also when it fills its field
\* and leaves no NUL, if the content is an INT: its data_type is read as one.
TopicAsSent ==
    pc = "printed" /\ (Len(Topic(input)) < TopicLen \/ Type(input) = 0) =>
        output.topic = Topic(input)

\* A subscriber prints the number of the datagram: an INT below 2^31, any
\* SHORT_REAL, and a FLOAT whose significand has a bit less than a float's and
\* whose power of ten is exact: neither of the two roundings can be seen.
NumbersAsSent ==
    pc = "printed" =>
        LET type == Type(input)
            c == Content(input)
            value == output.value
        IN  /\ type = 0 /\ Len(c) >= 5 /\ Long(c) < Half =>
                value = Number(c[1] # 0, Long(c), 0)
            /\ type = 1 /\ Len(c) >= 2 => value = Number(FALSE, Short(c), 2)
            /\ type = 2 /\ Len(c) >= 6 /\ 2 * Long(c) < Significand /\ 10 ^ c[6] \in 1 .. MaxPower =>
                value = Number(c[1] # 0, Long(c), c[6])

\* A subscriber prints the text of the datagram but for the two bytes that
\* stay behind, and nothing behind it if the text has a NUL or fills its field.
\* Otherwise the end of an older text may follow.
TextAsSent ==
    pc = "printed" /\ Type(input) > 2 =>
        LET sent == Content(input)
            kept == SubSeq(sent, 1, Min({Len(sent), ContentLen - 2}))
        IN  /\ IsPrefix(String(kept, 1), output.value)
            /\ Contains(kept, NUL) \/ Len(sent) = ContentLen => output.value = String(kept, 1)
=============================================================================
