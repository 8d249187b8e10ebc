---------------------------- MODULE PacketsProofs ----------------------------
(***************************************************************************)
(* That topics, numbers and texts come out of the structs as they went in, *)
(* for fields of any length and floats of any precision.                   *)
(*                                                                         *)
(* The invariant keeps, from the command or the datagram to the output,    *)
(* what the buffer in use holds at each byte.  The rest compares strings   *)
(* in buffers that agree up to the NUL, and numbers before and after they  *)
(* are rounded to a float and back to decimals.                            *)
(***************************************************************************)
EXTENDS Packets, ListProofs

LEMMA Sizes ==
  /\ TopicLen \in Nat \ {0} /\ ContentLen \in Nat \ {0, 1} /\ ContentLen - 2 >= 6
  /\ UDP_msg = TopicLen + 1 + ContentLen /\ UDP_msg \in Nat
  /\ CTOS_MAXLEN = TopicLen + 2 /\ TCP_ctos_msg = TopicLen + 3
  /\ TCP_stoc_msg = UDP_msg + 1
  /\ PACKET_MAXLEN = 2 + TCP_stoc_msg + TCP_ctos_msg
BY PacketsAssumption DEF UDP_msg, CTOS_MAXLEN, TCP_ctos_msg, TCP_stoc_msg, PACKET_MAXLEN

-----------------------------------------------------------------------------
(* Buffers and strings.                                                    *)

LEMMA Buffer ==
  ASSUME NEW n \in Nat, NEW f \in [1 .. n -> Nat]
  PROVE  f \in Seq(Nat) /\ Len(f) = n
<1>. QED  OBVIOUS

LEMMA Slice ==
  ASSUME NEW s \in Seq(Nat), NEW a \in Nat \ {0}, NEW b \in Nat, a <= b + 1, b <= Len(s)
  PROVE  /\ SubSeq(s, a, b) \in Seq(Nat) /\ Len(SubSeq(s, a, b)) = b - a + 1
         /\ \A j \in 1 .. b - a + 1 : SubSeq(s, a, b)[j] = s[a + j - 1]
<1>1. \A i \in a .. b : s[i] \in Nat
  <2>1. \A i \in a .. b : i \in 1 .. Len(s)
    BY LenProperties
  <2>. QED  BY <2>1, ElementOfSeq
<1>2. a \in Int /\ b \in Int
  OBVIOUS
<1>3. /\ SubSeq(s, a, b) \in Seq(Nat)
      /\ Len(SubSeq(s, a, b)) = IF a <= b THEN b - a + 1 ELSE 0
      /\ \A j \in 1 .. b - a + 1 : SubSeq(s, a, b)[j] = s[a + j - 1]
  BY <1>1, <1>2, SubSeqProperties
<1>4. ~(a <= b) => b - a + 1 = 0
  BY <1>2
<1>. QED  BY <1>3, <1>4

\* The string at the start of a buffer ends before e.
Ends(bytes, e) ==
    /\ e \in 1 .. Len(bytes) + 1
    /\ \A i \in 1 .. e - 1 : bytes[i] # NUL
    /\ e <= Len(bytes) => bytes[e] = NUL

LEMMA SomeEnd ==
  ASSUME NEW bytes \in Seq(Nat)
  PROVE  \E e \in Nat : Ends(bytes, e)
<1>. DEFINE n == Len(bytes)
            S == {i \in 1 .. n + 1 : i <= n => bytes[i] = NUL}
            e == Min(S)
<1>1. n \in Nat
  BY LenProperties
<1>. HIDE DEF n
<1>2. S \in SUBSET Nat /\ n + 1 \in S
  BY <1>1
<1>3. e \in S /\ \A y \in S : e <= y
  <2>1. S # {}
    BY <1>2
  <2>. HIDE DEF S
  <2>. QED  BY <1>2, <2>1, FirstExists
<1>4. e \in 1 .. n + 1 /\ (e <= n => bytes[e] = NUL)
  <2>. HIDE DEF e
  <2>. QED  BY <1>3
<1>5. ASSUME NEW i \in 1 .. e - 1 PROVE bytes[i] # NUL
  <2>1. e \in Nat
    BY <1>1, <1>4
  <2>. HIDE DEF e
  <2>2. i \in 1 .. n + 1 /\ ~(e <= i)
    BY <1>1, <1>4, <2>1
  <2>3. i \notin S
    <3>. HIDE DEF S
    <3>. QED  BY <1>3, <2>2
  <2>. QED  BY <2>2, <2>3
<1>. HIDE DEF e, S
<1>6. e \in Nat
  BY <1>1, <1>4
<1>. QED  BY <1>4, <1>5, <1>6 DEF Ends, n

LEMMA StringIs ==
  ASSUME NEW bytes \in Seq(Nat), NEW e \in Nat, Ends(bytes, e)
  PROVE  /\ String(bytes, 1) = SubSeq(bytes, 1, e - 1)
         /\ String(bytes, 1) \in Seq(Nat) /\ Len(String(bytes, 1)) = e - 1
         /\ \A i \in 1 .. e - 1 : String(bytes, 1)[i] = bytes[i]
<1>. DEFINE n == Len(bytes)
            S == {i \in 1 .. n : bytes[i] = NUL}
<1>1. n \in Nat /\ e \in 1 .. n + 1
  BY LenProperties DEF Ends
<1>2. \A i \in 1 .. e - 1 : bytes[i] # NUL
  BY DEF Ends
<1>3. e <= n => bytes[e] = NUL
  BY DEF Ends
<1>4. String(bytes, 1) = SubSeq(bytes, 1, IF S = {} THEN n ELSE Min(S) - 1)
  BY DEF String
<1>. HIDE DEF n
<1>5. (IF S = {} THEN n ELSE Min(S) - 1) = e - 1
  <2>1. CASE e = n + 1
    <3>1. S = {}
      BY <1>1, <1>2, <2>1
    <3>. QED  BY <1>1, <2>1, <3>1
  <2>2. CASE e <= n
    <3>1. e \in S /\ S \in SUBSET Nat /\ \A i \in S : ~(i < e)
      BY <1>1, <1>2, <1>3, <2>2
    <3>. HIDE DEF S
    <3>2. Min(S) \in S /\ Min(S) <= e
      BY <3>1, FirstExists
    <3>3. Min(S) = e
      <4>1. ~(Min(S) < e) /\ Min(S) \in Nat
        BY <3>1, <3>2
      <4>. QED  BY <1>1, <3>2, <4>1
    <3>. QED  BY <3>1, <3>3
  <2>. QED  BY <1>1, <2>1, <2>2
<1>6. String(bytes, 1) = SubSeq(bytes, 1, e - 1)
  BY <1>4, <1>5
<1>. HIDE DEF S
<1>7. e - 1 \in Nat /\ 1 <= (e - 1) + 1 /\ e - 1 <= n /\ (e - 1) - 1 + 1 = e - 1
  BY <1>1
<1>8. /\ SubSeq(bytes, 1, e - 1) \in Seq(Nat) /\ Len(SubSeq(bytes, 1, e - 1)) = (e - 1) - 1 + 1
      /\ \A j \in 1 .. (e - 1) - 1 + 1 : SubSeq(bytes, 1, e - 1)[j] = bytes[1 + j - 1]
  BY <1>7, Slice DEF n
<1>9. \A j \in 1 .. e - 1 : 1 + j - 1 = j
  BY <1>1
<1>. QED  BY <1>6, <1>7, <1>8, <1>9

\* Buffers that agree up to a NUL, or to the end of both, hold the same string.
LEMMA SameString ==
  ASSUME NEW a \in Seq(Nat), NEW b \in Seq(Nat), NEW e \in Nat, Ends(a, e), Ends(b, e),
         \A i \in 1 .. e - 1 : a[i] = b[i]
  PROVE  String(a, 1) = String(b, 1)
<1>1. /\ String(a, 1) \in Seq(Nat) /\ Len(String(a, 1)) = e - 1
      /\ \A i \in 1 .. e - 1 : String(a, 1)[i] = a[i]
  BY StringIs
<1>2. /\ String(b, 1) \in Seq(Nat) /\ Len(String(b, 1)) = e - 1
      /\ \A i \in 1 .. e - 1 : String(b, 1)[i] = b[i]
  BY StringIs
<1>. QED  BY <1>1, <1>2, SeqEqual

-----------------------------------------------------------------------------
(* The packet.                                                             *)

\* All of a message arrives but its last two bytes.
LEMMA Arrives ==
  ASSUME NEW bytes \in Seq(Nat), Len(bytes) \in {TCP_ctos_msg, TCP_stoc_msg},
         packet = sent_packet(bytes)
  PROVE  LET n == Len(bytes)
             m == SubSeq(received, 2, n)
         IN  /\ m \in Seq(Nat) /\ Len(m) = n - 1
             /\ \A j \in 1 .. n - 1 : m[j] = IF j <= n - 3 THEN bytes[j + 1] ELSE NUL
<1>. DEFINE n == Len(bytes)
            header == <<n, NUL>> \o bytes
            P == PACKET_MAXLEN
<1>1. /\ n \in Nat /\ n >= 3 /\ P \in Nat /\ n + 2 <= P
      /\ \A j \in 1 .. n : bytes[j] \in Nat
  BY Sizes, ElementOfSeq
<1>2. /\ header \in Seq(Nat) /\ Len(header) = n + 2
      /\ \A i \in 1 .. n + 2 : header[i] = IF i <= 2 THEN <<n, NUL>>[i] ELSE bytes[i - 2]
  <2>1. <<n, NUL>> \in Seq(Nat) /\ Len(<<n, NUL>>) = 2
    BY <1>1 DEF NUL
  <2>2. 2 + n = n + 2
    BY <1>1
  <2>. QED  BY <2>1, <2>2, ConcatProperties
<1>3. packet = [i \in 1 .. P |-> IF i <= n THEN header[i] ELSE NUL]
  BY DEF sent_packet, TCP_header
<1>. HIDE DEF n, header, P
<1>4. packet \in [1 .. P -> Nat]
  <2>1. \A i \in 1 .. P : i <= n => i \in 1 .. Len(header)
    BY <1>1, <1>2
  <2>2. \A i \in 1 .. P : (IF i <= n THEN header[i] ELSE NUL) \in Nat
    BY <1>2, <2>1, ElementOfSeq DEF NUL
  <2>. QED  BY <1>3, <2>2
<1>5. packet \in Seq(Nat) /\ Len(packet) = P
  BY <1>1, <1>4, Buffer
<1>6. /\ received \in Seq(Nat) /\ Len(received) = P - 2
      /\ \A j \in 1 .. P - 2 : received[j] = packet[j + 2]
  <2>1. 3 \in Nat \ {0} /\ 3 <= P + 1 /\ P <= Len(packet) /\ P - 3 + 1 = P - 2
    BY <1>1, <1>5
  <2>2. /\ SubSeq(packet, 3, P) \in Seq(Nat) /\ Len(SubSeq(packet, 3, P)) = P - 3 + 1
        /\ \A j \in 1 .. P - 3 + 1 : SubSeq(packet, 3, P)[j] = packet[3 + j - 1]
    BY <1>1, <1>5, <2>1, Slice
  <2>3. \A j \in 1 .. P - 2 : 3 + j - 1 = j + 2
    BY <1>1
  <2>. QED  BY <2>1, <2>2, <2>3 DEF received, P
<1>. DEFINE m == SubSeq(received, 2, n)
<1>7. /\ m \in Seq(Nat) /\ Len(m) = n - 1
      /\ \A j \in 1 .. n - 1 : m[j] = received[j + 1]
  <2>. DEFINE r == Len(received)
  <2>1. 2 \in Nat \ {0} /\ 2 <= n + 1 /\ n <= r /\ n - 2 + 1 = n - 1
    <3>1. r = P - 2
      BY <1>6
    <3>. HIDE DEF r
    <3>. QED  BY <1>1, <3>1
  <2>2. /\ SubSeq(received, 2, n) \in Seq(Nat) /\ Len(SubSeq(received, 2, n)) = n - 2 + 1
        /\ \A j \in 1 .. n - 2 + 1 : SubSeq(received, 2, n)[j] = received[2 + j - 1]
    BY <1>1, <1>6, <2>1, Slice
  <2>3. \A j \in 1 .. n - 1 : 2 + j - 1 = j + 1
    BY <1>1
  <2>. QED  BY <2>1, <2>2, <2>3
<1>. HIDE DEF m
<1>8. ASSUME NEW j \in 1 .. n - 1 PROVE m[j] = IF j <= n - 3 THEN bytes[j + 1] ELSE NUL
  <2>1. /\ j + 1 \in 1 .. P - 2 /\ (j + 1) + 2 \in 1 .. P
        /\ ((j + 1) + 2 <= n <=> j <= n - 3)
    BY <1>1
  <2>2. m[j] = packet[(j + 1) + 2]
    BY <1>6, <1>7, <2>1
  <2>3. m[j] = IF (j + 1) + 2 <= n THEN header[(j + 1) + 2] ELSE NUL
    BY <1>3, <2>1, <2>2
  <2>4. ASSUME j <= n - 3 PROVE header[(j + 1) + 2] = bytes[j + 1]
    <3>1. (j + 1) + 2 \in 1 .. n + 2 /\ ~((j + 1) + 2 <= 2) /\ ((j + 1) + 2) - 2 = j + 1
      BY <1>1, <2>4
    <3>. QED  BY <1>2, <3>1
  <2>. QED  BY <2>1, <2>3, <2>4
<1>. QED  BY <1>7, <1>8 DEF n, m

-----------------------------------------------------------------------------
(* The command.                                                            *)

\* The message of a subscribe command.
Command(topic, sf) == <<1>> \o client_set_payload(topic, sf)

\* The topic ends at its NUL, or at the flag's when it fills its field.
LEMMA CommandIs ==
  ASSUME NEW topic \in Topics, NEW sf \in 0 .. 1
  PROVE  LET bytes == command_args(topic, sf)
             L == Len(topic)
         IN  /\ bytes \in Seq(Nat) /\ Len(bytes) = TopicLen + 2
             /\ L \in Nat /\ L <= TopicLen
             /\ \A j \in 1 .. L : bytes[j] = topic[j] /\ topic[j] \in Nat \ {NUL, SPACE}
             /\ L < TopicLen => bytes[L + 1] = NUL
             /\ bytes[TopicLen + 1] = sf /\ bytes[TopicLen + 2] = NUL
<1>. DEFINE L == Len(topic)
            d == TopicLen - L
            zeros == Zeros(d)
            tail == <<sf, NUL>>
            field == topic \o zeros
            bytes == field \o tail
<1>1. /\ topic \in Seq(Nat \ {NUL, SPACE}) /\ topic \in Seq(Nat)
      /\ L \in Nat /\ L <= TopicLen /\ TopicLen \in Nat
      /\ \A j \in 1 .. L : topic[j] \in Nat \ {NUL, SPACE}
  <2>1. topic \in Seq(Nat \ {NUL, SPACE}) /\ L <= TopicLen
    BY TopicsAssumption
  <2>2. topic \in Seq(Nat) /\ L \in Nat
    BY <2>1, SeqMonotonic, LenProperties
  <2>3. \A j \in 1 .. L : topic[j] \in Nat \ {NUL, SPACE}
    BY <2>1, ElementOfSeq
  <2>. QED  BY <2>1, <2>2, <2>3, Sizes
<1>2. d \in Nat
  BY <1>1
<1>3. tail \in Seq(Nat) /\ Len(tail) = 2 /\ tail[1] = sf /\ tail[2] = NUL
  BY DEF NUL
<1>4. zeros \in Seq(Nat) /\ Len(zeros) = d /\ \A j \in 1 .. d : zeros[j] = NUL
  <2>1. zeros \in [1 .. d -> Nat] /\ \A j \in 1 .. d : zeros[j] = NUL
    BY DEF Zeros, NUL
  <2>. QED  BY <1>2, <2>1, Buffer
<1>. HIDE DEF zeros, tail
<1>5. /\ field \in Seq(Nat) /\ Len(field) = TopicLen
      /\ \A j \in 1 .. TopicLen : field[j] = IF j <= L THEN topic[j] ELSE zeros[j - L]
  <2>1. /\ field \in Seq(Nat) /\ Len(field) = Len(topic) + Len(zeros)
        /\ \A j \in 1 .. Len(topic) + Len(zeros) :
              field[j] = IF j <= Len(topic) THEN topic[j] ELSE zeros[j - Len(topic)]
    BY <1>1, <1>4, ConcatProperties
  <2>2. Len(topic) + Len(zeros) = TopicLen
    BY <1>1, <1>4
  <2>. HIDE DEF field
  <2>. QED  BY <2>1, <2>2 DEF L
<1>. HIDE DEF field
<1>6. /\ bytes \in Seq(Nat) /\ Len(bytes) = TopicLen + 2
      /\ \A j \in 1 .. TopicLen + 2 : bytes[j] = IF j <= TopicLen THEN field[j] ELSE tail[j - TopicLen]
  <2>1. /\ bytes \in Seq(Nat) /\ Len(bytes) = Len(field) + Len(tail)
        /\ \A j \in 1 .. Len(field) + Len(tail) :
              bytes[j] = IF j <= Len(field) THEN field[j] ELSE tail[j - Len(field)]
    <3>1. field \in Seq(Nat) /\ tail \in Seq(Nat)
      BY <1>3, <1>5
    <3>. QED  BY <3>1, ConcatProperties
  <2>. HIDE DEF bytes
  <2>. QED  BY <1>3, <1>5, <2>1
<1>. HIDE DEF bytes, L, d
<1>7. \A j \in 1 .. L : bytes[j] = topic[j]
  <2>1. \A j \in 1 .. L : j \in 1 .. TopicLen + 2 /\ j \in 1 .. TopicLen /\ j <= TopicLen /\ j <= L
    BY <1>1
  <2>. QED  BY <1>5, <1>6, <2>1
<1>8. L < TopicLen => bytes[L + 1] = NUL
  <2>1. SUFFICES ASSUME L < TopicLen PROVE bytes[L + 1] = NUL
    OBVIOUS
  <2>2. /\ L + 1 \in 1 .. TopicLen + 2 /\ L + 1 \in 1 .. TopicLen /\ L + 1 <= TopicLen
        /\ ~(L + 1 <= L) /\ (L + 1) - L = 1 /\ 1 \in 1 .. d
    BY <1>1, <2>1 DEF d
  <2>. QED  BY <1>4, <1>5, <1>6, <2>2
<1>9. bytes[TopicLen + 1] = sf /\ bytes[TopicLen + 2] = NUL
  <2>1. /\ TopicLen + 1 \in 1 .. TopicLen + 2 /\ TopicLen + 2 \in 1 .. TopicLen + 2
        /\ ~(TopicLen + 1 <= TopicLen) /\ ~(TopicLen + 2 <= TopicLen)
        /\ (TopicLen + 1) - TopicLen = 1 /\ (TopicLen + 2) - TopicLen = 2
    BY <1>1
  <2>. QED  BY <1>3, <1>6, <2>1
<1>. QED
  BY <1>1, <1>6, <1>7, <1>8, <1>9 DEF L, d, bytes, field, zeros, tail, command_args

\* The text of a command: a topic that leaves a byte of its field is followed by
\* a space and the flag.
LEMMA CommandTextIs ==
  ASSUME NEW topic \in Topics, NEW sf \in 0 .. 1
  PROVE  LET t == CommandText(topic, sf)
             L == Len(topic)
         IN  /\ t \in Seq(Nat) /\ Len(t) >= L + 2
             /\ \A j \in 1 .. L : t[j] = topic[j]
             /\ L < TopicLen => Len(t) = L + 2 /\ t[L + 1] = SPACE /\ t[L + 2] = DIGIT(sf)
<1>. DEFINE L == Len(topic)
            bytes == command_args(topic, sf)
            e == IF L < TopicLen \/ sf = 0 THEN L + 1 ELSE L + 2
            string == String(bytes, 1)
            tail == <<SPACE, DIGIT(sf)>>
            t == string \o tail
<1>1. /\ bytes \in Seq(Nat) /\ Len(bytes) = TopicLen + 2
      /\ L \in Nat /\ L <= TopicLen /\ TopicLen \in Nat
      /\ \A j \in 1 .. L : bytes[j] = topic[j] /\ topic[j] \in Nat \ {NUL, SPACE}
      /\ L < TopicLen => bytes[L + 1] = NUL
      /\ bytes[TopicLen + 1] = sf /\ bytes[TopicLen + 2] = NUL
  BY CommandIs, Sizes
<1>2. tail \in Seq(Nat) /\ Len(tail) = 2 /\ tail[1] = SPACE /\ tail[2] = DIGIT(sf)
  BY DEF SPACE, DIGIT
<1>. HIDE DEF bytes, L, tail
<1>3. e \in Nat /\ e \in 1 .. TopicLen + 3 /\ L + 1 <= e /\ (L < TopicLen => e = L + 1)
  BY <1>1
<1>4. bytes[e] = NUL
  <2>1. CASE L < TopicLen
    BY <1>1, <2>1
  <2>2. CASE L = TopicLen /\ sf = 0
    BY <1>1, <2>2 DEF NUL
  <2>3. CASE L = TopicLen /\ sf = 1
    BY <1>1, <2>3
  <2>. QED  BY <1>1, <2>1, <2>2, <2>3
<1>5. ASSUME NEW j \in 1 .. e - 1 PROVE bytes[j] # NUL
  <2>1. j \in 1 .. L \/ (j = TopicLen + 1 /\ sf = 1)
    BY <1>1
  <2>. QED  BY <1>1, <2>1 DEF NUL
<1>6. Ends(bytes, e)
  <2>. HIDE DEF e
  <2>. QED  BY <1>1, <1>3, <1>4, <1>5 DEF Ends
<1>. HIDE DEF e
<1>7. /\ string \in Seq(Nat) /\ Len(string) = e - 1
      /\ \A j \in 1 .. e - 1 : string[j] = bytes[j]
  BY <1>1, <1>3, <1>6, StringIs
<1>. HIDE DEF string
<1>8. /\ t \in Seq(Nat) /\ Len(t) = (e - 1) + 2
      /\ \A j \in 1 .. (e - 1) + 2 : t[j] = IF j <= e - 1 THEN string[j] ELSE tail[j - (e - 1)]
  <2>1. /\ t \in Seq(Nat) /\ Len(t) = Len(string) + Len(tail)
        /\ \A j \in 1 .. Len(string) + Len(tail) :
              t[j] = IF j <= Len(string) THEN string[j] ELSE tail[j - Len(string)]
    BY <1>2, <1>7, ConcatProperties
  <2>. HIDE DEF t
  <2>. QED  BY <1>2, <1>7, <2>1
<1>. HIDE DEF t
<1>9. \A j \in 1 .. L : t[j] = topic[j]
  <2>1. \A j \in 1 .. L : j \in 1 .. e - 1 /\ j \in 1 .. (e - 1) + 2 /\ j <= e - 1
    BY <1>1, <1>3
  <2>. QED  BY <1>1, <1>7, <1>8, <2>1
<1>10. ASSUME L < TopicLen
       PROVE  Len(t) = L + 2 /\ t[L + 1] = SPACE /\ t[L + 2] = DIGIT(sf)
  <2>1. /\ e - 1 = L /\ (e - 1) + 2 = L + 2
        /\ L + 1 \in 1 .. L + 2 /\ ~(L + 1 <= L) /\ (L + 1) - L = 1
        /\ L + 2 \in 1 .. L + 2 /\ ~(L + 2 <= L) /\ (L + 2) - L = 2
    BY <1>1, <1>3, <1>10
  <2>. QED  BY <1>2, <1>8, <2>1
<1>11. Len(t) >= L + 2
  BY <1>1, <1>3, <1>8
<1>. QED  BY <1>8, <1>9, <1>10, <1>11 DEF t, string, tail, bytes, L, CommandText

LEMMA PayloadIs ==
  ASSUME NEW topic \in Topics, NEW sf \in 0 .. 1
  PROVE  LET payload == client_set_payload(topic, sf)
             L == Len(topic)
         IN  /\ payload \in Seq(Nat) /\ Len(payload) = CTOS_MAXLEN
             /\ L \in Nat /\ L <= TopicLen
             /\ \A j \in 1 .. L : payload[j] = topic[j] /\ topic[j] \in Nat \ {NUL, SPACE}
             /\ L < TopicLen =>
                  /\ payload[L + 1] = SPACE /\ payload[L + 2] = DIGIT(sf)
                  /\ \A j \in L + 3 .. CTOS_MAXLEN : payload[j] = NUL
<1>. DEFINE L == Len(topic)
            t == CommandText(topic, sf)
            payload == [i \in 1 .. CTOS_MAXLEN |-> IF i <= Len(t) THEN t[i] ELSE NUL]
<1>1. /\ L \in Nat /\ L <= TopicLen /\ TopicLen \in Nat /\ CTOS_MAXLEN = TopicLen + 2
      /\ \A j \in 1 .. L : topic[j] \in Nat \ {NUL, SPACE}
  BY CommandIs, Sizes
<1>2. /\ t \in Seq(Nat) /\ Len(t) \in Nat /\ Len(t) >= L + 2
      /\ \A j \in 1 .. L : t[j] = topic[j]
      /\ L < TopicLen => Len(t) = L + 2 /\ t[L + 1] = SPACE /\ t[L + 2] = DIGIT(sf)
  BY CommandTextIs, LenProperties
<1>3. client_set_payload(topic, sf) = payload
  BY DEF client_set_payload
<1>. HIDE DEF t, L
<1>4. payload \in Seq(Nat) /\ Len(payload) = CTOS_MAXLEN
  <2>1. \A i \in 1 .. CTOS_MAXLEN : i <= Len(t) => t[i] \in Nat
    <3>1. \A i \in 1 .. CTOS_MAXLEN : i <= Len(t) => i \in 1 .. Len(t)
      BY <1>1, <1>2
    <3>. QED  BY <1>2, <3>1, ElementOfSeq
  <2>2. payload \in [1 .. CTOS_MAXLEN -> Nat]
    BY <2>1 DEF NUL
  <2>. QED  BY <1>1, <2>2, Buffer
<1>5. ASSUME NEW j \in 1 .. CTOS_MAXLEN
      PROVE  payload[j] = IF j <= Len(t) THEN t[j] ELSE NUL
  OBVIOUS
<1>. HIDE DEF payload
<1>6. \A j \in 1 .. L : payload[j] = topic[j]
  <2>1. \A j \in 1 .. L : j \in 1 .. CTOS_MAXLEN /\ j <= Len(t)
    BY <1>1, <1>2
  <2>. QED  BY <1>2, <1>5, <2>1
<1>7. ASSUME L < TopicLen
      PROVE  /\ payload[L + 1] = SPACE /\ payload[L + 2] = DIGIT(sf)
             /\ \A j \in L + 3 .. CTOS_MAXLEN : payload[j] = NUL
  <2>1. /\ L + 1 \in 1 .. CTOS_MAXLEN /\ L + 1 <= Len(t)
        /\ L + 2 \in 1 .. CTOS_MAXLEN /\ L + 2 <= Len(t)
        /\ \A j \in L + 3 .. CTOS_MAXLEN : j \in 1 .. CTOS_MAXLEN /\ ~(j <= Len(t))
    BY <1>1, <1>2, <1>7
  <2>. QED  BY <1>2, <1>5, <1>7, <2>1
<1>. QED  BY <1>1, <1>3, <1>4, <1>6, <1>7 DEF L

\* What the server reads of a command: the flag is missing when the topic
\* leaves only one byte of its field, and the space when it leaves none.
LEMMA CommandArrives ==
  ASSUME NEW topic \in Topics, NEW sf \in 0 .. 1,
         packet = sent_packet(Command(topic, sf))
  PROVE  LET text == String(SubSeq(received, 2, TCP_ctos_msg), 1)
             L == Len(topic)
         IN  /\ text \in Seq(Nat) /\ L \in Nat /\ L <= TopicLen
             /\ Len(text) = IF L <= TopicLen - 2 THEN L + 2 ELSE TopicLen
             /\ \A j \in 1 .. L : text[j] = topic[j] /\ text[j] # SPACE
             /\ L < TopicLen => text[L + 1] = SPACE
             /\ L <= TopicLen - 2 => text[L + 2] = DIGIT(sf)
<1>. DEFINE payload == client_set_payload(topic, sf)
            L == Len(topic)
            bytes == <<1>> \o payload
            m == SubSeq(received, 2, TCP_ctos_msg)
            e == IF L <= TopicLen - 2 THEN L + 3 ELSE TopicLen + 1
<1>1. /\ payload \in Seq(Nat) /\ Len(payload) = CTOS_MAXLEN
      /\ L \in Nat /\ L <= TopicLen
      /\ \A j \in 1 .. L : payload[j] = topic[j] /\ topic[j] \in Nat \ {NUL, SPACE}
      /\ L < TopicLen =>
           /\ payload[L + 1] = SPACE /\ payload[L + 2] = DIGIT(sf)
           /\ \A j \in L + 3 .. CTOS_MAXLEN : payload[j] = NUL
  BY PayloadIs
<1>. HIDE DEF payload, L
<1>2. /\ TopicLen \in Nat \ {0} /\ CTOS_MAXLEN = TopicLen + 2 /\ TCP_ctos_msg = TopicLen + 3
  BY Sizes
<1>3. /\ bytes \in Seq(Nat) /\ Len(bytes) = TCP_ctos_msg
      /\ \A j \in 1 .. CTOS_MAXLEN : bytes[j + 1] = payload[j]
  <2>1. <<1>> \in Seq(Nat) /\ Len(<<1>>) = 1
    OBVIOUS
  <2>2. /\ bytes \in Seq(Nat) /\ Len(bytes) = 1 + CTOS_MAXLEN
        /\ \A j \in 1 .. 1 + CTOS_MAXLEN : bytes[j] = IF j <= 1 THEN <<1>>[j] ELSE payload[j - 1]
    BY <1>1, <2>1, ConcatProperties
  <2>3. \A j \in 1 .. CTOS_MAXLEN : j + 1 \in 1 .. 1 + CTOS_MAXLEN /\ ~(j + 1 <= 1) /\ (j + 1) - 1 = j
    BY <1>2
  <2>. HIDE DEF bytes
  <2>4. Len(bytes) = TCP_ctos_msg
    BY <1>2, <2>2
  <2>. QED  BY <2>2, <2>3, <2>4
<1>4. packet = sent_packet(bytes)
  BY DEF payload, Command
<1>. HIDE DEF bytes
<1>5. /\ m \in Seq(Nat) /\ Len(m) = TCP_ctos_msg - 1
      /\ \A j \in 1 .. TCP_ctos_msg - 1 : m[j] = IF j <= TCP_ctos_msg - 3 THEN bytes[j + 1] ELSE NUL
  BY <1>3, <1>4, Arrives
<1>. HIDE DEF m
<1>6. ASSUME NEW j \in 1 .. TopicLen + 2
      PROVE  m[j] = IF j <= TopicLen THEN payload[j] ELSE NUL
  <2>1. /\ j \in 1 .. TCP_ctos_msg - 1 /\ (j <= TCP_ctos_msg - 3 <=> j <= TopicLen)
        /\ j \in 1 .. CTOS_MAXLEN
    BY <1>2
  <2>. QED  BY <1>3, <1>5, <2>1
<1>7. \A j \in 1 .. L : m[j] = topic[j] /\ m[j] # NUL /\ m[j] # SPACE
  <2>1. \A j \in 1 .. L : j \in 1 .. TopicLen + 2 /\ j <= TopicLen
    BY <1>1, <1>2
  <2>. QED  BY <1>1, <1>6, <2>1
<1>8. L < TopicLen => m[L + 1] = SPACE
  <2>1. L < TopicLen => L + 1 \in 1 .. TopicLen + 2 /\ L + 1 <= TopicLen
    BY <1>1, <1>2
  <2>. QED  BY <1>1, <1>6, <2>1
<1>9. L <= TopicLen - 2 => m[L + 2] = DIGIT(sf)
  <2>1. L <= TopicLen - 2 => L + 2 \in 1 .. TopicLen + 2 /\ L + 2 <= TopicLen /\ L < TopicLen
    BY <1>1, <1>2
  <2>. QED  BY <1>1, <1>6, <2>1
<1>10. e \in Nat /\ e \in 1 .. Len(m) + 1 /\ m[e] = NUL
  <2>1. e \in Nat /\ e \in 1 .. Len(m) + 1 /\ e \in 1 .. TopicLen + 2
    BY <1>1, <1>2, <1>5
  <2>2. CASE L <= TopicLen - 2
    <3>1. e \in L + 3 .. CTOS_MAXLEN /\ e = L + 3 /\ L < TopicLen
      BY <1>1, <1>2, <2>2
    <3>2. payload[e] = NUL
      BY <1>1, <3>1
    <3>. QED  BY <1>6, <2>1, <3>2
  <2>3. CASE ~(L <= TopicLen - 2)
    <3>1. ~(e <= TopicLen)
      BY <1>1, <1>2, <2>3
    <3>. QED  BY <1>6, <2>1, <3>1
  <2>. QED  BY <2>1, <2>2, <2>3
<1>11. ASSUME NEW j \in 1 .. e - 1 PROVE m[j] # NUL
  <2>1. j \in 1 .. L \/ (j = L + 1 /\ L < TopicLen) \/ (j = L + 2 /\ L <= TopicLen - 2)
    BY <1>1, <1>2
  <2>2. SPACE # NUL /\ DIGIT(sf) # NUL
    BY DEF SPACE, NUL, DIGIT
  <2>. QED  BY <1>7, <1>8, <1>9, <2>1, <2>2
<1>12. Ends(m, e)
  <2>. HIDE DEF e
  <2>. QED  BY <1>10, <1>11 DEF Ends
<1>. DEFINE text == String(m, 1)
<1>13. text \in Seq(Nat) /\ Len(text) = e - 1 /\ \A i \in 1 .. e - 1 : text[i] = m[i]
  BY <1>5, <1>10, <1>12, StringIs
<1>. HIDE DEF text
<1>14. /\ e - 1 = IF L <= TopicLen - 2 THEN L + 2 ELSE TopicLen
       /\ \A j \in 1 .. L : j \in 1 .. e - 1
       /\ L < TopicLen => L + 1 \in 1 .. e - 1
       /\ L <= TopicLen - 2 => L + 2 \in 1 .. e - 1
  BY <1>1, <1>2
<1>. HIDE DEF e
<1>15. /\ text \in Seq(Nat) /\ L \in Nat /\ L <= TopicLen
       /\ Len(text) = IF L <= TopicLen - 2 THEN L + 2 ELSE TopicLen
       /\ \A j \in 1 .. L : text[j] = topic[j] /\ text[j] # SPACE
       /\ L < TopicLen => text[L + 1] = SPACE
       /\ L <= TopicLen - 2 => text[L + 2] = DIGIT(sf)
  BY <1>1, <1>7, <1>8, <1>9, <1>13, <1>14
<1>. QED  BY <1>15 DEF text, L, m

\* What strcpy leaves in a buffer.
LEMMA CopyIs ==
  ASSUME NEW bytes \in Seq(Nat), NEW first \in Nat, NEW string \in Seq(Nat), first # 0
  PROVE  /\ strcpy(bytes, first, string) \in Seq(Nat)
         /\ Len(strcpy(bytes, first, string)) = Len(bytes)
         /\ \A i \in 1 .. Len(bytes) :
              strcpy(bytes, first, string)[i] =
                IF i < first THEN bytes[i]
                ELSE IF i < first + Len(string) THEN string[i - first + 1]
                ELSE IF i = first + Len(string) THEN NUL ELSE bytes[i]
<1>. DEFINE copy == strcpy(bytes, first, string)
            n == Len(bytes)
            k == Len(string)
            past == first + k
            Byte(i) == IF i < first THEN bytes[i]
                       ELSE IF i < past THEN string[i - first + 1]
                       ELSE IF i = past THEN NUL ELSE bytes[i]
<1>1. k \in Nat /\ past \in Nat /\ first <= past /\ n \in Nat
  BY LenProperties
<1>2. copy = [i \in 1 .. n |->
                CASE i \in first .. past - 1 -> string[i - first + 1]
                  [] i = past -> NUL
                  [] OTHER -> bytes[i]]
  BY DEF strcpy
<1>. HIDE DEF k, n, copy
<1>3. \A i \in 1 .. n : /\ i \in first .. past - 1 <=> ~(i < first) /\ i < past
                       /\ i = past => ~(i \in first .. past - 1) /\ ~(i < first)
  BY <1>1
<1>. HIDE DEF past
<1>4. ASSUME NEW i \in 1 .. n PROVE copy[i] = Byte(i)
  <2>1. copy[i] = CASE i \in first .. past - 1 -> string[i - first + 1]
                    [] i = past -> NUL
                    [] OTHER -> bytes[i]
    BY <1>2
  <2>. QED  BY <1>1, <1>3, <2>1
<1>5. ASSUME NEW i \in 1 .. n PROVE Byte(i) \in Nat
  <2>1. bytes[i] \in Nat /\ NUL \in Nat
    BY ElementOfSeq DEF n, NUL
  <2>2. ~(i < first) /\ i < past => string[i - first + 1] \in Nat
    <3>1. \A j \in 1 .. k : string[j] \in Nat
      BY ElementOfSeq DEF k
    <3>2. ~(i < first) /\ i < past => i - first + 1 \in 1 .. k
      BY <1>1 DEF past
    <3>. QED  BY <3>1, <3>2
  <2>. QED  BY <2>1, <2>2
<1>6. copy \in [1 .. n -> Nat]
  <2>1. copy = [i \in 1 .. n |-> Byte(i)]
    BY <1>2, <1>4
  <2>. HIDE DEF Byte
  <2>. QED  BY <1>5, <2>1
<1>7. copy \in Seq(Nat) /\ Len(copy) = n
  BY <1>1, <1>6, Buffer
<1>. QED  BY <1>4, <1>7 DEF copy, n, k, past

\* The topic of a node ends at its NUL, or where the id does if it fills its field.
LEMMA NodeIs ==
  ASSUME NEW topic \in Topics
  PROVE  subscription_node_create(topic) =
            IF Len(topic) < TopicLen THEN topic ELSE topic \o SubscriberId
<1>. DEFINE L == Len(topic)
            id == SubscriberId
            K == Len(id)
            n == TopicLen + K + 1
            garbage == [i \in 1 .. n |-> LETTER]
            one == strcpy(garbage, 1, topic)
            node == strcpy(one, TopicLen + 1, id)
            string == String(node, 1)
<1>1. /\ topic \in Seq(Nat) /\ L \in Nat /\ L <= TopicLen /\ TopicLen \in Nat
      /\ \A j \in 1 .. L : topic[j] \in Nat \ {NUL}
  <2>1. 0 \in 0 .. 1
    OBVIOUS
  <2>2. L \in Nat /\ L <= TopicLen /\ \A j \in 1 .. L : topic[j] \in Nat \ {NUL}
    BY <2>1, CommandIs
  <2>3. topic \in Seq(Nat \ {NUL, SPACE})
    BY TopicsAssumption
  <2>. QED  BY <2>2, <2>3, SeqMonotonic, Sizes
<1>2. /\ id \in Seq(Nat) /\ K \in Nat
      /\ \A j \in 1 .. K : id[j] \in Nat \ {NUL}
  <2>1. id \in Seq(Nat \ {NUL})
    BY TopicsAssumption
  <2>. QED  BY <2>1, SeqMonotonic, LenProperties, ElementOfSeq
<1>. HIDE DEF id, K, L
<1>3. n \in Nat
  BY <1>1, <1>2
<1>4. garbage \in Seq(Nat) /\ Len(garbage) = n
  <2>1. garbage \in [1 .. n -> Nat]
    BY DEF LETTER
  <2>. HIDE DEF garbage, n
  <2>. QED  BY <1>3, <2>1, Buffer
<1>5. subscription_node_create(topic) = string
  BY DEF subscription_node_create, id, K
<1>. HIDE DEF garbage
<1>6. /\ one \in Seq(Nat) /\ Len(one) = n
      /\ \A i \in 1 .. n : i < 1 + L => one[i] = topic[i - 1 + 1]
      /\ 1 + L <= n => one[1 + L] = NUL
  <2>1. /\ one \in Seq(Nat) /\ Len(one) = n
        /\ \A i \in 1 .. n :
              one[i] = IF i < 1 THEN garbage[i]
                       ELSE IF i < 1 + L THEN topic[i - 1 + 1]
                       ELSE IF i = 1 + L THEN NUL ELSE garbage[i]
    BY <1>1, <1>4, CopyIs DEF L, one
  <2>2. \A i \in 1 .. n : ~(i < 1)
    BY <1>3
  <2>3. /\ ~(1 + L < 1) /\ ~(1 + L < 1 + L)
        /\ 1 + L <= n => 1 + L \in 1 .. n
    BY <1>1, <1>3
  <2>. HIDE DEF n, one
  <2>. QED  BY <2>1, <2>2, <2>3
<1>. HIDE DEF one
<1>7. /\ node \in Seq(Nat) /\ Len(node) = n
      /\ \A i \in 1 .. n : i < TopicLen + 1 => node[i] = one[i]
      /\ \A i \in 1 .. n : TopicLen + 1 <= i /\ i < TopicLen + 1 + K => node[i] = id[i - (TopicLen + 1) + 1]
      /\ TopicLen + 1 + K <= n => node[TopicLen + 1 + K] = NUL
  <2>. DEFINE first == TopicLen + 1
  <2>1. first \in Nat /\ first # 0 /\ TopicLen \in Nat
    BY <1>1
  <2>. HIDE DEF first, n
  <2>2. /\ node \in Seq(Nat) /\ Len(node) = n
        /\ \A i \in 1 .. n :
              node[i] = IF i < first THEN one[i]
                        ELSE IF i < first + K THEN id[i - first + 1]
                        ELSE IF i = first + K THEN NUL ELSE one[i]
    <3>1. node = strcpy(one, first, id)
      BY DEF first
    <3>2. one \in Seq(Nat) /\ id \in Seq(Nat) /\ Len(one) = n
      BY <1>2, <1>6
    <3>. HIDE DEF node
    <3>. QED  BY <2>1, <3>1, <3>2, CopyIs DEF K
  <2>. HIDE DEF node
  <2>3. \A i \in 1 .. n : first <= i => ~(i < first)
    BY <1>3, <2>1
  <2>4. /\ ~(first + K < first) /\ ~(first + K < first + K)
        /\ first + K <= n => first + K \in 1 .. n
    BY <1>2, <1>3, <2>1
  <2>5. /\ \A i \in 1 .. n : i < first => node[i] = one[i]
        /\ \A i \in 1 .. n : first <= i /\ i < first + K => node[i] = id[i - first + 1]
        /\ first + K <= n => node[first + K] = NUL
    BY <2>2, <2>3, <2>4
  <2>. QED  BY <2>2, <2>5 DEF first
<1>. HIDE DEF node
<1>8. \A j \in 1 .. L : node[j] = topic[j]
  <2>1. \A j \in 1 .. L : /\ j \in 1 .. n /\ j < TopicLen + 1 /\ 1 <= j /\ j < 1 + L
                          /\ j - 1 + 1 = j
    BY <1>1, <1>2
  <2>. HIDE DEF n
  <2>. QED  BY <1>6, <1>7, <2>1
<1>9. CASE L < TopicLen
  <2>1. /\ 1 + L = L + 1 /\ L + 1 \in 1 .. n /\ 1 + L <= n /\ L + 1 < TopicLen + 1
        /\ L + 1 \in Nat /\ L + 1 \in 1 .. n + 1 /\ (L + 1) - 1 = L
    BY <1>1, <1>2, <1>9
  <2>. HIDE DEF n
  <2>2. node[L + 1] = NUL
    BY <1>6, <1>7, <2>1
  <2>3. Ends(node, L + 1)
    BY <1>1, <1>7, <1>8, <2>1, <2>2 DEF Ends
  <2>4. /\ string \in Seq(Nat) /\ Len(string) = (L + 1) - 1
        /\ \A i \in 1 .. (L + 1) - 1 : string[i] = node[i]
    BY <1>7, <2>1, <2>3, StringIs
  <2>. HIDE DEF string
  <2>5. string = topic
    BY <1>1, <1>8, <2>1, <2>4, SeqEqual DEF L
  <2>. QED  BY <1>5, <1>9, <2>5 DEF L
<1>10. CASE L = TopicLen
  <2>. DEFINE both == topic \o id
  <2>1. /\ both \in Seq(Nat) /\ Len(both) = L + K
        /\ \A j \in 1 .. L + K : both[j] = IF j <= L THEN topic[j] ELSE id[j - L]
    BY <1>1, <1>2, ConcatProperties DEF L, K
  <2>. HIDE DEF both
  <2>2. ASSUME NEW j \in 1 .. L + K
        PROVE  node[j] = both[j] /\ both[j] # NUL
    <3>1. CASE j <= L
      <4>1. j \in 1 .. L
        BY <1>1, <3>1
      <4>. QED  BY <1>1, <1>8, <2>1, <3>1, <4>1
    <3>2. CASE ~(j <= L)
      <4>1. /\ j \in 1 .. n /\ TopicLen + 1 <= j /\ j < TopicLen + 1 + K
            /\ j - (TopicLen + 1) + 1 = j - L /\ j - L \in 1 .. K
        BY <1>1, <1>2, <1>10, <3>2
      <4>. HIDE DEF n
      <4>2. node[j] = id[j - L]
        BY <1>7, <4>1
      <4>. QED  BY <1>2, <2>1, <3>2, <4>1, <4>2
    <3>. QED  BY <3>1, <3>2
  <2>3. /\ TopicLen + 1 + K = L + K + 1 /\ TopicLen + 1 + K <= n /\ L + K + 1 \in Nat
        /\ L + K + 1 \in 1 .. n + 1 /\ (L + K + 1) - 1 = L + K
    BY <1>1, <1>2, <1>10
  <2>. HIDE DEF n
  <2>4. Ends(node, L + K + 1)
    BY <1>7, <2>2, <2>3 DEF Ends
  <2>5. /\ string \in Seq(Nat) /\ Len(string) = (L + K + 1) - 1
        /\ \A i \in 1 .. (L + K + 1) - 1 : string[i] = node[i]
    BY <1>7, <2>3, <2>4, StringIs
  <2>. HIDE DEF string
  <2>6. string = both
    <3>1. Len(string) = Len(both)
      BY <2>1, <2>3, <2>5
    <3>2. \A i \in 1 .. Len(both) : string[i] = both[i]
      BY <2>1, <2>2, <2>3, <2>5
    <3>. QED  BY <2>1, <2>5, <3>1, <3>2, SeqEqual
  <2>7. string = topic \o SubscriberId
    BY <2>6 DEF both, id
  <2>8. ~(Len(topic) < TopicLen)
    BY <1>1, <1>10 DEF L
  <2>. QED  BY <1>5, <2>7, <2>8
<1>. QED  BY <1>1, <1>9, <1>10

LEMMA SubscribeCorrect ==
  ASSUME NEW topic \in Topics, NEW sf \in 0 .. 1, input = [topic |-> topic, sf |-> sf],
         packet = sent_packet(Command(topic, sf)), TCP_server_get_sub_args
  PROVE  SubscribesAsTyped'
<1>. DEFINE text == String(SubSeq(received, 2, TCP_ctos_msg), 1)
            L == Len(topic)
            n == Len(text)
            S == {i \in 1 .. n : text[i] = SPACE} \cup {n + 1}
            k == Min(S)
<1>1. /\ text \in Seq(Nat) /\ L \in Nat
      /\ L <= TopicLen /\ n = IF L <= TopicLen - 2 THEN L + 2 ELSE TopicLen
      /\ \A j \in 1 .. L : text[j] = topic[j] /\ text[j] # SPACE
      /\ L < TopicLen => text[L + 1] = SPACE
      /\ L <= TopicLen - 2 => text[L + 2] = DIGIT(sf)
  BY CommandArrives
<1>2. topic \in Seq(Nat) /\ TopicLen \in Nat
  <2>1. topic \in Seq(Nat \ {NUL, SPACE})
    BY TopicsAssumption
  <2>. QED  BY <2>1, SeqMonotonic, Sizes
<1>3. PICK flag \in 0 .. 2 :
        /\ k < n => text[k + 1] = DIGIT(flag)
        /\ output' = [topic |-> subscription_node_create(SubSeq(text, 1, k - 1)), sf |-> flag]
  BY DEF TCP_server_get_sub_args
<1>4. UNCHANGED input
  BY DEF TCP_server_get_sub_args
<1>. HIDE DEF text
<1>5. n \in Nat /\ L <= n /\ L + 1 \in 1 .. n + 1 /\ (L < TopicLen => L + 1 \in 1 .. n)
      /\ (L = TopicLen => L + 1 = n + 1)
  BY <1>1, <1>2
<1>6. k = L + 1
  <2>. HIDE DEF n
  <2>1. /\ S \in SUBSET Nat /\ L + 1 \in S
        /\ \A i \in S : ~(i < L + 1)
    <3>1. \A i \in 1 .. n : i < L + 1 => i \in 1 .. L
      BY <1>1, <1>5
    <3>2. L + 1 \in S
      BY <1>1, <1>2, <1>5
    <3>3. \A i \in S : ~(i < L + 1)
      BY <1>1, <1>5, <3>1
    <3>4. S \in SUBSET Nat
      BY <1>5
    <3>. QED  BY <3>2, <3>3, <3>4
  <2>. HIDE DEF S
  <2>2. k \in S /\ k <= L + 1
    BY <2>1, FirstExists
  <2>. HIDE DEF k
  <2>3. k \in Nat /\ ~(k < L + 1)
    BY <2>1, <2>2
  <2>. QED  BY <1>1, <2>2, <2>3
<1>. HIDE DEF k, S
<1>7. SubSeq(text, 1, k - 1) = topic
  <2>1. k - 1 = L /\ 1 <= L + 1 /\ L <= n /\ L - 1 + 1 = L
    BY <1>1, <1>5, <1>6
  <2>2. /\ SubSeq(text, 1, L) \in Seq(Nat) /\ Len(SubSeq(text, 1, L)) = L - 1 + 1
        /\ \A j \in 1 .. L - 1 + 1 : SubSeq(text, 1, L)[j] = text[1 + j - 1]
    BY <1>1, <2>1, Slice
  <2>3. \A j \in 1 .. L : 1 + j - 1 = j
    BY <1>1
  <2>4. /\ Len(SubSeq(text, 1, L)) = L
        /\ \A j \in 1 .. L : SubSeq(text, 1, L)[j] = topic[j]
    BY <1>1, <2>1, <2>2, <2>3
  <2>. QED  BY <1>2, <2>1, <2>2, <2>4, SeqEqual
<1>8. L <= TopicLen - 2 => flag = sf
  <2>1. SUFFICES ASSUME L <= TopicLen - 2 PROVE flag = sf
    OBVIOUS
  <2>2. k < n /\ k + 1 = L + 2
    BY <1>1, <1>6, <2>1
  <2>3. DIGIT(flag) = DIGIT(sf)
    BY <1>1, <1>3, <2>1, <2>2
  <2>. QED  BY <2>3 DEF DIGIT
<1>9. subscription_node_create(topic) = IF L < TopicLen THEN topic ELSE topic \o SubscriberId
  BY NodeIs
<1>. QED  BY <1>3, <1>4, <1>7, <1>8, <1>9 DEF SubscribesAsTyped

-----------------------------------------------------------------------------
(* The datagram.                                                           *)

\* The buffers hold the datagram as far as it goes.
Holds(buffer, datagram) ==
    /\ buffer \in [1 .. UDP_msg -> Nat]
    /\ \A i \in 1 .. Len(datagram) : i <= UDP_msg => buffer[i] = datagram[i]

\* The message a subscriber takes from the packet.
message == SubSeq(received, 2, TCP_stoc_msg)

LEMMA DatagramArrives ==
  ASSUME NEW datagram \in Datagrams, Holds(msg, datagram),
         packet = sent_packet(server_compose_msg)
  PROVE  /\ message \in Seq(Nat) /\ Len(message) = UDP_msg
         /\ \A j \in 1 .. Len(datagram) : j <= UDP_msg - 2 => message[j] = datagram[j]
         /\ \A j \in 1 .. UDP_msg : j > UDP_msg - 2 => message[j] = NUL
<1>. DEFINE bytes == <<LETTER>> \o msg
<1>1. UDP_msg \in Nat /\ TCP_stoc_msg = UDP_msg + 1
  BY Sizes
<1>2. /\ msg \in Seq(Nat) /\ Len(msg) = UDP_msg
      /\ \A i \in 1 .. Len(datagram) : i <= UDP_msg => msg[i] = datagram[i]
  BY <1>1, Buffer DEF Holds
<1>3. /\ bytes \in Seq(Nat) /\ Len(bytes) = TCP_stoc_msg
      /\ \A j \in 1 .. UDP_msg : bytes[j + 1] = msg[j]
  <2>1. <<LETTER>> \in Seq(Nat) /\ Len(<<LETTER>>) = 1
    BY DEF LETTER
  <2>2. /\ bytes \in Seq(Nat) /\ Len(bytes) = 1 + UDP_msg
        /\ \A j \in 1 .. 1 + UDP_msg : bytes[j] = IF j <= 1 THEN <<LETTER>>[j] ELSE msg[j - 1]
    BY <1>2, <2>1, ConcatProperties
  <2>3. \A j \in 1 .. UDP_msg : j + 1 \in 1 .. 1 + UDP_msg /\ ~(j + 1 <= 1) /\ (j + 1) - 1 = j
    BY <1>1
  <2>. HIDE DEF bytes
  <2>4. Len(bytes) = TCP_stoc_msg
    BY <1>1, <2>2
  <2>. QED  BY <2>2, <2>3, <2>4
<1>4. packet = sent_packet(bytes)
  BY DEF server_compose_msg
<1>. HIDE DEF bytes
<1>5. /\ message \in Seq(Nat) /\ Len(message) = TCP_stoc_msg - 1
      /\ \A j \in 1 .. TCP_stoc_msg - 1 :
            message[j] = IF j <= TCP_stoc_msg - 3 THEN bytes[j + 1] ELSE NUL
  BY <1>3, <1>4, Arrives DEF message
<1>6. ASSUME NEW j \in 1 .. UDP_msg
      PROVE  message[j] = IF j <= UDP_msg - 2 THEN msg[j] ELSE NUL
  <2>1. /\ j \in 1 .. TCP_stoc_msg - 1 /\ (j <= TCP_stoc_msg - 3 <=> j <= UDP_msg - 2)
    BY <1>1
  <2>. QED  BY <1>3, <1>5, <2>1
<1>7. Len(message) = UDP_msg
  BY <1>1, <1>5
<1>8. ASSUME NEW j \in 1 .. Len(datagram), j <= UDP_msg - 2 PROVE message[j] = datagram[j]
  <2>1. j \in 1 .. UDP_msg /\ j <= UDP_msg
    BY <1>1, <1>8
  <2>. QED  BY <1>2, <1>6, <1>8, <2>1
<1>9. ASSUME NEW j \in 1 .. UDP_msg, j > UDP_msg - 2 PROVE message[j] = NUL
  <2>1. ~(j <= UDP_msg - 2)
    BY <1>1, <1>9
  <2>. QED  BY <1>6, <2>1
<1>. QED  BY <1>5, <1>7, <1>8, <1>9

\* The field of the topic and the type of a datagram.
LEMMA FieldIs ==
  ASSUME NEW datagram \in Datagrams
  PROVE  LET field == SubSeq(datagram, 1, TopicLen)
         IN  /\ datagram \in Seq(Nat) /\ Len(datagram) \in Nat /\ TopicLen < Len(datagram)
             /\ field \in Seq(Nat) /\ Len(field) = TopicLen
             /\ \A i \in 1 .. TopicLen : field[i] = datagram[i]
             /\ Type(datagram) = datagram[TopicLen + 1] /\ Type(datagram) \in Nat
<1>1. datagram \in Seq(Nat) /\ TopicLen < Len(datagram) /\ Len(datagram) \in Nat
  BY DatagramsAssumption, LenProperties
<1>2. TopicLen \in Nat /\ 1 <= TopicLen + 1 /\ TopicLen - 1 + 1 = TopicLen
  BY Sizes
<1>. DEFINE field == SubSeq(datagram, 1, TopicLen)
<1>3. /\ field \in Seq(Nat) /\ Len(field) = TopicLen - 1 + 1
      /\ \A j \in 1 .. TopicLen - 1 + 1 : field[j] = datagram[1 + j - 1]
  <2>1. TopicLen <= Len(datagram)
    BY <1>1, <1>2
  <2>. QED  BY <1>1, <1>2, <2>1, Slice
<1>4. \A j \in 1 .. TopicLen : 1 + j - 1 = j
  BY <1>2
<1>5. Type(datagram) = datagram[TopicLen + 1] /\ Type(datagram) \in Nat
  <2>1. TopicLen + 1 \in 1 .. Len(datagram)
    BY <1>1, <1>2
  <2>. QED  BY <1>1, <2>1, ElementOfSeq DEF Type
<1>. HIDE DEF field
<1>6. /\ Len(field) = TopicLen
      /\ \A i \in 1 .. TopicLen : field[i] = datagram[i]
  BY <1>2, <1>3, <1>4
<1>. QED  BY <1>1, <1>3, <1>5, <1>6 DEF field

LEMMA TopicCorrect ==
  ASSUME NEW datagram \in Datagrams, Holds(msg, datagram), input = datagram,
         packet = sent_packet(server_compose_msg), TCP_client_print_subscription_message
  PROVE  TopicAsSent'
<1>. DEFINE field == SubSeq(datagram, 1, TopicLen)
<1>1. /\ message \in Seq(Nat) /\ Len(message) = UDP_msg
      /\ \A j \in 1 .. Len(datagram) : j <= UDP_msg - 2 => message[j] = datagram[j]
  BY DatagramArrives
<1>2. /\ datagram \in Seq(Nat) /\ Len(datagram) \in Nat /\ TopicLen < Len(datagram)
      /\ field \in Seq(Nat) /\ Len(field) = TopicLen
      /\ \A i \in 1 .. TopicLen : field[i] = datagram[i]
      /\ Type(datagram) = datagram[TopicLen + 1] /\ Type(datagram) \in Nat
  BY FieldIs
<1>3. TopicLen \in Nat /\ UDP_msg \in Nat /\ TopicLen + 1 <= UDP_msg - 2
  BY Sizes
<1>4. output'.topic = String(message, 1) /\ UNCHANGED input
  BY DEF TCP_client_print_subscription_message, message
<1>5. Topic(datagram) = String(field, 1)
  BY DEF Topic
<1>. HIDE DEF field
<1>6. \A j \in 1 .. TopicLen + 1 : message[j] = datagram[j]
  <2>1. \A j \in 1 .. TopicLen + 1 : j \in 1 .. Len(datagram) /\ j <= UDP_msg - 2
    BY <1>2, <1>3
  <2>. QED  BY <1>1, <2>1
<1>7. ASSUME Len(Topic(datagram)) < TopicLen \/ Type(datagram) = 0
      PROVE  String(message, 1) = Topic(datagram)
  <2>1. PICK e \in Nat : Ends(field, e)
    BY <1>2, SomeEnd
  <2>2. e \in 1 .. TopicLen + 1
    BY <1>2, <2>1 DEF Ends
  <2>3. Len(Topic(datagram)) = e - 1
    BY <1>2, <1>5, <2>1, StringIs
  <2>4. \A i \in 1 .. e - 1 : i \in 1 .. TopicLen /\ i \in 1 .. TopicLen + 1
    BY <1>3, <2>2
  <2>5. \A i \in 1 .. e - 1 : message[i] = field[i] /\ field[i] # NUL
    BY <1>2, <1>6, <2>1, <2>4 DEF Ends
  <2>6. message[e] = NUL
    <3>1. CASE e <= TopicLen
      <4>1. e \in 1 .. TopicLen /\ e \in 1 .. TopicLen + 1 /\ field[e] = NUL
        BY <1>2, <1>3, <2>1, <2>2, <3>1 DEF Ends
      <4>. QED  BY <1>2, <1>6, <4>1
    <3>2. CASE ~(e <= TopicLen)
      <4>1. e = TopicLen + 1 /\ ~(e - 1 < TopicLen)
        BY <1>3, <2>2, <3>2
      <4>2. Type(datagram) = 0
        BY <1>7, <2>3, <4>1
      <4>. QED  BY <1>2, <1>6, <2>2, <4>1, <4>2 DEF NUL
    <3>. QED  BY <3>1, <3>2
  <2>7. Ends(message, e)
    <3>1. e \in 1 .. Len(message) + 1
      BY <1>1, <1>3, <2>2
    <3>. QED  BY <2>5, <2>6, <3>1 DEF Ends
  <2>8. String(message, 1) = String(field, 1)
    BY <1>1, <1>2, <2>1, <2>5, <2>7, SameString
  <2>. QED  BY <1>5, <2>8
<1>. QED  BY <1>4, <1>7 DEF TopicAsSent

\* The string of a buffer begins with that of one it agrees with up to its end.
LEMMA PrefixString ==
  ASSUME NEW a \in Seq(Nat), NEW b \in Seq(Nat), NEW e \in Nat, NEW f \in Nat,
         Ends(a, e), Ends(b, f), e <= f, \A i \in 1 .. e - 1 : a[i] = b[i]
  PROVE  IsPrefix(String(a, 1), String(b, 1))
<1>. DEFINE s == String(a, 1)
            t == String(b, 1)
            n == e - 1
<1>1. s \in Seq(Nat) /\ Len(s) = e - 1 /\ \A i \in 1 .. e - 1 : s[i] = a[i]
  BY StringIs
<1>2. t \in Seq(Nat) /\ Len(t) = f - 1 /\ \A i \in 1 .. f - 1 : t[i] = b[i]
  BY StringIs
<1>3. n \in Nat /\ n <= f - 1 /\ 1 <= n + 1 /\ n - 1 + 1 = n
  BY DEF Ends
<1>. HIDE DEF s, t
<1>4. n <= Len(s) /\ n <= Len(t)
  BY <1>1, <1>2, <1>3
<1>5. \A j \in 1 .. n : s[j] = t[j]
  <2>1. \A j \in 1 .. n : j \in 1 .. e - 1 /\ j \in 1 .. f - 1
    BY <1>3
  <2>. QED  BY <1>1, <1>2, <2>1
<1>6. Len(s) = n
  BY <1>1
<1>. HIDE DEF n
<1>7. \A j \in 1 .. n : 1 + j - 1 = j
  BY <1>3
<1>8. /\ SubSeq(s, 1, n) \in Seq(Nat) /\ Len(SubSeq(s, 1, n)) = n - 1 + 1
      /\ \A j \in 1 .. n - 1 + 1 : SubSeq(s, 1, n)[j] = s[1 + j - 1]
  BY <1>1, <1>3, <1>4, Slice
<1>9. /\ SubSeq(t, 1, n) \in Seq(Nat) /\ Len(SubSeq(t, 1, n)) = n - 1 + 1
      /\ \A j \in 1 .. n - 1 + 1 : SubSeq(t, 1, n)[j] = t[1 + j - 1]
  BY <1>2, <1>3, <1>4, Slice
<1>10. /\ Len(SubSeq(s, 1, n)) = n /\ Len(SubSeq(t, 1, n)) = n
       /\ \A j \in 1 .. n : SubSeq(s, 1, n)[j] = SubSeq(t, 1, n)[j]
  BY <1>3, <1>5, <1>7, <1>8, <1>9
<1>11. SubSeq(s, 1, n) = SubSeq(t, 1, n)
  BY <1>8, <1>9, <1>10, SeqEqual
<1>. QED  BY <1>4, <1>6, <1>11 DEF IsPrefix, s, t

\* What is kept of the content of a datagram.
Kept(datagram) ==
    SubSeq(Content(datagram), 1, Min({Len(Content(datagram)), ContentLen - 2}))

LEMMA KeptIs ==
  ASSUME NEW datagram \in Datagrams
  PROVE  LET c == Len(Content(datagram))
             n == Len(Kept(datagram))
         IN  /\ c = Len(datagram) - (TopicLen + 1) /\ c \in Nat
             /\ Kept(datagram) \in Seq(Nat) /\ n \in Nat
             /\ n <= c /\ n <= ContentLen - 2 /\ n \in {c, ContentLen - 2}
             /\ \A j \in 1 .. n : Kept(datagram)[j] = datagram[TopicLen + 1 + j]
<1>. DEFINE sent == Content(datagram)
            c == Len(sent)
            S == {c, ContentLen - 2}
            n == Min(S)
            kept == SubSeq(sent, 1, n)
            size == Len(datagram)
<1>1. /\ datagram \in Seq(Nat) /\ size \in Nat /\ TopicLen < size
      /\ TopicLen \in Nat /\ ContentLen \in Nat /\ ContentLen - 2 \in Nat
  BY FieldIs, Sizes
<1>. HIDE DEF size
<1>2. /\ sent \in Seq(Nat) /\ c = size - (TopicLen + 2) + 1
      /\ \A j \in 1 .. size - (TopicLen + 2) + 1 : sent[j] = datagram[TopicLen + 2 + j - 1]
  <2>1. TopicLen + 2 \in Nat \ {0} /\ TopicLen + 2 <= size + 1 /\ size <= Len(datagram)
    BY <1>1 DEF size
  <2>. QED  BY <1>1, <2>1, Slice DEF Content, size
<1>. HIDE DEF sent
<1>3. c \in Nat /\ c = size - (TopicLen + 1) /\ size - (TopicLen + 2) + 1 = c
  BY <1>1, <1>2
<1>. HIDE DEF c
<1>4. n \in S /\ n <= c /\ n <= ContentLen - 2 /\ n \in Nat
  <2>1. S \in SUBSET Nat /\ c \in S /\ ContentLen - 2 \in S
    BY <1>1, <1>3
  <2>. HIDE DEF S
  <2>. QED  BY <2>1, FirstExists
<1>5. n \in {c, ContentLen - 2}
  <2>. HIDE DEF n
  <2>. QED  BY <1>4
<1>. HIDE DEF n, S
<1>6. /\ kept \in Seq(Nat) /\ Len(kept) = n - 1 + 1
      /\ \A j \in 1 .. n - 1 + 1 : kept[j] = sent[1 + j - 1]
  <2>1. 1 <= n + 1 /\ n <= Len(sent)
    BY <1>4 DEF c
  <2>. QED  BY <1>2, <1>4, <2>1, Slice
<1>. HIDE DEF kept
<1>7. Len(kept) = n
  BY <1>4, <1>6
<1>8. ASSUME NEW j \in 1 .. n PROVE kept[j] = datagram[TopicLen + 1 + j]
  <2>1. /\ j \in 1 .. n - 1 + 1 /\ 1 + j - 1 = j
        /\ j \in 1 .. size - (TopicLen + 2) + 1
        /\ TopicLen + 2 + j - 1 = TopicLen + 1 + j
    BY <1>1, <1>3, <1>4
  <2>. QED  BY <1>2, <1>6, <2>1
<1>9. Kept(datagram) = kept
  BY DEF Kept, kept, n, S, c, sent
<1>. QED  BY <1>3, <1>4, <1>5, <1>6, <1>7, <1>8, <1>9 DEF c, sent, size

\* The content a subscriber reads agrees with what is kept of it, and has a NUL
\* where the last two bytes are missing.
LEMMA ContentIs ==
  ASSUME NEW datagram \in Datagrams, Holds(msg, datagram),
         packet = sent_packet(server_compose_msg)
  PROVE  LET content == SubSeq(message, TopicLen + 2, UDP_msg)
         IN  /\ content \in Seq(Nat) /\ Len(content) = ContentLen
             /\ \A j \in 1 .. Len(Kept(datagram)) : content[j] = Kept(datagram)[j]
             /\ content[ContentLen - 1] = NUL
<1>. DEFINE content == SubSeq(message, TopicLen + 2, UDP_msg)
            n == Len(Kept(datagram))
<1>1. /\ message \in Seq(Nat) /\ Len(message) = UDP_msg
      /\ \A j \in 1 .. Len(datagram) : j <= UDP_msg - 2 => message[j] = datagram[j]
      /\ \A j \in 1 .. UDP_msg : j > UDP_msg - 2 => message[j] = NUL
  BY DatagramArrives
<1>2. /\ TopicLen \in Nat /\ ContentLen \in Nat \ {0, 1} /\ UDP_msg \in Nat
      /\ UDP_msg = TopicLen + 1 + ContentLen
  BY Sizes
<1>3. /\ n \in Nat /\ n <= Len(datagram) - (TopicLen + 1) /\ n <= ContentLen - 2
      /\ \A j \in 1 .. n : Kept(datagram)[j] = datagram[TopicLen + 1 + j]
      /\ Len(datagram) \in Nat
  BY KeptIs, FieldIs
<1>. HIDE DEF n
<1>4. /\ content \in Seq(Nat) /\ Len(content) = UDP_msg - (TopicLen + 2) + 1
      /\ \A j \in 1 .. UDP_msg - (TopicLen + 2) + 1 : content[j] = message[TopicLen + 2 + j - 1]
  <2>1. TopicLen + 2 \in Nat \ {0} /\ TopicLen + 2 <= UDP_msg + 1 /\ UDP_msg <= Len(message)
    BY <1>1, <1>2
  <2>. QED  BY <1>1, <1>2, <2>1, Slice
<1>. HIDE DEF content
<1>5. ASSUME NEW j \in 1 .. ContentLen PROVE content[j] = message[TopicLen + 1 + j]
  <2>1. j \in 1 .. UDP_msg - (TopicLen + 2) + 1 /\ TopicLen + 2 + j - 1 = TopicLen + 1 + j
    BY <1>2
  <2>. QED  BY <1>4, <2>1
<1>6. Len(content) = ContentLen
  BY <1>2, <1>4
<1>7. ASSUME NEW j \in 1 .. n PROVE content[j] = Kept(datagram)[j]
  <2>1. /\ j \in 1 .. ContentLen /\ TopicLen + 1 + j \in 1 .. Len(datagram)
        /\ TopicLen + 1 + j <= UDP_msg - 2
    BY <1>2, <1>3
  <2>2. message[TopicLen + 1 + j] = datagram[TopicLen + 1 + j]
    BY <1>1, <2>1
  <2>. QED  BY <1>3, <1>5, <2>1, <2>2
<1>8. content[ContentLen - 1] = NUL
  <2>1. /\ ContentLen - 1 \in 1 .. ContentLen
        /\ TopicLen + 1 + (ContentLen - 1) \in 1 .. UDP_msg
        /\ TopicLen + 1 + (ContentLen - 1) > UDP_msg - 2
    BY <1>2
  <2>. QED  BY <1>1, <1>5, <2>1
<1>. QED  BY <1>4, <1>6, <1>7, <1>8 DEF content, n

LEMMA TextCorrect ==
  ASSUME NEW datagram \in Datagrams, Holds(msg, datagram), input = datagram,
         packet = sent_packet(server_compose_msg), TCP_client_print_subscription_message
  PROVE  TextAsSent'
<1>. DEFINE content == SubSeq(message, TopicLen + 2, UDP_msg)
            kept == Kept(datagram)
            n == Len(kept)
            c == Len(Content(datagram))
            text == String(content, 1)
<1>1. SUFFICES ASSUME Type(datagram) > 2
               PROVE  /\ IsPrefix(String(kept, 1), output'.value)
                      /\ Contains(kept, NUL) \/ c = ContentLen => output'.value = String(kept, 1)
  <2>1. UNCHANGED input
    BY DEF TCP_client_print_subscription_message
  <2>. QED  BY <2>1 DEF TextAsSent, Kept
<1>2. output'.value = text
  <2>1. output'.value = Value(message[TopicLen + 1], content)
    BY DEF TCP_client_print_subscription_message, message
  <2>2. message[TopicLen + 1] = Type(datagram) /\ Type(datagram) \in Nat
    <3>1. TopicLen + 1 \in 1 .. Len(datagram) /\ TopicLen + 1 <= UDP_msg - 2
      BY FieldIs, Sizes
    <3>. QED  BY <3>1, DatagramArrives, FieldIs
  <2>. DEFINE type == Type(datagram)
  <2>3. type # 0 /\ type # 1 /\ type # 2
    BY <1>1, <2>2
  <2>. HIDE DEF type, content
  <2>4. Value(type, content) = String(content, 1)
    BY <2>3 DEF Value
  <2>. QED  BY <2>1, <2>2, <2>4 DEF type
<1>3. /\ content \in Seq(Nat) /\ Len(content) = ContentLen
      /\ \A j \in 1 .. n : content[j] = kept[j]
      /\ content[ContentLen - 1] = NUL
  BY ContentIs
<1>4. /\ kept \in Seq(Nat) /\ n \in Nat /\ n <= ContentLen - 2 /\ n \in {c, ContentLen - 2}
      /\ c \in Nat /\ ContentLen \in Nat \ {0, 1}
  BY KeptIs, Sizes
<1>. HIDE DEF kept, content, c
<1>5. PICK e \in Nat : Ends(kept, e)
  BY <1>4, SomeEnd
<1>6. PICK f \in Nat : Ends(content, f)
  BY <1>3, SomeEnd
<1>7. /\ e \in 1 .. n + 1 /\ (e <= n => kept[e] = NUL)
      /\ \A i \in 1 .. e - 1 : kept[i] # NUL
  BY <1>5 DEF Ends
<1>8. /\ f \in 1 .. ContentLen + 1 /\ (f <= ContentLen => content[f] = NUL)
      /\ \A i \in 1 .. f - 1 : content[i] # NUL
  BY <1>3, <1>6 DEF Ends
<1>9. \A i \in 1 .. e - 1 : i \in 1 .. n
  BY <1>4, <1>7
<1>. HIDE DEF n
<1>10. e <= f
  <2>1. SUFFICES ASSUME f < e PROVE FALSE
    BY <1>4, <1>7, <1>8
  <2>2. f \in 1 .. e - 1 /\ f <= ContentLen /\ f \in 1 .. n
    BY <1>4, <1>7, <1>8, <2>1
  <2>. QED  BY <1>3, <1>7, <1>8, <2>2
<1>11. IsPrefix(String(kept, 1), text)
  BY <1>3, <1>4, <1>5, <1>6, <1>9, <1>10, PrefixString
<1>12. ASSUME Contains(kept, NUL) \/ c = ContentLen PROVE text = String(kept, 1)
  <2>1. content[e] = NUL /\ e <= ContentLen
    <3>1. CASE e <= n
      <4>1. e \in 1 .. n /\ e <= ContentLen
        BY <1>4, <1>7, <3>1
      <4>. QED  BY <1>3, <1>7, <4>1
    <3>2. CASE ~(e <= n)
      <4>1. e = n + 1
        BY <1>4, <1>7, <3>2
      <4>2. ~Contains(kept, NUL)
        <5>1. \A i \in 1 .. n : i \in 1 .. e - 1
          BY <1>4, <4>1
        <5>. QED  BY <1>7, <5>1 DEF Contains, n
      <4>3. n = ContentLen - 2
        BY <1>4, <1>12, <4>2
      <4>4. e = ContentLen - 1 /\ e <= ContentLen
        BY <1>4, <4>1, <4>3
      <4>. QED  BY <1>3, <4>4
    <3>. QED  BY <3>1, <3>2
  <2>2. \A i \in 1 .. e - 1 : content[i] # NUL
    BY <1>3, <1>7, <1>9
  <2>3. Ends(content, e)
    <3>1. e \in 1 .. Len(content) + 1
      BY <1>3, <1>4, <1>7, <2>1
    <3>. QED  BY <2>1, <2>2, <3>1 DEF Ends
  <2>. QED  BY <1>3, <1>4, <1>5, <1>9, <2>3, SameString
<1>. QED  BY <1>2, <1>11, <1>12

-----------------------------------------------------------------------------
(* The numbers.                                                            *)

\* A product grows with each of its factors.
LEMMA ProductGrows ==
  ASSUME NEW b \in Nat, NEW m \in Nat, NEW n \in Nat, m <= n
  PROVE  b * m <= b * n
<1>1. n - m \in Nat /\ b * (n - m) \in Nat
  OBVIOUS
<1>2. b * n = b * m + b * (n - m)
  OBVIOUS
<1>. QED  BY <1>1, <1>2

LEMMA ProductCancels ==
  ASSUME NEW b \in Nat, NEW m \in Nat, NEW n \in Nat, b * m < b * n
  PROVE  m < n
<1>1. ~(n <= m)
  <2>1. n <= m => b * n <= b * m
    BY ProductGrows
  <2>2. b * n \in Nat /\ b * m \in Nat
    OBVIOUS
  <2>. QED  BY <2>1, <2>2
<1>. QED  BY <1>1

LEMMA NearestIs ==
  ASSUME NEW a \in Nat, NEW b \in Nat \ {0}
  PROVE  /\ Nearest(a, b) \in Nat
         /\ 2 * (b * Nearest(a, b) - a) <= b
         /\ 2 * (a - b * Nearest(a, b)) <= b
<1>. DEFINE q == a \div b
            r == a % b
<1>1. q \in Nat /\ r \in Nat /\ r < b /\ a = b * q + r
  OBVIOUS
<1>2. Nearest(a, b) = IF 2 * r > b \/ (2 * r = b /\ q % 2 = 1) THEN q + 1 ELSE q
  BY DEF Nearest
<1>. HIDE DEF q, r
<1>3. b * (q + 1) = b * q + b /\ b * q \in Nat
  BY <1>1
<1>. DEFINE p == b * q
<1>. HIDE DEF p
<1>. DEFINE n == Nearest(a, b)
<1>4. n = q \/ n = q + 1
  BY <1>2
<1>5. \/ n = q + 1 /\ b * n = p + b /\ 2 * r >= b
      \/ n = q /\ b * n = p /\ 2 * r <= b
  <2>1. n = q + 1 => 2 * r >= b
    BY <1>1, <1>2
  <2>2. n = q => 2 * r <= b
    BY <1>1, <1>2
  <2>. HIDE DEF n
  <2>. QED  BY <1>3, <1>4, <2>1, <2>2 DEF p
<1>6. p \in Nat /\ a = p + r
  BY <1>1, <1>3 DEF p
<1>. DEFINE x == b * n
<1>7. n \in Nat /\ 2 * (x - a) <= b /\ 2 * (a - x) <= b
  <2>. HIDE DEF n
  <2>1. /\ n \in Nat
        /\ (x = p + b /\ 2 * r >= b) \/ (x = p /\ 2 * r <= b)
    BY <1>1, <1>5
  <2>. HIDE DEF x
  <2>. QED  BY <1>1, <1>6, <2>1
<1>. QED  BY <1>7

LEMMA NearestExact ==
  ASSUME NEW a \in Nat, NEW b \in Nat \ {0}, NEW n \in Nat,
         2 * (b * n - a) < b, 2 * (a - b * n) < b
  PROVE  Nearest(a, b) = n
<1>. DEFINE m == Nearest(a, b)
            x == b * m
            y == b * n
<1>1. m \in Nat /\ 2 * (x - a) <= b /\ 2 * (a - x) <= b
  BY NearestIs
<1>. HIDE DEF m
<1>2. x \in Nat /\ y \in Nat /\ b * (m + 1) = x + b /\ b * (n + 1) = y + b
  BY <1>1
<1>3. 2 * (y - a) < b /\ 2 * (a - y) < b
  OBVIOUS
<1>. HIDE DEF x, y
<1>4. x < y + b /\ y < x + b
  BY <1>1, <1>2, <1>3
<1>5. b * m < b * (n + 1) /\ b * n < b * (m + 1)
  BY <1>2, <1>4 DEF x, y
<1>6. m < n + 1 /\ n < m + 1
  BY <1>1, <1>5, ProductCancels
<1>7. m = n
  BY <1>1, <1>6
<1>. QED  BY <1>7 DEF m

\* x is off a / b by half a distance between neighbours at most: the least, or one
\* that a / b needs.
Near(x, a, b, significand, least, bound) ==
    /\ x \in Nat
    /\ \E u \in Nat \ {0} :
        /\ u <= bound
        /\ 2 * (b * x - a) <= b * u /\ 2 * (a - b * x) <= b * u
        /\ u = least \/ significand * (b * u) <= 2 * a

LEMMA RoundedIs ==
  ASSUME NEW a \in Nat, NEW b \in Nat \ {0}, NEW significand \in Nat,
         NEW ulps, ulps \subseteq Nat \ {0}, NEW least \in ulps,
         \A ulp \in ulps \ {least} : \E half \in ulps : ulp = 2 * half,
         NEW bound \in ulps, a < significand * bound * b
  PROVE  Near(Rounded(a, b, significand, ulps), a, b, significand, least, bound)
<1>. DEFINE U == {u \in ulps : a < significand * u * b}
            ulp == Min(U)
            D == b * ulp
            R == Nearest(a, D)
            x == R * ulp
<1>1. bound \in U
  OBVIOUS
<1>2. ulp \in U /\ \A u \in U : ulp <= u
  <2>1. U \in SUBSET Nat /\ U # {}
    BY <1>1
  <2>. HIDE DEF U
  <2>. QED  BY <2>1, FirstExists
<1>3. ulp \in ulps /\ ulp \in Nat \ {0} /\ ulp <= bound
  <2>. HIDE DEF ulp
  <2>. QED  BY <1>1, <1>2
<1>4. \A u \in ulps : u < ulp => u \in Nat /\ ~(a < significand * u * b)
  <2>. HIDE DEF ulp
  <2>1. \A u \in ulps : u \in Nat
    OBVIOUS
  <2>2. \A u \in U : u \in Nat /\ ~(u < ulp)
    BY <1>2, <1>3, <2>1
  <2>. QED  BY <2>1, <2>2
<1>5. Rounded(a, b, significand, ulps) = x
  BY DEF Rounded
<1>. HIDE DEF U, ulp
<1>6. D \in Nat \ {0}
  BY <1>3
<1>7. ulp = least \/ significand * D <= 2 * a
  <2>1. SUFFICES ASSUME NEW half \in ulps, ulp = 2 * half PROVE significand * D <= 2 * a
    BY <1>3
  <2>2. half \in Nat \ {0} /\ half < ulp
    BY <1>3, <2>1
  <2>3. ~(a < significand * half * b)
    BY <1>4, <2>2
  <2>4. significand * half * b \in Nat
    BY <2>2
  <2>5. significand * D = 2 * (significand * half * b)
    BY <2>1, <2>2
  <2>. HIDE DEF D
  <2>. QED  BY <2>3, <2>4, <2>5
<1>8. R \in Nat /\ 2 * (D * R - a) <= D /\ 2 * (a - D * R) <= D
  BY <1>6, NearestIs
<1>. HIDE DEF R
<1>9. x \in Nat /\ b * x = D * R
  BY <1>3, <1>8
<1>10. 2 * (b * x - a) <= D /\ 2 * (a - b * x) <= D
  <2>. HIDE DEF x, D
  <2>. QED  BY <1>8, <1>9
<1>. HIDE DEF x
<1>. QED  BY <1>3, <1>5, <1>7, <1>9, <1>10 DEF D, Near

\* A number with fewer decimals than half a unit away comes out of Decimals.
LEMMA DecimalsExact ==
  ASSUME NEW n \in Nat, NEW d \in Nat, NEW x \in Nat,
         2 * (d * x - n * Scale) < Scale, 2 * (n * Scale - d * x) < Scale
  PROVE  Decimals(x, d) = n
<1>. DEFINE a == x * d
            s == Scale * n
<1>1. Scale \in Nat \ {0}
  BY FloatsAssumption
<1>2. a \in Nat /\ a = d * x /\ s = n * Scale /\ s \in Nat
  BY <1>1
<1>3. 2 * (s - a) < Scale /\ 2 * (a - s) < Scale
  <2>1. s - a = n * Scale - d * x /\ a - s = d * x - n * Scale
    BY <1>2
  <2>. HIDE DEF a, s
  <2>. QED  BY <2>1
<1>4. Nearest(a, Scale) = n
  BY <1>1, <1>2, <1>3, NearestExact
<1>. QED  BY <1>4 DEF Decimals

\* The distances between floats.
LEMMA FloatsAre ==
  /\ Significand \in Nat \ {0} /\ Precise \in Nat \ {0} /\ Scale \in Nat \ {0}
  /\ Significand * (Significand + 1) <= Precise
  /\ Least \in Nat \ {0} /\ MaxPower \in Nat /\ 100 <= MaxPower
  /\ MaxPower * (Significand + 1) < Scale /\ 2 * (MaxPower * Least) < Scale
  /\ FloatUlps \subseteq Nat \ {0} /\ Least \in FloatUlps /\ Scale \in FloatUlps
<1>1. /\ Significand \in Nat /\ 2 * Base * Base <= Significand
      /\ Precise \in Nat /\ Significand * (Significand + 1) <= Precise
      /\ Ulps \subseteq Nat \ {0} /\ Least \in Ulps /\ Scale \in Ulps
      /\ MaxPower \in Nat /\ 100 <= MaxPower
      /\ MaxPower * (Significand + 1) < Scale /\ 2 * MaxPower * Least < Scale
  BY FloatsAssumption
<1>2. Significand > 0
  <2>1. Base \in Nat /\ Base >= 2
    BY PacketsAssumption
  <2>2. Base * Base \in Nat /\ Base * Base > 0
    BY <2>1
  <2>3. 2 * Base * Base = 2 * (Base * Base)
    BY <2>1
  <2>. QED  BY <1>1, <2>2, <2>3
<1>3. Precise > 0
  <2>1. Significand * (Significand + 1) > 0
    BY <1>1, <1>2
  <2>2. Significand * (Significand + 1) \in Nat
    BY <1>1
  <2>. QED  BY <1>1, <2>1, <2>2
<1>4. Least \in Nat \ {0} /\ Scale \in Nat \ {0}
  BY <1>1
<1>5. 2 * MaxPower * Least = 2 * (MaxPower * Least) /\ MaxPower * Least \in Nat
  BY <1>1, <1>4
<1>6. Least <= MaxPower * Least
  <2>1. Least * 1 <= Least * MaxPower
    BY <1>1, <1>4, ProductGrows
  <2>. QED  BY <1>1, <1>4, <2>1
<1>7. Least <= Scale
  BY <1>1, <1>4, <1>5, <1>6
<1>8. FloatUlps \subseteq Nat \ {0} /\ Least \in FloatUlps /\ Scale \in FloatUlps
  <2>1. FloatUlps \subseteq Ulps
    BY DEF FloatUlps
  <2>2. Least >= Least /\ Scale >= Least
    BY <1>4, <1>7
  <2>3. Least \in FloatUlps /\ Scale \in FloatUlps
    BY <1>1, <2>2 DEF FloatUlps
  <2>. QED  BY <1>1, <2>1, <2>3
<1>9. Significand \in Nat \ {0} /\ Precise \in Nat \ {0}
  BY <1>1, <1>2, <1>3
<1>10. 2 * (MaxPower * Least) < Scale
  BY <1>1, <1>5
<1>. QED  BY <1>1, <1>4, <1>8, <1>9, <1>10

\* The division of floats: half a distance is less than half a hundredth.
LEMMA ShortRealExact ==
  ASSUME NEW n \in Nat, 2 * n < Significand
  PROVE  ShortReal(n) = n
<1>. DEFINE N == n * Scale
            x == InFloat(N, 100)
<1>1. /\ Significand \in Nat \ {0} /\ Scale \in Nat \ {0} /\ Least \in Nat \ {0}
      /\ MaxPower \in Nat /\ 100 <= MaxPower /\ 2 * (MaxPower * Least) < Scale
      /\ FloatUlps \subseteq Nat \ {0} /\ Least \in FloatUlps /\ Scale \in FloatUlps
      /\ \A ulp \in FloatUlps \ {Least} : \E half \in FloatUlps : ulp = 2 * half
  BY FloatsAre, FloatsAssumption
<1>2. N \in Nat /\ N < Significand * Scale /\ 2 * N < Significand * Scale
  <2>1. Scale * (2 * n) < Scale * Significand
    BY <1>1
  <2>2. Scale * (2 * n) = 2 * N /\ Scale * Significand = Significand * Scale /\ N \in Nat
    BY <1>1
  <2>3. Significand * Scale \in Nat
    BY <1>1
  <2>. HIDE DEF N
  <2>. QED  BY <2>1, <2>2, <2>3
<1>. HIDE DEF N
<1>3. N < Significand * Scale * 100
  <2>1. Significand * Scale \in Nat
    BY <1>1
  <2>. QED  BY <1>2, <2>1
<1>4. Near(x, N, 100, Significand, Least, Scale)
  <2>1. 100 \in Nat \ {0} /\ Significand \in Nat
    BY <1>1
  <2>. QED  BY <1>1, <1>2, <1>3, <2>1, RoundedIs DEF InFloat
<1>. HIDE DEF x
<1>5. x \in Nat
  BY <1>4 DEF Near
<1>6. PICK u \in Nat \ {0} :
        /\ 2 * (100 * x - N) <= 100 * u /\ 2 * (N - 100 * x) <= 100 * u
        /\ u = Least \/ Significand * (100 * u) <= 2 * N
  BY <1>4 DEF Near
<1>7. 100 * u < Scale
  <2>1. CASE u = Least
    <3>1. Least * 100 <= Least * MaxPower
      BY <1>1, ProductGrows
    <3>2. Least * MaxPower = MaxPower * Least /\ MaxPower * Least \in Nat
      BY <1>1
    <3>. QED  BY <1>1, <2>1, <3>1, <3>2
  <2>2. CASE Significand * (100 * u) <= 2 * N
    <3>1. Significand * (100 * u) < Significand * Scale
      <4>1. Significand * (100 * u) \in Nat /\ Significand * Scale \in Nat
        BY <1>1
      <4>. QED  BY <1>2, <2>2, <4>1
    <3>2. 100 * u \in Nat
      OBVIOUS
    <3>. QED  BY <1>1, <3>1, <3>2, ProductCancels
  <2>. QED  BY <1>6, <2>1, <2>2
<1>8. 2 * (100 * x - N) < Scale /\ 2 * (N - 100 * x) < Scale
  BY <1>1, <1>2, <1>5, <1>6, <1>7
<1>9. Decimals(x, 100) = n
  BY <1>5, <1>8, DecimalsExact DEF N
<1>. QED  BY <1>9 DEF ShortReal, x, N

\* How far the two roundings are off together.  A is d distances of the double,
\* B of the float, N the number and S a Scale.
LEMMA TwoRoundings ==
  ASSUME NEW F \in Nat \ {0}, NEW P \in Nat, NEW S \in Nat \ {0}, NEW n \in Nat,
         NEW A \in Nat, NEW B \in Nat, NEW least \in Nat, NEW power \in Nat,
         2 * n < F, F * (F + 1) <= P, power * (F + 1) < S, 2 * (power * least) < S, least # 0,
         A <= power \/ P * A <= 2 * (n * S),
         B <= power * least \/ F * B <= 2 * (n * S) + A
  PROVE  A + B < S
<1>. DEFINE N == n * S
            FA == F * A
            FFA == F * FA
<1>1. N \in Nat /\ FA \in Nat /\ FFA \in Nat
  OBVIOUS
<1>2. 2 * N + S <= F * S
  <2>1. S * (2 * n + 1) <= S * F
    BY ProductGrows
  <2>. QED  BY <2>1
<1>3. P * A <= 2 * N => FFA + FA <= 2 * N
  <2>1. A * (F * (F + 1)) <= A * P
    BY ProductGrows
  <2>2. A * (F * (F + 1)) = FFA + FA
    OBVIOUS
  <2>3. A * P = P * A /\ P * A \in Nat
    OBVIOUS
  <2>. HIDE DEF FFA, FA, N
  <2>. QED  BY <1>1, <2>1, <2>2, <2>3
<1>4. power <= power * least
  <2>1. power * 1 <= power * least
    BY ProductGrows
  <2>. QED  BY <2>1
<1>5. power * least \in Nat /\ power * (F + 1) = power * F + power /\ power * F \in Nat
  OBVIOUS
<1>6. CASE B <= power * least /\ A <= power
  <2>. DEFINE pl == power * least
  <2>1. pl \in Nat /\ 2 * pl < S /\ power <= pl /\ B <= pl
    BY <1>4, <1>5, <1>6
  <2>. HIDE DEF pl
  <2>. QED  BY <1>6, <2>1
<1>7. CASE B <= power * least /\ P * A <= 2 * N
  <2>1. FA + FA <= FFA + FA
    <3>1. FA * 1 <= FA * F
      BY <1>1, ProductGrows
    <3>2. FA * F = FFA
      OBVIOUS
    <3>. HIDE DEF FFA, FA
    <3>. QED  BY <1>1, <3>1, <3>2
  <2>2. F * (2 * A) < F * S
    <3>1. F * (2 * A) = FA + FA /\ F * S \in Nat
      OBVIOUS
    <3>. HIDE DEF FFA, FA, N
    <3>. QED  BY <1>1, <1>2, <1>3, <1>7, <2>1, <3>1
  <2>3. 2 * A < S
    BY <2>2, ProductCancels
  <2>. DEFINE pl == power * least
  <2>4. pl \in Nat /\ 2 * pl < S /\ B <= pl
    BY <1>5, <1>7
  <2>. HIDE DEF pl
  <2>. QED  BY <2>3, <2>4
<1>8. CASE F * B <= 2 * N + A /\ A <= power
  <2>1. F * A + A <= power * (F + 1)
    <3>1. (F + 1) * A <= (F + 1) * power
      BY <1>8, ProductGrows
    <3>. QED  BY <3>1
  <2>2. F * (A + B) < F * S
    <3>1. F * (A + B) = FA + F * B /\ F * B \in Nat /\ F * S \in Nat
      OBVIOUS
    <3>2. power * (F + 1) \in Nat
      OBVIOUS
    <3>3. FA + A <= power * (F + 1)
      BY <2>1
    <3>. HIDE DEF FFA, FA, N
    <3>. QED  BY <1>1, <1>2, <1>8, <3>1, <3>2, <3>3
  <2>3. A + B \in Nat
    OBVIOUS
  <2>. QED  BY <2>2, <2>3, ProductCancels
<1>9. CASE F * B <= 2 * N + A /\ P * A <= 2 * N
  <2>. DEFINE FB == F * B
              FN == F * N
              FS == F * S
              FFB == F * FB
              FFS == F * FS
  <2>1. FB \in Nat /\ FN \in Nat /\ FS \in Nat /\ FFB \in Nat /\ FFS \in Nat
    BY <1>1
  <2>2. FFB <= 2 * FN + FA
    <3>1. F * FB <= F * (2 * N + A)
      BY <1>1, <1>9, <2>1, ProductGrows
    <3>2. F * (2 * N + A) = 2 * FN + FA
      BY <1>1
    <3>. HIDE DEF FB, FN, FA
    <3>. QED  BY <3>1, <3>2
  <2>3. 2 * FN + FS <= FFS
    <3>1. F * (2 * N + S) <= F * FS
      BY <1>1, <1>2, <2>1, ProductGrows
    <3>2. F * (2 * N + S) = 2 * FN + FS
      BY <1>1
    <3>. HIDE DEF FN, FS
    <3>. QED  BY <3>1, <3>2
  <2>4. FFA + FFB < FFS
    <3>1. FFA + FA <= 2 * N
      BY <1>3, <1>9
    <3>2. 2 * N + S <= FS
      BY <1>2
    <3>. HIDE DEF FB, FN, FS, FFB, FFS, FA, FFA, N
    <3>. QED  BY <1>1, <2>1, <2>2, <2>3, <3>1, <3>2
  <2>5. F * (F * (A + B)) < F * (F * S)
    <3>1. F * (F * (A + B)) = FFA + FFB
      OBVIOUS
    <3>. QED  BY <2>4, <3>1
  <2>6. F * (A + B) < F * S
    BY <2>5, ProductCancels
  <2>. QED  BY <2>6, ProductCancels
<1>. QED  BY <1>6, <1>7, <1>8, <1>9

\* The division of doubles and the float it is stored in.
LEMMA FloatExact ==
  ASSUME NEW n \in Nat, NEW d \in Nat \ {0}, d <= MaxPower, 2 * n < Significand
  PROVE  Float(n, d) = n
<1>. DEFINE F == Significand
            N == n * Scale
            x == InDouble(N, d)
            y == InFloat(x, 1)
<1>1. /\ F \in Nat \ {0} /\ Precise \in Nat \ {0} /\ Scale \in Nat \ {0}
      /\ F * (F + 1) <= Precise
      /\ Least \in Nat \ {0} /\ MaxPower \in Nat
      /\ MaxPower * (F + 1) < Scale /\ 2 * (MaxPower * Least) < Scale
      /\ FloatUlps \subseteq Nat \ {0} /\ Least \in FloatUlps /\ Scale \in FloatUlps
      /\ \A ulp \in FloatUlps \ {Least} : \E half \in FloatUlps : ulp = 2 * half
  BY FloatsAre, FloatsAssumption
<1>2. N \in Nat /\ 2 * N + Scale <= F * Scale
  <2>1. Scale * (2 * n + 1) <= Scale * F
    BY <1>1, ProductGrows
  <2>. QED  BY <1>1, <2>1
<1>. HIDE DEF N
<1>3. N < Precise * Scale * d
  <2>1. Scale * F <= Scale * Precise
    <3>1. F * 1 <= F * (F + 1)
      BY <1>1, ProductGrows
    <3>2. F * 1 = F /\ F * (F + 1) \in Nat
      BY <1>1
    <3>3. F <= Precise
      BY <1>1, <3>1, <3>2
    <3>. QED  BY <1>1, <3>3, ProductGrows
  <2>2. (Precise * Scale) * 1 <= (Precise * Scale) * d
    <3>1. Precise * Scale \in Nat
      BY <1>1
    <3>. QED  BY <3>1, ProductGrows
  <2>. DEFINE FS == F * Scale
              PS == Precise * Scale
              PSd == PS * d
  <2>3. FS \in Nat /\ PS \in Nat /\ PSd \in Nat /\ FS <= PS /\ PS <= PSd
    BY <1>1, <2>1, <2>2
  <2>4. 2 * N + Scale <= FS
    BY <1>2
  <2>. HIDE DEF FS, PS
  <2>5. N < PSd
    <3>. HIDE DEF PSd
    <3>. QED  BY <1>1, <1>2, <2>3, <2>4
  <2>. QED  BY <2>5 DEF PS
<1>4. x \in Nat /\ Near(x, N, d, Precise, 1, Scale)
  <2>1. /\ Ulps \subseteq Nat \ {0} /\ 1 \in Ulps /\ Scale \in Ulps
        /\ \A ulp \in Ulps \ {1} : \E half \in Ulps : ulp = 2 * half
    BY FloatsAssumption
  <2>2. Precise \in Nat
    BY <1>1
  <2>3. Near(x, N, d, Precise, 1, Scale)
    BY <1>2, <1>3, <2>1, <2>2, RoundedIs DEF InDouble
  <2>. HIDE DEF x
  <2>. QED  BY <2>3 DEF Near
<1>. HIDE DEF x
<1>5. PICK u \in Nat \ {0} :
        /\ u <= Scale
        /\ 2 * (d * x - N) <= d * u /\ 2 * (N - d * x) <= d * u
        /\ u = 1 \/ Precise * (d * u) <= 2 * N
  BY <1>4 DEF Near
<1>6. x < F * Scale * 1
  <2>. DEFINE NS == 2 * N + Scale
  <2>1. 2 * (d * x) <= d * NS
    <3>1. d * u <= d * Scale
      BY <1>1, <1>5, ProductGrows
    <3>2. N * 1 <= N * d
      BY <1>2, ProductGrows
    <3>3. d * NS = 2 * (N * d) + d * Scale /\ N * d \in Nat /\ d * Scale \in Nat
      BY <1>1, <1>2
    <3>4. d * x \in Nat /\ d * u \in Nat
      BY <1>4
    <3>5. N * 1 = N
      BY <1>2
    <3>. DEFINE dx == d * x
                du == d * u
                dS == d * Scale
                Nd == N * d
    <3>6. /\ du <= dS /\ N <= Nd /\ dx \in Nat /\ du \in Nat /\ dS \in Nat /\ Nd \in Nat
          /\ 2 * (dx - N) <= du /\ d * NS = 2 * Nd + dS
      BY <1>5, <3>1, <3>2, <3>3, <3>4, <3>5
    <3>. HIDE DEF dx, du, dS, Nd, NS
    <3>7. 2 * dx <= d * NS
      BY <1>2, <3>6
    <3>. QED  BY <3>7 DEF dx
  <2>2. d * (2 * x) <= d * NS
    BY <1>4, <2>1
  <2>3. d * NS < d * (NS + 1)
    BY <1>1, <1>2
  <2>4. NS \in Nat /\ NS + 1 \in Nat /\ 2 * x \in Nat
    BY <1>1, <1>2, <1>4
  <2>5. 2 * x < NS + 1
    <3>1. d * (2 * x) < d * (NS + 1)
      <4>1. d * (2 * x) \in Nat /\ d * NS \in Nat /\ d * (NS + 1) \in Nat
        BY <2>4
      <4>. QED  BY <2>2, <2>3, <4>1
    <3>. QED  BY <2>4, <3>1, ProductCancels
  <2>6. F * Scale \in Nat /\ F * Scale * 1 = F * Scale /\ F * Scale # 0
    BY <1>1
  <2>. QED  BY <1>1, <1>2, <1>4, <2>4, <2>5, <2>6
<1>7. y \in Nat /\ Near(y, x, 1, F, Least, Scale)
  <2>1. F \in Nat /\ 1 \in Nat \ {0}
    BY <1>1
  <2>2. Near(y, x, 1, F, Least, Scale)
    BY <1>1, <1>4, <1>6, <2>1, RoundedIs DEF InFloat
  <2>. HIDE DEF y
  <2>. QED  BY <2>2 DEF Near
<1>. HIDE DEF y
<1>8. PICK v \in Nat \ {0} :
        /\ 2 * (y - x) <= v /\ 2 * (x - y) <= v
        /\ v = Least \/ F * v <= 2 * x
  <2>1. 1 * y = y /\ \A v \in Nat : 1 * v = v
    BY <1>7
  <2>. QED  BY <1>7, <2>1 DEF Near
<1>. DEFINE A == d * u
            B == d * v
            dx == d * x
            dy == d * y
<1>9. A \in Nat /\ B \in Nat /\ dx \in Nat /\ dy \in Nat
  BY <1>4, <1>7
<1>10. 2 * (dy - dx) <= B /\ 2 * (dx - dy) <= B
  <2>1. d * (2 * y) <= d * (v + 2 * x) /\ d * (2 * x) <= d * (v + 2 * y)
    <3>1. 2 * y <= v + 2 * x /\ 2 * x <= v + 2 * y
      BY <1>4, <1>7, <1>8
    <3>2. 2 * y \in Nat /\ 2 * x \in Nat /\ v + 2 * x \in Nat /\ v + 2 * y \in Nat
      BY <1>4, <1>7
    <3>. QED  BY <3>1, <3>2, ProductGrows
  <2>2. /\ d * (2 * y) = 2 * dy /\ d * (2 * x) = 2 * dx
        /\ d * (v + 2 * x) = B + 2 * dx /\ d * (v + 2 * y) = B + 2 * dy
    BY <1>4, <1>7
  <2>. HIDE DEF B, dx, dy
  <2>. QED  BY <1>9, <2>1, <2>2
<1>11. A <= MaxPower \/ Precise * A <= 2 * N
  <2>1. u = 1 => A = d
    OBVIOUS
  <2>. QED  BY <1>5, <2>1
<1>12. B <= MaxPower * Least \/ F * B <= 2 * N + A
  <2>1. CASE v = Least
    <3>1. Least * d <= Least * MaxPower
      BY <1>1, ProductGrows
    <3>. QED  BY <1>1, <2>1, <3>1
  <2>2. CASE F * v <= 2 * x
    <3>1. d * (F * v) <= d * (2 * x)
      <4>1. F * v \in Nat /\ 2 * x \in Nat
        BY <1>1, <1>4
      <4>. QED  BY <2>2, <4>1, ProductGrows
    <3>2. d * (F * v) = F * B /\ d * (2 * x) = 2 * dx
      BY <1>1, <1>4
    <3>3. 2 * (dx - N) <= A
      BY <1>5
    <3>. HIDE DEF A, B, dx
    <3>4. F * B \in Nat
      BY <1>1, <1>9
    <3>. QED  BY <1>2, <1>9, <3>1, <3>2, <3>3, <3>4
  <2>. QED  BY <1>8, <2>1, <2>2
<1>13. 2 * (dx - N) <= A /\ 2 * (N - dx) <= A
  BY <1>5
<1>. HIDE DEF A, B, dx, dy
<1>14. A + B < Scale
  <2>1. A <= MaxPower \/ Precise * A <= 2 * (n * Scale)
    BY <1>11 DEF N
  <2>2. B <= MaxPower * Least \/ F * B <= 2 * (n * Scale) + A
    BY <1>12 DEF N
  <2>3. 2 * n < F
    OBVIOUS
  <2>. HIDE DEF F
  <2>. QED  BY <1>1, <1>9, <2>1, <2>2, <2>3, TwoRoundings
<1>15. 2 * (dy - N) < Scale /\ 2 * (N - dy) < Scale
  BY <1>1, <1>2, <1>9, <1>10, <1>13, <1>14
<1>16. Decimals(y, d) = n
  <2>1. 2 * (d * y - n * Scale) < Scale /\ 2 * (n * Scale - d * y) < Scale
    BY <1>15 DEF dy, N
  <2>. QED  BY <1>7, <2>1, DecimalsExact
<1>. QED  BY <1>16 DEF Float, x, y, N

\* The bytes of a number arrive.
LEMMA NumberArrives ==
  ASSUME NEW datagram \in Datagrams, Holds(msg, datagram),
         packet = sent_packet(server_compose_msg), Type(datagram) <= 2
  PROVE  LET content == SubSeq(message, TopicLen + 2, UDP_msg)
             c == Content(datagram)
         IN  /\ Len(c) \in Nat
             /\ \A i \in 1 .. 6 : i <= Len(c) => content[i] = c[i] /\ c[i] \in 0 .. Base - 1
<1>. DEFINE content == SubSeq(message, TopicLen + 2, UDP_msg)
            c == Content(datagram)
            n == Len(Kept(datagram))
            size == Len(datagram)
<1>1. /\ Len(c) = size - (TopicLen + 1) /\ Len(c) \in Nat /\ n \in {Len(c), ContentLen - 2}
      /\ \A j \in 1 .. n : Kept(datagram)[j] = datagram[TopicLen + 1 + j]
  BY KeptIs
<1>2. \A j \in 1 .. n : content[j] = Kept(datagram)[j]
  BY ContentIs
<1>3. /\ datagram \in Seq(Nat) /\ size \in Nat /\ TopicLen < size
      /\ TopicLen \in Nat /\ ContentLen \in Nat /\ ContentLen - 2 >= 6
  BY FieldIs, Sizes
<1>4. /\ c \in Seq(Nat)
      /\ \A j \in 1 .. size - (TopicLen + 2) + 1 : c[j] = datagram[TopicLen + 2 + j - 1]
  <2>1. TopicLen + 2 \in Nat \ {0} /\ TopicLen + 2 <= size + 1 /\ size <= Len(datagram)
    BY <1>3
  <2>. QED  BY <1>3, <2>1, Slice DEF Content
<1>5. \A i \in 1 .. Len(c) : c[i] < Base
  BY DatagramsAssumption
<1>. HIDE DEF content, c, n, size
<1>6. ASSUME NEW i \in 1 .. 6, i <= Len(c) PROVE content[i] = c[i] /\ c[i] \in 0 .. Base - 1
  <2>1. /\ i \in 1 .. n /\ i \in 1 .. Len(c) /\ i \in 1 .. size - (TopicLen + 2) + 1
        /\ TopicLen + 2 + i - 1 = TopicLen + 1 + i
    BY <1>1, <1>3, <1>6
  <2>2. c[i] \in Nat /\ c[i] < Base
    BY <1>4, <1>5, <2>1, ElementOfSeq
  <2>3. c[i] \in 0 .. Base - 1
    BY <2>2, PacketsAssumption
  <2>. QED  BY <1>1, <1>2, <1>4, <2>1, <2>3
<1>. QED  BY <1>1, <1>6 DEF content, c

\* ntohl and ntohs give the bytes of a number their places.
LEMMA LongIs ==
  ASSUME NEW content, NEW c, \A i \in 2 .. 5 : content[i] = c[i] /\ c[i] \in 0 .. Base - 1
  PROVE  ntohl(content, 2) = Long(c) /\ Long(c) \in Nat
<1>1. /\ Base \in Nat /\ c[2] \in Nat /\ c[3] \in Nat /\ c[4] \in Nat /\ c[5] \in Nat
      /\ content[2] = c[2] /\ content[3] = c[3] /\ content[4] = c[4] /\ content[5] = c[5]
  BY PacketsAssumption
<1>2. 2 + 1 = 3 /\ 2 + 2 = 4 /\ 2 + 3 = 5
  OBVIOUS
<1>3. ntohl(content, 2) = ((c[2] * Base + c[3]) * Base + c[4]) * Base + c[5]
  BY <1>1, <1>2 DEF ntohl
<1>. QED  BY <1>1, <1>3 DEF Long

LEMMA ShortIs ==
  ASSUME NEW content, NEW c, \A i \in 1 .. 2 : content[i] = c[i] /\ c[i] \in 0 .. Base - 1
  PROVE  ntohs(content, 1) = Short(c) /\ Short(c) \in Nat /\ 2 * Short(c) < Significand
<1>1. /\ Base \in Nat /\ c[1] \in 0 .. Base - 1 /\ c[2] \in 0 .. Base - 1
      /\ content[1] = c[1] /\ content[2] = c[2]
      /\ Significand \in Nat /\ 2 * (Base * Base) <= Significand
  BY PacketsAssumption, FloatsAssumption
<1>2. 1 + 1 = 2
  OBVIOUS
<1>3. ntohs(content, 1) = Short(c)
  BY <1>1, <1>2 DEF ntohs, Short
<1>4. Base * c[1] <= Base * (Base - 1)
  BY <1>1, ProductGrows
<1>5. c[1] * Base = Base * c[1] /\ Base * (Base - 1) = Base * Base - Base /\ Base * c[1] \in Nat
  BY <1>1
<1>. QED  BY <1>1, <1>3, <1>4, <1>5 DEF Short

LEMMA NumberCorrect ==
  ASSUME NEW datagram \in Datagrams, Holds(msg, datagram), input = datagram,
         packet = sent_packet(server_compose_msg), TCP_client_print_subscription_message
  PROVE  NumbersAsSent'
<1>. DEFINE content == SubSeq(message, TopicLen + 2, UDP_msg)
            c == Content(datagram)
            type == Type(datagram)
            value == output'.value
<1>1. SUFFICES /\ type = 0 /\ Len(c) >= 5 /\ Long(c) < Half =>
                    value = Number(c[1] # 0, Long(c), 0)
               /\ type = 1 /\ Len(c) >= 2 => value = Number(FALSE, Short(c), 2)
               /\ type = 2 /\ Len(c) >= 6 /\ 2 * Long(c) < Significand
                       /\ 10 ^ c[6] \in 1 .. MaxPower =>
                    value = Number(c[1] # 0, Long(c), c[6])
  <2>1. UNCHANGED input
    BY DEF TCP_client_print_subscription_message
  <2>. QED  BY <2>1 DEF NumbersAsSent
<1>2. value = Value(type, content)
  <2>1. value = Value(message[TopicLen + 1], content)
    BY DEF TCP_client_print_subscription_message, message
  <2>2. message[TopicLen + 1] = Type(datagram)
    <3>1. TopicLen + 1 \in 1 .. Len(datagram) /\ TopicLen + 1 <= UDP_msg - 2
      BY FieldIs, Sizes
    <3>. QED  BY <3>1, DatagramArrives, FieldIs
  <2>. QED  BY <2>1, <2>2
<1>3. type <= 2 =>
        /\ Len(c) \in Nat
        /\ \A i \in 1 .. 6 : i <= Len(c) => content[i] = c[i] /\ c[i] \in 0 .. Base - 1
  BY NumberArrives
<1>. HIDE DEF content, c, type, value
<1>4. ASSUME type = 0, Len(c) >= 5, Long(c) < Half PROVE value = Number(c[1] # 0, Long(c), 0)
  <2>1. /\ content[1] = c[1]
        /\ \A i \in 2 .. 5 : content[i] = c[i] /\ c[i] \in 0 .. Base - 1
    BY <1>3, <1>4
  <2>2. ntohl(content, 2) = Long(c)
    BY <2>1, LongIs
  <2>3. value = Number(content[1] # 0, Signed(ntohl(content, 2)), 0)
    BY <1>2, <1>4 DEF Value
  <2>. QED  BY <1>4, <2>1, <2>2, <2>3 DEF Signed
<1>5. ASSUME type = 1, Len(c) >= 2 PROVE value = Number(FALSE, Short(c), 2)
  <2>1. \A i \in 1 .. 2 : content[i] = c[i] /\ c[i] \in 0 .. Base - 1
    BY <1>3, <1>5
  <2>2. ntohs(content, 1) = Short(c) /\ Short(c) \in Nat /\ 2 * Short(c) < Significand
    BY <2>1, ShortIs
  <2>3. ShortReal(Short(c)) = Short(c)
    BY <2>2, ShortRealExact
  <2>4. value = Number(FALSE, ShortReal(ntohs(content, 1)), 2)
    BY <1>2, <1>5 DEF Value
  <2>. QED  BY <2>2, <2>3, <2>4
<1>6. ASSUME type = 2, Len(c) >= 6, 2 * Long(c) < Significand, 10 ^ c[6] \in 1 .. MaxPower
      PROVE  value = Number(c[1] # 0, Long(c), c[6])
  <2>1. /\ content[1] = c[1] /\ content[6] = c[6]
        /\ \A i \in 2 .. 5 : content[i] = c[i] /\ c[i] \in 0 .. Base - 1
    BY <1>3, <1>6
  <2>2. ntohl(content, 2) = Long(c) /\ Long(c) \in Nat
    BY <2>1, LongIs
  <2>3. Float(Long(c), 10 ^ c[6]) = Long(c)
    <3>1. MaxPower \in Nat
      BY FloatsAssumption
    <3>. QED  BY <1>6, <2>2, <3>1, FloatExact
  <2>4. value = Number(content[1] # 0, Float(ntohl(content, 2), 10 ^ content[6]), content[6])
    BY <1>2, <1>6 DEF Value
  <2>. QED  BY <2>1, <2>2, <2>3, <2>4
<1>. QED  BY <1>4, <1>5, <1>6

-----------------------------------------------------------------------------
(* The invariant: what the buffers hold on the way.                        *)

\* The packet is a command somebody typed.
CommandSent ==
    \E topic \in Topics, sf \in 0 .. 1 :
        /\ input = [topic |-> topic, sf |-> sf]
        /\ packet = sent_packet(Command(topic, sf))

\* The server holds the datagram.
DatagramHeld == input \in Datagrams /\ Holds(msg, input)

PacketsInv ==
    /\ stack \in [1 .. UDP_msg -> Nat] /\ msg \in [1 .. UDP_msg -> Nat]
    /\ pc = "subscribing" => CommandSent
    /\ pc \in {"published", "sent"} => DatagramHeld
    /\ pc = "sent" => packet = sent_packet(server_compose_msg)
    /\ SubscribesAsTyped /\ TopicAsSent /\ NumbersAsSent /\ TextAsSent

LEMMA PacketsInit == Init => PacketsInv
<1>. SUFFICES ASSUME Init PROVE PacketsInv
  OBVIOUS
<1>1. pc = "idle"
  BY DEF Init
<1>2. msg \in [1 .. UDP_msg -> Nat]
  BY DEF Init, Zeros, NUL
<1>3. stack \in [1 .. UDP_msg -> Nat]
  BY DEF Init, NUL, LETTER
<1>. QED  BY <1>1, <1>2, <1>3 DEF PacketsInv, SubscribesAsTyped, TopicAsSent, NumbersAsSent, TextAsSent

LEMMA PacketsStep == PacketsInv /\ [Next]_vars => PacketsInv'
<1>. SUFFICES ASSUME PacketsInv, [Next]_vars PROVE PacketsInv'
  OBVIOUS
<1>1. stack \in [1 .. UDP_msg -> Nat] /\ msg \in [1 .. UDP_msg -> Nat]
  BY DEF PacketsInv
<1>2. ASSUME NEW topic \in Topics, NEW sf \in 0 .. 1, subscribe(topic, sf) PROVE PacketsInv'
  <2>1. /\ pc' \in {"subscribing", "corrupted"} /\ UNCHANGED <<stack, msg>>
        /\ input' = [topic |-> topic, sf |-> sf]
        /\ packet' = sent_packet(Command(topic, sf))
    BY <1>2 DEF subscribe, Command
  <2>2. CommandSent'
    <3>1. Command(topic, sf)' = Command(topic, sf)
      BY DEF Command, client_set_payload, CommandText, command_args
    <3>2. sent_packet(Command(topic, sf))' = sent_packet(Command(topic, sf))
      BY <3>1 DEF sent_packet, TCP_header
    <3>. QED  BY <2>1, <3>2 DEF CommandSent
  <2>. QED  BY <1>1, <2>1, <2>2 DEF PacketsInv, SubscribesAsTyped, TopicAsSent, NumbersAsSent, TextAsSent
<1>3. ASSUME TCP_server_get_sub_args PROVE PacketsInv'
  <2>1. pc = "subscribing" /\ pc' = "subscribed" /\ UNCHANGED <<stack, msg>>
    BY <1>3 DEF TCP_server_get_sub_args
  <2>2. SubscribesAsTyped'
    BY <1>3, <2>1, SubscribeCorrect DEF PacketsInv, CommandSent
  <2>. QED  BY <1>1, <2>1, <2>2 DEF PacketsInv, TopicAsSent, NumbersAsSent, TextAsSent
<1>4. ASSUME NEW datagram \in Datagrams, UDP_server_recv(datagram) PROVE PacketsInv'
  <2>1. pc' = "published" /\ input' = datagram /\ msg' = stack'
    BY <1>4 DEF UDP_server_recv
  <2>2. PICK held \in {stack, Zeros(UDP_msg), [i \in 1 .. UDP_msg |-> LETTER]} :
          stack' = [i \in 1 .. UDP_msg |-> IF i <= Len(datagram) THEN datagram[i] ELSE held[i]]
    BY <1>4 DEF UDP_server_recv
  <2>3. held \in [1 .. UDP_msg -> Nat]
    BY <1>1 DEF Zeros, NUL, LETTER
  <2>4. /\ datagram \in Seq(Nat) /\ Len(datagram) \in Nat /\ UDP_msg \in Nat
        /\ \A i \in 1 .. Len(datagram) : datagram[i] \in Nat
    BY FieldIs, Sizes, ElementOfSeq
  <2>5. stack' \in [1 .. UDP_msg -> Nat]
    <3>1. \A i \in 1 .. UDP_msg : i <= Len(datagram) => i \in 1 .. Len(datagram)
      BY <2>4
    <3>. QED  BY <2>2, <2>3, <2>4, <3>1
  <2>6. ASSUME NEW i \in 1 .. Len(datagram), i <= UDP_msg PROVE stack'[i] = datagram[i]
    <3>1. i \in 1 .. UDP_msg /\ i <= Len(datagram)
      BY <2>4, <2>6
    <3>. QED  BY <2>2, <3>1
  <2>7. DatagramHeld'
    <3>1. UDP_msg' = UDP_msg
      BY DEF UDP_msg
    <3>. QED  BY <2>1, <2>5, <2>6, <3>1 DEF DatagramHeld, Holds
  <2>. QED
    BY <2>1, <2>5, <2>7 DEF PacketsInv, SubscribesAsTyped, TopicAsSent, NumbersAsSent, TextAsSent
<1>5. ASSUME TCP_server_send PROVE PacketsInv'
  <2>1. /\ pc = "published" /\ pc' = "sent" /\ UNCHANGED <<input, stack, msg>>
        /\ packet' = sent_packet(server_compose_msg)
    BY <1>5 DEF TCP_server_send
  <2>2. DatagramHeld'
    BY <2>1 DEF PacketsInv, DatagramHeld, Holds
  <2>3. packet' = sent_packet(server_compose_msg)'
    BY <2>1 DEF sent_packet, TCP_header, server_compose_msg
  <2>. QED
    BY <1>1, <2>1, <2>2, <2>3 DEF PacketsInv, SubscribesAsTyped, TopicAsSent, NumbersAsSent, TextAsSent
<1>6. ASSUME TCP_client_print_subscription_message PROVE PacketsInv'
  <2>1. pc = "sent" /\ pc' = "printed" /\ UNCHANGED <<stack, msg>>
    BY <1>6 DEF TCP_client_print_subscription_message
  <2>2. TopicAsSent' /\ NumbersAsSent' /\ TextAsSent'
    BY <1>6, <2>1, TopicCorrect, NumberCorrect, TextCorrect DEF PacketsInv, DatagramHeld
  <2>. QED  BY <1>1, <2>1, <2>2 DEF PacketsInv, SubscribesAsTyped
<1>7. CASE UNCHANGED vars
  <2>1. UNCHANGED <<pc, input, stack, msg, packet, output>>
    BY <1>7 DEF vars
  <2>2. (CommandSent <=> CommandSent') /\ (DatagramHeld <=> DatagramHeld')
    BY <2>1 DEF CommandSent, DatagramHeld, Holds
  <2>3. (packet = sent_packet(server_compose_msg))' <=> packet = sent_packet(server_compose_msg)
    BY <2>1 DEF sent_packet, TCP_header, server_compose_msg
  <2>4. SubscribesAsTyped' /\ TopicAsSent' /\ TextAsSent'
    BY <2>1 DEF PacketsInv, SubscribesAsTyped, TopicAsSent, TextAsSent
  <2>5. NumbersAsSent'
    BY <2>1 DEF PacketsInv, NumbersAsSent
  <2>. QED  BY <2>1, <2>2, <2>3, <2>4, <2>5 DEF PacketsInv
<1>. QED  BY <1>2, <1>3, <1>4, <1>5, <1>6, <1>7 DEF Next

LEMMA PacketsAlways == Spec => []PacketsInv
BY PacketsInit, PacketsStep, PTL DEF Spec

-----------------------------------------------------------------------------
(* What follows for fields of any length, any topics users type and any    *)
(* datagrams that are sent.                                                *)

\* TCP_server_get_sub_args subscribes a client to the topic it typed, and with
\* the flag it typed where the topic leaves two bytes of its field; a topic that
\* fills its field is stored run together with the id.
THEOREM AlwaysSubscribesAsTyped == Spec => []SubscribesAsTyped
BY PacketsAlways, PTL DEF PacketsInv

\* TCP_client_print_subscription_message prints the topic of the datagram, also
\* one that fills its field if the content is an INT.
THEOREM TopicAlwaysAsSent == Spec => []TopicAsSent
BY PacketsAlways, PTL DEF PacketsInv

\* TCP_client_print_subscription_message prints the number of the datagram: any
\* INT below 2^31, any SHORT_REAL, and any FLOAT whose significand has a bit less
\* than a float's and whose power of ten is exact, for every size of a byte, of
\* both significands and of the least float and double.
THEOREM NumbersAlwaysAsSent == Spec => []NumbersAsSent
BY PacketsAlways, PTL DEF PacketsInv

\* TCP_client_print_subscription_message prints the text of the datagram but for
\* the two bytes that stay behind, and what may follow is only the end of an
\* older text.
THEOREM TextAlwaysAsSent == Spec => []TextAsSent
BY PacketsAlways, PTL DEF PacketsInv
=============================================================================
