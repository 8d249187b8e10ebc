------------------------------ MODULE PacketsMC ------------------------------
(***************************************************************************)
(* Values of the constants of Packets: topics that leave three, two, one   *)
(* or no byte of their field; every number of each type; texts of every    *)
(* length, with and without a NUL.                                         *)
(***************************************************************************)
EXTENDS Packets

TypedTopics == {<<98>>, <<98, 99>>, <<98, 99, 98>>, <<98, 99, 98, 99>>}

TypedId == <<100, 101>>

TopicFields == {<<98, 99, 98, 0>>, <<98, 99, 98, 99>>}

PowersOfTwo == {2 ^ j : j \in 0 .. 20}

Bytes == 0 .. Base - 1

Ints == {<<0>> \o content : content \in [1 .. 5 -> Bytes]}
ShortReals == {<<1>> \o content : content \in [1 .. 2 -> Bytes]}
Floats == {<<2>> \o content : content \in [1 .. 6 -> Bytes]}

Texts ==
    {<<type>> \o [i \in 1 .. n |-> IF i = n THEN last ELSE 98] :
        type \in {3, 4}, n \in 0 .. ContentLen, last \in {NUL, 98}}

SentDatagrams == {topic \o rest : topic \in TopicFields, rest \in Ints \cup ShortReals \cup Floats \cup Texts}
=============================================================================
