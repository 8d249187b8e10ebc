---------------------------- MODULE Subscriptions ----------------------------
(***************************************************************************)
(* subscriptions.c: the list of subscriptions, as the sequence of its      *)
(* nodes from the head, with 0 for a NULL pointer, and the cursor          *)
(* `current', as the part of the list from the node it points to (the      *)
(* empty sequence when it is NULL).  The store_and_forward flag is kept by *)
(* the program but never read, and is left out.                            *)
(***************************************************************************)
EXTENDS Integers, Sequences, SequencesExt

subscription_node(topics, ids) == [topic : topics, subscriber_id : ids]

\* Mutants: only one of the two is compared.
find_by_topic(subs, topic, id) == SelectInSeq(subs, LAMBDA s : s.topic = topic)

find_by_subscriber(subs, topic, id) == SelectInSeq(subs, LAMBDA s : s.subscriber_id = id)

subscriptions_find(subs, topic, id) ==
    SelectInSeq(subs, LAMBDA s : s.topic = topic /\ s.subscriber_id = id)

\* New subscriptions go to the head, one more for each call: a topic the
\* client already has is not looked for, and the cursor is not moved.
subscriptions_add_subscription(subs, sub) == <<sub>> \o subs

\* As in clients.c: the last node cannot be unlinked unless it is the head.
subscriptions_remove_faults(subs, k) == k \notin {0, 1} /\ k = Len(subs)

subscriptions_remove_subscription(subs, k) ==
    IF k = 0 THEN subs ELSE RemoveAt(subs, k)

\* The positions, counted from the cursor, of the nodes that successive calls
\* of subscriptions_get_next return for a topic, ...
subscriptions_due(cursor, topic) == {k \in 1 .. Len(cursor) : cursor[k].topic = topic}

\* ... and the cursor once they have all been returned.  The last call finds
\* nothing and leaves it behind the last node returned.
subscriptions_exhausted(cursor, topic) ==
    LET due == subscriptions_due(cursor, topic)
    IN IF due = {} THEN cursor ELSE SubSeq(cursor, Max(due) + 1, Len(cursor))
=============================================================================
