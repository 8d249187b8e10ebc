------------------------------ MODULE Registry ------------------------------
(***************************************************************************)
(* What the server keeps for its subscribers, and nothing of how: who is   *)
(* connected and under which id, and how often each id is subscribed to    *)
(* each topic.  Poller, descriptors, lists, queues and packets are gone;   *)
(* PubSub is shown to implement this module.                               *)
(***************************************************************************)
EXTENDS Integers

CONSTANTS
    Clients,      \* runs of the subscriber program
    Strings,      \* ids and topics
    Unnamed       \* the id of a member that has not given one

VARIABLES
    up,           \* whether the server serves
    members,      \* the connected clients with their ids
    subs          \* subscription -> how often it is held

registryVars == <<up, members, subs>>

Subscription == [topic : Strings, subscriber_id : Strings]

Init ==
    /\ up = TRUE
    /\ members = {}
    /\ subs = [s \in Subscription |-> 0]

Join(c) ==
    /\ up
    /\ \A m \in members : m.who # c
    /\ members' = members \cup {[who |-> c, id |-> Unnamed]}
    /\ UNCHANGED <<up, subs>>

Without(c) == {m \in members : m.who # c}

Register(c, id) ==
    /\ up
    /\ [who |-> c, id |-> Unnamed] \in members
    /\ id # Unnamed
    /\ \A m \in members : m.id # id
    /\ members' = Without(c) \cup {[who |-> c, id |-> id]}
    /\ UNCHANGED <<up, subs>>

Leave(c) ==
    /\ up
    /\ \E m \in members : m.who = c
    /\ members' = Without(c)
    /\ UNCHANGED <<up, subs>>

Own(m, topic) == [topic |-> topic, subscriber_id |-> m.id]

\* A named member adds one of its own subscriptions or takes one back.
Subscribe(m, topic) ==
    /\ up
    /\ m.id # Unnamed
    /\ UNCHANGED <<up, members>>
    /\ subs' = [subs EXCEPT ![Own(m, topic)] = @ + 1]

Unsubscribe(m, topic) ==
    /\ up
    /\ m.id # Unnamed
    /\ subs[Own(m, topic)] > 0
    /\ UNCHANGED <<up, members>>
    /\ subs' = [subs EXCEPT ![Own(m, topic)] = @ - 1]

Stop ==
    /\ up
    /\ up' = FALSE
    /\ members' = {}
    /\ UNCHANGED subs

Next ==
    \/ \E c \in Clients :
          \/ Join(c)
          \/ Leave(c)
          \/ \E id \in Strings : Register(c, id)
    \/ \E m \in members, topic \in Strings : Subscribe(m, topic) \/ Unsubscribe(m, topic)
    \/ Stop

Spec == Init /\ [][Next]_registryVars
=============================================================================
