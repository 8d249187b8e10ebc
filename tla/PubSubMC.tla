------------------------------ MODULE PubSubMC ------------------------------
(***************************************************************************)
(* Values of the constants of PubSub for the runs of TLC.                  *)
(***************************************************************************)
EXTENDS PubSub

\* Strings none of which is a prefix of another.
NoPrefix == [s \in Ids \cup Topics |-> {}]

\* "c1" is what is left of "c12" when its last character is cut off, and "a" of
\* the topic "ab".
Prefix ==
    [s \in Ids \cup Topics |->
        CASE s = "c12" -> {"c1"} [] s = "ab" -> {"a"} [] OTHER -> {}]

\* Runs "p1" and "p3" under "c1", "p2" and "p4" under the other id.
TwoRunsOfOne ==
    [p \in Procs |-> IF p \in {"p1", "p3"} THEN "c1" ELSE CHOOSE id \in Ids : id # "c1"]

\* "p3" is "p1" started again.
Restart == [p \in Procs |-> IF p = "p3" THEN "p1" ELSE NoProc]

\* "p1" and "p3" run together; "p2" follows the one and "p4" follows "p2".
Relay ==
    [p \in Procs |-> CASE p = "p2" -> "p1" [] p = "p4" -> "p2" [] OTHER -> NoProc]

\* Commands of the runs.
NoCommands == [p \in Procs |-> 0]
OneOfOne == [p \in Procs |-> IF p = "p1" THEN 1 ELSE 0]
TwoOfOne == [p \in Procs |-> IF p = "p1" THEN 2 ELSE 0]
OneEach == [p \in Procs |-> 1]

\* Every run can start at any time.
Unordered == [p \in Procs |-> NoProc]
=============================================================================
