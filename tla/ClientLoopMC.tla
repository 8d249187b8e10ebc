---------------------------- MODULE ClientLoopMC ----------------------------
(***************************************************************************)
(* Values of the constants of ClientLoop.                                  *)
(***************************************************************************)
EXTENDS ClientLoop

\* Every command once, one that lacks its last word and one that is none.
TypedLines ==
    {<<"exit">>, <<"subscribe", "t", "1">>, <<"unsubscribe", "t">>, <<"subscribe", "t">>, <<"x">>}
=============================================================================
