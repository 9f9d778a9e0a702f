------------------------------- MODULE MCBbs -------------------------------
(***************************************************************************)
(* Two stations of different callsigns, a secret with a repeated character *)
(* and two challenges that draw it once or twice.                          *)
(***************************************************************************)
EXTENDS Bbs

CONSTANTS a1, b1, A, B

MCBaseCall == (a1 :> A) @@ (b1 :> B)
MCSecret == <<"k", "e", "k", "y", "s">>
MCChallenges == {<<1, 2, 3, 4>>, <<5, 3, 2, 4>>}

\* right for the first challenge and for the second
MCResponses == {<<"x", "k", "e", "y", "k", "x">>, <<"k", "e", "y", "s", "x", "x">>}

\* b1 posts messages that a1 may read and others; a1 reads and kills them.
Readers == (a1 :> {l \in Lines : l[1] \in {"", "L", "LL", "LM", "R", "K", "B"}})
        @@ (b1 :> {<<"">>, <<"/EX">>, <<"S", A>>, <<"SP", B>>, <<"S", "ALL">>, <<"K", 1>>})

\* b1 posts a message for itself, and a1 has to be sysop to get at it.
Sysops == (a1 :> {l \in Lines : l[1] \in {"", "SYSOP", "SYSOP NEW", "CONFIG", "exit", "answer"}}
                   \cup {<<"L">>, <<"R", 1>>, <<"K", 1>>})
       @@ (b1 :> {<<"">>, <<"/EX">>, <<"SP", B>>})

MCTypists == {Readers, Sysops}
=============================================================================
