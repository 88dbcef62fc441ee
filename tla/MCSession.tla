----------------------------- MODULE MCSession -----------------------------
(* A buffer of receive of nine characters: what is typed and said fits it,    *)
(* fits what send accepts but not the buffer, or neither.                     *)
EXTENDS Session

MCLinks == {Up, Down}
MCNames == {<<"u">>}
MCRoomNames == {<<"r">>, <<"r", " ">>}
MCInputs ==
  {<<>>, <<"/", "join">>, <<"/", "join", " ", "r">>, <<"/", "join", " ", "ignored">>,
   <<"/", "leave">>, <<"/", "quit">>, <<"x">>, <<"x", "x", "x", "x", "x", "x", "x">>,
   <<"x", "x", "x", "x", "x", "x", "x", "x", "x", "x">>}
MCTexts == {<<"x">>, <<Colon>>, <<"x", "x", "x">>, <<"x", "x", "x", "x", "x", "x">>}
=============================================================================
