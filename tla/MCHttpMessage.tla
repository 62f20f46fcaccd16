---------------------------- MODULE MCHttpMessage ---------------------------
(* HttpMessage for TLC: the words of the texts.                              *)
EXTENDS HttpMessage

(* A name, another, and a word that is a value, or a name without its colon.   *)
MCWords == {<<"a", ":">>, <<"b", ":">>, <<"b">>}

=============================================================================
