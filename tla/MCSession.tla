------------------------------ MODULE MCSession -----------------------------
(* Session for TLC: the requests of the client.                              *)
EXTENDS Session

Line    == <<"text", "newline">>
HttpText(headers, body, asks) ==
  [text |-> Line \o headers \o <<"newline">> \o body, asks |-> asks]

(* Three and four bytes: with a buffer of two the second fills it exactly.    *)
File    == HttpText(<<>>, <<>>, "file")
Script  == HttpText(<<>>, <<>>, "cgi")
Form    == HttpText(<<>>, <<"text">>, "cgi")
Headers == HttpText(Line, <<>>, "file")
Delete  == HttpText(<<>>, <<>>, "unknown method")

(* One after the other.                                                      *)
MixedRequests    == <<Script, Form, File, Delete>>
MostlyShort      == <<Script, File, Script, Delete, Form>>
CgiRequests      == <<Script, Form, File>>

=============================================================================
