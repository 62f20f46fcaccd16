----------------------------- MODULE MCExchange ----------------------------
(* Exchange for TLC: the titles, the files, and what scripts write.            *)
EXTENDS Exchange

Punctuation == {"x", "?", "=", "&"}

(* Whatever is short.                                                        *)
ShortTitles == SeqOf(Punctuation \cup {"GET", Blank}, 4)

(* A method, and whatever follows it.                                        *)
MethodFirst == {<<"GET", Blank>> \o s : s \in SeqOf(Punctuation \cup {Blank}, 5)}

(* A target of any form between a method and a version.                       *)
RequestLines == {<<"GET", Blank>> \o s \o <<Blank, "x">> : s \in SeqOf(Punctuation, 7)}

(* Paths, with and without parameters.                                        *)
Paths == {<<m, Blank>> \o path \o query \o <<Blank, "x">> :
            m \in Methods \cup {"POST"}, query \in {<<>>, <<"?", "x">>},
            path \in SeqOf({"x", "html", "jpg", "jpeg", "/cgi-bin"}, 2)}

MCTitles == ShortTitles \cup MethodFirst \cup RequestLines \cup Paths

A == <<"a">>

(* The root, and files that are empty, contain a NUL or an empty line.          *)
MCDisk ==
  (<<>> :> Directory) @@ (<<"x">> :> <<A, NUL, A>>) @@ (<<"x", "x">> :> <<>>)
  @@ (<<"x", "html">> :> <<Newline, A>>) @@ (<<"x", "jpg">> :> <<A>>) @@ (<<"x", "jpeg">> :> <<A>>)
  @@ (<<"/cgi-bin">> :> Directory) @@ (<<"/cgi-bin", "x">> :> <<A>>)

(* A response, one with a NUL in it, one without headers, and nothing.          *)
MCOutputs ==
  {<<<<"HTTP/1.1", 200>>, <<"Content-Length", 2>>, Newline, A, c>> : c \in {A, Newline, NUL}}
  \cup {<<Newline, A>>, <<>>}

=============================================================================
