----------------------------- MODULE HttpRequest ----------------------------
(***************************************************************************)
(* The constructor of HttpRequest in net/http/request.cpp: it takes the      *)
(* title of the message apart into method, URI, parameters and version.      *)
(*                                                                         *)
(* The title is a sequence of tokens: words, the delimiters of a URL, and     *)
(* blanks.  The machine calls scroll() and >> in the order of the code; pos   *)
(* is the position of the stream, and a read past the end sets failbit.       *)
(***************************************************************************)
EXTENDS Integers, SequencesExt

CONSTANTS
  Methods,    (* the words of the method table                                *)
  Others,     (* other words                                                  *)
  Titles      (* the titles of the messages                                   *)

Blank == " "
EOF   == "EOF"      (* the character that get() makes of the end               *)
Delims == {"?", "=", "&"}
Tokens == Methods \cup Others \cup Delims \cup {Blank}

ASSUME TokenAssumption ==
  /\ Methods \cap Others = {}
  /\ (Methods \cup Others) \cap (Delims \cup {Blank, EOF}) = {}
ASSUME TitleAssumption == Titles \subseteq Seq(Tokens)

VARIABLES
  source,     (* the title of the message                                     *)
  pos,        (* tokens the stream has delivered                              *)
  fail,       (* failbit                                                      *)
  piece,      (* the local piece                                              *)
  part, delim,  (* the local pair                                             *)
  key,        (* the key of the parameter whose value is read                 *)
  method, uri, params, version, title,
  pc

requestLocals ==
  <<source, pos, fail, piece, part, delim, key, method, uri, params, version, title>>
requestVars == <<requestLocals, pc>>

Construct ==
  /\ source \in Titles
  /\ pos = 0 /\ fail = FALSE
  /\ piece = <<>> /\ part = <<>> /\ delim = "none" /\ key = <<>>
  /\ method = "GET" /\ uri = <<>> /\ params = <<>> /\ version = <<>> /\ title = source
  /\ pc = "method"

-----------------------------------------------------------------------------
(* Reading.                                                                  *)

Rest == pos + 1 .. Len(source)
NonBlank(i) == source[i] # Blank

WordStart == {i \in Rest : NonBlank(i)}
WordEnd(i) ==
  Min({j \in i .. Len(source) + 1 : j = Len(source) + 1 \/ ~NonBlank(j)})

(* title >> piece: the next word, which is everything up to a blank; with      *)
(* none left, piece stays as it was.                                         *)
ReadWord ==
  IF fail \/ WordStart = {}
    THEN piece' = piece /\ fail' = TRUE /\ pos' = Len(source)
    ELSE /\ piece' = SubSeq(source, Min(WordStart), WordEnd(Min(WordStart)) - 1)
         /\ pos' = WordEnd(Min(WordStart)) - 1
         /\ fail' = fail

(* scroll(): blanks before the part are skipped, whatever the delimiters;      *)
(* then everything up to a delimiter, which is taken off the stream as well.  *)
(* At the end the part gets the end itself as its last character.             *)
MutSkipped == pos + 1
Skipped == IF WordStart = {} THEN Len(source) + 1 ELSE Min(WordStart)

Scroll(delims) ==
  LET start == Skipped
      stops == {i \in start .. Len(source) : source[i] \in delims}
      stop  == IF stops = {} THEN Len(source) + 1 ELSE Min(stops)
  IN  /\ part' = SubSeq(source, start, stop - 1) \o (IF stops = {} THEN <<EOF>> ELSE <<>>)
      /\ delim' = IF stops = {} THEN EOF ELSE source[stop]
      /\ pos' = IF stops = {} THEN Len(source) ELSE stop
      /\ fail' = (stops = {})

-----------------------------------------------------------------------------

(* updateTitle(): method, URI and version, without the parameters.            *)
Title(m, u, v) == <<m, Blank>> \o u \o <<Blank>> \o v

(* title >> piece; setMethod(piece): the method table is asked first.         *)
ReadMethod ==
  /\ pc = "method"
  /\ ReadWord
  /\ \/ \E m \in Methods : /\ piece' = <<m>>
                           /\ method' = m
                           /\ title' = Title(m, uri, version)
                           /\ pc' = "uri"
     \/ /\ piece' \notin {<<m>> : m \in Methods}
        /\ pc' = "unknown method" /\ UNCHANGED <<method, title>>
  /\ UNCHANGED <<source, part, delim, key, uri, params, version>>

(* scroll(title, "? "); setURI(pair.first)                                   *)
ReadURI ==
  /\ pc = "uri"
  /\ Scroll({"?", Blank})
  /\ uri' = part'
  /\ title' = Title(method, uri', version)
  /\ pc' = IF delim' = "?" THEN "key" ELSE "version"
  /\ UNCHANGED <<source, piece, key, method, params, version>>

SetParam(k, v) ==
  params' = [x \in DOMAIN params \cup {k} |-> IF x = k THEN v ELSE params[x]]

(* while (pair.second == '&')                                                *)
MutAfterParam(d) == IF d # Blank THEN "key" ELSE "version"
AfterParam(d) == IF d = "&" THEN "key" ELSE "version"

(* switch (pair.second): nothing is done for a key that the end breaks off.    *)
Counts(d) == d # EOF /\ part' # <<>>

(* scroll(title, "=& "): a key without a value counts if it is not empty.      *)
ReadKey ==
  /\ pc = "key"
  /\ Scroll({"=", "&", Blank})
  /\ \/ delim' = "=" /\ key' = part' /\ pc' = "value" /\ UNCHANGED params
     \/ /\ delim' # "=" /\ key' = key /\ pc' = AfterParam(delim')
        /\ IF Counts(delim') THEN SetParam(part', <<>>) ELSE UNCHANGED params
  /\ UNCHANGED <<source, piece, method, uri, version, title>>

(* scroll(title, "& "); setParam(key, pair.first)                            *)
ReadValue ==
  /\ pc = "value"
  /\ Scroll({"&", Blank})
  /\ SetParam(key, part')
  /\ pc' = AfterParam(delim')
  /\ UNCHANGED <<source, piece, key, method, uri, version, title>>

(* title >> piece; setVersion(piece)                                         *)
ReadVersion ==
  /\ pc = "version"
  /\ ReadWord
  /\ version' = piece'
  /\ title' = Title(method, uri, version')
  /\ pc' = "done"
  /\ UNCHANGED <<source, part, delim, key, method, uri, params>>

Constructor == ReadMethod \/ ReadURI \/ ReadKey \/ ReadValue \/ ReadVersion

-----------------------------------------------------------------------------
(* What the title t says, without scrolling through it.                       *)

Blanks(t) == {i \in DOMAIN t : t[i] = Blank}

(* A request line: a method, a target, and a version, a blank between them.   *)
RequestLine(t) ==
  \E i, j \in DOMAIN t :
    /\ Blanks(t) = {i, j} /\ i + 1 < j /\ j < Len(t)
    /\ \E m \in Methods : SubSeq(t, 1, i - 1) = <<m>>

Target(t)  == SubSeq(t, Min(Blanks(t)) + 1, Max(Blanks(t)) - 1)

Marks(s)    == {i \in DOMAIN s : s[i] = "?"}
Path(s)     == IF Marks(s) = {} THEN s ELSE SubSeq(s, 1, Min(Marks(s)) - 1)
Query(s)    == IF Marks(s) = {} THEN <<>> ELSE SubSeq(s, Min(Marks(s)) + 1, Len(s))

(* The first and the last token of each parameter of the query q.             *)
Between(q) ==
  {ij \in (1 .. Len(q) + 1) \X (0 .. Len(q)) :
     /\ ij[1] <= ij[2] + 1 /\ "&" \notin ToSet(SubSeq(q, ij[1], ij[2]))
     /\ ij[1] = 1 \/ q[ij[1] - 1] = "&"
     /\ ij[2] = Len(q) \/ q[ij[2] + 1] = "&"}
Equals(s)   == {i \in DOMAIN s : s[i] = "="}
KeyOf(s)    == IF Equals(s) = {} THEN s ELSE SubSeq(s, 1, Min(Equals(s)) - 1)
ValueOf(s)  == IF Equals(s) = {} THEN <<>> ELSE SubSeq(s, Min(Equals(s)) + 1, Len(s))

Parameters(q) ==
  LET Pair(ij)  == SubSeq(q, ij[1], ij[2])
      Pairs     == {ij \in Between(q) : Pair(ij) # <<>>}
      Latest(k) == CHOOSE ij \in Pairs :
                     /\ KeyOf(Pair(ij)) = k
                     /\ \A other \in Pairs : KeyOf(Pair(other)) = k => other[1] <= ij[1]
  IN  [k \in {KeyOf(Pair(ij)) : ij \in Pairs} |-> ValueOf(Pair(Latest(k)))]

Meaning(t) ==
  [method  |-> t[1],
   uri     |-> Path(Target(t)),
   params  |-> Parameters(Query(Target(t))),
   version |-> SubSeq(t, Max(Blanks(t)) + 1, Len(t)),
   title   |-> <<t[1], Blank>> \o Path(Target(t)) \o SubSeq(t, Max(Blanks(t)), Len(t))]

Result == [method |-> method, uri |-> uri, params |-> params, version |-> version,
           title |-> title]

(* The last key or the last value of the target is empty.                     *)
EmptyAtEnd(t) ==
  LET s == Target(t) IN
    \/ Marks(s) # {} /\ Last(s) = "&"
    \/ Marks(s) # {} /\ Min(Marks(s)) = Len(s)
    \/ Query(s) # <<>> /\ \E ij \in Between(Query(s)) :
         ij[2] = Len(Query(s)) /\ Equals(SubSeq(Query(s), ij[1], ij[2])) = {ij[2] - ij[1] + 1}

-----------------------------------------------------------------------------
(* A request line whose last key and last value are not empty is taken apart  *)
(* as it stands: the path, each parameter with the value it had last, the     *)
(* version; and the title is rewritten without the parameters.                *)
MeansRequestLine ==
  pc = "done" /\ RequestLine(source) /\ ~EmptyAtEnd(source) => Result = Meaning(source)

(* scroll() is never called on a stream that has failed: its loop would not   *)
(* run, and the delimiter it returns would be an uninitialised character.     *)
NeverUninitialised == pc \in {"uri", "key", "value"} => ~fail

=============================================================================
