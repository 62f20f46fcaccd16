----------------------------- MODULE HttpMessage ----------------------------
(***************************************************************************)
(* HttpMessage of net/http/message.cpp: the constructor that reads a text   *)
(* line by line, and toString().                                            *)
(*                                                                         *)
(* A line is its words, in order, each a sequence of characters, and the     *)
(* number of blanks behind them ('\r' is one).  The machine follows the      *)
(* state of the std::istringstream: getline() sets eofbit when it reaches    *)
(* the end before a newline, and a getline() on a stream that is no longer   *)
(* good leaves its string as it is.                                         *)
(***************************************************************************)
EXTENDS Integers, SequencesExt

CONSTANTS
  Words,      (* the words of the texts: non-empty sequences of characters    *)
  MaxWords,   (* words on a line                                              *)
  MaxBlanks,  (* blanks behind them                                           *)
  MaxLines    (* lines in a text                                              *)

Colon == ":"
Line  == [words : SeqOf(Words, MaxWords), blanks : 0 .. MaxBlanks]

(* A text; its last line may lack its newline, unless nothing is on it.       *)
LineSize(l) ==
  l.blanks + (IF l.words = <<>> THEN 0 ELSE Len(FlattenSeq(l.words)) + Len(l.words) - 1)
Text ==
  {t \in [lines : SeqOf(Line, MaxLines), closed : BOOLEAN] :
     /\ t.lines = <<>> => t.closed
     /\ ~t.closed => LineSize(Last(t.lines)) > 0}

ASSUME WordAssumption == \A w \in Words : w \in Seq(ToSet(w)) /\ w # <<>>
ASSUME BoundAssumption == MaxWords \in Nat /\ MaxBlanks \in Nat /\ MaxLines \in Nat

VARIABLES
  text,       (* what the constructor was called with                         *)
  rest,       (* the lines of it still to be read                             *)
  good,       (* sin.good()                                                   *)
  line,       (* the local line                                               *)
  h_name, h_body,
  title, headers, body,
  pc

vars == <<text, rest, good, line, h_name, h_body, title, headers, body, pc>>

EmptyLine == [words |-> <<>>, blanks |-> 0]

NoText == [lines |-> <<>>, closed |-> TRUE]

Init ==
  /\ text \in Text
  /\ rest = text.lines /\ good = TRUE
  /\ line = EmptyLine /\ h_name = <<>> /\ h_body = <<>>
  /\ title = EmptyLine /\ headers = <<>> /\ body = NoText
  /\ pc = "title"

(* std::getline(sin, line): what it leaves in line, which lines are left, and *)
(* whether the stream is still good.                                         *)
Getline ==
  /\ line' = IF ~good THEN line ELSE IF rest = <<>> THEN EmptyLine ELSE Head(rest)
  /\ rest' = IF good /\ rest # <<>> THEN Tail(rest) ELSE rest
  /\ good' = (good /\ rest # <<>> /\ (Len(rest) > 1 \/ text.closed))

(* setTitle(line): the first line.                                           *)
ReadTitle ==
  /\ pc = "title"
  /\ Getline
  /\ title' = line'
  /\ pc' = "first"
  /\ UNCHANGED <<text, h_name, h_body, headers, body>>

ReadFirst ==
  /\ pc = "first"
  /\ Getline
  /\ pc' = "loop"
  /\ UNCHANGED <<text, h_name, h_body, title, headers, body>>

(* line_sin >> h_name >> h_body: words that are not there leave the strings   *)
(* as they were.                                                            *)
NameRead == IF line.words = <<>> THEN h_name ELSE line.words[1]
BodyRead == IF Len(line.words) < 2 THEN h_body ELSE line.words[2]

(* while (line.size() > 1); the mutant stops at an empty line only.            *)
MutIsHeader(l) == LineSize(l) > 0
IsHeader(l) == LineSize(l) > 1

(* h_name.pop_back(); // remove ':'                                          *)
Popped(n) == Front(n)

(* operator[](h_name) = h_body                                               *)
MutSetHeader(n, v) ==
  [x \in DOMAIN headers \cup {n} |-> IF x \in DOMAIN headers THEN headers[x] ELSE v]
SetHeader(n, v) ==
  [x \in DOMAIN headers \cup {n} |-> IF x = n THEN v ELSE headers[x]]

(* One turn of the loop; pop_back() of an empty name is undefined.            *)
Header ==
  /\ pc = "loop" /\ IsHeader(line)
  /\ \/ NameRead = <<>> /\ pc' = "undefined"
        /\ UNCHANGED <<h_name, h_body, headers>>
     \/ NameRead # <<>> /\ pc' = "next"
        /\ h_name' = Popped(NameRead)
        /\ h_body' = BodyRead
        /\ headers' = SetHeader(h_name', h_body')
  /\ UNCHANGED <<text, rest, good, line, title, body>>

NextLine ==
  /\ pc = "next"
  /\ Getline
  /\ pc' = "loop"
  /\ UNCHANGED <<text, h_name, h_body, title, headers, body>>

LoopEnds ==
  /\ pc = "loop" /\ ~IsHeader(line)
  /\ pc' = "body"
  /\ UNCHANGED <<text, rest, good, line, h_name, h_body, title, headers, body>>

(* std::getline(sin, body, '\0'); setBody(body).                             *)
ReadBody ==
  /\ pc = "body"
  /\ body' = IF good THEN [lines |-> rest, closed |-> text.closed] ELSE NoText
  /\ rest' = <<>> /\ good' = FALSE
  /\ pc' = "done"
  /\ UNCHANGED <<text, line, h_name, h_body, title, headers>>

(* toString(), with the headers in the order of the map, which is any here:   *)
(* the texts it can give for a title, headers and a body.                     *)
MutHeaderLine(n, v) == [words |-> <<n>> \o (IF v = <<>> THEN <<>> ELSE <<v>>),
                     blanks |-> IF v = <<>> THEN 1 ELSE 0]
HeaderLine(n, v) == [words |-> <<Append(n, Colon)>> \o (IF v = <<>> THEN <<>> ELSE <<v>>),
                     blanks |-> IF v = <<>> THEN 1 ELSE 0]
Output(t, h, b) ==
  {[lines  |-> <<t>> \o [i \in DOMAIN order |-> HeaderLine(order[i], h[order[i]])]
                     \o <<EmptyLine>> \o b.lines,
    closed |-> b.closed] : order \in SetToSeqs(DOMAIN h)}

Next == ReadTitle \/ ReadFirst \/ Header \/ NextLine \/ LoopEnds \/ ReadBody

Spec == Init /\ [][Next]_vars

(* The constructor runs until it returns.                                    *)
FairSpec == Spec /\ WF_vars(Next)

-----------------------------------------------------------------------------
(* What the text t says, without reading it line by line.                    *)

(* The lines after the title that may end the header.                        *)
Short(l)      == ~(LineSize(l) > 1)
Separators(t) == {i \in 2 .. Len(t.lines) : Short(t.lines[i])}
HeaderEnd(t)  == IF Separators(t) = {} THEN Len(t.lines) + 1 ELSE Min(Separators(t))
HeaderRows(t) == 2 .. HeaderEnd(t) - 1

HasEnd(t) ==
  \/ t.closed \/ Separators(t) # {}
  \/ Len(t.lines) = 1 /\ Short(t.lines[1])

(* A header line names something if a colon ends its first word, and no other  *)
(* colon is in it: a name is what stands in front of the colon.               *)
ColonsOf(w) == {k \in DOMAIN w : w[k] = Colon}
Names(l)    == l.words # <<>> /\ ColonsOf(l.words[1]) = {Len(l.words[1])}
HasValue(l) == Len(l.words) >= 2

(* Every header line names something, and none without a value comes below one *)
(* that has a value.                                                         *)
WellFormed(t) ==
  /\ t.lines # <<>> /\ HasEnd(t)
  /\ \A i \in HeaderRows(t) :
       /\ Names(t.lines[i])
       /\ HasValue(t.lines[i]) \/ \A k \in HeaderRows(t) : k < i => ~HasValue(t.lines[k])

NameOf(t, i)  ==
  LET w == t.lines[i].words[1] IN SubSeq(w, 1, Min(ColonsOf(w)) - 1)
ValueOf(t, i) == IF HasValue(t.lines[i]) THEN t.lines[i].words[2] ELSE <<>>
Meaning(t) ==
  [title   |-> t.lines[1],
   headers |-> [n \in {NameOf(t, i) : i \in HeaderRows(t)} |->
                  ValueOf(t, Max({i \in HeaderRows(t) : NameOf(t, i) = n}))],
   body    |-> IF HeaderEnd(t) >= Len(t.lines) THEN NoText
               ELSE [lines  |-> SubSeq(t.lines, HeaderEnd(t) + 1, Len(t.lines)),
                     closed |-> t.closed]]

(* Of the last first word in the header rows up to the i-th of t, pop_back()   *)
(* has taken a character for each line of blanks below it, and nothing is      *)
(* left for the i-th.                                                        *)
UsedUp(t, i) ==
  LET worded == {j \in 2 .. i : t.lines[j].words # <<>>} IN
    worded = {} \/ Len(t.lines[Max(worded)].words[1]) <= i - Max(worded)

Result == [title |-> title, headers |-> headers, body |-> body]

-----------------------------------------------------------------------------
(* pop_back() is called for an empty name, which is undefined, only if the      *)
(* header has more lines of blanks in a row than characters in the word above   *)
(* them, or the text ends in such a line, so that the loop never ends: never    *)
(* for the "\r" of the line that ends the header, nor for a name of one letter. *)
NamesLast ==
  pc = "undefined" =>
    \/ \E i \in HeaderRows(text) : UsedUp(text, i)
    \/ ~HasEnd(text) /\ Last(text.lines).words = <<>>

(* "remove ':'": of a text whose header lines name something each, the message *)
(* is the first line, for each name, without its colon, the first word of the   *)
(* value that came last, and everything behind the empty line.                 *)
MeansText == pc = "done" /\ WellFormed(text) => Result = Meaning(text)

(* Whatever toString() writes for a message that was read from a well-formed   *)
(* text, and has no empty values, is a well-formed text that means the same    *)
(* message.                                                                  *)
Serialises ==
  pc = "done" /\ WellFormed(text) /\ (\A n \in DOMAIN headers : headers[n] # <<>>) =>
    \A t \in Output(title, headers, body) : WellFormed(t) /\ Meaning(t) = Result

(* A text with an end is read to the end.                                    *)
Terminates == HasEnd(text) ~> pc \in {"done", "undefined"}

=============================================================================
