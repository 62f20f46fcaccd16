------------------------------ MODULE Launcher ------------------------------
(***************************************************************************)
(* main() of the CGI language, lang/main.cpp: how it reads the script that   *)
(* it hands to CgiHandler::handleRequest().                                  *)
(***************************************************************************)
EXTENDS Integers, SequencesExt

CONSTANT Files   (* sequences of characters                                *)

VARIABLES
  file,       (* what the file holds; nothing if it cannot be opened           *)
  rest,       (* what script_file has not delivered                           *)
  good,       (* script_file.good()                                          *)
  line,       (* the local line                                               *)
  script,
  pc

vars == <<file, rest, good, line, script, pc>>

(* starts_with("#!")                                                          *)
Shebang(s) == IsPrefix(<<"#", "!">>, s)

(* A file that cannot be opened leaves a stream that is not good.              *)
Init ==
  /\ file \in Files /\ good \in BOOLEAN /\ (~good => file = <<>>)
  /\ rest = file /\ line = <<>> /\ script = <<>> /\ pc = "getline"

Newlines(s)  == {i \in DOMAIN s : s[i] = "newline"}
FirstLine(s) == IF Newlines(s) = {} THEN s ELSE SubSeq(s, 1, Min(Newlines(s)) - 1)
Following(s) == IF Newlines(s) = {} THEN <<>> ELSE SubSeq(s, Min(Newlines(s)) + 1, Len(s))

(* "Remove shebang from script": the line is cleared.                         *)
Kept(s) == IF Shebang(s) THEN <<>> ELSE s

(* std::getline(script_file, line)                                           *)
GetLine ==
  /\ pc = "getline" /\ pc' = "ignore"
  /\ line' = IF good THEN Kept(FirstLine(rest)) ELSE <<>>
  /\ rest' = Following(rest)
  /\ good' = (good /\ Newlines(rest) # {})
  /\ UNCHANGED <<file, script>>

MutIgnored == Following(rest)
Ignored == IF good /\ rest # <<>> THEN Tail(rest) ELSE rest

(* script_file.ignore(): one more character is dropped.                       *)
Ignore ==
  /\ pc = "ignore" /\ pc' = "rest"
  /\ rest' = Ignored
  /\ good' = (good /\ rest # <<>>)
  /\ UNCHANGED <<file, line, script>>

(* script_file >> rest.rdbuf(); the script is line + rest.str().               *)
ReadRest ==
  /\ pc = "rest" /\ pc' = "handle"
  /\ script' = line \o (IF good THEN rest ELSE <<>>)
  /\ rest' = <<>> /\ good' = FALSE
  /\ UNCHANGED <<file, line>>

Next == GetLine \/ Ignore \/ ReadRest

=============================================================================
