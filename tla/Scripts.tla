------------------------------- MODULE Scripts ------------------------------
(***************************************************************************)
(* From the file of a script to its tokens: main() of lang/main.cpp reads the *)
(* file and hands it to CgiHandler::handleRequest(), whose interpreter        *)
(* constructs the lexer over it and calls nextToken().                       *)
(***************************************************************************)
EXTENDS Lexer

CONSTANT Files

ASSUME FileAssumption == \A f \in Files : f \in Seq(STRING)

VARIABLES file, rest, good, firstLine, script, pc   (* of the launcher         *)

launcherVars == <<file, rest, good, firstLine, script, pc>>

Launcher == INSTANCE Launcher WITH line <- firstLine

Init == Launcher!Init /\ Constructed

Launch == Launcher!Next /\ UNCHANGED vars

Handle ==
  /\ pc = "handle" /\ pc' = "lexing"
  /\ source' = script
  /\ UNCHANGED <<file, rest, good, firstLine, script, position, line, column, tokens>>

Lex == pc = "lexing" /\ NextToken /\ UNCHANGED launcherVars

Next == Launch \/ Handle \/ Lex

Spec == Init /\ [][Next]_<<launcherVars, vars>>

-----------------------------------------------------------------------------
(* "Remove shebang from script": of a file the lexer is given the first line, if *)
(* it is no shebang, and all that is behind that line, but for its newline and   *)
(* at most one character more.                                               *)
ScriptKept ==
  pc = "lexing" =>
    LET first == IF Launcher!Shebang(file) THEN <<>> ELSE Launcher!FirstLine(file)
        below == Launcher!Following(file)
    IN  \E lost \in 0 .. 1 :
          lost <= Len(below) /\ source = first \o SubSeq(below, lost + 1, Len(below))

=============================================================================
