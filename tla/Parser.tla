-------------------------------- MODULE Parser -------------------------------
(***************************************************************************)
(* The parser of the CGI language, lang/src/parser.cpp: recursive descent    *)
(* over the tokens of the lexer, with one token of lookahead.                *)
(*                                                                         *)
(* calls is the stack of what the active parse functions have still to do,    *)
(* the next thing first: a call of a parse function, an expect(), or the      *)
(* construction of a node from the nodes on top of built.  A token is its     *)
(* type; a node is its class, what it was told apart by, and its children.    *)
(***************************************************************************)
EXTENDS Integers, SequencesExt

CONSTANT Vocabularies   (* [tokens, most]: which tokens a script is made of, and how many *)

END       == "END_OF_FILE"
Types     == {"INT", "STRING", "BOOLEAN", "REAL"}
Names     == {"IDENTIFIER", "ENV_VAR"}
Literals  == {"INTEGER", "REALNUM", "STRINGLIT", "TRUE", "FALSE"}
Unary     == {"MINUS", "NOT"}
TooLarge  == "TOO_LARGE"   (* a number that stoi() or stod() cannot hold         *)

ASSUME VocabularyAssumption ==
  \A v \in Vocabularies : END \notin v.tokens /\ v.most \in Nat

VARIABLES
  vocabulary,    (* what the script is made of                                *)
  input,         (* what lexer.nextToken() has returned                       *)
  calls, built,
  declarations,  (* the vector of parseProgram()                              *)
  outcome        (* "parsing", "parsed", or the exception that was thrown      *)

vars == <<vocabulary, input, calls, built, declarations, outcome>>

-----------------------------------------------------------------------------
(* Tokens.                                                                   *)

(* The lexer returns the end for ever once it has come to it.                 *)
Supply(v, read) ==
  IF Len(read) = v.most \/ END \in ToSet(read) THEN {END} ELSE v.tokens \cup {END}

currentToken == input[Len(input) - 1]
peekToken    == Last(input)

NextToken == \E t \in Supply(vocabulary, input) : input' = Append(input, t)

(* What may be on the stack.                                                 *)
Call(f)       == <<f>>
Of(f, what)   == <<f, what>>
Expect(t)     == <<"expect", t>>
Make(node, n) == <<"make", node, n>>

Statement  == Call("statement")
Expression == Call("assignment")

Due(f)       == calls # <<>> /\ Head(calls)[1] = f
Instead(todo) == calls' = todo \o Tail(calls)

Calls(todo) ==
  Instead(todo) /\ UNCHANGED <<vocabulary, input, built, declarations, outcome>>
Consumes(todo) ==
  NextToken /\ Instead(todo) /\ UNCHANGED <<vocabulary, built, declarations, outcome>>
Pushes(node, todo) ==
  /\ built' = <<node>> \o built
  /\ Instead(todo) /\ UNCHANGED <<vocabulary, input, declarations, outcome>>

(* An exception leaves all the functions.                                    *)
Throws(why) ==
  /\ outcome' = why /\ calls' = <<>> /\ built' = <<>>
  /\ UNCHANGED <<vocabulary, input, declarations>>

(* expect(), with the error() of its caller.                                  *)
ExpectToken ==
  /\ Due("expect")
  /\ IF currentToken = Head(calls)[2] THEN Consumes(<<>>) ELSE Throws("runtime_error")

(* make_unique<...>() of the nodes built last.                                *)
MakeNode ==
  /\ Due("make")
  /\ LET n == Head(calls)[3] IN
       built' = <<Head(calls)[2] \o Reverse(SubSeq(built, 1, n))>>
                  \o SubSeq(built, n + 1, Len(built))
  /\ Instead(<<>>) /\ UNCHANGED <<vocabulary, input, declarations, outcome>>

(* push_back() to the vector below the node.                                  *)
PushBack ==
  /\ Due("push_back")
  /\ built' = <<Append(built[2], built[1])>> \o SubSeq(built, 3, Len(built))
  /\ Instead(<<>>) /\ UNCHANGED <<vocabulary, input, declarations, outcome>>

-----------------------------------------------------------------------------
(* The program and its declarations.                                         *)

(* Parser::Parser() reads two tokens.                                        *)
Init ==
  /\ vocabulary \in Vocabularies
  /\ \E t \in Supply(vocabulary, <<>>) : \E u \in Supply(vocabulary, <<t>>) : input = <<t, u>>
  /\ calls = <<Expect("PROGRAM"), Call("program")>>
  /\ built = <<<<"Program">>>> /\ declarations = <<>> /\ outcome = "parsing"

ParseProgram ==
  /\ Due("program")
  /\ \/ currentToken \in Types
        /\ Pushes(<<>>, <<Call("type"), Call("declarations"), Call("program")>>)
     \/ currentToken \notin Types \cup {END}
        /\ Calls(<<Statement, Call("push_back"), Call("program")>>)
     \/ /\ currentToken = END
        /\ outcome' = "parsed" /\ calls' = <<>>
        /\ UNCHANGED <<vocabulary, input, built, declarations>>

(* parseType(), then parseVariableList().                                    *)
ParseType ==
  /\ Due("type")
  /\ LET variable == Of("variable", currentToken) IN
       Consumes(<<variable, Call("push_back"), Of("more", variable)>>)

(* while (expect(TokenType::SEMICOLON)); at the end the declarations are        *)
(* inserted behind those that parseProgram() has.                             *)
MutParseDeclarations ==   (* looks for the type before the semicolon is consumed *)
  /\ Due("declarations")
  /\ IF currentToken = "SEMICOLON" /\ peekToken \in Types
       THEN Consumes(<<Call("type"), Call("declarations")>>) ELSE Calls(<<Call("declared")>>)
ParseDeclarations ==
  /\ Due("declarations")
  /\ \/ currentToken = "SEMICOLON" /\ peekToken \in Types
        /\ Consumes(<<Call("type"), Call("declarations")>>)
     \/ currentToken = "SEMICOLON" /\ peekToken \notin Types /\ Consumes(<<Call("declared")>>)
     \/ currentToken # "SEMICOLON" /\ Calls(<<Call("declared")>>)

Inserted(decls) == declarations \o decls
InsertDeclarations ==
  /\ Due("declared")
  /\ declarations' = Inserted(Head(built)) /\ built' = Tail(built)
  /\ Instead(<<>>) /\ UNCHANGED <<vocabulary, input, outcome>>

(* while (expect(TokenType::COMMA))                                          *)
ParseMore ==
  /\ Due("more")
  /\ LET item == Head(calls)[2] IN
       IF currentToken = "COMMA" THEN Consumes(<<item, Call("push_back"), Of("more", item)>>)
                                 ELSE Calls(<<>>)

ParseIdentifier ==
  /\ Due("identifier")
  /\ IF currentToken # "IDENTIFIER" THEN Throws("runtime_error")
     ELSE /\ NextToken /\ built' = <<<<"IDENTIFIER">>>> \o built
          /\ Instead(<<>>) /\ UNCHANGED <<vocabulary, declarations, outcome>>

VariableDecl(type, n) == Make(<<"VariableDecl", type>>, n)
ParseVariableDecl ==
  \/ Due("variable") /\ Calls(<<Call("identifier"), Of("initializer", Head(calls)[2])>>)
  \/ /\ Due("initializer")
     /\ LET type == Head(calls)[2] IN
          IF currentToken = "ASSIGN" THEN Consumes(<<Expression, VariableDecl(type, 2)>>)
                                     ELSE Calls(<<VariableDecl(type, 1)>>)

-----------------------------------------------------------------------------
(* Expressions.                                                              *)

(* The operators of parseOr(), parseAnd(), parseEquality(), parseRelational(), *)
(* parseAdditive() and parseMultiplicative(), each of which calls the next.    *)
MutLevels ==   (* one loop for all the arithmetic operators *)
          <<{"OR"}, {"AND"}, {"EQUAL", "NOTEQUAL"},
            {"LESS", "GREATER", "LESSEQUAL", "GREATEREQUAL"},
            {"PLUS", "MINUS", "MULTIPLY", "DIVIDE", "MODULO"}>>
Levels == <<{"OR"}, {"AND"}, {"EQUAL", "NOTEQUAL"},
            {"LESS", "GREATER", "LESSEQUAL", "GREATEREQUAL"},
            {"PLUS", "MINUS"}, {"MULTIPLY", "DIVIDE", "MODULO"}>>

(* The function of level k calls those of the levels above it, and they        *)
(* parseUnary(), before any of them looks at the token.                       *)
Operand(k) ==
  LET Rest == SubSeq([i \in DOMAIN Levels |-> Of("operators", i)], k, Len(Levels)) IN
    <<Call("unary")>> \o Reverse(Rest)

(* The name of an Assignment is left->toString().                             *)
Assignment == Make(<<"Assignment">>, 2)
ParseAssignment ==
  \/ Due("assignment") /\ Calls(Operand(1) \o <<Call("assign")>>)
  \/ /\ Due("assign")
     /\ IF currentToken # "ASSIGN" THEN Calls(<<>>)
        ELSE IF Head(built)[1] \notin Names THEN Throws("runtime_error")
        ELSE Consumes(<<Expression, Assignment>>)

BinaryOp(op) == Make(<<"BinaryOp", op>>, 2)
ParseBinary ==
  /\ Due("operators")
  /\ LET k == Head(calls)[2] IN
       IF currentToken \notin Levels[k] THEN Calls(<<>>)
       ELSE Consumes(Operand(k + 1) \o <<BinaryOp(currentToken), Of("operators", k)>>)

UnaryOp(op) == Make(<<"UnaryOp", op>>, 1)
ParseUnary ==
  /\ Due("unary")
  /\ IF currentToken \in Unary THEN Consumes(<<Call("unary"), UnaryOp(currentToken)>>)
                               ELSE Calls(<<Call("primary")>>)

(* A literal, a name, or parentheses.  The token of a number is consumed       *)
(* before stoi() or stod() throws; any other token is not.                    *)
ParsePrimary ==
  /\ Due("primary")
  /\ \/ /\ currentToken \in Literals \cup Names
        /\ NextToken /\ built' = <<<<currentToken>>>> \o built
        /\ Instead(<<>>) /\ UNCHANGED <<vocabulary, declarations, outcome>>
     \/ /\ currentToken = TooLarge /\ NextToken
        /\ outcome' = "out_of_range" /\ calls' = <<>> /\ built' = <<>>
        /\ UNCHANGED <<vocabulary, declarations>>
     \/ currentToken = "LPAREN" /\ Consumes(<<Expression, Expect("RPAREN")>>)
     \/ currentToken \notin Literals \cup Names \cup {TooLarge, "LPAREN"}
        /\ Throws("runtime_error")

-----------------------------------------------------------------------------
(* Statements.                                                               *)

Condition == <<Expect("LPAREN"), Expression, Expect("RPAREN")>>

(* switch (currentToken.type)                                                *)
Case(t) == Due("statement") /\ currentToken = t

(* while (!currentToken.is(TokenType::RBRACE)): at the end of the file it is   *)
(* the statement that throws.                                                *)
ParseCompoundStatement ==
  \/ Case("LBRACE") /\ Pushes(<<"CompoundStatement">>, <<Expect("LBRACE"), Call("block")>>)
  \/ /\ Due("block")
     /\ IF currentToken = "RBRACE" THEN Calls(<<Expect("RBRACE")>>)
        ELSE Calls(<<Statement, Call("push_back"), Call("block")>>)

IfStatement(n) == Make(<<"IfStatement">>, n)
ParseIfStatement ==
  \/ Case("IF") /\ Calls(<<Expect("IF")>> \o Condition \o <<Statement, Call("else")>>)
  \/ /\ Due("else")
     /\ IF currentToken = "ELSE" THEN Consumes(<<Statement, IfStatement(3)>>)
                                 ELSE Calls(<<IfStatement(2)>>)

WhileStatement == Make(<<"WhileStatement">>, 2)
ParseWhileStatement ==
  /\ Case("WHILE")
  /\ Calls(<<Expect("WHILE")>> \o Condition \o <<Statement, WhileStatement>>)

DoWhileStatement == Make(<<"DoWhileStatement">>, 2)
ParseDoWhileStatement ==
  /\ Case("DO")
  /\ Calls(<<Expect("DO"), Statement, Expect("WHILE")>> \o Condition
             \o <<Expect("SEMICOLON"), DoWhileStatement>>)

(* Each of the three expressions may be missing.                              *)
Optional(end) == Of("optional", end)
ForStatement == Make(<<"ForStatement">>, 4)
ParseForStatement ==
  \/ /\ Case("FOR")
     /\ Calls(<<Expect("FOR"), Expect("LPAREN"),
                Optional("SEMICOLON"), Expect("SEMICOLON"),
                Optional("SEMICOLON"), Expect("SEMICOLON"),
                Optional("RPAREN"), Expect("RPAREN"), Statement, ForStatement>>)
  \/ /\ Due("optional")
     /\ IF currentToken = Head(calls)[2] THEN Pushes(<<"nullptr">>, <<>>)
                                         ELSE Calls(<<Expression>>)

ReadStatement == Make(<<"ReadStatement">>, 1)
ParseReadStatement ==
  /\ Case("READ")
  /\ Calls(<<Expect("READ"), Expect("LPAREN"), Call("identifier"), Expect("RPAREN"),
             Expect("SEMICOLON"), ReadStatement>>)

ParseWriteStatement ==
  /\ Case("WRITE")
  /\ Pushes(<<"WriteStatement">>,
            <<Expect("WRITE"), Expect("LPAREN"), Call("arguments"), Expect("RPAREN"),
              Expect("SEMICOLON")>>)

ParseExpressionList ==
  /\ Due("arguments")
  /\ IF currentToken = "RPAREN" THEN Calls(<<>>)
     ELSE Calls(<<Expression, Call("push_back"), Of("more", Expression)>>)

(* The only use of the lookahead; a label is skipped.                          *)
Labelled == peekToken = "COLON"
MutParseLabeledStatement ==   (* the label is not skipped *)
  Case("IDENTIFIER") /\ Labelled /\ Calls(<<Statement>>)
ParseLabeledStatement ==
  /\ Case("IDENTIFIER") /\ Labelled
  /\ Calls(<<Expect("IDENTIFIER"), Expect("COLON"), Statement>>)

Keywords == {"LBRACE", "IF", "WHILE", "DO", "FOR", "READ", "WRITE"}
ExpressionStatement == Make(<<"ExpressionStatement">>, 1)
ParseExpressionStatement ==
  /\ Due("statement")
  /\ currentToken \notin Keywords /\ ~(currentToken = "IDENTIFIER" /\ Labelled)
  /\ Calls(<<Expression, Expect("SEMICOLON"), ExpressionStatement>>)

-----------------------------------------------------------------------------

ParseExpression ==
  ParseAssignment \/ ParseBinary \/ ParseUnary \/ ParsePrimary

ParseStatement ==
  \/ ParseCompoundStatement \/ ParseIfStatement \/ ParseWhileStatement
  \/ ParseDoWhileStatement \/ ParseForStatement \/ ParseReadStatement
  \/ ParseWriteStatement \/ ParseExpressionList \/ ParseLabeledStatement
  \/ ParseExpressionStatement

Parse ==
  \/ ParseProgram \/ ParseType \/ ParseDeclarations \/ InsertDeclarations
  \/ ParseMore \/ ParseIdentifier \/ ParseVariableDecl

Next == ExpectToken \/ MakeNode \/ PushBack \/ Parse \/ ParseStatement \/ ParseExpression

Spec == Init /\ [][Next]_vars

(* The parser runs until it returns or throws.                                *)
FairSpec == Spec /\ WF_vars(Next)

-----------------------------------------------------------------------------
(* Whatever the tokens are, the loops and the recursion come to an end.        *)
Terminates == <>(outcome # "parsing")

=============================================================================
