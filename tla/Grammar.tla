------------------------------- MODULE Grammar -------------------------------
(***************************************************************************)
(* The grammar of the CGI language in Backus-Naur form, left recursive where *)
(* operators associate to the left, and the trees it gives to the sentences   *)
(* of a vocabulary: what Parser has to compute, said without parsing.         *)
(***************************************************************************)
EXTENDS Parser

(* A rule <<heads, symbols, node>>: each of the heads may be the symbols.  The  *)
(* trees of the symbols become the children of the node; if node is <<>>, they *)
(* are those of the head.  No head has a rule with one symbol that is a head:  *)
(* where one symbol may be another one, it is a head of the other's rules.     *)
Is(heads, symbols)           == {<<heads, symbols, <<>>>>}
Node(heads, symbols, n)      == {<<heads, symbols, <<n>>>>}
Leaves(heads, tokens)        == {<<heads, <<t>>, <<t>>>> : t \in tokens}
Signs(heads, ops, x)         == {<<heads, <<op, x>>, <<"UnaryOp", op>>>> : op \in ops}
Operators(heads, x, ops, y)  == {<<heads, <<x, op, y>>, <<"BinaryOp", op>>>> : op \in ops}

(* What an expression may be as well, from the assignments down.              *)
Assignments  == {"expression", "maybe", "list"}
Disjunctions == {"disjunction"} \cup Assignments
Conjunctions == {"conjunction"} \cup Disjunctions
Equalities   == {"equality"} \cup Conjunctions
Relations    == {"relation"} \cup Equalities
Sums         == {"sum"} \cup Relations
Products     == {"product"} \cup Sums
Signed       == {"signed"} \cup Products

ExpressionRules ==
  Leaves(Signed, {"INTEGER", "REALNUM", "STRINGLIT", "TRUE", "FALSE"})
    \cup Leaves({"name"} \cup Signed, {"IDENTIFIER", "ENV_VAR"})
    \cup Is({"name"}, <<"LPAREN", "name", "RPAREN">>)
    \cup Is(Signed, <<"LPAREN", "expression", "RPAREN">>)
    \cup Signs(Signed, {"MINUS", "NOT"}, "signed")
    \cup Operators(Products, "product", {"MULTIPLY", "DIVIDE", "MODULO"}, "signed")
    \cup Operators(Sums, "sum", {"PLUS", "MINUS"}, "product")
    \cup Operators(Relations, "relation", {"LESS", "GREATER", "LESSEQUAL", "GREATEREQUAL"}, "sum")
    \cup Operators(Equalities, "equality", {"EQUAL", "NOTEQUAL"}, "relation")
    \cup Operators(Conjunctions, "conjunction", {"AND"}, "equality")
    \cup Operators(Disjunctions, "disjunction", {"OR"}, "conjunction")
    \cup Node(Assignments, <<"name", "ASSIGN", "expression">>, "Assignment")
    \cup Node({"maybe"}, <<>>, "nullptr")
    \cup Is({"list"}, <<"list", "COMMA", "expression">>)

(* The branch before an else is closed: it does not end in an if without one.  *)
Statements == {"statement", "closed"}
Ending(x) ==
  Is({x}, <<"IDENTIFIER", "COLON", x>>)
    \cup Node({x}, <<"IF", "LPAREN", "expression", "RPAREN", "closed", "ELSE", x>>, "IfStatement")
    \cup Node({x}, <<"WHILE", "LPAREN", "expression", "RPAREN", x>>, "WhileStatement")
    \cup Node({x}, <<"FOR", "LPAREN", "maybe", "SEMICOLON", "maybe", "SEMICOLON", "maybe",
                     "RPAREN", x>>, "ForStatement")
StatementRules ==
  Node(Statements, <<"expression", "SEMICOLON">>, "ExpressionStatement")
    \cup Is({"block"}, <<"LBRACE">>) \cup Is({"block"}, <<"block", "statement">>)
    \cup Node(Statements, <<"block", "RBRACE">>, "CompoundStatement")
    \cup Node(Statements, <<"DO", "statement", "WHILE", "LPAREN", "expression", "RPAREN",
                            "SEMICOLON">>, "DoWhileStatement")
    \cup Leaves({"variable"}, {"IDENTIFIER"})
    \cup Node(Statements, <<"READ", "LPAREN", "variable", "RPAREN", "SEMICOLON">>, "ReadStatement")
    \cup Node(Statements, <<"WRITE", "LPAREN", "RPAREN", "SEMICOLON">>, "WriteStatement")
    \cup Node(Statements, <<"WRITE", "LPAREN", "list", "RPAREN", "SEMICOLON">>, "WriteStatement")
    \cup Node({"statement"}, <<"IF", "LPAREN", "expression", "RPAREN", "statement">>, "IfStatement")
    \cup Ending("statement") \cup Ending("closed")

(* The variables of a type, and the list of them.                             *)
One == [INT |-> "int", REAL |-> "real", STRING |-> "string", BOOLEAN |-> "boolean"]
All == [INT |-> "ints", REAL |-> "reals", STRING |-> "strings", BOOLEAN |-> "booleans"]
OfType(t) ==
  {<<{One[t], All[t]}, <<"IDENTIFIER">>, <<"VariableDecl", t, <<"IDENTIFIER">>>>>>,
   <<{One[t], All[t]}, <<"IDENTIFIER", "ASSIGN", "expression">>,
     <<"VariableDecl", t, <<"IDENTIFIER">>>>>>}
    \cup Is({All[t]}, <<All[t], "COMMA", One[t]>>)
    \cup Is({"declaration"}, <<t, All[t]>>)
ProgramRules ==
  OfType("INT") \cup OfType("REAL") \cup OfType("STRING") \cup OfType("BOOLEAN")
    \cup Is({"program"}, <<"PROGRAM">>) \cup Is({"program"}, <<"program", "statement">>)
    \cup Is({"program"}, <<"program", "declaration">>)
    \cup Is({"program"}, <<"program", "declaration", "SEMICOLON">>)

Rules   == ExpressionRules \cup StatementRules \cup ProgramRules
Symbols == UNION {rule[1] : rule \in Rules}

-----------------------------------------------------------------------------
(* What a symbol may be, as [tokens, trees, declarations]: the trees of         *)
(* declarations are kept apart, since they come before all statements.         *)
Nothing    == [tokens |-> <<>>, trees |-> <<>>, declarations |-> <<>>]
Then(r, s) == [tokens       |-> r.tokens \o s.tokens,
               trees        |-> r.trees \o s.trees,
               declarations |-> r.declarations \o s.declarations]
Token(t)   == [Nothing EXCEPT !.tokens = <<t>>]

Build(node, s) ==
  IF node = <<>> THEN s
  ELSE IF node[1] = "VariableDecl"
    THEN [s EXCEPT !.trees = <<>>, !.declarations = <<node \o s.trees>>]
    ELSE [s EXCEPT !.trees = <<node \o @>>]

(* What the first k symbols may be in m tokens, for m up to n, if what a symbol *)
(* may be in fewer than n tokens is in the table shorter: the first k - 1 of    *)
(* them, and then the symbol x.                                              *)
Longer(v, shorter, n, start, x) ==
  IF x \in Symbols
    THEN [m \in 0 .. n |->
            UNION {LET last == shorter[i][x] IN
                     IF last = {} THEN {}
                     ELSE {Then(p, s) : p \in start[m - i], s \in last} :
                   i \in (0 .. m) \ {n}}]
    ELSE [m \in 0 .. n |->
            IF m = 0 \/ x \notin v.tokens THEN {} ELSE {Then(p, Token(x)) : p \in start[m - 1]}]
Starts(v, shorter, n, symbols) ==
  LET Start[k \in 0 .. Len(symbols)] ==
        IF k = 0 THEN [m \in 0 .. n |-> IF m = 0 THEN {Nothing} ELSE {}]
                 ELSE Longer(v, shorter, n, Start[k - 1], symbols[k])
  IN  Start

(* What the symbols may be in n tokens, and in 0 to n tokens.                   *)
Row(v, shorter, n) ==
  LET Made(rule) ==
        {Build(rule[3], s) : s \in Starts(v, shorter, n, rule[2])[Len(rule[2])][n]}
      made == {<<rule[1], Made(rule)>> : rule \in Rules}
  IN  [x \in Symbols |-> UNION {m[2] : m \in {r \in made : x \in r[1]}}]
Table(v) ==
  LET Rows[n \in 0 .. v.most] ==
        LET shorter == IF n = 0 THEN <<>> ELSE Rows[n - 1]
            row     == Row(v, shorter, n)
        IN  [m \in 0 .. n |-> IF m = n THEN row ELSE shorter[m]]
  IN  Rows

Sentences ==
  [v \in Vocabularies |->
     LET table == Table(v)[v.most] IN UNION {table[n]["program"] : n \in 0 .. v.most}]

Viable ==
  [v \in Vocabularies |->
     UNION {{SubSeq(s.tokens, 1, n) : n \in 0 .. Len(s.tokens)} : s \in Sentences[v]}]

-----------------------------------------------------------------------------
(* What the parser returns is the tree that the grammar gives to the tokens:   *)
(* precedence and associativity of operators, the if of every else, and the   *)
(* order of declarations and statements, none of which is lost; and no number *)
(* in it is too large.                                                       *)
Read == Restrict(input, {n \in DOMAIN input : input[n] # END})
MeansGrammar ==
  outcome = "parsed" =>
    [tokens |-> Read, trees |-> Tail(Head(built)), declarations |-> declarations]
      \in Sentences[vocabulary]

(* The parser throws only where no sentence of the grammar goes on.            *)
Considered == SubSeq(input, 1, Len(input) - 1)
ThrowsOnlyAtErrors ==
  outcome \notin {"parsing", "parsed"} =>
    IF Last(Considered) = END THEN Read \notin {s.tokens : s \in Sentences[vocabulary]}
                              ELSE Considered \notin Viable[vocabulary]

=============================================================================
