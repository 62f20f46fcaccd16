------------------------------- MODULE MCParser ------------------------------
(* Parser for TLC: the vocabularies.                                         *)
EXTENDS Grammar

Up(most, tokens) == [tokens |-> tokens \cup {"PROGRAM", "SEMICOLON"}, most |-> most]

(* Three operators of different precedence; two of the other operators.        *)
Precedence == Up(9, {"IDENTIFIER", "OR", "AND", "EQUAL", "LESS", "PLUS", "MULTIPLY"})
Others     == Up(7, {"IDENTIFIER", "PLUS", "MINUS", "DIVIDE", "MODULO", "NOTEQUAL", "GREATER",
                     "LESSEQUAL", "GREATEREQUAL"})
(* Signs, parentheses and assignments.                                       *)
Nesting    == Up(8, {"IDENTIFIER", "MINUS", "MULTIPLY", "ASSIGN", "LPAREN", "RPAREN"})
(* Every token that may be an operand, and some that may not.                 *)
Operands   == Up(6, Literals \cup Names \cup {TooLarge, "NOT", "ERROR", "GOTO", "ASSIGN", "PLUS"})
(* Two conditional statements inside each other.                              *)
Branches   == Up(14, {"IDENTIFIER", "IF", "ELSE", "LPAREN", "RPAREN"})
Loops      == Up(13, {"IDENTIFIER", "WHILE", "DO", "LPAREN", "RPAREN"})
Blocks     == Up(8, {"IDENTIFIER", "LBRACE", "RBRACE", "IF", "LPAREN", "RPAREN"})
ForLoops   == Up(12, {"IDENTIFIER", "FOR", "LPAREN", "RPAREN"})
Simple     == Up(9, {"IDENTIFIER", "READ", "WRITE", "COMMA", "COLON", "LPAREN", "RPAREN"})
(* Declarations between statements, with and without a semicolon.             *)
Variables  == Up(8, {"IDENTIFIER", "INT", "STRING", "ASSIGN", "COMMA", "MINUS"})
AllTypes   == Up(6, {"IDENTIFIER", "TRUE", "ASSIGN"} \cup Types)

MCVocabularies ==
  {Precedence, Others, Nesting, Operands, Branches, Loops, Blocks, ForLoops, Simple, Variables,
   AllTypes}

=============================================================================
