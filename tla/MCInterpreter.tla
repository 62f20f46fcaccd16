---------------------------- MODULE MCInterpreter ---------------------------
(* Interpreter for TLC: programs over two variables.                          *)
EXTENDS Interpreter

Lit(v)          == [kind |-> "literal", value |-> v]
Num(n)          == Lit(Val("INT", n))
Var(n)          == [kind |-> "identifier", name |-> n]
Env(n)          == [kind |-> "environment", name |-> n]
Op(op, l, r)    == [kind |-> "binary", op |-> op, left |-> l, right |-> r]
Neg(op, e)      == [kind |-> "unary", op |-> op, expr |-> e]
Assign(n, e)    == [kind |-> "assignment", name |-> n, expr |-> e]
None            == [kind |-> "none"]

Expr(e)         == [kind |-> "expression", expr |-> e]
Write(es)       == [kind |-> "write", exprs |-> es]
Read(n)         == [kind |-> "read", name |-> n]
Block(ss)       == [kind |-> "compound", stmts |-> ss]
If(c, s)        == [kind |-> "if", cond |-> c, then |-> s, else |-> <<>>]
IfElse(c, s, t) == [kind |-> "if", cond |-> c, then |-> s, else |-> <<t>>]
While(c, s)     == [kind |-> "while", cond |-> c, body |-> s]
Do(s, c)        == [kind |-> "do", cond |-> c, body |-> s]
For(i, c, u, s) == [kind |-> "for", init |-> i, cond |-> c, update |-> u, body |-> s]

Decl(t, n, e)   == [type |-> t, name |-> n, init |-> e]

MCAlphabet    == <<"a", "b">>
MCEnvironment == "HOME" :> <<"a">>

(* What a line means as a number or a boolean, if it does.                    *)
MCInputs ==
  {[text |-> <<"a">>, means |-> <<>>],
   [text |-> <<"b">>, means |-> "BOOLEAN" :> TRUE],
   [text |-> <<>>, means |-> ("BOOLEAN" :> FALSE) @@ ("INT" :> 0) @@ ("REAL" :> 0)],
   [text |-> <<"b", "a">>, means |-> ("INT" :> MinInt) @@ ("REAL" :> MinInt)]}

-----------------------------------------------------------------------------
(* Every way to declare a, with a b of every type.                            *)

Literals == {Num(0), Num(2), Lit(Val("REAL", 1)), Lit(Str(<<"a">>)), Lit(Bool(TRUE))}

DeclsOfA == {Decl(t, "a", e) : t \in Types, e \in Literals \cup {None, Env("HOME")}}
DeclsOfB == {Decl("INT", "b", Num(2)), Decl("REAL", "b", Lit(Val("REAL", 2))),
             Decl("STRING", "b", Lit(Str(<<"b">>))), Decl("BOOLEAN", "b", None)}

Operators == {"+", "-", "*", "/", "%", "<", ">", "<=", ">=", "==", "!=", "and", "or"}

TypingStatements ==
  {Write(<<Var("b"), Op(op, Var("a"), Var("b"))>>) : op \in Operators}
    \cup {Expr(Assign("a", Neg(op, Var("b")))) : op \in {"-", "not"}}
    \cup {Expr(Op("+", Assign("a", Var("b")), Assign("b", Var("a")))),
          Expr(Assign("c", Var("a"))),
          If(Var("a"), Write(<<Env("PATH")>>)),
          IfElse(Op("<", Var("a"), Var("b")), Read("a"), Block(<<Read("b"), Read("c")>>))}
    \cup {Block(<<Read("a"), Expr(Assign("a", Op(op, Var("a"), Num(-1))))>>) : op \in {"%", "*", "+"}}
    \cup {Block(<<Read("a"), Expr(Assign("a", Neg("-", Var("a"))))>>)}

TypingPrograms ==
  {[decls |-> <<d, e>>, stmts |-> <<s, Write(<<Var("a")>>)>>] :
     d \in DeclsOfA, e \in DeclsOfB, s \in TypingStatements}
   \cup {[decls |-> <<d, Decl("INT", "a", None)>>, stmts |-> <<>>] : d \in DeclsOfA}

-----------------------------------------------------------------------------
(* Loops that count a from start to below bound and write it.                 *)

Below(n) == Op("<", Var("a"), Num(n))
Step(k)  == Assign("a", Op("+", Var("a"), Num(k)))

CountingPrograms ==
  LET Body       == Write(<<Var("a")>>)
      Both(k)    == Block(<<Body, Expr(Step(k))>>)
      Loops(n, k) ==
        [for   |-> For(<<Assign("a", Var("a"))>>, <<Below(n)>>, <<Step(k)>>, Body),
         short |-> For(<<>>, <<Below(n)>>, <<>>, Both(k)),
         while |-> While(Below(n), Both(k)),
         do    |-> Do(Both(k), Below(n))]
  IN  {[decls |-> <<Decl("INT", "a", Num(m))>>, stmts |-> <<Loops(n, k)[l]>>,
        loop |-> l, from |-> m, below |-> n, step |-> k] :
         m \in 0 .. 2, n \in 0 .. 6, k \in 1 .. 2, l \in {"for", "short", "while", "do"}}

(* Each loop that counts comes to an end, and has written the numbers it        *)
(* counts then; a do-while the first of them in any case.  Counting stays      *)
(* within the width here: a loop that steps over the greatest integer goes on.  *)
Counted(p) ==
  LET numbers == {i \in 0 .. 6 : i >= p.from /\ i < p.below /\ (i - p.from) % p.step = 0}
                   \cup (IF p.loop = "do" THEN {p.from} ELSE {})
  IN  [i \in 1 .. Cardinality(numbers) |-> Val("INT", p.from + (i - 1) * p.step)]
LoopsEnd ==
  LET Counts == program \in CountingPrograms IN
    Counts ~> Counts /\ response = [kind |-> "page", content |-> Counted(program)]

(* One without a condition does not, nor one that steps over the greatest      *)
(* integer.                                                                  *)
EndlessPrograms ==
  {[decls |-> <<Decl("INT", "a", None)>>, stmts |-> <<s>>] :
     s \in {For(<<>>, <<>>, <<>>, Block(<<>>)), For(<<>>, <<Below(7)>>, <<Step(2)>>, Block(<<>>))}}

AllPrograms == TypingPrograms \cup CountingPrograms \cup EndlessPrograms

=============================================================================
