----------------------------- MODULE Interpreter ----------------------------
(***************************************************************************)
(* The interpreter of the CGI language, behind its parser: the evaluation of *)
(* a Program (lang/src/ast.cpp) in its global Scope (scope.cpp) over Values  *)
(* (value.cpp), and the response that CgiHandler::handleRequest() makes of   *)
(* it.                                                                      *)
(*                                                                         *)
(* Expressions and statements are records with a kind.  Evaluating an        *)
(* expression is one step, with its assignments; statements run one by one,   *)
(* from a stack of what is left to do.  A string is a sequence of pieces, a  *)
(* real number is an integer of another type; no other Scope than the global *)
(* one exists.                                                              *)
(***************************************************************************)
EXTENDS Integers, SequencesExt

CONSTANTS
  Programs,     (* [decls, stmts]: what the parser may return                 *)
  Highest,      (* no syntax tree is higher than this                          *)
  Environment,  (* [names -> strings]: the environment of the process         *)
  Inputs,       (* the lines std::cin may deliver                             *)
  Alphabet,     (* the pieces of strings, in their order                      *)
  MaxInt        (* the greatest intmax_t                                      *)

MinInt == -(MaxInt + 1)
Types  == {"INT", "REAL", "STRING", "BOOLEAN"}

Val(t, d) == [type |-> t, data |-> d]
Strings   == Seq(ToSet(Alphabet))
Values    ==
  [type : {"INT"}, data : MinInt .. MaxInt] \cup [type : {"REAL"}, data : Int]
    \cup [type : {"STRING"}, data : Strings] \cup [type : {"BOOLEAN"}, data : BOOLEAN]

(* A std::unique_ptr that may be empty.                                      *)
Optional(S) == {s \in Seq(S) : Len(s) <= 1}

(* The nodes of the syntax tree, over expressions in E and statements in S.    *)
ExpressionsOver(E) ==
  [kind : {"literal"}, value : Values]
    \cup [kind : {"identifier", "environment"}, name : STRING]
    \cup [kind : {"binary"}, op : STRING, left : E, right : E]
    \cup [kind : {"unary"}, op : STRING, expr : E]
    \cup [kind : {"assignment"}, name : STRING, expr : E]
StatementsOver(E, S) ==
  [kind : {"expression"}, expr : E] \cup [kind : {"compound"}, stmts : Seq(S)]
    \cup [kind : {"if"}, cond : E, then : S, else : Optional(S)]
    \cup [kind : {"while", "do"}, cond : E, body : S]
    \cup [kind : {"for"}, init : Optional(E), cond : Optional(E), update : Optional(E), body : S]
    \cup [kind : {"write"}, exprs : Seq(E)] \cup [kind : {"read"}, name : STRING]

(* The trees that are at most h high.                                        *)
ExpressionTrees[h \in 0 .. Highest] ==
  IF h = 0 THEN {} ELSE ExpressionsOver(ExpressionTrees[h - 1])
Expressions == ExpressionTrees[Highest]
StatementTrees[h \in 0 .. Highest] ==
  IF h = 0 THEN {} ELSE StatementsOver(Expressions, StatementTrees[h - 1])
Declarations ==
  [type : Types, name : STRING, init : Expressions \cup {[kind |-> "none"]}]

ASSUME ProgramsAssumption ==
  /\ Highest \in Nat
  /\ \A p \in Programs :
       p.decls \in Seq(Declarations) /\ p.stmts \in Seq(StatementTrees[Highest])

ASSUME SurroundingsAssumption ==
  /\ MaxInt \in Nat
  /\ \A n \in DOMAIN Environment : Environment[n] \in Strings
  /\ \A line \in Inputs :
       /\ line.text \in Strings
       /\ \A t \in DOMAIN line.means : Val(t, line.means[t]) \in Values

VARIABLES
  program,    (* the Program                                                  *)
  declared,   (* how many declarations have been executed                     *)
  variables,  (* the global scope: [names -> Values]                          *)
  todo,       (* the statements to execute, the next one first                *)
  written,    (* what scope.output() was called with                          *)
  thrown,     (* the exception or the signal that ended the program, or ""    *)
  response    (* "none", "page" or "error", and its content                   *)

programVars == <<program, declared, variables, todo, written, thrown, response>>

-----------------------------------------------------------------------------
(* Values.                                                                   *)

Throw(why)  == [type |-> "thrown", data |-> why]
Throws(v)   == v.type = "thrown"
Bool(b)     == Val("BOOLEAN", b)
Numeric     == {"INT", "REAL"}
Str(s)      == Val("STRING", s)

Unsupported == Throw("Unsupported operation")

(* The common type of two numbers.                                           *)
Wider(l, r) == IF l.type = "INT" /\ r.type = "INT" THEN "INT" ELSE "REAL"

(* An integer that overflows wraps around: the operands are not known when the  *)
(* program is built, and the processor's instructions do.                     *)
Number(t, n) ==
  Val(t, IF t = "INT" THEN ((n - MinInt) % (2 * (MaxInt + 1))) + MinInt ELSE n)

(* + - * take two numbers; + takes two strings as well.                       *)
Arithmetic(op, l, r) ==
  CASE {l.type, r.type} \subseteq Numeric /\ op = "+" -> Number(Wider(l, r), l.data + r.data)
    [] {l.type, r.type} \subseteq Numeric /\ op = "-" -> Number(Wider(l, r), l.data - r.data)
    [] {l.type, r.type} \subseteq Numeric /\ op = "*" -> Number(Wider(l, r), l.data * r.data)
    [] l.type = "STRING" /\ r.type = "STRING" /\ op = "+" -> Str(l.data \o r.data)
    [] OTHER -> Unsupported

(* rightVal.getInt() == 0 || rightVal.getReal() == 0.0: one of the two throws  *)
(* unless the right operand is the integer 0.                                *)
Divide(r) ==
  IF r.type # "INT" THEN Throw("Value is not an integer")
  ELSE IF r.data = 0 THEN Throw("Division by zero")
  ELSE Throw("Value is not a real number")

(* The remainder has the sign of the dividend.  The processor divides to get it, *)
(* and traps if the quotient does not fit.                                   *)
SIGFPE == "SIGFPE"
Magnitude(n) == IF n < 0 THEN -n ELSE n
Remainder(a, b) ==
  LET m == Magnitude(a) % Magnitude(b) IN IF a < 0 THEN -m ELSE m
Modulo(l, r) ==
  IF {l.type, r.type} # {"INT"} THEN Unsupported
  ELSE IF r.data = 0 THEN Throw("Modulo by zero")
  ELSE IF l.data = MinInt /\ r.data = -1 THEN Throw(SIGFPE)
  ELSE Val("INT", Remainder(l.data, r.data))

(* The lexicographical order of strings.                                     *)
Rank(piece) == CHOOSE i \in DOMAIN Alphabet : Alphabet[i] = piece
StringLess(a, b) ==
  \E i \in DOMAIN b :
    /\ i <= Len(a) + 1 /\ SubSeq(a, 1, i - 1) = SubSeq(b, 1, i - 1)
    /\ i <= Len(a) => Rank(a[i]) < Rank(b[i])

Less(l, r) ==
  IF l.type = "STRING" THEN StringLess(l.data, r.data) ELSE l.data < r.data

(* Two numbers or two strings can be compared, two booleans be equal.         *)
Ordered(l, r)   == {l.type, r.type} \subseteq Numeric \/ {l.type, r.type} = {"STRING"}
MutEquatable(l, r) == Ordered(l, r)
Equatable(l, r) == Ordered(l, r) \/ {l.type, r.type} = {"BOOLEAN"}

Compare(op, l, r) ==
  CASE op = "<"  /\ Ordered(l, r)   -> Bool(Less(l, r))
    [] op = ">"  /\ Ordered(l, r)   -> Bool(Less(r, l))
    [] op = "<=" /\ Ordered(l, r)   -> Bool(~Less(r, l))
    [] op = ">=" /\ Ordered(l, r)   -> Bool(~Less(l, r))
    [] op = "==" /\ Equatable(l, r) -> Bool(l.data = r.data)
    [] op = "!=" /\ Equatable(l, r) -> Bool(l.data # r.data)
    [] OTHER -> Unsupported

Logic(op, l, r) ==
  IF {l.type, r.type} # {"BOOLEAN"} THEN Unsupported
  ELSE Bool(IF op = "and" THEN l.data /\ r.data ELSE l.data \/ r.data)

Binary(op, l, r) ==
  CASE op \in {"+", "-", "*"} -> Arithmetic(op, l, r)
    [] op = "/"               -> Divide(r)
    [] op = "%"               -> Modulo(l, r)
    [] op \in {"and", "or"}   -> Logic(op, l, r)
    [] OTHER                  -> Compare(op, l, r)

MutUnary(op, v) ==
  CASE op = "-" /\ v.type \in Numeric     -> Number("INT", -v.data)
    [] op = "not" /\ v.type = "BOOLEAN"   -> Bool(~v.data)
    [] OTHER                              -> Unsupported
Unary(op, v) ==
  CASE op = "-" /\ v.type \in Numeric     -> Number(v.type, -v.data)
    [] op = "not" /\ v.type = "BOOLEAN"   -> Bool(~v.data)
    [] OTHER                              -> Unsupported

-----------------------------------------------------------------------------
(* Expressions: the value of e and the variables after it, starting from s.   *)

Result(v, s) == [value |-> v, vars |-> s]

GetVariable(n, s) == IF n \in DOMAIN s THEN s[n] ELSE Throw("Undefined variable")

(* No type is checked; an undefined variable throws.                          *)
SetVariable(n, v, s) ==
  IF n \in DOMAIN s THEN Result(v, [s EXCEPT ![n] = v])
                    ELSE Result(Throw("Undefined variable"), s)

GetEnv(n) == Str(IF n \in DOMAIN Environment THEN Environment[n] ELSE <<>>)

(* eval is the function evaluate() of the nodes below e; it declares nothing.   *)

(* Both operands are evaluated, the left one first.                           *)
EvaluateBinary(eval, e, s) ==
  LET l == eval[e.left][s]
      r == eval[e.right][l.vars]
  IN  IF Throws(l.value) THEN l
      ELSE IF Throws(r.value) THEN r
      ELSE Result(Binary(e.op, l.value, r.value), r.vars)

EvaluateUnary(eval, e, s) ==
  LET r == eval[e.expr][s] IN
    IF Throws(r.value) THEN r ELSE Result(Unary(e.op, r.value), r.vars)

EvaluateAssignment(eval, e, s) ==
  LET r == eval[e.expr][s] IN
    IF Throws(r.value) THEN r ELSE SetVariable(e.name, r.value, r.vars)

EvaluateNode(eval, e, s) ==
  CASE e.kind = "literal"     -> Result(e.value, s)
    [] e.kind = "identifier"  -> Result(GetVariable(e.name, s), s)
    [] e.kind = "environment" -> Result(GetEnv(e.name), s)
    [] e.kind = "binary"      -> EvaluateBinary(eval, e, s)
    [] e.kind = "unary"       -> EvaluateUnary(eval, e, s)
    [] e.kind = "assignment"  -> EvaluateAssignment(eval, e, s)

EvaluateTrees(names) ==
  LET eval[h \in 0 .. Highest] ==
        [e \in ExpressionTrees[h] |->
           [s \in [names -> Values] |-> EvaluateNode(eval[h - 1], e, s)]]
  IN  eval
Evaluate(e, s) == EvaluateTrees(DOMAIN s)[Highest][e][s]

-----------------------------------------------------------------------------
(* Declarations.                                                             *)

NoResponse == [kind |-> "none", content |-> <<>>]

ProgramInit ==
  /\ program \in Programs
  /\ declared = 0 /\ variables = <<>>
  /\ todo = program.stmts
  /\ written = <<>> /\ thrown = "" /\ response = NoResponse

Running  == response = NoResponse /\ thrown = ""
Declared == declared = Len(program.decls)

(* Value(0L), Value(0.0), Value(false); Value("") is the constructor for bool. *)
Default(t) ==
  CASE t \in Numeric   -> Val(t, 0)
    [] t = "STRING"    -> Bool(TRUE)
    [] t = "BOOLEAN"   -> Bool(FALSE)

(* What is declared: initializers are checked for two of the four types.      *)
Mismatch(t, v) == t \in {"INT", "STRING"} /\ v.type # t
Initial(d) ==
  IF d.init.kind = "none" THEN Result(Default(d.type), variables)
  ELSE LET r == Evaluate(d.init, variables) IN
         IF Throws(r.value) \/ ~Mismatch(d.type, r.value) THEN r
         ELSE Result(Throw("Type mismatch in initialization"), r.vars)

(* scope.declareVariable(): a name is declared once.                          *)
Declare ==
  /\ Running /\ ~Declared
  /\ LET d == program.decls[declared + 1]
         r == Initial(d)
     IN  IF Throws(r.value)
           THEN thrown' = r.value.data /\ variables' = r.vars
         ELSE IF d.name \in DOMAIN r.vars
           THEN thrown' = "Variable already declared" /\ variables' = r.vars
         ELSE /\ thrown' = thrown
              /\ variables' = [n \in DOMAIN r.vars \cup {d.name} |->
                                 IF n = d.name THEN r.value ELSE r.vars[n]]
  /\ declared' = declared + 1
  /\ UNCHANGED <<program, todo, written, response>>

-----------------------------------------------------------------------------
(* Statements.                                                               *)

Executes(kind) == Running /\ Declared /\ todo # <<>> /\ Head(todo).kind = kind

(* Evaluates e and goes on with the stack next; an exception                 *)
(* leaves the statements for good.                                           *)
Continue(e, next) ==
  LET r == Evaluate(e, variables) IN
    /\ variables' = r.vars
    /\ IF Throws(r.value) THEN thrown' = r.value.data /\ todo' = todo
                          ELSE thrown' = thrown /\ todo' = next
    /\ UNCHANGED <<program, declared, response>>

(* Evaluates a condition: getBoolean() throws for a value of another type.    *)
Branch(e, true, false) ==
  LET r == Evaluate(e, variables) IN
    /\ variables' = r.vars
    /\ IF Throws(r.value) THEN thrown' = r.value.data /\ todo' = todo
       ELSE IF r.value.type # "BOOLEAN"
         THEN thrown' = "Value is not a boolean" /\ todo' = todo
       ELSE thrown' = thrown /\ todo' = (IF r.value.data THEN true ELSE false)
    /\ UNCHANGED <<program, declared, response, written>>

Jump(next) ==
  todo' = next /\ UNCHANGED <<program, declared, variables, written, thrown, response>>

Stmt == Head(todo)
Then == Tail(todo)

ExecuteExpression ==
  /\ Executes("expression")
  /\ Continue(Stmt.expr, Then)
  /\ UNCHANGED written

ExecuteCompound == Executes("compound") /\ Jump(Stmt.stmts \o Then)

ExecuteIf ==
  /\ Executes("if")
  /\ Branch(Stmt.cond, <<Stmt.then>> \o Then, Stmt.else \o Then)

(* What is left of a loop: test the condition, and again after body and       *)
(* update, which is a sequence of at most one expression.                     *)
Loop(cond, body, update) ==
  [kind |-> "loop", cond |-> cond, body |-> body, update |-> update]

ExecuteWhile == Executes("while") /\ Jump(<<Loop(<<Stmt.cond>>, Stmt.body, <<>>)>> \o Then)

MutDoFirst(s) == <<>>
DoFirst(s) == <<s.body>>
ExecuteDo ==
  Executes("do") /\ Jump(DoFirst(Stmt) \o <<Loop(<<Stmt.cond>>, Stmt.body, <<>>)>> \o Then)

AsStatements(es) == [i \in DOMAIN es |-> [kind |-> "expression", expr |-> es[i]]]

ExecuteFor ==
  Executes("for")
    /\ Jump(AsStatements(Stmt.init) \o <<Loop(Stmt.cond, Stmt.body, Stmt.update)>> \o Then)

(* A for without a condition goes on for ever.                                *)
ExecuteLoop ==
  /\ Executes("loop")
  /\ LET again == <<Stmt.body>> \o AsStatements(Stmt.update) \o todo IN
       \/ Stmt.cond = <<>> /\ Jump(again)
       \/ Stmt.cond # <<>> /\ Branch(Stmt.cond[1], again, Then)

(* write(): an expression is written as soon as it has been evaluated.        *)
ExecuteWrite ==
  /\ Executes("write")
  /\ \/ Stmt.exprs = <<>> /\ Jump(Then)
     \/ /\ Stmt.exprs # <<>>
        /\ Continue(Head(Stmt.exprs), <<[Stmt EXCEPT !.exprs = Tail(@)]>> \o Then)
        /\ LET v == Evaluate(Head(Stmt.exprs), variables).value IN
             written' = IF Throws(v) THEN written ELSE Append(written, v)

(* read(): the line is converted to the type of the value the variable has.    *)
Converted(line, t) ==
  IF t = "STRING" THEN Str(line.text)
  ELSE IF t \in DOMAIN line.means THEN Val(t, line.means[t])
  ELSE Throw("Invalid input")

ExecuteRead(line) ==
  /\ Executes("read")
  /\ LET current == GetVariable(Stmt.name, variables)
         v == IF Throws(current) THEN current ELSE Converted(line, current.type)
     IN  IF Throws(v) THEN /\ thrown' = v.data
                           /\ UNCHANGED <<variables, todo>>
                      ELSE /\ variables' = [variables EXCEPT ![Stmt.name] = v]
                           /\ todo' = Then /\ UNCHANGED thrown
  /\ UNCHANGED <<program, declared, written, response>>

Finished == Declared /\ todo = <<>>

(* handleRequest(): what was written, or a page with the error and no more;    *)
(* either with status 200.  A signal is no exception: the process is gone.     *)
Content == IF thrown = "" THEN written ELSE <<>>
Respond ==
  /\ response = NoResponse
  /\ IF thrown = "" THEN Finished ELSE thrown # SIGFPE
  /\ response' = [kind |-> IF thrown = "" THEN "page" ELSE "error", content |-> Content]
  /\ UNCHANGED <<program, declared, variables, todo, written, thrown>>

Execute ==
  \/ ExecuteExpression \/ ExecuteCompound \/ ExecuteIf \/ ExecuteWhile \/ ExecuteDo
  \/ ExecuteFor \/ ExecuteLoop \/ ExecuteWrite
  \/ \E line \in Inputs : ExecuteRead(line)

ProgramNext == Declare \/ Execute \/ Respond

ProgramSpec == ProgramInit /\ [][ProgramNext]_programVars

(* The interpreter runs until it has responded.                              *)
FairSpec == ProgramSpec /\ WF_programVars(ProgramNext)

-----------------------------------------------------------------------------
(* A strict typing of programs, which the interpreter does not have: every     *)
(* variable holds values of its type only, strings are initialized.           *)

BinaryType(op, l, r) ==
  CASE op \in {"+", "-", "*", "/"} /\ {l, r} \subseteq Numeric
                                            -> IF {l, r} = {"INT"} THEN "INT" ELSE "REAL"
    [] op = "+" /\ {l, r} = {"STRING"}      -> "STRING"
    [] op = "%" /\ {l, r} = {"INT"}         -> "INT"
    [] op \in {"and", "or"} /\ {l, r} = {"BOOLEAN"} -> "BOOLEAN"
    [] op \in {"<", ">", "<=", ">=", "==", "!="}
         /\ ({l, r} \subseteq Numeric \/ {l, r} = {"STRING"}) -> "BOOLEAN"
    [] op \in {"==", "!="} /\ {l, r} = {"BOOLEAN"}  -> "BOOLEAN"
    [] OTHER -> "ill-typed"

(* type is the function from the nodes below e to their types.                 *)
TypeOfNode(type, types, e) ==
  CASE e.kind = "literal"     -> e.value.type
    [] e.kind = "identifier"  -> IF e.name \in DOMAIN types THEN types[e.name] ELSE "ill-typed"
    [] e.kind = "environment" -> "STRING"
    [] e.kind = "binary"      -> BinaryType(e.op, type[e.left], type[e.right])
    [] e.kind = "unary"       ->
         LET t == type[e.expr] IN
           IF (e.op = "-" /\ t \in Numeric) \/ (e.op = "not" /\ t = "BOOLEAN") THEN t
           ELSE "ill-typed"
    [] e.kind = "assignment"  ->
         LET t == type[e.expr] IN
           IF e.name \in DOMAIN types /\ types[e.name] = t THEN t ELSE "ill-typed"

TypesOfTrees(types) ==
  LET type[h \in 0 .. Highest] ==
        [e \in ExpressionTrees[h] |-> TypeOfNode(type[h - 1], types, e)]
  IN  type
TypeOf(e, types) == TypesOfTrees(types)[Highest][e]

Typed(e, types)     == TypeOf(e, types) # "ill-typed"
Condition(e, types) == TypeOf(e, types) = "BOOLEAN"

(* The well-typed statements over those in S, and those at most h high.        *)
WellTypedOver(types, S) ==
  {s \in StatementsOver({e \in Expressions : Typed(e, types)}, S) :
     /\ s.kind \in {"if", "while", "do"} => Condition(s.cond, types)
     /\ s.kind = "for" => \A e \in ToSet(s.cond) : Condition(e, types)
     /\ s.kind = "read" => s.name \in DOMAIN types}
WellTypedTrees(types) ==
  LET well[h \in 0 .. Highest] == IF h = 0 THEN {} ELSE WellTypedOver(types, well[h - 1])
  IN  well

(* The types of the first n variables.                                       *)
DeclaredTypes(p, n) ==
  [x \in {p.decls[i].name : i \in 1 .. n} |->
     (CHOOSE d \in ToSet(p.decls) : d.name = x).type]

WellTyped(p) ==
  /\ \A i \in DOMAIN p.decls :
       LET d == p.decls[i] IN
         /\ \A j \in 1 .. i - 1 : p.decls[j].name # d.name
         /\ IF d.init.kind = "none" THEN d.type # "STRING"
            ELSE TypeOf(d.init, DeclaredTypes(p, i - 1)) = d.type
  /\ p.stmts \in Seq(WellTypedTrees(DeclaredTypes(p, Len(p.decls)))[Highest])

-----------------------------------------------------------------------------

(* The variables of a well-typed program keep their types, through defaults,   *)
(* assignments and read(), although nothing but the initialization of an int  *)
(* or a string is ever checked; and what is an integer stays one.             *)
WellTypedKeepsTypes ==
  WellTyped(program) =>
    \A n \in DOMAIN variables :
      /\ variables[n].type = DeclaredTypes(program, Len(program.decls))[n]
      /\ variables[n].type = "INT" => variables[n].data \in MinInt .. MaxInt

(* What ends a well-typed program early is its input, a division, or the one    *)
(* remainder of a non-zero divisor that the processor does not compute.        *)
DivisionErrors ==
  {"Division by zero", "Modulo by zero", "Value is not an integer",
   "Value is not a real number"}
WellTypedNeverFails ==
  WellTyped(program) => thrown \in {"", "Invalid input", SIGFPE} \cup DivisionErrors

(* "Division by zero": a division of two numbers fails for no other reason.    *)
OnlyZeroDivides ==
  WellTyped(program) =>
    thrown \notin {"Value is not an integer", "Value is not a real number"}

=============================================================================
