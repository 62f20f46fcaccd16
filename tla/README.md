# A verification model of http-cgi-server

The program is a forking HTTP server (`task-http/src`) whose CGI scripts are run by an
interpreter of its own (`task-http/lang`). This directory holds TLA+ modules that model
its control, TLC configurations that check them on small instances, and proofs, checked
by TLAPS, of what matters most for every size. Paths below are relative to `src/`.

## 1. The system

| component | state | operations | talks to |
|---|---|---|---|
| process supervisor, `task-http/src/server.cpp` | the global vector `clients`, the listening socket, the current connection, signal handlers | `main()`, `child_signal()` on SIGCHLD, `server_stop()` on SIGINT/SIGQUIT/SIGTERM/SIGUSR1, the watcher process that waits for ENTER | forks session processes and the watcher; signals both ways; handlers share `clients` with `main()` without a lock |
| HTTP session, `session.cpp` | `contents`, `response` | `session()`, `process_request()` | its client by recv/send; the request and response classes; the CGI handler |
| CGI handler, `cgihandler.cpp` | a pipe, a child | `handle_cgi_request()` | forks a child that execs the script; reads its output through the pipe |
| sockets, `net/socket.cpp`, `serversocket.hpp` | a descriptor | accept, recv, send, close, exceptions | the two above |
| HTTP message, `message.cpp` | title, headers, body | constructor from a text, `operator[]`, `toString()` | base of request and response |
| HTTP request, `request.cpp`, `method.cpp` | method, URI, parameters, version | constructor, `scroll()`, setters | session |
| HTTP response, `response.cpp` | version, status, comment, raw flag | setters, `toString()` | session |
| CGI language: launcher, `lang/main.cpp` | the script | reads the file, strips the shebang line | started by execl() |
| CGI language: lexer, `lexer.cpp` | position, line, column | `nextToken()` | parser |
| CGI language: parser, `parser.cpp`, `ast.h` | two tokens, the functions that are active and the nodes they have made | recursive descent | lexer, syntax tree |
| CGI language: evaluation, `ast.cpp`, `scope.cpp`, `value.cpp` | the global scope | `evaluate()`, `execute()`, `declare()` | the environment, standard input, the output function |
| CGI language: response, `cgi_handler.cpp`, `interpreter.cpp` | the output so far | `handleRequest()` | launcher |

What is hard about it, and what makes each part correct:

* **Supervisor.** Two signal handlers and `main()` update one vector and interrupt one
  another anywhere; signals coalesce; pids are reused; children inherit handlers,
  descriptors and a copy of the vector. Correct means: the server never blocks in a
  handler, a session holds the connection it was forked for and no other, every live
  session is known and terminated at the end, nobody else is signalled, no zombie stays,
  stop signals stop it, the port becomes free.
* **Session and CGI.** A request has no end mark: its end is guessed from the length of
  a `recv()`. A CGI child whose `execl()` fails becomes a second session on the same
  socket. Correct means: one process reads at a time, no byte is lost or read twice,
  requests of a client that waits are read whole and answered in order, CGI output is
  complete, nobody waits for ever.
* **Message and request.** Both parse with stream operators that leave variables as they
  were at the end of the input. Correct means: a well-formed text is read as what it
  means, a message survives `toString()` and parsing, the loops end.
* **Response.** Headers are set in three places, two of them before exceptions that may
  still come, and a response of raw bytes goes the way of the others. Correct means: every
  request is answered, whatever fails; an error has nothing of a file about it; the length
  that is sent is the length of what is sent.
* **Parser.** Precedence, associativity and the owner of an else are in the order of calls;
  the loops have to consume tokens, at the end of the file as well. Correct means: the tree
  is the one the grammar gives, an error is thrown where no program could go on and nowhere
  else, and it ends.
* **CGI language.** Untyped assignment, defaults, conversions by `read()`; a lexer without
  lookahead to the grammar. Correct means: tokens cover the source, positions are right,
  well-typed programs stay well-typed and fail only for input and division, loops that
  count end, the page is everything the program wrote or an error page (which one function
  shows by itself, so there is no property for it).

`PROJECT.json` lists the hazards one by one, each at its line.

## 2. The modules

| module | what it is | extends / instantiates |
|---|---|---|
| `Connections` | abstract: a connection is queued, accepted once, given to at most one owner, closed for good | |
| `Server` | the supervisor, and its refinement mapping to `Connections` | `INSTANCE Connections` |
| `MCServer` | symmetry | `Server` |
| `ServerProofs` | theorems about `Server`, and that it implements `Connections` | `Server`, TLAPS |
| `Session` | a session and the chain of CGI children | |
| `MCSession` | requests of the client | `Session` |
| `SessionProofs` | theorems about the chain of processes of `Session`, and about what its workers receive | `Session`, `SequenceLemmas` |
| `SequenceLemmas` | least and greatest numbers, induction over numbers, parts of sequences, sequences of sequences | TLAPS |
| `HttpMessage`, `MCHttpMessage` | the message constructor and `toString()`, against what a text means | |
| `HttpMessageProofs` | theorems about `HttpMessage` | `HttpMessage`, `SequenceLemmas` |
| `HttpRequest` | the request constructor, against what a request line means | |
| `Exchange` | from a request to its answer: constructor, `process_request()`, response, exceptions | `HttpRequest` |
| `MCExchange` | titles, files, outputs of scripts | `Exchange` |
| `ExchangeProofs` | theorems about `Exchange` | `Exchange`, `SequenceLemmas` |
| `Launcher` | how the script file is read | |
| `Lexer` | `nextToken()` | |
| `Scripts` | the two composed, from a file to its tokens | `Lexer`, `INSTANCE Launcher` |
| `MCScripts` | files | `Scripts` |
| `Parser` | the parse functions, over the types of tokens | |
| `Grammar` | the grammar, the trees it gives to every sentence of a vocabulary, and the properties of the parser | `Parser` |
| `MCParser` | vocabularies | `Grammar` |
| `ParserProofs` | that `Parser` returns the trees of `Grammar` | `Grammar`, `SequenceLemmas` |
| `SentenceProofs` | that `Parser` refuses no sentence of `Grammar` | `ParserProofs` |
| `Interpreter` | values, expressions, declarations, statements, the response | |
| `MCInterpreter` | programs | `Interpreter` |
| `LanguageProofs` | theorems about `Scripts` and about `Interpreter` | `Scripts`, `Interpreter`, `SequenceLemmas` |

`Server` sees a session as "serving" until it returns; `Session` sees the server as the
`Terminate` action. `Session` sees `HttpMessage` as `HeaderLoopEnds` and a CGI script as
an amount of output; `Exchange` is one turn of the loop of `Session` in detail, with what
Session leaves out (`route` to `send`) and without its processes. `Parser` takes any tokens
that a lexer may return, `Interpreter` any program that a parser may.

### Server

`main()` is a program counter `pc` (`watcher`, `listen`, `accept`, `fork`, `push`, `store`,
`drop`). A handler that runs on top of it has its own counter (`chld`, `stop`), and
`running` names the flow of control on top of the stack; a handler may begin between any
two steps of what it interrupts. The program initialises `sockaddr_in::sin_len`, a member
only BSD systems have, so `signal()` has BSD semantics: handlers stay installed, a signal
is blocked while its own handler runs, the others are not, accept() is restarted.

The unsynchronised accesses to the vector are modelled by what compiled code does.
`push_back()` is two steps, `PushLoad` and `PushStore`, and an erase between them is undone
by the second (`tail` is what the erase had shifted out). The range-for of `server_stop()`
keeps the end it cached, so an erase below it shifts elements under the iterator.
`erase(end())` (`EraseEnd`) is undefined: the process crashes or the vector loses its last
element. A push_back() that reallocates while a handler erases has more outcomes than
these and is left out.

`session[p]` is the life of the process in slot `p`: forked (with inherited handlers and a
`copy` of the vector), serving, zombie, free; a freed slot is taken again by a later
fork(), as pids are. `holders[c]` and `listeners` are the processes with a descriptor
open. The CGI children of a session inherit its connection, which execl() does not close and
on which a child serves if its execl() fails; they are one holder, `Script`, from
`ScriptStarts` to `ScriptEnds`. A session in waitpid() does not return (`AwaitsScript`), but
`server_stop()` may kill it, and it alone: then the connection stays open as long as its script
runs. `misdirected` and `overrun` are history variables for what server_stop() signals
besides children and for erase(end()).

Simplifications: the five signal() calls of a new child with its close() are one step, so
are wait() and its return; a script leaves no process behind that outlives it; a child whose
execl() fails returns from `session()` like its parent and exits, so it counts as a script; SIGQUIT, which has the handler and senders of SIGINT, is not
repeated; exit() runs no other code; the listening socket has no queue before listen();
accept() takes any queued client, not the first.

### Session

Worker 1 is the session process; worker w+1 is the child worker w has forked for a CGI
request. `pc[w]` follows `session()`, `process_request()` and `handle_cgi_request()` from
call to call. The bytes on the wire are `[req, pos]`: which request they belong to and
where, which is what lets a property say that a request was read whole. A byte is a
"newline" or a "text", which stands for any piece of a line of more than one character.
A request whose header never ends sends the worker to `spin`, the endless loop of the
message constructor. A pipe is a count of bytes. The first worker writes its log lines to
the terminal; the others, whose standard output was redirected for the script that never
started, into the pipe of their parent.

Simplifications: send() never blocks and sends all; pipe() does not fail (its unchecked
failure leaves descriptors uninitialised); scripts write a bounded amount and end; the
chain of workers is bounded by `MaxWorkers` (an action that would exceed it is disabled).

### HttpMessage, HttpRequest

These follow the state of a std::istream: what `getline`, `>>` and `get` leave in their
variables when the stream is at its end or no longer good. Each states, apart from the
machine and without reading step by step, what a text means (`Meaning`), and the property
compares the two. The name of a header is what is in front of its colon, as the comment at
`message.cpp:48` has it, while the machine removes the last character as `pop_back()` does. Carriage returns count as blanks, NUL is left out of HTTP texts, other
white space than blank and newline as well.

### Exchange

`HttpRequest`'s constructor runs first; then `pc` goes from `done` over `last modified` (the
file is open and read, its time of modification not asked for yet) and `common headers` to
`send`. What may be thrown on the way is an action each: an unknown method, memory that
runs out for a string made inside the try block, which is answered with a 503 (`OutOfMemory`),
or for one made in a handler or behind the block, where nothing catches it and the process
is aborted (`Uncaught`), a client that is gone when
`getpeername()` is called (the 400 of `RunScript`), a file that has been removed since it
was opened (`RemoveFile`, `lost`). A handler begins with a response of its own (`Caught`),
so nothing of the failed one is left. What is sent is a sequence: a status line, headers in
the order of the map, a newline, bytes; a raw response is what the script wrote up to its
first NUL. Every element of a text is a tuple (a byte, a NUL, a newline, a header), so that
any two can be told apart by their lengths and by what is in them. `Framed`, `Status` and `Values` take it apart again, as a client does, and the
properties compare that with the request line and the disk.

Simplifications: a script is run by one call that returns what it wrote or one of its
errors, the processes of which are in `Session`; `Date` and the other texts of headers are
one value each; a directory can be opened and reads as empty, as it does with libstdc++.

### Launcher, Lexer, Scripts

`Launcher` follows the stream of the file, character by character. `Lexer` has one action,
`NextToken`, over operators that mirror the `read...` and `skip...` functions; recursion is
written as recursive functions. Keywords and operators are token texts, not a type each.
`Scan` is one CASE whose arms exclude one another: a sign in front of a digit is a number
(`IsNumber`), as `nextToken()` asks for numbers before it asks for operators.
`Scripts` runs the one and then the other over what it has read, so the lexer works on the
very text that `main()` makes of a file.

### Parser, Grammar

A parse function that has called others has things left to do; `calls` is that stack: a
call of a parse function, an `expect()` with the `error()` of its caller, a construction of
a node from the nodes on top of `built`, a push_back(). One action is one function up to
its next call. An exception empties the stack. `input` is what the lexer has returned, of
which the last two are `peekToken` and `currentToken`; the next token is chosen when
it is asked for, so every script over a vocabulary is a behaviour and no script has to be
listed. A token is its type (`TOO_LARGE` is a number that stoi() or stod() refuses), a node
its class, what it was told apart by, and its children. The functions `parseOr()` to
`parseMultiplicative()` differ in their operators only and are one action over `Levels`;
their way down to `parseUnary()`, on which none of them looks at a token, is one step.

`Grammar` has the same language as rules with left recursion, and fills a table of what
every symbol may be in n tokens. It does not parse: there is no stack in it, no lookahead
and no order of alternatives, so it shares nothing with the parser but the names of tokens
and nodes. A rule has a set of heads instead of one: where a symbol may be another one alone (a
`sum` a `product`), it is a head of the other's rules, so that no rule has a single symbol and
the table can be filled row by row. The rule for `else` says that the branch before it is
`closed`: it does not end in an `if` without one. `MeansGrammar` then says that the tree is right and `ThrowsOnlyAtErrors` that
an error is an error, at the first token that no sentence has at that place.

`expectPeek()`, and the declarations for case statements in `parser.h`, have no caller and
no body and are not modelled. Labels are skipped, as the code does.

### Interpreter

An expression is evaluated in one step (`Evaluate`), with its assignments and with the
exception that may leave it; statements run one by one from the stack `todo`. A syntax tree
is at most `Highest` nodes high, and what is defined over trees (`Evaluate`, `TypeOf`,
`WellTypedTrees`) is a function over heights: the tree's node, with the function of one height
less for what is below it. The greatest integer is `MaxInt`: `Number` wraps around beyond it,
which is what the compiled code does with operands that
are not known before (the standard leaves it undefined), and `INTMAX_MIN % -1` raises a
signal after which there is no response at all. Real numbers are integers of another type,
without a limit; strings are sequences of pieces. A program begins as what the parser
returns; an exception of the parser reaches `handleRequest()` like one of a statement that
is the first. No scope but the global one is ever created, so `parent` is not modelled. `WellTyped` is a
strict typing that the program does not have: it is what a writer of scripts would assume,
and the properties say how far the assumption carries.

## 3. The runs

Every run is exhaustive within its bounds. Deadlock checking is off throughout: each
system stops, when the server is down, the session over, or the text read.

| run | bounds | shows |
|---|---|---|
| `Server_processes` | 2 slots, 2 connections, backlog 2, fork and accept may fail, SIGSTOP/SIGCONT | types; `SessionIsolation`, `RegisteredUnlessOverrun`, `ChildrenTerminated`; the server implements `Connections` |
| `Server_live` | 1 slot and the watcher, 2 connections, backlog 1, fork, bind and accept may fail, no job control | `WaitFindsZombie`, `StopSignalStops`, `QueueDrains`, `ConnectionReleased`, `PortReleased` |
| `Session_segments` | 4 requests of 3 or 4 bytes sent in any pieces, buffer 2, pipe of 3, output up to 4, a chain of 3, every fault | `OneReader`, `StallsOnlyOnFullBuffers`, `InStep`, `CgiComplete` |
| `Session_live` | 5 requests, the client waits for each reply; buffer 2, output that fits the pipe of 3, no exec failure, no hang-up | `RequestsWholeInOrder`, `CgiFinishes`, `RequestsAnswered`, `SessionEnds` |
| `HttpMessage_texts` | every text of up to 3 lines of up to 2 blanks and up to 2 words out of 3 (two names with a colon, one word without), with and without a final newline | `MeansText`, `NamesLast`, `Serialises`, `Terminates` |
| `Exchange_requests` | every title of 4 tokens, every tail of 5 behind a method, every target of 7 of the delimiters and a word, paths of 2 segments with every method; a disk of 7 paths, scripts that write 5 things | `MeansRequestLine`, `NeverUninitialised`, `AnswerFramed`, `AnswerFits`, `Answered` |
| `Interpreter_programs` | one variable declared in every way beside one of each type, every operator and statement, trees of up to 3 nodes' height, integers up to 7 (4 bits); counting loops of each kind | `WellTypedKeepsTypes`, `WellTypedNeverFails`, `LoopsEnd` |
| `Scripts_files` | every file of 5 characters; a shebang, an empty line and every text of 4 to 6 characters of five alphabets | `ScriptKept`, `NothingLost`, `Relexes`, `StringsKeepText`, `PositionsRight`, `GetsOn` |
| `Parser_scripts` | every sequence of up to 6 to 14 tokens of eleven vocabularies | `MeansGrammar`, `ThrowsOnlyAtErrors`, `Terminates` |

Why the bounds are enough. Two slots give the cases the supervisor has: two exits for one
SIGCHLD, an erase in front of another element, a reused pid, a session that starts while
another ends. One slot and the watcher are two children, enough for a SIGCHLD that is lost.
A buffer of two bytes makes requests shorter than, equal to and longer than whole buffers;
a pipe of three with outputs up to four has a read that returns less than asked, a pipe
that fills, and one that is read in several calls. Two words on a line and two header
lines, possibly with one name, are what the stale variables of the parsers need. Each
alphabet of `MCScripts` contains the characters that one function of the lexer tells apart.
Each vocabulary of `MCParser` has the tokens of one part of the grammar, and as many of them
as make two of its constructs meet: three operators of different levels, an `if` in an `if`
with an `else`, a `for` with each of its expressions or without, a statement between two
declarations. Four bits are enough for an integer to overflow in every operation, and for
the loops that count to do without.

Three runs expect a violation. Each checks one sentence of the source against what the
code does (`PROJECT.json`, "findings"):

| run | the code says | what happens |
|---|---|---|
| `Server_strangers` | "Terminate all children" | after a failed fork() it is kill(-1) that is called |
| `Session_pipe` | "I will wait for CGI to finish" | script and session wait for each other |
| `Interpreter_division` | "Division by zero" | every division throws |

The other disagreements between the code and its words are in the conditions of properties
that hold, which say where the promise ends:

| property | its condition, or what it leaves open | what happens there |
|---|---|---|
| `RegisteredUnlessOverrun`, `ChildrenTerminated` | `~overrun` | "Remove child's PID from list": a child that exits before `push_back()`, or the watcher, is not in the list, and `erase(end())` is undefined |
| `ChildrenTerminated` | `pc` not in push, store | "Terminate all children": one that is forked and not pushed yet runs on |
| `ChildrenTerminated` | `tail` is empty | SIGCHLD shifts the vector under the loop, which steps over a child |
| `QueueDrains` | nothing is said of zombies | "Automatically remove zombies": two exits can be one SIGCHLD and one `wait()`, and a zombie stays |
| `PortReleased` | the watcher is gone | "Close the server itself": the watcher keeps the port open |
| `OneReader` | allows `v < w` if `v` waits | "I will exec CGI": a child whose execl() failed serves the client |
| `MeansText` | the first word of a header line ends with its only colon (`Names`) | "remove ':'": in "Name:value", which HTTP allows, the last character of the value is removed and the colon kept |
| `MeansText`, `Serialises` | no header without a value is below one with a value (`WellFormed`) | the value of the line above is taken for it, and `operator>>` says nothing |
| `NamesLast` | not more lines of blanks in a row than the name above them has characters | each takes a character of that name, and `pop_back()` of an empty string is undefined |
| `Answered` | the memory does not run out behind the try block or in a handler (`Uncaught`) | bad_alloc leaves `session()`, and the client gets no answer |
| `ConnectionReleased` | the CGI children of the session are gone | "Terminate all children": the children of a session are not signalled, and keep its connection |
| `EmptyAtEnd` in `MeansRequestLine` | last key and value not empty | "skip whitespace before string": the version becomes a parameter |
| `WellTyped` | strings have initializers, and of their type | "initialization with the default value": a string begins as the boolean true; the type of a real or boolean initializer is not checked |
| `Relexes` | is about tokens, not the grammar | "sign": in "a-1" the operator becomes part of the number |
| `ScriptKept` | at most one character may be lost | "Remove shebang from script": the first character of the second line goes as well, which is its newline only if that line is empty |

Each property of a passing run has a mutant: a `Mut...` operator beside the definition it
replaces, with a plausible bug, under which the property is violated.

## 4. Fairness

* `Server`: weak fairness of `main()`, of each handler, of the watcher, and of what the
  kernel does to each session process (start it, kill it). This is the scheduler, and the
  delivery of pending signals. Nothing is assumed of clients, of the operator, or of how
  long a session or a script lasts: `SessionReturns`, `ScriptStarts` and `ScriptEnds` are not fair.
* `Session`: weak fairness of each worker, scripts included. The client may stop at any
  time.
* `HttpMessage`, `Interpreter`: weak fairness of the only process, which is
  sequential code that runs until it returns. `Parser` likewise; the tokens it is given are
  any, so `Terminates` needs no assumption about the script but that it has an end.
* `Exchange`: weak fairness of `Step`, the session's process; not of `RemoveFile`. A script
  ends here (that it may not is `Session_pipe`).

## 5. The proofs

All for every value of the constants that the `ASSUME`s of the module admit: any number of
process slots and connections, any backlog and set of faults; any requests, buffer size,
pipe capacity and length of the chain; any texts, titles, files and disks. What the
`ASSUME`s ask of these: the words of a message are sequences and not empty
(`WordAssumption`), titles are made of the tokens and the delimiters are no words
(`TitleAssumption`, `TokenAssumption`), a request is a sequence of bytes and not empty
(`RequestAssumption`), a file that is no directory contains bytes (`DiskAssumption`), letters,
digits and punctuation are different characters (`CharacterAssumption`), script files are made
of characters (`FileAssumption`), programs are made of syntax trees of some greatest height and
of declarations with a type (`ProgramsAssumption`), the end of the file is no token of a script
and a script has some greatest length (`VocabularyAssumption`), the environment and the lines of the input
are strings, and what a line means as a value of some type is one (`SurroundingsAssumption`).

What is said of texts of any length needs induction over them. The library's theorems take an
operator, which these provers cannot instantiate; `SequenceLemmas` states induction over a
set of numbers instead (`Induction`: a set that contains 0, and with each number the next,
contains all), from the well-foundedness of `<`, and everything else is an instance of it or
the choice of a least or a greatest number.

`ServerProofs`
* `Typing`: `Spec => []TypeOK`, one step per action. Lemmas about `Front`, `Last`, `RemoveAt`
  say that erasing from the vector leaves a vector.
* `WaitNeverBlocks`: if `JobControl = FALSE`, `Spec => []WaitFindsZombie`. The property is not
  inductive: what makes it true is that a SIGCHLD that is pending, or whose handler has
  not waited yet, is backed by a zombie. The invariant `Backed` says so, and that a signal
  that is pending while the handler waits is backed by a second one; every exit adds the
  zombie with the signal, `DeliverChld` hands it on, only `Wait` takes a zombie away.
  With job control the statement is false, since stopping a child raises SIGCHLD too.
* `SessionsIsolated`: `Spec => []SessionIsolation`. The invariant `Isolated` adds that a
  holder of a connection is the live process forked for it, that what the server holds is
  `conn`, and that `conn` is `None` before the server accepts: so a child inherits what it
  serves and nothing else.
* `SessionsRegistered`: `Spec => []RegisteredUnlessOverrun`. The invariant `Registered` adds
  that `child_signal()` is idle whenever `main()` runs and that the pid it is about to erase
  has been freed by `wait()` and not reused: an erase takes nobody out who is still there.
* `LoopReachesChildren`: `Spec => ChildrenTerminated`. The invariant `Signalled` adds that
  whom the loop has passed is signalled or dead while nothing is erased under it, which
  holds because `main()` cannot push while the handler runs on top of it; with
  `RegisteredUnlessOverrun` everyone alive is among those passed when the loop is through.
* `ServerImplementsConnections`: `Spec => ImplementsConnections`, the refinement. The mapping
  makes the owner of a connection the session process that has its descriptor, by a CHOOSE,
  so the invariant `Owned` has to say that there is at most one such process, that only an
  accepted connection has any, and that while `main()` is about to fork only the server has.
  Each action is one step of one connection (`Connect`, `Accept`, `Spawn`) or none, and the
  end of a process is one `Release` of everything it held.

`SessionProofs`
* `OneProcessReads`: `Spec => []OneReader`.
* `CgiResponseComplete`: `Spec => []CgiComplete`.
  Both follow from one inductive invariant `Inv`: the types it needs, `OneReader`, and the accounts of
  every pipe (what was read plus what is inside is what was written, the length passed to
  read() is positive while reading goes on, a raw answer was made of an empty pipe).
  `OneReader` is needed for the accounts: only because a parent waits can its child not
  write into a pipe that has been read to its end.
* `NothingLostOnTheWay`: `Spec => []InStep`, and `StallsOnFullBuffers`:
  `Spec => []StallsOnlyOnFullBuffers`. The invariant `Filled` relates three things no step
  changes together: what was sent is what was received and what is in the stream; what a
  worker in `recv()` holds is the last bytes that were received; and it holds a whole number of
  buffers, since it asks again only after a full one. `OneReader` (from `Inv`) makes the
  second survive the steps of the others.
* `RequestsInOrder`: `Spec => []RequestsWholeInOrder`. Under ping-pong the invariant `Ordered`
  gives the number m of requests that were sent completely and where each process of the chain
  may be while the m-th is read, answered, or handed on (`Stage`); so what is left in the
  stream is the rest of that request and nothing of the next.

`HttpMessageProofs`
* `MessageMeansText`: `Spec => []MeansText`, for texts of any length over any words. The
  invariant `Reading` says what is read and what is left of the text. The invariant `Meant`
  adds, of a well-formed text, that the headers made so far are those the first lines mean
  (`Rows`, the last of a name wins), that what the stream has left in the variable for the
  value is empty until a line has one, and that at the body either the rest of the lines is
  left or nothing is. That pop_back() removes the colon follows from `WellFormed` by a lemma
  (`NameIsFront`).
* `NameNeverEmpty`: `Spec => []NamesLast`, so pop_back() is defined for every text outside the
  two cases the property names. The invariant `Named` relates the length of what is left of
  the name to the number of lines since the last one that had words (`NameLeft`), and says
  that a stream that is no longer good has the last line for ever (`Stuck`).
* `MessageSerialises`: `Spec => []Serialises`. `toString()` walks through a map, so the order of
  its lines is any order of the names; the lemmas say that whatever the order, every line is
  written so that it is read as it was (`LineWritten`), the blank line is the first one
  (`WrittenLines`), and the meaning of the text is the message (`MeaningIsMessage`).

`ExchangeProofs`
* `StreamsGood`: `Spec => []NeverUninitialised`, for every title, method table and disk.
  The invariant `GoodStream` follows the constructor: until the method is read the stream is
  good and `piece` is empty, so a title without a word has no method that the table knows,
  and `scroll()` is not reached; and a `scroll()` that leaves a bad stream has the delimiter
  `EOF`, after which no other one is called.
* `RequestLinesMeant`: `Spec => []MeansRequestLine`. `RequestRight` says what the constructor
  has made of the title's method and path (`FirstWord`, `FirstPart`). `Parsed` says, from the
  question mark on, which part of the query has been read (`KeyBegins`, `ValueBegins`) and that
  `params` is made of the parameters before it (`Given`): each call of `scroll()` gets what is
  in front of the next delimiter (`ScrollOn`), which is the next parameter that `Between` has
  (`BeforeNext`). That the last key and value are not empty (`Full`) is needed because
  `scroll()` would otherwise skip the blank that ends the target.
* `AnswersFramed`: `Spec => []AnswerFramed`. The invariant `Measured` says that the
  Content-Length, from where it is set on, is the length of the body that is sent; the lemma
  `AnswerRead` that a client that looks for the first empty line finds the end of the headers,
  in whatever order they come and whatever bytes follow.
* `AnswersFit`: `Spec => []AnswerFits`, from `RequestRight` and `Described`, which says what
  the response has of the file so far; an exception begins with a new response, which is why an error
  has no length, type or date of a file.

`LanguageProofs`, of `Scripts`
* `ScriptsKept`: `Spec => []ScriptKept`, for files of any length. The invariant `Whole` says,
  for each step of the launcher, what of the file has been read. Its lemmas are that a text
  with a newline has a first one, and what `ignore()` leaves of the text behind it.
* `TokensCoverScript`, `TokensLocated`: `Spec => []NothingLost`, `Spec => []PositionsRight`. The
  invariant `Reading` says that the position is the end of the last token, that line and
  column are those of the position, that each token is at its place and what is between two of
  them is blank or comment (`Found`); `Handed` that the lexer starts on what the launcher has
  read. The function that finds the end of a string is recursive; that it exists
  (`StopsExists`) is proved by induction over what is left of the text, and from its
  equation what is between its argument and its value.
* `LexerGetsOn`: `Spec => GetsOn`: a call of `nextToken()` moves on unless the end is reached.
* `StringsKept`: `Spec => []StringsKeepText`, and `RelexesAlways`: `Spec => []Relexes`, for files of
  any length. The invariant `Traced` says that each token is what `Scan` finds behind the one before.
  The rest is about two texts. `SpeltOut` is that the text of a quoted string is the string,
  character by character, from the end; `ScanMoves` that what is scanned depends on the
  characters of the token alone, if a blank follows (`NumberMoves`, `StringMoves`: the loops of
  `readNumber()` and `readString()` stop at the same distance); `PiecesRead` that so the tokens of a
  text with a blank behind each are the tokens it was made of. A string that is not closed
  takes the blank with it, but nothing follows it (`BrokenIsLast`, `BrokenMoves`); and a "/" that
  was not taken for a comment, because one was before it, has its blank between it and the "*".

`LanguageProofs`, of `Interpreter` (whose specification is `ProgramSpec`, so that a module can
extend it together with `Scripts`)
* `TypesKept`: `ProgramSpec => []WellTypedKeepsTypes`, and `NeverFails`:
  `ProgramSpec => []WellTypedNeverFails`, for every program, whatever its environment and input. The
  invariant `Soundness` says, of a well-typed program, that the variables are those of the first n
  declarations, each with a value of its type (`Fits`), and that what is left to do is made of
  well-typed statements and of expressions with a type (`Items`), which neither property says and
  both need. `EvaluateSound` is the
  heart: in such a scope an expression of type t throws one of `Excuses` or has a value of type t,
  and leaves such a scope. It is proved by induction over the height of the tree, node by
  node (`NodeSound`), from what the operators do with values of the types that `Typed` allows them
  (`BinaryIs`, `UnaryIs`, and below them `NumberIs` and `ModuloIs`: a result in the range of the
  integers). The lemmas `...TreesAt` say that the functions over heights exist.

`ParserProofs`
* `ParserMeansGrammar`: `Spec => []MeansGrammar`, for scripts of any length over any vocabulary.
  The property is about the end of a run, and is far from inductive. `Does` says what each kind
  of call promises, as a relation of the position, the trees and the declarations before and
  after it: `parseUnary()` that the tree it puts on `built` is one that the grammar gives, as
  `signed`, to the tokens it has read; a level of operators that it makes a longer expression of
  the one on top of `built`; the construction of a node that it takes its children. The
  invariant `Promised` says, of every stream of tokens that goes on as `input` began, that if the
  calls on the stack, one after the other (`DoesAll`), do what they promise, then `built` ends as
  a program of which the grammar has the tokens that have been read. It quantifies over what the lexer is
  still to return, so the tree of a call need not be known before it is made. At the end the
  stack is empty and the promise is the property. A step replaces the first call by others
  which together do what it promised (`Follows`), returns, or throws (`Goes`); that the others do
  is one lemma for each function and case (`...Does`), each from one rule of the grammar
  (`...Reads`). An `else` is where the lookahead counts: `Stat` says that a statement is `closed` if
  an `else` follows, and `NoElse` needs that there is none. `InputRight` and `CallsRight` add what
  the lexer returns after the end, and that the call of `parseProgram()` is the last on the stack.
  The lemmas on the grammar (`TableAt`, `RowKept`) say that the recursive function of its
  table exists, and that a row has the sentences of its length whatever the table's height. The
  invariant speaks of infinite streams, so TLC cannot check it; it checks `MeansGrammar`.

`SentenceProofs`
* `ParserThrowsOnlyAtErrors`: `Spec => []ThrowsOnlyAtErrors`, for scripts of any length over any
  vocabulary: whatever the grammar derives, the parser does not refuse, and an error is no earlier
  than the first token that no sentence has there. With `ParserMeansGrammar` and `Terminates`, the
  parser takes exactly the sentences of the grammar. Where `ParserProofs` puts
  derivations together, these lemmas take them apart.
  + `Span(v, s, x, i, j)`: the grammar gives x to the tokens of s behind the i-th, up to the j-th.
    What the table has of a symbol comes by one of its rules, whose symbols divide these tokens
    among them (`SpanRule`); for each symbol a lemma says what follows (`...Apart`).
  + `Moves` is what a call does on a known stream of tokens, without building anything: what it
    puts on the stack and how far it reads. A call that throws there has no move.
    `Accepts(s, q, i, p)`: nothing need ever throw from the i-th token on with the calls q on the
    stack. It is defined by the existence of a set of situations closed under moving, since a
    parser that goes on for ever throws nothing. p remembers whether the node
    built last is a name, which is what an assignment depends on.
  + By induction over the number of tokens, calls for an expression or a statement are accepted
    in front of a `Span` of it, if the rest is accepted behind it. An expression is left
    recursive in the grammar and a loop over levels in the parser: the lemmas go over all that an
    expression may start with and then over the operators that may follow. A minus between two
    operands also begins an expression: where the grammar has a declaration without its semicolon and
    then a statement that begins with a minus, the parser goes on with the initializer, and the
    lemmas (`MinusTaken`, `MinusStatement`) show that it does not throw for that. `SentenceAccepted`: the first two calls are accepted with every sentence.
  + The invariant `Hoped`: for each sentence that begins as `Considered`, the parser has returned,
    or is on its way through that sentence (`OnItsWay`: its stack is accepted), or is `Stuck`. The last
    is needed because the parser looks one token ahead to tell a label from an expression,
    and `Considered` does not have that token: with a lookahead other than that of the sentence it takes
    the other way, which the invariant allows until the name itself is read, when the
    lookahead counts and the sentence is no longer one to be hoped for (`SeenNext`). `Supplied` says that
    every call finds the nodes on `built` that it takes.
  + At a throw the outcome is an exception, so by `Hoped` there is no sentence that begins as
    `Considered`, which is the property.
  `Accepts` speaks of infinite streams and of sets of stacks, so TLC checks the property alone.

Only model-checked: liveness, which needs fairness and ENABLED. Every invariant and every action
property that the passing runs check is stated by a theorem.

## 6. Plan

Done: all components but what is listed below as not modelled; the theorems above. Left:

* `Site`, composing `Server` and `Session`: `Server` has the descriptors of the CGI children
  (`Script`) but not what they do with them after server_stop() has terminated their parent:
  a script that writes into a pipe without a reader, a child that goes on serving the client.

Not modelled, and why:

* a pipe() that fails (`cgihandler.cpp:57`): its descriptors are uninitialised then, and the
  outcome depends on numbers that the model does not have;
* the environment `handle_cgi_request()` builds, the moves of `Socket` objects, and the HTML
  around the output of a script (`generateHttpResponse()`, `htmlEscape()`): values that are
  passed on, with no state and no decision of their own;
* `toString()` of the syntax tree, of which only the name of an assignment is used, and
  functions without a caller (`peekToken()`, `reset()`, `expectPeek()`, the setters of
  `HttpResponse`, child scopes);
* a push_back() of `clients` that reallocates while a handler erases;
* `config.hpp`, build scripts, static content: no state;
* the text of error pages and log lines.

## 7. Running

    tlc -config Server_processes.cfg MCServer.tla
    tlapm ServerProofs.tla

A run is named after its configuration; `PROJECT.json` gives the module of each.
