------------------------------ MODULE Session -------------------------------
(***************************************************************************)
(* A session process and the CGI processes it forks: session() and          *)
(* process_request() of session.cpp, handle_cgi_request() of cgihandler.cpp. *)
(*                                                                         *)
(* The session has no notion of where a request ends: it takes what recv()  *)
(* returns until a call returns less than its buffer holds.  A CGI child    *)
(* whose execl() fails returns from handle_cgi_request() into the same      *)
(* session() loop, on the same socket, and may fork CGI children in turn:   *)
(* worker w + 1 is the child worker w has forked, and its standard output   *)
(* is the pipe worker w will read once the child has exited.                *)
(***************************************************************************)
EXTENDS Integers, SequencesExt

CONSTANTS
  Requests,    (* the requests of the client, in order: records of their text, *)
               (* a sequence of "text" and "newline", and what they ask for    *)
  Buffer,      (* size of the buffers for recv() and read(): 1024 in the code  *)
  Capacity,    (* what a pipe holds before write() blocks                      *)
  MaxOutput,   (* the longest output of a CGI script                           *)
  MaxWorkers,  (* bound on the chain of forked processes                       *)
  PingPong,    (* the client sends a request in one piece, and only after the  *)
               (* reply to the one before                                      *)
  Faults       (* what may go wrong: some of FaultKinds                        *)

FaultKinds == {"fork", "exec", "file", "hangup", "terminate"}
Worker     == 1 .. MaxWorkers
Byte       == [req : DOMAIN Requests, pos : Nat]

ASSUME RequestAssumption ==
  /\ Requests \in Seq([text : Seq({"text", "newline"}), asks : {"file", "cgi", "unknown method"}])
  /\ \A i \in DOMAIN Requests : Requests[i].text # <<>>
ASSUME SizeAssumption ==
  /\ Buffer \in Nat \ {0} /\ Capacity \in Nat \ {0}
  /\ MaxOutput \in Nat /\ MaxWorkers \in Nat \ {0}
ASSUME ModeAssumption == PingPong \in BOOLEAN /\ Faults \subseteq FaultKinds

VARIABLES
  sent,       (* how many bytes the client has sent                           *)
  stream,     (* those of them no worker has received                         *)
  shut,       (* the client sends no more                                     *)
  gone,       (* the client has closed the connection                         *)
  replies,    (* what send() was called with                                  *)
  pc,         (* [Worker -> where the process is]                             *)
  contents,   (* [Worker -> the local contents of session()]                  *)
  answer,     (* [Worker -> status of the local response]                     *)
  left,       (* [Worker -> what the script still has to write]               *)
  pipe,       (* [Worker -> bytes in the pipe from the worker's child]        *)
  wrote,      (* [Worker -> how many were ever written into it]               *)
  got, len    (* [Worker -> the size of cgi_response; the local len]          *)

clientVars == <<sent, shut, gone>>
pipeVars   == <<pipe, wrote, got, len>>
vars == <<clientVars, stream, replies, pc, contents, answer, left, pipeVars>>

PCs      == {"none", "recv", "parse", "spin", "print", "route", "exec", "script",
             "wait", "read", "send", "done"}
Statuses == {"200", "400", "404", "500", "501", "503", "raw", "none"}

-----------------------------------------------------------------------------
(* The bytes on the wire.                                                    *)

Bytes(i) == [j \in DOMAIN Requests[i].text |-> [req |-> i, pos |-> j]]
Wire     == FlattenSeq([i \in DOMAIN Requests |-> Bytes(i)])
Ends(i)  == Len(FlattenSeq([j \in 1 .. i |-> Bytes(j)]))

Newline(b) == Requests[b.req].text[b.pos] = "newline"

(* The header loop of HttpMessage's constructor stops at a line of at most    *)
(* one character; at the end of the input getline() yields one only if the   *)
(* last line was terminated, and otherwise leaves the last line in place.     *)
HeaderLoopEnds(s) ==
  \E i \in DOMAIN s : Newline(s[i]) /\ (i < Len(s) => Newline(s[i + 1]))

(* The title begins with a method of the method table.                       *)
KnownMethod(s) == s[1].pos = 1 /\ Requests[s[1].req].asks # "unknown method"

-----------------------------------------------------------------------------

Init ==
  /\ sent = 0 /\ stream = <<>> /\ shut = FALSE /\ gone = FALSE
  /\ replies = <<>>
  /\ pc = [w \in Worker |-> IF w = 1 THEN "recv" ELSE "none"]
  /\ contents = [w \in Worker |-> <<>>] /\ answer = [w \in Worker |-> "none"]
  /\ left = [w \in Worker |-> 0]
  /\ pipe = [w \in Worker |-> 0] /\ wrote = [w \in Worker |-> 0]
  /\ got = [w \in Worker |-> 0] /\ len = [w \in Worker |-> Buffer]

At(w, label)   == pc[w] = label
Goto(w, label) == pc' = [pc EXCEPT ![w] = label]
Respond(w, status) == Goto(w, "send") /\ answer' = [answer EXCEPT ![w] = status]

(* if (length < sizeof(buffer)) break: a short read ends the request.         *)
MutAfterRecv(n) == "recv"
AfterRecv(n) == IF n < Buffer THEN "parse" ELSE "recv"

(* What recv() takes is gone for the next one; with MSG_PEEK it would stay.   *)
MutUnread(n) == stream
Unread(n) == SubSeq(stream, n + 1, Len(stream))

(* recv() returns what there is, up to the size of the buffer.               *)
Recv(w) ==
  /\ At(w, "recv") /\ stream # <<>>
  /\ LET n == IF Len(stream) < Buffer THEN Len(stream) ELSE Buffer IN
       /\ contents' = [contents EXCEPT ![w] = @ \o SubSeq(stream, 1, n)]
       /\ stream' = Unread(n)
       /\ Goto(w, AfterRecv(n))
  /\ UNCHANGED <<clientVars, replies, answer, left, pipeVars>>

(* if (contents.size() == 0) return: the session is over, the process exits.  *)
MutAfterEnd(w) == IF contents[w] = <<>> THEN "recv" ELSE "parse"
AfterEnd(w) == IF contents[w] = <<>> THEN "done" ELSE "parse"

(* recv() returns 0.                                                         *)
RecvEnd(w) ==
  /\ At(w, "recv") /\ stream = <<>> /\ (shut \/ gone)
  /\ Goto(w, AfterEnd(w))
  /\ UNCHANGED <<clientVars, stream, replies, contents, answer, left, pipeVars>>

(* recv() throws a socket_error, which ends the session as well.              *)
RecvThrows(w) ==
  /\ At(w, "recv") /\ gone
  /\ Goto(w, "done")
  /\ UNCHANGED <<clientVars, stream, replies, contents, answer, left, pipeVars>>

(* HttpRequest request(contents): the header loop may never end, and an       *)
(* unknown method is answered with 501.                                      *)
Parse(w) ==
  /\ At(w, "parse")
  /\ \/ ~HeaderLoopEnds(contents[w]) /\ Goto(w, "spin") /\ UNCHANGED answer
     \/ /\ HeaderLoopEnds(contents[w]) /\ ~KnownMethod(contents[w])
        /\ Respond(w, "501")
     \/ /\ HeaderLoopEnds(contents[w]) /\ KnownMethod(contents[w])
        /\ Goto(w, "print") /\ UNCHANGED answer
  /\ UNCHANGED <<clientVars, stream, replies, contents, left, pipeVars>>

(* A write of worker w to its standard output; after is where it goes on.     *)
(* Without a reader the process gets SIGPIPE.                                *)
Write(w, after) ==
  \/ w = 1 /\ Goto(w, after) /\ UNCHANGED <<pipe, wrote>>
  \/ /\ w > 1 /\ ~At(w - 1, "done") /\ pipe[w - 1] < Capacity
     /\ pipe' = [pipe EXCEPT ![w - 1] = @ + 1]
     /\ wrote' = [wrote EXCEPT ![w - 1] = @ + 1]
     /\ Goto(w, after)
  \/ w > 1 /\ At(w - 1, "done") /\ Goto(w, "done") /\ UNCHANGED <<pipe, wrote>>

(* std::cout << request.getURI() << std::endl                                *)
PrintURI(w) ==
  /\ At(w, "print")
  /\ Write(w, "route")
  /\ UNCHANGED <<clientVars, stream, replies, contents, answer, left, got, len>>

Asks(w) == Requests[contents[w][1].req].asks

(* A file is sent or not found; one that goes away between the two looks at   *)
(* it makes last_write_time() throw, which is answered with 400, and one too  *)
(* large for the memory is answered with 503.                                *)
ServeFile(w) ==
  /\ At(w, "route") /\ Asks(w) = "file"
  /\ \E status \in {"200", "404"} \cup (IF "file" \in Faults THEN {"400", "503"} ELSE {}) :
       Respond(w, status)
  /\ UNCHANGED <<clientVars, stream, replies, contents, left, pipeVars>>

(* No such script; getpeername() throws on a dead connection; fork() fails.   *)
RefuseCgi(w) ==
  /\ At(w, "route") /\ Asks(w) = "cgi"
  /\ \/ "file" \in Faults /\ Respond(w, "404")
     \/ gone /\ Respond(w, "400")
     \/ "fork" \in Faults /\ Respond(w, "503")
  /\ UNCHANGED <<clientVars, stream, replies, contents, left, pipeVars>>

(* pipe(), fork(): the child inherits the socket and the contents, the parent *)
(* goes into waitpid().                                                      *)
ForkCgi(w) ==
  /\ At(w, "route") /\ Asks(w) = "cgi" /\ w + 1 \in Worker
  /\ pc' = [pc EXCEPT ![w] = "wait", ![w + 1] = "exec"]
  /\ contents' = [contents EXCEPT ![w + 1] = contents[w]]
  /\ pipe' = [pipe EXCEPT ![w] = 0] /\ wrote' = [wrote EXCEPT ![w] = 0]
  /\ got' = [got EXCEPT ![w] = 0] /\ len' = [len EXCEPT ![w] = Buffer]
  /\ UNCHANGED <<clientVars, stream, replies, answer, left>>

(* execl() replaces the child by the script ...                              *)
Exec(w) ==
  /\ At(w, "exec")
  /\ Goto(w, "script")
  /\ \E n \in 0 .. MaxOutput : left' = [left EXCEPT ![w] = n]
  /\ UNCHANGED <<clientVars, stream, replies, contents, answer, pipeVars>>

(* ... or returns, and then the child answers the client itself.              *)
ExecFails(w) ==
  /\ At(w, "exec") /\ "exec" \in Faults
  /\ Respond(w, "500")
  /\ UNCHANGED <<clientVars, stream, replies, contents, left, pipeVars>>

ScriptWrites(w) ==
  /\ At(w, "script") /\ left[w] > 0
  /\ Write(w, "script")
  /\ left' = [left EXCEPT ![w] = @ - 1]
  /\ UNCHANGED <<clientVars, stream, replies, contents, answer, got, len>>

ScriptExits(w) ==
  /\ At(w, "script") /\ left[w] = 0
  /\ Goto(w, "done")
  /\ UNCHANGED <<clientVars, stream, replies, contents, answer, left, pipeVars>>

(* waitpid() returns when the child is gone, not before; the mutants have it  *)
(* not wait at all, or wait for the pipe as well.                            *)
MutNoWait(w) == ~At(w + 1, "none")
MutDrained(w) == At(w + 1, "done") /\ pipe[w] = 0
ChildGone(w) == At(w + 1, "done")

WaitCgi(w) ==
  /\ At(w, "wait") /\ ChildGone(w)
  /\ pc' = [pc EXCEPT ![w] = "read", ![w + 1] = "none"]
  /\ UNCHANGED <<clientVars, stream, replies, contents, answer, left, pipeVars>>

(* while ((len = read(pipefd[0], buf, len)) > 0): read() returns what there   *)
(* is up to len, and what it returned limits the next one.  The mutant keeps    *)
(* room for what the buffer holds.                                           *)
ReadSize(w) == IF pipe[w] < len[w] THEN pipe[w] ELSE len[w]
MutNextLen(w, n) == len[w] - n
NextLen(w, n) == n

ReadPipe(w) ==
  /\ At(w, "read")
  /\ LET n == ReadSize(w) IN
       /\ pipe' = [pipe EXCEPT ![w] = @ - n]
       /\ got' = [got EXCEPT ![w] = @ + n]
       /\ len' = [len EXCEPT ![w] = NextLen(w, n)]
       /\ IF n > 0 THEN UNCHANGED <<pc, answer>> ELSE Respond(w, "raw")
  /\ UNCHANGED <<clientVars, stream, replies, contents, left, wrote>>

Reply(w) == [by |-> w, req |-> contents[w][1].req, status |-> answer[w]]

(* contents.clear() at the top of the loop.                                  *)
MutCleared(w) == contents[w]
Cleared(w) == <<>>

(* send(), and the next turn of the loop.                                    *)
Send(w) ==
  /\ At(w, "send")
  /\ replies' = Append(replies, Reply(w))
  /\ Goto(w, "recv")
  /\ contents' = [contents EXCEPT ![w] = Cleared(w)]
  /\ UNCHANGED <<clientVars, stream, answer, left, pipeVars>>

(* send() on a dead connection raises SIGPIPE, or throws outside the try.     *)
SendFails(w) ==
  /\ At(w, "send") /\ gone
  /\ Goto(w, "done")
  /\ UNCHANGED <<clientVars, stream, replies, contents, answer, left, pipeVars>>

-----------------------------------------------------------------------------
(* The client, and the server that terminates its children.                  *)

(* The request the client is about to send.                                  *)
NextRequest == Wire[sent + 1].req

ClientSends(n) ==
  /\ ~shut /\ ~gone /\ n > 0 /\ sent + n <= Len(Wire)
  /\ PingPong => n = Len(Bytes(NextRequest)) /\ Len(replies) >= NextRequest - 1
  /\ sent' = sent + n
  /\ stream' = stream \o SubSeq(Wire, sent + 1, sent + n)
  /\ UNCHANGED <<shut, gone, replies, pc, contents, answer, left, pipeVars>>

ClientShuts ==
  /\ ~shut /\ ~gone
  /\ shut' = TRUE
  /\ UNCHANGED <<sent, gone, stream, replies, pc, contents, answer, left, pipeVars>>

ClientHangsUp ==
  /\ "hangup" \in Faults /\ ~gone
  /\ gone' = TRUE
  /\ UNCHANGED <<sent, shut, stream, replies, pc, contents, answer, left, pipeVars>>

(* server_stop() knows the first worker only.                                *)
Terminate ==
  /\ "terminate" \in Faults /\ ~At(1, "done")
  /\ Goto(1, "done")
  /\ UNCHANGED <<clientVars, stream, replies, contents, answer, left, pipeVars>>

-----------------------------------------------------------------------------

Session(w) ==
  \/ Recv(w) \/ RecvEnd(w) \/ RecvThrows(w) \/ Parse(w) \/ PrintURI(w)
  \/ ServeFile(w) \/ RefuseCgi(w) \/ ForkCgi(w) \/ Exec(w) \/ ExecFails(w)
  \/ ScriptWrites(w) \/ ScriptExits(w) \/ WaitCgi(w) \/ ReadPipe(w)
  \/ Send(w) \/ SendFails(w)

Client == (\E n \in 1 .. Len(Wire) : ClientSends(n)) \/ ClientShuts \/ ClientHangsUp

Next == (\E w \in Worker : Session(w)) \/ Client \/ Terminate

Spec == Init /\ [][Next]_vars

(* Every process that can run does; the client is free to do nothing.         *)
FairSpec == Spec /\ \A w \in Worker : WF_vars(Session(w))

-----------------------------------------------------------------------------
(* Safety.                                                                   *)

Alive(w) == pc[w] \notin {"none", "done"}

(* However long the chain of failed CGI children gets, one process at a time  *)
(* uses the connection: all before it are in waitpid(), unless the first,     *)
(* the only one the server knows, has been terminated.                       *)
OneReader ==
  \A v, w \in Worker :
    v < w /\ Alive(w) => At(v, "wait") \/ (v = 1 /\ At(v, "done"))

(* recv() blocks in the middle of a request only if the request has filled    *)
(* the buffer exactly each time.                                             *)
StallsOnlyOnFullBuffers ==
  \A w \in Worker : At(w, "recv") => Len(contents[w]) % Buffer = 0

(* The worker that uses the connection holds the bytes right before those     *)
(* still to be received: none is lost between the processes, none read twice. *)
InStep ==
  \A w \in Worker :
    At(w, "recv") => IsSuffix(contents[w] \o stream, SubSeq(Wire, 1, sent))

(* The response made of a pipe is all that was written into it, although the  *)
(* reading loop shrinks its own buffer.                                      *)
CgiComplete ==
  \A w \in Worker : At(w, "send") /\ answer[w] = "raw" =>
    got[w] = wrote[w] /\ pipe[w] = 0

(* The requests of a client that waits for each reply are read one by one and *)
(* whole, whatever their size, and each is answered before the next is read.  *)
RequestsWholeInOrder ==
  PingPong /\ ~gone => \A w \in Worker : At(w, "parse") =>
    LET k == contents[w][1].req IN contents[w] = Bytes(k) /\ k = Len(replies) + 1

-----------------------------------------------------------------------------
(* Liveness.                                                                 *)

(* "I will wait for CGI to finish": waitpid() returns.                       *)
CgiFinishes == \A w \in Worker : At(w, "wait") ~> ~At(w, "wait")

(* A request sent in one piece is answered if it does not fill the buffer.    *)
RequestsAnswered ==
  \A i \in DOMAIN Requests :
    sent >= Ends(i) /\ Len(Bytes(i)) % Buffer # 0 ~> Len(replies) >= i

(* The session ends once the client has sent all it wants to.                 *)
SessionEnds == shut ~> At(1, "done")

=============================================================================
