------------------------------- MODULE Exchange -----------------------------
(***************************************************************************)
(* One turn of the loop of session(), src/session.cpp, between the recv() of  *)
(* a request and the send() of its answer: the constructor of HttpRequest,    *)
(* process_request() with HttpResponse of net/http/response.cpp, and the      *)
(* handlers of their exceptions.                                             *)
(*                                                                         *)
(* A text that is sent is a sequence of lines <<name, value>> and, behind the  *)
(* empty one, of bytes <<c>>.  What a CGI script does is chosen; the processes *)
(* are in Session.                                                           *)
(***************************************************************************)
EXTENDS HttpRequest

CONSTANTS
  Disk,       (* the contents of the files that can be opened, by their paths   *)
  Directory,  (* the contents of a path that is a directory                    *)
  Outputs     (* what CGI scripts write                                       *)

NUL     == <<"NUL">>
Newline == <<"newline">>

(* Files hold bytes in order.                                                *)
IsBytes(text) == Len(text) \in Nat /\ text = [i \in 1 .. Len(text) |-> text[i]]
ASSUME DiskAssumption ==
  \A path \in DOMAIN Disk : Disk[path] # Directory => IsBytes(Disk[path])

VARIABLES
  lost,       (* the file has been removed since it was opened                 *)
  response,
  sent        (* what send() was called with                                   *)

exchangeVars == <<lost, response, sent>>
vars == <<requestVars, exchangeVars>>

(* HttpResponse(status, comment): a title, no headers and no body.             *)
HttpResponse(status) == [raw |-> FALSE, status |-> status, headers |-> <<>>, body |-> <<>>]
Raw(text) == [raw |-> TRUE, status |-> 0, headers |-> <<>>, body |-> text]

Init ==
  /\ Construct
  /\ lost = FALSE /\ response = HttpResponse(200) /\ sent = <<>>

(* What happens with r; the object is assigned and the loop goes on behind try. *)
Answer(r) ==
  /\ response' = r /\ pc' = "common headers"
  /\ UNCHANGED <<requestLocals, lost, sent>>

-----------------------------------------------------------------------------

ConstructRequest == Constructor /\ UNCHANGED exchangeVars

(* Anybody may remove the file.  Before it is opened, that is a path which is   *)
(* not on the disk.                                                          *)
RemoveFile ==
  /\ pc = "last modified" /\ ~lost /\ lost' = TRUE
  /\ UNCHANGED <<requestVars, response, sent>>

(* The handlers begin with a response of their own.                           *)
MutCaught(status) == [response EXCEPT !.status = status]
Caught(status) == HttpResponse(status)

(* catch (Method::unknown_method)                                            *)
UnknownMethod == pc = "unknown method" /\ Answer(Caught(501))

(* catch (std::bad_alloc): memory may run out in the constructor, whose work is *)
(* lost then, and wherever process_request() makes a string.                  *)
OutOfMemory == pc \in {"method", "done", "last modified"} /\ Answer(Caught(503))

(* It may as well run out in a handler that makes its response, and behind the *)
(* try block, where the headers and the text are made.  Nothing catches        *)
(* bad_alloc there: it leaves session(), and the process is aborted.          *)
Uncaught ==
  /\ pc \in {"method", "done", "last modified", "unknown method", "common headers", "send"}
  /\ pc' = "aborted"
  /\ UNCHANGED <<requestLocals, exchangeVars>>

IsScript == IsPrefix(<<"/cgi-bin">>, uri)
Exists == uri \in DOMAIN Disk

(* handle_cgi_request() returns what the script wrote, 404 if it is not there,  *)
(* 503 if there was no fork(), 500 if this is the child whose execl() failed;   *)
(* getpeername() throws if the client is gone.                                *)
RunScript ==
  /\ pc = "done" /\ IsScript
  /\ IF ~Exists THEN Answer(HttpResponse(404))
     ELSE \/ \E text \in Outputs : Answer(Raw(text))
          \/ \E status \in {400, 500, 503} : Answer(HttpResponse(status))

(* std::ifstream filestream(current + path), and the body: a directory can be   *)
(* opened, but nothing can be read of it.                                     *)
Contents == IF Disk[uri] = Directory THEN <<>> ELSE Disk[uri]
Body(bytes) == IF method # "HEAD" THEN bytes ELSE <<>>
OpenFile ==
  /\ pc = "done" /\ ~IsScript
  /\ IF ~Exists THEN Answer(HttpResponse(404))
     ELSE /\ response' = [HttpResponse(200) EXCEPT !.body = Body(Contents)]
          /\ pc' = "last modified"
          /\ UNCHANGED <<requestLocals, lost, sent>>

(* path.ends_with()                                                          *)
EndsWith(path, words) == \E w \in words : IsSuffix(<<w>>, path)
ContentType ==
  IF EndsWith(uri, {"html"}) THEN "text/html"
  ELSE IF EndsWith(uri, {"jpg", "jpeg"}) THEN "image/jpeg" ELSE "text/plain"

(* The headers; last_write_time() throws if the file is no longer there.        *)
DescribeFile ==
  /\ pc = "last modified"
  /\ IF lost THEN Answer(Caught(400))
     ELSE Answer([response EXCEPT !.headers =
                    [name \in {"Content-Length", "Last-Modified", "Allow", "Content-Type"} |->
                       CASE name = "Content-Length" -> Len(response.body)
                         [] name = "Content-Type"   -> ContentType
                         [] name = "Last-Modified"  -> "date"
                         [] name = "Allow"          -> "GET,HEAD"]])

(* Date, Content-Length and Server; Content-Type if there is none.             *)
MutCommonHeaders(r) ==   (* the length is left to process_request() *)
  [r EXCEPT !.headers = @ @@ ("Content-Type" :> "text/plain")]
CommonHeaders(r) ==
  [r EXCEPT !.headers =
     [name \in {"Date", "Content-Length", "Server", "Content-Type"} \cup DOMAIN r.headers |->
        IF name = "Content-Length" THEN Len(r.body)
        ELSE IF name \in {"Date", "Server"} THEN "text"
        ELSE IF name \in DOMAIN r.headers THEN r.headers[name] ELSE "text/plain"]]
AddCommonHeaders ==
  /\ pc = "common headers" /\ pc' = "send"
  /\ response' = CommonHeaders(response)
  /\ UNCHANGED <<requestLocals, lost, sent>>

(* toString(): title, headers, an empty line and the body; of a raw response,  *)
(* body.data(), which ends with the first NUL.                                *)
UpToNUL(text) ==
  LET ends == {i \in DOMAIN text : text[i] = NUL} IN
    IF ends = {} THEN text ELSE SubSeq(text, 1, Min(ends) - 1)
HeaderLine(headers, name) ==
  IF name \in DOMAIN headers THEN <<<<name, headers[name]>>>> ELSE <<>>
(* In the order of a std::map.                                                *)
Lines(headers) ==
  HeaderLine(headers, "Allow") \o HeaderLine(headers, "Content-Length")
    \o HeaderLine(headers, "Content-Type") \o HeaderLine(headers, "Date")
    \o HeaderLine(headers, "Last-Modified") \o HeaderLine(headers, "Server")
Serialised(r) ==
  IF r.raw THEN UpToNUL(r.body)
  ELSE <<<<"HTTP/1.0", r.status>>>> \o Lines(r.headers) \o <<Newline>> \o r.body

Send ==
  /\ pc = "send" /\ pc' = "sent"
  /\ sent' = Serialised(response)
  /\ UNCHANGED <<requestLocals, lost, response>>

Step == ConstructRequest \/ UnknownMethod \/ OutOfMemory \/ Uncaught \/ RunScript
          \/ OpenFile \/ DescribeFile \/ AddCommonHeaders \/ Send

Next == Step \/ RemoveFile

Spec == Init /\ [][Next]_vars

(* The session is a process that runs; the script it waits for ends here.       *)
FairSpec == Spec /\ WF_vars(Step)

-----------------------------------------------------------------------------
(* What a client makes of a text: its status, its headers, and the rest.        *)

Gaps(text)   == {i \in DOMAIN text : text[i] = Newline}
Top(text)    == SubSeq(text, 1, Min(Gaps(text)) - 1)
Entity(text) == SubSeq(text, Min(Gaps(text)) + 1, Len(text))
Status(text) == text[1][2]
Values(text, name) == {l[2] : l \in {l \in ToSet(Tail(Top(text))) : l[1] = name}}

(* Its one Content-Length is the number of the bytes that follow.              *)
Framed(text) ==
  /\ Gaps(text) # {} /\ Min(Gaps(text)) > 1
  /\ Values(text, "Content-Length") = {Len(Entity(text))}

(* Every answer tells its client where it ends, whichever way it came about;    *)
(* the output of a script does if the script's own does and contains no NUL.   *)
AnswerFramed ==
  pc = "sent" =>
    \/ Framed(sent)
    \/ response.raw /\ (~Framed(response.body) \/ NUL \in ToSet(response.body))

(* The path of a request line, without the parameters, decides what is sent:    *)
(* the bytes of the file that has it, unless the method is HEAD, with a type   *)
(* that fits; only what is not on the disk is not found; and an error has       *)
(* nothing of a file about it, even if it was read.                           *)
AnswerFits ==
  pc = "sent" /\ ~response.raw =>
    /\ Status(sent) = 200 /\ RequestLine(source) =>
         LET path  == Path(Target(source))
             bytes == IF Disk[path] = Directory THEN <<>> ELSE Disk[path]
         IN  /\ Entity(sent) = IF source[1] = "HEAD" THEN <<>> ELSE bytes
             /\ Values(sent, "Content-Type") = {IF IsSuffix(<<"html">>, path) THEN "text/html"
                                                ELSE IF \E w \in {"jpg", "jpeg"} : IsSuffix(<<w>>, path)
                                                THEN "image/jpeg" ELSE "text/plain"}
    /\ Status(sent) = 404 /\ RequestLine(source) =>
         Path(Target(source)) \notin DOMAIN Disk
    /\ Status(sent) # 200 => Entity(sent) = <<>> /\ Values(sent, "Last-Modified") = {}

(* Whatever the title is, whatever fails within the try block, and also if      *)
(* memory runs out there, an answer is sent - unless memory runs out where     *)
(* nothing catches that.                                                     *)
Answered == [](pc # "aborted") => <>(pc = "sent")

=============================================================================
