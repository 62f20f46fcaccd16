---------------------------- MODULE ExchangeProofs ---------------------------
(***************************************************************************)
(* What the constructor of HttpRequest keeps, and what is in the answer that  *)
(* is sent, for every title, every method table and every disk.               *)
(***************************************************************************)
EXTENDS Exchange, SequenceLemmas, TLAPS

(* What makes NeverUninitialised hold: before the method has been read the     *)
(* stream is good and piece is empty, so that a title without a word is no    *)
(* method.                                                                   *)
GoodStream ==
  /\ NeverUninitialised
  /\ pc = "method" => ~fail /\ piece = <<>>

(* If there is no word, piece is no word of the method table.                 *)
LEMMA FailedWordIsNoMethod ==
  ASSUME ReadWord, ~fail, piece = <<>>, fail'
  PROVE  piece' \notin {<<m>> : m \in Methods}
<1>1. piece' = <<>>
  BY DEF ReadWord
<1>2. \A m : <<m>> # <<>>
  OBVIOUS
<1> QED
  BY <1>1, <1>2

(* scroll() fails if it meets the end, which it returns as the delimiter.      *)
LEMMA ScrollFails ==
  ASSUME NEW delims, Scroll(delims), fail'
  PROVE  delim' = EOF
BY DEF Scroll

LEMMA MethodStep ==
  ASSUME GoodStream, ReadMethod
  PROVE  GoodStream'
<1>1. ReadWord /\ ~fail /\ piece = <<>>
  BY DEF GoodStream, ReadMethod
<1>2. CASE piece' \in {<<m>> : m \in Methods}
  <2>1. ~fail'
    BY <1>1, <1>2, FailedWordIsNoMethod
  <2>2. pc' = "uri"
    BY <1>2 DEF ReadMethod
  <2> QED
    BY <2>1, <2>2 DEF GoodStream, NeverUninitialised
<1>3. CASE piece' \notin {<<m>> : m \in Methods}
  <2>1. pc' = "unknown method"
    BY <1>3 DEF ReadMethod
  <2> QED
    BY <2>1 DEF GoodStream, NeverUninitialised
<1> QED
  BY <1>2, <1>3

(* After scroll() the constructor reads on with scroll() only if the delimiter *)
(* is one of the URL's.                                                      *)
LEMMA ScrollStep ==
  ASSUME GoodStream, ReadURI \/ ReadKey \/ ReadValue
  PROVE  GoodStream'
<1>1. PICK delims : Scroll(delims)
  BY DEF ReadURI, ReadKey, ReadValue
<1>2. pc' \in {"key", "value", "version"} /\ (pc' # "version" => delim' \in Delims)
  BY DEF ReadURI, ReadKey, ReadValue, AfterParam, Delims
<1>3. pc' # "version" => ~fail'
  BY <1>1, <1>2, ScrollFails DEF Delims, EOF
<1> QED
  BY <1>2, <1>3 DEF GoodStream, NeverUninitialised

(* No other step goes back to the constructor, or touches its stream.          *)
LEMMA OtherStep ==
  ASSUME GoodStream,
         \/ ReadVersion \/ UnknownMethod \/ OutOfMemory \/ Uncaught \/ RunScript
         \/ OpenFile \/ DescribeFile \/ AddCommonHeaders \/ Send
  PROVE  GoodStream'
<1>1. pc' \in {"done", "common headers", "last modified", "send", "sent", "aborted"}
  BY DEF ReadVersion, UnknownMethod, OutOfMemory, Uncaught, RunScript, OpenFile, DescribeFile,
         AddCommonHeaders, Send, Answer
<1> QED
  BY <1>1 DEF GoodStream, NeverUninitialised

(* scroll() never returns an uninitialised delimiter, whatever the title is.   *)
THEOREM StreamsGood == Spec => []NeverUninitialised
<1>1. Init => GoodStream
  BY DEF Init, Construct, GoodStream, NeverUninitialised
<1>2. GoodStream /\ [Next]_vars => GoodStream'
  <2>1. SUFFICES ASSUME GoodStream, [Next]_vars
                 PROVE  GoodStream'
    OBVIOUS
  <2>2. CASE ReadMethod
    BY <2>1, <2>2, MethodStep
  <2>3. CASE ReadURI \/ ReadKey \/ ReadValue
    BY <2>1, <2>3, ScrollStep
  <2>4. CASE \/ ReadVersion \/ UnknownMethod \/ OutOfMemory \/ Uncaught \/ RunScript
             \/ OpenFile \/ DescribeFile \/ AddCommonHeaders \/ Send
    BY <2>1, <2>4, OtherStep
  <2>5. CASE RemoveFile \/ UNCHANGED vars
    <3>1. pc' = pc /\ fail' = fail /\ piece' = piece
      BY <2>5 DEF RemoveFile, vars, requestVars, requestLocals
    <3> QED
      BY <2>1, <3>1 DEF GoodStream, NeverUninitialised
  <2> QED
    BY <2>1, <2>2, <2>3, <2>4, <2>5 DEF Next, Step, ConstructRequest, Constructor
<1>3. GoodStream => NeverUninitialised
  BY DEF GoodStream
<1> QED
  BY <1>1, <1>2, <1>3, PTL DEF Spec

-----------------------------------------------------------------------------
(* The text that is sent.                                                    *)

LEMMA ToSetConcat ==
  ASSUME NEW S, NEW s \in Seq(S), NEW t \in Seq(S)
  PROVE  ToSet(s \o t) = ToSet(s) \cup ToSet(t)
<1>1. /\ DOMAIN s = 1 .. Len(s) /\ DOMAIN t = 1 .. Len(t) /\ Len(s) \in Nat /\ Len(t) \in Nat
      /\ DOMAIN (s \o t) = 1 .. Len(s) + Len(t)
      /\ \A i \in 1 .. Len(s) + Len(t) : (s \o t)[i] = IF i <= Len(s) THEN s[i] ELSE t[i - Len(s)]
  BY ConcatProperties, LenProperties
<1>2. ASSUME NEW x \in ToSet(s \o t) PROVE x \in ToSet(s) \cup ToSet(t)
  <2>1. PICK i \in 1 .. Len(s) + Len(t) : x = (s \o t)[i]
    BY <1>1 DEF ToSet
  <2>2. CASE i <= Len(s)
    BY <1>1, <2>1, <2>2 DEF ToSet
  <2>3. CASE ~(i <= Len(s))
    <3>1. i - Len(s) \in 1 .. Len(t) /\ x = t[i - Len(s)]
      BY <1>1, <2>1, <2>3
    <3>. QED
      BY <1>1, <3>1 DEF ToSet
  <2>. QED
    BY <2>2, <2>3
<1>3. ASSUME NEW x \in ToSet(s) PROVE x \in ToSet(s \o t)
  <2>1. PICK i \in 1 .. Len(s) : x = s[i]
    BY <1>1 DEF ToSet
  <2>2. i \in 1 .. Len(s) + Len(t) /\ x = (s \o t)[i]
    BY <1>1, <2>1
  <2>. QED
    BY <1>1, <2>2 DEF ToSet
<1>4. ASSUME NEW x \in ToSet(t) PROVE x \in ToSet(s \o t)
  <2>1. PICK i \in 1 .. Len(t) : x = t[i]
    BY <1>1 DEF ToSet
  <2>2. Len(s) + i \in 1 .. Len(s) + Len(t) /\ x = (s \o t)[Len(s) + i]
    BY <1>1, <2>1
  <2>. QED
    BY <1>1, <2>2 DEF ToSet
<1>. QED
  BY <1>2, <1>3, <1>4

HeaderNames ==
  {"Allow", "Content-Length", "Content-Type", "Date", "Last-Modified", "Server"}
Pairs(h) == {<<name, h[name]>> : name \in HeaderNames \cap DOMAIN h}

(* Every header has its line.                                                *)
LEMMA LinesOfHeaders ==
  ASSUME NEW h
  PROVE  Lines(h) \in Seq(Pairs(h)) /\ ToSet(Lines(h)) = Pairs(h)
<1> DEFINE L(name) == HeaderLine(h, name)
           P(name) == IF name \in DOMAIN h THEN {<<name, h[name]>>} ELSE {}
<1>1. ASSUME NEW name \in HeaderNames
      PROVE  L(name) \in Seq(Pairs(h)) /\ ToSet(L(name)) = P(name)
  <2>1. CASE name \in DOMAIN h
    <3>1. <<name, h[name]>> \in Pairs(h)
      BY <2>1 DEF Pairs
    <3> DEFINE x == <<name, h[name]>>
    <3> HIDE DEF x
    <3>2. L(name) = <<x>>
      BY <2>1 DEF HeaderLine, x
    <3>3. <<x>> \in Seq(Pairs(h)) /\ DOMAIN <<x>> = {1} /\ <<x>>[1] = x
      BY <3>1 DEF x
    <3>4. ToSet(<<x>>) = {x}
      BY <3>3 DEF ToSet
    <3>. QED
      BY <2>1, <3>2, <3>3, <3>4 DEF x
  <2>2. CASE name \notin DOMAIN h
    <3>1. L(name) = <<>> /\ DOMAIN <<>> = {}
      BY <2>2 DEF HeaderLine
    <3>. QED
      BY <2>2, <3>1, EmptySeq DEF ToSet
  <2>. QED
    BY <2>1, <2>2
<1>2. \A s, t \in Seq(Pairs(h)) : s \o t \in Seq(Pairs(h)) /\ ToSet(s \o t) = ToSet(s) \cup ToSet(t)
  BY ConcatProperties, ToSetConcat
<1>3. Pairs(h) = P("Allow") \cup P("Content-Length") \cup P("Content-Type") \cup P("Date")
                   \cup P("Last-Modified") \cup P("Server")
  BY DEF Pairs, HeaderNames
<1>4. Lines(h) = L("Allow") \o L("Content-Length") \o L("Content-Type") \o L("Date")
                   \o L("Last-Modified") \o L("Server")
  BY DEF Lines
<1>5. \A name \in HeaderNames : L(name) \in Seq(Pairs(h)) /\ ToSet(L(name)) = P(name)
  BY <1>1
<1> HIDE DEF L, P
<1>6. /\ "Allow" \in HeaderNames /\ "Content-Length" \in HeaderNames /\ "Content-Type" \in HeaderNames
      /\ "Date" \in HeaderNames /\ "Last-Modified" \in HeaderNames /\ "Server" \in HeaderNames
  BY DEF HeaderNames
<1>7. ASSUME NEW s \in Seq(Pairs(h)), NEW name \in HeaderNames
      PROVE  s \o L(name) \in Seq(Pairs(h)) /\ ToSet(s \o L(name)) = ToSet(s) \cup P(name)
  BY <1>2, <1>5
<1> DEFINE s1 == L("Allow") \o L("Content-Length")
           s2 == s1 \o L("Content-Type")
           s3 == s2 \o L("Date")
           s4 == s3 \o L("Last-Modified")
           s5 == s4 \o L("Server")
<1>8. s1 \in Seq(Pairs(h)) /\ ToSet(s1) = P("Allow") \cup P("Content-Length")
  BY <1>5, <1>6, <1>7
<1> HIDE DEF s1
<1>9. s2 \in Seq(Pairs(h)) /\ ToSet(s2) = ToSet(s1) \cup P("Content-Type")
  BY <1>6, <1>7, <1>8
<1> HIDE DEF s2
<1>10. s3 \in Seq(Pairs(h)) /\ ToSet(s3) = ToSet(s2) \cup P("Date")
  BY <1>6, <1>7, <1>9
<1> HIDE DEF s3
<1>11. s4 \in Seq(Pairs(h)) /\ ToSet(s4) = ToSet(s3) \cup P("Last-Modified")
  BY <1>6, <1>7, <1>10
<1> HIDE DEF s4
<1>12. s5 \in Seq(Pairs(h)) /\ ToSet(s5) = ToSet(s4) \cup P("Server")
  BY <1>6, <1>7, <1>11
<1> HIDE DEF s5
<1>13. Lines(h) = s5
  BY <1>4 DEF s1, s2, s3, s4, s5
<1>. QED
  BY <1>3, <1>8, <1>9, <1>10, <1>11, <1>12, <1>13

(* A text whose first lines are no gap: the gap ends them.                    *)
LEMMA Heading ==
  ASSUME NEW S, NEW top \in Seq(S), NEW rest \in Seq(S), Newline \in S,
         \A i \in 1 .. Len(top) : top[i] # Newline,
         NEW text, text = top \o <<Newline>> \o rest
  PROVE  /\ Gaps(text) # {} /\ Min(Gaps(text)) = Len(top) + 1
         /\ Top(text) = top /\ Entity(text) = rest
<1> DEFINE first == top \o <<Newline>>
           n == Len(top)
           gaps == Gaps(text)
<1>1. n \in Nat /\ Len(rest) \in Nat
  BY LenProperties
<1>2. <<Newline>> \in Seq(S) /\ Len(<<Newline>>) = 1 /\ <<Newline>>[1] = Newline
  OBVIOUS
<1>3. /\ first \in Seq(S) /\ Len(first) = n + 1 /\ first[n + 1] = Newline
      /\ \A i \in 1 .. n : first[i] = top[i]
  BY <1>1, <1>2, ConcatProperties
<1> HIDE DEF first
<1>4. text = first \o rest
  BY DEF first
<1>5. /\ text \in Seq(S) /\ Len(text) = n + 1 + Len(rest) /\ text[n + 1] = Newline
      /\ \A i \in 1 .. n : text[i] = top[i]
      /\ \A i \in 1 .. Len(rest) : text[n + 1 + i] = rest[i]
  BY <1>1, <1>3, <1>4, ConcatProperties
<1>6. DOMAIN text = 1 .. n + 1 + Len(rest)
  BY <1>5, LenProperties
<1> HIDE DEF n
<1>7. n + 1 \in gaps /\ \A i \in gaps : i \in Nat /\ n + 1 <= i
  BY <1>1, <1>5, <1>6 DEF Gaps, n
<1> HIDE DEF gaps
<1>8. Min(gaps) = n + 1
  BY <1>1, <1>7 DEF Min
<1>9. SubSeq(text, 1, n) = top
  <2>1. /\ SubSeq(text, 1, n) \in Seq(S) /\ Len(SubSeq(text, 1, n)) = n
        /\ \A i \in 1 .. n : SubSeq(text, 1, n)[i] = text[i]
    BY <1>1, <1>5, <1>6, SubSeqProperties
  <2>2. \A i \in 1 .. Len(top) : SubSeq(text, 1, n)[i] = top[i]
    BY <1>5, <2>1 DEF n
  <2>. QED
    BY <2>1, <2>2, SeqEqual DEF n
<1>10. SubSeq(text, n + 2, Len(text)) = rest
  <2>1. /\ SubSeq(text, n + 2, Len(text)) \in Seq(S) /\ Len(SubSeq(text, n + 2, Len(text))) = Len(rest)
        /\ \A i \in 1 .. Len(rest) : SubSeq(text, n + 2, Len(text))[i] = text[n + 1 + i]
    BY <1>1, <1>5, <1>6, SubSeqProperties
  <2>2. \A i \in 1 .. Len(rest) : SubSeq(text, n + 2, Len(text))[i] = rest[i]
    BY <1>5, <2>1
  <2>. QED
    BY <2>1, <2>2, SeqEqual
<1>11. Min(Gaps(text)) - 1 = n /\ Min(Gaps(text)) + 1 = n + 2
  BY <1>1, <1>8 DEF gaps, n
<1>12. Top(text) = top /\ Entity(text) = rest
  BY <1>9, <1>10, <1>11 DEF Top, Entity
<1>. QED
  BY <1>7, <1>8, <1>12 DEF gaps, n

(* The bytes of a body, and what a client makes of an answer that is not raw.  *)
Bytes(text) == {text[i] : i \in 1 .. Len(text)}

LEMMA BytesInOrder ==
  ASSUME NEW text, IsBytes(text)
  PROVE  text \in Seq(Bytes(text))
<1>1. [i \in 1 .. Len(text) |-> text[i]] \in [1 .. Len(text) -> Bytes(text)]
  BY DEF Bytes
<1>. QED
  BY <1>1 DEF IsBytes

Read(text, r) ==
  /\ Gaps(text) # {} /\ Min(Gaps(text)) > 1
  /\ Status(text) = r.status /\ Entity(text) = r.body
  /\ ToSet(Tail(Top(text))) = Pairs(r.headers)

LEMMA AnswerRead ==
  ASSUME NEW r, ~r.raw, IsBytes(r.body)
  PROVE  Read(Serialised(r), r)
<1> DEFINE T == <<"HTTP/1.0", r.status>>
           h == r.headers
           S == Pairs(h) \cup {T, Newline} \cup Bytes(r.body)
           lines == Lines(h)
           top == <<T>> \o lines
           text == Serialised(r)
           body == r.body
<1>1. lines \in Seq(Pairs(h)) /\ ToSet(lines) = Pairs(h)
  BY LinesOfHeaders
<1>2. \A p \in Pairs(h) \cup {T} : p # Newline
  <2>1. \A a, b : <<a, b>> # Newline
    BY DEF Newline
  <2>. QED
    BY <2>1 DEF Pairs
<1>3. /\ lines \in Seq(S) /\ \A i \in 1 .. Len(lines) : lines[i] \in Pairs(h)
      /\ body \in Seq(S) /\ <<T>> \in Seq(S) /\ Newline \in S
  <2>1. r.body \in Seq(Bytes(r.body))
    BY BytesInOrder
  <2> HIDE DEF lines
  <2>. QED
    BY <1>1, <2>1
<1>4. /\ top \in Seq(S) /\ Len(top) = Len(lines) + 1 /\ top[1] = T
      /\ \A i \in 1 .. Len(lines) : top[i + 1] = lines[i]
  <2>1. Len(<<T>>) = 1 /\ <<T>>[1] = T
    OBVIOUS
  <2> HIDE DEF lines, S, T
  <2>. QED
    BY <1>3, <2>1, ConcatProperties, LenProperties
<1>5. Len(lines) \in Nat
  BY <1>3, LenProperties
<1>6. \A i \in 1 .. Len(top) : top[i] # Newline
  <2>1. SUFFICES ASSUME NEW i \in 1 .. Len(top) PROVE top[i] # Newline
    OBVIOUS
  <2> HIDE DEF top, lines
  <2>2. CASE i = 1
    BY <1>2, <1>4, <2>2
  <2>3. CASE i # 1
    <3>1. i - 1 \in 1 .. Len(lines) /\ i - 1 + 1 = i
      BY <1>4, <1>5, <2>3
    <3>2. top[i] = lines[i - 1]
      BY <1>4, <3>1
    <3>. QED
      BY <1>2, <1>3, <3>1, <3>2
  <2>. QED
    BY <2>2, <2>3
<1>7. text = top \o <<Newline>> \o body
  BY DEF Serialised
<1> HIDE DEF top, text, S, T, body
<1>8. /\ Gaps(text) # {} /\ Min(Gaps(text)) = Len(top) + 1
      /\ Top(text) = top /\ Entity(text) = body
  BY <1>3, <1>4, <1>6, <1>7, Heading
<1>9. text[1] = T
  <2>1. Gaps(text) # {} /\ Min(Gaps(text)) - 1 = Len(top) /\ Len(top) >= 1
    BY <1>4, <1>5, <1>8
  <2>2. top = SubSeq(text, 1, Len(top))
    BY <1>8, <2>1 DEF Top
  <2>3. SubSeq(text, 1, Len(top))[1] = text[1]
    BY <2>1, <1>4, <1>5
  <2>. QED
    BY <1>4, <2>2, <2>3
<1>10. Tail(top) = lines
  <2>1. Tail(top) \in Seq(S) /\ Len(Tail(top)) = Len(lines)
    BY <1>4, <1>5
  <2>2. \A i \in 1 .. Len(lines) : Tail(top)[i] = lines[i]
    BY <1>4, <1>5
  <2>. QED
    BY <1>3, <2>1, <2>2, SeqEqual
<1>11. T[2] = r.status
  BY DEF T
<1>12. Min(Gaps(text)) > 1
  BY <1>4, <1>5, <1>8
<1> HIDE DEF lines, h
<1>13. Read(text, r)
  BY <1>1, <1>8, <1>9, <1>10, <1>11, <1>12 DEF Read, Status, body, h
<1>. QED
  BY <1>13 DEF text

(* The values of a header.                                                   *)
LEMMA ValuesRead ==
  ASSUME NEW text, NEW r, Read(text, r), NEW name \in HeaderNames
  PROVE  Values(text, name) = IF name \in DOMAIN r.headers THEN {r.headers[name]} ELSE {}
<1>1. Values(text, name) = {l[2] : l \in {l \in Pairs(r.headers) : l[1] = name}}
  BY DEF Values, Read
<1>2. {l \in Pairs(r.headers) : l[1] = name} =
        IF name \in DOMAIN r.headers THEN {<<name, r.headers[name]>>} ELSE {}
  BY DEF Pairs
<1>. QED
  BY <1>1, <1>2

-----------------------------------------------------------------------------
(* Framing.                                                                  *)

LEMMA CommonHeadersRight ==
  ASSUME NEW r, DOMAIN r = {"raw", "status", "headers", "body"},
         r = [raw |-> r.raw, status |-> r.status, headers |-> r.headers, body |-> r.body]
  PROVE  LET c == CommonHeaders(r) IN
         /\ c.raw = r.raw /\ c.status = r.status /\ c.body = r.body
         /\ c = [raw |-> c.raw, status |-> c.status, headers |-> c.headers, body |-> c.body]
         /\ DOMAIN c.headers = {"Date", "Content-Length", "Server", "Content-Type"} \cup DOMAIN r.headers
         /\ c.headers["Content-Length"] = Len(r.body)
         /\ "Content-Type" \in DOMAIN r.headers =>
              c.headers["Content-Type"] = r.headers["Content-Type"]
<1> DEFINE h ==
             [name \in {"Date", "Content-Length", "Server", "Content-Type"} \cup DOMAIN r.headers |->
                IF name = "Content-Length" THEN Len(r.body)
                ELSE IF name \in {"Date", "Server"} THEN "text"
                ELSE IF name \in DOMAIN r.headers THEN r.headers[name] ELSE "text/plain"]
<1>1. CommonHeaders(r) = [r EXCEPT !.headers = h]
  BY DEF CommonHeaders
<1>2. /\ DOMAIN h = {"Date", "Content-Length", "Server", "Content-Type"} \cup DOMAIN r.headers
      /\ h["Content-Length"] = Len(r.body)
      /\ "Content-Type" \in DOMAIN r.headers => h["Content-Type"] = r.headers["Content-Type"]
  OBVIOUS
<1> HIDE DEF h
<1>3. [r EXCEPT !.headers = h] = [raw |-> r.raw, status |-> r.status, headers |-> h, body |-> r.body]
  OBVIOUS
<1>. QED
  BY <1>1, <1>2, <1>3

(* A response is an object of the class; its body is a string, and its         *)
(* Content-Length, once it has one, the length of that.                       *)
IsResponse(r) ==
  /\ DOMAIN r = {"raw", "status", "headers", "body"}
  /\ r = [raw |-> r.raw, status |-> r.status, headers |-> r.headers, body |-> r.body]

Measured ==
  /\ IsResponse(response)
  /\ ~response.raw => IsBytes(response.body)
  /\ pc \in {"send", "sent"} =>
       /\ "Content-Length" \in DOMAIN response.headers
       /\ response.headers["Content-Length"] = Len(response.body)
  /\ pc = "last modified" => ~response.raw
  /\ pc = "sent" => sent = Serialised(response)

LEMMA NoBytes == IsBytes(<<>>)
BY EmptySeq DEF IsBytes

LEMMA NewResponse ==
  ASSUME NEW status
  PROVE  /\ IsResponse(HttpResponse(status)) /\ ~HttpResponse(status).raw
         /\ IsBytes(HttpResponse(status).body) /\ HttpResponse(status).body = <<>>
         /\ HttpResponse(status).status = status /\ HttpResponse(status).headers = <<>>
BY NoBytes DEF HttpResponse, IsResponse

LEMMA RawResponse ==
  ASSUME NEW text
  PROVE  IsResponse(Raw(text)) /\ Raw(text).raw
BY DEF Raw, IsResponse

LEMMA AnswerMeasured ==
  ASSUME NEW r, Answer(r), IsResponse(r), ~r.raw => IsBytes(r.body)
  PROVE  Measured'
BY DEF Answer, Measured

LEMMA ErrorMeasured ==
  ASSUME NEW status, Answer(HttpResponse(status))
  PROVE  Measured'
BY NewResponse, AnswerMeasured

LEMMA ScriptMeasured ==
  ASSUME RunScript
  PROVE  Measured'
<1>1. CASE \E text \in Outputs : Answer(Raw(text))
  <2>1. PICK text \in Outputs : Answer(Raw(text))
    BY <1>1
  <2>2. IsResponse(Raw(text)) /\ Raw(text).raw
    BY RawResponse
  <2>. QED
    BY <2>1, <2>2, AnswerMeasured
<1>2. CASE \E status \in {400, 404, 500, 503} : Answer(HttpResponse(status))
  BY <1>2, ErrorMeasured
<1>. QED
  BY <1>1, <1>2 DEF RunScript

LEMMA ContentsBytes ==
  ASSUME uri \in DOMAIN Disk
  PROVE  IsBytes(Body(Contents))
BY NoBytes, DiskAssumption DEF Body, Contents

LEMMA OpenMeasured ==
  ASSUME OpenFile
  PROVE  Measured'
<1>1. CASE ~Exists
  BY <1>1, ErrorMeasured DEF OpenFile
<1>2. CASE Exists
  <2>1. /\ response' = [HttpResponse(200) EXCEPT !.body = Body(Contents)]
        /\ pc' = "last modified"
    BY <1>2 DEF OpenFile
  <2>2. IsBytes(Body(Contents))
    BY <1>2, ContentsBytes DEF Exists
  <2>. QED
    BY <2>1, <2>2 DEF Measured, IsResponse, HttpResponse
<1>. QED
  BY <1>1, <1>2

LEMMA DescribeMeasured ==
  ASSUME Measured, DescribeFile
  PROVE  Measured'
<1>1. CASE lost
  BY <1>1, ErrorMeasured DEF DescribeFile, Caught
<1>2. CASE ~lost
  <2>1. PICK h : Answer([response EXCEPT !.headers = h])
    BY <1>2 DEF DescribeFile
  <2> DEFINE r == [response EXCEPT !.headers = h]
  <2>2. IsResponse(response) /\ ~response.raw /\ IsBytes(response.body)
    BY DEF Measured, DescribeFile
  <2>3. r = [raw |-> response.raw, status |-> response.status, headers |-> h,
             body |-> response.body]
    BY <2>2 DEF IsResponse
  <2>4. IsResponse(r) /\ r.body = response.body
    BY <2>3 DEF IsResponse
  <2> HIDE DEF r
  <2>. QED
    BY <2>1, <2>2, <2>4, AnswerMeasured DEF r
<1>. QED
  BY <1>1, <1>2

LEMMA CommonMeasured ==
  ASSUME Measured, AddCommonHeaders
  PROVE  Measured'
<1>1. IsResponse(response) /\ (~response.raw => IsBytes(response.body))
  BY DEF Measured
<1> DEFINE c == CommonHeaders(response)
<1>2. /\ c.raw = response.raw /\ c.body = response.body
      /\ c = [raw |-> c.raw, status |-> c.status, headers |-> c.headers, body |-> c.body]
      /\ DOMAIN c.headers = {"Date", "Content-Length", "Server", "Content-Type"}
                              \cup DOMAIN response.headers
      /\ c.headers["Content-Length"] = Len(response.body)
  BY <1>1, CommonHeadersRight DEF IsResponse
<1>3. response' = c /\ pc' = "send"
  BY DEF AddCommonHeaders
<1> HIDE DEF c
<1>4. IsResponse(c)
  BY <1>2 DEF IsResponse
<1>. QED
  BY <1>1, <1>2, <1>3, <1>4 DEF Measured

LEMMA SendMeasured ==
  ASSUME Measured, Send
  PROVE  Measured'
BY DEF Measured, Send

LEMMA ConstructMeasured ==
  ASSUME Measured, ConstructRequest
  PROVE  Measured'
<1>1. response' = response
      /\ pc' \in {"uri", "key", "value", "version", "done", "unknown method"}
  BY DEF ConstructRequest, Constructor, ReadMethod, ReadURI, ReadKey, ReadValue, ReadVersion,
         exchangeVars, AfterParam
<1>. QED
  BY <1>1 DEF Measured

LEMMA MeasuredAlways == Spec => []Measured
<1>1. Init => Measured
  BY NewResponse DEF Init, Construct, Measured
<1>2. Measured /\ [Next]_vars => Measured'
  <2>1. SUFFICES ASSUME Measured, [Next]_vars PROVE Measured'
    OBVIOUS
  <2>2. CASE ConstructRequest
    BY <2>1, <2>2, ConstructMeasured
  <2>3. CASE UnknownMethod \/ OutOfMemory
    BY <2>3, ErrorMeasured DEF UnknownMethod, OutOfMemory, Caught
  <2>4. CASE RunScript
    BY <2>4, ScriptMeasured
  <2>5. CASE OpenFile
    BY <2>5, OpenMeasured
  <2>6. CASE DescribeFile
    BY <2>1, <2>6, DescribeMeasured
  <2>7. CASE AddCommonHeaders
    BY <2>1, <2>7, CommonMeasured
  <2>8. CASE Send
    BY <2>1, <2>8, SendMeasured
  <2>9. CASE RemoveFile \/ UNCHANGED vars
    <3>1. pc' = pc /\ response' = response /\ sent' = sent
      BY <2>9 DEF RemoveFile, vars, requestVars, exchangeVars
    <3>. QED
      BY <2>1, <3>1 DEF Measured
  <2>10. CASE Uncaught
    <3>1. pc' = "aborted" /\ response' = response
      BY <2>10 DEF Uncaught, exchangeVars
    <3>. QED
      BY <2>1, <3>1 DEF Measured
  <2>. QED
    BY <2>1, <2>2, <2>3, <2>4, <2>5, <2>6, <2>7, <2>8, <2>9, <2>10 DEF Next, Step
<1>. QED
  BY <1>1, <1>2, PTL DEF Spec

(* Every answer tells its client where it ends, for every title, disk and       *)
(* script: whoever made it, Content-Length is the length of what follows the   *)
(* first empty line of the text, which no header has made.                    *)
THEOREM AnswersFramed == Spec => []AnswerFramed
<1>1. Measured => AnswerFramed
  <2>1. SUFFICES ASSUME Measured, pc = "sent"
                 PROVE  \/ Framed(sent)
                        \/ response.raw /\ (~Framed(response.body) \/ NUL \in ToSet(response.body))
    BY DEF AnswerFramed
  <2>2. sent = Serialised(response)
    BY <2>1 DEF Measured
  <2>3. CASE response.raw
    <3>1. sent = UpToNUL(response.body)
      BY <2>2, <2>3 DEF Serialised
    <3>2. NUL \notin ToSet(response.body) => UpToNUL(response.body) = response.body
      BY DEF UpToNUL, ToSet
    <3>. QED
      BY <2>3, <3>1, <3>2
  <2>4. CASE ~response.raw
    <3>1. /\ IsBytes(response.body)
          /\ "Content-Length" \in DOMAIN response.headers
          /\ response.headers["Content-Length"] = Len(response.body)
      BY <2>1, <2>4 DEF Measured
    <3>2. Read(sent, response)
      BY <2>2, <2>4, <3>1, AnswerRead
    <3>3. "Content-Length" \in HeaderNames
      BY DEF HeaderNames
    <3>4. Values(sent, "Content-Length") = {Len(response.body)}
      BY <3>1, <3>2, <3>3, ValuesRead
    <3>. QED
      BY <3>2, <3>4 DEF Framed, Read
  <2>. QED
    BY <2>3, <2>4
<1>. QED
  BY <1>1, MeasuredAlways, PTL

-----------------------------------------------------------------------------
(* Path and contents.  A request line begins with its method and a blank, and  *)
(* another blank ends its target.                                             *)
Shaped(t, m, j) ==
  /\ m \in Methods /\ j \in 4 .. Len(t) - 1 /\ Blanks(t) = {2, j} /\ t[1] = m
  /\ SubSeq(t, 1, 1) = <<m>>

LEMMA RequestLineShaped ==
  ASSUME source \in Seq(Tokens), RequestLine(source)
  PROVE  \E m \in Methods, j \in Nat : Shaped(source, m, j)
<1>1. PICK i \in DOMAIN source, j \in DOMAIN source :
        /\ Blanks(source) = {i, j} /\ i + 1 < j /\ j < Len(source)
        /\ \E m \in Methods : SubSeq(source, 1, i - 1) = <<m>>
  BY DEF RequestLine
<1>2. PICK m \in Methods : SubSeq(source, 1, i - 1) = <<m>>
  BY <1>1
<1>3. DOMAIN source = 1 .. Len(source) /\ Len(source) \in Nat
  BY LenProperties
<1>4. /\ Len(SubSeq(source, 1, i - 1)) = i - 1
      /\ \A k \in 1 .. i - 1 : SubSeq(source, 1, i - 1)[k] = source[k]
  <2>1. /\ Len(SubSeq(source, 1, i - 1)) = IF 1 <= i - 1 THEN i - 1 - 1 + 1 ELSE 0
        /\ \A k \in 1 .. i - 1 - 1 + 1 : SubSeq(source, 1, i - 1)[k] = source[1 + k - 1]
    BY <1>3, SubSeqProperties
  <2>. QED
    BY <1>3, <2>1
<1>5. Len(<<m>>) = 1 /\ <<m>>[1] = m
  OBVIOUS
<1>6. i = 2
  BY <1>2, <1>3, <1>4, <1>5
<1>7. source[1] = m
  <2>1. 1 \in 1 .. i - 1
    BY <1>6
  <2>. QED
    BY <1>2, <1>4, <1>5, <2>1
<1>8. SubSeq(source, 1, 1) = <<m>>
  BY <1>2, <1>6
<1>9. j \in 4 .. Len(source) - 1
  BY <1>1, <1>3, <1>6
<1>. QED
  BY <1>1, <1>3, <1>6, <1>7, <1>8, <1>9 DEF Shaped

(* From the beginning, the first word is the method.                          *)
LEMMA FirstWord ==
  ASSUME source \in Seq(Tokens), NEW m, NEW j, Shaped(source, m, j), pos = 0, ~fail, ReadWord
  PROVE  piece' = <<m>> /\ pos' = 1 /\ ~fail'
<1>1. DOMAIN source = 1 .. Len(source) /\ Len(source) \in Nat
  BY LenProperties
<1>2. m # Blank
  BY TokenAssumption DEF Shaped
<1>3. /\ 1 \in WordStart /\ \A i \in WordStart : i \in Nat /\ 1 <= i
  BY <1>1, <1>2 DEF WordStart, Rest, NonBlank, Shaped
<1>4. Min(WordStart) = 1
  <2> HIDE DEF WordStart
  <2>. QED
    BY <1>3 DEF Min
<1> DEFINE ends == {k \in 1 .. Len(source) + 1 : k = Len(source) + 1 \/ ~NonBlank(k)}
<1>5. 2 \in ends /\ \A k \in ends : k \in Nat /\ 2 <= k
  BY <1>1, <1>2 DEF NonBlank, Shaped, Blanks
<1>6. Min(ends) = 2
  <2> HIDE DEF ends
  <2>. QED
    BY <1>5 DEF Min
<1>7. WordEnd(1) = 2
  BY <1>6 DEF WordEnd
<1>8. /\ piece' = SubSeq(source, Min(WordStart), WordEnd(Min(WordStart)) - 1)
      /\ pos' = WordEnd(Min(WordStart)) - 1 /\ fail' = fail
  BY <1>3 DEF ReadWord
<1>9. WordEnd(Min(WordStart)) - 1 = 1
  BY <1>4, <1>7
<1>. QED
  BY <1>4, <1>8, <1>9 DEF Shaped

LEMMA PartOfTokens ==
  ASSUME NEW t \in Seq(Tokens), NEW a \in Nat, NEW b \in Nat, a <= b, b <= Len(t)
  PROVE  /\ Part(t, a, b) \in Seq(Tokens) /\ Len(Part(t, a, b)) = b - a
         /\ \A i \in 1 .. b - a : Part(t, a, b)[i] = t[a + i]
BY PartType

LEMMA TargetIs ==
  ASSUME NEW t \in Seq(Tokens), NEW m, NEW j \in Nat, Shaped(t, m, j)
  PROVE  /\ Target(t) = Part(t, 2, j - 1) /\ Target(t) \in Seq(Tokens) /\ Len(Target(t)) = j - 3
         /\ \A i \in 1 .. j - 3 : Target(t)[i] = t[2 + i]
<1>1. Len(t) \in Nat /\ j \in 4 .. Len(t) - 1 /\ Blanks(t) = {2, j}
  BY LenProperties DEF Shaped
<1>2. Target(t) = Part(t, 2, j - 1)
  <2>1. Min({2, j}) = 2 /\ Max({2, j}) = j
    BY <1>1 DEF Min, Max
  <2>. QED
    BY <1>1, <2>1 DEF Target, Part
<1>3. 2 \in Nat /\ j - 1 \in Nat /\ 2 <= j - 1 /\ j - 1 <= Len(t) /\ j - 1 - 2 = j - 3
  BY <1>1
<1>4. /\ Part(t, 2, j - 1) \in Seq(Tokens) /\ Len(Part(t, 2, j - 1)) = j - 1 - 2
      /\ \A i \in 1 .. j - 1 - 2 : Part(t, 2, j - 1)[i] = t[2 + i]
  BY <1>3, PartOfTokens
<1>. QED
  BY <1>2, <1>3, <1>4

(* Then scroll() gets the path, and is at the end of the target or at the query. *)
LEMMA FirstPart ==
  ASSUME source \in Seq(Tokens), NEW m, NEW j \in Nat, Shaped(source, m, j), pos = 1,
         Scroll({"?", Blank})
  PROVE  /\ part' = Path(Target(source)) /\ ~fail'
         /\ \/ delim' = Blank /\ pos' = j /\ Query(Target(source)) = <<>>
            \/ /\ delim' = "?" /\ pos' \in 3 .. j - 1
               /\ Marks(Target(source)) # {} /\ Min(Marks(Target(source))) = pos' - 2
               /\ Query(Target(source)) = Part(source, pos', j - 1)
<1> DEFINE s == source
           target == Target(s)
           stops == {i \in 3 .. Len(s) : s[i] \in {"?", Blank}}
           stop == Min(stops)
<1>1. DOMAIN s = 1 .. Len(s) /\ Len(s) \in Nat
  BY LenProperties
<1>2. j \in 4 .. Len(s) - 1 /\ Blanks(s) = {2, j}
  BY DEF Shaped
<1>3. \A i \in 1 .. Len(s) : s[i] = Blank <=> i \in {2, j}
  BY <1>1, <1>2 DEF Blanks
<1>4. Skipped = 3
  <2>1. 3 \in WordStart /\ \A i \in WordStart : i \in Nat /\ 3 <= i
    BY <1>1, <1>2, <1>3 DEF WordStart, Rest, NonBlank
  <2> HIDE DEF WordStart
  <2>. QED
    BY <2>1 DEF Skipped, Min
<1>5. /\ target = Part(s, 2, j - 1) /\ target \in Seq(Tokens) /\ Len(target) = j - 3
      /\ \A i \in 1 .. j - 3 : target[i] = s[2 + i]
  BY TargetIs
<1>7. j \in stops
  BY <1>1, <1>2, <1>3
<1>8. part' = SubSeq(s, 3, stop - 1) \o <<>> /\ delim' = s[stop] /\ pos' = stop /\ ~fail'
  BY <1>4, <1>7 DEF Scroll
<1>9. stop \in 3 .. j /\ s[stop] \in {"?", Blank} /\ \A i \in 3 .. stop - 1 : s[i] \notin {"?", Blank}
  <2>1. PICK x \in stops : \A y \in stops : x <= y
    <3>1. stops \in SUBSET Nat /\ stops # {}
      BY <1>1, <1>7
    <3> HIDE DEF stops
    <3>. QED
      BY <3>1, LeastNumber
  <2>2. stop \in stops /\ \A y \in stops : stop <= y
    <3> HIDE DEF stops
    <3>. QED
      BY <2>1 DEF Min
  <2> HIDE DEF stop
  <2>3. stop \in 3 .. Len(s) /\ stop <= j
    BY <1>7, <2>2
  <2>. QED
    BY <1>1, <1>2, <2>2, <2>3
<1> HIDE DEF stop, stops
<1>10. part' = Part(s, 2, stop - 1)
  <2>1. 2 \in Nat /\ stop - 1 \in Nat /\ 2 <= stop - 1 /\ stop - 1 <= Len(s)
    BY <1>1, <1>2, <1>9
  <2>2. Part(s, 2, stop - 1) \in Seq(Tokens)
    BY <2>1, PartType
  <2>3. SubSeq(s, 3, stop - 1) = Part(s, 2, stop - 1)
    BY DEF Part
  <2>. QED
    BY <1>8, <2>2, <2>3, ConcatEmptySeq
<1>11. CASE stop = j
  <2>1. Marks(target) = {}
    <3>1. SUFFICES ASSUME NEW i \in 1 .. j - 3, target[i] = "?" PROVE FALSE
      BY <1>2, <1>5, LenProperties DEF Marks
    <3>2. s[2 + i] = "?" /\ 2 + i \in 3 .. stop - 1
      BY <1>2, <1>5, <1>11, <3>1
    <3>. QED
      BY <1>9, <3>2
  <2>2. s[stop] = Blank
    BY <1>1, <1>2, <1>3, <1>11
  <2>. QED
    BY <1>5, <1>8, <1>10, <1>11, <2>1, <2>2 DEF Path, Query
<1>12. CASE stop # j
  <2>1. stop - 2 \in 1 .. j - 3 /\ 2 + (stop - 2) = stop
    BY <1>2, <1>9, <1>12
  <2>2. s[stop] = "?"
    BY <1>1, <1>2, <1>3, <1>9, <1>12
  <2>3. DOMAIN target = 1 .. j - 3
    BY <1>5, LenProperties
  <2>4. stop - 2 \in Marks(target)
    BY <1>5, <2>1, <2>2, <2>3 DEF Marks
  <2>5. ASSUME NEW i \in Marks(target) PROVE i \in Nat /\ stop - 2 <= i
    <3>1. i \in 1 .. j - 3 /\ s[2 + i] = "?"
      BY <1>5, <2>3, <2>5 DEF Marks
    <3>2. 2 + i \notin 3 .. stop - 1
      BY <1>9, <3>1
    <3>. QED
      BY <1>2, <1>9, <3>1, <3>2
  <2>6. Min(Marks(target)) = stop - 2
    BY <2>1, <2>4, <2>5 DEF Min
  <2>7. Path(target) = Part(target, 0, stop - 3)
    <3>1. stop - 2 - 1 = stop - 3 /\ 0 + 1 = 1
      BY <1>9
    <3>. QED
      BY <2>4, <2>6, <3>1 DEF Path, Part
  <2>8. Part(Part(s, 2, j - 1), 0, stop - 3) = Part(s, 2 + 0, 2 + (stop - 3))
    <3>1. /\ 2 \in Nat /\ j - 1 \in Nat /\ 2 <= j - 1 /\ j - 1 <= Len(s)
          /\ 0 \in Nat /\ stop - 3 \in Nat /\ 0 <= stop - 3 /\ stop - 3 <= j - 1 - 2
      BY <1>1, <1>2, <1>9, <1>12
    <3>. QED
      BY <3>1, PartOfPart
  <2>9. 2 + 0 = 2 /\ 2 + (stop - 3) = stop - 1
    BY <1>9
  <2>10. Query(target) = Part(target, stop - 2, j - 3)
    BY <1>5, <2>4, <2>6 DEF Query, Part
  <2>11. Part(Part(s, 2, j - 1), stop - 2, j - 3) = Part(s, 2 + (stop - 2), 2 + (j - 3))
    <3>1. /\ 2 \in Nat /\ j - 1 \in Nat /\ 2 <= j - 1 /\ j - 1 <= Len(s)
          /\ stop - 2 \in Nat /\ j - 3 \in Nat /\ stop - 2 <= j - 3 /\ j - 3 <= j - 1 - 2
      BY <1>1, <1>2, <1>9, <1>12
    <3>. QED
      BY <3>1, PartOfPart
  <2>12. 2 + (j - 3) = j - 1 /\ stop \in 3 .. j - 1
    BY <1>2, <1>9, <1>12
  <2>13. Query(target) = Part(s, stop, j - 1)
    BY <1>5, <2>1, <2>10, <2>11, <2>12
  <2>. QED
    BY <1>5, <1>8, <1>10, <2>2, <2>4, <2>6, <2>7, <2>8, <2>9, <2>12, <2>13
<1>. QED
  BY <1>11, <1>12

(* What the constructor has made of a request line so far.                    *)
RequestRight ==
  /\ source \in Titles
  /\ pc = "method" => pos = 0 /\ ~fail
  /\ RequestLine(source) =>
       /\ pc = "uri" => pos = 1
       /\ pc \in {"uri", "key", "value", "version", "done", "last modified"} => method = source[1]
       /\ pc \in {"key", "value", "version", "done", "last modified"} =>
            uri = Path(Target(source))

LEMMA RightStep ==
  ASSUME RequestRight, ConstructRequest
  PROVE  RequestRight'
<1>1. source \in Seq(Tokens)
  BY TitleAssumption DEF RequestRight
<1>2. source' = source
  BY DEF ConstructRequest, Constructor, ReadMethod, ReadURI, ReadKey, ReadValue, ReadVersion
<1>3. RequestLine(source)' <=> RequestLine(source)
  BY <1>2 DEF RequestLine, Blanks
<1>4. Path(Target(source))' = Path(Target(source))
  BY <1>2
<1>5. CASE RequestLine(source)
  <2>1. PICK m \in Methods, j \in Nat : Shaped(source, m, j)
    BY <1>1, <1>5, RequestLineShaped
  <2>2. source[1] = m
    BY <2>1 DEF Shaped
  <2>3. CASE ReadMethod
    <3>1. piece' = <<m>> /\ pos' = 1
      BY <1>1, <2>1, <2>3, FirstWord DEF ReadMethod, RequestRight
    <3>2. \A n : <<n>> = <<m>> => n = m
      OBVIOUS
    <3>3. (pc' = "uri" /\ method' = m) \/ pc' = "unknown method"
      BY <2>3, <3>1, <3>2 DEF ReadMethod
    <3>. QED
      BY <1>2, <2>2, <3>1, <3>3 DEF RequestRight
  <2>4. CASE ReadURI
    <3>1. pos = 1 /\ method = source[1]
      BY <1>5, <2>4 DEF RequestRight, ReadURI
    <3>2. part' = Path(Target(source))
      BY <1>1, <2>1, <2>4, <3>1, FirstPart DEF ReadURI
    <3>3. uri' = part' /\ method' = method /\ pc' \in {"key", "version"}
      BY <2>4 DEF ReadURI
    <3>. QED
      BY <1>2, <1>4, <3>1, <3>2, <3>3 DEF RequestRight
  <2>5. CASE ReadKey \/ ReadValue \/ ReadVersion
    <3>1. /\ uri' = uri /\ method' = method /\ pc' \in {"key", "value", "version", "done"}
          /\ pc \in {"key", "value", "version"}
      BY <2>5 DEF ReadKey, ReadValue, ReadVersion, AfterParam
    <3>. QED
      BY <1>2, <1>4, <1>5, <3>1 DEF RequestRight
  <2>. QED
    BY <2>3, <2>4, <2>5 DEF ConstructRequest, Constructor
<1>6. CASE ~RequestLine(source)
  <2>1. pc' # "method"
    BY DEF ConstructRequest, Constructor, ReadMethod, ReadURI, ReadKey, ReadValue, ReadVersion,
           AfterParam
  <2>. QED
    BY <1>2, <1>3, <1>6, <2>1 DEF RequestRight
<1>. QED
  BY <1>5, <1>6

LEMMA RightAlways == Spec => []RequestRight
<1>1. Init => RequestRight
  BY DEF Init, Construct, RequestRight
<1>2. RequestRight /\ [Next]_vars => RequestRight'
  <2>1. SUFFICES ASSUME RequestRight, [Next]_vars PROVE RequestRight'
    OBVIOUS
  <2>2. CASE ConstructRequest
    BY <2>1, <2>2, RightStep
  <2>3. CASE \/ UnknownMethod \/ OutOfMemory \/ Uncaught \/ RunScript \/ OpenFile
             \/ DescribeFile \/ AddCommonHeaders \/ Send \/ RemoveFile \/ UNCHANGED vars
    <3>1. /\ UNCHANGED requestLocals
          /\ \/ pc' \in {"common headers", "send", "sent", "aborted"}
             \/ pc' = pc
             \/ pc = "done" /\ pc' = "last modified"
      BY <2>3 DEF UnknownMethod, OutOfMemory, Uncaught, RunScript, OpenFile, DescribeFile,
                  AddCommonHeaders, Send, RemoveFile, Answer, vars, requestVars
    <3>2. /\ source' = source /\ pos' = pos /\ fail' = fail /\ method' = method /\ uri' = uri
      BY <3>1 DEF requestLocals
    <3>3. RequestLine(source)' <=> RequestLine(source)
      BY <3>2 DEF RequestLine, Blanks
    <3>4. Path(Target(source))' = Path(Target(source))
      BY <3>2
    <3>. QED
      BY <2>1, <3>1, <3>2, <3>3, <3>4 DEF RequestRight
  <2>. QED
    BY <2>1, <2>2, <2>3 DEF Next, Step
<1>. QED
  BY <1>1, <1>2, PTL DEF Spec

BytesOf(path) == IF Disk[path] = Directory THEN <<>> ELSE Disk[path]
TypeOf(path) ==
  IF IsSuffix(<<"html">>, path) THEN "text/html"
  ELSE IF \E w \in {"jpg", "jpeg"} : IsSuffix(<<w>>, path) THEN "image/jpeg" ELSE "text/plain"

(* What a response has of the file that t names.                              *)
Fits(r, t) ==
  /\ r.status = 200 /\ RequestLine(t) =>
       /\ r.body = IF t[1] = "HEAD" THEN <<>> ELSE BytesOf(Path(Target(t)))
       /\ "Content-Type" \in DOMAIN r.headers
       /\ r.headers["Content-Type"] = TypeOf(Path(Target(t)))
  /\ r.status = 404 /\ RequestLine(t) => Path(Target(t)) \notin DOMAIN Disk
  /\ r.status # 200 => r.body = <<>> /\ "Last-Modified" \notin DOMAIN r.headers

Described ==
  /\ pc = "last modified" =>
       /\ IsResponse(response) /\ response.status = 200
       /\ response.body = Body(Contents)
  /\ pc \in {"common headers", "send", "sent"} /\ ~response.raw =>
       IsResponse(response) /\ Fits(response, source)

LEMMA FitsAnswered ==
  ASSUME NEW r, IsResponse(r), Answer(r), Fits(r, source)
  PROVE  Described'
<1>1. source' = source /\ response' = r /\ pc' = "common headers"
  BY DEF Answer, requestLocals
<1>2. Described' <=> /\ pc' = "last modified" =>
                          /\ IsResponse(response') /\ response'.status = 200
                          /\ response'.body = Body(Contents)'
                     /\ pc' \in {"common headers", "send", "sent"} /\ ~response'.raw =>
                          IsResponse(response') /\ Fits(response', source')
  BY DEF Described
<1>. QED
  BY <1>1, <1>2

LEMMA ErrorDescribed ==
  ASSUME NEW status, status \notin {200, 404}, Answer(HttpResponse(status))
  PROVE  Described'
<1>1. DOMAIN <<>> = {}
  BY EmptySeq
<1>2. Fits(HttpResponse(status), source)
  BY <1>1, NewResponse DEF Fits
<1>. QED
  BY <1>2, NewResponse, FitsAnswered

LEMMA NotFoundDescribed ==
  ASSUME RequestRight, pc = "done", ~Exists, Answer(HttpResponse(404))
  PROVE  Described'
<1>1. DOMAIN <<>> = {}
  BY EmptySeq
<1>2. RequestLine(source) => Path(Target(source)) \notin DOMAIN Disk
  BY DEF RequestRight, Exists
<1>3. Fits(HttpResponse(404), source)
  BY <1>1, <1>2, NewResponse DEF Fits
<1>. QED
  BY <1>3, NewResponse, FitsAnswered

LEMMA ScriptDescribed ==
  ASSUME RequestRight, RunScript
  PROVE  Described'
<1>1. CASE ~Exists
  BY <1>1, NotFoundDescribed DEF RunScript
<1>2. CASE \E text \in Outputs : Answer(Raw(text))
  <2>1. PICK text \in Outputs : Answer(Raw(text))
    BY <1>2
  <2>2. response' = Raw(text) /\ pc' = "common headers" /\ Raw(text).raw
    BY <2>1, RawResponse DEF Answer
  <2>3. response'.raw
    BY <2>2
  <2>. QED
    BY <2>2, <2>3 DEF Described
<1>3. CASE \E status \in {400, 500, 503} : Answer(HttpResponse(status))
  BY <1>3, ErrorDescribed
<1>. QED
  BY <1>1, <1>2, <1>3 DEF RunScript

LEMMA OpenDescribed ==
  ASSUME RequestRight, OpenFile
  PROVE  Described'
<1>1. CASE ~Exists
  BY <1>1, NotFoundDescribed DEF OpenFile
<1>2. CASE Exists
  <2>1. /\ response' = [HttpResponse(200) EXCEPT !.body = Body(Contents)]
        /\ pc' = "last modified" /\ UNCHANGED requestLocals
    BY <1>2 DEF OpenFile
  <2>2. Body(Contents)' = Body(Contents)
    BY <2>1 DEF Body, Contents, requestLocals
  <2>3. IsResponse(response') /\ response'.status = 200 /\ response'.body = Body(Contents)
    BY <2>1 DEF IsResponse, HttpResponse
  <2>4. IsResponse(response)'
    BY <2>3 DEF IsResponse
  <2>. QED
    BY <2>1, <2>2, <2>3, <2>4 DEF Described
<1>. QED
  BY <1>1, <1>2

LEMMA DescribeDescribed ==
  ASSUME RequestRight, Described, DescribeFile
  PROVE  Described'
<1>1. CASE lost
  <2>1. Answer(Caught(400))
    BY <1>1 DEF DescribeFile
  <2>2. 400 \notin {200, 404}
    OBVIOUS
  <2>. QED
    BY <2>1, <2>2, ErrorDescribed DEF Caught
<1>2. CASE ~lost
  <2> DEFINE h == [name \in {"Content-Length", "Last-Modified", "Allow", "Content-Type"} |->
                     CASE name = "Content-Length" -> Len(response.body)
                       [] name = "Content-Type"   -> ContentType
                       [] name = "Last-Modified"  -> "date"
                       [] name = "Allow"          -> "GET,HEAD"]
             r == [response EXCEPT !.headers = h]
  <2>1. Answer(r)
    BY <1>2 DEF DescribeFile
  <2>2. "Content-Type" \in DOMAIN h /\ h["Content-Type"] = ContentType
    OBVIOUS
  <2> HIDE DEF h
  <2>3. IsResponse(response) /\ response.status = 200 /\ response.body = Body(Contents)
    BY DEF Described, DescribeFile
  <2>4. r = [raw |-> response.raw, status |-> 200, headers |-> h, body |-> Body(Contents)]
    BY <2>3 DEF IsResponse
  <2> HIDE DEF r
  <2>5. /\ IsResponse(r) /\ r.status = 200 /\ r.body = Body(Contents)
        /\ "Content-Type" \in DOMAIN r.headers /\ r.headers["Content-Type"] = ContentType
    BY <2>2, <2>4 DEF IsResponse
  <2>6. RequestLine(source) => method = source[1] /\ uri = Path(Target(source))
    BY DEF RequestRight, DescribeFile
  <2>7. Body(Contents) = IF method = "HEAD" THEN <<>> ELSE BytesOf(uri)
    BY DEF Body, Contents, BytesOf
  <2>8. ContentType = TypeOf(uri)
    BY DEF ContentType, TypeOf, EndsWith
  <2>9. Fits(r, source)
    BY <2>5, <2>6, <2>7, <2>8 DEF Fits
  <2>. QED
    BY <2>1, <2>5, <2>9, FitsAnswered
<1>. QED
  BY <1>1, <1>2

LEMMA CommonDescribed ==
  ASSUME Measured, Described, AddCommonHeaders
  PROVE  Described'
<1> DEFINE c == CommonHeaders(response)
<1>1. response' = c /\ pc' = "send" /\ source' = source
  BY DEF AddCommonHeaders, requestLocals
<1>2. IsResponse(response) /\ (~response.raw => Fits(response, source))
  BY DEF Measured, Described, AddCommonHeaders
<1>3. /\ c.raw = response.raw /\ c.status = response.status /\ c.body = response.body
      /\ c = [raw |-> c.raw, status |-> c.status, headers |-> c.headers, body |-> c.body]
      /\ DOMAIN c.headers = {"Date", "Content-Length", "Server", "Content-Type"}
                              \cup DOMAIN response.headers
      /\ "Content-Type" \in DOMAIN response.headers =>
           c.headers["Content-Type"] = response.headers["Content-Type"]
  BY <1>2, CommonHeadersRight DEF IsResponse
<1> HIDE DEF c
<1>4. IsResponse(c)
  BY <1>3 DEF IsResponse
<1>5. Fits(response, source) => Fits(c, source)
  BY <1>3 DEF Fits
<1>6. Described' <=> /\ pc' = "last modified" =>
                          /\ IsResponse(response') /\ response'.status = 200
                          /\ response'.body = Body(Contents)'
                     /\ pc' \in {"common headers", "send", "sent"} /\ ~response'.raw =>
                          IsResponse(response') /\ Fits(response', source')
  BY DEF Described
<1>. QED
  BY <1>1, <1>2, <1>3, <1>4, <1>5, <1>6

LEMMA OtherDescribed ==
  ASSUME Described, ConstructRequest \/ Send \/ RemoveFile \/ UNCHANGED vars
  PROVE  Described'
<1>1. CASE ConstructRequest
  <2>1. pc' \in {"uri", "key", "value", "version", "done", "unknown method"}
    BY <1>1 DEF ConstructRequest, Constructor, ReadMethod, ReadURI, ReadKey, ReadValue, ReadVersion,
           AfterParam
  <2>. QED
    BY <2>1 DEF Described
<1>2. CASE Send \/ RemoveFile \/ UNCHANGED vars
  <2>1. /\ response' = response /\ UNCHANGED requestLocals
        /\ pc' = pc \/ (pc = "send" /\ pc' = "sent")
    BY <1>2 DEF Send, RemoveFile, vars, requestVars, exchangeVars
  <2>2. source' = source /\ Body(Contents)' = Body(Contents)
    BY <2>1 DEF requestLocals, Body, Contents
  <2>3. IsResponse(response)' <=> IsResponse(response)
    BY <2>1 DEF IsResponse
  <2>4. Fits(response, source)' <=> Fits(response, source)
    BY <2>1, <2>2 DEF Fits, RequestLine, Blanks, BytesOf, TypeOf
  <2>. QED
    BY <2>1, <2>2, <2>3, <2>4 DEF Described
<1>. QED
  BY <1>1, <1>2

LEMMA DescribedAlways == Spec => []Described
<1>1. Init => Described
  BY DEF Init, Construct, Described
<1>2. Described /\ RequestRight /\ Measured /\ [Next]_vars => Described'
  <2>1. SUFFICES ASSUME Described, RequestRight, Measured, [Next]_vars PROVE Described'
    OBVIOUS
  <2>2. CASE UnknownMethod \/ OutOfMemory
    <3>1. PICK status \in {501, 503} : Answer(HttpResponse(status))
      BY <2>2 DEF UnknownMethod, OutOfMemory, Caught
    <3>. QED
      BY <3>1, ErrorDescribed
  <2>3. CASE RunScript
    BY <2>1, <2>3, ScriptDescribed
  <2>4. CASE OpenFile
    BY <2>1, <2>4, OpenDescribed
  <2>5. CASE DescribeFile
    BY <2>1, <2>5, DescribeDescribed
  <2>6. CASE AddCommonHeaders
    BY <2>1, <2>6, CommonDescribed
  <2>7. CASE ConstructRequest \/ Send \/ RemoveFile \/ UNCHANGED vars
    BY <2>1, <2>7, OtherDescribed
  <2>8. CASE Uncaught
    BY <2>8 DEF Uncaught, Described
  <2>. QED
    BY <2>1, <2>2, <2>3, <2>4, <2>5, <2>6, <2>7, <2>8 DEF Next, Step
<1>. QED
  BY <1>1, <1>2, RightAlways, MeasuredAlways, PTL DEF Spec

(* Every answer fits its request line, for every table of methods and disk:     *)
(* by what the constructor has taken from the line, the handlers, which begin  *)
(* with a response of their own, and the headers, which keep the type.         *)
THEOREM AnswersFit == Spec => []AnswerFits
<1>1. Described /\ Measured => AnswerFits
  <2>1. SUFFICES ASSUME Described, Measured, pc = "sent", ~response.raw
                 PROVE  /\ Status(sent) = 200 /\ RequestLine(source) =>
                             /\ Entity(sent) = IF source[1] = "HEAD" THEN <<>>
                                               ELSE BytesOf(Path(Target(source)))
                             /\ Values(sent, "Content-Type") = {TypeOf(Path(Target(source)))}
                        /\ Status(sent) = 404 /\ RequestLine(source) =>
                             Path(Target(source)) \notin DOMAIN Disk
                        /\ Status(sent) # 200 =>
                             Entity(sent) = <<>> /\ Values(sent, "Last-Modified") = {}
    BY DEF AnswerFits, BytesOf, TypeOf
  <2>2. Read(sent, response)
    BY <2>1, AnswerRead DEF Measured
  <2>3. Status(sent) = response.status /\ Entity(sent) = response.body
    BY <2>2 DEF Read
  <2>4. "Content-Type" \in HeaderNames /\ "Last-Modified" \in HeaderNames
    BY DEF HeaderNames
  <2>5. /\ Values(sent, "Content-Type") = IF "Content-Type" \in DOMAIN response.headers
                                          THEN {response.headers["Content-Type"]} ELSE {}
        /\ Values(sent, "Last-Modified") = IF "Last-Modified" \in DOMAIN response.headers
                                           THEN {response.headers["Last-Modified"]} ELSE {}
    BY <2>2, <2>4, ValuesRead
  <2>6. Fits(response, source)
    BY <2>1 DEF Described
  <2>. QED
    BY <2>3, <2>5, <2>6 DEF Fits
<1>. QED
  BY <1>1, DescribedAlways, MeasuredAlways, PTL

-----------------------------------------------------------------------------
(* Parameters.  The pairs P of q have been given to f, in the order in which   *)
(* they stand: f has the key of each, and the value of the last that has it.   *)
PairOf(q, ij) == SubSeq(q, ij[1], ij[2])
Given(f, q, P) ==
  /\ f = [k \in DOMAIN f |-> f[k]]
  /\ DOMAIN f = {KeyOf(PairOf(q, ij)) : ij \in P}
  /\ \A ij \in P :
       (\A other \in P : KeyOf(PairOf(q, other)) = KeyOf(PairOf(q, ij)) => other[1] <= ij[1])
         => f[KeyOf(PairOf(q, ij))] = ValueOf(PairOf(q, ij))

Put(f, k, v) == [x \in DOMAIN f \cup {k} |-> IF x = k THEN v ELSE f[x]]

(* setParam() with one that stands behind the others.                         *)
LEMMA NextGiven ==
  ASSUME NEW f, NEW q, NEW P, Given(f, q, P), NEW ij,
         ij[1] \in Nat, \A other \in P : other[1] \in Nat /\ other[1] < ij[1],
         NEW key1, key1 = KeyOf(PairOf(q, ij)), NEW value1, value1 = ValueOf(PairOf(q, ij))
  PROVE  Given(Put(f, key1, value1), q, P \cup {ij})
<1> DEFINE g == Put(f, key1, value1)
           Key(o) == KeyOf(PairOf(q, o))
           Value(o) == ValueOf(PairOf(q, o))
           Latest(o, Q) == \A other \in Q : Key(other) = Key(o) => other[1] <= o[1]
<1>1. /\ DOMAIN f = {Key(o) : o \in P}
      /\ \A o \in P : Latest(o, P) => f[Key(o)] = Value(o)
      /\ key1 = Key(ij) /\ value1 = Value(ij)
  BY DEF Given
<1>2. /\ g = [k \in DOMAIN g |-> g[k]] /\ DOMAIN g = DOMAIN f \cup {key1}
      /\ g[key1] = value1 /\ \A k \in DOMAIN f : k # key1 => g[k] = f[k]
  BY DEF Put
<1> HIDE DEF Key, Value, g
<1>3. DOMAIN g = {Key(o) : o \in P \cup {ij}}
  BY <1>1, <1>2
<1>4. ASSUME NEW o \in P \cup {ij}, Latest(o, P \cup {ij}) PROVE g[Key(o)] = Value(o)
  <2>1. CASE o = ij
    BY <1>1, <1>2, <2>1
  <2>2. CASE o \in P
    <3>1. Key(o) # key1
      BY <1>1, <1>4, <2>2
    <3>2. Key(o) \in DOMAIN f /\ Latest(o, P)
      BY <1>1, <1>4, <2>2
    <3>. QED
      BY <1>1, <1>2, <2>2, <3>1, <3>2
  <2>. QED
    BY <2>1, <2>2
<1>5. Given(g, q, P \cup {ij})
  BY <1>2, <1>3, <1>4 DEF Given, Key, Value
<1>. QED
  BY <1>5 DEF g

(* The pairs of q that are not empty and end before its r-th element.         *)
Before(q, r) == {ij \in Between(q) : PairOf(q, ij) # <<>> /\ ij[2] < r}

LEMMA BeforeType ==
  ASSUME NEW q \in Seq(Tokens), NEW r \in Nat, NEW ij \in Before(q, r)
  PROVE  /\ ij = <<ij[1], ij[2]>> /\ ij[1] \in 1 .. Len(q) + 1 /\ ij[2] \in 0 .. Len(q)
         /\ ij[1] <= ij[2] /\ ij[2] < r
<1>1. Len(q) \in Nat
  BY LenProperties
<1>2. /\ ij \in (1 .. Len(q) + 1) \X (0 .. Len(q)) /\ PairOf(q, ij) # <<>> /\ ij[2] < r
  BY DEF Before, Between
<1>3. ij = <<ij[1], ij[2]>> /\ ij[1] \in 1 .. Len(q) + 1 /\ ij[2] \in 0 .. Len(q)
  BY <1>2
<1>4. ij[1] <= ij[2]
  <2>1. SUFFICES ASSUME ij[1] > ij[2] PROVE SubSeq(q, ij[1], ij[2]) = <<>>
    BY <1>1, <1>2, <1>3 DEF PairOf
  <2>. QED
    BY <1>1, <1>3, <2>1, SubSeqEmpty
<1>. QED
  BY <1>2, <1>3, <1>4

(* All of them.                                                              *)
LEMMA AllGiven ==
  ASSUME NEW q \in Seq(Tokens), NEW f, Given(f, q, Before(q, Len(q) + 1))
  PROVE  f = Parameters(q)
<1> DEFINE n == Len(q)
           P == {ij \in Between(q) : PairOf(q, ij) # <<>>}
           Key(o) == KeyOf(PairOf(q, o))
           Value(o) == ValueOf(PairOf(q, o))
           IsLatest(o, k) == Key(o) = k /\ \A other \in P : Key(other) = k => other[1] <= o[1]
           Latest(k) == CHOOSE o \in P : IsLatest(o, k)
<1>1. n \in Nat
  BY LenProperties
<1>2. P = Before(q, n + 1)
  <2>1. \A ij \in Between(q) : ij[2] < n + 1
    BY <1>1 DEF Between
  <2>. QED
    BY <2>1 DEF Before
<1>3. Parameters(q) = [k \in {Key(o) : o \in P} |-> Value(Latest(k))]
  BY DEF Parameters, PairOf
<1>4. \A o \in P : o[1] \in 0 .. n + 1
  BY <1>1, <1>2, BeforeType
<1>5. ASSUME NEW k \in {Key(o) : o \in P} PROVE f[k] = Value(Latest(k))
  <2> DEFINE S == {o[1] : o \in {o \in P : Key(o) = k}}
  <2>1. S \in SUBSET (0 .. n + 1) /\ S # {}
    <3>1. PICK o \in P : Key(o) = k
      OBVIOUS
    <3> HIDE DEF P, Key
    <3>. QED
      BY <1>4, <3>1
  <2>2. Max(S) \in S /\ \A x \in S : x <= Max(S)
    <3> HIDE DEF S
    <3>1. n + 1 \in Nat
      BY <1>1
    <3>. QED
      BY <2>1, <3>1, GreatestNumber
  <2>3. PICK o \in P : Key(o) = k /\ o[1] = Max(S)
    <3>1. \A x \in S : \E o \in P : Key(o) = k /\ x = o[1]
      OBVIOUS
    <3> HIDE DEF S, P, Key
    <3>. QED
      BY <2>2, <3>1
  <2>4. \A other \in P : Key(other) = k => other[1] <= o[1]
    <3>1. \A other \in P : Key(other) = k => other[1] \in S
      OBVIOUS
    <3> HIDE DEF S, P, Key
    <3>. QED
      BY <2>2, <2>3, <3>1
  <2> HIDE DEF S, P, Key
  <2>5. Latest(k) \in P /\ IsLatest(Latest(k), k)
    <3>1. \E l \in P : IsLatest(l, k)
      BY <2>3, <2>4
    <3>. QED
      BY <3>1
  <2> HIDE DEF Latest
  <2>6. \A l \in P : IsLatest(l, k) => f[Key(l)] = Value(l)
    <3>1. \A l \in P : (\A other \in P : Key(other) = Key(l) => other[1] <= l[1])
                        => f[Key(l)] = Value(l)
      BY <1>2 DEF Given, Key
    <3> HIDE DEF Value
    <3>. QED
      BY <3>1
  <2>. QED
    BY <2>5, <2>6
<1>6. f = [k \in DOMAIN f |-> f[k]] /\ DOMAIN f = {Key(o) : o \in P}
  BY <1>2 DEF Given
<1> HIDE DEF P, Key, Value, Latest
<1>. QED
  BY <1>3, <1>5, <1>6

(* Between two that follow one another.                                       *)
LEMMA BetweenIs ==
  ASSUME NEW q \in Seq(Tokens), NEW a \in 1 .. Len(q) + 1, NEW b \in 0 .. Len(q), a <= b + 1
  PROVE  <<a, b>> \in Between(q) <=>
           /\ \A i \in a .. b : q[i] # "&"
           /\ a = 1 \/ q[a - 1] = "&"
           /\ b = Len(q) \/ q[b + 1] = "&"
<1>1. Len(q) \in Nat
  BY LenProperties
<1>2. "&" \in ToSet(SubSeq(q, a, b)) <=> \E i \in a .. b : q[i] = "&"
  <2>1. a - 1 \in Nat /\ a - 1 <= b /\ b <= Len(q) /\ a - 1 + 1 = a /\ b \in Nat
    BY <1>1
  <2>2. SubSeq(q, a, b) = Part(q, a - 1, b)
    BY <2>1 DEF Part
  <2> DEFINE p == Part(q, a - 1, b)
  <2>3. /\ p \in Seq(Tokens) /\ Len(p) = b - (a - 1)
        /\ \A i \in 1 .. b - (a - 1) : p[i] = q[a - 1 + i]
    BY <2>1, PartOfTokens
  <2> HIDE DEF p
  <2>4. ToSet(p) = {p[i] : i \in 1 .. b - (a - 1)}
    BY <2>3, LenProperties DEF ToSet
  <2>5. ASSUME NEW i \in 1 .. b - (a - 1), p[i] = "&" PROVE \E k \in a .. b : q[k] = "&"
    <3>1. a - 1 + i \in a .. b /\ q[a - 1 + i] = "&"
      BY <2>1, <2>3, <2>5
    <3>. QED
      BY <3>1
  <2>6. ASSUME NEW k \in a .. b, q[k] = "&" PROVE \E i \in 1 .. b - (a - 1) : p[i] = "&"
    <3>1. k - (a - 1) \in 1 .. b - (a - 1) /\ a - 1 + (k - (a - 1)) = k
      BY <2>1
    <3>. QED
      BY <2>3, <2>6, <3>1
  <2>. QED
    BY <2>2, <2>4, <2>5, <2>6 DEF p
<1>3. <<a, b>>[1] = a /\ <<a, b>>[2] = b /\ <<a, b>> \in (1 .. Len(q) + 1) \X (0 .. Len(q))
  OBVIOUS
<1>4. <<a, b>> \in Between(q) <=>
        /\ "&" \notin ToSet(SubSeq(q, a, b))
        /\ a = 1 \/ q[a - 1] = "&"
        /\ b = Len(q) \/ q[b + 1] = "&"
  <2>. HIDE DEF ToSet
  <2>. QED
    BY <1>3 DEF Between
<1>. QED
  BY <1>2, <1>4

(* Elements r + 1 to y - 1 of q are a parameter.                              *)
Stands(q, r, y) ==
  /\ r \in 0 .. Len(q) /\ y \in r + 1 .. Len(q) + 1
  /\ r = 0 \/ q[r] = "&"
  /\ y = Len(q) + 1 \/ q[y] = "&"
  /\ \A i \in r + 1 .. y - 1 : q[i] # "&"

LEMMA BeforeNext ==
  ASSUME NEW q \in Seq(Tokens), NEW r, NEW y, Stands(q, r, y)
  PROVE  /\ y = r + 1 => Before(q, y) = Before(q, r)
         /\ y # r + 1 => Before(q, y) = Before(q, r) \cup {<<r + 1, y - 1>>}
<1> DEFINE n == Len(q)
<1>1. n \in Nat /\ r \in Nat /\ y \in Nat /\ r <= n /\ r + 1 <= y /\ y <= n + 1
  BY LenProperties DEF Stands
<1>2. ASSUME NEW ij \in Before(q, r) PROVE ij \in Before(q, y)
  <2>1. ij[2] \in 0 .. n /\ ij[2] < r
    BY <1>1, BeforeType
  <2>. QED
    BY <1>1, <2>1 DEF Before
<1>3. ASSUME NEW ij \in Before(q, y), ij \notin Before(q, r)
      PROVE  ij = <<r + 1, y - 1>> /\ y # r + 1
  <2> DEFINE a == ij[1]
             b == ij[2]
  <2>1. ij = <<a, b>> /\ a \in 1 .. n + 1 /\ b \in 0 .. n /\ a <= b /\ b < y
    BY <1>1, BeforeType
  <2>2. b >= r
    BY <1>1, <1>3, <2>1 DEF Before
  <2>3. /\ \A i \in a .. b : q[i] # "&"
        /\ a = 1 \/ q[a - 1] = "&"
        /\ b = n \/ q[b + 1] = "&"
    <3>1. <<a, b>> \in Between(q) /\ a <= b + 1
      BY <2>1 DEF Before
    <3> HIDE DEF a, b
    <3>. QED
      BY <2>1, <3>1, BetweenIs
  <2> HIDE DEF a, b
  <2>4. a >= r + 1
    <3>1. SUFFICES ASSUME a <= r PROVE FALSE
      BY <1>1, <2>1
    <3>2. r \in a .. b /\ r # 0
      BY <1>1, <2>1, <2>2, <3>1
    <3>. QED
      BY <2>3, <3>2 DEF Stands
  <2>5. a = r + 1
    <3>1. SUFFICES ASSUME a > r + 1 PROVE FALSE
      BY <1>1, <2>1, <2>4
    <3>2. a - 1 \in r + 1 .. y - 1 /\ a # 1
      BY <1>1, <2>1, <3>1
    <3>. QED
      BY <2>3, <3>2 DEF Stands
  <2>6. b = y - 1
    <3>1. SUFFICES ASSUME b < y - 1 PROVE FALSE
      BY <1>1, <2>1
    <3>2. b + 1 \in r + 1 .. y - 1 /\ b # n
      BY <1>1, <2>1, <2>2, <3>1
    <3>. QED
      BY <2>3, <3>2 DEF Stands
  <2>. QED
    BY <1>1, <2>1, <2>5, <2>6
<1>4. ASSUME y # r + 1 PROVE <<r + 1, y - 1>> \in Before(q, y)
  <2>1. PICK a \in 1 .. n + 1, b \in 0 .. n : a = r + 1 /\ b = y - 1
    BY <1>1, <1>4
  <2>2. a <= b /\ a <= b + 1 /\ a - 1 = r /\ b + 1 = y /\ b < y
    BY <1>1, <1>4, <2>1
  <2>3. <<a, b>> \in Between(q)
    <3>1. /\ \A i \in a .. b : q[i] # "&"
          /\ a = 1 \/ q[a - 1] = "&"
          /\ b = n \/ q[b + 1] = "&"
      BY <1>1, <2>1, <2>2 DEF Stands
    <3>. QED
      BY <2>2, <3>1, BetweenIs
  <2>4. PairOf(q, <<a, b>>) # <<>>
    <3>1. PairOf(q, <<a, b>>) = Part(q, r, b)
      BY <2>1 DEF PairOf, Part
    <3>2. Len(Part(q, r, b)) = b - r
      <4>1. b \in Nat /\ b <= Len(q) /\ r <= b
        BY <1>1, <2>1, <2>2
      <4>. QED
        BY <1>1, <4>1, PartOfTokens
    <3>3. b - r # 0 /\ Len(<<>>) = 0
      BY <1>1, <2>1, <2>2
    <3>. QED
      BY <3>1, <3>2, <3>3
  <2>5. <<a, b>>[2] < y
    BY <2>2
  <2>. QED
    BY <2>1, <2>3, <2>4, <2>5 DEF Before
<1>. QED
  BY <1>2, <1>3, <1>4

(* The key and the value of one whose first "=" is its x-th element.           *)
LEMMA KeyAndValue ==
  ASSUME NEW q \in Seq(Tokens), NEW r \in Nat, NEW y \in Nat, NEW x \in Nat,
         r < x, x < y, y <= Len(q) + 1, q[x] = "=", \A i \in r + 1 .. x - 1 : q[i] # "="
  PROVE  /\ KeyOf(Part(q, r, y - 1)) = Part(q, r, x - 1)
         /\ ValueOf(Part(q, r, y - 1)) = Part(q, x, y - 1)
<1> DEFINE p == Part(q, r, y - 1)
           b == y - 1
<1>1. b \in Nat /\ r <= b /\ b <= Len(q)
  BY LenProperties
<1>2. p \in Seq(Tokens) /\ Len(p) = b - r /\ \A i \in 1 .. b - r : p[i] = q[r + i]
  <2> HIDE DEF b
  <2>. QED
    BY <1>1, PartOfTokens DEF b
<1> HIDE DEF p
<1>3. DOMAIN p = 1 .. b - r
  BY <1>2, LenProperties
<1>4. x - r \in Equals(p)
  <2>1. x - r \in 1 .. b - r /\ r + (x - r) = x
    OBVIOUS
  <2>. QED
    BY <1>2, <1>3, <2>1 DEF Equals
<1>5. ASSUME NEW i \in Equals(p) PROVE i \in Nat /\ x - r <= i
  <2>1. i \in 1 .. b - r /\ q[r + i] = "="
    BY <1>2, <1>3 DEF Equals
  <2>2. r + i \notin r + 1 .. x - 1
    BY <2>1
  <2>. QED
    BY <2>1, <2>2
<1>6. Min(Equals(p)) = x - r
  BY <1>4, <1>5 DEF Min
<1>7. KeyOf(p) = Part(p, 0, x - r - 1) /\ ValueOf(p) = Part(p, x - r, b - r)
  BY <1>2, <1>4, <1>6 DEF KeyOf, ValueOf, Part
<1>8. \A i, k \in Nat : i <= k /\ k <= b - r => Part(p, i, k) = Part(q, r + i, r + k)
  <2>1. ASSUME NEW c \in Nat, r <= c, c <= Len(q), NEW i \in Nat, NEW k \in Nat, i <= k, k <= c - r
        PROVE  Part(Part(q, r, c), i, k) = Part(q, r + i, r + k)
    BY <2>1, PartOfPart
  <2> HIDE DEF b
  <2>. QED
    BY <1>1, <2>1 DEF p, b
<1>9. /\ Part(p, 0, x - r - 1) = Part(q, r + 0, r + (x - r - 1))
      /\ Part(p, x - r, b - r) = Part(q, r + (x - r), r + (b - r))
  <2>1. /\ 0 \in Nat /\ x - r - 1 \in Nat /\ 0 <= x - r - 1 /\ x - r - 1 <= b - r
        /\ x - r \in Nat /\ b - r \in Nat /\ x - r <= b - r
    OBVIOUS
  <2>. QED
    BY <1>8, <2>1
<1>10. r + 0 = r /\ r + (x - r - 1) = x - 1 /\ r + (x - r) = x /\ r + (b - r) = y - 1
  OBVIOUS
<1>. QED
  BY <1>7, <1>9, <1>10 DEF p

LEMMA OnlyKey ==
  ASSUME NEW q \in Seq(Tokens), NEW r \in Nat, NEW b \in Nat, r <= b, b <= Len(q),
         \A i \in r + 1 .. b : q[i] # "="
  PROVE  KeyOf(Part(q, r, b)) = Part(q, r, b) /\ ValueOf(Part(q, r, b)) = <<>>
<1> DEFINE p == Part(q, r, b)
<1>1. p \in Seq(Tokens) /\ Len(p) = b - r /\ \A i \in 1 .. b - r : p[i] = q[r + i]
  BY PartOfTokens
<1> HIDE DEF p
<1>2. Equals(p) = {}
  <2>1. SUFFICES ASSUME NEW i \in 1 .. b - r, p[i] = "=" PROVE FALSE
    BY <1>1, LenProperties DEF Equals
  <2>2. r + i \in r + 1 .. b /\ q[r + i] = "="
    BY <1>1, <2>1
  <2>. QED
    BY <2>2
<1>. QED
  BY <1>2 DEF KeyOf, ValueOf, p

-----------------------------------------------------------------------------
(* The query q stands behind the a-th token of t, up to the blank at j.        *)
Ahead(t, j, q, a) == a \in 2 .. j - 1 /\ q = Part(t, a, j - 1) /\ q \in Seq(Tokens)

LEMMA AheadIs ==
  ASSUME NEW t \in Seq(Tokens), NEW m, NEW j \in Nat, Shaped(t, m, j), NEW q, NEW a, Ahead(t, j, q, a)
  PROVE  /\ Len(q) = j - 1 - a /\ j < Len(t) /\ t[j] = Blank
         /\ \A i \in 1 .. Len(q) : q[i] = t[a + i] /\ q[i] # Blank
<1>1. /\ j \in 4 .. Len(t) - 1 /\ Blanks(t) = {2, j}
      /\ a \in Nat /\ 2 <= a /\ a <= j - 1 /\ j - 1 \in Nat /\ j - 1 <= Len(t)
  BY LenProperties DEF Shaped, Ahead
<1>2. q = Part(t, a, j - 1)
  BY DEF Ahead
<1>3. ASSUME NEW b \in Nat, a <= b, b <= Len(t)
      PROVE  Len(Part(t, a, b)) = b - a /\ \A i \in 1 .. b - a : Part(t, a, b)[i] = t[a + i]
  BY <1>1, <1>3, PartOfTokens
<1>4. Len(q) = j - 1 - a /\ \A i \in 1 .. j - 1 - a : q[i] = t[a + i]
  BY <1>1, <1>2, <1>3
<1>5. ASSUME NEW i \in 1 .. j - 1 - a PROVE t[a + i] # Blank
  <2>1. a + i \in 1 .. Len(t) /\ a + i \notin {2, j}
    BY <1>1
  <2>. QED
    BY <1>1, <2>1, LenProperties DEF Blanks
<1>6. t[j] = Blank
  BY <1>1 DEF Blanks
<1>7. ASSUME NEW i \in 1 .. Len(q) PROVE q[i] = t[a + i] /\ q[i] # Blank
  BY <1>4, <1>5
<1>8. j < Len(t)
  BY <1>1
<1>. QED
  BY <1>4, <1>6, <1>7, <1>8

(* In the query scroll() skips nothing; it gets what is in front of the next   *)
(* delimiter, or of the end of the target.                                    *)
LEMMA ScrollOn ==
  ASSUME source \in Seq(Tokens), NEW m, NEW j \in Nat, Shaped(source, m, j),
         NEW q, NEW a, Ahead(source, j, q, a), NEW r \in Nat, r < Len(q), pos = a + r,
         NEW delims, Blank \in delims, Scroll(delims)
  PROVE  \E x \in r + 1 .. Len(q) + 1 :
           /\ part' = Part(q, r, x - 1) /\ pos' = a + x /\ ~fail'
           /\ \A i \in r + 1 .. x - 1 : q[i] \notin delims
           /\ IF x = Len(q) + 1 THEN delim' = Blank
                                ELSE delim' = q[x] /\ q[x] \in delims \ {Blank}
<1> DEFINE s == source
           n == Len(q)
           start == a + r + 1
           stops == {i \in start .. Len(s) : s[i] \in delims}
           stop == Min(stops)
<1>1. /\ n = j - 1 - a /\ j < Len(s) /\ s[j] = Blank
      /\ \A i \in 1 .. n : q[i] = s[a + i] /\ q[i] # Blank
  BY AheadIs
<1>2. Len(s) \in Nat /\ n \in Nat /\ a \in 2 .. j - 1 /\ q = Part(s, a, j - 1)
  BY LenProperties DEF Ahead
<1>3. start \in Nat /\ start \in 3 .. j - 1
  BY <1>1, <1>2
<1>4. Skipped = start
  <2>1. s[start] # Blank
    <3>1. r + 1 \in 1 .. n /\ a + (r + 1) = start
      BY <1>1, <1>2
    <3>. QED
      BY <1>1, <3>1
  <2>2. start \in WordStart /\ \A i \in WordStart : i \in Nat /\ start <= i
    BY <1>1, <1>2, <1>3, <2>1 DEF WordStart, Rest, NonBlank
  <2> HIDE DEF start
  <2>3. start \in WordStart /\ \A i \in WordStart : start <= i
    BY <2>2
  <2>4. \A i \in WordStart : i \in Nat
    BY <2>2
  <2> HIDE DEF WordStart
  <2>5. /\ Min(WordStart) \in WordStart /\ Min(WordStart) <= start
        /\ start <= Min(WordStart) /\ Min(WordStart) \in Nat
    <3>1. Min(WordStart) \in WordStart /\ \A y \in WordStart : Min(WordStart) <= y
      BY <2>3 DEF Min
    <3>. QED
      BY <2>3, <2>4, <3>1
  <2>6. Min(WordStart) = start
    BY <1>3, <2>5
  <2>. QED
    BY <2>3, <2>6 DEF Skipped
<1>5. j \in stops
  BY <1>1, <1>2, <1>3
<1>6. part' = SubSeq(s, start, stop - 1) \o <<>> /\ delim' = s[stop] /\ pos' = stop /\ ~fail'
  <2> HIDE DEF start
  <2>. QED
    BY <1>4, <1>5 DEF Scroll
<1>7. stop \in stops /\ \A y \in stops : stop <= y
  <2>1. stops \in SUBSET Nat /\ stops # {}
    BY <1>3, <1>5
  <2> HIDE DEF stops
  <2>. QED
    BY <2>1, LeastNumber DEF Min
<1> HIDE DEF stop
<1>8. stop \in start .. j /\ s[stop] \in delims /\ \A i \in start .. stop - 1 : s[i] \notin delims
  <2>1. stop \in start .. Len(s) /\ stop <= j /\ s[stop] \in delims
    BY <1>5, <1>7
  <2>2. ASSUME NEW i \in start .. stop - 1 PROVE s[i] \notin delims
    BY <1>3, <1>7, <2>1
  <2>. QED
    BY <1>3, <2>1, <2>2
<1> HIDE DEF stops
<1> DEFINE x == stop - a
<1>9. x \in r + 1 .. n + 1 /\ a + x = stop /\ a + r \in Nat /\ stop - 1 \in Nat /\ a + r <= stop - 1
      /\ stop - 1 <= Len(s) /\ (x = n + 1 <=> stop = j)
  BY <1>1, <1>2, <1>3, <1>8
<1>10. part' = Part(s, a + r, stop - 1)
  <2>1. \A b, c \in Nat : b <= c /\ c <= Len(s) => Part(s, b, c) \in Seq(Tokens)
    BY PartOfTokens
  <2>2. Part(s, a + r, stop - 1) \in Seq(Tokens)
    BY <1>9, <2>1
  <2>3. SubSeq(s, start, stop - 1) = Part(s, a + r, stop - 1)
    BY DEF Part
  <2>. QED
    BY <1>6, <2>2, <2>3, ConcatEmptySeq
<1>11. Part(q, r, x - 1) = Part(s, a + r, stop - 1)
  <2>2. /\ a \in Nat /\ j - 1 \in Nat /\ a <= j - 1 /\ j - 1 <= Len(s)
        /\ x - 1 \in Nat /\ r <= x - 1 /\ x - 1 <= j - 1 - a /\ a + (x - 1) = stop - 1
    BY <1>1, <1>2, <1>9
  <2>3. Part(Part(s, a, j - 1), r, x - 1) = Part(s, a + r, a + (x - 1))
    <3>1. \A b, c, i, k \in Nat : b <= c /\ c <= Len(s) /\ i <= k /\ k <= c - b
            => Part(Part(s, b, c), i, k) = Part(s, b + i, b + k)
      BY PartOfPart
    <3> HIDE DEF x
    <3>. QED
      BY <2>2, <3>1
  <2>. QED
    BY <1>2, <2>2, <2>3
<1>12. ASSUME NEW i \in r + 1 .. x - 1 PROVE q[i] \notin delims
  <2>1. i \in 1 .. n /\ a + i \in start .. stop - 1
    BY <1>1, <1>2, <1>9
  <2>. QED
    BY <1>1, <1>8, <2>1
<1>13. IF x = n + 1 THEN delim' = Blank ELSE delim' = q[x] /\ q[x] \in delims \ {Blank}
  <2>1. CASE x = n + 1
    BY <1>1, <1>6, <1>9, <2>1
  <2>2. CASE x # n + 1
    <3>1. x \in 1 .. n
      <4> HIDE DEF x
      <4>. QED
        BY <1>2, <1>9, <2>2
    <3>2. q[x] = s[stop] /\ q[x] # Blank
      BY <1>1, <1>9, <3>1
    <3>. QED
      BY <1>6, <1>8, <2>2, <3>2
  <2>. QED
    BY <2>1, <2>2
<1> HIDE DEF x
<1>. QED
  BY <1>6, <1>9, <1>10, <1>11, <1>12, <1>13

-----------------------------------------------------------------------------
(* Where the constructor is in the query q behind the a-th token: with the     *)
(* stream at p, all parameters in front of it are in f.                        *)
Starts(q, r) == r \in Nat /\ r < Len(q) /\ (r = 0 \/ q[r] = "&")
Plain(q, r, x) == \A i \in r + 1 .. x - 1 : q[i] \notin {"=", "&"}

KeyBegins(q, a, p, f) ==
  \E r \in Nat : Starts(q, r) /\ p = a + r /\ Given(f, q, Before(q, r))
ValueBegins(q, a, p, k, f) ==
  \E r, x \in Nat :
    /\ Starts(q, r) /\ r < x /\ x < Len(q) /\ q[x] = "=" /\ Plain(q, r, x)
    /\ p = a + x /\ k = Part(q, r, x - 1) /\ Given(f, q, Before(q, r))
AllTaken(q, f) == Given(f, q, Before(q, Len(q) + 1))

(* The last key and the last value of q are not empty.                        *)
Full(q) ==
  /\ Len(q) > 0 /\ q[Len(q)] # "&"
  /\ \A r \in Nat : Starts(q, r) /\ q[Len(q)] = "=" => ~Plain(q, r, Len(q))

Place(q, a, j) ==
  /\ pc = "key" => KeyBegins(q, a, pos, params)
  /\ pc = "value" => ValueBegins(q, a, pos, key, params)
  /\ pc = "version" => pos = j /\ ~fail /\ AllTaken(q, params)
  /\ pc \in {"key", "value", "version"}

LEMMA PutGiven ==
  ASSUME NEW q \in Seq(Tokens), NEW r \in Nat, NEW y \in Nat, Stands(q, r, y), y # r + 1,
         NEW f, Given(f, q, Before(q, r)),
         NEW k, k = KeyOf(Part(q, r, y - 1)), NEW v, v = ValueOf(Part(q, r, y - 1))
  PROVE  Given(Put(f, k, v), q, Before(q, y))
<1> DEFINE ij == <<r + 1, y - 1>>
<1>1. PairOf(q, ij) = Part(q, r, y - 1) /\ ij[1] = r + 1
  BY DEF PairOf, Part
<1>2. ASSUME NEW other \in Before(q, r) PROVE other[1] \in Nat /\ other[1] < ij[1]
  <2>1. other[1] \in 1 .. Len(q) + 1 /\ other[2] \in 0 .. Len(q) /\ other[1] <= other[2] /\ other[2] < r
    BY BeforeType
  <2>2. Len(q) \in Nat
    BY LenProperties
  <2>. QED
    BY <1>1, <2>1, <2>2
<1>3. Before(q, y) = Before(q, r) \cup {ij}
  BY BeforeNext
<1> HIDE DEF ij
<1>4. k = KeyOf(PairOf(q, ij)) /\ v = ValueOf(PairOf(q, ij)) /\ ij[1] \in Nat
  BY <1>1
<1>5. Given(Put(f, k, v), q, Before(q, r) \cup {ij})
  BY <1>2, <1>4, NextGiven
<1>. QED
  BY <1>3, <1>5

(* Behind a parameter comes the next one, or the version.                     *)
LEMMA Onwards ==
  ASSUME NEW q \in Seq(Tokens), Full(q), NEW a \in Nat, NEW j, j = a + Len(q) + 1,
         NEW r \in Nat, NEW y \in Nat, Stands(q, r, y),
         Given(params', q, Before(q, y)), pos' = a + y, ~fail',
         y = Len(q) + 1 => delim' = Blank, y # Len(q) + 1 => delim' = q[y],
         pc' = AfterParam(delim')
  PROVE  Place(q, a, j)'
<1>1. Len(q) \in Nat /\ y \in r + 1 .. Len(q) + 1
  BY LenProperties DEF Stands
<1>2. CASE y = Len(q) + 1
  <2>0. pos' = a + (Len(q) + 1)
    BY <1>2
  <2>1. pc' = "version" /\ pos' = j
    <3>1. delim' = Blank
      BY <1>2
    <3>2. pc' = "version"
      BY <3>1 DEF AfterParam, Blank
    <3>. QED
      BY <1>1, <2>0, <3>2
  <2>2. AllTaken(q, params)'
    BY <1>2 DEF AllTaken
  <2>. QED
    BY <2>1, <2>2 DEF Place
<1>3. CASE y # Len(q) + 1
  <2>1. q[y] = "&" /\ y < Len(q)
    BY <1>1, <1>3 DEF Stands, Full
  <2>2. pc' = "key" /\ Starts(q, y)
    BY <1>3, <2>1 DEF AfterParam, Starts
  <2>3. KeyBegins(q, a, pos, params)'
    BY <2>2 DEF KeyBegins
  <2>. QED
    BY <2>2, <2>3 DEF Place
<1>. QED
  BY <1>2, <1>3

LEMMA KeyStep ==
  ASSUME source \in Seq(Tokens), NEW m, NEW j \in Nat, Shaped(source, m, j),
         NEW q, NEW a, Ahead(source, j, q, a), Full(q), KeyBegins(q, a, pos, params), ReadKey
  PROVE  Place(q, a, j)'
<1> DEFINE n == Len(q)
           delims == {"=", "&", Blank}
<1>1. /\ q \in Seq(Tokens) /\ a \in Nat /\ n \in Nat /\ j = a + n + 1
  <2>1. q \in Seq(Tokens) /\ a \in 2 .. j - 1
    BY DEF Ahead
  <2>2. n = j - 1 - a
    BY AheadIs
  <2> HIDE DEF n
  <2>. QED
    BY <2>1, <2>2
<1>2. PICK r \in Nat : Starts(q, r) /\ pos = a + r /\ Given(params, q, Before(q, r))
  BY DEF KeyBegins
<1>3. PICK x \in r + 1 .. n + 1 :
        /\ part' = Part(q, r, x - 1) /\ pos' = a + x /\ ~fail'
        /\ \A i \in r + 1 .. x - 1 : q[i] \notin delims
        /\ IF x = n + 1 THEN delim' = Blank ELSE delim' = q[x] /\ q[x] \in delims \ {Blank}
  <2>1. Scroll(delims) /\ Blank \in delims /\ r < Len(q)
    BY <1>2 DEF ReadKey, Starts
  <2> HIDE DEF delims
  <2>. QED
    BY <1>2, <2>1, ScrollOn
<1>4. x \in Nat /\ Plain(q, r, x) /\ (x = n + 1 => delim' = Blank) /\ (x # n + 1 => delim' = q[x])
  BY <1>1, <1>2, <1>3 DEF Plain
<1>5. CASE delim' = "="
  <2>1. x <= n /\ q[x] = "="
    <3>1. x # n + 1
      BY <1>4, <1>5 DEF Blank
    <3>2. q[x] = "="
      BY <1>4, <1>5, <3>1
    <3> HIDE DEF n
    <3>. QED
      BY <1>1, <1>2, <1>3, <3>1, <3>2
  <2>2. x # n
    BY <1>2, <1>4, <2>1 DEF Full
  <2>3. key' = part' /\ pc' = "value" /\ params' = params
    BY <1>5 DEF ReadKey
  <2>4. ValueBegins(q, a, pos', key', params')
    <3>1. r < x /\ x < Len(q)
      BY <1>1, <1>3, <2>1, <2>2
    <3>. QED
      BY <1>2, <1>3, <1>4, <2>1, <2>3, <3>1 DEF ValueBegins
  <2>. QED
    BY <2>3, <2>4 DEF Place
<1>6. CASE delim' # "="
  <2>1. Stands(q, r, x)
    <3>1. x = n + 1 \/ q[x] = "&"
      BY <1>3, <1>6 
    <3>2. \A i \in r + 1 .. x - 1 : q[i] # "&"
      BY <1>3
    <3>. QED
      BY <1>1, <1>2, <1>3, <3>1, <3>2 DEF Stands, Starts
  <2>2. pc' = AfterParam(delim') /\ (IF Counts(delim') THEN SetParam(part', <<>>) ELSE UNCHANGED params)
    BY <1>6 DEF ReadKey
  <2>3. delim' # EOF
    BY <1>3, <1>6 DEF Blank, EOF
  <2>4. Given(params', q, Before(q, x))
    <3>1. CASE x = r + 1
      <4>1. part' = <<>>
        BY <1>2, <1>3, <3>1, PartEmpty
      <4>2. params' = params
        BY <2>2, <4>1 DEF Counts
      <4>3. Before(q, x) = Before(q, r)
        BY <1>1, <2>1, <3>1, BeforeNext
      <4>. QED
        BY <1>2, <4>2, <4>3
    <3>2. CASE x # r + 1
      <4>1. PICK b \in Nat : b = x - 1 /\ r <= b /\ r # b /\ b <= Len(q)
        BY <1>1, <1>2, <1>3, <3>2
      <4>2. Len(Part(q, r, b)) = b - r
        BY <1>1, <4>1, PartOfTokens
      <4>3. part' # <<>>
        <5>1. b - r # 0 /\ Len(<<>>) = 0
          BY <4>1
        <5>. QED
          BY <1>3, <4>1, <4>2, <5>1
      <4>4. params' = Put(params, part', <<>>)
        BY <2>2, <2>3, <4>3 DEF Counts, SetParam, Put
      <4>5. KeyOf(Part(q, r, b)) = Part(q, r, b) /\ ValueOf(Part(q, r, b)) = <<>>
        <5>1. \A i \in r + 1 .. b : q[i] # "="
          BY <1>3, <4>1
        <5>. QED
          BY <1>1, <4>1, <5>1, OnlyKey
      <4>6. part' = KeyOf(Part(q, r, x - 1)) /\ <<>> = ValueOf(Part(q, r, x - 1))
        BY <1>3, <4>1, <4>5
      <4>. QED
        BY <1>1, <1>2, <1>4, <2>1, <3>2, <4>4, <4>6, PutGiven
    <3>. QED
      BY <3>1, <3>2
  <2>. QED
    BY <1>1, <1>3, <1>4, <2>1, <2>2, <2>4, Onwards
<1>. QED
  BY <1>5, <1>6

LEMMA ValueStep ==
  ASSUME source \in Seq(Tokens), NEW m, NEW j \in Nat, Shaped(source, m, j),
         NEW q, NEW a, Ahead(source, j, q, a), Full(q),
         ValueBegins(q, a, pos, key, params), ReadValue
  PROVE  Place(q, a, j)'
<1> DEFINE n == Len(q)
           delims == {"&", Blank}
<1>1. /\ q \in Seq(Tokens) /\ a \in Nat /\ n \in Nat /\ j = a + n + 1
  <2>1. q \in Seq(Tokens) /\ a \in 2 .. j - 1
    BY DEF Ahead
  <2>2. n = j - 1 - a
    BY AheadIs
  <2> HIDE DEF n
  <2>. QED
    BY <2>1, <2>2
<1>2. PICK r \in Nat, x \in Nat :
        /\ Starts(q, r) /\ r < x /\ x < n /\ q[x] = "=" /\ Plain(q, r, x)
        /\ pos = a + x /\ key = Part(q, r, x - 1) /\ Given(params, q, Before(q, r))
  BY DEF ValueBegins
<1>3. PICK y \in x + 1 .. n + 1 :
        /\ part' = Part(q, x, y - 1) /\ pos' = a + y /\ ~fail'
        /\ \A i \in x + 1 .. y - 1 : q[i] \notin delims
        /\ IF y = n + 1 THEN delim' = Blank ELSE delim' = q[y] /\ q[y] \in delims \ {Blank}
  <2>1. Scroll(delims) /\ Blank \in delims
    BY DEF ReadValue
  <2> HIDE DEF delims
  <2>. QED
    BY <1>2, <2>1, ScrollOn
<1>4. y \in Nat /\ y # r + 1 /\ (y = n + 1 => delim' = Blank) /\ (y # n + 1 => delim' = q[y])
  BY <1>1, <1>2, <1>3
<1>5. Stands(q, r, y)
  <2>1. y = n + 1 \/ q[y] = "&"
    BY <1>3
  <2>2. ASSUME NEW i \in r + 1 .. y - 1 PROVE q[i] # "&"
    <3>1. i \in r + 1 .. x - 1 \/ i = x \/ i \in x + 1 .. y - 1
      BY <1>2, <1>3
    <3>. QED
      BY <1>2, <1>3, <3>1 DEF Plain
  <2>. QED
    BY <1>1, <1>2, <1>3, <2>1, <2>2 DEF Stands, Starts
<1>6. key = KeyOf(Part(q, r, y - 1)) /\ part' = ValueOf(Part(q, r, y - 1))
  <2>1. x < y /\ y <= Len(q) + 1 /\ \A i \in r + 1 .. x - 1 : q[i] # "="
    BY <1>1, <1>2, <1>3 DEF Plain
  <2>. QED
    BY <1>1, <1>2, <1>3, <1>4, <2>1, KeyAndValue
<1>7. params' = Put(params, key, part') /\ pc' = AfterParam(delim')
  BY DEF ReadValue, SetParam, Put
<1>8. Given(params', q, Before(q, y))
  BY <1>1, <1>2, <1>4, <1>5, <1>6, <1>7, PutGiven
<1>. QED
  BY <1>1, <1>3, <1>4, <1>5, <1>7, <1>8, Onwards

(* A query whose last key and last value are not empty, by the definition of   *)
(* EmptyAtEnd, is Full.                                                        *)
LEMMA QueryFull ==
  ASSUME NEW t \in Seq(Tokens), NEW m, NEW j \in Nat, Shaped(t, m, j), ~EmptyAtEnd(t),
         NEW q, q = Query(Target(t)), NEW a, Ahead(t, j, q, a),
         Marks(Target(t)) # {}, Min(Marks(Target(t))) = a - 2
  PROVE  Full(q)
<1> DEFINE n == Len(q)
           s == Target(t)
<1>1. n = j - 1 - a /\ a \in 2 .. j - 1 /\ q \in Seq(Tokens) /\ \A i \in 1 .. n : q[i] = t[a + i]
  <2>1. /\ Len(q) = j - 1 - a /\ j < Len(t) /\ t[j] = Blank
        /\ \A i \in 1 .. Len(q) : q[i] = t[a + i] /\ q[i] # Blank
    BY AheadIs
  <2>2. a \in 2 .. j - 1 /\ q \in Seq(Tokens)
    BY DEF Ahead
  <2>. QED
    BY <2>1, <2>2, Zenon
<1>2. Len(s) = j - 3 /\ \A i \in 1 .. j - 3 : s[i] = t[2 + i]
  BY TargetIs
<1>3. /\ ~(Marks(s) # {} /\ Last(s) = "&")
      /\ ~(Marks(s) # {} /\ Min(Marks(s)) = Len(s))
      /\ ~(q # <<>> /\ \E ij \in Between(q) :
             ij[2] = n /\ Equals(SubSeq(q, ij[1], ij[2])) = {ij[2] - ij[1] + 1})
  BY DEF EmptyAtEnd
<1> HIDE DEF n, s
<1>4. n \in Nat /\ n > 0
  <2>1. a - 2 # j - 3
    BY <1>2, <1>3 DEF s
  <2>. QED
    BY <1>1, <2>1
<1>5. q[n] # "&"
  <2>1. j - 3 \in 1 .. j - 3 /\ 2 + (j - 3) = j - 1 /\ n \in 1 .. n /\ a + n = j - 1
    BY <1>1, <1>4
  <2>2. s[j - 3] = t[j - 1] /\ q[n] = t[j - 1]
    BY <1>1, <1>2, <2>1
  <2>3. s[j - 3] # "&"
    BY <1>2, <1>3 DEF Last, s
  <2>. QED
    BY <2>2, <2>3
<1>6. ASSUME NEW r \in Nat, Starts(q, r), q[n] = "=", Plain(q, r, n) PROVE FALSE
  <2>1. PICK c \in 1 .. n + 1 : c = r + 1 /\ c <= n /\ c - 1 = r
    BY <1>4, <1>6 DEF Starts, n
  <2>2. <<c, n>> \in Between(q)
    <3>1. /\ \A i \in c .. n : q[i] # "&"
          /\ c = 1 \/ q[c - 1] = "&"
          /\ n = Len(q) \/ q[n + 1] = "&"
      BY <1>4, <1>5, <1>6, <2>1 DEF Plain, Starts, n
    <3>2. n \in 0 .. Len(q) /\ c \in 1 .. Len(q) + 1 /\ c <= n + 1
      BY <1>4, <2>1 DEF n
    <3>. QED
      BY <1>1, <3>1, <3>2, BetweenIs
  <2>3. Equals(SubSeq(q, c, n)) = {n - c + 1}
    <3> DEFINE p == Part(q, r, n)
    <3>1. SubSeq(q, c, n) = p
      BY <2>1 DEF Part
    <3>2. r <= n /\ n <= Len(q)
      BY <1>4, <2>1 DEF n
    <3>3. p \in Seq(Tokens) /\ Len(p) = n - r /\ \A i \in 1 .. n - r : p[i] = q[r + i]
      BY <1>1, <1>4, <3>2, PartOfTokens
    <3> HIDE DEF p
    <3>4. DOMAIN p = 1 .. n - r
      BY <3>3, LenProperties
    <3>5. ASSUME NEW i \in 1 .. n - r PROVE p[i] = "=" <=> i = n - r
      <4>1. CASE i = n - r
        <5>1. r + i = n
          BY <1>4, <4>1
        <5>. QED
          BY <1>6, <3>3, <4>1, <5>1
      <4>2. CASE i # n - r
        <5>1. r + i \in r + 1 .. n - 1
          BY <1>4, <4>2
        <5>. QED
          BY <1>6, <3>3, <4>2, <5>1 DEF Plain
      <4>. QED
        BY <4>1, <4>2
    <3>6. n - r \in 1 .. n - r /\ n - c + 1 = n - r
      BY <1>4, <2>1
    <3>7. Equals(p) = {n - r}
      BY <3>4, <3>5, <3>6 DEF Equals
    <3>. QED
      BY <3>1, <3>6, <3>7
  <2>4. <<c, n>>[1] = c /\ <<c, n>>[2] = n
    OBVIOUS
  <2>5. q # <<>>
    BY <1>4 DEF n
  <2>. QED
    BY <1>3, <2>2, <2>3, <2>4, <2>5
<1>. QED
  BY <1>4, <1>5, <1>6 DEF Full, n

(* The last word is the version.                                              *)
LEMMA LastWord ==
  ASSUME source \in Seq(Tokens), NEW m, NEW j \in Nat, Shaped(source, m, j),
         pos = j, ~fail, ReadWord
  PROVE  piece' = SubSeq(source, j + 1, Len(source))
<1>1. Len(source) \in Nat /\ DOMAIN source = 1 .. Len(source)
  BY LenProperties
<1>2. j \in 4 .. Len(source) - 1 /\ Blanks(source) = {2, j}
  BY DEF Shaped
<1>3. \A i \in j + 1 .. Len(source) : NonBlank(i)
  BY <1>1, <1>2 DEF Blanks, NonBlank
<1>4. WordStart = j + 1 .. Len(source)
  BY <1>3 DEF WordStart, Rest
<1>5. Min(WordStart) = j + 1
  <2>1. j + 1 \in WordStart /\ \A i \in WordStart : j + 1 <= i /\ i \in Nat
    BY <1>1, <1>2, <1>4
  <2> HIDE DEF WordStart
  <2>. QED
    BY <2>1 DEF Min
<1> DEFINE ends == {k \in j + 1 .. Len(source) + 1 : k = Len(source) + 1 \/ ~NonBlank(k)}
<1>6. Min(ends) = Len(source) + 1
  <2>1. ends = {Len(source) + 1}
    BY <1>1, <1>2, <1>3
  <2> HIDE DEF ends
  <2>2. Len(source) + 1 \in Nat
    BY <1>1
  <2>. QED
    BY <2>1, <2>2 DEF Min
<1>7. WordEnd(j + 1) = Len(source) + 1
  BY <1>6 DEF WordEnd
<1>8. /\ WordStart # {}
      /\ piece' = SubSeq(source, Min(WordStart), WordEnd(Min(WordStart)) - 1)
  <2>1. WordStart # {}
    BY <1>1, <1>2, <1>4
  <2>. QED
    BY <2>1 DEF ReadWord
<1>9. Len(source) + 1 - 1 = Len(source)
  BY <1>1
<1>. QED
  BY <1>5, <1>7, <1>8, <1>9

(* What updateTitle() makes of it is the title without the parameters.         *)
LEMMA TitleIs ==
  ASSUME NEW t \in Seq(Tokens), NEW m, NEW j \in Nat, Shaped(t, m, j), NEW u \in Seq(Tokens)
  PROVE  Title(m, u, SubSeq(t, j + 1, Len(t)))
           = <<m, Blank>> \o u \o SubSeq(t, Max(Blanks(t)), Len(t))
<1> DEFINE v == Part(t, j, Len(t))
<1>1. j \in 4 .. Len(t) - 1 /\ Blanks(t) = {2, j} /\ Len(t) \in Nat /\ DOMAIN t = 1 .. Len(t)
  BY LenProperties DEF Shaped
<1>2. t[j] = Blank
  BY <1>1 DEF Blanks
<1>3. Max(Blanks(t)) = j
  BY <1>1 DEF Max
<1>4. /\ j - 1 \in Nat /\ j - 1 <= j /\ j <= Len(t) /\ Len(t) <= Len(t) /\ j - 1 + 1 = j
  BY <1>1
<1>5. SubSeq(t, j, Len(t)) = Part(t, j - 1, Len(t)) /\ SubSeq(t, j + 1, Len(t)) = v
  BY <1>4 DEF Part
<1>6. Part(t, j - 1, Len(t)) = Part(t, j - 1, j) \o Part(t, j, Len(t))
  BY <1>1, <1>4, PartConcat
<1>7. Part(t, j - 1, j) = <<Blank>>
  <2>1. /\ Part(t, j - 1, j) \in Seq(Tokens) /\ Len(Part(t, j - 1, j)) = j - (j - 1)
        /\ \A i \in 1 .. j - (j - 1) : Part(t, j - 1, j)[i] = t[j - 1 + i]
    BY <1>4, PartOfTokens
  <2>2. j - (j - 1) = 1 /\ 1 \in 1 .. 1
    BY <1>1
  <2>3. Len(Part(t, j - 1, j)) = 1 /\ Part(t, j - 1, j)[1] = Blank
    BY <1>2, <1>4, <2>1, <2>2
  <2>4. <<Blank>> \in Seq(Tokens) /\ Len(<<Blank>>) = 1 /\ <<Blank>>[1] = Blank
    BY DEF Tokens
  <2>5. \A i \in 1 .. 1 : Part(t, j - 1, j)[i] = <<Blank>>[i]
    BY <2>3
  <2>. QED
    BY <2>1, <2>3, <2>4, <2>5, SeqEqual
<1>8. v \in Seq(Tokens) /\ <<Blank>> \in Seq(Tokens) /\ <<m, Blank>> \in Seq(Tokens)
  <2>1. v \in Seq(Tokens)
    BY <1>1, <1>4, PartOfTokens
  <2>2. m \in Tokens /\ Blank \in Tokens
    BY DEF Shaped, Tokens
  <2> HIDE DEF v
  <2>. QED
    BY <2>1, <2>2
<1> HIDE DEF v
<1>9. (<<m, Blank>> \o u) \o <<Blank>> \o v = (<<m, Blank>> \o u) \o (<<Blank>> \o v)
  <2>1. <<m, Blank>> \o u \in Seq(Tokens)
    BY <1>8
  <2> DEFINE p == <<m, Blank>> \o u
  <2> HIDE DEF p
  <2>2. p \in Seq(Tokens)
    BY <2>1 DEF p
  <2>3. (p \o <<Blank>>) \o v = p \o (<<Blank>> \o v)
    BY <1>8, <2>2, ConcatAssociative
  <2>. QED
    BY <2>3 DEF p
<1>. QED
  BY <1>3, <1>5, <1>6, <1>7, <1>9 DEF Title, v

LEMMA PathType ==
  ASSUME NEW s \in Seq(Tokens)
  PROVE  Path(s) \in Seq(Tokens)
<1>1. CASE Marks(s) = {}
  BY <1>1 DEF Path
<1>2. CASE Marks(s) # {}
  <2>1. Len(s) \in Nat /\ Marks(s) \in SUBSET (1 .. Len(s)) /\ Marks(s) \in SUBSET Nat
    BY LenProperties DEF Marks
  <2> DEFINE x == Min(Marks(s))
  <2>2. x \in Marks(s)
    <3>1. PICK y \in Marks(s) : \A z \in Marks(s) : y <= z
      BY <1>2, <2>1, LeastNumber
    <3>. QED
      BY <3>1 DEF Min
  <2> HIDE DEF x
  <2>3. x - 1 \in Nat /\ x - 1 <= Len(s) /\ 0 <= x - 1
    BY <2>1, <2>2
  <2>4. Part(s, 0, x - 1) \in Seq(Tokens)
    BY <2>3, PartOfTokens
  <2>. QED
    BY <1>2, <2>4 DEF Path, Part, x
<1>. QED
  BY <1>1, <1>2

(* What a request line has been taken apart into so far.                      *)
TakenApart(m, j) ==
  /\ pc \in {"method", "uri"} => params = <<>>
  /\ pc \in {"key", "value", "version"} =>
       \E q, a : /\ q = Query(Target(source)) /\ Ahead(source, j, q, a)
                 /\ Place(q, a, j) /\ (pc # "version" => Full(q))
  /\ pc = "done" => Result = Meaning(source)

Parsed ==
  RequestLine(source) /\ ~EmptyAtEnd(source) =>
    \A m \in Methods, j \in Nat : Shaped(source, m, j) => TakenApart(m, j)

LEMMA NothingTaken ==
  ASSUME NEW q \in Seq(Tokens), NEW r \in Nat, r = 0 \/ Len(q) = 0
  PROVE  Given(<<>>, q, Before(q, r))
<1>1. Before(q, r) = {}
  <2>1. SUFFICES ASSUME NEW ij \in Before(q, r) PROVE FALSE
    OBVIOUS
  <2>. QED
    BY BeforeType
<1>2. DOMAIN <<>> = {} /\ <<>> = [k \in DOMAIN <<>> |-> <<>>[k]]
  OBVIOUS
<1>. QED
  BY <1>1, <1>2 DEF Given

LEMMA URIRead ==
  ASSUME source \in Seq(Tokens), NEW m, NEW j \in Nat, Shaped(source, m, j), ~EmptyAtEnd(source),
         pos = 1, params = <<>>, ReadURI, NEW q, q = Query(Target(source))
  PROVE  \E a : Ahead(source, j, q, a) /\ Place(q, a, j)' /\ (pc' # "version" => Full(q))
<1>1. /\ ~fail'
      /\ \/ delim' = Blank /\ pos' = j /\ q = <<>>
         \/ /\ delim' = "?" /\ pos' \in 3 .. j - 1
            /\ Marks(Target(source)) # {} /\ Min(Marks(Target(source))) = pos' - 2
            /\ q = Part(source, pos', j - 1)
  BY FirstPart DEF ReadURI
<1>2. params' = <<>> /\ pc' = IF delim' = "?" THEN "key" ELSE "version"
  BY DEF ReadURI
<1>3. j \in 4 .. Len(source) - 1 /\ Len(source) \in Nat
  BY LenProperties DEF Shaped
<1>4. CASE delim' = Blank /\ pos' = j /\ q = <<>>
  <2>1. q \in Seq(Tokens) /\ Len(q) = 0
    BY <1>4
  <2>2. Ahead(source, j, q, j - 1)
    BY <1>3, <1>4, <2>1, PartEmpty DEF Ahead
  <2>3. pc' = "version"
    BY <1>2, <1>4 DEF Blank
  <2>4. AllTaken(q, <<>>)
    <3>1. Len(q) + 1 \in Nat
      BY <2>1
    <3>. QED
      BY <2>1, <3>1, NothingTaken DEF AllTaken
  <2>5. AllTaken(q, params')
    BY <1>2, <2>4
  <2>6. Place(q, j - 1, j)'
    BY <1>1, <1>4, <2>3, <2>5 DEF Place
  <2>. QED
    BY <2>2, <2>3, <2>6
<1>5. CASE delim' = "?" /\ pos' \in 3 .. j - 1 /\ Marks(Target(source)) # {}
           /\ Min(Marks(Target(source))) = pos' - 2 /\ q = Part(source, pos', j - 1)
  <2>1. PICK a \in 3 .. j - 1 : a = pos'
    BY <1>5
  <2>2. q \in Seq(Tokens)
    <3>1. a \in Nat /\ j - 1 \in Nat /\ a <= j - 1 /\ j - 1 <= Len(source)
      BY <1>3, <2>1
    <3>2. Part(source, a, j - 1) \in Seq(Tokens)
      BY <3>1, PartOfTokens
    <3>. QED
      BY <1>5, <2>1, <3>2
  <2>3. Ahead(source, j, q, a)
    BY <1>3, <1>5, <2>1, <2>2 DEF Ahead
  <2>4. pc' = "key"
    BY <1>2, <1>5
  <2>5. Full(q)
    BY <1>5, <2>1, <2>3, QueryFull
  <2>6. Starts(q, 0) /\ a + 0 = a
    BY <2>5 DEF Starts, Full
  <2>7. Given(params', q, Before(q, 0))
    BY <1>2, <2>2, NothingTaken
  <2>8. KeyBegins(q, a, pos', params')
    BY <2>1, <2>6, <2>7 DEF KeyBegins
  <2>9. Place(q, a, j)'
    BY <2>4, <2>8 DEF Place
  <2>. QED
    BY <2>3, <2>5, <2>9
<1>. QED
  BY <1>1, <1>4, <1>5

LEMMA VersionRead ==
  ASSUME source \in Seq(Tokens), NEW m, NEW j \in Nat, Shaped(source, m, j),
         method = source[1], uri = Path(Target(source)), source' = source,
         pos = j, ~fail, NEW q \in Seq(Tokens), q = Query(Target(source)), AllTaken(q, params),
         ReadVersion
  PROVE  Result' = Meaning(source)
<1>1. /\ method' = method /\ uri' = uri /\ params' = params /\ version' = piece'
      /\ title' = Title(method, uri, version') /\ ReadWord
  BY DEF ReadVersion
<1>2. version' = SubSeq(source, j + 1, Len(source))
  BY <1>1, LastWord
<1>3. params = Parameters(q)
  BY AllGiven DEF AllTaken
<1>4. Max(Blanks(source)) = j
  BY LenProperties DEF Shaped, Max
<1>5. m = source[1]
  BY DEF Shaped
<1>6. uri \in Seq(Tokens)
  BY TargetIs, PathType
<1>7. title' = <<source[1], Blank>> \o uri \o SubSeq(source, Max(Blanks(source)), Len(source))
  BY <1>1, <1>2, <1>5, <1>6, TitleIs
<1>8. Result' = [method |-> method', uri |-> uri', params |-> params', version |-> version',
                 title |-> title']
  BY DEF Result
<1>. QED
  BY <1>1, <1>2, <1>3, <1>4, <1>7, <1>8 DEF Meaning

LEMMA ReadStep ==
  ASSUME RequestRight, RequestLine(source), ~EmptyAtEnd(source),
         NEW m \in Methods, NEW j \in Nat, Shaped(source, m, j), TakenApart(m, j), ConstructRequest
  PROVE  TakenApart(m, j)'
<1>1. source \in Seq(Tokens)
  BY TitleAssumption DEF RequestRight
<1>2. source' = source
  BY DEF ConstructRequest, Constructor, ReadMethod, ReadURI, ReadKey, ReadValue, ReadVersion
<1>3. Query(Target(source))' = Query(Target(source)) /\ Meaning(source)' = Meaning(source)
  BY <1>2
<1>4. ASSUME NEW q, NEW a, q = Query(Target(source)), Ahead(source, j, q, a), Place(q, a, j)',
             pc' # "version" => Full(q)
      PROVE  TakenApart(m, j)'
  <2>1. pc' \in {"key", "value", "version"}
    BY <1>4 DEF Place
  <2>2. Ahead(source', j, q, a) /\ q = Query(Target(source))'
    BY <1>2, <1>3, <1>4
  <2>. QED
    BY <1>4, <2>1, <2>2 DEF TakenApart
<1>5. CASE ReadMethod
  <2>1. params' = params /\ params = <<>> /\ pc' \in {"uri", "unknown method"}
    BY <1>5 DEF ReadMethod, TakenApart
  <2>. QED
    BY <2>1 DEF TakenApart
<1>6. CASE ReadURI
  <2>1. pos = 1 /\ params = <<>>
    BY <1>6 DEF ReadURI, RequestRight, TakenApart
  <2>2. PICK q : q = Query(Target(source))
    OBVIOUS
  <2>3. PICK a : Ahead(source, j, q, a) /\ Place(q, a, j)' /\ (pc' # "version" => Full(q))
    BY <1>1, <1>6, <2>1, <2>2, URIRead
  <2>. QED
    BY <1>4, <2>2, <2>3
<1>7. CASE ReadKey
  <2>1. PICK q, a : /\ q = Query(Target(source)) /\ Ahead(source, j, q, a) /\ Place(q, a, j)
                    /\ Full(q) /\ pc = "key"
    BY <1>7 DEF ReadKey, TakenApart
  <2>2. Place(q, a, j)'
    BY <1>1, <1>7, <2>1, KeyStep DEF Place
  <2>. QED
    BY <1>4, <2>1, <2>2
<1>8. CASE ReadValue
  <2>1. PICK q, a : /\ q = Query(Target(source)) /\ Ahead(source, j, q, a) /\ Place(q, a, j)
                    /\ Full(q) /\ pc = "value"
    BY <1>8 DEF ReadValue, TakenApart
  <2>2. Place(q, a, j)'
    BY <1>1, <1>8, <2>1, ValueStep DEF Place
  <2>. QED
    BY <1>4, <2>1, <2>2
<1>9. CASE ReadVersion
  <2>1. PICK q, a : /\ q = Query(Target(source)) /\ Ahead(source, j, q, a) /\ Place(q, a, j)
                    /\ pc = "version"
    BY <1>9 DEF ReadVersion, TakenApart
  <2>2. pos = j /\ ~fail /\ AllTaken(q, params) /\ q \in Seq(Tokens)
    BY <2>1 DEF Place, Ahead
  <2>3. method = source[1] /\ uri = Path(Target(source))
    BY <2>1 DEF RequestRight
  <2>4. Result' = Meaning(source)
    BY <1>1, <1>2, <1>9, <2>1, <2>2, <2>3, VersionRead
  <2>5. pc' = "done"
    BY <1>9 DEF ReadVersion
  <2>. QED
    BY <1>3, <2>4, <2>5 DEF TakenApart
<1>. QED
  BY <1>5, <1>6, <1>7, <1>8, <1>9 DEF ConstructRequest, Constructor

LEMMA ParsedAlways == Spec => []Parsed
<1>1. Init => Parsed
  BY DEF Init, Construct, Parsed, TakenApart
<1>2. RequestRight /\ Parsed /\ [Next]_vars => Parsed'
  <2>1. SUFFICES ASSUME RequestRight, Parsed, [Next]_vars PROVE Parsed'
    OBVIOUS
  <2>2. source' = source
    BY <2>1 DEF Next, Step, ConstructRequest, Constructor, ReadMethod, ReadURI, ReadKey, ReadValue,
                ReadVersion, UnknownMethod, OutOfMemory, Uncaught, RunScript, OpenFile, DescribeFile,
                AddCommonHeaders, Send, RemoveFile, Answer, requestLocals, vars, requestVars
  <2>3. /\ RequestLine(source)' <=> RequestLine(source)
        /\ EmptyAtEnd(source)' <=> EmptyAtEnd(source)
        /\ \A m, j : Shaped(source, m, j)' <=> Shaped(source, m, j)
    BY <2>2 DEF RequestLine, EmptyAtEnd, Shaped, Blanks
  <2>4. SUFFICES ASSUME RequestLine(source), ~EmptyAtEnd(source),
                        NEW m \in Methods, NEW j \in Nat, Shaped(source, m, j)
                 PROVE  TakenApart(m, j)'
    BY <2>3 DEF Parsed
  <2>5. TakenApart(m, j)
    BY <2>1, <2>4 DEF Parsed
  <2>6. CASE ConstructRequest
    BY <2>1, <2>4, <2>5, <2>6, ReadStep
  <2>7. CASE UNCHANGED requestVars
    <3>1. UNCHANGED <<source, pos, fail, key, method, uri, params, version, title, pc>>
      BY <2>7 DEF requestVars, requestLocals
    <3>. QED
      BY <2>5, <3>1 DEF TakenApart, Place, Result
  <2>8. CASE pc' \in {"common headers", "send", "sent", "aborted", "last modified"}
    BY <2>8 DEF TakenApart
  <2>9. ConstructRequest \/ UNCHANGED requestVars
          \/ pc' \in {"common headers", "send", "sent", "aborted", "last modified"}
    BY <2>1 DEF Next, Step, UnknownMethod, OutOfMemory, Uncaught, RunScript, OpenFile, DescribeFile,
                AddCommonHeaders, Send, RemoveFile, Answer, vars
  <2>. QED
    BY <2>6, <2>7, <2>8, <2>9
<1>. QED
  BY <1>1, <1>2, RightAlways, PTL DEF Spec

(* A request line whose last key and last value are not empty is taken apart   *)
(* as it stands, by the calls of scroll() in the constructor of HttpRequest:   *)
(* the path, each parameter with the value it had last, and the version.       *)
THEOREM RequestLinesMeant == Spec => []MeansRequestLine
<1>1. RequestRight /\ Parsed => MeansRequestLine
  <2>1. SUFFICES ASSUME RequestRight, Parsed, pc = "done", RequestLine(source), ~EmptyAtEnd(source)
                 PROVE  Result = Meaning(source)
    BY DEF MeansRequestLine
  <2>2. source \in Seq(Tokens)
    BY <2>1, TitleAssumption DEF RequestRight
  <2>3. PICK m \in Methods, j \in Nat : Shaped(source, m, j)
    BY <2>1, <2>2, RequestLineShaped
  <2>. QED
    BY <2>1, <2>3 DEF Parsed, TakenApart
<1>. QED
  BY <1>1, RightAlways, ParsedAlways, PTL

=============================================================================
