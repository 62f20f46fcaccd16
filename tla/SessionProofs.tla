---------------------------- MODULE SessionProofs ---------------------------
(***************************************************************************)
(* What the chain of processes on one connection keeps, for every size of   *)
(* the buffers and the pipe, every length of the chain and every client;    *)
(* and what becomes of the bytes of the client, however they are cut into   *)
(* segments and whichever process of the chain receives them: none is lost, *)
(* none is read twice, and a client that waits for each reply has its       *)
(* requests read one by one.                                                *)
(***************************************************************************)
EXTENDS Session, SequenceLemmas, TLAPS

(* The types that the steps of the workers depend on.                        *)
Pipes ==
  /\ pc \in [Worker -> PCs] /\ answer \in [Worker -> Statuses]
  /\ pipe \in [Worker -> Nat] /\ wrote \in [Worker -> Nat]
  /\ got \in [Worker -> Nat] /\ len \in [Worker -> Nat]

(* The processes of the chain are numbered from 1.                           *)
LEMMA WorkerInt == Worker \subseteq Int /\ \A w \in Worker : w >= 1
  BY SizeAssumption DEF Worker

-----------------------------------------------------------------------------
(* A worker that is neither waiting nor done is the last one alive, so       *)
(* whatever step it takes to a state of its own keeps OneReader.             *)
LEMMA ActiveStep ==
  ASSUME Pipes, OneReader, NEW w \in Worker, pc[w] \notin {"none", "wait", "done"},
         NEW label \in PCs, pc' = [pc EXCEPT ![w] = label]
  PROVE  OneReader'
<1>1. \A u \in Worker : w < u => ~Alive(u)
  BY DEF OneReader, At
<1>2. \A v \in Worker : v < w => At(v, "wait") \/ (v = 1 /\ At(v, "done"))
  BY DEF OneReader, Alive, At
<1>3. \A v \in Worker : pc'[v] = IF v = w THEN label ELSE pc[v]
  BY DEF Pipes
<1>4. SUFFICES ASSUME NEW v \in Worker, NEW u \in Worker, v < u, pc'[u] \notin {"none", "done"}
               PROVE  pc'[v] = "wait" \/ (v = 1 /\ pc'[v] = "done")
  BY DEF OneReader, Alive, At
<1>5. CASE u = w
  BY <1>2, <1>3, <1>4, <1>5, WorkerInt DEF At
<1>6. CASE u # w
  <2>1. pc'[u] = pc[u] /\ Alive(u)
    BY <1>3, <1>4, <1>6 DEF Alive
  <2>2. ~(w < u)
    BY <1>1, <2>1
  <2>3. v # w
    BY <1>4, <2>2
  <2>. QED
    BY <1>3, <1>4, <2>1, <2>3 DEF OneReader, At
<1>. QED
  BY <1>5, <1>6

(* OneReader depends on nothing but where the processes are.                 *)
LEMMA UnchangedStep ==
  ASSUME OneReader, pc' = pc
  PROVE  OneReader'
BY DEF OneReader, Alive, At

-----------------------------------------------------------------------------
(* What is read of a pipe is what was written less what is still in it, a    *)
(* read never asks for nothing, and a response is raw once the pipe is empty. *)
Accounting ==
  /\ \A w \in Worker : got[w] + pipe[w] = wrote[w]
  /\ \A w \in Worker : pc[w] \in {"wait", "read"} => len[w] > 0
  /\ \A w \in Worker : pc[w] = "send" /\ answer[w] = "raw" => pipe[w] = 0

(* OneReader keeps a child from writing into a pipe that was read to its end. *)
Inv == Pipes /\ OneReader /\ Accounting

(* A step that concerns neither the processes nor their pipes.               *)
LEMMA QuietStep ==
  ASSUME Inv, UNCHANGED <<pc, answer, pipeVars>>
  PROVE  Inv'
<1>1. OneReader'
  BY UnchangedStep DEF Inv
<1>. QED
  BY <1>1 DEF Inv, Pipes, Accounting, pipeVars

(* A step of one worker that touches no pipe.                                *)
LEMMA OwnStep ==
  ASSUME Inv, NEW w \in Worker, pc[w] \notin {"none", "wait", "done"},
         NEW label \in PCs, pc' = [pc EXCEPT ![w] = label], UNCHANGED pipeVars,
         \/ pc'[w] \notin {"wait", "read", "send"} /\ UNCHANGED answer
         \/ \E s \in Statuses \ {"raw"} : pc'[w] = "send" /\ answer' = [answer EXCEPT ![w] = s]
  PROVE  Inv'
<1>1. OneReader'
  BY ActiveStep DEF Inv
<1>2. Pipes'
  BY DEF Inv, Pipes, pipeVars
<1>3. \A v \in Worker \ {w} : pc'[v] = pc[v] /\ answer'[v] = answer[v]
  BY DEF Inv, Pipes
<1>4. pc'[w] = "send" => answer'[w] # "raw"
  BY DEF Inv, Pipes
<1>5. pc'[w] \notin {"wait", "read"}
  OBVIOUS
<1>. QED
  BY <1>1, <1>2, <1>3, <1>4, <1>5 DEF Inv, Accounting, pipeVars

(* A write to standard output goes into the pipe of a waiting parent.        *)
LEMMA WriteStep ==
  ASSUME Inv, NEW w \in Worker, pc[w] \in {"print", "script"},
         NEW label \in {"route", "script"}, Write(w, label), UNCHANGED <<answer, got, len>>
  PROVE  Inv'
<1>1. PICK l \in {"route", "script", "done"} : pc' = [pc EXCEPT ![w] = l]
  BY DEF Write, Goto
<1>2. OneReader'
  BY <1>1, ActiveStep DEF Inv, PCs
<1>3. \A v \in Worker : pc'[v] = IF v = w THEN l ELSE pc[v]
  BY <1>1 DEF Inv, Pipes
<1>4. pc' \in [Worker -> PCs]
  BY <1>1 DEF Inv, Pipes, PCs
<1>5. CASE UNCHANGED <<pipe, wrote>>
  BY <1>2, <1>3, <1>4, <1>5 DEF Inv, Accounting, Pipes
<1>6. CASE /\ w > 1
           /\ pipe' = [pipe EXCEPT ![w - 1] = @ + 1]
           /\ wrote' = [wrote EXCEPT ![w - 1] = @ + 1]
  <2>1. w - 1 \in Worker
    BY <1>6, SizeAssumption DEF Worker
  <2>2. pc[w - 1] \in {"wait", "done"}
    BY <2>1, WorkerInt DEF Inv, OneReader, Alive, At
  <2>3. Pipes'
    BY <1>4, <1>6, <2>1 DEF Inv, Pipes
  <2>4. \A v \in Worker : got'[v] + pipe'[v] = wrote'[v]
    BY <1>6, <2>1 DEF Inv, Accounting, Pipes
  <2>5. \A v \in Worker : pc'[v] = "send" /\ answer'[v] = "raw" => pipe'[v] = 0
    BY <1>3, <1>6, <2>1, <2>2 DEF Inv, Accounting, Pipes
  <2>. QED
    BY <1>2, <1>3, <2>3, <2>4, <2>5 DEF Inv, Accounting
<1>. QED
  BY <1>5, <1>6 DEF Write

(* Every step of a process of the chain, and every step of the client,       *)
(* keeps the invariant.                                                      *)
LEMMA InvInductive == Inv /\ [Next]_vars => Inv'
<1>1. SUFFICES ASSUME Inv, [Next]_vars PROVE Inv'
  OBVIOUS
<1> USE <1>1 DEF Inv
<1>2. QED
  <2>1. ASSUME NEW w \in Worker, Recv(w) PROVE Inv'
    <3>1. PICK label \in PCs : pc' = [pc EXCEPT ![w] = label]
      BY <2>1 DEF Recv, At, Goto, AfterRecv, PCs
    <3>2. pc[w] \notin {"none", "wait", "done"} /\ UNCHANGED pipeVars
      BY <2>1 DEF Recv, At, Goto, AfterRecv
    <3>3. \/ pc'[w] \notin {"wait", "read", "send"} /\ UNCHANGED answer
          \/ \E s \in Statuses \ {"raw"} : pc'[w] = "send" /\ answer' = [answer EXCEPT ![w] = s]
      BY <2>1 DEF Recv, At, Goto, AfterRecv, Pipes, Statuses
    <3>. QED
      BY <3>1, <3>2, <3>3, OwnStep
  <2>2. ASSUME NEW w \in Worker, RecvEnd(w) PROVE Inv'
    <3>1. PICK label \in PCs : pc' = [pc EXCEPT ![w] = label]
      BY <2>2 DEF RecvEnd, At, Goto, AfterEnd, PCs
    <3>2. pc[w] \notin {"none", "wait", "done"} /\ UNCHANGED pipeVars
      BY <2>2 DEF RecvEnd, At, Goto, AfterEnd
    <3>3. \/ pc'[w] \notin {"wait", "read", "send"} /\ UNCHANGED answer
          \/ \E s \in Statuses \ {"raw"} : pc'[w] = "send" /\ answer' = [answer EXCEPT ![w] = s]
      BY <2>2 DEF RecvEnd, At, Goto, AfterEnd, Pipes, Statuses
    <3>. QED
      BY <3>1, <3>2, <3>3, OwnStep
  <2>3. ASSUME NEW w \in Worker, RecvThrows(w) PROVE Inv'
    <3>1. PICK label \in PCs : pc' = [pc EXCEPT ![w] = label]
      BY <2>3 DEF RecvThrows, At, Goto, PCs
    <3>2. pc[w] \notin {"none", "wait", "done"} /\ UNCHANGED pipeVars
      BY <2>3 DEF RecvThrows, At, Goto
    <3>3. \/ pc'[w] \notin {"wait", "read", "send"} /\ UNCHANGED answer
          \/ \E s \in Statuses \ {"raw"} : pc'[w] = "send" /\ answer' = [answer EXCEPT ![w] = s]
      BY <2>3 DEF RecvThrows, At, Goto, Pipes, Statuses
    <3>. QED
      BY <3>1, <3>2, <3>3, OwnStep
  <2>4. ASSUME NEW w \in Worker, Parse(w) PROVE Inv'
    <3>1. PICK label \in PCs : pc' = [pc EXCEPT ![w] = label]
      BY <2>4 DEF Parse, At, Goto, Respond, PCs
    <3>2. pc[w] \notin {"none", "wait", "done"} /\ UNCHANGED pipeVars
      BY <2>4 DEF Parse, At, Goto, Respond
    <3>3. \/ pc'[w] \notin {"wait", "read", "send"} /\ UNCHANGED answer
          \/ \E s \in Statuses \ {"raw"} : pc'[w] = "send" /\ answer' = [answer EXCEPT ![w] = s]
      BY <2>4 DEF Parse, At, Goto, Respond, Pipes, Statuses
    <3>. QED
      BY <3>1, <3>2, <3>3, OwnStep
  <2>5. ASSUME NEW w \in Worker, PrintURI(w) PROVE Inv'
    BY <2>5, WriteStep DEF PrintURI, At, PCs
  <2>6. ASSUME NEW w \in Worker, ServeFile(w) PROVE Inv'
    <3>1. PICK label \in PCs : pc' = [pc EXCEPT ![w] = label]
      BY <2>6 DEF ServeFile, At, Goto, Respond, PCs
    <3>2. pc[w] \notin {"none", "wait", "done"} /\ UNCHANGED pipeVars
      BY <2>6 DEF ServeFile, At, Goto, Respond
    <3>3. \/ pc'[w] \notin {"wait", "read", "send"} /\ UNCHANGED answer
          \/ \E s \in Statuses \ {"raw"} : pc'[w] = "send" /\ answer' = [answer EXCEPT ![w] = s]
      BY <2>6 DEF ServeFile, At, Goto, Respond, Pipes, Statuses
    <3>. QED
      BY <3>1, <3>2, <3>3, OwnStep
  <2>7. ASSUME NEW w \in Worker, RefuseCgi(w) PROVE Inv'
    <3>1. PICK label \in PCs : pc' = [pc EXCEPT ![w] = label]
      BY <2>7 DEF RefuseCgi, At, Goto, Respond, PCs
    <3>2. pc[w] \notin {"none", "wait", "done"} /\ UNCHANGED pipeVars
      BY <2>7 DEF RefuseCgi, At, Goto, Respond
    <3>3. \/ pc'[w] \notin {"wait", "read", "send"} /\ UNCHANGED answer
          \/ \E s \in Statuses \ {"raw"} : pc'[w] = "send" /\ answer' = [answer EXCEPT ![w] = s]
      BY <2>7 DEF RefuseCgi, At, Goto, Respond, Pipes, Statuses
    <3>. QED
      BY <3>1, <3>2, <3>3, OwnStep
  <2>8. ASSUME NEW w \in Worker, ForkCgi(w) PROVE Inv'
    <3>1. /\ pc' = [pc EXCEPT ![w] = "wait", ![w + 1] = "exec"] /\ w + 1 \in Worker
          /\ pipe' = [pipe EXCEPT ![w] = 0] /\ wrote' = [wrote EXCEPT ![w] = 0]
          /\ got' = [got EXCEPT ![w] = 0] /\ len' = [len EXCEPT ![w] = Buffer]
          /\ answer' = answer /\ pc[w] = "route"
      BY <2>8 DEF ForkCgi, At
    <3>2. \A v \in Worker : pc'[v] = IF v = w + 1 THEN "exec" ELSE IF v = w THEN "wait" ELSE pc[v]
      BY <3>1, WorkerInt DEF Pipes
    <3>3. \A u \in Worker : w < u => ~Alive(u)
      BY <3>1 DEF OneReader, At
    <3>4. OneReader'
      <4>1. SUFFICES ASSUME NEW v \in Worker, NEW u \in Worker, v < u,
                            pc'[u] \notin {"none", "done"}
                     PROVE  pc'[v] = "wait" \/ (v = 1 /\ pc'[v] = "done")
        BY DEF OneReader, Alive, At
      <4>2. u <= w + 1
        BY <3>2, <3>3, <4>1, WorkerInt DEF Alive
      <4>3. CASE v = w
        BY <3>2, <4>3, WorkerInt
      <4>4. CASE v < w
        <5>1. pc'[v] = pc[v]
          BY <3>2, <4>4, WorkerInt
        <5>2. Alive(w)
          BY <3>1 DEF Alive
        <5>. QED
          BY <5>1, <5>2, <4>4 DEF OneReader, At
      <4>. QED
        BY <4>1, <4>2, <4>3, <4>4, WorkerInt
    <3>5. pc' \in [Worker -> PCs]
      BY <3>1 DEF Pipes, PCs
    <3>6. Pipes'
      BY <3>1, <3>5, SizeAssumption DEF Pipes
    <3>7. \A v \in Worker : got'[v] + pipe'[v] = wrote'[v]
      BY <3>1 DEF Accounting, Pipes
    <3>8. \A v \in Worker : pc'[v] \in {"wait", "read"} => len'[v] > 0
      BY <3>1, <3>2, SizeAssumption DEF Accounting, Pipes
    <3>9. \A v \in Worker : pc'[v] = "send" /\ answer'[v] = "raw" => pipe'[v] = 0
      BY <3>1, <3>2 DEF Accounting, Pipes
    <3>. QED
      BY <3>4, <3>6, <3>7, <3>8, <3>9 DEF Inv, Accounting
  <2>9. ASSUME NEW w \in Worker, Exec(w) PROVE Inv'
    <3>1. PICK label \in PCs : pc' = [pc EXCEPT ![w] = label]
      BY <2>9 DEF Exec, At, Goto, PCs
    <3>2. pc[w] \notin {"none", "wait", "done"} /\ UNCHANGED pipeVars
      BY <2>9 DEF Exec, At, Goto
    <3>3. \/ pc'[w] \notin {"wait", "read", "send"} /\ UNCHANGED answer
          \/ \E s \in Statuses \ {"raw"} : pc'[w] = "send" /\ answer' = [answer EXCEPT ![w] = s]
      BY <2>9 DEF Exec, At, Goto, Pipes, Statuses
    <3>. QED
      BY <3>1, <3>2, <3>3, OwnStep
  <2>10. ASSUME NEW w \in Worker, ExecFails(w) PROVE Inv'
    <3>1. PICK label \in PCs : pc' = [pc EXCEPT ![w] = label]
      BY <2>10 DEF ExecFails, At, Goto, Respond, PCs
    <3>2. pc[w] \notin {"none", "wait", "done"} /\ UNCHANGED pipeVars
      BY <2>10 DEF ExecFails, At, Goto, Respond
    <3>3. \/ pc'[w] \notin {"wait", "read", "send"} /\ UNCHANGED answer
          \/ \E s \in Statuses \ {"raw"} : pc'[w] = "send" /\ answer' = [answer EXCEPT ![w] = s]
      BY <2>10 DEF ExecFails, At, Goto, Respond, Pipes, Statuses
    <3>. QED
      BY <3>1, <3>2, <3>3, OwnStep
  <2>11. ASSUME NEW w \in Worker, ScriptWrites(w) PROVE Inv'
    BY <2>11, WriteStep DEF ScriptWrites, At, PCs
  <2>12. ASSUME NEW w \in Worker, ScriptExits(w) PROVE Inv'
    <3>1. PICK label \in PCs : pc' = [pc EXCEPT ![w] = label]
      BY <2>12 DEF ScriptExits, At, Goto, PCs
    <3>2. pc[w] \notin {"none", "wait", "done"} /\ UNCHANGED pipeVars
      BY <2>12 DEF ScriptExits, At, Goto
    <3>3. \/ pc'[w] \notin {"wait", "read", "send"} /\ UNCHANGED answer
          \/ \E s \in Statuses \ {"raw"} : pc'[w] = "send" /\ answer' = [answer EXCEPT ![w] = s]
      BY <2>12 DEF ScriptExits, At, Goto, Pipes, Statuses
    <3>. QED
      BY <3>1, <3>2, <3>3, OwnStep
  <2>13. ASSUME NEW w \in Worker, WaitCgi(w) PROVE Inv'
    <3>1. /\ pc' = [pc EXCEPT ![w] = "read", ![w + 1] = "none"]
          /\ pc[w] = "wait" /\ pc[w + 1] = "done" /\ UNCHANGED <<answer, pipeVars>>
      BY <2>13 DEF WaitCgi, ChildGone, At
    <3>2. \A v \in Worker : pc'[v] = IF v = w + 1 THEN "none" ELSE IF v = w THEN "read" ELSE pc[v]
      BY <3>1, WorkerInt DEF Pipes
    <3>3. \A u \in Worker : w < u => ~Alive(u)
      <4>1. SUFFICES ASSUME NEW u \in Worker, w + 1 < u, Alive(u) PROVE FALSE
        BY <3>1, WorkerInt DEF Alive
      <4>2. w + 1 \in Worker
        BY <4>1, SizeAssumption DEF Worker
      <4>. QED
        BY <3>1, <4>1, <4>2, WorkerInt DEF OneReader, At
    <3>4. OneReader'
      <4>1. SUFFICES ASSUME NEW v \in Worker, NEW u \in Worker, v < u,
                            pc'[u] \notin {"none", "done"}
                     PROVE  pc'[v] = "wait" \/ (v = 1 /\ pc'[v] = "done")
        BY DEF OneReader, Alive, At
      <4>2. u <= w
        BY <3>2, <3>3, <4>1, WorkerInt DEF Alive
      <4>3. pc[u] \notin {"none", "done"}
        BY <3>1, <3>2, <4>1, <4>2, WorkerInt
      <4>. QED
        BY <3>2, <4>1, <4>2, <4>3, WorkerInt DEF OneReader, Alive, At
    <3>5. pc' \in [Worker -> PCs]
      BY <3>1 DEF Pipes, PCs
    <3>. QED
      BY <3>1, <3>2, <3>4, <3>5 DEF Inv, Accounting, Pipes, pipeVars
  <2>14. ASSUME NEW w \in Worker, ReadPipe(w) PROVE Inv'
    <3>1. PICK label \in PCs : pc' = [pc EXCEPT ![w] = label]
      BY <2>14 DEF ReadPipe, Respond, Goto, Pipes, PCs
    <3>2. OneReader'
      BY <2>14, <3>1, ActiveStep DEF ReadPipe, At
    <3>3. ReadSize(w) \in Nat /\ ReadSize(w) <= pipe[w] /\ ReadSize(w) <= len[w]
      BY DEF ReadSize, Pipes
    <3>4. /\ pipe' = [pipe EXCEPT ![w] = @ - ReadSize(w)]
          /\ got' = [got EXCEPT ![w] = @ + ReadSize(w)]
          /\ len' = [len EXCEPT ![w] = ReadSize(w)]
          /\ wrote' = wrote /\ pc[w] = "read"
      BY <2>14 DEF ReadPipe, NextLen, At
    <3>5. CASE ReadSize(w) > 0
      <4>1. pc' = pc /\ answer' = answer
        BY <2>14, <3>5 DEF ReadPipe
      <4>. QED
        BY <3>2, <3>3, <3>4, <3>5, <4>1 DEF Inv, Accounting, Pipes
    <3>6. CASE ReadSize(w) = 0
      <4>1. pc' = [pc EXCEPT ![w] = "send"] /\ answer' = [answer EXCEPT ![w] = "raw"]
        BY <2>14, <3>6 DEF ReadPipe, Respond, Goto
      <4>2. pipe[w] = 0
        BY <3>4, <3>6 DEF ReadSize, Accounting, Pipes
      <4>3. answer' \in [Worker -> Statuses] /\ pc' \in [Worker -> PCs]
        BY <4>1 DEF Pipes, Statuses, PCs
      <4>. QED
        BY <3>2, <3>3, <3>4, <3>6, <4>1, <4>2, <4>3 DEF Inv, Accounting, Pipes
    <3>. QED
      BY <3>3, <3>5, <3>6
  <2>15. ASSUME NEW w \in Worker, Send(w) PROVE Inv'
    <3>1. PICK label \in PCs : pc' = [pc EXCEPT ![w] = label]
      BY <2>15 DEF Send, At, Goto, PCs
    <3>2. pc[w] \notin {"none", "wait", "done"} /\ UNCHANGED pipeVars
      BY <2>15 DEF Send, At, Goto
    <3>3. \/ pc'[w] \notin {"wait", "read", "send"} /\ UNCHANGED answer
          \/ \E s \in Statuses \ {"raw"} : pc'[w] = "send" /\ answer' = [answer EXCEPT ![w] = s]
      BY <2>15 DEF Send, At, Goto, Pipes, Statuses
    <3>. QED
      BY <3>1, <3>2, <3>3, OwnStep
  <2>16. ASSUME NEW w \in Worker, SendFails(w) PROVE Inv'
    <3>1. PICK label \in PCs : pc' = [pc EXCEPT ![w] = label]
      BY <2>16 DEF SendFails, At, Goto, PCs
    <3>2. pc[w] \notin {"none", "wait", "done"} /\ UNCHANGED pipeVars
      BY <2>16 DEF SendFails, At, Goto
    <3>3. \/ pc'[w] \notin {"wait", "read", "send"} /\ UNCHANGED answer
          \/ \E s \in Statuses \ {"raw"} : pc'[w] = "send" /\ answer' = [answer EXCEPT ![w] = s]
      BY <2>16 DEF SendFails, At, Goto, Pipes, Statuses
    <3>. QED
      BY <3>1, <3>2, <3>3, OwnStep
  <2>17. CASE Client
    <3>1. UNCHANGED <<pc, answer, pipeVars>>
      BY <2>17 DEF Client, ClientSends, ClientShuts, ClientHangsUp
    <3>. QED
      BY <3>1, QuietStep
  <2>18. CASE Terminate
    <3>1. pc' = [pc EXCEPT ![1] = "done"] /\ UNCHANGED <<answer, pipeVars>>
      BY <2>18 DEF Terminate, Goto
    <3>2. \A v \in Worker : pc'[v] = IF v = 1 THEN "done" ELSE pc[v]
      BY <3>1 DEF Pipes
    <3>3. pc' \in [Worker -> PCs]
      BY <3>1 DEF Pipes, PCs
    <3>4. OneReader'
      BY <3>2 DEF OneReader, Alive, At
    <3>. QED
      BY <3>1, <3>2, <3>3, <3>4 DEF Inv, Accounting, Pipes, pipeVars
  <2>19. CASE UNCHANGED vars
    BY <2>19, QuietStep DEF vars
  <2>. QED
    BY <2>1, <2>2, <2>3, <2>4, <2>5, <2>6, <2>7, <2>8, <2>9, <2>10,
       <2>11, <2>12, <2>13, <2>14, <2>15, <2>16, <2>17, <2>18, <2>19 DEF Next, Session

(* The session starts with its own process alone and empty pipes.            *)
LEMMA InvInitially == Init => Inv
<1>. SUFFICES ASSUME Init PROVE Inv
  OBVIOUS
<1>1. Pipes
  BY SizeAssumption DEF Init, Pipes, PCs, Statuses
<1>2. OneReader
  BY WorkerInt DEF Init, OneReader, Alive
<1>3. Accounting
  BY DEF Init, Accounting
<1>. QED
  BY <1>1, <1>2, <1>3 DEF Inv

(* At any time one process of the chain at most uses the connection.         *)
THEOREM OneProcessReads == Spec => []OneReader
<1>1. Inv => OneReader
  BY DEF Inv
<1>. QED
  BY <1>1, InvInitially, InvInductive, PTL DEF Spec

(* The response made of a pipe is complete, whatever sizes read() returned.   *)
THEOREM CgiResponseComplete == Spec => []CgiComplete
<1>1. Inv => CgiComplete
  BY DEF Inv, Pipes, Accounting, CgiComplete, At
<1>. QED
  BY <1>1, InvInitially, InvInductive, PTL DEF Spec

-----------------------------------------------------------------------------
(* The bytes of the client.                                                  *)

(* The requests as they are on the wire.                                     *)
All == [i \in DOMAIN Requests |-> Bytes(i)]

LEMMA RequestsSeq ==
  /\ Len(Requests) \in Nat /\ DOMAIN Requests = 1 .. Len(Requests)
  /\ \A i \in 1 .. Len(Requests) :
       Requests[i].text \in Seq({"text", "newline"}) /\ Requests[i].text # <<>>
<1>1. Requests \in Seq([text : Seq({"text", "newline"}), asks : {"file", "cgi", "unknown method"}])
  BY RequestAssumption
<1>2. Len(Requests) \in Nat /\ DOMAIN Requests = 1 .. Len(Requests)
  BY <1>1, LenProperties
<1>3. ASSUME NEW i \in 1 .. Len(Requests)
      PROVE  Requests[i].text \in Seq({"text", "newline"})
  <2>1. Requests[i] \in [text : Seq({"text", "newline"}), asks : {"file", "cgi", "unknown method"}]
    BY <1>1, ElementOfSeq
  <2>. QED
    BY <2>1
<1>. QED
  BY <1>2, <1>3, RequestAssumption

LEMMA BytesType ==
  ASSUME NEW i \in 1 .. Len(Requests)
  PROVE  /\ Bytes(i) \in Seq(Byte) /\ Bytes(i) # <<>> /\ Len(Bytes(i)) \in Nat \ {0}
         /\ Bytes(i)[1].req = i
<1> DEFINE text == Requests[i].text
<1>1. text \in Seq({"text", "newline"}) /\ text # <<>> /\ i \in DOMAIN Requests
  BY RequestsSeq
<1> HIDE DEF text
<1>2. Len(text) \in Nat \ {0} /\ DOMAIN text = 1 .. Len(text)
  BY <1>1, LenProperties, EmptySeq
<1>3. Bytes(i) = [j \in 1 .. Len(text) |-> [req |-> i, pos |-> j]]
  BY <1>2 DEF Bytes, text
<1>4. Bytes(i) \in [1 .. Len(text) -> Byte]
  <2>1. \A j \in 1 .. Len(text) : [req |-> i, pos |-> j] \in Byte
    BY <1>1, <1>2 DEF Byte
  <2>. QED
    BY <1>3, <2>1
<1>5. Bytes(i) \in Seq(Byte) /\ Len(Bytes(i)) = Len(text)
  BY <1>2, <1>4, SeqDef
<1>6. Bytes(i)[1] = [req |-> i, pos |-> 1]
  BY <1>2, <1>3
<1>. QED
  BY <1>2, <1>5, <1>6, EmptySeq

LEMMA AllType == All \in Seq(Seq(Byte)) /\ Len(All) = Len(Requests)
<1>1. All \in [1 .. Len(Requests) -> Seq(Byte)]
  BY RequestsSeq, BytesType DEF All
<1>. QED
  BY <1>1, RequestsSeq, SeqDef

LEMMA WireType == Wire \in Seq(Byte) /\ Len(Wire) \in Nat
<1>1. Wire = FlattenSeq(All)
  BY DEF Wire, All
<1>2. Wire \in Seq(Byte)
  BY <1>1, AllType, FlattenType
<1>. QED
  BY <1>2, LenProperties

-----------------------------------------------------------------------------
(* The bytes that have been received, and who holds the last of them.        *)

Received == sent - Len(stream)

StreamTypes ==
  /\ sent \in 0 .. Len(Wire) /\ stream \in Seq(Byte)
  /\ contents \in [Worker -> Seq(Byte)]

(* What the client has sent and nobody has received is the rest of it.       *)
Rest == Received \in Nat /\ stream = Part(Wire, Received, sent)

(* A worker that is about to receive holds the last bytes received, so many  *)
(* that they have filled the buffer a number of times.                       *)
Holds(w) ==
  /\ Len(contents[w]) <= Received
  /\ contents[w] = Part(Wire, Received - Len(contents[w]), Received)
  /\ \E k \in Nat : Len(contents[w]) = k * Buffer

Filled == StreamTypes /\ Rest /\ \A w \in Worker : At(w, "recv") => Holds(w)

(* The others of the chain while one of it is active.                        *)
LEMMA Others ==
  ASSUME Inv, NEW w \in Worker, pc[w] \notin {"none", "wait", "done"},
         NEW v \in Worker, v # w
  PROVE  pc[v] \in {"none", "done"} \/ (v < w /\ pc[v] = "wait")
BY WorkerInt DEF Inv, OneReader, Alive, At

(* A step of the chain that receives nothing and brings nobody back to recv(). *)
LEMMA KeepsStream ==
  ASSUME Filled, UNCHANGED <<sent, stream>>, contents' \in [Worker -> Seq(Byte)],
         \A v \in Worker : pc'[v] = "recv" => pc[v] = "recv" /\ contents'[v] = contents[v]
  PROVE  Filled'
<1>1. StreamTypes' /\ Rest' /\ Received' = Received
  BY DEF Filled, StreamTypes, Rest, Received
<1>2. ASSUME NEW v \in Worker, pc'[v] = "recv" PROVE Holds(v)'
  BY <1>1, <1>2 DEF Filled, Holds, At
<1>. QED
  BY <1>1, <1>2 DEF Filled, At

LEMMA FilledInitially == Init => Filled
<1>. SUFFICES ASSUME Init PROVE Filled
  OBVIOUS
<1>1. sent = 0 /\ stream = <<>> /\ contents = [w \in Worker |-> <<>>]
  BY DEF Init
<1>2. Len(stream) = 0 /\ <<>> \in Seq(Byte) /\ Len(<<>>) = 0
  BY <1>1, EmptySeq
<1>3. Received = 0
  <2>1. sent - Len(stream) = 0 - 0
    BY <1>1, <1>2
  <2>. QED
    BY <2>1 DEF Received
<1>4. StreamTypes
  BY <1>1, <1>2, WireType DEF StreamTypes
<1>5. Part(Wire, 0, 0) = <<>>
  BY PartEmpty
<1>6. Rest
  BY <1>1, <1>3, <1>5 DEF Rest
<1>7. ASSUME NEW w \in Worker PROVE Holds(w)
  <2>1. contents[w] = <<>> /\ Len(contents[w]) = 0
    BY <1>1, <1>2
  <2>2. 0 = 0 * Buffer /\ 0 - 0 = 0
    BY SizeAssumption
  <2>. QED
    BY <1>3, <1>5, <2>1, <2>2 DEF Holds
<1>. QED
  BY <1>4, <1>6, <1>7 DEF Filled

(* recv() moves bytes from the front of the rest to the end of the contents. *)
LEMMA RecvFills ==
  ASSUME Inv, Filled, NEW w \in Worker, Recv(w)
  PROVE  Filled'
<1> DEFINE n == IF Len(stream) < Buffer THEN Len(stream) ELSE Buffer
           c == contents[w]
           r == Received
<1>1. /\ pc[w] = "recv" /\ stream # <<>> /\ sent' = sent
      /\ contents' = [contents EXCEPT ![w] = @ \o SubSeq(stream, 1, n)]
      /\ stream' = SubSeq(stream, n + 1, Len(stream))
      /\ pc' = [pc EXCEPT ![w] = AfterRecv(n)]
  BY DEF Recv, At, Goto, Unread, clientVars
<1>2. /\ Len(stream) \in Nat \ {0} /\ stream \in Seq(Byte) /\ c \in Seq(Byte)
      /\ sent \in Nat /\ sent <= Len(Wire) /\ Len(Wire) \in Nat /\ Buffer \in Nat \ {0}
      /\ contents \in [Worker -> Seq(Byte)] /\ pc \in [Worker -> PCs]
  BY <1>1, EmptySeq, WireType, SizeAssumption DEF Filled, StreamTypes, Inv, Pipes
<1>3. /\ r \in Nat /\ r = sent - Len(stream) /\ stream = Part(Wire, r, sent)
      /\ Len(c) <= r /\ c = Part(Wire, r - Len(c), r) /\ Len(c) \in Nat
  BY <1>1, <1>2, LenProperties DEF Filled, Rest, Holds, Received, At
<1>4. PICK k \in Nat : Len(c) = k * Buffer
  BY <1>1 DEF Filled, Holds, At
<1>5. n \in Nat \ {0} /\ n <= Len(stream) /\ (n < Buffer \/ n = Buffer)
  BY <1>2
<1> HIDE DEF n, c, r
<1>0. /\ r + n \in Nat /\ r - Len(c) \in Nat
      /\ r - Len(c) <= r /\ r <= r + n /\ r + n <= sent /\ r + n <= Len(Wire)
  BY <1>2, <1>3, <1>5
<1>6. SubSeq(stream, 1, n) = Part(Wire, r, r + n)
  <2>1. Part(Part(Wire, r, sent), 0, n) = Part(Wire, r + 0, r + n)
    BY <1>2, <1>3, <1>5, WireType, PartOfPart
  <2>2. Part(stream, 0, n) = SubSeq(stream, 1, n) /\ r + 0 = r
    <3>1. 0 + 1 = 1 /\ r + 0 = r
      BY <1>3
    <3>. QED
      BY <3>1 DEF Part
  <2>. QED
    BY <1>3, <2>1, <2>2
<1>7. stream' = Part(Wire, r + n, sent)
  <2>1. Part(Part(Wire, r, sent), n, Len(stream)) = Part(Wire, r + n, r + Len(stream))
    BY <1>2, <1>3, <1>5, WireType, PartOfPart
  <2>2. r + Len(stream) = sent
    BY <1>2, <1>3
  <2>. QED
    BY <1>1, <1>3, <2>1, <2>2 DEF Part
<1>8. stream' \in Seq(Byte) /\ Len(stream') = sent - (r + n)
  BY <1>0, <1>2, <1>7, WireType, PartType
<1>9. Received' = r + n
  <2>1. sent' - Len(stream') = sent - (sent - (r + n))
    BY <1>1, <1>8
  <2>2. sent - (sent - (r + n)) = r + n
    BY <1>0, <1>2
  <2>. QED
    BY <2>1, <2>2 DEF Received
<1>10. contents'[w] = Part(Wire, r - Len(c), r + n)
  <2>1. contents'[w] = c \o SubSeq(stream, 1, n)
    BY <1>1, <1>2 DEF c
  <2>2. Part(Wire, r - Len(c), r) \o Part(Wire, r, r + n) = Part(Wire, r - Len(c), r + n)
    <3>1. PICK a \in Nat : a = r - Len(c)
      BY <1>0
    <3>2. PICK b \in Nat : b = r + n
      BY <1>0
    <3>3. Part(Wire, a, r) \o Part(Wire, r, b) = Part(Wire, a, b)
      <4>1. r \in Nat /\ a <= r /\ r <= b /\ b <= Len(Wire)
        BY <1>0, <1>3, <3>1, <3>2
      <4>. QED
        BY <4>1, WireType, PartConcat
    <3>. QED
      BY <3>1, <3>2, <3>3
  <2>. QED
    BY <1>3, <1>6, <2>1, <2>2
<1>11. contents'[w] \in Seq(Byte) /\ Len(contents'[w]) = Len(c) + n
  <2>1. r - Len(c) \in Nat /\ r + n \in Nat /\ r - Len(c) <= r + n /\ r + n <= Len(Wire)
    BY <1>2, <1>3, <1>5
  <2>2. (r + n) - (r - Len(c)) = Len(c) + n
    BY <1>2, <1>3, <1>5
  <2>. QED
    BY <1>10, <2>1, <2>2, WireType, PartType
<1>12. \A v \in Worker \ {w} : contents'[v] = contents[v]
  BY <1>1, <1>2
<1>13. StreamTypes'
  <2>1. contents' \in [Worker -> Seq(Byte)]
    BY <1>1, <1>2, <1>11 DEF c
  <2>. QED
    BY <1>1, <1>2, <1>8, <2>1 DEF StreamTypes
<1>14. Rest'
  BY <1>0, <1>1, <1>7, <1>9 DEF Rest
<1>15. ASSUME NEW v \in Worker, pc'[v] = "recv" PROVE Holds(v)'
  <2>1. v = w
    BY <1>1, <1>2, <1>15, Others
  <2>2. n = Buffer
    BY <1>1, <1>2, <1>5, <1>15, <2>1 DEF AfterRecv
  <2>3. Len(contents'[w]) = (k + 1) * Buffer
    BY <1>2, <1>4, <1>11, <2>2
  <2>4. Len(contents'[w]) <= r + n /\ (r + n) - Len(contents'[w]) = r - Len(c)
    BY <1>2, <1>3, <1>5, <1>11
  <2>. QED
    BY <1>9, <1>10, <2>1, <2>3, <2>4 DEF Holds
<1>. QED
  BY <1>13, <1>14, <1>15 DEF Filled, At

(* send() is followed by a recv() with empty contents.                       *)
LEMMA SendFills ==
  ASSUME Inv, Filled, NEW w \in Worker, Send(w)
  PROVE  Filled'
<1>1. /\ pc[w] = "send" /\ UNCHANGED <<sent, stream>>
      /\ contents' = [contents EXCEPT ![w] = <<>>]
      /\ pc' = [pc EXCEPT ![w] = "recv"]
  BY DEF Send, At, Goto, Cleared, clientVars
<1>2. /\ contents \in [Worker -> Seq(Byte)] /\ pc \in [Worker -> PCs]
      /\ <<>> \in Seq(Byte) /\ Len(<<>>) = 0
  BY EmptySeq DEF Filled, StreamTypes, Inv, Pipes
<1>3. StreamTypes' /\ Rest' /\ Received' = Received
  BY <1>1, <1>2 DEF Filled, StreamTypes, Rest, Received
<1>4. ASSUME NEW v \in Worker, pc'[v] = "recv" PROVE Holds(v)'
  <2>1. v = w
    BY <1>1, <1>2, <1>4, Others
  <2>2. contents'[v] = <<>> /\ Len(contents'[v]) = 0
    BY <1>1, <1>2, <2>1
  <2>3. Received \in Nat /\ Received - 0 = Received /\ 0 <= Received
    BY DEF Filled, Rest
  <2>4. Part(Wire, Received, Received) = <<>>
    BY <2>3, PartEmpty
  <2>5. 0 = 0 * Buffer
    BY SizeAssumption
  <2>. QED
    BY <1>3, <2>2, <2>3, <2>4, <2>5 DEF Holds
<1>. QED
  BY <1>3, <1>4 DEF Filled, At

(* The client sends the next bytes of its requests.                          *)
LEMMA ClientFills ==
  ASSUME Filled, NEW n \in Nat, ClientSends(n)
  PROVE  Filled'
<1>1. /\ n > 0 /\ sent + n <= Len(Wire) /\ sent' = sent + n
      /\ stream' = stream \o Part(Wire, sent, sent + n)
      /\ UNCHANGED <<pc, contents>>
  BY DEF ClientSends, Part
<1> DEFINE r == Received
<1>2. /\ sent \in Nat /\ sent <= Len(Wire) /\ Len(Wire) \in Nat /\ r \in Nat
      /\ stream = Part(Wire, r, sent) /\ Len(stream) \in Nat /\ r = sent - Len(stream)
  BY WireType, LenProperties DEF Filled, StreamTypes, Rest, Received
<1> HIDE DEF r
<1>0. sent + n \in Nat /\ r <= sent /\ sent <= sent + n /\ r <= sent + n
  BY <1>1, <1>2
<1>3. stream' = Part(Wire, r, sent + n)
  BY <1>0, <1>1, <1>2, WireType, PartConcat
<1>4. stream' \in Seq(Byte) /\ Len(stream') = (sent + n) - r
  <2>1. PICK b \in Nat : b = sent + n
    BY <1>0
  <2>2. Part(Wire, r, b) \in Seq(Byte) /\ Len(Part(Wire, r, b)) = b - r
    <3>1. r \in Nat /\ r <= b /\ b <= Len(Wire)
      BY <1>0, <1>1, <1>2, <2>1
    <3>. QED
      BY <3>1, WireType, PartType
  <2>. QED
    BY <1>3, <2>1, <2>2
<1>5. Received' = r
  <2>1. sent' - Len(stream') = (sent + n) - ((sent + n) - r)
    BY <1>1, <1>4
  <2>2. (sent + n) - ((sent + n) - r) = r
    BY <1>0, <1>2
  <2>. QED
    BY <2>1, <2>2 DEF Received
<1>6. StreamTypes' /\ Rest'
  <2>1. sent' \in 0 .. Len(Wire) /\ contents' \in [Worker -> Seq(Byte)]
    BY <1>0, <1>1, <1>2 DEF Filled, StreamTypes
  <2>2. Rest'
    BY <1>1, <1>2, <1>3, <1>5 DEF Rest
  <2>. QED
    BY <1>4, <2>1, <2>2 DEF StreamTypes
<1>7. ASSUME NEW v \in Worker, pc'[v] = "recv" PROVE Holds(v)'
  BY <1>1, <1>5, <1>7 DEF Filled, Holds, At, r
<1>. QED
  BY <1>6, <1>7 DEF Filled, At

(* Of the other steps none receives, and none comes back to recv().          *)
LEMMA FilledStep == Inv /\ Filled /\ [Next]_vars => Filled'
<1>1. SUFFICES ASSUME Inv, Filled, [Next]_vars PROVE Filled'
  OBVIOUS
<1>2. contents \in [Worker -> Seq(Byte)] /\ pc \in [Worker -> PCs]
  BY <1>1 DEF Inv, Pipes, Filled, StreamTypes
<1>3. ASSUME UNCHANGED <<sent, stream, contents>>,
             \A v \in Worker : pc'[v] = "recv" => pc[v] = "recv"
      PROVE  Filled'
  BY <1>1, <1>2, <1>3, KeepsStream
<1>4. ASSUME UNCHANGED <<sent, stream, contents>>, NEW w \in Worker, NEW label \in PCs,
             label # "recv", pc' = [pc EXCEPT ![w] = label]
      PROVE  Filled'
  BY <1>2, <1>3, <1>4
<1>5. ASSUME NEW w \in Worker, Recv(w) PROVE Filled'
  BY <1>1, <1>5, RecvFills
<1>6. ASSUME NEW w \in Worker, RecvEnd(w) \/ RecvThrows(w) PROVE Filled'
  <2>1. PICK label \in {"done", "parse"} : pc' = [pc EXCEPT ![w] = label]
    BY <1>6 DEF RecvEnd, RecvThrows, Goto, AfterEnd
  <2>. QED
    BY <1>4, <1>6, <2>1 DEF RecvEnd, RecvThrows, PCs, clientVars
<1>7. ASSUME NEW w \in Worker, Parse(w) PROVE Filled'
  <2>1. PICK label \in {"spin", "send", "print"} : pc' = [pc EXCEPT ![w] = label]
    BY <1>7 DEF Parse, Goto, Respond
  <2>. QED
    BY <1>4, <1>7, <2>1 DEF Parse, PCs, clientVars
<1>8. ASSUME NEW w \in Worker, PrintURI(w) \/ ScriptWrites(w) PROVE Filled'
  <2>1. PICK label \in {"route", "script", "done"} : pc' = [pc EXCEPT ![w] = label]
    BY <1>8 DEF PrintURI, ScriptWrites, Write, Goto
  <2>. QED
    BY <1>4, <1>8, <2>1 DEF PrintURI, ScriptWrites, PCs, clientVars
<1>9. ASSUME NEW w \in Worker, ServeFile(w) \/ RefuseCgi(w) \/ ExecFails(w) PROVE Filled'
  <2>1. pc' = [pc EXCEPT ![w] = "send"]
    BY <1>9 DEF ServeFile, RefuseCgi, ExecFails, Respond, Goto
  <2>. QED
    BY <1>4, <1>9, <2>1 DEF ServeFile, RefuseCgi, ExecFails, PCs, clientVars
<1>10. ASSUME NEW w \in Worker, ForkCgi(w) PROVE Filled'
  <2>1. /\ w + 1 \in Worker /\ UNCHANGED <<sent, stream>>
        /\ pc' = [pc EXCEPT ![w] = "wait", ![w + 1] = "exec"]
        /\ contents' = [contents EXCEPT ![w + 1] = contents[w]]
    BY <1>10 DEF ForkCgi, clientVars
  <2>2. contents' \in [Worker -> Seq(Byte)]
    BY <1>2, <2>1
  <2>3. ASSUME NEW v \in Worker, pc'[v] = "recv"
        PROVE  pc[v] = "recv" /\ contents'[v] = contents[v]
    BY <1>2, <2>1, <2>3
  <2>. QED
    BY <1>1, <2>1, <2>2, <2>3, KeepsStream
<1>11. ASSUME NEW w \in Worker, Exec(w) \/ ScriptExits(w) \/ SendFails(w) PROVE Filled'
  <2>1. PICK label \in {"script", "done"} : pc' = [pc EXCEPT ![w] = label]
    BY <1>11 DEF Exec, ScriptExits, SendFails, Goto
  <2>. QED
    BY <1>4, <1>11, <2>1 DEF Exec, ScriptExits, SendFails, PCs, clientVars
<1>12. ASSUME NEW w \in Worker, WaitCgi(w) PROVE Filled'
  <2>1. pc' = [pc EXCEPT ![w] = "read", ![w + 1] = "none"] /\ UNCHANGED <<sent, stream, contents>>
    BY <1>12 DEF WaitCgi, clientVars
  <2>2. \A v \in Worker : pc'[v] = "recv" => pc[v] = "recv"
    BY <1>2, <2>1
  <2>. QED
    BY <1>3, <2>1, <2>2
<1>13. ASSUME NEW w \in Worker, ReadPipe(w) PROVE Filled'
  <2>1. UNCHANGED <<sent, stream, contents>> /\ (pc' = pc \/ pc' = [pc EXCEPT ![w] = "send"])
    BY <1>13 DEF ReadPipe, Respond, Goto, clientVars
  <2>. QED
    BY <1>3, <1>4, <2>1 DEF PCs
<1>14. ASSUME NEW w \in Worker, Send(w) PROVE Filled'
  BY <1>1, <1>14, SendFills
<1>15. CASE Client
  <2>1. CASE \E n \in 1 .. Len(Wire) : ClientSends(n)
    BY <1>1, <2>1, ClientFills, WireType
  <2>2. CASE ClientShuts \/ ClientHangsUp
    BY <1>3, <2>2 DEF ClientShuts, ClientHangsUp
  <2>. QED
    BY <1>15, <2>1, <2>2 DEF Client
<1>16. CASE Terminate
  <2>1. pc' = [pc EXCEPT ![1] = "done"] /\ UNCHANGED <<sent, stream, contents>>
    BY <1>16 DEF Terminate, Goto, clientVars
  <2>2. \A v \in Worker : pc'[v] = "recv" => pc[v] = "recv"
    BY <1>2, <2>1
  <2>. QED
    BY <1>3, <2>1, <2>2
<1>17. CASE UNCHANGED vars
  BY <1>3, <1>17 DEF vars, clientVars
<1>. QED
  BY <1>1, <1>5, <1>6, <1>7, <1>8, <1>9, <1>10, <1>11, <1>12, <1>13, <1>14,
     <1>15, <1>16, <1>17 DEF Next, Session

LEMMA FilledAlways == Spec => []Filled
<1>. QED
  BY InvInitially, InvInductive, FilledInitially, FilledStep, PTL DEF Spec

(* The process that uses the connection holds the bytes right before those    *)
(* still to be received: none is lost between the processes, none read twice. *)
THEOREM NothingLostOnTheWay == Spec => []InStep
<1>1. ASSUME Filled, NEW w \in Worker, At(w, "recv")
      PROVE  IsSuffix(contents[w] \o stream, SubSeq(Wire, 1, sent))
  <2>1. /\ sent \in Nat /\ sent <= Len(Wire) /\ Len(stream) \in Nat /\ Received \in Nat
        /\ Len(contents[w]) \in Nat /\ Len(contents[w]) <= Received /\ Received <= sent
    <3>1. sent \in Nat /\ sent <= Len(Wire)
      BY <1>1, WireType DEF Filled, StreamTypes
    <3>2. Len(stream) \in Nat /\ Len(contents[w]) \in Nat
      BY <1>1, LenProperties DEF Filled, StreamTypes
    <3>3. Received \in Nat /\ Len(contents[w]) <= Received
      BY <1>1 DEF Filled, Rest, Holds
    <3>4. Received <= sent
      BY <3>1, <3>2 DEF Received
    <3>. QED
      BY <3>1, <3>2, <3>3, <3>4
  <2> DEFINE r == Received
  <2> HIDE DEF r
  <2>2. PICK a \in Nat : a = r - Len(contents[w])
    <3>1. r - Len(contents[w]) \in Nat
      BY <2>1 DEF r
    <3>. QED
      BY <3>1
  <2>3. contents[w] = Part(Wire, a, r) /\ stream = Part(Wire, r, sent)
    BY <1>1, <2>2 DEF Filled, Rest, Holds, r
  <2>4. a <= r /\ a <= sent
    BY <2>1, <2>2 DEF r
  <2>5. contents[w] \o stream = Part(Wire, a, sent)
    <3>1. r \in Nat /\ r <= sent /\ sent \in Nat /\ sent <= Len(Wire)
      BY <2>1 DEF r
    <3>2. Part(Wire, a, r) \o Part(Wire, r, sent) = Part(Wire, a, sent)
      BY <2>4, <3>1, WireType, PartConcat
    <3>. QED
      BY <2>3, <3>2
  <2>6. IsSuffix(Part(Wire, a, sent), Part(Wire, 0, sent))
    BY <2>1, <2>4, WireType, PartSuffix
  <2>7. 0 + 1 = 1
    OBVIOUS
  <2>. QED
    BY <2>5, <2>6, <2>7 DEF Part
<1>2. Filled => InStep
  BY <1>1 DEF InStep
<1>. QED
  BY <1>2, FilledAlways, PTL

(* recv() blocks in the middle of a request only if what came has filled the  *)
(* buffer exactly each time.                                                 *)
THEOREM StallsOnFullBuffers == Spec => []StallsOnlyOnFullBuffers
<1>1. ASSUME Filled, NEW w \in Worker, At(w, "recv")
      PROVE  Len(contents[w]) % Buffer = 0
  <2>1. PICK k \in Nat : Len(contents[w]) = k * Buffer
    BY <1>1 DEF Filled, Holds
  <2>2. (k * Buffer) % Buffer = 0
    BY SizeAssumption
  <2>. QED
    BY <2>1, <2>2
<1>2. Filled => StallsOnlyOnFullBuffers
  BY <1>1 DEF StallsOnlyOnFullBuffers
<1>. QED
  BY <1>2, FilledAlways, PTL

-----------------------------------------------------------------------------
(* Where the requests end on the wire.                                       *)

LEMMA EndsRuns ==
  ASSUME NEW m \in 0 .. Len(Requests)
  PROVE  Ends(m) = Len(Runs(All)[m])
<1>1. m \in Nat /\ m <= Len(All) /\ \A j \in 1 .. m : j \in DOMAIN Requests
  BY RequestsSeq, AllType
<1>2. /\ Part(All, 0, m) \in Seq(Seq(Byte)) /\ Len(Part(All, 0, m)) = m - 0
      /\ \A j \in 1 .. m - 0 : Part(All, 0, m)[j] = All[0 + j]
  BY <1>1, AllType, PartType
<1>3. ASSUME NEW j \in 1 .. m PROVE Part(All, 0, m)[j] = Bytes(j)
  <2>1. j \in 1 .. m - 0 /\ 0 + j = j
    BY <1>1
  <2>2. Part(All, 0, m)[j] = All[j]
    BY <1>2, <2>1
  <2>. QED
    BY <1>1, <2>2 DEF All
<1> DEFINE front == Part(All, 0, m)
<1>4. front \in [1 .. m -> Seq(Byte)]
  <2>1. m - 0 = m
    BY <1>1
  <2>. QED
    BY <1>2, <2>1, LenProperties
<1>5. front = [j \in 1 .. m |-> Bytes(j)]
  <2>1. \A j \in 1 .. m : front[j] = Bytes(j)
    BY <1>3
  <2> HIDE DEF front
  <2>. QED
    BY <1>4, <2>1
<1>6. front = SubSeq(All, 1, m)
  <2>1. 0 + 1 = 1
    OBVIOUS
  <2>. QED
    BY <2>1 DEF Part
<1>7. Runs(All)[m] = FlattenSeq(SubSeq(All, 1, m))
  BY <1>1, AllType DEF Runs
<1>. QED
  BY <1>5, <1>6, <1>7 DEF Ends

(* The next request is right behind the m before it.                         *)
LEMMA NextOnWire ==
  ASSUME NEW m \in 0 .. Len(Requests), m < Len(Requests)
  PROVE  /\ Ends(m) \in Nat /\ Ends(m + 1) = Ends(m) + Len(Bytes(m + 1))
         /\ Ends(m + 1) <= Len(Wire)
         /\ Part(Wire, Ends(m), Ends(m + 1)) = Bytes(m + 1)
         /\ Wire[Ends(m) + 1].req = m + 1
<1>1. /\ m \in Nat /\ m + 1 \in 1 .. Len(Requests) /\ m + 1 \in 1 .. Len(All)
      /\ m + 1 \in 0 .. Len(Requests) /\ (m + 1) - 1 = m /\ m + 1 \in DOMAIN Requests
  BY RequestsSeq, AllType
<1>2. Within(FlattenSeq(All), All[m + 1], Len(Runs(All)[(m + 1) - 1]), Len(Runs(All)[m + 1]))
  BY <1>1, AllType, RunsAt
<1>3. FlattenSeq(All) = Wire /\ All[m + 1] = Bytes(m + 1)
  BY <1>1 DEF All, Wire
<1>4. Within(Wire, Bytes(m + 1), Ends(m), Ends(m + 1))
  BY <1>1, <1>2, <1>3, EndsRuns
<1>5. /\ Ends(m) \in Nat /\ Ends(m + 1) = Ends(m) + Len(Bytes(m + 1))
      /\ Ends(m + 1) <= Len(Wire)
      /\ Part(Wire, Ends(m), Ends(m + 1)) = Bytes(m + 1)
  BY <1>4 DEF Within, Part
<1>6. Len(Bytes(m + 1)) \in Nat \ {0} /\ Bytes(m + 1)[1].req = m + 1
  BY <1>1, BytesType
<1>7. Part(Wire, Ends(m), Ends(m + 1))[1] = Wire[Ends(m) + 1]
  <2>1. PICK a \in Nat : a = Ends(m)
    BY <1>5
  <2>2. PICK b \in Nat : b = Ends(m + 1)
    BY <1>5, <1>6
  <2>3. a <= b /\ b <= Len(Wire) /\ 1 \in 1 .. b - a
    BY <1>5, <1>6, <2>1, <2>2
  <2>4. Part(Wire, a, b)[1] = Wire[a + 1]
    BY <2>3, WireType, PartType
  <2>. QED
    BY <2>1, <2>2, <2>4
<1>. QED
  BY <1>5, <1>6, <1>7

LEMMA EndsLast == Ends(0) = 0 /\ Ends(Len(Requests)) = Len(Wire)
<1>1. 0 \in 0 .. Len(Requests) /\ Len(Requests) \in 0 .. Len(Requests)
  BY RequestsSeq
<1>2. Ends(0) = Len(Runs(All)[0]) /\ Ends(Len(Requests)) = Len(Runs(All)[Len(Requests)])
  BY <1>1, EndsRuns
<1>3. Runs(All)[0] = <<>> /\ Runs(All)[Len(All)] = FlattenSeq(All)
  BY AllType, RunsProperties
<1>4. FlattenSeq(All) = Wire
  BY DEF All, Wire
<1>. QED
  BY <1>2, <1>3, <1>4, AllType, EmptySeq

-----------------------------------------------------------------------------
(* A client that sends a request in one piece, and only after the reply to   *)
(* the one before.                                                           *)

(* The m-th request has been received and is not answered.                   *)
Answering(m) == stream = <<>> /\ Len(replies) = m - 1

(* Where worker w is when m requests have been sent.                         *)
Stage(w, m) ==
  /\ At(w, "recv") =>
       \/ m > 0 /\ contents[w] \o stream = Bytes(m) /\ Len(replies) = m - 1
       \/ contents[w] = <<>> /\ stream = <<>> /\ (Len(replies) = m \/ shut)
  /\ At(w, "parse") => m > 0 /\ contents[w] = Bytes(m)
  /\ pc[w] \in {"parse", "spin", "print", "route", "exec", "script"} => Answering(m)
  /\ pc[w] \in {"read", "send"} \/ (At(w, "wait") /\ At(w + 1, "done")) =>
       Answering(m) \/ (stream = <<>> /\ shut)
  /\ At(w, "wait") => w + 1 \in Worker

Orderly(m) ==
  /\ m \in 0 .. Len(Requests) /\ sent = Ends(m)
  /\ \A w \in Worker : Stage(w, m)

Ordered ==
  /\ \E S : replies \in Seq(S)
  /\ PingPong /\ ~gone => \E m \in 0 .. Len(Requests) : Orderly(m)

LEMMA RepliesLen == Ordered => Len(replies) \in Nat
BY LenProperties DEF Ordered

(* While w is active the workers before it wait, but for the first.          *)
LEMMA Before ==
  ASSUME Inv, NEW w \in Worker, pc[w] \notin {"none", "wait", "done"},
         NEW v \in Worker, v # w
  PROVE  \/ pc[v] \in {"none", "done"}
         \/ /\ v < w /\ pc[v] = "wait"
            /\ v + 1 \in Worker => pc[v + 1] = (IF v + 1 = w THEN pc[w] ELSE "wait")
<1>1. CASE v < w /\ pc[v] = "wait"
  <2>1. SUFFICES ASSUME v + 1 \in Worker, v + 1 # w PROVE pc[v + 1] = "wait"
    BY <1>1
  <2>2. v + 1 < w /\ v + 1 # 1
    BY <1>1, <2>1, WorkerInt
  <2>. QED
    BY <2>1, <2>2 DEF Inv, OneReader, Alive, At
<1>. QED
  BY <1>1, Others

(* The others of the chain are where they may be whatever an active worker    *)
(* does that goes on.                                                        *)
LEMMA Bystanders ==
  ASSUME Inv, NEW w \in Worker, pc[w] \notin {"none", "wait", "done"}, NEW k,
         NEW label \in PCs \ {"done"}, pc' = [pc EXCEPT ![w] = label],
         NEW v \in Worker, v # w, Stage(v, k), NEW m
  PROVE  Stage(v, m)'
<1>1. \A u \in Worker : pc'[u] = IF u = w THEN label ELSE pc[u]
  BY DEF Inv, Pipes
<1>2. CASE pc[v] \in {"none", "done"}
  BY <1>1, <1>2 DEF Stage, At
<1>3. CASE v < w /\ pc[v] = "wait"
  <2>1. v + 1 \in Worker
    BY <1>3 DEF Stage, At
  <2>2. pc'[v] = "wait" /\ pc'[v + 1] # "done"
    BY <1>1, <1>3, <2>1, Before
  <2>. QED
    BY <2>1, <2>2 DEF Stage, At
<1>. QED
  BY <1>2, <1>3, Before

(* A worker that ends leaves the connection as its parent may take it up.     *)
LEMMA Leaving ==
  ASSUME Inv, NEW w \in Worker, pc[w] \notin {"none", "wait", "done"},
         NEW m, \A v \in Worker : Stage(v, m), Answering(m) \/ (stream = <<>> /\ shut),
         UNCHANGED <<stream, replies, shut>>, pc' = [pc EXCEPT ![w] = "done"]
  PROVE  \A v \in Worker : Stage(v, m)'
<1>1. \A u \in Worker : pc'[u] = IF u = w THEN "done" ELSE pc[u]
  BY DEF Inv, Pipes
<1>2. (Answering(m) \/ (stream = <<>> /\ shut))'
  BY DEF Answering
<1>. SUFFICES ASSUME NEW v \in Worker PROVE Stage(v, m)'
  OBVIOUS
<1>3. CASE pc'[v] \in {"none", "done"}
  BY <1>3 DEF Stage, At
<1>4. CASE v # w /\ pc[v] = "wait"
  <2>1. v + 1 \in Worker /\ pc'[v] = "wait"
    BY <1>1, <1>4 DEF Stage, At
  <2>. QED
    BY <1>2, <2>1 DEF Stage, At
<1>. QED
  BY <1>1, <1>3, <1>4, Before

(* A worker that goes on while the client and the replies stay as they are.   *)
LEMMA GoesOn ==
  ASSUME Inv, NEW w \in Worker, pc[w] \notin {"none", "wait", "done"},
         NEW m, \A v \in Worker : Stage(v, m), NEW label \in PCs \ {"done"},
         pc' = [pc EXCEPT ![w] = label], Stage(w, m)'
  PROVE  \A v \in Worker : Stage(v, m)'
BY Bystanders

(* recv() takes the request from the stream piece by piece.                  *)
LEMMA RecvStage ==
  ASSUME Inv, Filled, NEW m \in Nat, NEW w \in Worker, Stage(w, m), Recv(w)
  PROVE  Stage(w, m)'
<1> DEFINE n == IF Len(stream) < Buffer THEN Len(stream) ELSE Buffer
           c == contents[w]
<1>1. /\ pc[w] = "recv" /\ stream # <<>> /\ UNCHANGED <<shut, replies>>
      /\ contents' = [contents EXCEPT ![w] = @ \o SubSeq(stream, 1, n)]
      /\ stream' = SubSeq(stream, n + 1, Len(stream))
      /\ pc' = [pc EXCEPT ![w] = AfterRecv(n)]
  BY DEF Recv, At, Goto, Unread, clientVars
<1>2. /\ Len(stream) \in Nat /\ stream \in Seq(Byte) /\ c \in Seq(Byte) /\ Buffer \in Nat \ {0}
      /\ contents \in [Worker -> Seq(Byte)] /\ pc \in [Worker -> PCs]
  BY <1>1, LenProperties, SizeAssumption DEF Filled, StreamTypes, Inv, Pipes
<1>3. m > 0 /\ c \o stream = Bytes(m) /\ Len(replies) = m - 1
  BY <1>1 DEF Stage, At
<1>4. n \in Nat /\ n <= Len(stream) /\ (n < Buffer => n = Len(stream))
  BY <1>2
<1>5. pc'[w] = (IF n < Buffer THEN "parse" ELSE "recv") /\ contents'[w] = c \o SubSeq(stream, 1, n)
  BY <1>1, <1>2 DEF AfterRecv
<1> HIDE DEF n, c
<1>6. SubSeq(stream, 1, n) = Part(stream, 0, n) /\ stream' = Part(stream, n, Len(stream))
  <2>1. 0 + 1 = 1
    OBVIOUS
  <2>. QED
    BY <1>1, <2>1 DEF Part
<1>7. /\ Part(stream, 0, n) \in Seq(Byte) /\ Part(stream, n, Len(stream)) \in Seq(Byte)
      /\ Part(stream, 0, n) \o Part(stream, n, Len(stream)) = stream
  <2>1. 0 <= n
    BY <1>4
  <2>2. Part(stream, 0, n) \in Seq(Byte) /\ Part(stream, n, Len(stream)) \in Seq(Byte)
    BY <1>2, <1>4, <2>1, PartType
  <2>3. Part(stream, 0, n) \o Part(stream, n, Len(stream)) = Part(stream, 0, Len(stream))
    BY <1>2, <1>4, <2>1, PartConcat
  <2>. QED
    BY <1>2, <2>2, <2>3, PartFull
<1>8. contents'[w] \o stream' = Bytes(m)
  <2>1. \A p, q, x \in Seq(Byte) : (p \o q) \o x = p \o (q \o x)
    BY ConcatAssociative
  <2>2. (c \o Part(stream, 0, n)) \o Part(stream, n, Len(stream))
          = c \o (Part(stream, 0, n) \o Part(stream, n, Len(stream)))
    BY <1>2, <1>7, <2>1, Zenon
  <2>3. contents'[w] = c \o Part(stream, 0, n)
    BY <1>5, <1>6, Zenon
  <2>. QED
    BY <1>3, <1>6, <1>7, <2>2, <2>3, Zenon
<1>9. CASE n < Buffer
  <2>1. stream' = <<>>
    BY <1>2, <1>4, <1>6, <1>9, PartEmpty
  <2>2. contents'[w] \in Seq(Byte)
    <3>1. \A p, q \in Seq(Byte) : p \o q \in Seq(Byte)
      BY ConcatProperties
    <3>2. c \o Part(stream, 0, n) \in Seq(Byte)
      BY <1>2, <1>7, <3>1, Zenon
    <3>. QED
      BY <1>5, <1>6, <3>2, Zenon
  <2>3. contents'[w] = Bytes(m)
    BY <1>8, <2>1, <2>2, ConcatEmptySeq
  <2>4. pc'[w] = "parse"
    BY <1>5, <1>9
  <2>. QED
    BY <1>1, <1>3, <2>1, <2>3, <2>4 DEF Stage, At, Answering
<1>10. CASE ~(n < Buffer)
  <2>1. pc'[w] = "recv"
    BY <1>5, <1>10
  <2>. QED
    BY <1>1, <1>3, <1>8, <2>1 DEF Stage, At
<1>. QED
  BY <1>9, <1>10

(* The next request meets a worker that has answered the one before.         *)
LEMMA ClientStage ==
  ASSUME Inv, Filled, Ordered, PingPong, ~gone, NEW m \in 0 .. Len(Requests), Orderly(m),
         NEW n \in Nat, ClientSends(n)
  PROVE  m + 1 \in 0 .. Len(Requests) /\ Orderly(m + 1)'
<1>1. /\ ~shut /\ n > 0 /\ sent + n <= Len(Wire) /\ sent' = sent + n
      /\ n = Len(Bytes(NextRequest)) /\ Len(replies) >= NextRequest - 1
      /\ stream' = stream \o SubSeq(Wire, sent + 1, sent + n)
      /\ UNCHANGED <<shut, replies, pc, contents>>
  BY DEF ClientSends
<1>2. m \in Nat /\ Len(Requests) \in Nat /\ Len(replies) \in Nat /\ sent = Ends(m)
  BY RequestsSeq, RepliesLen DEF Orderly
<1>3. sent \in Nat /\ Len(Wire) \in Nat
  BY WireType DEF Filled, StreamTypes
<1>4. m < Len(Requests)
  BY <1>1, <1>2, <1>3, EndsLast
<1>5. NextRequest = m + 1 /\ sent + n = Ends(m + 1)
  BY <1>1, <1>2, <1>4, NextOnWire DEF NextRequest
<1>6. stream' = stream \o Bytes(m + 1)
  BY <1>1, <1>2, <1>4, <1>5, NextOnWire DEF Part
<1>7. Len(replies) >= m
  BY <1>1, <1>2, <1>5
<1>8. m + 1 \in 1 .. Len(Requests) /\ (m + 1) - 1 = m /\ m + 1 > 0
  BY <1>2, <1>4
<1>9. Bytes(m + 1) \in Seq(Byte)
  BY <1>8, BytesType
<1>10. ASSUME NEW w \in Worker PROVE Stage(w, m + 1)'
  <2>1. Stage(w, m)
    BY DEF Orderly
  <2>2. Len(replies) # m - 1
    BY <1>2, <1>7
  <2>3. pc[w] \notin {"parse", "spin", "print", "route", "exec", "script", "read", "send"}
    BY <1>1, <2>1, <2>2 DEF Stage, Answering
  <2>4. ~(pc[w] = "wait" /\ pc[w + 1] = "done")
    BY <1>1, <2>1, <2>2 DEF Stage, Answering, At
  <2>5. pc[w] = "recv" => contents[w] = <<>> /\ stream = <<>> /\ Len(replies) = m
    BY <1>1, <2>1, <2>2 DEF Stage, At
  <2>6. pc'[w] = "recv" => contents'[w] \o stream' = Bytes(m + 1) /\ Len(replies') = (m + 1) - 1
    BY <1>1, <1>6, <1>8, <1>9, <2>5, ConcatEmptySeq
  <2>. QED
    BY <1>1, <1>8, <2>1, <2>3, <2>4, <2>6 DEF Stage, At
<1>. QED
  BY <1>1, <1>5, <1>8, <1>10 DEF Orderly

LEMMA OrderedInitially == Init => Ordered
<1>. SUFFICES ASSUME Init PROVE Ordered
  OBVIOUS
<1>1. replies \in Seq({}) /\ Len(replies) = 0
  BY EmptySeq DEF Init
<1>2. 0 \in 0 .. Len(Requests) /\ sent = Ends(0)
  BY RequestsSeq, EndsLast DEF Init
<1>3. ASSUME NEW w \in Worker PROVE Stage(w, 0)
  <2>1. pc[w] \in {"recv", "none"} /\ contents[w] = <<>> /\ stream = <<>>
    BY DEF Init
  <2>. QED
    BY <1>1, <2>1 DEF Stage, At
<1>. QED
  BY <1>1, <1>2, <1>3 DEF Ordered, Orderly

(* Every step of a worker leaves the requests in order.                      *)
LEMMA WorkerOrderly ==
  ASSUME Inv, Filled, Ordered, ~gone, NEW m \in 0 .. Len(Requests), Orderly(m),
         NEW w \in Worker, Session(w)
  PROVE  Orderly(m)'
<1>1. UNCHANGED <<sent, shut, gone>>
  BY DEF Session, Recv, RecvEnd, RecvThrows, Parse, PrintURI, ServeFile, RefuseCgi, ForkCgi,
         Exec, ExecFails, ScriptWrites, ScriptExits, WaitCgi, ReadPipe, Send, SendFails, clientVars
<1>2. /\ m \in Nat /\ m \in 0 .. Len(Requests) /\ sent = Ends(m) /\ pc \in [Worker -> PCs]
      /\ \A v \in Worker : Stage(v, m)
  BY RequestsSeq DEF Orderly, Inv, Pipes
<1>3. SUFFICES \A v \in Worker : Stage(v, m)'
  BY <1>1, <1>2 DEF Orderly
<1>4. ASSUME Answering(m), UNCHANGED <<stream, replies>>,
             pc[w] \notin {"none", "wait", "done"}, NEW label \in PCs,
             label \notin {"recv", "parse", "wait"}, pc' = [pc EXCEPT ![w] = label]
      PROVE  \A v \in Worker : Stage(v, m)'
  <2>1. CASE label = "done"
    BY <1>1, <1>2, <1>4, <2>1, Leaving
  <2>2. CASE label # "done"
    <3>1. pc'[w] = label
      BY <1>2, <1>4
    <3>2. Stage(w, m)'
      BY <1>4, <3>1 DEF Stage, At, Answering
    <3>. QED
      BY <1>2, <1>4, <2>2, <3>2, GoesOn
  <2>. QED
    BY <2>1, <2>2
<1>5. CASE Recv(w)
  <2>1. Stage(w, m)'
    BY <1>2, <1>5, RecvStage
  <2>2. PICK label \in {"parse", "recv"} : pc' = [pc EXCEPT ![w] = label]
    BY <1>5 DEF Recv, Goto, AfterRecv
  <2>3. pc[w] = "recv" /\ label \in PCs \ {"done"}
    BY <1>5 DEF Recv, At, PCs
  <2>. QED
    BY <1>2, <2>1, <2>2, <2>3, GoesOn
<1>6. CASE RecvEnd(w)
  <2>1. /\ pc[w] = "recv" /\ stream = <<>> /\ shut /\ UNCHANGED <<stream, replies, contents>>
        /\ pc' = [pc EXCEPT ![w] = AfterEnd(w)]
    BY <1>6 DEF RecvEnd, At, Goto
  <2>2. CASE contents[w] = <<>>
    BY <1>1, <1>2, <2>1, <2>2, Leaving DEF AfterEnd
  <2>3. CASE contents[w] # <<>>
    <3>1. m > 0 /\ contents[w] \o stream = Bytes(m) /\ Len(replies) = m - 1
      BY <1>2, <2>1, <2>3 DEF Stage, At
    <3>2. contents[w] \in Seq(Byte)
      BY DEF Filled, StreamTypes
    <3>3. contents[w] = Bytes(m)
      BY <2>1, <3>1, <3>2, ConcatEmptySeq
    <3>4. pc' = [pc EXCEPT ![w] = "parse"] /\ pc'[w] = "parse"
      BY <1>2, <2>1, <2>3 DEF AfterEnd
    <3>5. Stage(w, m)'
      BY <2>1, <3>1, <3>3, <3>4 DEF Stage, At, Answering
    <3>. QED
      BY <1>2, <2>1, <3>4, <3>5, GoesOn DEF PCs
  <2>. QED
    BY <2>2, <2>3
<1>7. CASE RecvThrows(w) \/ SendFails(w)
  BY <1>7 DEF RecvThrows, SendFails
<1>8. CASE Parse(w)
  <2>1. PICK label \in {"spin", "send", "print"} : pc' = [pc EXCEPT ![w] = label]
    BY <1>8 DEF Parse, Goto, Respond
  <2>2. pc[w] = "parse" /\ UNCHANGED <<stream, replies>>
    BY <1>8 DEF Parse, At
  <2>. QED
    BY <1>2, <1>4, <2>1, <2>2 DEF Stage, PCs
<1>9. CASE PrintURI(w) \/ ScriptWrites(w)
  <2>1. PICK label \in {"route", "script", "done"} : pc' = [pc EXCEPT ![w] = label]
    BY <1>9 DEF PrintURI, ScriptWrites, Write, Goto
  <2>2. pc[w] \in {"print", "script"} /\ UNCHANGED <<stream, replies>>
    BY <1>9 DEF PrintURI, ScriptWrites, At
  <2>. QED
    BY <1>2, <1>4, <2>1, <2>2 DEF Stage, PCs
<1>10. CASE ServeFile(w) \/ RefuseCgi(w) \/ ExecFails(w)
  <2>1. pc' = [pc EXCEPT ![w] = "send"]
    BY <1>10 DEF ServeFile, RefuseCgi, ExecFails, Respond, Goto
  <2>2. pc[w] \in {"route", "exec"} /\ UNCHANGED <<stream, replies>>
    BY <1>10 DEF ServeFile, RefuseCgi, ExecFails, At
  <2>. QED
    BY <1>2, <1>4, <2>1, <2>2 DEF Stage, PCs
<1>11. CASE ForkCgi(w)
  <2>1. /\ pc[w] = "route" /\ w + 1 \in Worker /\ UNCHANGED <<stream, replies>>
        /\ pc' = [pc EXCEPT ![w] = "wait", ![w + 1] = "exec"]
    BY <1>11 DEF ForkCgi, At
  <2>2. \A v \in Worker : pc'[v] = IF v = w + 1 THEN "exec" ELSE IF v = w THEN "wait" ELSE pc[v]
    BY <1>2, <2>1, WorkerInt
  <2>3. Answering(m) /\ Answering(m)'
    BY <1>2, <2>1 DEF Stage, Answering
  <2>. TAKE v \in Worker
  <2>4. CASE v = w
    <3>1. pc'[w] = "wait" /\ pc'[w + 1] = "exec"
      <4>1. w # w + 1
        BY WorkerInt
      <4>. QED
        BY <2>1, <2>2, <4>1
    <3>. QED
      BY <2>1, <2>4, <3>1 DEF Stage, At
  <2>5. CASE v = w + 1
    BY <2>2, <2>3, <2>5 DEF Stage, At
  <2>6. CASE v # w /\ v # w + 1
    <3>1. pc'[v] = pc[v]
      BY <2>2, <2>6
    <3>2. CASE pc[v] \in {"none", "done"}
      BY <3>1, <3>2 DEF Stage, At
    <3>3. CASE v < w /\ pc[v] = "wait"
      <4>1. v + 1 \in Worker
        BY <1>2, <3>3 DEF Stage, At
      <4>2. pc'[v + 1] # "done"
        <5>1. pc[v + 1] \in {"route", "wait"}
          BY <2>1, <2>6, <3>3, <4>1, Before
        <5>. QED
          BY <2>2, <4>1, <5>1
      <4>. QED
        BY <3>1, <3>3, <4>1, <4>2 DEF Stage, At
    <3>. QED
      BY <2>1, <2>6, <3>2, <3>3, Before
  <2>. QED
    BY <2>4, <2>5, <2>6
<1>12. CASE Exec(w) \/ ScriptExits(w)
  <2>1. PICK label \in {"script", "done"} : pc' = [pc EXCEPT ![w] = label]
    BY <1>12 DEF Exec, ScriptExits, Goto
  <2>2. pc[w] \in {"exec", "script"} /\ UNCHANGED <<stream, replies>>
    BY <1>12 DEF Exec, ScriptExits, At
  <2>. QED
    BY <1>2, <1>4, <2>1, <2>2 DEF Stage, PCs
<1>13. CASE WaitCgi(w)
  <2>1. /\ pc[w] = "wait" /\ pc[w + 1] = "done" /\ UNCHANGED <<stream, replies>>
        /\ pc' = [pc EXCEPT ![w] = "read", ![w + 1] = "none"]
    BY <1>13 DEF WaitCgi, ChildGone, At
  <2>2. w + 1 \in Worker /\ (Answering(m) \/ (stream = <<>> /\ shut))
    BY <1>2, <2>1 DEF Stage, At
  <2>3. \A v \in Worker : pc'[v] = IF v = w + 1 THEN "none" ELSE IF v = w THEN "read" ELSE pc[v]
    BY <1>2, <2>1, WorkerInt
  <2>4. (Answering(m) \/ (stream = <<>> /\ shut))'
    BY <1>1, <2>1, <2>2 DEF Answering
  <2>. TAKE v \in Worker
  <2>5. CASE v = w
    BY <2>3, <2>4, <2>5, WorkerInt DEF Stage, At
  <2>6. CASE v = w + 1
    BY <2>3, <2>6 DEF Stage, At
  <2>7. CASE v # w /\ v # w + 1
    <3>1. pc'[v] = pc[v]
      BY <2>3, <2>7
    <3>2. CASE pc[v] \in {"none", "done"}
      BY <3>1, <3>2 DEF Stage, At
    <3>3. CASE pc[v] = "wait"
      <4>1. v + 1 \in Worker
        BY <1>2, <3>3 DEF Stage, At
      <4>2. pc'[v + 1] = "done" => pc[v + 1] = "done"
        BY <2>3, <4>1
      <4>3. pc[v + 1] = "done" => (Answering(m) \/ (stream = <<>> /\ shut))
        BY <1>2, <3>3 DEF Stage, At
      <4>. QED
        BY <2>4, <3>1, <3>3, <4>1, <4>2, <4>3 DEF Stage, At
    <3>4. CASE Alive(v) /\ pc[v] # "wait"
      <4>1. ~(v < w)
        BY <2>1, <3>4 DEF Inv, OneReader, Alive, At
      <4>2. w + 1 < v
        BY <2>7, <4>1, WorkerInt
      <4>. QED
        BY <2>1, <2>2, <3>4, <4>2, WorkerInt DEF Inv, OneReader, Alive, At
    <3>. QED
      BY <3>2, <3>3, <3>4 DEF Alive
  <2>. QED
    BY <2>5, <2>6, <2>7
<1>14. CASE ReadPipe(w)
  <2>1. pc[w] = "read" /\ UNCHANGED <<stream, replies>> /\ (pc' = pc \/ pc' = [pc EXCEPT ![w] = "send"])
    BY <1>14 DEF ReadPipe, Respond, Goto, At
  <2>2. Answering(m) \/ (stream = <<>> /\ shut)
    BY <1>2, <2>1 DEF Stage
  <2>3. (Answering(m) \/ (stream = <<>> /\ shut))'
    BY <1>1, <2>1, <2>2 DEF Answering
  <2>4. PICK label \in {"read", "send"} : pc' = [pc EXCEPT ![w] = label]
    BY <1>2, <2>1
  <2>5. pc'[w] = label
    BY <1>2, <2>4
  <2>6. Stage(w, m)'
    BY <2>3, <2>5 DEF Stage, At
  <2>. QED
    BY <1>2, <2>1, <2>4, <2>6, GoesOn DEF PCs
<1>15. CASE Send(w)
  <2>1. /\ pc[w] = "send" /\ UNCHANGED stream /\ replies' = Append(replies, Reply(w))
        /\ contents' = [contents EXCEPT ![w] = <<>>] /\ pc' = [pc EXCEPT ![w] = "recv"]
    BY <1>15 DEF Send, At, Goto, Cleared
  <2>2. contents'[w] = <<>> /\ pc'[w] = "recv"
    BY <1>2, <2>1 DEF Filled, StreamTypes
  <2>3. stream = <<>> /\ (Len(replies) = m - 1 \/ shut)
    BY <1>2, <2>1 DEF Stage, Answering
  <2>4. Len(replies) = m - 1 => Len(replies') = m
    <3>1. PICK S : replies \in Seq(S)
      BY DEF Ordered
    <3>2. replies \in Seq(S \cup {Reply(w)})
      BY <3>1, SeqMonotonic
    <3>3. Len(replies') = Len(replies) + 1
      BY <2>1, <3>2, AppendProperties
    <3>. QED
      BY <1>2, <3>3
  <2>5. Stage(w, m)'
    BY <1>1, <2>1, <2>2, <2>3, <2>4 DEF Stage, At
  <2>. QED
    BY <1>2, <2>1, <2>5, GoesOn DEF PCs
<1>. QED
  BY <1>5, <1>6, <1>7, <1>8, <1>9, <1>10, <1>11, <1>12, <1>13, <1>14, <1>15 DEF Session

LEMMA OrderedStep == Inv /\ Filled /\ Ordered /\ [Next]_vars => Ordered'
<1>1. SUFFICES ASSUME Inv, Filled, Ordered, [Next]_vars PROVE Ordered'
  OBVIOUS
<1>2. \E S : replies' \in Seq(S)
  <2>1. PICK S : replies \in Seq(S)
    BY <1>1 DEF Ordered
  <2>2. CASE replies' = replies
    BY <2>1, <2>2
  <2>3. ASSUME NEW w \in Worker, Send(w) PROVE \E T : replies' \in Seq(T)
    <3>1. replies \in Seq(S \cup {Reply(w)})
      BY <2>1, SeqMonotonic
    <3>2. Append(replies, Reply(w)) \in Seq(S \cup {Reply(w)})
      BY <3>1, AppendProperties
    <3>. QED
      BY <2>3, <3>2 DEF Send
  <2>4. replies' = replies \/ \E w \in Worker : Send(w)
    BY <1>1 DEF Next, Session, Client, vars, Recv, RecvEnd, RecvThrows, Parse, PrintURI, ServeFile,
         RefuseCgi, ForkCgi, Exec, ExecFails, ScriptWrites, ScriptExits, WaitCgi, ReadPipe,
         SendFails, ClientSends, ClientShuts, ClientHangsUp, Terminate
  <2>. QED
    BY <2>2, <2>3, <2>4
<1>3. ASSUME PingPong, ~gone' PROVE \E m \in 0 .. Len(Requests) : Orderly(m)'
  <2>1. ~gone
    BY <1>1, <1>3 DEF Next, Session, Client, vars, Recv, RecvEnd, RecvThrows, Parse, PrintURI,
         ServeFile, RefuseCgi, ForkCgi, Exec, ExecFails, ScriptWrites, ScriptExits, WaitCgi,
         ReadPipe, Send, SendFails, ClientSends, ClientShuts, ClientHangsUp, Terminate, clientVars
  <2>2. PICK m \in 0 .. Len(Requests) : Orderly(m)
    BY <1>1, <1>3, <2>1 DEF Ordered
  <2>3. CASE \E w \in Worker : Session(w)
    BY <1>1, <2>1, <2>2, <2>3, WorkerOrderly
  <2>4. ASSUME NEW n \in 1 .. Len(Wire), ClientSends(n)
        PROVE  \E k \in 0 .. Len(Requests) : Orderly(k)'
    <3>1. n \in Nat
      BY WireType
    <3>. QED
      BY <1>1, <1>3, <2>1, <2>2, <2>4, <3>1, ClientStage
  <2>5. CASE ClientShuts \/ ClientHangsUp
    <3>1. UNCHANGED <<sent, stream, replies, pc, contents>> /\ (shut => shut')
      BY <2>5 DEF ClientShuts, ClientHangsUp
    <3>2. \A v \in Worker : Stage(v, m)'
      BY <2>2, <3>1 DEF Orderly, Stage, Answering, At
    <3>. QED
      BY <2>2, <3>1, <3>2 DEF Orderly
  <2>6. CASE Terminate
    <3>1. /\ UNCHANGED <<sent, stream, replies, shut, contents>> /\ pc' = [pc EXCEPT ![1] = "done"]
      BY <2>6 DEF Terminate, Goto, clientVars
    <3>2. \A v \in Worker : pc'[v] = IF v = 1 THEN "done" ELSE pc[v]
      BY <1>1, <3>1 DEF Inv, Pipes
    <3>3. ASSUME NEW v \in Worker PROVE Stage(v, m)'
      <4>1. CASE v = 1
        BY <3>2, <4>1 DEF Stage, At
      <4>2. CASE v # 1
        <5>1. Stage(v, m) /\ pc'[v] = pc[v]
          BY <2>2, <3>2, <4>2 DEF Orderly
        <5>2. pc[v] = "wait" => v + 1 \in Worker /\ pc'[v + 1] = pc[v + 1]
          BY <3>2, <5>1, WorkerInt DEF Stage, At
        <5>. QED
          BY <3>1, <5>1, <5>2 DEF Stage, Answering, At
      <4>. QED
        BY <4>1, <4>2
    <3>. QED
      BY <2>2, <3>1, <3>3 DEF Orderly
  <2>7. CASE UNCHANGED vars
    <3>1. UNCHANGED <<sent, stream, replies, pc, contents, shut>>
      BY <2>7 DEF vars, clientVars
    <3>2. \A v \in Worker : Stage(v, m)'
      BY <2>2, <3>1 DEF Orderly, Stage, Answering, At
    <3>. QED
      BY <2>2, <3>1, <3>2 DEF Orderly
  <2>. QED
    BY <1>1, <2>3, <2>4, <2>5, <2>6, <2>7 DEF Next, Client
<1>. QED
  BY <1>2, <1>3 DEF Ordered

(* The requests of a client that waits for each reply are read one by one and *)
(* whole, whatever their size, and each is answered before the next is read:  *)
(* session() gets by without a notion of where a request ends.               *)
THEOREM RequestsInOrder == Spec => []RequestsWholeInOrder
<1>1. ASSUME Ordered, PingPong, ~gone, NEW w \in Worker, At(w, "parse")
      PROVE  /\ contents[w] = Bytes(contents[w][1].req)
             /\ contents[w][1].req = Len(replies) + 1
  <2>1. PICK m \in 0 .. Len(Requests) : Orderly(m)
    BY <1>1 DEF Ordered
  <2>2. m > 0 /\ contents[w] = Bytes(m) /\ Len(replies) = m - 1
    BY <1>1, <2>1 DEF Orderly, Stage, Answering, At
  <2>3. m \in 1 .. Len(Requests) /\ (m - 1) + 1 = m
    BY <2>2, RequestsSeq
  <2>4. Bytes(m)[1].req = m
    BY <2>3, BytesType
  <2>. QED
    BY <2>2, <2>3, <2>4
<1>2. Ordered => RequestsWholeInOrder
  BY <1>1 DEF RequestsWholeInOrder
<1>. QED
  BY <1>2, InvInitially, InvInductive, FilledInitially, FilledStep, OrderedInitially, OrderedStep,
     PTL DEF Spec

=============================================================================
