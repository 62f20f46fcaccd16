------------------------------- MODULE Server -------------------------------
(***************************************************************************)
(* The process supervisor of task-http/src/server.cpp.                     *)
(*                                                                         *)
(* One process accepts connections and forks a session process for each.  *)
(* Its state is shared, without any lock, by three flows of control that   *)
(* interrupt one another: main(), the SIGCHLD handler child_signal() and   *)
(* the handler server_stop() of the stop signals.  A helper process, the   *)
(* watcher, waits for ENTER and then sends SIGUSR1 to its parent.          *)
(*                                                                         *)
(* sockaddr_in::sin_len ties the program to the BSD family, so signal()    *)
(* has the BSD semantics: the handler stays installed, its own signal is   *)
(* blocked while it runs, the others are not, and accept() is restarted.   *)
(* A standard signal is a pending bit, it does not count.                  *)
(***************************************************************************)
EXTENDS Integers, FiniteSets, SequencesExt

CONSTANTS
  Pid,         (* process ids a session process can get; reusable once reaped  *)
  Conn,        (* client connections                                           *)
  Server,      (* the process that runs main()                                 *)
  Watcher,     (* the process that waits for ENTER                             *)
  Script,      (* the CGI children of a session, taken together                *)
  Failed,      (* the -1 that fork() and wait() return on failure              *)
  None,        (* no connection                                                *)
  Backlog,     (* the argument of listen(): 32 in the code                     *)
  Faults,      (* the calls that may fail: a subset of {"fork","bind","accept"}*)
  Interrupts,  (* the stop signals the operator uses: some of "INT", "TERM"    *)
  JobControl   (* whether session processes may be stopped and continued       *)

ASSUME ProcessAssumption ==
  /\ Server \notin Pid
  /\ Watcher \notin Pid \cup {Server}
  /\ Failed \notin Pid \cup {Server, Watcher}
  /\ Script \notin Pid \cup {Server}
ASSUME ConnAssumption  == None \notin Conn
ASSUME LimitAssumption == Backlog \in Nat \ {0} /\ JobControl \in BOOLEAN
ASSUME OperatorAssumption == Interrupts \subseteq {"INT", "TERM"}

(* SIGINT is the keyboard interrupt: it goes to the whole foreground process  *)
(* group.  SIGTERM goes to the server alone; so does the watcher's SIGUSR1.   *)
(* (SIGQUIT has the same handler and the same senders as SIGINT.)             *)
StopSignals == {"INT", "TERM", "USR1"}

VARIABLES
  \* main()
  pc,           (* where main() is                                          *)
  proc,         (* local proc: what the last fork() returned                *)
  conn,         (* local conn: the accepted socket the server still holds   *)
  clients,      (* the global vector of session pids                        *)
  tail,         (* slots a flow of control that cached the old end of the   *)
                (* vector can still reach after an erase shortened it       *)
  \* the handlers
  running,      (* the flow of control on top of the stack                  *)
  chld,         (* where child_signal() is; SIGCHLD is blocked unless idle  *)
  reaped,       (* its local child: what wait() returned                    *)
  stop,         (* where server_stop() is                                   *)
  next,         (* the iterator of its loop                                 *)
  chldPending, stopPending, stopBlocked,
  \* the other processes
  session,      (* [Pid -> state of the session process]                    *)
  serves,       (* [Pid -> the connection it was forked for]                *)
  copy,         (* [Pid -> the clients it inherited, while it still has the *)
                (* parent's handlers]                                       *)
  suspended,    (* session processes stopped by job control                 *)
  watcher,      (* state of the watcher                                     *)
  term,         (* processes with a stop signal pending, the server's apart *)
  \* sockets
  phase,        (* [Conn -> state of the connection]                        *)
  holders,      (* [Conn -> processes with its descriptor open]             *)
  listeners,    (* processes through which the listening socket is open     *)
  \* history
  misdirected,  (* what server_stop() has signalled other than its children *)
  overrun       (* child_signal() erased clients.end()                      *)

mainVars    == <<pc, proc, conn>>
listVars    == <<clients, tail>>
handlerVars == <<running, chld, reaped, stop, next>>
signalVars  == <<chldPending, stopPending, stopBlocked>>
childVars   == <<session, serves, copy, suspended, watcher>>
socketVars  == <<phase, holders, listeners>>
historyVars == <<misdirected, overrun>>
vars == <<mainVars, listVars, handlerVars, signalVars, childVars, term,
          socketVars, historyVars>>

MainPCs     == {"watcher", "listen", "accept", "fork", "push", "store", "drop", "dead"}
ChldPCs     == {"idle", "wait", "erase"}
StopPCs     == {"idle", "kill", "close", "exit"}
SessionSt   == {"free", "forked", "serving", "zombie"}
WatcherSt   == {"none", "forked", "reading", "notify", "leaving", "zombie", "gone"}
Phases      == {"idle", "queued", "aborted", "accepted", "refused"}
Slots       == Pid \cup {Failed}            \* what the vector can hold
Processes   == Pid \cup {Server, Watcher}

TypeOK ==
  /\ pc \in MainPCs /\ proc \in Slots /\ conn \in Conn \cup {None}
  /\ clients \in Seq(Slots) /\ tail \in Seq(Slots)
  /\ running \in {"main", "chld", "stop"}
  /\ chld \in ChldPCs /\ reaped \in Slots \cup {Watcher}
  /\ stop \in StopPCs /\ next \in Nat
  /\ chldPending \in BOOLEAN
  /\ stopPending \subseteq StopSignals /\ stopBlocked \subseteq StopSignals
  /\ session \in [Pid -> SessionSt] /\ serves \in [Pid -> Conn \cup {None}]
  /\ copy \in [Pid -> SUBSET Slots] /\ suspended \subseteq Pid
  /\ watcher \in WatcherSt /\ term \subseteq Pid \cup {Watcher}
  /\ phase \in [Conn -> Phases] /\ holders \in [Conn -> SUBSET (Processes \cup {Script})]
  /\ listeners \subseteq Processes
  /\ misdirected \subseteq {"everyone", "stranger"}
  /\ overrun \in BOOLEAN

-----------------------------------------------------------------------------
(* Helpers.                                                                  *)

LiveSessions == {p \in Pid : session[p] \in {"forked", "serving"}}
WatcherLives == watcher \in {"forked", "reading", "notify", "leaving"}
Live         == LiveSessions \cup (IF WatcherLives THEN {Watcher} ELSE {})
Zombies      == {p \in Pid : session[p] = "zombie"}
                  \cup (IF watcher = "zombie" THEN {Watcher} ELSE {})
HasChildren  == Live \cup Zombies # {}
Queued       == {c \in Conn : phase[c] = "queued"}

(* A process closes the listening socket; the last one resets the clients   *)
(* the kernel still has queued.                                              *)
CloseListening(p) ==
  /\ listeners' = listeners \ {p}
  /\ phase' = IF listeners \ {p} = {}
              THEN [c \in Conn |-> IF phase[c] = "queued" THEN "refused" ELSE phase[c]]
              ELSE phase

(* kill(x, SIGTERM) for every x of xs: the processes of this system it       *)
(* reaches (-1 stands for every process the caller may signal), and the      *)
(* targets that are no child of the server.                                  *)
KillReaches(xs) == IF Failed \in xs THEN Live ELSE Live \cap xs
Misdirects(xs) ==
  {k \in {"everyone", "stranger"} :
     IF k = "everyone" THEN Failed \in xs
     ELSE \E p \in xs \cap Pid : session[p] = "free"}

(* Session process p ends: its descriptors close, the parent gets SIGCHLD    *)
(* and p stays a zombie until it is waited for.  Orphans are reaped by init. *)
(* The descriptors its CGI children have inherited stay open.                *)
SessionEnds(p) ==
  /\ session' = [session EXCEPT ![p] = IF pc = "dead" THEN "free" ELSE "zombie"]
  /\ serves' = [serves EXCEPT ![p] = None]
  /\ copy' = [copy EXCEPT ![p] = {}]
  /\ holders' = [c \in Conn |-> holders[c] \ {p}]
  /\ CloseListening(p)
  /\ chldPending' = (pc # "dead")

(* The server process is gone, by exit(), abort() or a crash.                *)
ServerEnds ==
  /\ pc' = "dead" /\ proc' = Failed /\ conn' = None
  /\ clients' = <<>> /\ tail' = <<>>
  /\ running' = "main" /\ chld' = "idle" /\ reaped' = Failed
  /\ stop' = "idle" /\ next' = 1
  /\ chldPending' = FALSE /\ stopPending' = {} /\ stopBlocked' = {}
  /\ session' = [p \in Pid |-> IF session[p] = "zombie" THEN "free" ELSE session[p]]
  /\ watcher' = IF watcher = "zombie" THEN "gone" ELSE watcher
  /\ holders' = [c \in Conn |-> holders[c] \ {Server}]
  /\ CloseListening(Server)
  /\ UNCHANGED <<serves, copy, suspended, term>>

-----------------------------------------------------------------------------
(* main()                                                                    *)

InMain(label) == running = "main" /\ pc = label

Init ==
  /\ pc = "watcher" /\ proc = Failed /\ conn = None
  /\ clients = <<>> /\ tail = <<>>
  /\ running = "main" /\ chld = "idle" /\ reaped = Failed
  /\ stop = "idle" /\ next = 1
  /\ chldPending = FALSE /\ stopPending = {} /\ stopBlocked = {}
  /\ session = [p \in Pid |-> "free"] /\ serves = [p \in Pid |-> None]
  /\ copy = [p \in Pid |-> {}] /\ suspended = {}
  /\ watcher = "none" /\ term = {}
  /\ phase = [c \in Conn |-> "idle"] /\ holders = [c \in Conn |-> {}]
  /\ listeners = {}
  /\ misdirected = {} /\ overrun = FALSE

(* Mutant: the watcher is entered into the list of client children.          *)
MutForkWatcher ==
  /\ InMain("watcher")
  /\ pc' = "listen" /\ watcher' = "forked" /\ clients' = Append(clients, Watcher)
  /\ UNCHANGED <<proc, conn, tail, handlerVars, signalVars, session, serves,
                 copy, suspended, term, socketVars, historyVars>>

(* if (fork() == 0) { ... }: a failed fork() goes on without a watcher.      *)
ForkWatcher ==
  /\ InMain("watcher")
  /\ pc' = "listen"
  /\ \/ watcher' = "forked"
     \/ "fork" \in Faults /\ UNCHANGED watcher
  /\ UNCHANGED <<proc, conn, listVars, handlerVars, signalVars, session, serves,
                 copy, suspended, term, socketVars, historyVars>>

(* server.bind(), server.listen().  The socket was created before main(), so *)
(* a watcher that is still there has it open too.                            *)
Listen ==
  /\ InMain("listen")
  /\ pc' = "accept"
  /\ listeners' = {Server} \cup (IF WatcherLives THEN {Watcher} ELSE {})
  /\ UNCHANGED <<proc, conn, listVars, handlerVars, signalVars, childVars, term,
                 phase, holders, historyVars>>

(* bind() throws a socket_error nobody catches.                              *)
BindThrows ==
  /\ InMain("listen") /\ "bind" \in Faults
  /\ ServerEnds
  /\ UNCHANGED historyVars

Accept(c) ==
  /\ InMain("accept") /\ phase[c] = "queued"
  /\ phase' = [phase EXCEPT ![c] = "accepted"]
  /\ holders' = [holders EXCEPT ![c] = {Server}]
  /\ conn' = c /\ pc' = "fork"
  /\ UNCHANGED <<proc, listVars, handlerVars, signalVars, childVars, term,
                 listeners, historyVars>>

(* accept() fails on a connection that was aborted in the queue and throws a *)
(* socket_error nobody catches.                                              *)
AcceptThrows(c) ==
  /\ InMain("accept") /\ phase[c] = "aborted"
  /\ ServerEnds
  /\ UNCHANGED historyVars

(* The child inherits both sockets, the handlers and a copy of clients.      *)
Fork(p) ==
  /\ InMain("fork") /\ session[p] = "free"
  /\ session' = [session EXCEPT ![p] = "forked"]
  /\ serves' = [serves EXCEPT ![p] = conn]
  /\ copy' = [copy EXCEPT ![p] = ToSet(clients)]
  /\ holders' = [c \in Conn |-> IF Server \in holders[c] THEN holders[c] \cup {p}
                                                        ELSE holders[c]]
  /\ listeners' = IF Server \in listeners THEN listeners \cup {p} ELSE listeners
  /\ proc' = p /\ pc' = "push"
  /\ UNCHANGED <<conn, listVars, handlerVars, signalVars, suspended, watcher, term,
                 phase, historyVars>>

(* The result is not compared with -1.                                       *)
ForkFails ==
  /\ InMain("fork") /\ "fork" \in Faults
  /\ proc' = Failed /\ pc' = "push"
  /\ UNCHANGED <<conn, listVars, handlerVars, signalVars, childVars, term,
                 socketVars, historyVars>>

(* clients.push_back(proc): load the end of the vector, ...                  *)
PushLoad ==
  /\ InMain("push")
  /\ pc' = "store" /\ tail' = <<>>
  /\ UNCHANGED <<proc, conn, clients, handlerVars, signalVars, childVars, term,
                 socketVars, historyVars>>

(* ... then write the slot there and store the new end.  An erase between    *)
(* the two is undone: the slots it had shifted out are inside again.         *)
PushStore ==
  /\ InMain("store")
  /\ clients' = Append(clients \o tail, proc) /\ tail' = <<>>
  /\ pc' = "drop"
  /\ UNCHANGED <<proc, conn, handlerVars, signalVars, childVars, term,
                 socketVars, historyVars>>

(* conn goes out of scope: ~Socket() closes the server's descriptor.         *)
MutDropped(c) == holders[c]
Dropped(c) == holders[c] \ {Server}

DropConn ==
  /\ InMain("drop")
  /\ holders' = [holders EXCEPT ![conn] = Dropped(conn)]
  /\ conn' = None /\ proc' = Failed /\ pc' = "accept"
  /\ UNCHANGED <<listVars, handlerVars, signalVars, childVars, term,
                 phase, listeners, historyVars>>

-----------------------------------------------------------------------------
(* child_signal()                                                            *)

DeliverChld ==
  /\ chldPending /\ chld = "idle" /\ pc # "dead"
  /\ chldPending' = FALSE
  /\ running' = "chld" /\ chld' = "wait"
  /\ UNCHANGED <<mainVars, listVars, reaped, stop, next, stopPending, stopBlocked,
                 childVars, term, socketVars, historyVars>>

(* wait(NULL) returns some terminated child, blocks while there is none, and *)
(* fails when there are no children at all.                                  *)
Wait ==
  /\ running = "chld" /\ chld = "wait"
  /\ \/ /\ Zombies \ {Watcher} # {}
        /\ \E p \in Zombies \ {Watcher} :
             /\ reaped' = p
             /\ session' = [session EXCEPT ![p] = "free"]
        /\ UNCHANGED watcher
     \/ /\ watcher = "zombie"
        /\ reaped' = Watcher /\ watcher' = "gone"
        /\ UNCHANGED session
     \/ /\ ~HasChildren
        /\ reaped' = Failed
        /\ UNCHANGED <<session, watcher>>
  /\ chld' = "erase"
  /\ UNCHANGED <<mainVars, listVars, running, stop, next, signalVars, serves, copy,
                 suspended, term, socketVars, historyVars>>

(* What a flow of control that cached the old end of the vector will read    *)
(* beyond the new one.                                                       *)
TailAfterErase ==
  IF pc = "store" \/ stop = "kill" THEN <<Last(clients)>> \o tail ELSE <<>>

(* Mutant: while (wait(NULL) > 0) in place of one wait(NULL).                 *)
MutReturnFromChld == chld' = "wait" /\ UNCHANGED running
ReturnFromChld ==
  /\ chld' = "idle"
  /\ running' = IF stop = "idle" THEN "main" ELSE "stop"

(* std::find(clients.begin(), clients.end(), child) returns iterator i; the   *)
(* mutant erases clients.begin().                                            *)
MutFinds(i) == i = 1
Finds(i) == clients[i] = reaped /\ \A j \in 1 .. i - 1 : clients[j] # reaped

(* clients.erase(find(...)) of a pid that is in the vector.                  *)
Erase ==
  /\ running = "chld" /\ chld = "erase"
  /\ \E i \in DOMAIN clients : Finds(i) /\ clients' = RemoveAt(clients, i)
  /\ tail' = TailAfterErase
  /\ ReturnFromChld
  /\ UNCHANGED <<mainVars, reaped, stop, next, signalVars, childVars, term,
                 socketVars, historyVars>>

(* clients.erase(clients.end()) is undefined: depending on the library the   *)
(* process crashes or the vector loses its last element.                     *)
EraseEnd ==
  /\ running = "chld" /\ chld = "erase" /\ reaped \notin ToSet(clients)
  /\ overrun' = TRUE /\ UNCHANGED misdirected
  /\ \/ ServerEnds
     \/ /\ clients' = Front(clients)
        /\ tail' = IF clients = <<>> THEN tail ELSE TailAfterErase
        /\ ReturnFromChld
        /\ UNCHANGED <<mainVars, reaped, stop, next, signalVars, childVars, term,
                       socketVars>>

-----------------------------------------------------------------------------
(* server_stop()                                                             *)

(* The handler never returns, so a stop signal once delivered stays blocked; *)
(* another one starts the handler again on top of the first.                 *)
DeliverStop(s) ==
  /\ s \in stopPending \ stopBlocked /\ pc # "dead"
  /\ stopPending' = stopPending \ {s} /\ stopBlocked' = stopBlocked \cup {s}
  /\ running' = "stop" /\ stop' = "kill" /\ next' = 1 /\ tail' = <<>>
  /\ UNCHANGED <<mainVars, clients, chld, reaped, chldPending, childVars, term,
                 socketVars, historyVars>>

(* One round of for (pid_t client: clients) kill(client, SIGTERM).  The loop *)
(* cached the end of the vector when it began.                               *)
KillNext ==
  /\ running = "stop" /\ stop = "kill" /\ next <= Len(clients \o tail)
  /\ LET target == {(clients \o tail)[next]} IN
       /\ term' = term \cup KillReaches(target)
       /\ misdirected' = misdirected \cup Misdirects(target)
  /\ next' = next + 1
  /\ UNCHANGED <<mainVars, listVars, running, chld, reaped, stop, signalVars,
                 childVars, socketVars, overrun>>

KillDone ==
  /\ running = "stop" /\ stop = "kill" /\ next > Len(clients \o tail)
  /\ stop' = "close" /\ tail' = <<>>
  /\ UNCHANGED <<mainVars, clients, running, chld, reaped, next, signalVars,
                 childVars, term, socketVars, historyVars>>

CloseServer ==
  /\ running = "stop" /\ stop = "close"
  /\ CloseListening(Server)
  /\ stop' = "exit"
  /\ UNCHANGED <<mainVars, listVars, running, chld, reaped, next, signalVars,
                 childVars, term, holders, historyVars>>

(* Mutant: server_stop() returns in place of std::exit(0).                    *)
MutExitServer ==
  /\ running = "stop" /\ stop = "exit"
  /\ stop' = "idle" /\ running' = IF chld = "idle" THEN "main" ELSE "chld"
  /\ UNCHANGED <<mainVars, listVars, chld, reaped, next, signalVars, childVars,
                 term, socketVars, historyVars>>

ExitServer ==
  /\ running = "stop" /\ stop = "exit"
  /\ ServerEnds
  /\ UNCHANGED historyVars

-----------------------------------------------------------------------------
(* Session processes and the watcher.                                        *)

Runs(p) == p \notin suspended \cup term

(* Mutant: the session process keeps the listening socket.                   *)
MutResetSession(p) ==
  /\ session[p] = "forked" /\ Runs(p)
  /\ session' = [session EXCEPT ![p] = "serving"]
  /\ copy' = [copy EXCEPT ![p] = {}]
  /\ UNCHANGED <<mainVars, listVars, handlerVars, signalVars, serves, suspended,
                 watcher, term, socketVars, historyVars>>

(* signal(..., SIG_DFL) five times, then server.close().                     *)
ResetSession(p) ==
  /\ session[p] = "forked" /\ Runs(p)
  /\ session' = [session EXCEPT ![p] = "serving"]
  /\ copy' = [copy EXCEPT ![p] = {}]
  /\ CloseListening(p)
  /\ UNCHANGED <<mainVars, listVars, handlerVars, signalVars, serves, suspended,
                 watcher, term, holders, historyVars>>

(* p is in waitpid(), between fork() and the end of a CGI child.               *)
AwaitsScript(p) == \E c \in Conn : {p, Script} \subseteq holders[c]

(* fork() for a CGI script: the child has the connection, which nothing        *)
(* closes in execl(), or serves on it if execl() fails.                       *)
ScriptStarts(p) ==
  /\ session[p] = "serving" /\ Runs(p) /\ ~AwaitsScript(p)
  /\ holders' = [c \in Conn |-> IF p \in holders[c] THEN holders[c] \cup {Script}
                                                   ELSE holders[c]]
  /\ UNCHANGED <<mainVars, listVars, handlerVars, signalVars, childVars, term,
                 phase, listeners, historyVars>>

(* The CGI children of c are gone.  A session may have ended before them.     *)
ScriptEnds(c) ==
  /\ Script \in holders[c]
  /\ holders' = [holders EXCEPT ![c] = @ \ {Script}]
  /\ UNCHANGED <<mainVars, listVars, handlerVars, signalVars, childVars, term,
                 phase, listeners, historyVars>>

(* session() returns and the process exits, or an exception leaves session() *)
(* and aborts it; either way not within waitpid().                           *)
SessionReturns(p) ==
  /\ session[p] = "serving" /\ Runs(p) /\ ~AwaitsScript(p)
  /\ SessionEnds(p)
  /\ UNCHANGED <<mainVars, listVars, handlerVars, stopPending, stopBlocked,
                 suspended, watcher, term, historyVars>>

(* The default action of a stop signal.                                      *)
SessionKilled(p) ==
  /\ session[p] = "serving" /\ p \in term \ suspended
  /\ SessionEnds(p)
  /\ term' = term \ {p}
  /\ UNCHANGED <<mainVars, listVars, handlerVars, stopPending, stopBlocked,
                 suspended, watcher, historyVars>>

(* A stop signal that arrives before the handlers are reset runs the         *)
(* inherited server_stop() in the child, over the child's copy of clients.   *)
(* -1 in that copy reaches the server as well.                               *)
InheritedStop(p) ==
  /\ session[p] = "forked" /\ p \in term \ suspended
  /\ SessionEnds(p)
  /\ term' = (term \cup KillReaches(copy[p])) \ {p}
  /\ misdirected' = misdirected \cup Misdirects(copy[p])
  /\ stopPending' = IF Failed \in copy[p] /\ pc # "dead"
                    THEN stopPending \cup {"TERM"} ELSE stopPending
  /\ UNCHANGED <<mainVars, listVars, handlerVars, stopBlocked, suspended, watcher,
                 overrun>>

(* Job control: stopping a child raises SIGCHLD in its parent.               *)
Suspend(p) ==
  /\ JobControl /\ session[p] = "serving" /\ p \notin suspended
  /\ suspended' = suspended \cup {p}
  /\ chldPending' = (pc # "dead")
  /\ UNCHANGED <<mainVars, listVars, handlerVars, stopPending, stopBlocked, session,
                 serves, copy, watcher, term, socketVars, historyVars>>

Resume(p) ==
  /\ p \in suspended
  /\ suspended' = suspended \ {p}
  /\ UNCHANGED <<mainVars, listVars, handlerVars, signalVars, session, serves, copy,
                 watcher, term, socketVars, historyVars>>

WatcherStep(from, to) ==
  /\ watcher = from /\ Watcher \notin term /\ watcher' = to
  /\ UNCHANGED <<mainVars, listVars, handlerVars, chldPending, stopBlocked, session,
                 serves, copy, suspended, term, socketVars, historyVars>>

ResetWatcher == WatcherStep("forked", "reading") /\ UNCHANGED stopPending

(* read(0, ...) returns: ENTER, or the end of standard input.                *)
Enter == WatcherStep("reading", "notify") /\ UNCHANGED stopPending

(* kill(getppid(), SIGUSR1): the parent of an orphan is init, which is not a  *)
(* process of this model.                                                    *)
NotifyParent ==
  /\ WatcherStep("notify", "leaving")
  /\ stopPending' = IF pc = "dead" THEN stopPending ELSE stopPending \cup {"USR1"}

(* exit(0), or a stop signal.  A watcher that still has the inherited        *)
(* server_stop() runs it over an empty vector and exits as well.             *)
WatcherEnds ==
  /\ watcher = "leaving" \/ (WatcherLives /\ Watcher \in term)
  /\ watcher' = IF pc = "dead" THEN "gone" ELSE "zombie"
  /\ term' = term \ {Watcher}
  /\ CloseListening(Watcher)
  /\ chldPending' = (pc # "dead")
  /\ UNCHANGED <<mainVars, listVars, handlerVars, stopPending, stopBlocked, session,
                 serves, copy, suspended, holders, historyVars>>

-----------------------------------------------------------------------------
(* The environment: clients and the operator.                                *)

Connect(c) ==
  /\ phase[c] = "idle" /\ listeners # {} /\ Cardinality(Queued) < Backlog
  /\ phase' = [phase EXCEPT ![c] = "queued"]
  /\ UNCHANGED <<mainVars, listVars, handlerVars, signalVars, childVars, term,
                 holders, listeners, historyVars>>

AbortInQueue(c) ==
  /\ "accept" \in Faults /\ phase[c] = "queued"
  /\ phase' = [phase EXCEPT ![c] = "aborted"]
  /\ UNCHANGED <<mainVars, listVars, handlerVars, signalVars, childVars, term,
                 holders, listeners, historyVars>>

Interrupt(s) ==
  /\ pc # "dead"
  /\ stopPending' = stopPending \cup {s}
  /\ term' = IF s = "INT" THEN term \cup Live ELSE term
  /\ UNCHANGED <<mainVars, listVars, handlerVars, chldPending, stopBlocked,
                 childVars, socketVars, historyVars>>

-----------------------------------------------------------------------------

Main ==
  \/ ForkWatcher \/ Listen \/ BindThrows
  \/ \E c \in Conn : Accept(c) \/ AcceptThrows(c)
  \/ \E p \in Pid : Fork(p)
  \/ ForkFails \/ PushLoad \/ PushStore \/ DropConn
ChildSignal == DeliverChld \/ Wait \/ Erase \/ EraseEnd
ServerStop  == \/ \E s \in StopSignals : DeliverStop(s)
               \/ KillNext \/ KillDone \/ CloseServer \/ ExitServer
Session(p)  == ResetSession(p) \/ SessionKilled(p) \/ InheritedStop(p)
WatcherRuns == ResetWatcher \/ NotifyParent \/ WatcherEnds
Environment ==
  \/ \E c \in Conn : Connect(c) \/ AbortInQueue(c) \/ ScriptEnds(c)
  \/ \E p \in Pid : ScriptStarts(p) \/ SessionReturns(p) \/ Suspend(p) \/ Resume(p)
  \/ Enter \/ \E s \in Interrupts : Interrupt(s)

Next == \/ Main \/ ChildSignal \/ ServerStop \/ WatcherRuns
        \/ \E p \in Pid : Session(p)
        \/ Environment

Spec == Init /\ [][Next]_vars

(* The kernel schedules every process that can run and delivers pending      *)
(* signals.  Nothing is assumed of the clients, of the operator or of how    *)
(* long a session or a script lasts.                                         *)
Fairness ==
  /\ WF_vars(Main) /\ WF_vars(ChildSignal) /\ WF_vars(ServerStop)
  /\ WF_vars(WatcherRuns) /\ \A p \in Pid : WF_vars(Session(p))

FairSpec == Spec /\ Fairness

-----------------------------------------------------------------------------
(* Safety.                                                                   *)

(* As long as nobody uses job control, SIGCHLD only tells of exits, and       *)
(* child_signal() consumes at most one terminated child per delivery: its    *)
(* wait(NULL) never blocks the server.                                       *)
WaitFindsZombie == chld = "wait" => Zombies # {}

(* No session process has another client's connection open: the server has   *)
(* closed its copy of the last one before it forks for the next.             *)
SessionIsolation ==
  \A p \in Pid, c \in Conn : p \in holders[c] => serves[p] = c

(* Every session process the server has not waited for is in the vector, or  *)
(* is about to be pushed, whatever the handlers interrupted - unless some    *)
(* call of child_signal() has already erased clients.end().                  *)
RegisteredUnlessOverrun ==
  ~overrun /\ pc # "dead" =>
    \A p \in Pid : session[p] # "free" =>
      \/ p \in ToSet(clients)
      \/ proc = p /\ pc \in {"push", "store"}

(* "Terminate all children": when the loop of server_stop() is through, every  *)
(* live session process has been sent SIGTERM - unless child_signal() erased  *)
(* from the vector under the loop (or clients.end(), ever), or the stop signal *)
(* came between fork() and the end of push_back().                           *)
ChildrenTerminated ==
  [][KillDone /\ tail = <<>> /\ ~overrun /\ pc \notin {"push", "store"}
       => LiveSessions \subseteq term]_vars

(* "Terminate all children": and nothing but children.                       *)
OnlyChildrenTerminated == misdirected = {}

-----------------------------------------------------------------------------
(* Liveness.                                                                 *)

(* A stop signal stops the server, whatever it was doing.                    *)
StopSignalStops == stopPending # {} ~> pc = "dead"

(* A client in the listen queue gets out of it - accepted or aborted - unless *)
(* the server ends first: no run of child_signal() keeps main() from         *)
(* accept(), however many zombies it has missed.                             *)
QueueDrains ==
  \A c \in Conn : phase[c] = "queued" ~> phase[c] # "queued" \/ pc = "dead"

(* A connection whose session process is over is closed, unless a CGI child   *)
(* that server_stop() has left alive still has it: neither the server nor the *)
(* session of another client keeps the end of the stream from its client.     *)
ConnectionReleased ==
  \A c \in Conn :
    phase[c] = "accepted" /\ (\A p \in Pid : serves[p] # c)
      ~> holders[c] \subseteq {Script} \/ \E p \in Pid : serves[p] = c

(* Once the server and the watcher are gone no session process keeps the     *)
(* port in use.                                                              *)
PortReleased == pc = "dead" /\ ~WatcherLives ~> listeners = {}

-----------------------------------------------------------------------------
(* The server of server.cpp implements Connections: what the phase of a       *)
(* connection and the descriptors that are open for it are to a client.       *)

(* accept() has returned and the session process is still to be forked.      *)
Forking(c) == conn = c /\ pc = "fork"

StatusOf(c) ==
  CASE phase[c] \in {"idle", "queued"}                           -> phase[c]
    [] phase[c] = "accepted" /\ Forking(c)                       -> "accepted"
    [] phase[c] = "accepted" /\ ~Forking(c) /\ holders[c] # {}   -> "served"
    [] OTHER                                                     -> "closed"
OwnerOf(c) == IF holders[c] \cap Pid = {} THEN None
              ELSE CHOOSE p \in Pid : p \in holders[c]

Abstract == INSTANCE Connections WITH status <- [c \in Conn |-> StatusOf(c)],
                                      owner  <- [c \in Conn |-> OwnerOf(c)]

ImplementsConnections == Abstract!Spec

=============================================================================
